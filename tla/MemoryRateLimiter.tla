------------------------- MODULE MemoryRateLimiter --------------------------
(***************************************************************************)
(* SlidingWindowRateLimiter of src/core/memory-stores.ts.  allow() has no  *)
(* await in it, so that each call is one step.  Time is in ticks, Window   *)
(* of them make up the 60000 ms of the code.                               *)
(***************************************************************************)
EXTENDS Integers, Sequences

CONSTANTS
  Subject,     \* "channel:sender" strings
  PerMinute,   \* config.rateLimitPerMinute, a positive number that need
  Parts,       \* not be whole: PerMinute parts of which Parts make 1
  Window,      \* length of a window
  MaxTime      \* bound on the clock

LimiterParameters ==
  /\ PerMinute \in Nat \ {0} /\ Parts \in Nat \ {0}
  /\ Window \in Nat \ {0} /\ MaxTime \in Nat

VARIABLES
  now,         \* the Date.now() of the calls
  counters,    \* windowStartMs and count of each subject that has an entry
  allowed      \* history: when each subject's calls were let through, in order

vars == <<now, counters, allowed>>

Time == 0 .. MaxTime

NoEntry == [windowStart |-> 0, count |-> 0]

Init ==
  /\ now = 0
  /\ counters = [s \in Subject |-> NoEntry]
  /\ allowed = [s \in Subject |-> << >>]

\* Mutant: the window is over a tick too soon.
StaleTooSoon(s) ==
  counters[s] = NoEntry \/ now - counters[s].windowStart >= Window - 1

\* The subject has no window, or its window has passed.
Stale(s) == counters[s] = NoEntry \/ now - counters[s].windowStart >= Window

LetThrough(s) == allowed' = [allowed EXCEPT ![s] = Append(@, now)]

\* Mutant: the count starts again in the old window.
OpenWindowNotMoved(s) ==
  /\ Stale(s)
  /\ counters' = [counters EXCEPT ![s].count = 1]
  /\ LetThrough(s)
  /\ UNCHANGED now

OpenWindow(s) ==
  /\ Stale(s)
  /\ counters' = [counters EXCEPT ![s] = [windowStart |-> now, count |-> 1]]
  /\ LetThrough(s)
  /\ UNCHANGED now

HasRoom(s) == counters[s].count * Parts < PerMinute

CountUp(s) ==
  /\ ~Stale(s)
  /\ HasRoom(s)
  /\ counters' = [counters EXCEPT ![s].count = @ + 1]
  /\ LetThrough(s)
  /\ UNCHANGED now

\* Mutant: a refused message counts too, as it does in Redis.
RefuseCounting(s) ==
  /\ ~Stale(s)
  /\ ~HasRoom(s)
  /\ counters' = [counters EXCEPT ![s].count = @ + 1]
  /\ UNCHANGED <<now, allowed>>

Refuse(s) ==
  /\ ~Stale(s)
  /\ ~HasRoom(s)
  /\ UNCHANGED vars

Tick == now < MaxTime /\ now' = now + 1 /\ UNCHANGED <<counters, allowed>>

Next ==
  \/ \E s \in Subject : OpenWindow(s) \/ CountUp(s) \/ Refuse(s)
  \/ Tick

Spec == Init /\ [][Next]_vars

-----------------------------------------------------------------------------
(* Properties *)

\* What a window lets through: PerMinute / Parts, rounded up.
Limit == (PerMinute + Parts - 1) \div Parts

TypeOK ==
  /\ now \in Time
  /\ counters \in [Subject -> [windowStart : Time, count : 0 .. Limit]]
  /\ allowed \in [Subject -> Seq(Time)]

\* Any minute sees at most 2 * Limit - 1 messages of a sender: the two
\* windows it can touch, without the first message of the earlier one.  Or:
\* of 2 * Limit messages in a row, the last comes a minute after the first.
MinuteBound ==
  \A s \in Subject : \A i, j \in DOMAIN allowed[s] :
    j = i + 2 * Limit - 1 => allowed[s][j] - allowed[s][i] >= Window

\* The counter of an open window is the number of messages let through since
\* it opened: nothing forgets a window before its time.
CounterExact ==
  \A s \in Subject :
    LET earlier == Len(allowed[s]) - counters[s].count
    IN /\ earlier >= 0
       /\ counters[s] # NoEntry =>
            \A i \in DOMAIN allowed[s] :
              allowed[s][i] >= counters[s].windowStart <=> i > earlier

\* docs/01_ARCHITECTURE.md:35, "Sliding window per-sender rate limiting": at
\* most PerMinute messages in any minute.  The windows do not slide.
SlidingWindow ==
  \A s \in Subject : \A i, j \in DOMAIN allowed[s] :
    j = i + Limit => allowed[s][j] - allowed[s][i] >= Window

=============================================================================
