-------------------------- MODULE RedisRateLimiter --------------------------
(***************************************************************************)
(* RedisSlidingWindowRateLimiter of src/core/redis-stores.ts, as used by   *)
(* any number of processes on one server.  A call takes its time stamp in  *)
(* processInbound, INCRs the key of the stamp's window when the request    *)
(* reaches the server, and, as the one that created the key, gives it its  *)
(* TTL by a second request.  Between the two the process may die.          *)
(***************************************************************************)
EXTENDS Naturals

CONSTANTS
  Call,        \* concurrent calls of allow(); a finished one is used again
  Subject,
  PerMinute,   \* config.rateLimitPerMinute, a positive number that need
  Parts,       \* not be whole: PerMinute parts of which Parts make 1
  Window,      \* the 60000 ms of a window, in ticks
  KeyTtl,      \* the 61 s a key lives
  MaxDelay,    \* longest time from the stamp to the INCR
  MaxTime,     \* bound on the clock
  MaxCount     \* bound on the calls of a window

\* A request may take as long as the TTL of a key exceeds the window.
ASSUME LimiterAssumption ==
  /\ PerMinute \in Nat \ {0} /\ Parts \in Nat \ {0}
  /\ MaxCount \in Nat /\ Window \in Nat \ {0} /\ MaxTime \in Nat
  /\ KeyTtl \in Nat /\ KeyTtl > Window
  /\ MaxDelay \in 0 .. KeyTtl - Window

VARIABLES
  now,         \* Date.now(), and the server's clock
  pc,          \* where each call is in allow()
  subject,     \* argument of each call
  stamp,       \* argument nowMs of each call
  count,       \* the counter of each subject and window, 0 when absent
  expiry,      \* when the server drops the key; NoTtl if nobody has said
  granted,     \* history: calls let through per subject and window
  leaked       \* history: keys whose creator never got to EXPIRE

vars == <<now, pc, subject, stamp, count, expiry, granted, leaked>>

WindowIndex(t) == t \div Window
Key == Subject \X (0 .. WindowIndex(MaxTime))
KeyOf(c) == <<subject[c], WindowIndex(stamp[c])>>

NoTtl == 0

Init ==
  /\ now = 0
  /\ pc = [c \in Call |-> "idle"]
  /\ subject \in [Call -> {CHOOSE s \in Subject : TRUE}]
  /\ stamp = [c \in Call |-> 0]
  /\ count = [k \in Key |-> 0]
  /\ expiry = [k \in Key |-> NoTtl]
  /\ granted = [k \in Key |-> 0]
  /\ leaked = {}

Ask(c, s) ==
  /\ pc[c] = "idle"
  /\ pc' = [pc EXCEPT ![c] = "incr"]
  /\ subject' = [subject EXCEPT ![c] = s]
  /\ stamp' = [stamp EXCEPT ![c] = now]
  /\ UNCHANGED <<now, count, expiry, granted, leaked>>

Grants(n) == n * Parts <= PerMinute

\* Mutant: off by one.
CreatedKeySecond(n) == n = 2

CreatedKey(n) == n = 1

\* The number a caller gets counts the refused ones too.
Incr(c) ==
  LET k == KeyOf(c)
      n == count[k] + 1
  IN /\ pc[c] = "incr"
     /\ n <= MaxCount
     /\ count' = [count EXCEPT ![k] = n]
     /\ granted' = [granted EXCEPT ![k] = IF Grants(n) THEN @ + 1 ELSE @]
     /\ pc' = [pc EXCEPT ![c] = IF CreatedKey(n) THEN "expire" ELSE "idle"]
     /\ UNCHANGED <<now, subject, stamp, expiry, leaked>>

Expire(c) ==
  /\ pc[c] = "expire"
  /\ expiry' = [expiry EXCEPT ![KeyOf(c)] = now + KeyTtl]
  /\ pc' = [pc EXCEPT ![c] = "idle"]
  /\ UNCHANGED <<now, subject, stamp, count, granted, leaked>>

\* The process of a call dies, or its request fails before it gets there.
Fail(c) ==
  /\ pc[c] # "idle"
  /\ pc' = [pc EXCEPT ![c] = "idle"]
  /\ leaked' = IF pc[c] = "expire" THEN leaked \cup {KeyOf(c)} ELSE leaked
  /\ UNCHANGED <<now, subject, stamp, count, expiry, granted>>

\* Mutant: the key lives exactly as long as a window, not a second more.
DueAfterWindow(k) ==
  expiry[k] # NoTtl /\ expiry[k] <= now + 1 + KeyTtl - Window

\* The key is gone by the next tick.
Due(k) == expiry[k] # NoTtl /\ expiry[k] <= now + 1

(* Time passes; the server drops the keys that are due.  No INCR comes     *)
(* later than MaxDelay behind its stamp, and all processes and the server  *)
(* have one clock.  That is assumed: the code sets no timeout on a request *)
(* and stamps it with the Date.now() of its own process.                   *)
Tick ==
  /\ now < MaxTime
  /\ \A c \in Call : pc[c] = "incr" => now + 1 <= stamp[c] + MaxDelay
  /\ now' = now + 1
  /\ count' = [k \in Key |-> IF Due(k) THEN 0 ELSE count[k]]
  /\ expiry' = [k \in Key |-> IF Due(k) THEN NoTtl ELSE expiry[k]]
  /\ UNCHANGED <<pc, subject, stamp, granted, leaked>>

Next ==
  \/ \E c \in Call, s \in Subject : Ask(c, s)
  \/ \E c \in Call : Incr(c) \/ Expire(c) \/ Fail(c)
  \/ Tick

Spec == Init /\ [][Next]_vars

-----------------------------------------------------------------------------
(* Properties *)

\* A window lets at most PerMinute messages of a sender through (a fraction
\* is rounded down, so that a limit below 1 lets nothing through), whatever
\* processes they come from and though the key is created, given its TTL and
\* dropped by steps that nothing ties together - as long as each INCR comes
\* within the second by which a key outlives its window (MaxDelay).
WindowBound == \A k \in Key : granted[k] * Parts <= PerMinute

\* A key without a TTL is one whose creator is about to give it one, or one
\* whose creator never will (redis-stores.ts:66-68): that one stays forever.
EternalKeysExplained ==
  \A k \in Key :
    count[k] > 0 /\ expiry[k] = NoTtl =>
      k \in leaked \/ \E c \in Call : pc[c] = "expire" /\ KeyOf(c) = k

=============================================================================
