-------------------------- MODULE BridgeInvariant ---------------------------
(***************************************************************************)
(* The inductive invariant of BridgeEngine: what a reader of the code has  *)
(* to know of every reachable state to see why the engine's guards work.   *)
(***************************************************************************)
EXTENDS BridgeEngine

\* A running call runs in the current life of its process.
LifeInv ==
  \A c \in Call :
    /\ pc[c] # "idle" => life[c] <= epoch[host[c]]
    /\ pc[c] \in InProgress => life[c] = epoch[host[c]]

\* A call past the first checks has a rule, and the loop of forward() is at
\* a position it serves.
RuleInv ==
  \A c \in Call :
    /\ pc[c] \in InProgress \ {"reject"} => HasRule(msg[c].channel)
    /\ pc[c] = "record" => cursor[c] \in Eligible(msg[c])

BeforeAdmission == {"idle", "limit", "mark"}
BeforeIngest    == BeforeAdmission \cup {"check", "verify", "ingest"}
BeforeMark      == BeforeIngest \cup {"commit"}
AfterMark       == {"accept", "send", "stalled", "record", "done"}
AfterIngest     == AfterMark \cup {"commit"}
AfterAdmission  == AfterIngest \cup {"check", "verify", "ingest"}

\* The three stamps of a call follow its progress, in this order.
ProgressInv ==
  \A c \in Call :
    /\ admittedAt[c] <= now /\ ingestedAt[c] <= now /\ markedAt[c] <= now
    /\ pc[c] \in BeforeAdmission => admittedAt[c] = Never
    /\ pc[c] \in BeforeIngest => ingestedAt[c] = Never
    /\ pc[c] \in BeforeMark => markedAt[c] = Never
    /\ pc[c] \in AfterAdmission => admittedAt[c] # Never
    /\ pc[c] \in AfterIngest => ingestedAt[c] # Never
    /\ pc[c] \in AfterMark => markedAt[c] # Never
    /\ markedAt[c] # Never => ingestedAt[c] # Never
    /\ ingestedAt[c] # Never => admittedAt[c] # Never

\* While the TTL of an admission runs and the store remembers, its key is
\* in the store with an expiry that is not earlier.
KeyHeld ==
  \A c \in Call :
    admittedAt[c] # Never /\ Remembered(c) /\ now < admittedAt[c] + ReplayTtl
    => nonces[CallStore(c)][ReplayKey(msg[c])] >= admittedAt[c] + ReplayTtl

\* A mark stays in the store, with a deadline that is not earlier.
MarkHeld ==
  \A c \in Call :
    markedAt[c] # Never /\ Remembered(c)
    => processed[CallStore(c)][msg[c].id] >= markedAt[c] + IdempotencyTtl

\* The excuse of SecondIngestExplained, at the time t.
Excused(c, t) ==
  \/ markedAt[c] = Never
  \/ markedAt[c] >= admittedAt[c] + ReplayTtl
  \/ CallStore(c) \in Redis /\ t >= markedAt[c] + IdempotencyTtl

\* A call that has passed the idempotency check and not yet reached the
\* gateway already has its excuse against every earlier call.
CheckedInv ==
  \A c, d \in Call :
    /\ c # d /\ SameStore(c, d) /\ SameKey(c, d) /\ msg[c].id = msg[d].id
    /\ ingestedAt[c] # Never /\ pc[d] \in {"verify", "ingest"}
    /\ admittedAt[c] <= admittedAt[d]
    => Excused(c, now)

IInv ==
  /\ TypeOK
  /\ RuleInv
  /\ LifeInv
  /\ ProgressInv
  /\ KeyHeld
  /\ MarkHeld
  /\ ReplaySpacing
  /\ CheckedInv
  /\ SecondIngestExplained

\* What has been decided about a message is so: past the first checks it is
\* within its rule's payload limit, and past the policy checks acceptable.
Allowed(c) ==
  /\ pc[c] \in InProgress \ {"reject"} =>
       WithinPayloadLimit(msg[c], ResolveRule(msg[c].channel))
  /\ pc[c] = "ingest" => Acceptable(msg[c])
  /\ ingestedAt[c] # Never =>
       /\ HasRule(msg[c].channel)
       /\ WithinPayloadLimit(msg[c], ResolveRule(msg[c].channel))
       /\ Acceptable(msg[c])
       /\ admittedAt[c] <= ingestedAt[c]

\* The loop of forward() has served the targets up to its cursor, each once,
\* and the log is one event ahead of what was sent, or even with it while a
\* send is being recorded.
Served(c) ==
  /\ pc[c] \in BeforeMark \cup {"accept"} =>
       log[c] = <<>> /\ sent[c] = {} /\ cursor[c] = 0
  /\ pc[c] \in {"send", "record", "done"} =>
       /\ sent[c] = {i \in Eligible(msg[c]) : i <= cursor[c]}
       /\ log[c] # <<>> /\ log[c][1] = Event("accepted", msg[c].channel)
  /\ pc[c] \in {"send", "done"} => Len(log[c]) = Cardinality(sent[c]) + 1
  /\ pc[c] = "record" => Len(log[c]) = Cardinality(sent[c])
  /\ pc[c] = "done" => Upcoming(c) = {}

\* A call that is over left its last word in the log, or died.
Ended(c) ==
  /\ pc[c] = "failed" =>
       /\ log[c] # <<>>
       /\ log[c][Len(log[c])] = Event("error", msg[c].channel)
  /\ pc[c] = "lost" => life[c] < epoch[host[c]]

\* What a call has sent is in the log, or on its way there.
Told(c) ==
  /\ sent[c] # {} => log[c] # <<>>
  /\ sent[c] # {} \/ ForwardedEvents(c) # {} => FanoutTold(c)

OutcomeInv ==
  \A c \in Call : Allowed(c) /\ Served(c) /\ Ended(c) /\ Told(c)

\* When a call has passed the idempotency check, a store that remembers has
\* no mark of its id from before the call's admission, but an expired one.
UncommittedInv ==
  \A c, d \in Call :
    /\ c # d /\ pc[c] \in {"verify", "ingest"} /\ pc[d] # "idle"
    /\ CallStore(c) = CallStore(d) /\ msg[c].id = msg[d].id
    /\ Remembered(d) /\ admittedAt[d] # Never
    => \/ markedAt[d] = Never
       \/ markedAt[d] >= admittedAt[c]
       \/ CallStore(d) \in Redis /\ now >= markedAt[d] + IdempotencyTtl

=============================================================================
