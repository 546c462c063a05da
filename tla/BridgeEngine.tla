---------------------------- MODULE BridgeEngine ----------------------------
(***************************************************************************)
(* BridgeEngine.processInbound and forward (src/core/bridge-engine.ts)     *)
(* with the replay and idempotency stores they use.  Any number of bridge  *)
(* processes handle inbound messages concurrently; every await of the code *)
(* is a point where other calls run, time passes or a process dies.        *)
(*                                                                         *)
(* An action is the code from one await's continuation up to the effect of *)
(* the next awaited operation.  The answer of a store is computed at the   *)
(* effect, so it may be stale by the time the call acts on it.             *)
(*                                                                         *)
(* A store is either in the memory of one process (memory-stores.ts) or a  *)
(* Redis server (redis-stores.ts), which any number of processes share and *)
(* which survives them.  The rate limiter only ever lets a call through or *)
(* fails it; here its answer is arbitrary (the limiter modules model it).   *)
(***************************************************************************)
EXTENDS PolicyEngine, Integers, FiniteSets

CONSTANTS
  Node,                  \* bridge processes
  Store,                 \* replay and idempotency backends
  Redis,                 \* the stores that are Redis servers
  StoreOf,               \* the backend each process is configured with
  Call,                  \* activations of the "message" handler
  Message,               \* the messages providers may deliver (repeatedly)
  Registered,            \* channels whose adapter is registered
  EnabledFanoutTargets,  \* options.enabledFanoutTargets
  Addresses,             \* the channels on which the conversation of each
                         \* message is an address
  Stalling,              \* channels whose send() may never answer: email,
                         \* SmtpClient waits for a server that has hung up
  ReplayTtl,             \* options.replayTtlMs, in ticks
  IdempotencyTtl,        \* TTL of Redis idempotency keys, in ticks
  Faults,                \* the external operations that may fail in a run
  MaxTime,               \* bound on the clock
  MaxCrashes,            \* bound on the deaths of each process
  None                   \* "no message", "no process"

FaultKind ==
  {"replay", "idempotency", "gateway", "audit", "send", "stall", "crash"}

ASSUME EngineAssumption ==
  /\ Message \subseteq RawInboundMessage
  /\ Redis \subseteq Store
  /\ StoreOf \in [Node -> Store]
  /\ \A n1, n2 \in Node :
       StoreOf[n1] = StoreOf[n2] => n1 = n2 \/ StoreOf[n1] \in Redis
  /\ Registered \subseteq Channel
  /\ EnabledFanoutTargets \subseteq Channel
  /\ Addresses \in [Message -> SUBSET Channel]
  /\ ReplayTtl \in Nat \ {0}
  /\ IdempotencyTtl \in Nat \ {0}
  /\ Faults \subseteq FaultKind
  /\ MaxTime \in Nat
  /\ MaxCrashes \in Nat
  /\ None \notin Message
  /\ None \notin Node

VARIABLES
  now,         \* Date.now(), and the Redis server's clock
  epoch,       \* how many times each process has been restarted
  pc,          \* where each call is in processInbound
  msg,         \* the message of each call
  host,        \* the process each call runs in
  life,        \* the epoch of that process when the call started
  cursor,      \* last position tried in the fan-out loop
  nonces,      \* replay store: when each key expires, 0 when it is absent
  processed,   \* idempotency store: the deadline of each id, 0 when absent
  log,         \* the audit events each call has written
  admittedAt,  \* history: when markIfNew answered true to the call
  ingestedAt,  \* history: when the gateway took the call's message
  markedAt,    \* history: when markProcessed took effect
  sent         \* history: fan-out positions the provider took the message for

callVars    == <<pc, msg, host, life, cursor>>
storeVars   == <<nonces, processed>>
historyVars == <<admittedAt, ingestedAt, markedAt, sent>>
vars == <<now, epoch, callVars, storeVars, log, historyVars>>

-----------------------------------------------------------------------------
(* Keys, stores and targets *)

Never == -1

\* sha256 of "channel:sender:nonce", the id standing in for a missing nonce.
\* No channel or sender name contains ':' so the text determines the triple.
ReplayKey(m) ==
  <<m.channel, m.senderId, IF m.nonce = NoNonce THEN m.id ELSE m.nonce>>

Key == {ReplayKey(m) : m \in Message}
Id  == {m.id : m \in Message}

\* Mutant: an expiry that comes a tick early.
LiveTooShort(s, k) == nonces[s][k] > now + 1

\* An entry counts until its expiry, excluded.
Live(s, k) == nonces[s][k] > now

\* Mutant: marks in memory expire as well.
HasProcessedExpiring(s, id) == processed[s][id] > now

\* A mark in memory never expires; Redis drops it after the TTL.
HasProcessed(s, id) ==
  /\ processed[s][id] # 0
  /\ s \in Redis => processed[s][id] > now

AuditEvent == [type : {"accepted", "rejected", "forwarded", "error"},
               channel : Channel]

Event(type, channel) == [type |-> type, channel |-> channel]

Targets(m) == ResolveRule(m.channel).fanoutTargets

\* Mutant: a message goes back to where it came from.
EligibleSource(m) ==
  {i \in DOMAIN Targets(m) :
     Targets(m)[i] \in EnabledFanoutTargets \cap Registered}

\* The positions of the fan-out list that the loop of forward() serves.
Eligible(m) ==
  {i \in DOMAIN Targets(m) :
     /\ Targets(m)[i] # m.channel
     /\ Targets(m)[i] \in EnabledFanoutTargets
     /\ Targets(m)[i] \in Registered}

Upcoming(c) == {i \in Eligible(msg[c]) : i > cursor[c]}

\* Mutant: a return in the place of a continue.
LoopHeadFirstOnly(c) ==
  IF cursor[c] = 0 /\ Upcoming(c) # {} THEN "send" ELSE "done"

\* Where the loop of forward() goes next: another send, or the end.
LoopHead(c) == IF Upcoming(c) = {} THEN "done" ELSE "send"

Settled == {"done", "failed", "lost"}

InProgress == {"limit", "mark", "check", "verify", "ingest", "commit",
               "accept", "send", "stalled", "record", "reject"}

Control == {"idle"} \cup InProgress \cup Settled

CallStore(c) == StoreOf[host[c]]

-----------------------------------------------------------------------------
Init ==
  /\ now = 0
  /\ epoch = [n \in Node |-> 0]
  /\ pc = [c \in Call |-> "idle"]
  /\ msg = [c \in Call |-> None]
  /\ host = [c \in Call |-> None]
  /\ life = [c \in Call |-> 0]
  /\ cursor = [c \in Call |-> 0]
  /\ nonces = [s \in Store |-> [k \in Key |-> 0]]
  /\ processed = [s \in Store |-> [id \in Id |-> 0]]
  /\ log = [c \in Call |-> <<>>]
  /\ admittedAt = [c \in Call |-> Never]
  /\ ingestedAt = [c \in Call |-> Never]
  /\ markedAt = [c \in Call |-> Never]
  /\ sent = [c \in Call |-> {}]

Goto(c, label) == pc' = [pc EXCEPT ![c] = label]

Write(c, type, channel) ==
  log' = [log EXCEPT ![c] = Append(@, Event(type, channel))]

\* A record() that fails has or has not appended its line.
MayWrite(c, type, channel) == UNCHANGED log \/ Write(c, type, channel)

(* emitInbound: a registered adapter emits m in process n.  Up to the rate *)
(* limiter everything is synchronous.  Providers deliver a message as      *)
(* often as they like, to any process.                                     *)
Deliver(c, n, m) ==
  /\ pc[c] = "idle"
  /\ m.channel \in Registered
  /\ msg' = [msg EXCEPT ![c] = m]
  /\ host' = [host EXCEPT ![c] = n]
  /\ life' = [life EXCEPT ![c] = epoch[n]]
  /\ Goto(c, IF HasRule(m.channel)
                /\ WithinPayloadLimit(m, ResolveRule(m.channel))
             THEN "limit" ELSE "reject")
  /\ UNCHANGED <<now, epoch, cursor, storeVars, log, historyVars>>

\* The limiter lets the call through, refuses it, or throws.
RateLimit(c) ==
  /\ pc[c] = "limit"
  /\ Goto(c, "mark") \/ Goto(c, "reject")
  /\ UNCHANGED <<now, epoch, msg, host, life, cursor, storeVars, log,
                 historyVars>>

\* Mutant: the sign of the TTL is wrong.
SetNonceBackdated(s, k) ==
  nonces' = [nonces EXCEPT ![s] =
               [j \in Key |-> IF j = k THEN now - ReplayTtl
                              ELSE IF Live(s, j) THEN nonces[s][j] ELSE 0]]

\* markIfNew sweeps what has expired, then sets the key of the call.
SetNonce(s, k) ==
  nonces' = [nonces EXCEPT ![s] =
               [j \in Key |-> IF j = k THEN now + ReplayTtl
                              ELSE IF Live(s, j) THEN nonces[s][j] ELSE 0]]

\* Mutant: a replay renews the key that it is refused for.
MarkIfNewRenewing(c) ==
  LET s == CallStore(c)
      k == ReplayKey(msg[c])
  IN /\ pc[c] = "mark"
     /\ SetNonce(s, k)
     /\ \/ Live(s, k) /\ Goto(c, "reject") /\ UNCHANGED admittedAt
        \/ /\ ~Live(s, k)
           /\ admittedAt' = [admittedAt EXCEPT ![c] = now]
           /\ Goto(c, "check")
     /\ UNCHANGED <<now, epoch, msg, host, life, cursor, processed, log,
                    ingestedAt, markedAt, sent>>

MarkIfNew(c) ==
  LET s == CallStore(c)
      k == ReplayKey(msg[c])
  IN /\ pc[c] = "mark"
     /\ \/ /\ Live(s, k)
           /\ Goto(c, "reject")
           /\ UNCHANGED <<nonces, admittedAt>>
        \/ /\ ~Live(s, k)
           /\ SetNonce(s, k)
           /\ admittedAt' = [admittedAt EXCEPT ![c] = now]
           /\ Goto(c, "check")
     /\ UNCHANGED <<now, epoch, msg, host, life, cursor, processed, log,
                    ingestedAt, markedAt, sent>>

\* The reply of SET NX is lost, after or before the server ran it, and the
\* RedisKvClient says so.  (One that ends the process instead is a Crash.)
MarkIfNewFails(c) ==
  LET s == CallStore(c)
      k == ReplayKey(msg[c])
  IN /\ pc[c] = "mark"
     /\ "replay" \in Faults /\ s \in Redis
     /\ UNCHANGED nonces \/ (~Live(s, k) /\ SetNonce(s, k))
     /\ Goto(c, "reject")
     /\ UNCHANGED <<now, epoch, msg, host, life, cursor, processed, log,
                    historyVars>>

CheckProcessed(c) ==
  /\ pc[c] = "check"
  /\ Goto(c, IF HasProcessed(CallStore(c), msg[c].id)
             THEN "reject" ELSE "verify")
  /\ UNCHANGED <<now, epoch, msg, host, life, cursor, storeVars, log,
                 historyVars>>

CheckProcessedFails(c) ==
  /\ pc[c] = "check"
  /\ "idempotency" \in Faults /\ CallStore(c) \in Redis
  /\ Goto(c, "reject")
  /\ UNCHANGED <<now, epoch, msg, host, life, cursor, storeVars, log,
                 historyVars>>

\* verify(), normalize() and the three policy checks that follow them.
Acceptable(m) ==
  LET rule == ResolveRule(m.channel)
  IN /\ m.verdict # "throws"
     /\ AuthenticationMet(m, rule)
     /\ SenderAllowed(m, rule)
     /\ CommandAllowed(m, rule)

Authorise(c) ==
  /\ pc[c] = "verify"
  /\ Goto(c, IF Acceptable(msg[c]) THEN "ingest" ELSE "reject")
  /\ UNCHANGED <<now, epoch, msg, host, life, cursor, storeVars, log,
                 historyVars>>

Ingest(c) ==
  /\ pc[c] = "ingest"
  /\ ingestedAt' = [ingestedAt EXCEPT ![c] = now]
  /\ Goto(c, "commit")
  /\ UNCHANGED <<now, epoch, msg, host, life, cursor, storeVars, log,
                 admittedAt, markedAt, sent>>

\* Mutant: the failure of the gateway is caught and forgotten.
IngestFailsUnnoticed(c) ==
  /\ pc[c] = "ingest"
  /\ "gateway" \in Faults
  /\ Goto(c, "commit")
  /\ UNCHANGED <<now, epoch, msg, host, life, cursor, storeVars, log,
                 historyVars>>

\* gateway.ingest rejects; the gateway may have taken the message.
IngestFails(c) ==
  /\ pc[c] = "ingest"
  /\ "gateway" \in Faults
  /\ \/ UNCHANGED ingestedAt
     \/ ingestedAt' = [ingestedAt EXCEPT ![c] = now]
  /\ Goto(c, "reject")
  /\ UNCHANGED <<now, epoch, msg, host, life, cursor, storeVars, log,
                 admittedAt, markedAt, sent>>

\* Mutant: the two TTLs are mixed up.
SetProcessedReplayTtl(c) ==
  /\ processed' = [processed EXCEPT ![CallStore(c)][msg[c].id] =
                     now + ReplayTtl]
  /\ markedAt' = [markedAt EXCEPT ![c] = now]

SetProcessed(c) ==
  /\ processed' = [processed EXCEPT ![CallStore(c)][msg[c].id] =
                     now + IdempotencyTtl]
  /\ markedAt' = [markedAt EXCEPT ![c] = now]

MarkProcessed(c) ==
  /\ pc[c] = "commit"
  /\ SetProcessed(c)
  /\ Goto(c, "accept")
  /\ UNCHANGED <<now, epoch, msg, host, life, cursor, nonces, log,
                 admittedAt, ingestedAt, sent>>

MarkProcessedFails(c) ==
  /\ pc[c] = "commit"
  /\ "idempotency" \in Faults /\ CallStore(c) \in Redis
  /\ SetProcessed(c) \/ UNCHANGED <<processed, markedAt>>
  /\ Goto(c, "reject")
  /\ UNCHANGED <<now, epoch, msg, host, life, cursor, nonces, log,
                 admittedAt, ingestedAt, sent>>

AuditAccepted(c) ==
  /\ pc[c] = "accept"
  /\ Write(c, "accepted", msg[c].channel)
  /\ Goto(c, LoopHead(c))
  /\ UNCHANGED <<now, epoch, msg, host, life, cursor, storeVars, historyVars>>

AuditAcceptedFails(c) ==
  /\ pc[c] = "accept"
  /\ "audit" \in Faults
  /\ MayWrite(c, "accepted", msg[c].channel)
  /\ Goto(c, "reject")
  /\ UNCHANGED <<now, epoch, msg, host, life, cursor, storeVars, historyVars>>

\* Mutant: all sends are started at once, and end in any order.
IsNextAnyOrder(c, i) == i \in Upcoming(c)

\* The loop of forward() takes its targets in the order of the policy.
IsNext(c, i) == i \in Upcoming(c) /\ \A j \in Upcoming(c) : i <= j

\* toOutbound names the conversation of the source, to which each adapter
\* sends; that of Status ignores it.
HasAddress(m, i) == Targets(m)[i] \in {"status"} \cup Addresses[m]

Send(c) ==
  /\ pc[c] = "send"
  /\ \E i \in Upcoming(c) :
       /\ IsNext(c, i)
       /\ HasAddress(msg[c], i)
       /\ cursor' = [cursor EXCEPT ![c] = i]
       /\ sent' = [sent EXCEPT ![c] = @ \cup {i}]
  /\ Goto(c, "record")
  /\ UNCHANGED <<now, epoch, msg, host, life, storeVars, log, admittedAt,
                 ingestedAt, markedAt>>

\* adapter.send rejects: the rest of the fan-out is abandoned.  The provider
\* may have taken the message (a lost answer, a failing SMTP QUIT); not so
\* when the failure is that it knows no such address.
SendFails(c) ==
  /\ pc[c] = "send"
  /\ \E i \in Upcoming(c) :
       /\ IsNext(c, i)
       /\ "send" \in Faults \/ ~HasAddress(msg[c], i)
       /\ cursor' = [cursor EXCEPT ![c] = i]
       /\ \/ UNCHANGED sent
          \/ /\ HasAddress(msg[c], i)
             /\ sent' = [sent EXCEPT ![c] = @ \cup {i}]
  /\ Goto(c, "reject")
  /\ UNCHANGED <<now, epoch, msg, host, life, storeVars, log, admittedAt,
                 ingestedAt, markedAt>>

\* adapter.send never answers, and the provider has taken the message or not.
SendStalls(c) ==
  /\ pc[c] = "send"
  /\ "stall" \in Faults
  /\ \E i \in Upcoming(c) :
       /\ IsNext(c, i)
       /\ Targets(msg[c])[i] \in Stalling
       /\ cursor' = [cursor EXCEPT ![c] = i]
       /\ \/ UNCHANGED sent
          \/ /\ HasAddress(msg[c], i)
             /\ sent' = [sent EXCEPT ![c] = @ \cup {i}]
  /\ Goto(c, "stalled")
  /\ UNCHANGED <<now, epoch, msg, host, life, storeVars, log, admittedAt,
                 ingestedAt, markedAt>>

AuditForwarded(c) ==
  /\ pc[c] = "record"
  /\ Write(c, "forwarded", Targets(msg[c])[cursor[c]])
  /\ Goto(c, LoopHead(c))
  /\ UNCHANGED <<now, epoch, msg, host, life, cursor, storeVars, historyVars>>

AuditForwardedFails(c) ==
  /\ pc[c] = "record"
  /\ "audit" \in Faults
  /\ MayWrite(c, "forwarded", Targets(msg[c])[cursor[c]])
  /\ Goto(c, "reject")
  /\ UNCHANGED <<now, epoch, msg, host, life, cursor, storeVars, historyVars>>

\* Mutant: the handler swallows the error.
AuditErrorMissing(c) == pc[c] = "reject" /\ UNCHANGED vars

\* The catch handler of registerAdapter.
AuditError(c) ==
  /\ pc[c] = "reject"
  /\ Write(c, "error", msg[c].channel)
  /\ Goto(c, "failed")
  /\ UNCHANGED <<now, epoch, msg, host, life, cursor, storeVars, historyVars>>

(* A process dies: the calls it was running are gone and so is a store in  *)
(* its memory.  It is restarted at once, with an empty one.                *)
Die(n) ==
  /\ epoch[n] < MaxCrashes
  /\ epoch' = [epoch EXCEPT ![n] = @ + 1]
  /\ pc' = [c \in Call |-> IF host[c] = n /\ pc[c] \in InProgress
                           THEN "lost" ELSE pc[c]]
  /\ IF StoreOf[n] \in Redis
     THEN UNCHANGED storeVars
     ELSE /\ nonces' = [nonces EXCEPT ![StoreOf[n]] = [k \in Key |-> 0]]
          /\ processed' = [processed EXCEPT ![StoreOf[n]] = [id \in Id |-> 0]]
  /\ UNCHANGED <<now, msg, host, life, cursor, historyVars>>

\* record() throws inside the catch handler: nobody handles the rejection of
\* an event listener's promise, and Node ends the process.
AuditErrorFails(c) ==
  /\ pc[c] = "reject"
  /\ "audit" \in Faults
  /\ MayWrite(c, "error", msg[c].channel)
  /\ Die(host[c])

\* Killed from outside, or by SIGTERM: index.ts does not wait for the calls.
Crash(n) == "crash" \in Faults /\ Die(n) /\ UNCHANGED log

Tick ==
  /\ now < MaxTime
  /\ now' = now + 1
  /\ UNCHANGED <<epoch, callVars, storeVars, log, historyVars>>

\* Every call of the run is over or waits in vain: nothing is left to do.
Quiescent ==
  /\ \A c \in Call : pc[c] \in Settled \cup {"stalled"}
  /\ UNCHANGED vars

\* What the code of a call does next, given that what it awaits answers.
Step(c) ==
  \/ RateLimit(c)
  \/ MarkIfNew(c)
  \/ CheckProcessed(c)
  \/ Authorise(c)
  \/ Ingest(c)
  \/ MarkProcessed(c)
  \/ AuditAccepted(c)
  \/ Send(c)
  \/ AuditForwarded(c)
  \/ AuditError(c)

Failure(c) ==
  \/ MarkIfNewFails(c)
  \/ CheckProcessedFails(c)
  \/ IngestFails(c)
  \/ MarkProcessedFails(c)
  \/ AuditAcceptedFails(c)
  \/ SendFails(c)
  \/ SendStalls(c)
  \/ AuditForwardedFails(c)
  \/ AuditErrorFails(c)

Next ==
  \/ \E c \in Call, n \in Node, m \in Message : Deliver(c, n, m)
  \/ \E c \in Call : Step(c) \/ Failure(c)
  \/ \E n \in Node : Crash(n)
  \/ Tick
  \/ Quiescent

Spec == Init /\ [][Next]_vars

\* Node keeps running a call whose awaited operation has answered, and every
\* awaited operation answers or throws, but for the sends that stall: file
\* writes and fetch() do, and a broken Redis connection rejects or ends the
\* process.
FairSpec == Spec /\ \A c \in Call : WF_vars(Step(c) \/ Failure(c))

-----------------------------------------------------------------------------
(* Properties *)

Instant == Nat \cup {Never}

\* Every variable holds values of its kind, and a call past the handler's
\* entry has a message and a process (the locals of processInbound).
TypeOK ==
  /\ now \in Nat
  /\ epoch \in [Node -> Nat]
  /\ pc \in [Call -> Control]
  /\ msg \in [Call -> Message \cup {None}]
  /\ host \in [Call -> Node \cup {None}]
  /\ life \in [Call -> Nat]
  /\ cursor \in [Call -> Nat]
  /\ nonces \in [Store -> [Key -> Nat]]
  /\ processed \in [Store -> [Id -> Nat]]
  /\ log \in [Call -> Seq(AuditEvent)]
  /\ admittedAt \in [Call -> Instant]
  /\ ingestedAt \in [Call -> Instant]
  /\ markedAt \in [Call -> Instant]
  /\ sent \in [Call -> SUBSET Nat]
  /\ \A c \in Call : pc[c] # "idle" => msg[c] \in Message /\ host[c] \in Node

\* Two calls worked on one and the same store, with no loss of its contents
\* in between.
SameStore(c, d) ==
  /\ pc[c] # "idle" /\ pc[d] # "idle"
  /\ CallStore(c) = CallStore(d)
  /\ CallStore(c) \in Redis \/ life[c] = life[d]

SameKey(c, d) == ReplayKey(msg[c]) = ReplayKey(msg[d])

\* Of the calls with one replay key on one store, markIfNew lets a second one
\* through only when the TTL has passed since it let the first one through,
\* whatever the interleaving of the calls and of the processes that share the
\* store, and whether or not the calls in between were refused or failed.
ReplaySpacing ==
  \A c, d \in Call :
    /\ c # d /\ SameStore(c, d) /\ SameKey(c, d)
    /\ admittedAt[c] # Never /\ admittedAt[d] # Never
    => \/ admittedAt[d] >= admittedAt[c] + ReplayTtl
       \/ admittedAt[c] >= admittedAt[d] + ReplayTtl

\* What the two guards give together: a redelivered message reaches the
\* gateway a second time only if the first call's mark was never made (it
\* crashed, or the store failed), came later than the replay key's expiry
\* (the first call was too slow), or has itself expired.
SecondIngestExplained ==
  \A c, d \in Call :
    /\ c # d /\ SameStore(c, d) /\ SameKey(c, d) /\ msg[c].id = msg[d].id
    /\ ingestedAt[c] # Never /\ ingestedAt[d] # Never
    /\ admittedAt[c] <= admittedAt[d]
    => \/ markedAt[c] = Never
       \/ markedAt[c] >= admittedAt[c] + ReplayTtl
       \/ /\ CallStore(c) \in Redis
          /\ ingestedAt[d] >= markedAt[c] + IdempotencyTtl

\* The store still holds what the call wrote there.
Remembered(c) == CallStore(c) \in Redis \/ life[c] = epoch[host[c]]

Wrote(c, s) == pc[c] # "idle" /\ CallStore(c) = s /\ Remembered(c)

\* markIfNew has failed for the call, perhaps after the server had run it.
MayHaveMarked(c) ==
  /\ "replay" \in Faults /\ CallStore(c) \in Redis
  /\ admittedAt[c] = Never /\ pc[c] \in {"reject", "failed", "lost"}

\* Nothing is refused as a replay out of nothing, nor for longer than meant:
\* a key that counts was set for a call that was let through, and until one
\* TTL after that, or for a call whose reply from Redis was lost.
ReplayRefusedForCause ==
  \A s \in Store, k \in Key :
    Live(s, k) =>
      \E c \in Call :
        /\ Wrote(c, s) /\ ReplayKey(msg[c]) = k
        /\ \/ /\ admittedAt[c] # Never
              /\ nonces[s][k] = admittedAt[c] + ReplayTtl
           \/ MayHaveMarked(c) /\ nonces[s][k] <= now + ReplayTtl

\* Nor is a message ever refused as processed unless the gateway has taken
\* one with its id, in the life of that store, and in Redis no longer ago
\* than the TTL: what failed before the gateway can be tried again.
MarkedMeansTaken ==
  \A s \in Store, id \in Id :
    HasProcessed(s, id) =>
      \E c \in Call :
        /\ Wrote(c, s) /\ msg[c].id = id
        /\ ingestedAt[c] # Never /\ ingestedAt[c] <= markedAt[c]
        /\ processed[s][id] = markedAt[c] + IdempotencyTtl

\* The gateway only ever sees messages of a channel with a rule, within its
\* payload limit, authenticated where the rule asks for it, from an allowed
\* sender and, for a command, an allowed command; and each of them went
\* through the replay guard first.
IngestedWasAllowed ==
  \A c \in Call :
    ingestedAt[c] # Never =>
      /\ HasRule(msg[c].channel)
      /\ LET rule == ResolveRule(msg[c].channel)
         IN /\ msg[c].bytes <= rule.maxPayloadBytes
            /\ rule.requireAuthentication => msg[c].verdict = "authenticated"
            /\ rule.allowedSenders # {} =>
                 \E s \in rule.allowedSenders :
                   LowerCase[s] = LowerCase[msg[c].senderId]
            /\ msg[c].kind = "command" =>
                 msg[c].commandName \in rule.allowedCommands
      /\ admittedAt[c] # Never /\ admittedAt[c] <= ingestedAt[c]

\* Where in a call's log the event for position i of the fan-out belongs.
LogPosition(c, i) == 1 + Cardinality({j \in sent[c] : j <= i})

\* Where the events of the fan-out are.
ForwardedEvents(c) == {k \in DOMAIN log[c] : log[c][k].type = "forwarded"}

\* What the provider took and the log does not tell.
Unrecorded(c) == {i \in sent[c] : LogPosition(c, i) \notin ForwardedEvents(c)}

FanoutTold(c) ==
  /\ sent[c] \subseteq Eligible(msg[c])
  /\ \A i \in sent[c], j \in Eligible(msg[c]) : j < i => j \in sent[c]
  /\ markedAt[c] # Never /\ ingestedAt[c] # Never
  /\ log[c][1] = Event("accepted", msg[c].channel)
  /\ \A k \in ForwardedEvents(c) : \E i \in sent[c] :
       k = LogPosition(c, i) /\ log[c][k].channel = Targets(msg[c])[i]
  /\ \A i \in Unrecorded(c) :
       /\ \A j \in sent[c] : j <= i
       /\ pc[c] \in {"record", "stalled", "reject", "failed", "lost"}

\* The fan-out of a call is an initial part of the policy's enabled targets,
\* each served once and in order, after the message was ingested, marked and
\* recorded as accepted; and the audit log tells which, except for the last
\* target when the call is about to record it, has failed or was lost.
FanoutAsAudited ==
  \A c \in Call : sent[c] # {} \/ ForwardedEvents(c) # {} => FanoutTold(c)

\* How a call may end: "done" with its whole fan-out sent and recorded;
\* "failed" with an error event as its last word; or "lost", which only the
\* death of its process can do.
OutcomeAudited ==
  \A c \in Call :
    /\ pc[c] = "done" =>
         /\ sent[c] = Eligible(msg[c])
         /\ log[c][1] = Event("accepted", msg[c].channel)
         /\ Len(log[c]) = 1 + Cardinality(Eligible(msg[c]))
    /\ pc[c] = "failed" =>
         /\ log[c] # <<>>
         /\ log[c][Len(log[c])] = Event("error", msg[c].channel)
    /\ pc[c] = "lost" => life[c] < epoch[host[c]]

\* A replay key keeps its expiry until it is reached: neither a refused
\* replay nor a failing call shortens or prolongs it.  Only the death of the
\* process whose memory holds it takes it away early.
NonceHeldUntilExpiry ==
  [][\A s \in Store, k \in Key :
       nonces[s][k] > now /\ nonces'[s][k] # nonces[s][k] =>
         /\ s \notin Redis
         /\ \E n \in Node : StoreOf[n] = s /\ epoch'[n] > epoch[n]]_vars

\* Every inbound message is eventually done with: forwarded, refused with an
\* error event, or lost with its process.  What can hold it up forever is a
\* mail server that does not answer, and only once the message was ingested.
EveryCallSettles ==
  \A c \in Call :
    pc[c] # "idle" ~> \/ pc[c] \in Settled
                      \/ /\ pc[c] = "stalled" /\ ingestedAt[c] # Never
                         /\ Targets(msg[c])[cursor[c]] \in Stalling

=============================================================================
