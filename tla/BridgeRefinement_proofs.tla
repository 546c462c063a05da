----------------------- MODULE BridgeRefinement_proofs -----------------------
(***************************************************************************)
(* The engine implements the contract, for every set of processes, stores, *)
(* calls and messages, every policy and every TTL.                         *)
(***************************************************************************)
EXTENDS BridgeOutcomes_proofs, BridgeRefinement

-----------------------------------------------------------------------------
(* The second guard, for messages that share only their id *)

\* A store forgets, and never remembers again.
LEMMA RememberedBefore ==
  ASSUME TypeInv, LifeInv, ProgressInv, [Next]_vars, NEW d \in Call,
         pc[d] # "idle", Remembered(d)'
  PROVE  Remembered(d)
<1>. USE DEF TypeInv
<1>1. ASSUME NEW e \in Call, NEW n \in Node, NEW m \in Message,
             Deliver(e, n, m)
      PROVE  Remembered(d)
  <2>1. /\ d # e /\ UNCHANGED epoch
        /\ host'[d] = host[d] /\ life'[d] = life[d]
    BY <1>1 DEF Deliver, TypeOK
  <2>. QED BY <2>1 DEF Remembered, CallStore
<1>2. ASSUME NEW e \in Call, Step(e) \/ Failure(e), ~AuditErrorFails(e)
      PROVE  Remembered(d)
  BY <1>2, CallStep DEF Remembered, CallStore
<1>3. ASSUME NEW n \in Node, Die(n) PROVE Remembered(d)
  BY <1>3, DieEffect
<1>4. CASE Tick \/ UNCHANGED vars
  BY <1>4 DEF Tick, vars, callVars, Remembered, CallStore
<1>. QED BY <1>1, <1>2, <1>3, <1>4, NextCases, DeathCase

\* A mark that the idempotency check does not find is missing or expired.
LEMMA CheckedMark ==
  ASSUME TypeInv, MarkHeld, NEW c \in Call, NEW d \in Call,
         pc[c] # "idle", CallStore(c) = CallStore(d), msg[c].id = msg[d].id,
         Remembered(d), ~HasProcessed(CallStore(c), msg[c].id),
         markedAt[d] # Never
  PROVE  CallStore(d) \in Redis /\ now >= markedAt[d] + IdempotencyTtl
<1>1. CallStore(c) \in Store /\ msg[c].id \in Id
  BY CallTypes DEF TypeInv
<1>2. /\ processed[CallStore(c)][msg[c].id] \in Nat
      /\ now \in Nat /\ markedAt[d] \in Nat
  BY <1>1 DEF TypeInv, TypeOK, Instant
<1>3. processed[CallStore(c)][msg[c].id] >= markedAt[d] + IdempotencyTtl
  BY DEF MarkHeld
<1>. QED BY <1>2, <1>3, ConstantTypes DEF HasProcessed

LEMMA UncommittedStep ==
  ASSUME TypeInv, LifeInv, ProgressInv, MarkHeld, UncommittedInv, [Next]_vars
  PROVE  UncommittedInv'
<1>. SUFFICES ASSUME NEW c \in Call, NEW d \in Call, c # d,
                     pc'[c] \in {"verify", "ingest"}, pc'[d] # "idle",
                     CallStore(c)' = CallStore(d)', msg'[c].id = msg'[d].id,
                     Remembered(d)', admittedAt'[d] # Never,
                     markedAt'[d] # Never
              PROVE  \/ markedAt'[d] >= admittedAt'[c]
                     \/ /\ CallStore(d)' \in Redis
                        /\ now' >= markedAt'[d] + IdempotencyTtl
  BY DEF UncommittedInv
<1>1. /\ pc[c] # "idle" /\ admittedAt[c] # Never
      /\ admittedAt'[c] = admittedAt[c]
  BY AdmittedBefore
<1>2. pc[d] # "idle"
  BY Evolution DEF Evolves, ProgressInv, BeforeMark, BeforeIngest,
     BeforeAdmission
<1>3. /\ CallStore(c) = CallStore(d) /\ msg[c].id = msg[d].id
      /\ CallStore(d)' = CallStore(d)
  BY <1>1, <1>2, SameKept
<1>4. Remembered(d)
  BY <1>2, RememberedBefore
<1>5. now \in Nat /\ now' \in Nat /\ now' >= now /\ markedAt[d] \in Int
  <2>1. now' \in Nat
    BY TypeStep DEF TypeInv, TypeOK
  <2>2. now \in Nat /\ markedAt[d] \in Int
    BY DEF TypeInv, TypeOK, Instant, Never
  <2>. QED BY <2>1, <2>2, Evolution DEF Evolves
<1>6. CASE markedAt'[d] # markedAt[d]
  <2>1. markedAt'[d] = now
    BY <1>6, Evolution DEF Evolves
  <2>2. admittedAt[c] <= now
    BY DEF ProgressInv
  <2>. QED BY <1>1, <2>1, <2>2, <1>5, ConstantTypes DEF TypeInv, TypeOK, Instant
<1>7. CASE markedAt'[d] = markedAt[d] /\ pc[c] \in {"verify", "ingest"}
  <2>1. admittedAt[d] # Never
    BY <1>7 DEF ProgressInv
  <2>2. \/ markedAt[d] >= admittedAt[c]
        \/ CallStore(d) \in Redis /\ now >= markedAt[d] + IdempotencyTtl
    BY <1>2, <1>3, <1>4, <1>7, <2>1 DEF UncommittedInv
  <2>. QED BY <1>1, <1>3, <1>5, <1>7, <2>2, ConstantTypes
<1>8. CASE /\ markedAt'[d] = markedAt[d]
           /\ pc[c] = "check" /\ ~HasProcessed(CallStore(c), msg[c].id)
  <2>1. CallStore(d) \in Redis /\ now >= markedAt[d] + IdempotencyTtl
    BY <1>1, <1>3, <1>4, <1>8, CheckedMark
  <2>. QED BY <1>3, <1>5, <1>8, <2>1, ConstantTypes
<1>. QED BY <1>6, <1>7, <1>8, Evolution DEF Evolves

-----------------------------------------------------------------------------
(* The refinement mapping *)

LEMMA StageValue ==
  ASSUME TypeOK, NEW c \in Call
  PROVE  stageBar[c] = IF pc[c] = "idle" THEN "idle"
                       ELSE IF pc[c] \in Settled THEN "over"
                       ELSE IF ingestedAt[c] = Never THEN "open" ELSE "taken"
BY DEF stageBar, TypeOK, Control, InProgress, Settled

LEMMA StageValueNext ==
  ASSUME TypeOK', NEW c \in Call
  PROVE  stageBar'[c] = IF pc'[c] = "idle" THEN "idle"
                        ELSE IF pc'[c] \in Settled THEN "over"
                        ELSE IF ingestedAt'[c] = Never THEN "open"
                        ELSE "taken"
BY DEF stageBar, TypeOK, Control, InProgress, Settled

LEMMA StageType ==
  ASSUME TypeOK
  PROVE  stageBar \in [Call -> {"idle", "over", "open", "taken"}]
<1>1. \A c \in Call : stageBar[c] \in {"idle", "over", "open", "taken"}
  BY StageValue
<1>. QED BY <1>1 DEF stageBar

LEMMA StageTypeNext ==
  ASSUME TypeOK'
  PROVE  stageBar' \in [Call -> {"idle", "over", "open", "taken"}]
<1>1. \A c \in Call : stageBar'[c] \in {"idle", "over", "open", "taken"}
  BY StageValueNext
<1>. QED BY <1>1 DEF stageBar

LEMMA RefinementInit == Init => Contract!Init
<1>. SUFFICES ASSUME Init PROVE Contract!Init
  OBVIOUS
<1>1. stageBar = [c \in Call |-> "idle"]
  <2>1. \A c \in Call : pc[c] = "idle"
    BY DEF Init
  <2>2. \A c \in Call : stageBar[c] = "idle"
    BY <2>1, StageValue, TypeInit DEF TypeInv
  <2>. QED BY <2>2 DEF stageBar
<1>2. placeBar = [c \in Call |-> None]
  BY DEF Init, placeBar
<1>3. rememberedBar = [c \in Call |-> FALSE]
  BY DEF Init, rememberedBar
<1>. QED BY <1>1, <1>2, <1>3 DEF Init, Contract!Init, Contract!Unset, Never

\* What a step of one call leaves as it is in the abstract state.
LEMMA StepFrame ==
  ASSUME TypeInv, [Next]_vars, NEW c \in Call, Step(c) \/ Failure(c),
         ~AuditErrorFails(c)
  PROVE  /\ pc[c] \in InProgress /\ UNCHANGED <<now, msg>>
         /\ \A x \in Call \ {c} : stageBar'[x] = stageBar[x]
         /\ DOMAIN stageBar = Call /\ DOMAIN stageBar' = Call
         /\ stageBar[c] = IF ingestedAt[c] = Never THEN "open" ELSE "taken"
         /\ placeBar' = placeBar
         /\ UNCHANGED admittedAt => rememberedBar' = rememberedBar
<1>1. /\ pc[c] \in InProgress /\ pc'[c] # "idle"
      /\ UNCHANGED <<now, epoch, msg, host, life>>
      /\ \A x \in Call \ {c} : pc'[x] = pc[x]
  BY CallStep DEF TypeInv
<1>2. TypeOK /\ TypeOK'
  BY TypeStep DEF TypeInv
<1>3. ASSUME NEW x \in Call, x # c PROVE stageBar'[x] = stageBar[x]
  BY <1>2, <1>3, OthersKept, StageValue, StageValueNext DEF Kept
<1>4. stageBar[c] = IF ingestedAt[c] = Never THEN "open" ELSE "taken"
  BY <1>1, <1>2, StageValue DEF InProgress, Settled
<1>5. placeBar' = placeBar
  <2>1. \A x \in Call : pc'[x] = "idle" <=> pc[x] = "idle"
    BY <1>1 DEF InProgress
  <2>2. \A x \in Call : CallStore(x)' = CallStore(x)
    BY <1>1 DEF CallStore
  <2>3. \A x \in Call : placeBar'[x] = placeBar[x]
    BY <2>1, <2>2 DEF placeBar
  <2>. QED BY <2>3 DEF placeBar
<1>6. UNCHANGED admittedAt => rememberedBar' = rememberedBar
  BY <1>1 DEF rememberedBar, CallStore
<1>7. DOMAIN stageBar = Call /\ DOMAIN stageBar' = Call
  BY DEF stageBar
<1>. QED BY <1>1, <1>3, <1>4, <1>5, <1>6, <1>7

\* The stage of the call that makes a step, after it.
LEMMA StageAfter ==
  ASSUME TypeInv, [Next]_vars, NEW c \in Call, Step(c) \/ Failure(c),
         ~AuditErrorFails(c), NEW v,
         v = IF pc'[c] \in Settled THEN "over"
             ELSE IF ingestedAt'[c] = Never THEN "open" ELSE "taken"
  PROVE  stageBar' = [stageBar EXCEPT ![c] = v]
<1>1. pc'[c] # "idle"
  BY CallStep DEF TypeInv
<1>2. stageBar'[c] = v
  BY <1>1, TypeStep, StageValueNext DEF TypeInv
<1>3. \A x \in Call : stageBar'[x] = [stageBar EXCEPT ![c] = v][x]
  BY <1>2, StepFrame
<1>4. TypeOK /\ TypeOK'
  BY TypeStep DEF TypeInv
<1>. QED BY <1>3, <1>4, StageType, StageTypeNext

AbstractStep == Contract!Next \/ UNCHANGED Contract!cvars

\* A step that leaves the history alone ends the call, or is not seen.
LEMMA QuietStep ==
  ASSUME TypeInv, [Next]_vars, NEW c \in Call, Step(c) \/ Failure(c),
         ~AuditErrorFails(c), UNCHANGED historyVars
  PROVE  AbstractStep
<1>1. /\ UNCHANGED <<now, msg, placeBar, admittedAt, markedAt, rememberedBar,
                     sent, ingestedAt>>
      /\ stageBar[c] = IF ingestedAt[c] = Never THEN "open" ELSE "taken"
      /\ DOMAIN stageBar = Call
  BY StepFrame DEF historyVars
<1>2. CASE pc'[c] \in Settled
  <2>1. stageBar' = [stageBar EXCEPT ![c] = "over"]
    BY <1>2, StageAfter
  <2>2. stageBar' = [x \in Call |-> IF x \in {c} THEN "over" ELSE stageBar[x]]
    BY <1>1, <2>1
  <2>3. {c} \in SUBSET Contract!Open /\ {c} # {}
    BY <1>1 DEF Contract!Open
  <2>4. Contract!Over({c})
    BY <2>2 DEF Contract!Over
  <2>5. Contract!Close
    BY <1>1, <2>3, <2>4 DEF Contract!Close
  <2>. QED BY <2>5 DEF AbstractStep, Contract!Next
<1>3. CASE pc'[c] \notin Settled
  <2>1. stageBar' = [stageBar EXCEPT ![c] = stageBar[c]]
    BY <1>1, <1>3, StageAfter
  <2>2. stageBar' = stageBar
    BY <2>1, StageType DEF TypeInv
  <2>. QED BY <1>1, <2>2 DEF AbstractStep, Contract!cvars
<1>. QED BY <1>2, <1>3

\* markIfNew answers true: an admission.
LEMMA AdmitStep ==
  ASSUME IInv, [Next]_vars, NEW c \in Call, MarkIfNew(c),
         admittedAt' # admittedAt
  PROVE  Contract!Admit(c)
<1>. USE DEF IInv, TypeInv
<1>1. /\ pc[c] = "mark" /\ pc'[c] = "check"
      /\ admittedAt' = [admittedAt EXCEPT ![c] = now]
      /\ UNCHANGED <<epoch, host, life, ingestedAt, markedAt, sent>>
      /\ (Step(c) \/ Failure(c)) /\ ~AuditErrorFails(c)
  BY DEF MarkIfNew, Step, AuditErrorFails, Goto, TypeOK
<1>2. admittedAt[c] = Never /\ ingestedAt[c] = Never
  BY <1>1 DEF ProgressInv, BeforeAdmission, BeforeIngest
<1>3. UNCHANGED <<now, msg, placeBar>> /\ stageBar[c] = "open"
  BY <1>1, <1>2, StepFrame
<1>4. stageBar' = stageBar
  <2>1. stageBar' = [stageBar EXCEPT ![c] = "open"]
    BY <1>1, <1>2, StageAfter DEF Settled
  <2>. QED BY <1>3, <2>1 DEF stageBar
<1>5. rememberedBar' = [rememberedBar EXCEPT ![c] = TRUE]
  <2>1. life[c] = epoch[host[c]]
    BY <1>1 DEF LifeInv, InProgress
  <2>2. admittedAt'[c] # Never /\ \A x \in Call \ {c} :
                                    admittedAt'[x] = admittedAt[x]
    BY <1>1 DEF TypeOK, Never
  <2>3. \A x \in Call :
          rememberedBar'[x] = [rememberedBar EXCEPT ![c] = TRUE][x]
    BY <1>1, <2>1, <2>2 DEF rememberedBar, CallStore
  <2>4. /\ rememberedBar' = [x \in Call |-> rememberedBar'[x]]
        /\ rememberedBar = [x \in Call |-> rememberedBar[x]]
    BY DEF rememberedBar
  <2>. QED BY <2>3, <2>4
<1>6. ASSUME NEW d \in Contract!Known(c),
             ReplayKey(msg[d]) = ReplayKey(msg[c])
      PROVE  now >= admittedAt[d] + ReplayTtl
  <2>1. /\ d \in Call /\ rememberedBar[d] /\ placeBar[d] = placeBar[c]
    BY DEF Contract!Known
  <2>2. admittedAt[d] # Never /\ Remembered(d)
    BY <2>1 DEF rememberedBar, Remembered
  <2>3. pc[d] # "idle" /\ pc[c] # "idle"
    BY <1>1, <2>1, <2>2 DEF ProgressInv, BeforeAdmission
  <2>4. CallStore(d) = CallStore(c)
    BY <2>1, <2>3 DEF placeBar
  <2>. QED BY <1>6, <2>1, <2>2, <2>3, <2>4, AdmissionSpaced DEF SameKey
<1>. QED BY <1>1, <1>2, <1>3, <1>4, <1>5, <1>6
         DEF Contract!Admit, Contract!Unset, Never

\* The gateway takes the message, and says so or not.
LEMMA TakeStep ==
  ASSUME IInv, UncommittedInv, [Next]_vars, NEW c \in Call,
         Step(c) \/ Failure(c), ~AuditErrorFails(c),
         pc[c] = "ingest", pc'[c] \in {"commit", "reject"},
         ingestedAt' = [ingestedAt EXCEPT ![c] = now],
         UNCHANGED <<admittedAt, markedAt, sent>>
  PROVE  Contract!Take(c)
<1>. USE DEF IInv, TypeInv
<1>1. /\ admittedAt[c] # Never /\ ingestedAt[c] = Never
      /\ ingestedAt'[c] # Never
  BY DEF ProgressInv, AfterAdmission, BeforeIngest, TypeOK, Never
<1>2. /\ UNCHANGED <<now, msg, placeBar, rememberedBar>>
      /\ stageBar[c] = "open"
  BY <1>1, StepFrame
<1>3. stageBar' = [stageBar EXCEPT ![c] = "taken"]
  BY <1>1, StageAfter DEF Settled
<1>4. ASSUME NEW d \in Contract!Known(c), idOf(msg[d]) = idOf(msg[c])
      PROVE  \/ markedAt[d] = Contract!Unset
             \/ markedAt[d] >= admittedAt[c]
             \/ Contract!Expired(d)
  <2>1. /\ d \in Call /\ d # c /\ rememberedBar[d]
        /\ placeBar[d] = placeBar[c]
    BY DEF Contract!Known
  <2>2. admittedAt[d] # Never /\ Remembered(d)
    BY <2>1 DEF rememberedBar, Remembered
  <2>3. pc[d] # "idle"
    BY <2>1, <2>2 DEF ProgressInv, BeforeAdmission
  <2>4. CallStore(c) = CallStore(d) /\ placeBar[d] = CallStore(d)
    BY <2>1, <2>3 DEF placeBar
  <2>5. \/ markedAt[d] = Never
        \/ markedAt[d] >= admittedAt[c]
        \/ CallStore(d) \in Redis /\ now >= markedAt[d] + IdempotencyTtl
    BY <1>4, <2>1, <2>2, <2>3, <2>4 DEF UncommittedInv, idOf
  <2>. QED BY <2>4, <2>5 DEF Contract!Expired, Contract!Unset, Never
<1>. QED BY <1>1, <1>2, <1>3, <1>4
         DEF Contract!Take, Contract!Unset, Never

\* The mark is made, and the store says so or not.
LEMMA CommitStep ==
  ASSUME IInv, [Next]_vars, NEW c \in Call,
         Step(c) \/ Failure(c), ~AuditErrorFails(c),
         pc[c] = "commit", pc'[c] \in {"accept", "reject"},
         markedAt' = [markedAt EXCEPT ![c] = now],
         UNCHANGED <<admittedAt, ingestedAt, sent>>
  PROVE  Contract!Commit(c)
<1>. USE DEF IInv, TypeInv
<1>1. ingestedAt[c] # Never /\ markedAt[c] = Never
  BY DEF ProgressInv, AfterIngest, BeforeMark
<1>2. /\ UNCHANGED <<now, msg, placeBar, rememberedBar>>
      /\ stageBar[c] = "taken"
  BY <1>1, StepFrame
<1>3. stageBar' = [stageBar EXCEPT ![c] = "taken"]
  BY <1>1, StageAfter DEF Settled
<1>4. stageBar' = stageBar
  BY <1>2, <1>3, StageType
<1>. QED BY <1>1, <1>2, <1>4 DEF Contract!Commit, Contract!Unset, Never

\* The provider of the next target takes the message, and says so or not.
LEMMA ReachStep ==
  ASSUME IInv, OutcomeInv, [Next]_vars, NEW c \in Call,
         Step(c) \/ Failure(c), ~AuditErrorFails(c),
         pc[c] = "send", pc'[c] \in {"record", "reject", "stalled"},
         NEW i \in Upcoming(c), IsNext(c, i),
         sent' = [sent EXCEPT ![c] = @ \cup {i}],
         UNCHANGED <<admittedAt, ingestedAt, markedAt>>
  PROVE  Contract!Reach(c)
<1>. USE DEF IInv, TypeInv
<1>1. ingestedAt[c] # Never /\ markedAt[c] # Never
  BY DEF ProgressInv, AfterIngest, AfterMark
<1>2. /\ UNCHANGED <<now, msg, placeBar, rememberedBar>>
      /\ stageBar[c] = "taken"
  BY <1>1, StepFrame
<1>3. stageBar' = [stageBar EXCEPT ![c] = "taken"]
  BY <1>1, StageAfter DEF Settled
<1>4. stageBar' = stageBar
  BY <1>2, <1>3, StageType
<1>5. sent[c] = {j \in Eligible(msg[c]) : j <= cursor[c]}
  BY DEF OutcomeInv, Served
<1>6. /\ cursor[c] \in Nat
      /\ \A j \in Eligible(msg[c]) : j \in Nat
  <2>1. msg[c] \in Message /\ HasRule(msg[c].channel)
    BY CallTypes DEF RuleInv, InProgress
  <2>. QED BY <2>1, EligibleFinite DEF TypeOK
<1>7. /\ i \in Eligible(msg[c]) \ sent[c]
      /\ \A j \in Eligible(msg[c]) : j < i => j \in sent[c]
  BY <1>5, <1>6 DEF IsNext, Upcoming
<1>. QED BY <1>1, <1>2, <1>4, <1>7 DEF Contract!Reach, Contract!Unset, Never

\* A delivery is received at the store of the process.
LEMMA ReceiveStep ==
  ASSUME IInv, [Next]_vars, NEW c \in Call, NEW n \in Node, NEW m \in Message,
         Deliver(c, n, m)
  PROVE  Contract!Receive(c)
<1>. USE DEF IInv, TypeInv
<1>1. /\ pc[c] = "idle" /\ pc'[c] \in {"limit", "reject"}
      /\ \A x \in Call \ {c} : /\ pc'[x] = pc[x] /\ host'[x] = host[x]
                               /\ life'[x] = life[x]
      /\ host'[c] = n
      /\ msg' = [msg EXCEPT ![c] = m]
      /\ UNCHANGED <<now, epoch, admittedAt, ingestedAt, markedAt, sent>>
  BY DEF Deliver, Goto, historyVars, TypeOK
<1>2. admittedAt[c] = Never /\ ingestedAt[c] = Never
  BY <1>1 DEF ProgressInv, BeforeAdmission, BeforeIngest
<1>3. stageBar[c] = "idle"
  BY <1>1, StageValue
<1>4. stageBar' = [stageBar EXCEPT ![c] = "open"]
  <2>1. TypeOK'
    BY TypeStep
  <2>2. stageBar'[c] = "open"
    BY <1>1, <1>2, <2>1, StageValueNext DEF Settled
  <2>3. \A x \in Call \ {c} : stageBar'[x] = stageBar[x]
    BY <1>1, <2>1, StageValue, StageValueNext
  <2>. QED BY <2>1, <2>2, <2>3, StageType, StageTypeNext
<1>5. StoreOf[n] \in Store /\ placeBar' = [placeBar EXCEPT ![c] = StoreOf[n]]
  <2>1. \A x \in Call :
          placeBar'[x] = IF x = c THEN StoreOf[n] ELSE placeBar[x]
    BY <1>1 DEF placeBar, CallStore
  <2>. QED BY <2>1, ConstantTypes DEF placeBar
<1>6. rememberedBar' = rememberedBar
  <2>1. \A x \in Call : rememberedBar'[x] = rememberedBar[x]
    BY <1>1, <1>2 DEF rememberedBar, CallStore
  <2>. QED BY <2>1 DEF rememberedBar
<1>. QED BY <1>1, <1>3, <1>4, <1>5, <1>6 DEF Contract!Receive

\* The death of a process closes its calls, and what it had in its memory is
\* forgotten.
LEMMA DeathStep ==
  ASSUME IInv, [Next]_vars, NEW n \in Node, Die(n)
  PROVE  AbstractStep
<1>. USE DEF IInv, TypeInv
<1>. DEFINE S == {x \in Call : host[x] = n /\ pc[x] \in InProgress}
            p == StoreOf[n]
<1>1. /\ UNCHANGED <<now, msg, host, life, admittedAt, ingestedAt, markedAt,
                     sent>>
      /\ epoch' = [epoch EXCEPT ![n] = epoch[n] + 1]
      /\ \A x \in Call : pc'[x] = IF x \in S THEN "lost" ELSE pc[x]
      /\ epoch[n] \in Nat /\ p \in Store
  BY ConstantTypes DEF Die, historyVars, TypeOK
<1>2. Contract!Over(S)
  <2>1. TypeOK'
    BY TypeStep
  <2>2. ASSUME NEW x \in Call
        PROVE  stageBar'[x] = IF x \in S THEN "over" ELSE stageBar[x]
    BY <1>1, <2>1, StageValue, StageValueNext DEF Settled
  <2>. HIDE DEF S
  <2>3. stageBar' = [x \in Call |-> IF x \in S THEN "over" ELSE stageBar[x]]
    BY <2>1, <2>2, StageTypeNext
  <2>. QED BY <2>3 DEF Contract!Over
<1>3. \A x \in Contract!Open : x \in Call /\ pc[x] \in InProgress
  BY StageValue DEF Contract!Open, TypeOK, Control, InProgress, Settled
<1>4. S \subseteq Contract!Open
  BY StageValue DEF Contract!Open, InProgress, Settled
<1>5. placeBar' = placeBar
  <2>1. \A x \in Call : placeBar'[x] = placeBar[x]
    BY <1>1 DEF placeBar, CallStore, InProgress
  <2>. QED BY <2>1 DEF placeBar
<1>6. ASSUME NEW x \in Call, admittedAt[x] # Never
      PROVE  /\ pc[x] # "idle" /\ host[x] \in Node
             /\ life[x] \in Nat /\ life[x] <= epoch[host[x]]
             /\ placeBar[x] = StoreOf[host[x]]
  BY <1>6, CallTypes DEF ProgressInv, BeforeAdmission, LifeInv, TypeOK,
     placeBar, CallStore
<1>. HIDE DEF S, p
<1>7. CASE p \in Redis
  <2>1. ASSUME NEW x \in Call PROVE rememberedBar'[x] <=> rememberedBar[x]
    <3>1. CASE admittedAt[x] = Never
      BY <1>1, <3>1 DEF rememberedBar
    <3>2. CASE admittedAt[x] # Never /\ host[x] = n
      BY <1>1, <1>7, <3>2 DEF rememberedBar, CallStore, p
    <3>3. CASE admittedAt[x] # Never /\ host[x] # n
      <4>1. epoch'[host[x]] = epoch[host[x]]
        BY <1>1, <1>6, <3>3 DEF TypeOK
      <4>. QED BY <1>1, <4>1 DEF rememberedBar, CallStore
    <3>. QED BY <3>1, <3>2, <3>3
  <2>2. rememberedBar' = rememberedBar
    BY <2>1 DEF rememberedBar
  <2>3. CASE S = {}
    <3>1. stageBar' = stageBar
      BY <1>2, <2>3, StageType DEF Contract!Over
    <3>. QED BY <1>1, <1>5, <2>2, <3>1 DEF AbstractStep, Contract!cvars
  <2>4. CASE S # {}
    BY <1>1, <1>2, <1>4, <1>5, <2>2, <2>4
    DEF AbstractStep, Contract!Next, Contract!Close
  <2>. QED BY <2>3, <2>4
<1>8. CASE p \notin Redis
  <2>1. \A k \in Node : StoreOf[k] = p <=> k = n
    BY <1>8, EngineAssumption DEF p
  <2>2. S = {x \in Contract!Open : placeBar[x] = p}
    <3>1. ASSUME NEW x \in Contract!Open PROVE x \in S <=> placeBar[x] = p
      <4>1. x \in Call /\ pc[x] \in InProgress /\ host[x] \in Node
        BY <1>3, CallTypes DEF InProgress
      <4>2. placeBar[x] = StoreOf[host[x]]
        BY <4>1 DEF placeBar, CallStore, InProgress
      <4>. QED BY <2>1, <4>1, <4>2 DEF S
    <3>. QED BY <1>4, <3>1
  <2>3. ASSUME NEW x \in Call
        PROVE  rememberedBar'[x] <=> rememberedBar[x] /\ placeBar[x] # p
    <3>1. CASE admittedAt[x] = Never
      BY <1>1, <3>1 DEF rememberedBar
    <3>2. CASE admittedAt[x] # Never /\ host[x] = n
      <4>1. life[x] # epoch'[n] /\ placeBar[x] = p
        BY <1>1, <1>6, <3>2 DEF TypeOK, p
      <4>. QED BY <1>1, <1>8, <3>2, <4>1 DEF rememberedBar, CallStore, p
    <3>3. CASE admittedAt[x] # Never /\ host[x] # n
      <4>1. epoch'[host[x]] = epoch[host[x]] /\ placeBar[x] # p
        BY <1>1, <1>6, <2>1, <3>3 DEF TypeOK
      <4>. QED BY <1>1, <4>1 DEF rememberedBar, CallStore
    <3>. QED BY <3>1, <3>2, <3>3
  <2>4. rememberedBar' = [x \in Call |-> rememberedBar[x] /\ placeBar[x] # p]
    BY <2>3 DEF rememberedBar
  <2>5. Contract!Forget(p)
    BY <1>1, <1>2, <1>5, <2>2, <2>4 DEF Contract!Forget
  <2>. QED BY <1>1, <1>8, <2>5 DEF AbstractStep, Contract!Next
<1>. QED BY <1>7, <1>8

LEMMA RefinementStep ==
  ASSUME IInv, OutcomeInv, UncommittedInv, [Next]_vars
  PROVE  AbstractStep
<1>1. ASSUME NEW c \in Call, NEW n \in Node, NEW m \in Message,
             Deliver(c, n, m)
      PROVE  AbstractStep
  BY <1>1, ReceiveStep DEF AbstractStep, Contract!Next
<1>2. ASSUME NEW c \in Call, Step(c) \/ Failure(c), ~AuditErrorFails(c)
      PROVE  AbstractStep
  <2>. USE <1>2 DEF AbstractStep, Contract!Next
  <2>1. CASE UNCHANGED historyVars
    BY <2>1, QuietStep DEF IInv, TypeInv
  <2>2. CASE MarkIfNew(c) /\ admittedAt' # admittedAt
    BY <2>2, AdmitStep
  <2>3. CASE /\ pc[c] = "ingest" /\ pc'[c] \in {"commit", "reject"}
             /\ ingestedAt' = [ingestedAt EXCEPT ![c] = now]
             /\ UNCHANGED <<admittedAt, markedAt, sent>>
    BY <2>3, TakeStep
  <2>4. CASE /\ pc[c] = "commit" /\ pc'[c] \in {"accept", "reject"}
             /\ markedAt' = [markedAt EXCEPT ![c] = now]
             /\ UNCHANGED <<admittedAt, ingestedAt, sent>>
    BY <2>4, CommitStep
  <2>5. CASE /\ pc[c] = "send" /\ pc'[c] \in {"record", "reject", "stalled"}
             /\ \E i \in Upcoming(c) :
                  IsNext(c, i) /\ sent' = [sent EXCEPT ![c] = @ \cup {i}]
             /\ UNCHANGED <<admittedAt, ingestedAt, markedAt>>
    BY <2>5, ReachStep
  <2>. QED BY <2>1, <2>2, <2>3, <2>4, <2>5, HistoryCases DEF IInv, TypeInv
<1>3. ASSUME NEW n \in Node, Die(n) PROVE AbstractStep
  BY <1>3, DeathStep
<1>4. CASE Tick
  <2>1. now' = now + 1 /\ UNCHANGED <<epoch, callVars, historyVars>>
    BY <1>4 DEF Tick
  <2>2. UNCHANGED <<stageBar, msg, placeBar, admittedAt, markedAt,
                    rememberedBar, sent>>
    BY <2>1 DEF callVars, historyVars, stageBar, placeBar, rememberedBar,
       CallStore
  <2>3. Contract!Advance
    BY <2>1, <2>2 DEF Contract!Advance
  <2>. QED BY <2>3 DEF AbstractStep, Contract!Next
<1>5. CASE UNCHANGED vars
  <2>1. UNCHANGED Contract!cvars
    BY <1>5 DEF vars, callVars, historyVars, Contract!cvars, stageBar,
       placeBar, rememberedBar, CallStore
  <2>. QED BY <2>1 DEF AbstractStep
<1>6. TypeOK
  BY DEF IInv
<1>. QED BY <1>1, <1>2, <1>3, <1>4, <1>5, <1>6, NextCases, DeathCase

LEMMA UncommittedInit == Init => UncommittedInv
BY DEF Init, UncommittedInv

\* No store that remembers has a mark of a call's id from before the call's
\* admission, once the call has passed the idempotency check, unless expired.
THEOREM UncommittedCorrect == Spec => []UncommittedInv
<1>1. IInv /\ UncommittedInv /\ [Next]_vars => UncommittedInv'
  BY UncommittedStep DEF IInv, TypeInv
<1>. QED BY <1>1, UncommittedInit, InvariantCorrect, PTL DEF Spec

\* Every behaviour of the engine is one the contract allows, for any number of
\* processes, stores, calls and messages: two admissions of a key are a TTL
\* apart, a message is taken only if its id was not committed when it was
\* admitted, and fan-outs reach their targets in order.
THEOREM ContractImplemented == Spec => ImplementsContract
<1>1. IInv /\ OutcomeInv /\ UncommittedInv /\ [Next]_vars
        => [Contract!Next]_Contract!cvars
  BY RefinementStep DEF AbstractStep
<1>. QED BY <1>1, RefinementInit, InvariantCorrect, OutcomeInvariant,
         UncommittedCorrect, PTL DEF Spec, ImplementsContract, Contract!Spec

===============================================================================
