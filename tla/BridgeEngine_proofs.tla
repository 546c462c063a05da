------------------------ MODULE BridgeEngine_proofs -------------------------
(***************************************************************************)
(* Theorems about BridgeEngine, for every set of processes, stores, calls  *)
(* and messages, every policy and every TTL.                               *)
(***************************************************************************)
EXTENDS BridgeInvariant, WellFoundedInduction, TLAPS

\* A set of natural numbers with an element has a least one.
LEMMA NatMin ==
  ASSUME NEW T, T \subseteq Nat, T # {}
  PROVE  \E x \in T : \A y \in T : x <= y
<1>. DEFINE LessThan == {r \in Nat \X Nat : r[1] < r[2]}
<1>1. IsWellFoundedOn(LessThan, Nat)
  BY NatLessThanWellFounded DEF OpToRel
<1>. HIDE DEF LessThan
<1>2. PICK x \in T : \A y \in T : ~(<<y, x>> \in LessThan)
  BY <1>1, WFMin
<1>3. ASSUME NEW y \in T PROVE x <= y
  <2>1. <<y, x>> \notin LessThan
    BY <1>2
  <2>2. x \in Nat /\ y \in Nat
    OBVIOUS
  <2>3. y < x => <<y, x>> \in LessThan
    BY <2>2 DEF LessThan
  <2>. QED BY <2>1, <2>2, <2>3
<1>. QED BY <1>3

\* resolveRule answers with a rule of the policy for that very channel.
LEMMA RuleResolved ==
  ASSUME NEW source, HasRule(source)
  PROVE  /\ ResolveRule(source) \in BridgePolicyRule
         /\ ResolveRule(source).sourceChannel = source
<1>. DEFINE I == {i \in DOMAIN Rules : Rules[i].sourceChannel = source}
<1>1. Rules \in Seq(BridgePolicyRule) /\ DOMAIN Rules \subseteq Nat
  BY PolicyAssumption
<1>2. PICK i \in I : \A j \in I : i <= j
  BY <1>1, NatMin DEF HasRule
<1>3. /\ i \in DOMAIN Rules
      /\ Rules[i].sourceChannel = source
      /\ \A j \in DOMAIN Rules : j < i => Rules[j].sourceChannel # source
  BY <1>1, <1>2
<1>4. \E k \in DOMAIN Rules : /\ ResolveRule(source) = Rules[k]
                              /\ Rules[k].sourceChannel = source
  BY <1>3 DEF ResolveRule
<1>. QED BY <1>1, <1>4

-----------------------------------------------------------------------------
(* Typing *)

LEMMA ConstantTypes ==
  /\ ReplayTtl \in Nat /\ ReplayTtl > 0
  /\ IdempotencyTtl \in Nat /\ IdempotencyTtl > 0
  /\ \A n \in Node : StoreOf[n] \in Store
  /\ \A m \in Message : /\ m.channel \in Channel
                        /\ ReplayKey(m) \in Key
                        /\ m.id \in Id
BY EngineAssumption DEF RawInboundMessage, Key, Id

\* The positions the fan-out loop serves are natural numbers, and name
\* channels.
LEMMA EligibleType ==
  ASSUME NEW m \in Message, HasRule(m.channel)
  PROVE  /\ Eligible(m) \subseteq Nat
         /\ \A i \in Eligible(m) : Targets(m)[i] \in Channel
<1>1. ResolveRule(m.channel).fanoutTargets \in Seq(Channel)
  BY RuleResolved DEF BridgePolicyRule
<1>2. DOMAIN Targets(m) \subseteq Nat
  BY <1>1 DEF Targets
<1>. QED BY <1>2, EngineAssumption DEF Eligible

LEMMA EventType ==
  ASSUME NEW e \in Channel
  PROVE  /\ Event("accepted", e) \in AuditEvent
         /\ Event("forwarded", e) \in AuditEvent
         /\ Event("error", e) \in AuditEvent
BY DEF Event, AuditEvent

TypeInv == TypeOK /\ RuleInv

LEMMA TypeInit == Init => TypeInv
BY DEF Init, TypeInv, TypeOK, RuleInv, Control, InProgress, Instant, Never,
       AuditEvent

LEMMA CallTypes ==
  ASSUME TypeOK, NEW c \in Call, pc[c] # "idle"
  PROVE  /\ msg[c] \in Message /\ host[c] \in Node
         /\ CallStore(c) \in Store
         /\ ReplayKey(msg[c]) \in Key /\ msg[c].id \in Id
BY ConstantTypes DEF TypeOK, CallStore

LEMMA SetNonceType ==
  ASSUME TypeOK, NEW s \in Store, NEW k \in Key, SetNonce(s, k)
  PROVE  nonces' \in [Store -> [Key -> Nat]]
<1>. DEFINE f == [j \in Key |-> IF j = k THEN now + ReplayTtl
                                ELSE IF Live(s, j) THEN nonces[s][j] ELSE 0]
<1>1. f \in [Key -> Nat]
  BY ConstantTypes DEF TypeOK
<1>2. nonces' = [nonces EXCEPT ![s] = f]
  BY DEF SetNonce
<1>. QED BY <1>1, <1>2 DEF TypeOK

LEMMA SetProcessedType ==
  ASSUME TypeOK, NEW c \in Call, pc[c] # "idle", SetProcessed(c)
  PROVE  /\ processed' \in [Store -> [Id -> Nat]]
         /\ markedAt' \in [Call -> Instant]
<1>. DEFINE s == CallStore(c)
            f == [processed[s] EXCEPT ![msg[c].id] = now + IdempotencyTtl]
<1>1. s \in Store /\ msg[c].id \in Id
  BY CallTypes
<1>2. f \in [Id -> Nat]
  BY <1>1, ConstantTypes DEF TypeOK
<1>3. processed' = [processed EXCEPT ![s] = f]
  BY DEF SetProcessed
<1>4. processed' \in [Store -> [Id -> Nat]]
  BY <1>1, <1>2, <1>3 DEF TypeOK
<1>5. markedAt' \in [Call -> Instant]
  BY DEF SetProcessed, TypeOK, Instant
<1>. QED BY <1>4, <1>5

LEMMA WriteType ==
  ASSUME TypeOK, NEW c \in Call, NEW e \in Channel,
         NEW type \in {"accepted", "forwarded", "error"},
         Write(c, type, e) \/ MayWrite(c, type, e)
  PROVE  log' \in [Call -> Seq(AuditEvent)]
<1>1. Append(log[c], Event(type, e)) \in Seq(AuditEvent)
  BY EventType DEF TypeOK
<1>2. log' = log \/ log' = [log EXCEPT ![c] = Append(log[c], Event(type, e))]
  BY DEF Write, MayWrite
<1>. QED BY <1>1, <1>2 DEF TypeOK

LEMMA DieType ==
  ASSUME TypeOK, NEW n \in Node, Die(n)
  PROVE  /\ nonces' \in [Store -> [Key -> Nat]]
         /\ processed' \in [Store -> [Id -> Nat]]
         /\ epoch' \in [Node -> Nat]
<1>. DEFINE nokeys == [k \in Key |-> 0]
            nomarks == [id \in Id |-> 0]
<1>1. nokeys \in [Key -> Nat] /\ nomarks \in [Id -> Nat]
  OBVIOUS
<1>2. \/ nonces' = nonces /\ processed' = processed
      \/ /\ nonces' = [nonces EXCEPT ![StoreOf[n]] = nokeys]
         /\ processed' = [processed EXCEPT ![StoreOf[n]] = nomarks]
  BY DEF Die, storeVars
<1>. HIDE DEF nokeys, nomarks
<1>3. nonces' \in [Store -> [Key -> Nat]]
  BY <1>1, <1>2 DEF TypeOK
<1>4. processed' \in [Store -> [Id -> Nat]]
  BY <1>1, <1>2 DEF TypeOK
<1>. QED BY <1>3, <1>4 DEF Die, TypeOK

\* Every step keeps the types, the rule of a call past the first checks and
\* the position of the loop that records a send.
LEMMA TypeStep == TypeInv /\ [Next]_vars => TypeInv'
<1>. SUFFICES ASSUME TypeInv, [Next]_vars PROVE TypeInv'
  OBVIOUS
<1>. USE ConstantTypes DEF TypeInv
<1>1. ASSUME NEW c \in Call, NEW n \in Node, NEW m \in Message,
             Deliver(c, n, m)
      PROVE  TypeInv'
  BY <1>1 DEF Deliver, TypeOK, RuleInv, Goto, Control, InProgress,
     storeVars, historyVars
<1>2. ASSUME NEW c \in Call, RateLimit(c) PROVE TypeInv'
  BY <1>2 DEF RateLimit, TypeOK, RuleInv, Goto, Control, InProgress,
     storeVars, historyVars
<1>3. ASSUME NEW c \in Call, MarkIfNew(c) PROVE TypeInv'
  <2>1. nonces' \in [Store -> [Key -> Nat]]
    BY <1>3, CallTypes, SetNonceType DEF MarkIfNew, TypeOK
  <2>2. admittedAt' \in [Call -> Instant]
    BY <1>3 DEF MarkIfNew, TypeOK, Instant
  <2>. QED BY <1>3, <2>1, <2>2 DEF MarkIfNew, TypeOK, RuleInv, Goto, Control,
           InProgress
<1>4. ASSUME NEW c \in Call, MarkIfNewFails(c) PROVE TypeInv'
  <2>1. nonces' \in [Store -> [Key -> Nat]]
    BY <1>4, CallTypes, SetNonceType DEF MarkIfNewFails, TypeOK
  <2>. QED BY <1>4, <2>1 DEF MarkIfNewFails, TypeOK, RuleInv, Goto, Control,
           InProgress, historyVars
<1>5. ASSUME NEW c \in Call, CheckProcessed(c) \/ CheckProcessedFails(c)
      PROVE  TypeInv'
  BY <1>5 DEF CheckProcessed, CheckProcessedFails, TypeOK, RuleInv, Goto,
     Control, InProgress, storeVars, historyVars
<1>6. ASSUME NEW c \in Call, Authorise(c) PROVE TypeInv'
  BY <1>6 DEF Authorise, TypeOK, RuleInv, Goto, Control, InProgress,
     storeVars, historyVars
<1>7. ASSUME NEW c \in Call, Ingest(c) \/ IngestFails(c) PROVE TypeInv'
  <2>1. ingestedAt' \in [Call -> Instant]
    BY <1>7 DEF Ingest, IngestFails, TypeOK, Instant
  <2>. QED BY <1>7, <2>1 DEF Ingest, IngestFails, TypeOK, RuleInv, Goto,
           Control, InProgress, storeVars
<1>8. ASSUME NEW c \in Call, MarkProcessed(c) \/ MarkProcessedFails(c)
      PROVE  TypeInv'
  <2>1. processed' \in [Store -> [Id -> Nat]]
    BY <1>8, SetProcessedType DEF MarkProcessed, MarkProcessedFails, TypeOK
  <2>2. markedAt' \in [Call -> Instant]
    BY <1>8, SetProcessedType DEF MarkProcessed, MarkProcessedFails, TypeOK
  <2>. QED BY <1>8, <2>1, <2>2 DEF MarkProcessed, MarkProcessedFails, TypeOK,
           RuleInv, Goto, Control, InProgress
<1>9. ASSUME NEW c \in Call, AuditAccepted(c) \/ AuditAcceptedFails(c)
      PROVE  TypeInv'
  <2>1. log' \in [Call -> Seq(AuditEvent)]
    BY <1>9, CallTypes, WriteType DEF AuditAccepted, AuditAcceptedFails
  <2>. QED BY <1>9, <2>1 DEF AuditAccepted, AuditAcceptedFails, LoopHead,
           TypeOK, RuleInv, Goto, Control, InProgress, Settled, storeVars,
           historyVars
<1>10. ASSUME NEW c \in Call, Send(c) \/ SendFails(c) \/ SendStalls(c) PROVE TypeInv'
  <2>1. PICK i \in Upcoming(c) :
          /\ cursor' = [cursor EXCEPT ![c] = i]
          /\ sent' \in {sent, [sent EXCEPT ![c] = @ \cup {i}]}
    BY <1>10 DEF Send, SendFails, SendStalls
  <2>2. i \in Nat /\ i \in Eligible(msg[c])
    BY <1>10, CallTypes, EligibleType DEF Send, SendFails, SendStalls, Upcoming, RuleInv,
       InProgress
  <2>3. sent' \in [Call -> SUBSET Nat] /\ cursor' \in [Call -> Nat]
    <3>1. sent[c] \cup {i} \in SUBSET Nat
      BY <2>2 DEF TypeOK
    <3>2. sent' \in [Call -> SUBSET Nat]
      BY <2>1, <3>1 DEF TypeOK
    <3>. QED BY <2>1, <2>2, <3>2 DEF TypeOK
  <2>4. cursor'[c] \in Eligible(msg[c])
    BY <2>1, <2>2 DEF TypeOK
  <2>5. pc' \in [Call -> Control] /\ \A d \in Call : d # c => pc'[d] = pc[d]
    BY <1>10 DEF Send, SendFails, SendStalls, Goto, Control, InProgress, TypeOK
  <2>6. /\ pc[c] = "send"
        /\ UNCHANGED <<now, epoch, msg, host, life, storeVars, log, admittedAt,
                       ingestedAt, markedAt>>
    BY <1>10 DEF Send, SendFails, SendStalls
  <2>7. \A d \in Call : d # c => cursor'[d] = cursor[d]
    BY <2>1 DEF TypeOK
  <2>. QED BY <2>1, <2>3, <2>4, <2>5, <2>6, <2>7 DEF TypeOK, RuleInv,
           InProgress, storeVars
<1>11. ASSUME NEW c \in Call, AuditForwarded(c) \/ AuditForwardedFails(c)
       PROVE  TypeInv'
  <2>1. Targets(msg[c])[cursor[c]] \in Channel
    BY <1>11, CallTypes, EligibleType DEF AuditForwarded,
       AuditForwardedFails, RuleInv, InProgress
  <2>2. log' \in [Call -> Seq(AuditEvent)]
    BY <1>11, <2>1, WriteType DEF AuditForwarded, AuditForwardedFails
  <2>. QED BY <1>11, <2>2 DEF AuditForwarded, AuditForwardedFails, LoopHead,
           TypeOK, RuleInv, Goto, Control, InProgress, Settled, storeVars,
           historyVars
<1>12. ASSUME NEW c \in Call, AuditError(c) PROVE TypeInv'
  <2>1. log' \in [Call -> Seq(AuditEvent)]
    BY <1>12, CallTypes, WriteType DEF AuditError
  <2>. QED BY <1>12, <2>1 DEF AuditError, TypeOK, RuleInv, Goto, Control,
           InProgress, Settled, storeVars, historyVars
<1>13. ASSUME NEW n \in Node, Die(n), log' \in [Call -> Seq(AuditEvent)]
       PROVE  TypeInv'
  <2>1. /\ pc' \in [Call -> Control]
        /\ \A c \in Call : pc'[c] = pc[c] \/ pc'[c] = "lost"
        /\ \A c \in Call : pc'[c] # "idle" => pc[c] # "idle"
    BY <1>13 DEF Die, TypeOK, Control, InProgress, Settled
  <2>. QED BY <1>13, <2>1, DieType DEF Die, TypeOK, RuleInv, InProgress,
           historyVars
<1>14. ASSUME NEW c \in Call, AuditErrorFails(c) PROVE TypeInv'
  <2>1. log' \in [Call -> Seq(AuditEvent)]
    BY <1>14, CallTypes, WriteType DEF AuditErrorFails
  <2>. QED BY <1>14, <1>13, <2>1, CallTypes DEF AuditErrorFails
<1>15. ASSUME NEW n \in Node, Crash(n) PROVE TypeInv'
  BY <1>15, <1>13 DEF Crash, TypeOK
<1>16. CASE Tick
  BY <1>16 DEF Tick, TypeOK, RuleInv, callVars, storeVars, historyVars
<1>17. CASE UNCHANGED vars
  BY <1>17 DEF vars, TypeOK, RuleInv, callVars, storeVars, historyVars
<1>. QED
  BY <1>1, <1>2, <1>3, <1>4, <1>5, <1>6, <1>7, <1>8, <1>9, <1>10, <1>11,
     <1>12, <1>14, <1>15, <1>16, <1>17 DEF Next, Step, Failure, Quiescent

\* In every reachable state the variables have their types, a call past the
\* first checks has its message, process and rule, and the fan-out loop only
\* records a target it serves.
THEOREM TypeCorrect == Spec => []TypeOK
<1>1. Init => TypeInv
  BY TypeInit
<1>2. TypeInv /\ [Next]_vars => TypeInv'
  BY TypeStep
<1>3. TypeInv => TypeOK
  BY DEF TypeInv
<1>. QED BY <1>1, <1>2, <1>3, PTL DEF Spec

-----------------------------------------------------------------------------
(* What one step does to the state that the guards rely on *)

\* A step of a running call is one of these kinds; it concerns no other call.
LEMMA CallStep ==
  ASSUME TypeOK, NEW c \in Call, Step(c) \/ Failure(c), ~AuditErrorFails(c)
  PROVE  /\ pc[c] \in InProgress /\ pc'[c] # "idle"
         /\ UNCHANGED <<now, epoch, msg, host, life>>
         /\ \A d \in Call \ {c} : pc'[d] = pc[d]
         /\ \/ UNCHANGED <<nonces, admittedAt>>
            \/ MarkIfNew(c) \/ MarkIfNewFails(c)
         /\ \/ UNCHANGED <<processed, markedAt>>
            \/ MarkProcessed(c) \/ MarkProcessedFails(c)
         /\ UNCHANGED ingestedAt \/ Ingest(c) \/ IngestFails(c)
         /\ pc'[c] \in {"verify", "ingest"} =>
              CheckProcessed(c) \/ Authorise(c)
<1>. USE DEF Goto, InProgress, TypeOK, storeVars, historyVars
<1>1. CASE RateLimit(c)
  BY <1>1 DEF RateLimit
<1>2. CASE MarkIfNew(c) \/ MarkIfNewFails(c)
  BY <1>2 DEF MarkIfNew, MarkIfNewFails
<1>3. CASE CheckProcessed(c) \/ CheckProcessedFails(c)
  BY <1>3 DEF CheckProcessed, CheckProcessedFails
<1>4. CASE Authorise(c)
  BY <1>4 DEF Authorise
<1>5. CASE Ingest(c) \/ IngestFails(c)
  BY <1>5 DEF Ingest, IngestFails
<1>6. CASE MarkProcessed(c) \/ MarkProcessedFails(c)
  BY <1>6 DEF MarkProcessed, MarkProcessedFails
<1>7. CASE AuditAccepted(c) \/ AuditAcceptedFails(c)
  BY <1>7 DEF AuditAccepted, AuditAcceptedFails, LoopHead
<1>8. CASE Send(c) \/ SendFails(c) \/ SendStalls(c)
  BY <1>8 DEF Send, SendFails, SendStalls
<1>9. CASE AuditForwarded(c) \/ AuditForwardedFails(c)
  BY <1>9 DEF AuditForwarded, AuditForwardedFails, LoopHead
<1>10. CASE AuditError(c)
  BY <1>10 DEF AuditError
<1>. QED
  BY <1>1, <1>2, <1>3, <1>4, <1>5, <1>6, <1>7, <1>8, <1>9, <1>10
  DEF Step, Failure

\* The five ways the state may change.
LEMMA NextCases ==
  ASSUME [Next]_vars
  PROVE  \/ \E c \in Call, n \in Node, m \in Message : Deliver(c, n, m)
         \/ \E c \in Call : (Step(c) \/ Failure(c)) /\ ~AuditErrorFails(c)
         \/ \E n \in Node : Die(n)
         \/ Tick
         \/ UNCHANGED vars
         \/ \E c \in Call : AuditErrorFails(c)
BY DEF Next, Crash, Quiescent

LEMMA DeathCase ==
  ASSUME TypeOK, NEW c \in Call, AuditErrorFails(c)
  PROVE  \E n \in Node : Die(n)
BY CallTypes DEF AuditErrorFails

LEMMA SetNonceEffect ==
  ASSUME TypeOK, NEW s \in Store, NEW k \in Key, SetNonce(s, k),
         NEW r \in Store, NEW j \in Key
  PROVE  /\ r = s /\ j = k => nonces'[r][j] = now + ReplayTtl
         /\ ~(r = s /\ j = k) /\ nonces[r][j] > now
            => nonces'[r][j] = nonces[r][j]
<1>. DEFINE f == [l \in Key |-> IF l = k THEN now + ReplayTtl
                                ELSE IF Live(s, l) THEN nonces[s][l] ELSE 0]
<1>1. nonces' = [nonces EXCEPT ![s] = f]
  BY DEF SetNonce
<1>2. nonces'[r] = IF r = s THEN f ELSE nonces[r]
  BY <1>1 DEF TypeOK
<1>. QED BY <1>2 DEF Live

\* The death of a process takes nothing from a store whose contents a call
\* may still rely on afterwards.
LEMMA DieEffect ==
  ASSUME TypeOK, LifeInv, NEW n \in Node, Die(n), NEW c \in Call,
         pc[c] # "idle", Remembered(c)'
  PROVE  /\ Remembered(c)
         /\ nonces'[CallStore(c)] = nonces[CallStore(c)]
         /\ processed'[CallStore(c)] = processed[CallStore(c)]
<1>1. /\ host[c] \in Node /\ life[c] \in Nat /\ epoch[n] \in Nat
      /\ life[c] <= epoch[host[c]]
      /\ UNCHANGED <<host, life>>
      /\ epoch' = [epoch EXCEPT ![n] = epoch[n] + 1]
  BY DEF TypeOK, LifeInv, Die
<1>2. CASE CallStore(c) \in Redis /\ StoreOf[n] \in Redis
  BY <1>2 DEF Die, storeVars, Remembered
<1>3. CASE StoreOf[n] \notin Redis /\ CallStore(c) # StoreOf[n]
  <2>1. host[c] # n
    BY <1>3 DEF CallStore
  <2>2. Remembered(c)
    BY <1>1, <2>1 DEF Remembered, CallStore, TypeOK
  <2>3. /\ nonces' = [nonces EXCEPT ![StoreOf[n]] = [k \in Key |-> 0]]
        /\ processed' = [processed EXCEPT ![StoreOf[n]] = [id \in Id |-> 0]]
    BY <1>3 DEF Die
  <2>4. CallStore(c) \in Store
    BY CallTypes
  <2>. QED BY <1>3, <2>2, <2>3, <2>4 DEF TypeOK
<1>4. CASE CallStore(c) \notin Redis /\ CallStore(c) = StoreOf[n]
  <2>1. host[c] = n
    BY <1>1, <1>4, EngineAssumption DEF CallStore
  <2>2. epoch'[host[c]] = epoch[n] + 1
    BY <1>1, <2>1 DEF TypeOK
  <2>3. life'[c] = epoch'[host'[c]] \/ CallStore(c)' \in Redis
    BY DEF Remembered
  <2>. QED BY <1>1, <1>4, <2>1, <2>2, <2>3 DEF CallStore
<1>5. CASE CallStore(c) \notin Redis /\ StoreOf[n] \in Redis
  <2>1. host[c] # n
    BY <1>5 DEF CallStore
  <2>. QED BY <1>1, <1>5, <2>1 DEF Die, storeVars, Remembered, CallStore, TypeOK
<1>. QED BY <1>2, <1>3, <1>4, <1>5

-----------------------------------------------------------------------------
(* Lives and progress *)

LEMMA LifeStep ==
  ASSUME TypeInv, LifeInv, [Next]_vars
  PROVE  LifeInv'
<1>. USE DEF TypeInv
<1>1. ASSUME NEW c \in Call, NEW n \in Node, NEW m \in Message,
             Deliver(c, n, m)
      PROVE  LifeInv'
  BY <1>1 DEF Deliver, Goto, LifeInv, TypeOK
<1>2. ASSUME NEW c \in Call, Step(c) \/ Failure(c), ~AuditErrorFails(c)
      PROVE  LifeInv'
  BY <1>2, CallStep DEF LifeInv, TypeOK, InProgress
<1>3. ASSUME NEW n \in Node, Die(n) PROVE LifeInv'
  <2>1. /\ UNCHANGED <<host, life>>
        /\ epoch' = [epoch EXCEPT ![n] = epoch[n] + 1]
        /\ \A c \in Call : pc'[c] = IF host[c] = n /\ pc[c] \in InProgress
                                    THEN "lost" ELSE pc[c]
    BY <1>3 DEF Die
  <2>. SUFFICES ASSUME NEW c \in Call, pc'[c] # "idle"
                PROVE  /\ life[c] <= epoch'[host[c]]
                       /\ pc'[c] \in InProgress => life[c] = epoch'[host[c]]
    BY <2>1 DEF LifeInv
  <2>2. pc[c] # "idle"
    BY <2>1 DEF InProgress
  <2>3. /\ life[c] \in Nat /\ host[c] \in Node /\ epoch[host[c]] \in Nat
        /\ life[c] <= epoch[host[c]]
        /\ epoch'[host[c]] = IF host[c] = n THEN epoch[n] + 1
                             ELSE epoch[host[c]]
    BY <2>1, <2>2 DEF LifeInv, TypeOK
  <2>. QED BY <2>1, <2>3 DEF LifeInv, InProgress
<1>4. CASE Tick \/ UNCHANGED vars
  BY <1>4 DEF Tick, vars, callVars, LifeInv
<1>. QED BY <1>1, <1>2, <1>3, <1>4, NextCases, DeathCase

LEMMA ProgressStep ==
  ASSUME TypeInv, ProgressInv, [Next]_vars
  PROVE  ProgressInv'
<1>. USE DEF TypeInv, BeforeAdmission, BeforeIngest, BeforeMark, AfterMark,
             AfterIngest, AfterAdmission, Instant, Never
<1>1. ASSUME NEW c \in Call, NEW n \in Node, NEW m \in Message,
             Deliver(c, n, m)
      PROVE  ProgressInv'
  BY <1>1 DEF Deliver, Goto, ProgressInv, TypeOK, historyVars
<1>2. ASSUME NEW c \in Call, Step(c) \/ Failure(c), ~AuditErrorFails(c)
      PROVE  ProgressInv'
  <2>. USE DEF Goto, ProgressInv, TypeOK, historyVars
  <2>1. CASE RateLimit(c)
    BY <2>1 DEF RateLimit
  <2>2. CASE MarkIfNew(c)
    BY <2>2 DEF MarkIfNew
  <2>3. CASE MarkIfNewFails(c)
    BY <2>3 DEF MarkIfNewFails
  <2>4. CASE CheckProcessed(c) \/ CheckProcessedFails(c)
    BY <2>4 DEF CheckProcessed, CheckProcessedFails
  <2>5. CASE Authorise(c)
    BY <2>5 DEF Authorise
  <2>6. CASE Ingest(c) \/ IngestFails(c)
    BY <2>6 DEF Ingest, IngestFails
  <2>7. CASE MarkProcessed(c) \/ MarkProcessedFails(c)
    BY <2>7 DEF MarkProcessed, MarkProcessedFails, SetProcessed
  <2>0. LoopHead(c) \in {"done", "send"}
    BY DEF LoopHead
  <2>8. CASE AuditAccepted(c) \/ AuditAcceptedFails(c)
    BY <2>0, <2>8 DEF AuditAccepted, AuditAcceptedFails
  <2>9. CASE Send(c)
    BY <2>9 DEF Send
  <2>12. CASE SendFails(c)
    BY <2>12 DEF SendFails
  <2>13. CASE SendStalls(c)
    BY <2>13 DEF SendStalls
  <2>10. CASE AuditForwarded(c) \/ AuditForwardedFails(c)
    BY <2>0, <2>10 DEF AuditForwarded, AuditForwardedFails
  <2>11. CASE AuditError(c)
    BY <2>11 DEF AuditError
  <2>. QED BY <1>2, <2>1, <2>2, <2>3, <2>4, <2>5, <2>6, <2>7, <2>8, <2>9,
           <2>10, <2>11, <2>12, <2>13 DEF Step, Failure
<1>3. ASSUME NEW n \in Node, Die(n) PROVE ProgressInv'
  <2>1. /\ UNCHANGED <<now, historyVars>>
        /\ \A c \in Call : pc'[c] \in {pc[c], "lost"}
    BY <1>3 DEF Die
  <2>. QED BY <2>1 DEF ProgressInv, historyVars
<1>4. CASE Tick
  BY <1>4 DEF Tick, callVars, historyVars, ProgressInv, TypeOK
<1>5. CASE UNCHANGED vars
  BY <1>5 DEF vars, callVars, historyVars, ProgressInv
<1>. QED BY <1>1, <1>2, <1>3, <1>4, <1>5, NextCases, DeathCase

-----------------------------------------------------------------------------
(* The replay guard *)

\* markIfNew lets a call through only when its key is no longer held.
LEMMA AdmissionSpaced ==
  ASSUME TypeOK, KeyHeld, NEW c \in Call, NEW d \in Call, pc[c] # "idle",
         MarkIfNew(d), admittedAt' # admittedAt,
         CallStore(c) = CallStore(d), SameKey(c, d), Remembered(c),
         admittedAt[c] # Never
  PROVE  now >= admittedAt[c] + ReplayTtl
<1>1. ~Live(CallStore(d), ReplayKey(msg[d]))
  BY DEF MarkIfNew
<1>2. /\ nonces[CallStore(c)][ReplayKey(msg[c])] \in Nat
      /\ admittedAt[c] \in Nat /\ now \in Nat
  BY CallTypes DEF TypeOK, Instant, Never
<1>. QED BY <1>1, <1>2, ConstantTypes DEF KeyHeld, SameKey, Live

LEMMA KeyHeldStep ==
  ASSUME TypeInv, LifeInv, ProgressInv, KeyHeld, [Next]_vars
  PROVE  KeyHeld'
<1>. USE ConstantTypes DEF TypeInv
<1>. SUFFICES ASSUME NEW c \in Call, admittedAt'[c] # Never, Remembered(c)',
                     now' < admittedAt'[c] + ReplayTtl
              PROVE  nonces'[CallStore(c)'][ReplayKey(msg'[c])]
                       >= admittedAt'[c] + ReplayTtl
  BY DEF KeyHeld
<1>0. now \in Nat /\ admittedAt[c] \in Nat \cup {Never}
  BY DEF TypeOK, Instant
<1>1. ASSUME NEW d \in Call, NEW n \in Node, NEW m \in Message,
             Deliver(d, n, m)
      PROVE  nonces'[CallStore(c)'][ReplayKey(msg'[c])]
               >= admittedAt'[c] + ReplayTtl
  <2>1. /\ c # d
        /\ UNCHANGED <<now, epoch, nonces, admittedAt>>
        /\ msg'[c] = msg[c] /\ host'[c] = host[c] /\ life'[c] = life[c]
    BY <1>1 DEF Deliver, ProgressInv, BeforeAdmission, TypeOK, historyVars,
       storeVars
  <2>. QED BY <2>1 DEF KeyHeld, Remembered, CallStore
<1>2. ASSUME NEW d \in Call, Step(d) \/ Failure(d), ~AuditErrorFails(d)
      PROVE  nonces'[CallStore(c)'][ReplayKey(msg'[c])]
               >= admittedAt'[c] + ReplayTtl
  <2>1. UNCHANGED <<now, epoch, msg, host, life>> /\ pc[d] # "idle"
    BY <1>2, CallStep DEF InProgress
  <2>2. Remembered(c) /\ CallStore(c)' = CallStore(c)
    BY <2>1 DEF Remembered, CallStore
  <2>3. CASE UNCHANGED <<nonces, admittedAt>>
    BY <2>1, <2>2, <2>3 DEF KeyHeld
  <2>4. CASE /\ MarkIfNew(d) \/ MarkIfNewFails(d)
             /\ admittedAt'[c] = admittedAt[c]
    <3>1. pc[c] # "idle"
      BY <2>4 DEF ProgressInv, BeforeAdmission
    <3>2. /\ CallStore(c) \in Store /\ ReplayKey(msg[c]) \in Key
          /\ CallStore(d) \in Store /\ ReplayKey(msg[d]) \in Key
      BY <2>1, <3>1, CallTypes
    <3>3. nonces[CallStore(c)][ReplayKey(msg[c])]
            >= admittedAt[c] + ReplayTtl
      BY <2>1, <2>2, <2>4 DEF KeyHeld
    <3>4. Live(CallStore(c), ReplayKey(msg[c]))
      BY <1>0, <2>1, <2>4, <3>2, <3>3 DEF Live, TypeOK, Never
    <3>5. \/ UNCHANGED nonces
          \/ /\ SetNonce(CallStore(d), ReplayKey(msg[d]))
             /\ ~Live(CallStore(d), ReplayKey(msg[d]))
      BY <2>4 DEF MarkIfNew, MarkIfNewFails
    <3>6. nonces'[CallStore(c)][ReplayKey(msg[c])]
            = nonces[CallStore(c)][ReplayKey(msg[c])]
      BY <3>2, <3>4, <3>5, SetNonceEffect DEF Live
    <3>. QED BY <2>1, <2>2, <2>4, <3>3, <3>6
  <2>5. CASE MarkIfNew(d) /\ admittedAt'[c] # admittedAt[c]
    <3>1. c = d /\ admittedAt'[c] = now
          /\ SetNonce(CallStore(d), ReplayKey(msg[d]))
      BY <2>5 DEF MarkIfNew, TypeOK
    <3>2. CallStore(d) \in Store /\ ReplayKey(msg[d]) \in Key
      BY <2>1, CallTypes
    <3>3. nonces'[CallStore(c)][ReplayKey(msg[c])] = now + ReplayTtl
      BY <3>1, <3>2, SetNonceEffect
    <3>. QED BY <1>0, <2>1, <2>2, <3>1, <3>3
  <2>. QED BY <1>2, <2>3, <2>4, <2>5, CallStep
           DEF MarkIfNewFails, historyVars
<1>3. ASSUME NEW n \in Node, Die(n)
      PROVE  nonces'[CallStore(c)'][ReplayKey(msg'[c])]
               >= admittedAt'[c] + ReplayTtl
  <2>1. UNCHANGED <<now, msg, host, life, admittedAt>>
    BY <1>3 DEF Die, historyVars
  <2>2. pc[c] # "idle"
    BY <2>1 DEF ProgressInv, BeforeAdmission
  <2>3. /\ Remembered(c)
        /\ nonces'[CallStore(c)] = nonces[CallStore(c)]
    BY <1>3, <2>2, DieEffect
  <2>. QED BY <2>1, <2>3 DEF KeyHeld, CallStore
<1>4. CASE Tick
  BY <1>0, <1>4 DEF Tick, KeyHeld, Remembered, CallStore, callVars,
     storeVars, historyVars, Never
<1>5. CASE UNCHANGED vars
  BY <1>5 DEF vars, KeyHeld, Remembered, CallStore, callVars, storeVars,
     historyVars
<1>. QED BY <1>1, <1>2, <1>3, <1>4, <1>5, NextCases, DeathCase

\* The relations between two calls do not change once both have started.
LEMMA SameKept ==
  ASSUME TypeInv, [Next]_vars, NEW c \in Call, NEW d \in Call,
         pc[c] # "idle", pc[d] # "idle"
  PROVE  /\ SameStore(c, d)' <=> SameStore(c, d)
         /\ SameKey(c, d)' <=> SameKey(c, d)
         /\ msg'[c] = msg[c] /\ msg'[d] = msg[d]
         /\ CallStore(c)' = CallStore(c) /\ CallStore(d)' = CallStore(d)
<1>. SUFFICES /\ \A e \in {c, d} : /\ msg'[e] = msg[e] /\ host'[e] = host[e]
                                   /\ life'[e] = life[e]
                                   /\ pc'[e] # "idle"
  BY DEF SameStore, SameKey, CallStore
<1>. USE DEF TypeInv, TypeOK
<1>1. ASSUME NEW e \in Call, NEW n \in Node, NEW m \in Message,
             Deliver(e, n, m)
      PROVE  \A x \in {c, d} : /\ msg'[x] = msg[x] /\ host'[x] = host[x]
                               /\ life'[x] = life[x] /\ pc'[x] # "idle"
  BY <1>1 DEF Deliver, Goto
<1>2. ASSUME NEW e \in Call, Step(e) \/ Failure(e), ~AuditErrorFails(e)
      PROVE  \A x \in {c, d} : /\ msg'[x] = msg[x] /\ host'[x] = host[x]
                               /\ life'[x] = life[x] /\ pc'[x] # "idle"
  BY <1>2, CallStep
<1>3. ASSUME NEW n \in Node, Die(n)
      PROVE  \A x \in {c, d} : /\ msg'[x] = msg[x] /\ host'[x] = host[x]
                               /\ life'[x] = life[x] /\ pc'[x] # "idle"
  BY <1>3 DEF Die
<1>4. CASE Tick \/ UNCHANGED vars
  BY <1>4 DEF Tick, vars, callVars
<1>. QED BY <1>1, <1>2, <1>3, <1>4, NextCases, DeathCase

LEMMA SpacingStep ==
  ASSUME TypeInv, LifeInv, ProgressInv, KeyHeld, ReplaySpacing, [Next]_vars
  PROVE  ReplaySpacing'
<1>. USE ConstantTypes DEF TypeInv
<1>. SUFFICES ASSUME NEW c \in Call, NEW d \in Call, c # d,
                     SameStore(c, d)', SameKey(c, d)',
                     admittedAt'[c] # Never, admittedAt'[d] # Never
              PROVE  \/ admittedAt'[d] >= admittedAt'[c] + ReplayTtl
                     \/ admittedAt'[c] >= admittedAt'[d] + ReplayTtl
  BY DEF ReplaySpacing
<1>1. CASE UNCHANGED admittedAt
  <2>1. pc[c] # "idle" /\ pc[d] # "idle"
    BY <1>1 DEF ProgressInv, BeforeAdmission
  <2>. QED BY <1>1, <2>1, SameKept DEF ReplaySpacing
<1>2. ASSUME NEW e \in Call, MarkIfNew(e), admittedAt' # admittedAt
      PROVE  \/ admittedAt'[d] >= admittedAt'[c] + ReplayTtl
             \/ admittedAt'[c] >= admittedAt'[d] + ReplayTtl
  <2>1. /\ pc[e] = "mark"
        /\ admittedAt' = [admittedAt EXCEPT ![e] = now]
    BY <1>2 DEF MarkIfNew
  <2>2. pc[c] # "idle" /\ pc[d] # "idle"
    BY <2>1 DEF ProgressInv, BeforeAdmission, TypeOK
  <2>3. SameStore(c, d) /\ SameKey(c, d)
    BY <2>2, SameKept
  <2>4. life[e] = epoch[host[e]]
    BY <2>1 DEF LifeInv, InProgress
  <2>5. ASSUME NEW x \in Call, NEW y \in Call, y = e, x # e,
               SameStore(x, y), SameKey(x, y), admittedAt[x] # Never
        PROVE  now >= admittedAt[x] + ReplayTtl
    <3>1. CallStore(x) = CallStore(e) /\ pc[x] # "idle"
      BY <2>5 DEF SameStore
    <3>2. Remembered(x)
      <4>1. CASE CallStore(x) \in Redis
        BY <4>1 DEF Remembered
      <4>2. CASE CallStore(x) \notin Redis
        <5>1. host[x] \in Node /\ host[e] \in Node
          BY <2>1, <3>1, CallTypes
        <5>2. host[x] = host[e]
          BY <3>1, <4>2, <5>1, EngineAssumption DEF CallStore
        <5>3. life[x] = life[e]
          BY <2>5, <4>2 DEF SameStore
        <5>. QED BY <2>4, <5>2, <5>3 DEF Remembered
      <4>. QED BY <4>1, <4>2
    <3>. QED BY <1>2, <2>5, <3>1, <3>2, AdmissionSpaced
  <2>6. CASE e = c
    <3>1. SameStore(d, c) /\ SameKey(d, c)
      BY <2>3 DEF SameStore, SameKey
    <3>2. now >= admittedAt[d] + ReplayTtl
      BY <2>1, <2>5, <2>6, <3>1 DEF TypeOK
    <3>. QED BY <2>1, <2>6, <3>2 DEF TypeOK
  <2>7. CASE e = d
    <3>2. now >= admittedAt[c] + ReplayTtl
      BY <2>1, <2>3, <2>5, <2>7 DEF TypeOK
    <3>. QED BY <2>1, <2>7, <3>2 DEF TypeOK
  <2>8. CASE e # c /\ e # d
    BY <2>1, <2>3, <2>8 DEF ReplaySpacing, TypeOK
  <2>. QED BY <2>6, <2>7, <2>8
<1>3. UNCHANGED admittedAt \/ \E e \in Call : MarkIfNew(e)
  BY NextCases, CallStep, DeathCase
  DEF Deliver, Die, Tick, MarkIfNewFails, vars, historyVars
<1>. QED BY <1>1, <1>2, <1>3

-----------------------------------------------------------------------------
(* Both guards together *)

\* A store that a running call shares with another still holds what the
\* other one wrote.
LEMMA SharedRemembered ==
  ASSUME TypeInv, LifeInv, NEW c \in Call, NEW d \in Call, SameStore(c, d),
         pc[d] \in InProgress
  PROVE  Remembered(c)
<1>1. CASE CallStore(c) \in Redis
  BY <1>1 DEF Remembered
<1>2. CASE CallStore(c) \notin Redis
  <2>1. host[c] \in Node /\ host[d] \in Node
    BY CallTypes DEF SameStore, TypeInv
  <2>2. host[c] = host[d]
    BY <1>2, <2>1, EngineAssumption DEF SameStore, CallStore
  <2>3. life[c] = life[d] /\ life[d] = epoch[host[d]]
    BY <1>2 DEF SameStore, LifeInv
  <2>. QED BY <2>2, <2>3 DEF Remembered
<1>. QED BY <1>1, <1>2

LEMMA SetProcessedEffect ==
  ASSUME TypeOK, NEW d \in Call, pc[d] # "idle", SetProcessed(d),
         NEW r \in Store, NEW i \in Id
  PROVE  processed'[r][i] = IF r = CallStore(d) /\ i = msg[d].id
                            THEN now + IdempotencyTtl ELSE processed[r][i]
<1>. DEFINE f == [processed[CallStore(d)] EXCEPT
                    ![msg[d].id] = now + IdempotencyTtl]
<1>1. processed' = [processed EXCEPT ![CallStore(d)] = f]
  BY DEF SetProcessed
<1>2. processed'[r] = IF r = CallStore(d) THEN f ELSE processed[r]
  BY <1>1 DEF TypeOK
<1>3. CallStore(d) \in Store /\ msg[d].id \in Id
  BY CallTypes
<1>. QED BY <1>2, <1>3 DEF TypeOK

LEMMA MarkHeldStep ==
  ASSUME TypeInv, LifeInv, ProgressInv, MarkHeld, [Next]_vars
  PROVE  MarkHeld'
<1>. USE ConstantTypes DEF TypeInv
<1>. SUFFICES ASSUME NEW c \in Call, markedAt'[c] # Never, Remembered(c)'
              PROVE  processed'[CallStore(c)'][msg'[c].id]
                       >= markedAt'[c] + IdempotencyTtl
  BY DEF MarkHeld
<1>0. now \in Nat /\ markedAt[c] \in Nat \cup {Never}
  BY DEF TypeOK, Instant
<1>1. ASSUME NEW d \in Call, NEW n \in Node, NEW m \in Message,
             Deliver(d, n, m)
      PROVE  processed'[CallStore(c)'][msg'[c].id]
               >= markedAt'[c] + IdempotencyTtl
  <2>1. /\ c # d
        /\ UNCHANGED <<now, epoch, processed, markedAt>>
        /\ msg'[c] = msg[c] /\ host'[c] = host[c] /\ life'[c] = life[c]
    BY <1>1 DEF Deliver, ProgressInv, BeforeMark, BeforeIngest,
       BeforeAdmission, TypeOK, historyVars, storeVars
  <2>. QED BY <2>1 DEF MarkHeld, Remembered, CallStore
<1>2. ASSUME NEW d \in Call, Step(d) \/ Failure(d), ~AuditErrorFails(d)
      PROVE  processed'[CallStore(c)'][msg'[c].id]
               >= markedAt'[c] + IdempotencyTtl
  <2>1. UNCHANGED <<now, epoch, msg, host, life>> /\ pc[d] # "idle"
    BY <1>2, CallStep DEF InProgress
  <2>2. Remembered(c) /\ CallStore(c)' = CallStore(c)
    BY <2>1 DEF Remembered, CallStore
  <2>3. CASE UNCHANGED <<processed, markedAt>>
    BY <2>1, <2>2, <2>3 DEF MarkHeld
  <2>4. CASE SetProcessed(d)
    <3>1. /\ markedAt'[c] = IF c = d THEN now ELSE markedAt[c]
          /\ pc[c] # "idle"
      BY <2>1, <2>4 DEF SetProcessed, ProgressInv, BeforeMark, BeforeIngest,
         BeforeAdmission, TypeOK
    <3>2. CallStore(c) \in Store /\ msg[c].id \in Id
      BY <3>1, CallTypes
    <3>3. processed'[CallStore(c)][msg[c].id] =
            IF CallStore(c) = CallStore(d) /\ msg[c].id = msg[d].id
            THEN now + IdempotencyTtl ELSE processed[CallStore(c)][msg[c].id]
      BY <2>1, <2>4, <3>2, SetProcessedEffect
    <3>4. markedAt[c] # Never =>
            /\ processed[CallStore(c)][msg[c].id]
                 >= markedAt[c] + IdempotencyTtl
            /\ markedAt[c] <= now
      BY <2>2 DEF MarkHeld, ProgressInv
    <3>. QED BY <1>0, <2>1, <2>2, <3>1, <3>3, <3>4
  <2>. QED BY <1>2, <2>3, <2>4, CallStep DEF MarkProcessed, MarkProcessedFails
<1>3. ASSUME NEW n \in Node, Die(n)
      PROVE  processed'[CallStore(c)'][msg'[c].id]
               >= markedAt'[c] + IdempotencyTtl
  <2>1. UNCHANGED <<now, msg, host, life, markedAt>>
    BY <1>3 DEF Die, historyVars
  <2>2. pc[c] # "idle"
    BY <2>1 DEF ProgressInv, BeforeMark, BeforeIngest, BeforeAdmission
  <2>3. /\ Remembered(c)
        /\ processed'[CallStore(c)] = processed[CallStore(c)]
    BY <1>3, <2>2, DieEffect
  <2>. QED BY <2>1, <2>3 DEF MarkHeld, CallStore
<1>4. CASE Tick \/ UNCHANGED vars
  BY <1>4 DEF Tick, vars, MarkHeld, Remembered, CallStore, callVars,
     storeVars, historyVars
<1>. QED BY <1>1, <1>2, <1>3, <1>4, NextCases, DeathCase

\* A call that marks while another with its key has been admitted after it
\* marks later than the expiry of its own admission.
LEMMA LateMark ==
  ASSUME TypeInv, ProgressInv, ReplaySpacing, NEW c \in Call, NEW d \in Call,
         c # d, SameStore(c, d), SameKey(c, d),
         admittedAt[c] # Never, admittedAt[d] # Never,
         admittedAt[c] <= admittedAt[d]
  PROVE  now >= admittedAt[c] + ReplayTtl
<1>1. /\ admittedAt[c] \in Nat /\ admittedAt[d] \in Nat /\ now \in Nat
      /\ admittedAt[d] <= now
  BY DEF TypeInv, TypeOK, Instant, ProgressInv
<1>. QED BY <1>1, ConstantTypes DEF ReplaySpacing

\* A call that passes the idempotency check has its excuse.
LEMMA CheckExcuses ==
  ASSUME TypeInv, LifeInv, ProgressInv, MarkHeld,
         NEW c \in Call, NEW d \in Call, pc[d] = "check",
         SameStore(c, d), msg[c].id = msg[d].id,
         ~HasProcessed(CallStore(d), msg[d].id)
  PROVE  Excused(c, now)
<1>1. CASE markedAt[c] = Never
  BY <1>1 DEF Excused
<1>2. CASE markedAt[c] # Never
  <2>1. Remembered(c)
    BY SharedRemembered DEF InProgress
  <2>2. processed[CallStore(c)][msg[c].id] >= markedAt[c] + IdempotencyTtl
    BY <1>2, <2>1 DEF MarkHeld
  <2>3. /\ CallStore(c) = CallStore(d) /\ pc[c] # "idle"
        /\ CallStore(c) \in Store /\ msg[c].id \in Id
    BY CallTypes DEF SameStore, TypeInv
  <2>4. /\ processed[CallStore(c)][msg[c].id] \in Nat
        /\ now \in Nat /\ markedAt[c] \in Nat
    BY <1>2, <2>3 DEF TypeInv, TypeOK, Instant
  <2>. QED BY <2>2, <2>3, <2>4, ConstantTypes DEF HasProcessed, Excused
<1>. QED BY <1>1, <1>2

\* How the history and the progress of one call may evolve.
Evolves(x) ==
  /\ admittedAt'[x] = admittedAt[x] \/ pc[x] = "mark"
  /\ \/ ingestedAt'[x] = ingestedAt[x]
     \/ pc[x] = "ingest" /\ ingestedAt'[x] = now
  /\ \/ markedAt'[x] = markedAt[x]
     \/ pc[x] = "commit" /\ markedAt'[x] = now
  /\ pc'[x] \in {"verify", "ingest"} =>
       \/ pc[x] \in {"verify", "ingest"}
       \/ /\ pc[x] = "check"
          /\ ~HasProcessed(CallStore(x), msg[x].id)
  /\ now' >= now

LEMMA Evolution ==
  ASSUME TypeInv, [Next]_vars, NEW x \in Call
  PROVE  Evolves(x)
<1>. USE DEF TypeInv, TypeOK
<1>0. now \in Nat
  OBVIOUS
<1>1. ASSUME NEW e \in Call, NEW n \in Node, NEW m \in Message,
             Deliver(e, n, m)
      PROVE  Evolves(x)
  BY <1>0, <1>1 DEF Evolves, Deliver, Goto, historyVars
<1>2. ASSUME NEW e \in Call, Step(e) \/ Failure(e), ~AuditErrorFails(e)
      PROVE  Evolves(x)
  <2>1. UNCHANGED now
    BY <1>2, CallStep
  <2>2. admittedAt'[x] = admittedAt[x] \/ pc[x] = "mark"
    BY <1>2, CallStep DEF MarkIfNew, MarkIfNewFails, historyVars
  <2>3. \/ ingestedAt'[x] = ingestedAt[x]
        \/ pc[x] = "ingest" /\ ingestedAt'[x] = now
    BY <1>2, CallStep DEF Ingest, IngestFails
  <2>4. \/ markedAt'[x] = markedAt[x]
        \/ pc[x] = "commit" /\ markedAt'[x] = now
    BY <1>2, CallStep DEF MarkProcessed, MarkProcessedFails, SetProcessed
  <2>5. ASSUME pc'[x] \in {"verify", "ingest"}
        PROVE  \/ pc[x] \in {"verify", "ingest"}
               \/ /\ pc[x] = "check"
                  /\ ~HasProcessed(CallStore(x), msg[x].id)
    <3>1. CASE x # e
      BY <1>2, <2>5, <3>1, CallStep
    <3>2. CASE Authorise(x) \/ CheckProcessed(x)
      BY <2>5, <3>2 DEF Authorise, CheckProcessed, Goto
    <3>. QED BY <1>2, <2>5, <3>1, <3>2, CallStep
  <2>. QED BY <1>0, <2>1, <2>2, <2>3, <2>4, <2>5 DEF Evolves
<1>3. ASSUME NEW n \in Node, Die(n) PROVE Evolves(x)
  <2>1. /\ UNCHANGED <<now, admittedAt, ingestedAt, markedAt>>
        /\ pc'[x] \in {pc[x], "lost"}
    BY <1>3 DEF Die, historyVars
  <2>. QED BY <1>0, <2>1 DEF Evolves
<1>4. CASE Tick \/ UNCHANGED vars
  BY <1>0, <1>4 DEF Tick, vars, callVars, historyVars, Evolves
<1>. HIDE DEF TypeInv, TypeOK
<1>5. TypeOK
  BY DEF TypeInv
<1>. QED BY <1>1, <1>2, <1>3, <1>4, <1>5, NextCases, DeathCase

\* A call that reaches the gateway, or has reached it, or has passed the
\* idempotency check, has been admitted, and not by this step.
LEMMA AdmittedBefore ==
  ASSUME TypeInv, ProgressInv, [Next]_vars, NEW x \in Call,
         ingestedAt'[x] # Never \/ pc'[x] \in {"verify", "ingest"}
  PROVE  /\ pc[x] # "idle"
         /\ admittedAt[x] # Never /\ admittedAt'[x] = admittedAt[x]
BY Evolution DEF Evolves, ProgressInv, BeforeAdmission, BeforeIngest, AfterAdmission,
   AfterIngest, AfterMark

LEMMA CheckedStep ==
  ASSUME TypeInv, LifeInv, ProgressInv, MarkHeld, ReplaySpacing, CheckedInv,
         [Next]_vars
  PROVE  CheckedInv'
<1>. SUFFICES ASSUME NEW c \in Call, NEW d \in Call, c # d,
                     SameStore(c, d)', SameKey(c, d)', msg'[c].id = msg'[d].id,
                     ingestedAt'[c] # Never, pc'[d] \in {"verify", "ingest"},
                     admittedAt'[c] <= admittedAt'[d]
              PROVE  Excused(c, now)'
  BY DEF CheckedInv
<1>1. /\ pc[c] # "idle" /\ pc[d] # "idle"
      /\ admittedAt[c] # Never /\ admittedAt[d] # Never
      /\ admittedAt'[c] = admittedAt[c] /\ admittedAt'[d] = admittedAt[d]
  BY AdmittedBefore
<1>2. /\ SameStore(c, d) /\ SameKey(c, d) /\ msg[c].id = msg[d].id
      /\ CallStore(c)' = CallStore(c)
  BY <1>1, SameKept
<1>3. CASE markedAt'[c] # markedAt[c]
  <2>1. markedAt'[c] = now
    BY <1>3, Evolution DEF Evolves
  <2>2. now >= admittedAt[c] + ReplayTtl
    BY <1>1, <1>2, LateMark
  <2>. QED BY <1>1, <2>1, <2>2 DEF Excused
<1>4. CASE markedAt'[c] = markedAt[c] /\ ingestedAt'[c] # ingestedAt[c]
  <2>1. markedAt[c] = Never
    BY <1>4, Evolution DEF Evolves, ProgressInv, BeforeMark, BeforeIngest
  <2>. QED BY <1>4, <2>1 DEF Excused
<1>5. CASE markedAt'[c] = markedAt[c] /\ ingestedAt'[c] = ingestedAt[c]
  <2>1. Excused(c, now)
    <3>1. CASE pc[d] \in {"verify", "ingest"}
      BY <1>1, <1>2, <1>5, <3>1 DEF CheckedInv
    <3>2. CASE /\ pc[d] = "check"
               /\ ~HasProcessed(CallStore(d), msg[d].id)
      BY <1>2, <3>2, CheckExcuses
    <3>. QED BY <3>1, <3>2, Evolution DEF Evolves
  <2>2. /\ now \in Nat /\ now' >= now /\ now' \in Nat
        /\ markedAt[c] \in Int
    <3>1. TypeInv'
      BY TypeStep
    <3>2. now' \in Nat
      BY <3>1 DEF TypeInv, TypeOK
    <3>3. now \in Nat /\ markedAt[c] \in Int
      BY DEF TypeInv, TypeOK, Instant, Never
    <3>4. now' >= now
      BY Evolution DEF Evolves
    <3>. QED BY <3>2, <3>3, <3>4
  <2>. QED BY <1>1, <1>2, <1>5, <2>1, <2>2, ConstantTypes DEF Excused
<1>. QED BY <1>3, <1>4, <1>5

LEMMA SecondIngestStep ==
  ASSUME TypeInv, LifeInv, ProgressInv, ReplaySpacing, CheckedInv,
         SecondIngestExplained, [Next]_vars
  PROVE  SecondIngestExplained'
<1>. SUFFICES ASSUME NEW c \in Call, NEW d \in Call, c # d,
                     SameStore(c, d)', SameKey(c, d)', msg'[c].id = msg'[d].id,
                     ingestedAt'[c] # Never, ingestedAt'[d] # Never,
                     admittedAt'[c] <= admittedAt'[d]
              PROVE  Excused(c, ingestedAt[d])'
  BY DEF SecondIngestExplained, Excused
<1>1. /\ pc[c] # "idle" /\ pc[d] # "idle"
      /\ admittedAt[c] # Never /\ admittedAt[d] # Never
      /\ admittedAt'[c] = admittedAt[c] /\ admittedAt'[d] = admittedAt[d]
  BY AdmittedBefore
<1>2. /\ SameStore(c, d) /\ SameKey(c, d) /\ msg[c].id = msg[d].id
      /\ CallStore(c)' = CallStore(c)
  BY <1>1, SameKept
<1>3. CASE markedAt'[c] # markedAt[c]
  <2>1. markedAt'[c] = now
    BY <1>3, Evolution DEF Evolves
  <2>2. now >= admittedAt[c] + ReplayTtl
    BY <1>1, <1>2, LateMark
  <2>. QED BY <1>1, <2>1, <2>2 DEF Excused
<1>4. CASE markedAt'[c] = markedAt[c] /\ ingestedAt'[c] # ingestedAt[c]
  <2>1. markedAt[c] = Never
    BY <1>4, Evolution DEF Evolves, ProgressInv, BeforeMark, BeforeIngest
  <2>. QED BY <1>4, <2>1 DEF Excused
<1>5. CASE /\ markedAt'[c] = markedAt[c] /\ ingestedAt'[c] = ingestedAt[c]
           /\ ingestedAt'[d] # ingestedAt[d]
  <2>1. pc[d] = "ingest" /\ ingestedAt'[d] = now
    BY <1>5, Evolution DEF Evolves
  <2>2. Excused(c, now)
    BY <1>1, <1>2, <1>5, <2>1 DEF CheckedInv
  <2>. QED BY <1>1, <1>2, <1>5, <2>1, <2>2 DEF Excused
<1>6. CASE /\ markedAt'[c] = markedAt[c] /\ ingestedAt'[c] = ingestedAt[c]
           /\ ingestedAt'[d] = ingestedAt[d]
  <2>1. Excused(c, ingestedAt[d])
    BY <1>1, <1>2, <1>6 DEF SecondIngestExplained, Excused
  <2>. QED BY <1>1, <1>2, <1>6, <2>1 DEF Excused
<1>. QED BY <1>3, <1>4, <1>5, <1>6

-----------------------------------------------------------------------------
(* The inductive invariant *)

LEMMA IInvInit == Init => IInv
<1>. SUFFICES ASSUME Init PROVE IInv
  OBVIOUS
<1>1. TypeOK /\ RuleInv
  BY TypeInit DEF TypeInv
<1>2. LifeInv /\ ProgressInv
  BY DEF Init, LifeInv, ProgressInv, InProgress, Never, AfterAdmission,
     AfterIngest, AfterMark
<1>3. KeyHeld /\ MarkHeld /\ ReplaySpacing /\ CheckedInv
      /\ SecondIngestExplained
  BY DEF Init, KeyHeld, MarkHeld, ReplaySpacing, CheckedInv,
     SecondIngestExplained
<1>. QED BY <1>1, <1>2, <1>3 DEF IInv

LEMMA IInvStep == IInv /\ [Next]_vars => IInv'
BY TypeStep, LifeStep, ProgressStep, KeyHeldStep, MarkHeldStep, SpacingStep,
   CheckedStep, SecondIngestStep DEF IInv, TypeInv

\* The invariant holds in every reachable state.
THEOREM InvariantCorrect == Spec => []IInv
BY IInvInit, IInvStep, PTL DEF Spec

\* For every interleaving of any number of calls and processes, admissions of
\* one replay key by one store that has not lost its contents are at least
\* the replay TTL apart.
THEOREM ReplaySpacingCorrect == Spec => []ReplaySpacing
<1>1. IInv => ReplaySpacing
  BY DEF IInv
<1>. QED BY <1>1, InvariantCorrect, PTL

\* Whenever a redelivered message reaches the gateway twice, the mark of the
\* first call is missing, later than its replay key's expiry, or expired.
THEOREM SecondIngestCorrect == Spec => []SecondIngestExplained
<1>1. IInv => SecondIngestExplained
  BY DEF IInv
<1>. QED BY <1>1, InvariantCorrect, PTL

-----------------------------------------------------------------------------
(* What a step never does *)

LEMMA NonceStep ==
  ASSUME TypeInv, [Next]_vars, NEW s \in Store, NEW k \in Key,
         nonces[s][k] > now, nonces'[s][k] # nonces[s][k]
  PROVE  /\ s \notin Redis
         /\ \E n \in Node : StoreOf[n] = s /\ epoch'[n] > epoch[n]
<1>. USE DEF TypeInv
<1>1. ASSUME NEW c \in Call, NEW n \in Node, NEW m \in Message,
             Deliver(c, n, m)
      PROVE  FALSE
  BY <1>1 DEF Deliver, storeVars
<1>2. ASSUME NEW c \in Call, Step(c) \/ Failure(c), ~AuditErrorFails(c)
      PROVE  FALSE
  <2>1. pc[c] # "idle"
    BY <1>2, CallStep DEF InProgress
  <2>2. CallStore(c) \in Store /\ ReplayKey(msg[c]) \in Key
    BY <2>1, CallTypes
  <2>3. /\ SetNonce(CallStore(c), ReplayKey(msg[c]))
        /\ ~Live(CallStore(c), ReplayKey(msg[c]))
    BY <1>2, CallStep DEF MarkIfNew, MarkIfNewFails
  <2>. QED BY <2>2, <2>3, SetNonceEffect DEF Live
<1>3. ASSUME NEW n \in Node, Die(n)
      PROVE  /\ s \notin Redis
             /\ StoreOf[n] = s /\ epoch'[n] > epoch[n]
  <2>1. /\ StoreOf[n] \notin Redis
        /\ nonces' = [nonces EXCEPT ![StoreOf[n]] = [j \in Key |-> 0]]
    BY <1>3 DEF Die, storeVars
  <2>2. StoreOf[n] = s
    BY <2>1 DEF TypeOK
  <2>3. epoch'[n] = epoch[n] + 1 /\ epoch[n] \in Nat
    BY <1>3 DEF Die, TypeOK
  <2>. QED BY <2>1, <2>2, <2>3
<1>4. CASE Tick \/ UNCHANGED vars
  BY <1>4 DEF Tick, vars, storeVars
<1>. QED BY <1>1, <1>2, <1>3, <1>4, NextCases, DeathCase

\* No step shortens or prolongs the expiry of a replay key that still counts,
\* except for the death of the process that has it in its memory.
THEOREM NonceHeldCorrect == Spec => NonceHeldUntilExpiry
<1>1. IInv /\ [Next]_vars =>
        [\A s \in Store, k \in Key :
           nonces[s][k] > now /\ nonces'[s][k] # nonces[s][k] =>
             /\ s \notin Redis
             /\ \E n \in Node : StoreOf[n] = s /\ epoch'[n] > epoch[n]]_vars
  BY NonceStep DEF IInv, TypeInv
<1>. QED BY <1>1, InvariantCorrect, PTL DEF Spec, NonceHeldUntilExpiry

-----------------------------------------------------------------------------
(* Nothing is refused out of nothing *)

\* A call that wrote to a store stays one that did, until the store is
\* emptied.
LEMMA WriterStays ==
  ASSUME TypeInv, [Next]_vars, NEW c \in Call, NEW s \in Store, Wrote(c, s)
  PROVE  /\ msg'[c] = msg[c]
         /\ \/ Wrote(c, s)'
            \/ /\ \A k \in Key : nonces'[s][k] = 0
               /\ \A id \in Id : processed'[s][id] = 0
<1>. USE DEF TypeInv
<1>0. /\ pc[c] # "idle" /\ CallStore(c) = s /\ host[c] \in Node
      /\ s \in Redis \/ life[c] = epoch[host[c]]
  BY CallTypes DEF Wrote, Remembered
<1>1. ASSUME /\ msg'[c] = msg[c] /\ host'[c] = host[c] /\ life'[c] = life[c]
             /\ pc'[c] # "idle"
             /\ s \in Redis \/ epoch'[host[c]] = epoch[host[c]]
      PROVE  Wrote(c, s)'
  BY <1>0, <1>1 DEF Wrote, Remembered, CallStore
<1>2. ASSUME NEW d \in Call, NEW n \in Node, NEW m \in Message,
             Deliver(d, n, m)
      PROVE  msg'[c] = msg[c] /\ Wrote(c, s)'
  BY <1>0, <1>1, <1>2 DEF Deliver, Goto, TypeOK
<1>3. ASSUME NEW d \in Call, Step(d) \/ Failure(d), ~AuditErrorFails(d)
      PROVE  msg'[c] = msg[c] /\ Wrote(c, s)'
  BY <1>0, <1>1, <1>3, CallStep
<1>4. ASSUME NEW n \in Node, Die(n)
      PROVE  /\ msg'[c] = msg[c]
             /\ \/ Wrote(c, s)'
                \/ /\ \A k \in Key : nonces'[s][k] = 0
                   /\ \A id \in Id : processed'[s][id] = 0
  <2>1. /\ UNCHANGED <<msg, host, life>>
        /\ epoch' = [epoch EXCEPT ![n] = epoch[n] + 1]
        /\ pc'[c] \in {pc[c], "lost"}
    BY <1>4 DEF Die
  <2>2. CASE s \in Redis \/ host[c] # n
    BY <1>0, <1>1, <2>1, <2>2 DEF TypeOK
  <2>3. CASE s \notin Redis /\ host[c] = n
    <3>1. StoreOf[n] = s
      BY <1>0, <2>3 DEF CallStore
    <3>2. /\ nonces' = [nonces EXCEPT ![s] = [k \in Key |-> 0]]
          /\ processed' = [processed EXCEPT ![s] = [id \in Id |-> 0]]
      BY <1>4, <2>3, <3>1 DEF Die
    <3>. QED BY <2>1, <3>2 DEF TypeOK
  <2>. QED BY <2>2, <2>3
<1>5. CASE Tick \/ UNCHANGED vars
  BY <1>0, <1>1, <1>5 DEF Tick, vars, callVars
<1>. QED BY <1>2, <1>3, <1>4, <1>5, NextCases, DeathCase

\* markIfNew and markProcessed are the only ones that fill the stores.
LEMMA NonceCases ==
  ASSUME TypeInv, [Next]_vars, NEW s \in Store, NEW k \in Key
  PROVE  \/ nonces'[s][k] \in {nonces[s][k], 0}
         \/ \E d \in Call :
              /\ (MarkIfNew(d) /\ admittedAt'[d] = now) \/ MarkIfNewFails(d)
              /\ CallStore(d) = s /\ ReplayKey(msg[d]) = k
              /\ nonces'[s][k] = now + ReplayTtl
<1>. USE DEF TypeInv
<1>1. ASSUME NEW d \in Call, NEW n \in Node, NEW m \in Message,
             Deliver(d, n, m)
      PROVE  nonces'[s][k] = nonces[s][k]
  BY <1>1 DEF Deliver, storeVars
<1>2. ASSUME NEW d \in Call, Step(d) \/ Failure(d), ~AuditErrorFails(d),
             nonces'[s][k] \notin {nonces[s][k], 0}
      PROVE  /\ (MarkIfNew(d) /\ admittedAt'[d] = now) \/ MarkIfNewFails(d)
             /\ CallStore(d) = s /\ ReplayKey(msg[d]) = k
             /\ nonces'[s][k] = now + ReplayTtl
  <2>. DEFINE t == CallStore(d)
              j == ReplayKey(msg[d])
              f == [l \in Key |-> IF l = j THEN now + ReplayTtl
                                  ELSE IF Live(t, l) THEN nonces[t][l] ELSE 0]
  <2>1. MarkIfNew(d) \/ MarkIfNewFails(d)
    BY <1>2, CallStep
  <2>2. /\ SetNonce(t, j)
        /\ (MarkIfNew(d) /\ admittedAt'[d] = now) \/ MarkIfNewFails(d)
    BY <1>2, <2>1 DEF MarkIfNew, MarkIfNewFails, TypeOK
  <2>3. nonces' = [nonces EXCEPT ![t] = f]
    BY <2>2 DEF SetNonce
  <2>4. t = s /\ nonces'[s] = f
    BY <1>2, <2>3 DEF TypeOK
  <2>5. k = j
    BY <1>2, <2>4
  <2>. QED BY <2>2, <2>4, <2>5
<1>3. ASSUME NEW n \in Node, Die(n)
      PROVE  nonces'[s][k] \in {nonces[s][k], 0}
  <2>1. \/ nonces' = nonces
        \/ nonces' = [nonces EXCEPT ![StoreOf[n]] = [j \in Key |-> 0]]
    BY <1>3 DEF Die, storeVars
  <2>. DEFINE empty == [j \in Key |-> 0]
  <2>2. empty[k] = 0
    OBVIOUS
  <2>. HIDE DEF empty
  <2>3. nonces'[s] = nonces[s] \/ nonces'[s] = empty
    BY <2>1 DEF TypeOK, empty
  <2>. QED BY <2>2, <2>3
<1>4. CASE Tick \/ UNCHANGED vars
  BY <1>4 DEF Tick, vars, storeVars
<1>. QED BY <1>1, <1>2, <1>3, <1>4, NextCases, DeathCase

LEMMA MarkCases ==
  ASSUME TypeInv, [Next]_vars, NEW s \in Store, NEW id \in Id
  PROVE  \/ processed'[s][id] \in {processed[s][id], 0}
         \/ \E d \in Call :
              /\ MarkProcessed(d) \/ MarkProcessedFails(d)
              /\ SetProcessed(d)
              /\ CallStore(d) = s /\ msg[d].id = id
              /\ processed'[s][id] = now + IdempotencyTtl
<1>. USE DEF TypeInv
<1>1. ASSUME NEW d \in Call, NEW n \in Node, NEW m \in Message,
             Deliver(d, n, m)
      PROVE  processed'[s][id] = processed[s][id]
  BY <1>1 DEF Deliver, storeVars
<1>2. ASSUME NEW d \in Call, Step(d) \/ Failure(d), ~AuditErrorFails(d),
             processed'[s][id] # processed[s][id]
      PROVE  /\ MarkProcessed(d) \/ MarkProcessedFails(d)
             /\ SetProcessed(d)
             /\ CallStore(d) = s /\ msg[d].id = id
             /\ processed'[s][id] = now + IdempotencyTtl
  <2>1. MarkProcessed(d) \/ MarkProcessedFails(d)
    BY <1>2, CallStep
  <2>2. SetProcessed(d) /\ pc[d] # "idle"
    BY <1>2, <2>1 DEF MarkProcessed, MarkProcessedFails
  <2>3. processed'[s][id] = IF s = CallStore(d) /\ id = msg[d].id
                            THEN now + IdempotencyTtl ELSE processed[s][id]
    BY <2>2, SetProcessedEffect
  <2>. QED BY <1>2, <2>1, <2>2, <2>3
<1>3. ASSUME NEW n \in Node, Die(n)
      PROVE  processed'[s][id] \in {processed[s][id], 0}
  <2>1. \/ processed' = processed
        \/ processed' = [processed EXCEPT ![StoreOf[n]] = [j \in Id |-> 0]]
    BY <1>3 DEF Die, storeVars
  <2>. DEFINE empty == [j \in Id |-> 0]
  <2>2. empty[id] = 0
    OBVIOUS
  <2>. HIDE DEF empty
  <2>3. processed'[s] = processed[s] \/ processed'[s] = empty
    BY <2>1 DEF TypeOK, empty
  <2>. QED BY <2>2, <2>3
<1>4. CASE Tick \/ UNCHANGED vars
  BY <1>4 DEF Tick, vars, storeVars
<1>. QED BY <1>1, <1>2, <1>3, <1>4, NextCases, DeathCase

LEMMA TimePasses ==
  ASSUME TypeInv, [Next]_vars
  PROVE  now' >= now
<1>1. now \in Nat /\ TypeOK
  BY DEF TypeInv, TypeOK
<1>2. now' = now \/ Tick
  <2>1. ASSUME NEW c \in Call, Step(c) \/ Failure(c), ~AuditErrorFails(c)
        PROVE  now' = now
    BY <1>1, <2>1, CallStep
  <2>. QED BY <1>1, <2>1, NextCases, DeathCase DEF Deliver, Die, vars
<1>. QED BY <1>1, <1>2 DEF Tick

\* A call that is to be refused is not taken up again.
LEMMA RefusedStays ==
  ASSUME TypeInv, [Next]_vars, NEW c \in Call,
         pc[c] \in {"reject", "failed", "lost"}
  PROVE  pc'[c] \in {"reject", "failed", "lost"}
<1>. USE DEF TypeInv, TypeOK
<1>1. ASSUME NEW d \in Call, NEW n \in Node, NEW m \in Message,
             Deliver(d, n, m)
      PROVE  pc'[c] = pc[c]
  BY <1>1 DEF Deliver, Goto
<1>2. ASSUME NEW d \in Call, Step(d) \/ Failure(d), ~AuditErrorFails(d),
             pc'[c] # pc[c]
      PROVE  pc'[c] = "failed"
  <2>1. c = d /\ pc[d] = "reject"
    BY <1>2, CallStep DEF InProgress
  <2>2. AuditError(d)
    BY <1>2, <2>1 DEF Step, Failure, RateLimit, MarkIfNew, MarkIfNewFails,
       CheckProcessed, CheckProcessedFails, Authorise, Ingest, IngestFails,
       MarkProcessed, MarkProcessedFails, AuditAccepted, AuditAcceptedFails,
       Send, SendFails, SendStalls, AuditForwarded, AuditForwardedFails
  <2>. QED BY <2>1, <2>2 DEF AuditError, Goto
<1>3. ASSUME NEW n \in Node, Die(n) PROVE pc'[c] \in {pc[c], "lost"}
  BY <1>3 DEF Die
<1>4. CASE Tick \/ UNCHANGED vars
  BY <1>4 DEF Tick, vars, callVars
<1>. HIDE DEF TypeInv, TypeOK
<1>5. TypeOK
  BY DEF TypeInv
<1>. QED BY <1>1, <1>2, <1>3, <1>4, <1>5, NextCases, DeathCase

LEMMA CauseStep ==
  ASSUME IInv, ReplayRefusedForCause, [Next]_vars
  PROVE  ReplayRefusedForCause'
<1>. USE ConstantTypes DEF IInv
<1>0. TypeInv /\ TypeInv' /\ ProgressInv'
  BY IInvStep, TypeStep DEF TypeInv
<1>. SUFFICES ASSUME NEW s \in Store, NEW k \in Key, Live(s, k)'
              PROVE  \E c \in Call :
                       /\ Wrote(c, s)' /\ ReplayKey(msg'[c]) = k
                       /\ \/ /\ admittedAt'[c] # Never
                             /\ nonces'[s][k] = admittedAt'[c] + ReplayTtl
                          \/ /\ MayHaveMarked(c)'
                             /\ nonces'[s][k] <= now' + ReplayTtl
  BY DEF ReplayRefusedForCause
<1>1. /\ now \in Nat /\ now' \in Nat /\ now' >= now
      /\ nonces'[s][k] \in Nat /\ nonces'[s][k] > now'
  <2>1. now' >= now
    BY <1>0, TimePasses
  <2>. QED BY <1>0, <2>1 DEF TypeInv, TypeOK, Live
<1>2. CASE nonces'[s][k] = nonces[s][k]
  <2>1. Live(s, k)
    BY <1>1, <1>2 DEF Live
  <2>2. PICK c \in Call :
          /\ Wrote(c, s) /\ ReplayKey(msg[c]) = k
          /\ \/ /\ admittedAt[c] # Never
                /\ nonces[s][k] = admittedAt[c] + ReplayTtl
             \/ MayHaveMarked(c) /\ nonces[s][k] <= now + ReplayTtl
    BY <2>1 DEF ReplayRefusedForCause
  <2>3. Wrote(c, s)' /\ msg'[c] = msg[c]
    <3>1. nonces'[s][k] # 0
      BY <1>1
    <3>. QED BY <1>0, <2>2, <3>1, WriterStays
  <2>4. ASSUME admittedAt[c] # Never \/ pc[c] # "mark"
        PROVE  admittedAt'[c] = admittedAt[c]
    BY <1>0, <2>4, Evolution DEF Evolves, ProgressInv, BeforeAdmission
  <2>5. CASE /\ admittedAt[c] # Never
             /\ nonces[s][k] = admittedAt[c] + ReplayTtl
    BY <1>2, <2>2, <2>3, <2>4, <2>5
  <2>6. CASE MayHaveMarked(c) /\ nonces[s][k] <= now + ReplayTtl
    <3>1. /\ pc'[c] \in {"reject", "failed", "lost"}
          /\ admittedAt'[c] = admittedAt[c]
      BY <1>0, <2>4, <2>6, RefusedStays DEF MayHaveMarked
    <3>2. CallStore(c)' = CallStore(c)
      BY <2>2, <2>3 DEF Wrote
    <3>3. MayHaveMarked(c)'
      BY <2>6, <3>1, <3>2 DEF MayHaveMarked
    <3>. QED BY <1>1, <1>2, <2>2, <2>3, <2>6, <3>3
  <2>. QED BY <2>2, <2>5, <2>6
<1>3. CASE nonces'[s][k] # nonces[s][k]
  <2>1. PICK d \in Call :
          /\ (MarkIfNew(d) /\ admittedAt'[d] = now) \/ MarkIfNewFails(d)
          /\ CallStore(d) = s /\ ReplayKey(msg[d]) = k
          /\ nonces'[s][k] = now + ReplayTtl
    BY <1>0, <1>1, <1>3, NonceCases
  <2>2. /\ pc[d] = "mark" /\ UNCHANGED <<now, msg, host, life, epoch>>
        /\ pc'[d] # "idle"
    BY <2>1 DEF MarkIfNew, MarkIfNewFails, Goto, TypeOK
  <2>3. Wrote(d, s)' /\ ReplayKey(msg'[d]) = k
    BY <2>1, <2>2 DEF Wrote, Remembered, CallStore, LifeInv, InProgress
  <2>4. CASE MarkIfNew(d) /\ admittedAt'[d] = now
    BY <1>1, <2>1, <2>3, <2>4 DEF Never
  <2>5. CASE MarkIfNewFails(d)
    <3>1. /\ pc'[d] = "reject" /\ admittedAt'[d] = Never
          /\ "replay" \in Faults /\ CallStore(d)' \in Redis
      BY <2>2, <2>5 DEF MarkIfNewFails, Goto, TypeOK, historyVars, ProgressInv,
         BeforeAdmission, CallStore
    <3>2. MayHaveMarked(d)'
      BY <3>1 DEF MayHaveMarked
    <3>. QED BY <1>1, <2>1, <2>2, <2>3, <3>2
  <2>. QED BY <2>1, <2>4, <2>5
<1>. QED BY <1>2, <1>3

\* Every key that a replay is refused for was set for a call that was let
\* through, at most one TTL ago, or for one whose reply from Redis was lost
\* (markIfNew of both stores, bridge-engine.ts:66).
THEOREM ReplayRefusedCorrect == Spec => []ReplayRefusedForCause
<1>1. Init => ReplayRefusedForCause
  BY DEF Init, ReplayRefusedForCause, Live
<1>. QED BY <1>1, CauseStep, InvariantCorrect, PTL DEF Spec

LEMMA MarkedStep ==
  ASSUME IInv, MarkedMeansTaken, [Next]_vars
  PROVE  MarkedMeansTaken'
<1>. USE ConstantTypes DEF IInv
<1>0. TypeInv /\ TypeInv' /\ TypeOK'
  BY TypeStep DEF TypeInv
<1>. SUFFICES ASSUME NEW s \in Store, NEW id \in Id, HasProcessed(s, id)'
              PROVE  \E c \in Call :
                       /\ Wrote(c, s)' /\ msg'[c].id = id
                       /\ ingestedAt'[c] # Never
                       /\ ingestedAt'[c] <= markedAt'[c]
                       /\ processed'[s][id] = markedAt'[c] + IdempotencyTtl
  BY DEF MarkedMeansTaken
<1>1. /\ now \in Nat /\ now' \in Nat /\ now' >= now
      /\ processed'[s][id] # 0
      /\ s \in Redis => processed'[s][id] > now'
  <2>1. now' >= now
    BY <1>0, TimePasses
  <2>. QED BY <1>0, <2>1 DEF TypeOK, HasProcessed
<1>2. CASE processed'[s][id] = processed[s][id]
  <2>1. HasProcessed(s, id)
    BY <1>1, <1>2 DEF HasProcessed, TypeOK
  <2>2. PICK c \in Call :
          /\ Wrote(c, s) /\ msg[c].id = id
          /\ ingestedAt[c] # Never /\ ingestedAt[c] <= markedAt[c]
          /\ processed[s][id] = markedAt[c] + IdempotencyTtl
    BY <2>1 DEF MarkedMeansTaken
  <2>3. Wrote(c, s)' /\ msg'[c] = msg[c]
    <3>1. processed'[s][id] # 0
      BY <1>1
    <3>. QED BY <1>0, <2>2, <3>1, WriterStays
  <2>4. markedAt[c] # Never
    BY <2>2 DEF TypeOK, Instant, Never
  <2>5. ingestedAt'[c] = ingestedAt[c] /\ markedAt'[c] = markedAt[c]
    BY <1>0, <2>4, Evolution DEF Evolves, ProgressInv, BeforeMark, BeforeIngest
  <2>. QED BY <1>2, <2>2, <2>3, <2>5
<1>3. CASE processed'[s][id] # processed[s][id]
  <2>1. PICK d \in Call :
          /\ MarkProcessed(d) \/ MarkProcessedFails(d)
          /\ SetProcessed(d)
          /\ CallStore(d) = s /\ msg[d].id = id
          /\ processed'[s][id] = now + IdempotencyTtl
    BY <1>0, <1>1, <1>3, MarkCases
  <2>2. /\ pc[d] = "commit" /\ UNCHANGED <<now, msg, host, life, epoch>>
        /\ pc'[d] # "idle" /\ UNCHANGED ingestedAt
        /\ markedAt'[d] = now
    BY <2>1 DEF MarkProcessed, MarkProcessedFails, SetProcessed, Goto, TypeOK
  <2>3. Wrote(d, s)' /\ msg'[d].id = id
    BY <2>1, <2>2 DEF Wrote, Remembered, CallStore, LifeInv, InProgress
  <2>4. ingestedAt[d] # Never /\ ingestedAt[d] <= now
    BY <2>2 DEF ProgressInv, AfterIngest
  <2>. QED BY <2>1, <2>2, <2>3, <2>4
<1>. QED BY <1>2, <1>3

\* A message is refused as processed only when the gateway has taken one
\* with its id, whatever failed or died in between (bridge-engine.ts:71-88).
THEOREM MarkedMeansTakenCorrect == Spec => []MarkedMeansTaken
<1>1. Init => MarkedMeansTaken
  BY DEF Init, MarkedMeansTaken, HasProcessed
<1>. QED BY <1>1, MarkedStep, InvariantCorrect, PTL DEF Spec

=============================================================================
