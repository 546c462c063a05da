------------------------ MODULE BridgeOutcomes_proofs ------------------------
(***************************************************************************)
(* Theorems about how the calls of BridgeEngine end: what the gateway is   *)
(* given, what the fan-out sends and what the audit log says of it, for    *)
(* every set of processes, calls and messages and every policy.            *)
(***************************************************************************)
EXTENDS BridgeEngine_proofs, FiniteSetTheorems

\* The positions of a fan-out list are positive, and finitely many.
LEMMA EligibleFinite ==
  ASSUME NEW m \in Message, HasRule(m.channel)
  PROVE  /\ IsFiniteSet(Eligible(m))
         /\ \A i \in Eligible(m) : i \in Nat /\ i > 0
<1>1. ResolveRule(m.channel).fanoutTargets \in Seq(Channel)
  BY RuleResolved DEF BridgePolicyRule
<1>2. PICK n \in Nat : DOMAIN Targets(m) = 1..n
  BY <1>1 DEF Targets
<1>3. Eligible(m) \subseteq 1..n
  BY <1>2 DEF Eligible
<1>4. IsFiniteSet(1..n)
  BY <1>2, FS_Interval
<1>. QED BY <1>3, <1>4, FS_Subset

\* A send adds one element to what a call has sent.
LEMMA SentGrows ==
  ASSUME NEW m \in Message, HasRule(m.channel), NEW k \in Nat,
         NEW i \in Eligible(m), i > k,
         \A j \in Eligible(m) : j > k => i <= j,
         NEW T, \A j : j \in T <=> j \in Eligible(m) /\ j <= k
  PROVE  /\ T \cup {i} = {j \in Eligible(m) : j <= i}
         /\ Cardinality(T \cup {i}) = Cardinality(T) + 1
         /\ Cardinality(T) \in Nat
<1>1. \A j \in Eligible(m) : j \in Nat
  BY EligibleFinite
<1>2. T \cup {i} = {j \in Eligible(m) : j <= i}
  BY <1>1
<1>3. IsFiniteSet(T)
  <2>1. T \subseteq Eligible(m)
    OBVIOUS
  <2>. QED BY <2>1, EligibleFinite, FS_Subset
<1>4. i \notin T
  BY <1>1
<1>. QED BY <1>2, <1>3, <1>4, FS_AddElement, FS_CardinalityType

\* All that the outcome of a call depends on is as it was.
Kept(x) ==
  /\ pc'[x] = pc[x] /\ msg'[x] = msg[x] /\ host'[x] = host[x]
  /\ life'[x] = life[x] /\ cursor'[x] = cursor[x] /\ log'[x] = log[x]
  /\ admittedAt'[x] = admittedAt[x] /\ ingestedAt'[x] = ingestedAt[x]
  /\ markedAt'[x] = markedAt[x] /\ sent'[x] = sent[x]

LEMMA OutcomeKept ==
  ASSUME NEW x \in Call, Kept(x), Allowed(x), Served(x), Ended(x), Told(x),
         UNCHANGED epoch
  PROVE  Allowed(x)' /\ Served(x)' /\ Ended(x)' /\ Told(x)'
<1>1. Allowed(x)'
  BY DEF Kept, Allowed
<1>2. Served(x)'
  BY DEF Kept, Served, Upcoming
<1>3. Ended(x)'
  BY DEF Kept, Ended
<1>4. Told(x)'
  <2>1. /\ (ForwardedEvents(x))' = ForwardedEvents(x)
        /\ \A i : (LogPosition(x, i))' = LogPosition(x, i)
        /\ (Eligible(msg[x]))' = Eligible(msg[x])
        /\ (Targets(msg[x]))' = Targets(msg[x])
    BY DEF Kept, ForwardedEvents, LogPosition, Eligible, Targets
  <2>2. (Unrecorded(x))' = Unrecorded(x)
    BY <2>1 DEF Kept, Unrecorded
  <2>. QED BY <2>1, <2>2 DEF Kept, Told, FanoutTold
<1>. QED BY <1>1, <1>2, <1>3, <1>4

\* A step of one call leaves the others as they are.
LEMMA OthersKept ==
  ASSUME TypeOK, NEW c \in Call, Step(c) \/ Failure(c), ~AuditErrorFails(c),
         NEW x \in Call, x # c
  PROVE  Kept(x)
<1>. USE DEF Kept, TypeOK, Goto, storeVars, historyVars, Write, MayWrite
<1>1. CASE RateLimit(c)
  BY <1>1 DEF RateLimit
<1>2. CASE MarkIfNew(c)
  BY <1>2 DEF MarkIfNew
<1>3. CASE MarkIfNewFails(c)
  BY <1>3 DEF MarkIfNewFails
<1>4. CASE CheckProcessed(c) \/ CheckProcessedFails(c)
  BY <1>4 DEF CheckProcessed, CheckProcessedFails
<1>5. CASE Authorise(c)
  BY <1>5 DEF Authorise
<1>6. CASE Ingest(c) \/ IngestFails(c)
  BY <1>6 DEF Ingest, IngestFails
<1>7. CASE MarkProcessed(c) \/ MarkProcessedFails(c)
  BY <1>7 DEF MarkProcessed, MarkProcessedFails, SetProcessed
<1>8. CASE AuditAccepted(c) \/ AuditAcceptedFails(c)
  BY <1>8 DEF AuditAccepted, AuditAcceptedFails
<1>9. CASE Send(c)
  BY <1>9 DEF Send
<1>10. CASE SendFails(c)
  BY <1>10 DEF SendFails
<1>11. CASE SendStalls(c)
  BY <1>11 DEF SendStalls
<1>12. CASE AuditForwarded(c) \/ AuditForwardedFails(c)
  BY <1>12 DEF AuditForwarded, AuditForwardedFails
<1>13. CASE AuditError(c)
  BY <1>13 DEF AuditError
<1>. QED
  BY <1>1, <1>2, <1>3, <1>4, <1>5, <1>6, <1>7, <1>8, <1>9, <1>10, <1>11,
     <1>12, <1>13 DEF Step, Failure

\* The steps of a call that its history shows.
LEMMA HistoryCases ==
  ASSUME TypeInv, NEW c \in Call, Step(c) \/ Failure(c), ~AuditErrorFails(c)
  PROVE  \/ UNCHANGED historyVars
         \/ MarkIfNew(c) /\ admittedAt' # admittedAt
         \/ /\ pc[c] = "ingest" /\ pc'[c] \in {"commit", "reject"}
            /\ ingestedAt' = [ingestedAt EXCEPT ![c] = now]
            /\ UNCHANGED <<admittedAt, markedAt, sent>>
         \/ /\ pc[c] = "commit" /\ pc'[c] \in {"accept", "reject"}
            /\ markedAt' = [markedAt EXCEPT ![c] = now]
            /\ UNCHANGED <<admittedAt, ingestedAt, sent>>
         \/ /\ pc[c] = "send" /\ pc'[c] \in {"record", "reject", "stalled"}
            /\ \E i \in Upcoming(c) :
                 IsNext(c, i) /\ sent' = [sent EXCEPT ![c] = @ \cup {i}]
            /\ UNCHANGED <<admittedAt, ingestedAt, markedAt>>
<1>. USE DEF Goto, historyVars, TypeInv, TypeOK
<1>1. CASE RateLimit(c) \/ CheckProcessed(c) \/ CheckProcessedFails(c)
           \/ Authorise(c)
  BY <1>1 DEF RateLimit, CheckProcessed, CheckProcessedFails, Authorise
<1>2. CASE MarkIfNew(c) \/ MarkIfNewFails(c)
  BY <1>2 DEF MarkIfNew, MarkIfNewFails
<1>3. CASE Ingest(c) \/ IngestFails(c)
  BY <1>3 DEF Ingest, IngestFails
<1>4. CASE MarkProcessed(c) \/ MarkProcessedFails(c)
  BY <1>4 DEF MarkProcessed, MarkProcessedFails, SetProcessed
<1>5. CASE Send(c) \/ SendFails(c) \/ SendStalls(c)
  BY <1>5 DEF Send, SendFails, SendStalls
<1>6. CASE AuditAccepted(c) \/ AuditAcceptedFails(c) \/ AuditForwarded(c)
           \/ AuditForwardedFails(c) \/ AuditError(c)
  BY <1>6 DEF AuditAccepted, AuditAcceptedFails, AuditForwarded,
     AuditForwardedFails, AuditError
<1>. QED BY <1>1, <1>2, <1>3, <1>4, <1>5, <1>6 DEF Step, Failure

\* What the gateway is given is decided on before it is, and stays so.
LEMMA AllowedStep ==
  ASSUME TypeInv, ProgressInv, NEW c \in Call, Allowed(c),
         Step(c) \/ Failure(c), ~AuditErrorFails(c)
  PROVE  Allowed(c)'
<1>1. /\ UNCHANGED msg
      /\ pc[c] \in InProgress
      /\ UNCHANGED ingestedAt \/ Ingest(c) \/ IngestFails(c)
      /\ UNCHANGED admittedAt \/ MarkIfNew(c)
      /\ pc'[c] \in {"verify", "ingest"} => CheckProcessed(c) \/ Authorise(c)
  BY CallStep DEF MarkIfNewFails, historyVars, TypeInv
<1>2. pc'[c] \in InProgress \ {"reject"} => pc[c] \in InProgress \ {"reject"}
  BY DEF Step, Failure, RateLimit, MarkIfNew, MarkIfNewFails, CheckProcessed,
     CheckProcessedFails, Authorise, Ingest, IngestFails, MarkProcessed,
     MarkProcessedFails, AuditAccepted, AuditAcceptedFails, Send, SendFails,
     SendStalls, AuditForwarded, AuditForwardedFails, AuditError, InProgress,
     Goto, TypeInv, TypeOK
<1>3. pc'[c] = "ingest" => Acceptable(msg[c])
  BY <1>1 DEF CheckProcessed, Authorise, Goto, TypeInv, TypeOK
<1>4. ASSUME ingestedAt'[c] # Never
      PROVE  /\ HasRule(msg[c].channel)
             /\ WithinPayloadLimit(msg[c], ResolveRule(msg[c].channel))
             /\ Acceptable(msg[c])
             /\ admittedAt'[c] <= ingestedAt'[c]
  <2>1. CASE ingestedAt'[c] = ingestedAt[c]
    <3>1. admittedAt'[c] = admittedAt[c]
      BY <1>1, <1>4, <2>1 DEF MarkIfNew, ProgressInv, BeforeIngest,
         BeforeAdmission
    <3>. QED BY <1>4, <2>1, <3>1 DEF Allowed
  <2>2. CASE ingestedAt'[c] # ingestedAt[c]
    <3>1. pc[c] = "ingest" /\ ingestedAt'[c] = now
      BY <1>1, <2>2 DEF Ingest, IngestFails, TypeInv, TypeOK
    <3>2. admittedAt'[c] = admittedAt[c]
      BY <1>1, <3>1 DEF MarkIfNew
    <3>3. HasRule(msg[c].channel) /\ admittedAt[c] <= now
      BY <3>1 DEF TypeInv, RuleInv, InProgress, ProgressInv
    <3>. QED BY <3>1, <3>2, <3>3 DEF Allowed, InProgress
  <2>. QED BY <2>1, <2>2
<1>. QED BY <1>1, <1>2, <1>3, <1>4 DEF Allowed

\* A call that ends by itself has just written its last word.
LEMMA EndedStep ==
  ASSUME TypeInv, NEW c \in Call, Step(c) \/ Failure(c), ~AuditErrorFails(c)
  PROVE  Ended(c)'
<1>1. UNCHANGED msg /\ pc[c] \in InProgress
  BY CallStep DEF TypeInv
<1>2. pc'[c] # "lost" /\ (pc'[c] = "failed" => AuditError(c))
  BY DEF Step, Failure, RateLimit, MarkIfNew, MarkIfNewFails, CheckProcessed,
     CheckProcessedFails, Authorise, Ingest, IngestFails, MarkProcessed,
     MarkProcessedFails, AuditAccepted, AuditAcceptedFails, Send, SendFails,
     SendStalls, AuditForwarded, AuditForwardedFails, AuditError, LoopHead,
     Goto, TypeInv, TypeOK
<1>3. ASSUME AuditError(c)
      PROVE  /\ log'[c] # <<>>
             /\ log'[c][Len(log'[c])] = Event("error", msg[c].channel)
  <2>1. log'[c] = Append(log[c], Event("error", msg[c].channel))
    BY <1>3 DEF AuditError, Write, TypeInv, TypeOK
  <2>2. log[c] \in Seq(AuditEvent)
    BY DEF TypeInv, TypeOK
  <2>3. Event("error", msg[c].channel) \in AuditEvent
    BY <1>1, CallTypes, ConstantTypes, EventType DEF InProgress, TypeInv
  <2>4. /\ Len(log'[c]) = Len(log[c]) + 1
        /\ log'[c][Len(log[c]) + 1] = Event("error", msg[c].channel)
    BY <2>1, <2>2, <2>3
  <2>5. log'[c] # <<>>
    BY <2>2, <2>4
  <2>. QED BY <2>4, <2>5
<1>. QED BY <1>1, <1>2, <1>3 DEF Ended

LEMMA AppendKeepsFirst ==
  ASSUME NEW S, NEW q \in Seq(S), NEW e \in S
  PROVE  /\ Append(q, e) # <<>>
         /\ Len(Append(q, e)) = Len(q) + 1
         /\ q # <<>> => Append(q, e)[1] = q[1]
         /\ q = <<>> => Append(q, e)[1] = e
OBVIOUS

LEMMA ServedStep ==
  ASSUME TypeInv, ProgressInv, NEW c \in Call, Allowed(c), Served(c),
         Step(c) \/ Failure(c), ~AuditErrorFails(c)
  PROVE  Served(c)'
<1>. DEFINE m == msg[c]
<1>1. /\ UNCHANGED msg /\ pc[c] \in InProgress /\ m \in Message
  BY CallStep, CallTypes DEF TypeInv, InProgress
<1>2. ASSUME pc[c] \in AfterIngest
      PROVE  /\ HasRule(m.channel)
             /\ IsFiniteSet(Eligible(m))
             /\ \A i \in Eligible(m) : i \in Nat /\ i > 0
  BY <1>1, <1>2, EligibleFinite DEF ProgressInv, Allowed
<1>3. log[c] \in Seq(AuditEvent) /\ cursor[c] \in Nat
  BY DEF TypeInv, TypeOK
<1>. USE DEF BeforeAdmission, BeforeIngest, BeforeMark
<1>4. CASE /\ UNCHANGED <<log, sent, cursor>>
           /\ pc[c] \in BeforeMark
           /\ pc'[c] \in BeforeMark \cup {"accept", "reject"}
  BY <1>1, <1>4 DEF Served
<1>5. CASE pc'[c] \in {"reject", "stalled", "failed"}
  BY <1>5 DEF Served
<1>6. CASE AuditAccepted(c)
  <2>1. /\ pc[c] = "accept" /\ UNCHANGED <<sent, cursor>>
        /\ log'[c] = Append(log[c], Event("accepted", m.channel))
        /\ pc'[c] = LoopHead(c)
    BY <1>6 DEF AuditAccepted, Write, Goto, historyVars, TypeInv, TypeOK
  <2>2. log[c] = <<>> /\ sent[c] = {} /\ cursor[c] = 0
    BY <2>1 DEF Served
  <2>3. Event("accepted", m.channel) \in AuditEvent
    BY <1>1, ConstantTypes, EventType
  <2>4. /\ log'[c] # <<>> /\ Len(log'[c]) = 1
        /\ log'[c][1] = Event("accepted", m.channel)
    BY <1>3, <2>1, <2>2, <2>3, AppendKeepsFirst
  <2>5. sent'[c] = {i \in Eligible(m) : i <= cursor'[c]}
    BY <1>2, <2>1, <2>2 DEF AfterIngest, AfterMark
  <2>6. Cardinality(sent'[c]) = 0
    BY <2>1, <2>2, FS_EmptySet
  <2>7. /\ pc'[c] \in {"send", "done"}
        /\ pc'[c] = "done" => Upcoming(c)' = {}
    BY <1>1, <2>1 DEF LoopHead, Upcoming
  <2>. QED BY <1>1, <2>4, <2>5, <2>6, <2>7 DEF Served
<1>7. CASE Send(c)
  <2>1. pc[c] = "send" /\ UNCHANGED log
    BY <1>7 DEF Send
  <2>2. PICK i \in Upcoming(c) :
          /\ IsNext(c, i)
          /\ cursor' = [cursor EXCEPT ![c] = i]
          /\ sent' = [sent EXCEPT ![c] = @ \cup {i}]
    BY <1>7 DEF Send
  <2>3. /\ cursor'[c] = i /\ sent'[c] = sent[c] \cup {i}
        /\ pc'[c] = "record"
    BY <1>7, <2>2 DEF Send, Goto, TypeInv, TypeOK
  <2>4. /\ i \in Eligible(m) /\ i > cursor[c]
        /\ \A j \in Eligible(m) : j > cursor[c] => i <= j
    BY <2>2 DEF IsNext, Upcoming
  <2>5. /\ sent[c] = {j \in Eligible(m) : j <= cursor[c]}
        /\ log[c] # <<>> /\ log[c][1] = Event("accepted", m.channel)
        /\ Len(log[c]) = Cardinality(sent[c]) + 1
    BY <2>1 DEF Served
  <2>6. /\ sent'[c] = {j \in Eligible(m) : j <= i}
        /\ Cardinality(sent'[c]) = Cardinality(sent[c]) + 1
    <3>1. HasRule(m.channel)
      BY <1>2, <2>1 DEF AfterIngest, AfterMark
    <3>2. m \in Message /\ cursor[c] \in Nat
      BY <1>1, <1>3
    <3>. HIDE DEF m
    <3>3. /\ sent[c] \cup {i} = {j \in Eligible(m) : j <= i}
          /\ Cardinality(sent[c] \cup {i}) = Cardinality(sent[c]) + 1
      <4>1. \A j : j \in sent[c] <=> j \in Eligible(m) /\ j <= cursor[c]
        BY <2>5
      <4>2. i \in Eligible(m) /\ i > cursor[c]
        BY <2>4
      <4>. QED BY <2>4, <3>1, <3>2, <4>1, <4>2, SentGrows
    <3>. QED BY <2>3, <3>3
  <2>. QED BY <1>1, <2>1, <2>3, <2>5, <2>6 DEF Served
<1>8. CASE AuditForwarded(c)
  <2>. DEFINE e == Event("forwarded", Targets(m)[cursor[c]])
  <2>1. /\ pc[c] = "record" /\ UNCHANGED <<sent, cursor>>
        /\ log'[c] = Append(log[c], e)
        /\ pc'[c] = LoopHead(c)
    BY <1>8 DEF AuditForwarded, Write, Goto, historyVars, TypeInv, TypeOK
  <2>2. /\ sent[c] = {i \in Eligible(m) : i <= cursor[c]}
        /\ log[c] # <<>> /\ log[c][1] = Event("accepted", m.channel)
        /\ Len(log[c]) = Cardinality(sent[c])
    BY <2>1 DEF Served
  <2>3. e \in AuditEvent
    BY <1>1, <1>2, <2>1, EligibleType, EventType
    DEF TypeInv, RuleInv, AfterIngest, AfterMark
  <2>. HIDE DEF e
  <2>4. /\ log'[c] # <<>> /\ Len(log'[c]) = Len(log[c]) + 1
        /\ log'[c][1] = log[c][1]
    BY <1>3, <2>1, <2>2, <2>3, AppendKeepsFirst
  <2>5. /\ pc'[c] \in {"send", "done"}
        /\ pc'[c] = "done" => Upcoming(c)' = {}
    BY <1>1, <2>1 DEF LoopHead, Upcoming
  <2>. QED BY <1>1, <2>1, <2>2, <2>4, <2>5 DEF Served
<1>9. \/ AuditAccepted(c) \/ Send(c) \/ AuditForwarded(c)
      \/ pc'[c] \in {"reject", "stalled", "failed"}
      \/ /\ UNCHANGED <<log, sent, cursor>>
         /\ pc[c] \in BeforeMark
         /\ pc'[c] \in BeforeMark \cup {"accept", "reject"}
  BY DEF Step, Failure, RateLimit, MarkIfNew, MarkIfNewFails, CheckProcessed,
     CheckProcessedFails, Authorise, Ingest, IngestFails, MarkProcessed,
     MarkProcessedFails, AuditAcceptedFails, SendFails, SendStalls,
     AuditForwardedFails, AuditError, Goto, historyVars, TypeInv, TypeOK
<1>. QED BY <1>4, <1>5, <1>6, <1>7, <1>8, <1>9

\* The fan-out's events in a log that grows by one.
LEMMA LogGrows ==
  ASSUME NEW q \in Seq(AuditEvent), NEW e \in AuditEvent
  PROVE  LET r == Append(q, e)
         IN /\ \A k \in DOMAIN q : k \in DOMAIN r /\ r[k] = q[k]
            /\ \A k \in DOMAIN r : k \in DOMAIN q \/ k = Len(q) + 1
            /\ Len(q) + 1 \in DOMAIN r /\ Len(q) + 1 \notin DOMAIN q
            /\ r[Len(q) + 1] = e
            /\ r # <<>>
            /\ q # <<>> => 1 \in DOMAIN q /\ r[1] = q[1]
<1>. DEFINE r == Append(q, e)
<1>1. /\ Len(q) \in Nat /\ DOMAIN q = 1 .. Len(q)
      /\ Len(r) = Len(q) + 1 /\ DOMAIN r = 1 .. Len(q) + 1
      /\ r[Len(q) + 1] = e
      /\ \A k \in 1 .. Len(q) : r[k] = q[k]
  OBVIOUS
<1>2. q # <<>> => Len(q) >= 1
  OBVIOUS
<1>. HIDE DEF r
<1>3. r # <<>>
  BY <1>1
<1>. QED BY <1>1, <1>2, <1>3 DEF r

\* What a call of the first kind has sent is a finite set of numbers.
LEMMA SentFinite ==
  ASSUME TypeInv, NEW c \in Call, pc[c] # "idle", Allowed(c),
         ingestedAt[c] # Never
  PROVE  /\ IsFiniteSet(Eligible(msg[c]))
         /\ \A i \in Eligible(msg[c]) : i \in Nat
BY CallTypes, EligibleFinite DEF TypeInv, Allowed

\* An event that is not about the fan-out leaves what the log tells of it.
LEMMA ToldOtherwise ==
  ASSUME TypeInv, NEW c \in Call, Told(c), NEW e \in AuditEvent,
         e.type # "forwarded", log'[c] = Append(log[c], e),
         sent'[c] = sent[c], msg'[c] = msg[c],
         markedAt'[c] = markedAt[c], ingestedAt'[c] = ingestedAt[c],
         pc'[c] \in {"failed", "lost"}
  PROVE  Told(c)'
<1>1. log[c] \in Seq(AuditEvent)
  BY DEF TypeInv, TypeOK
<1>2. /\ \A k \in DOMAIN log[c] : k \in DOMAIN log'[c] /\ log'[c][k] = log[c][k]
      /\ \A k \in DOMAIN log'[c] : k \in DOMAIN log[c] \/ k = Len(log[c]) + 1
      /\ log'[c][Len(log[c]) + 1] = e
      /\ log'[c] # <<>>
      /\ log[c] # <<>> => log'[c][1] = log[c][1]
  BY <1>1, LogGrows
<1>3. (ForwardedEvents(c))' = ForwardedEvents(c)
  BY <1>2 DEF ForwardedEvents
<1>4. (Unrecorded(c))' = Unrecorded(c)
  BY <1>3 DEF Unrecorded, LogPosition
<1>5. ASSUME sent[c] # {} \/ ForwardedEvents(c) # {}
      PROVE  (FanoutTold(c))'
  <2>1. FanoutTold(c)
    BY <1>5 DEF Told
  <2>2. log[c] # <<>>
    <3>1. CASE sent[c] # {}
      BY <3>1 DEF Told
    <3>2. CASE ForwardedEvents(c) # {}
      <4>1. \E k : k \in DOMAIN log[c]
        BY <3>2 DEF ForwardedEvents
      <4>. QED BY <1>1, <4>1
    <3>. QED BY <1>5, <3>1, <3>2
  <2>3. \A k \in ForwardedEvents(c) : log'[c][k] = log[c][k]
    BY <1>2 DEF ForwardedEvents
  <2>5. \A i : (LogPosition(c, i))' = LogPosition(c, i)
    BY DEF LogPosition
  <2>6. pc'[c] \in {"record", "stalled", "reject", "failed", "lost"}
    OBVIOUS
  <2>7. \A k \in (ForwardedEvents(c))' : \E i \in sent'[c] :
          /\ k = (LogPosition(c, i))'
          /\ log'[c][k].channel = Targets(msg'[c])[i]
    <3>1. \A k \in ForwardedEvents(c) : \E i \in sent[c] :
            k = LogPosition(c, i) /\ log[c][k].channel = Targets(msg[c])[i]
      BY <2>1 DEF FanoutTold
    <3>2. \A k \in ForwardedEvents(c) : \E i \in sent'[c] :
            /\ k = (LogPosition(c, i))'
            /\ log'[c][k].channel = Targets(msg'[c])[i]
      BY <2>3, <2>5, <3>1
    <3>. QED BY <1>3, <3>2
  <2>8. log'[c][1] = Event("accepted", msg'[c].channel)
    BY <1>2, <2>1, <2>2 DEF FanoutTold
  <2>9. \A i \in (Unrecorded(c))' : \A j \in sent'[c] : j <= i
    BY <1>4, <2>1 DEF FanoutTold
  <2>10. /\ sent'[c] \subseteq Eligible(msg'[c])
         /\ \A i \in sent'[c], j \in Eligible(msg'[c]) : j < i => j \in sent'[c]
         /\ markedAt'[c] # Never /\ ingestedAt'[c] # Never
    BY <2>1 DEF FanoutTold
  <2>. QED BY <2>6, <2>7, <2>8, <2>9, <2>10 DEF FanoutTold
<1>. QED BY <1>2, <1>3, <1>5 DEF Told

\* The log of a call that is not about to record a send tells all it sent.
LEMMA AllRecorded ==
  ASSUME NEW c \in Call, Told(c),
         pc[c] \notin {"record", "stalled", "reject", "failed", "lost"}
  PROVE  Unrecorded(c) = {}
BY DEF Told, FanoutTold, Unrecorded

LEMMA ToldStep ==
  ASSUME TypeInv, ProgressInv, NEW c \in Call, Allowed(c), Served(c), Told(c),
         Step(c) \/ Failure(c), ~AuditErrorFails(c)
  PROVE  Told(c)'
<1>. DEFINE m == msg[c]
            Late == {"record", "stalled", "reject", "failed", "lost"}
<1>1. /\ UNCHANGED msg /\ pc[c] \in InProgress /\ m \in Message
  BY CallStep, CallTypes DEF TypeInv, InProgress
<1>2. /\ log[c] \in Seq(AuditEvent) /\ cursor[c] \in Nat
      /\ (Eligible(m))' = Eligible(m) /\ (Targets(m))' = Targets(m)
  BY <1>1 DEF TypeInv, TypeOK, Eligible, Targets
<1>3. /\ ingestedAt[c] # Never => ingestedAt'[c] # Never
      /\ markedAt[c] # Never => markedAt'[c] # Never
  <2>1. /\ ingestedAt'[c] # ingestedAt[c] => ingestedAt'[c] = now
        /\ markedAt'[c] # markedAt[c] => markedAt'[c] = now
    BY HistoryCases DEF MarkIfNew, historyVars, TypeInv, TypeOK
  <2>. QED BY <2>1 DEF TypeInv, TypeOK, Never
<1>4. CASE /\ log'[c] = log[c] /\ sent'[c] = sent[c]
           /\ pc[c] \in Late => pc'[c] \in Late
  <2>1. /\ (ForwardedEvents(c))' = ForwardedEvents(c)
        /\ (Unrecorded(c))' = Unrecorded(c)
    BY <1>4 DEF ForwardedEvents, Unrecorded, LogPosition
  <2>2. Unrecorded(c) # {} => pc[c] \in Late
    BY AllRecorded
  <2>. QED BY <1>1, <1>2, <1>3, <1>4, <2>1, <2>2
           DEF Told, FanoutTold, LogPosition
<1>5. CASE AuditAccepted(c) \/ (AuditAcceptedFails(c) /\ ~UNCHANGED log)
  <2>. DEFINE e == Event("accepted", m.channel)
  <2>1. /\ log'[c] = Append(log[c], e)
        /\ sent'[c] = sent[c] /\ pc[c] = "accept"
    BY <1>5 DEF AuditAccepted, AuditAcceptedFails, MayWrite, Write, historyVars,
       TypeInv, TypeOK
  <2>2. log[c] = <<>> /\ sent[c] = {}
    BY <2>1 DEF Served
  <2>3. e \in AuditEvent /\ e.type # "forwarded"
    BY <1>1, ConstantTypes, EventType DEF Event
  <2>. HIDE DEF e
  <2>4. (ForwardedEvents(c))' = {}
    <3>1. \A k \in DOMAIN log'[c] : log'[c][k] = e
      <4>1. \A k \in DOMAIN log'[c] : k \in DOMAIN log[c] \/ k = Len(log[c]) + 1
        BY <1>2, <2>1, <2>3, LogGrows
      <4>2. log'[c][Len(log[c]) + 1] = e
        BY <1>2, <2>1, <2>3, LogGrows
      <4>3. DOMAIN log[c] = {}
        BY <2>2
      <4>. QED BY <4>1, <4>2, <4>3
    <3>. QED BY <2>3, <3>1 DEF ForwardedEvents
  <2>. QED BY <2>1, <2>2, <2>4 DEF Told
<1>6. CASE AuditError(c)
  <2>. DEFINE e == Event("error", m.channel)
  <2>1. /\ log'[c] = Append(log[c], e)
        /\ UNCHANGED historyVars /\ pc'[c] = "failed"
    BY <1>6 DEF AuditError, Write, Goto, TypeInv, TypeOK
  <2>2. e \in AuditEvent /\ e.type # "forwarded"
    BY <1>1, ConstantTypes, EventType DEF Event
  <2>. HIDE DEF e
  <2>. QED BY <1>1, <2>1, <2>2, ToldOtherwise DEF historyVars
<1>7. CASE /\ pc[c] = "send" /\ UNCHANGED log
           /\ \E i \in Upcoming(c) :
                IsNext(c, i) /\ sent' = [sent EXCEPT ![c] = @ \cup {i}]
           /\ pc'[c] \in {"record", "reject", "stalled"}
  <2>1. PICK i \in Upcoming(c) :
          IsNext(c, i) /\ sent' = [sent EXCEPT ![c] = @ \cup {i}]
    BY <1>7
  <2>2. /\ markedAt[c] # Never /\ ingestedAt[c] # Never
        /\ sent[c] = {j \in Eligible(m) : j <= cursor[c]}
        /\ log[c] # <<>> /\ log[c][1] = Event("accepted", m.channel)
        /\ Len(log[c]) = Cardinality(sent[c]) + 1
    BY <1>7 DEF Served, ProgressInv, AfterMark, AfterIngest
  <2>3. /\ HasRule(m.channel)
        /\ IsFiniteSet(Eligible(m)) /\ \A j \in Eligible(m) : j \in Nat
    BY <1>7, <2>2, SentFinite DEF Allowed
  <2>4. /\ i \in Eligible(m) /\ i > cursor[c] /\ i \in Nat
        /\ \A j \in Eligible(m) : j > cursor[c] => i <= j
    BY <2>1, <2>3 DEF IsNext, Upcoming
  <2>5. sent'[c] = sent[c] \cup {i}
    BY <2>1 DEF TypeInv, TypeOK
  <2>6. /\ sent[c] \cup {i} = {j \in Eligible(m) : j <= i}
        /\ Cardinality(sent[c] \cup {i}) = Cardinality(sent[c]) + 1
        /\ Cardinality(sent[c]) \in Nat
    <3>. DEFINE T == sent[c]
                k == cursor[c]
    <3>1. \A j : j \in T <=> j \in Eligible(m) /\ j <= k
      BY <2>2
    <3>2. k \in Nat /\ m \in Message
      BY <1>1, <1>2
    <3>3. i > k /\ \A j \in Eligible(m) : j > k => i <= j
      BY <2>4
    <3>. HIDE DEF T, k, m
    <3>4. /\ T \cup {i} = {j \in Eligible(m) : j <= i}
          /\ Cardinality(T \cup {i}) = Cardinality(T) + 1
          /\ Cardinality(T) \in Nat
      BY <2>3, <2>4, <3>1, <3>2, <3>3, SentGrows
    <3>. QED BY <3>4 DEF T
  <2>7. /\ \A j \in sent[c] : (LogPosition(c, j))' = LogPosition(c, j)
        /\ (LogPosition(c, i))' = Len(log[c]) + 1
    <3>1. \A j \in sent[c] : j <= cursor[c] /\ j \in Nat
      BY <2>2, <2>3
    <3>2. ASSUME NEW j \in sent[c]
          PROVE  {l \in sent'[c] : l <= j} = {l \in sent[c] : l <= j}
      <4>1. ~(i <= j)
        BY <1>2, <2>4, <3>1
      <4>. QED BY <2>5, <4>1
    <3>3. {l \in sent'[c] : l <= i} = sent[c] \cup {i}
      BY <2>5, <2>6
    <3>4. 1 + (Cardinality(sent[c]) + 1) = Len(log[c]) + 1
      BY <2>2, <2>6
    <3>5. \A j \in sent[c] : (LogPosition(c, j))' = LogPosition(c, j)
      BY <3>2 DEF LogPosition
    <3>6. (LogPosition(c, i))' = 1 + Cardinality(sent[c] \cup {i})
      BY <3>3 DEF LogPosition
    <3>. QED BY <2>6, <3>4, <3>5, <3>6
  <2>8. (ForwardedEvents(c))' = ForwardedEvents(c)
    BY <1>7 DEF ForwardedEvents
  <2>9. Unrecorded(c) = {}
    BY <1>7, AllRecorded
  <2>10. (Unrecorded(c))' \subseteq {i}
    BY <2>5, <2>7, <2>8, <2>9 DEF Unrecorded
  <2>11. \A j \in sent'[c] : j <= i
    BY <2>5, <2>6
  <2>12. \A k \in ForwardedEvents(c) : \E j \in sent[c] :
            k = LogPosition(c, j) /\ log[c][k].channel = Targets(m)[j]
    BY DEF Told, FanoutTold
  <2>13. (FanoutTold(c))'
    <3>1. /\ sent'[c] \subseteq Eligible(m)
          /\ \A j \in sent'[c], l \in Eligible(m) : l < j => l \in sent'[c]
      BY <2>3, <2>4, <2>5, <2>6
    <3>2. \A k \in ForwardedEvents(c) : \E j \in sent'[c] :
            k = (LogPosition(c, j))' /\ log'[c][k].channel = Targets(m)[j]
      BY <1>7, <2>5, <2>7, <2>12
    <3>. QED BY <1>1, <1>2, <1>3, <1>7, <2>2, <2>8, <2>10, <2>11, <3>1, <3>2
             DEF FanoutTold
  <2>. QED BY <1>7, <2>2, <2>13 DEF Told
<1>8. CASE AuditForwarded(c) \/ (AuditForwardedFails(c) /\ ~UNCHANGED log)
  <2>0. PICK k0 : k0 = cursor[c]
    OBVIOUS
  <2>. DEFINE e == Event("forwarded", Targets(m)[k0])
  <2>1. /\ log'[c] = Append(log[c], e)
        /\ UNCHANGED historyVars /\ pc[c] = "record"
    BY <1>8, <2>0 DEF AuditForwarded, AuditForwardedFails, MayWrite, Write, historyVars,
       TypeInv, TypeOK
  <2>2. /\ markedAt[c] # Never /\ ingestedAt[c] # Never
        /\ k0 \in Eligible(m)
        /\ sent[c] = {j \in Eligible(m) : j <= k0}
        /\ log[c] # <<>> /\ log[c][1] = Event("accepted", m.channel)
        /\ Len(log[c]) = Cardinality(sent[c])
    BY <2>0, <2>1 DEF Served, ProgressInv, AfterMark, AfterIngest, TypeInv, RuleInv
  <2>3. /\ HasRule(m.channel)
        /\ IsFiniteSet(Eligible(m)) /\ \A j \in Eligible(m) : j \in Nat
    BY <2>1, <2>2, SentFinite DEF Allowed
  <2>4. e \in AuditEvent /\ e.type = "forwarded" /\ e.channel = Targets(m)[k0]
    BY <1>1, <2>2, <2>3, EligibleType, EventType DEF Event
  <2>. HIDE DEF e
  <2>5. /\ \A k \in DOMAIN log[c] : k \in DOMAIN log'[c] /\ log'[c][k] = log[c][k]
        /\ \A k \in DOMAIN log'[c] : k \in DOMAIN log[c] \/ k = Len(log[c]) + 1
        /\ Len(log[c]) + 1 \in DOMAIN log'[c]
        /\ log'[c][Len(log[c]) + 1] = e
        /\ log'[c] # <<>>
        /\ log'[c][1] = log[c][1]
    <3>1. /\ log[c] # <<>> /\ log[c] \in Seq(AuditEvent) /\ e \in AuditEvent
          /\ log'[c] = Append(log[c], e)
      BY <1>2, <2>1, <2>2, <2>4
    <3>. QED BY <3>1, LogGrows
  <2>6. (ForwardedEvents(c))' = ForwardedEvents(c) \cup {Len(log[c]) + 1}
    BY <2>4, <2>5 DEF ForwardedEvents
  <2>7. k0 \in sent[c] /\ LogPosition(c, k0) = Len(log[c]) + 1
    <3>1. k0 \in sent[c]
      <4>1. k0 \in Nat /\ k0 <= k0
        BY <2>2, <2>3
      <4>. QED BY <2>2, <4>1
    <3>2. {l \in sent[c] : l <= k0} = sent[c]
      BY <2>2
    <3>3. Cardinality(sent[c]) \in Nat
      <4>1. sent[c] \subseteq Eligible(m)
        BY <2>2
      <4>. QED BY <2>3, <4>1, FS_Subset, FS_CardinalityType
    <3>4. LogPosition(c, k0) = 1 + Cardinality(sent[c])
      BY <3>2 DEF LogPosition
    <3>. QED BY <2>2, <3>1, <3>3, <3>4
  <2>8. sent'[c] = sent[c] /\ \A j : (LogPosition(c, j))' = LogPosition(c, j)
    BY <2>1 DEF historyVars, LogPosition
  <2>9. FanoutTold(c)
    BY <2>7 DEF Told
  <2>10. (Unrecorded(c))' = {}
    <3>1. \A j \in Unrecorded(c) : j = k0
      <4>1. \A j \in Unrecorded(c) : k0 <= j /\ j \in sent[c]
        BY <2>7, <2>9 DEF FanoutTold, Unrecorded
      <4>. QED BY <1>2, <2>2, <2>3, <4>1
    <3>. QED BY <2>6, <2>7, <2>8, <3>1 DEF Unrecorded
  <2>11. \A k \in (ForwardedEvents(c))' : \E j \in sent'[c] :
            k = (LogPosition(c, j))' /\ log'[c][k].channel = Targets(m)[j]
    <3>1. ASSUME NEW k \in ForwardedEvents(c)
          PROVE  \E j \in sent'[c] :
                   k = (LogPosition(c, j))' /\ log'[c][k].channel = Targets(m)[j]
      <4>1. log'[c][k] = log[c][k]
        BY <2>5 DEF ForwardedEvents
      <4>. QED BY <2>8, <2>9, <4>1 DEF FanoutTold
    <3>2. /\ Len(log[c]) + 1 = (LogPosition(c, k0))'
          /\ log'[c][Len(log[c]) + 1].channel = Targets(m)[k0]
      BY <2>4, <2>5, <2>7, <2>8
    <3>3. k0 \in sent'[c]
      BY <2>7, <2>8
    <3>. QED BY <2>6, <3>1, <3>2, <3>3
  <2>12. (FanoutTold(c))'
    BY <1>1, <1>2, <1>3, <2>5, <2>8, <2>9, <2>10, <2>11 DEF FanoutTold
  <2>. QED BY <2>5, <2>12 DEF Told
<1>9. \/ /\ log'[c] = log[c] /\ sent'[c] = sent[c]
         /\ pc[c] \in Late => pc'[c] \in Late
      \/ AuditAccepted(c) \/ (AuditAcceptedFails(c) /\ ~UNCHANGED log)
      \/ AuditError(c)
      \/ /\ pc[c] = "send" /\ UNCHANGED log
         /\ \E i \in Upcoming(c) :
              IsNext(c, i) /\ sent' = [sent EXCEPT ![c] = @ \cup {i}]
         /\ pc'[c] \in {"record", "reject", "stalled"}
      \/ AuditForwarded(c) \/ (AuditForwardedFails(c) /\ ~UNCHANGED log)
  <2>. USE DEF Goto, historyVars, TypeInv, TypeOK
  <2>1. CASE RateLimit(c) \/ MarkIfNew(c) \/ MarkIfNewFails(c) \/ CheckProcessed(c)
             \/ CheckProcessedFails(c) \/ Authorise(c) \/ Ingest(c) \/ IngestFails(c)
             \/ MarkProcessed(c) \/ MarkProcessedFails(c)
    BY <2>1 DEF RateLimit, MarkIfNew, MarkIfNewFails, CheckProcessed,
       CheckProcessedFails, Authorise, Ingest, IngestFails, MarkProcessed,
       MarkProcessedFails
  <2>2. CASE Send(c) \/ SendFails(c) \/ SendStalls(c)
    BY <2>2 DEF Send, SendFails, SendStalls
  <2>3. CASE (AuditAcceptedFails(c) \/ AuditForwardedFails(c)) /\ UNCHANGED log
    BY <2>3 DEF AuditAcceptedFails, AuditForwardedFails
  <2>. QED BY <2>1, <2>2, <2>3 DEF Step, Failure
<1>. QED BY <1>4, <1>5, <1>6, <1>7, <1>8, <1>9

\* A process that dies leaves its calls lost, and the rest as they were.
LEMMA DeathOutcome ==
  ASSUME TypeInv, LifeInv, NEW n \in Node, Die(n), NEW x \in Call,
         Allowed(x), Served(x), Ended(x), Told(x),
         \/ log'[x] = log[x]
         \/ /\ log'[x] = Append(log[x], Event("error", msg[x].channel))
            /\ pc'[x] = "lost"
  PROVE  Allowed(x)' /\ Served(x)' /\ Ended(x)' /\ Told(x)'
<1>1. /\ UNCHANGED <<msg, host, life, cursor, historyVars>>
      /\ epoch' = [epoch EXCEPT ![n] = epoch[n] + 1]
      /\ pc'[x] = IF host[x] = n /\ pc[x] \in InProgress
                  THEN "lost" ELSE pc[x]
  BY DEF Die
<1>2. /\ \A k \in Node : /\ epoch[k] \in Nat /\ epoch'[k] \in Nat
                          /\ epoch[k] <= epoch'[k]
      /\ epoch'[n] = epoch[n] + 1
  BY <1>1 DEF TypeInv, TypeOK
<1>t. Told(x)'
  <2>1. CASE log'[x] = log[x]
    <3>1. /\ (ForwardedEvents(x))' = ForwardedEvents(x)
          /\ (Unrecorded(x))' = Unrecorded(x)
          /\ (Eligible(msg[x]))' = Eligible(msg[x])
          /\ (Targets(msg[x]))' = Targets(msg[x])
      BY <1>1, <2>1 DEF ForwardedEvents, Unrecorded, LogPosition, historyVars,
         Eligible, Targets
    <3>. QED BY <1>1, <2>1, <3>1 DEF Told, FanoutTold, LogPosition, historyVars
  <2>2. CASE /\ log'[x] = Append(log[x], Event("error", msg[x].channel))
             /\ pc'[x] = "lost"
    <3>1. pc[x] # "idle" => msg[x] \in Message
      BY CallTypes DEF TypeInv
    <3>2. pc[x] # "idle"
      BY <1>1, <2>2 DEF InProgress
    <3>3. /\ Event("error", msg[x].channel) \in AuditEvent
          /\ Event("error", msg[x].channel).type # "forwarded"
      BY <3>1, <3>2, ConstantTypes, EventType DEF Event
    <3>. QED BY <1>1, <2>2, <3>3, ToldOtherwise DEF historyVars
  <2>. QED BY <2>1, <2>2
<1>3. CASE pc'[x] = pc[x] /\ log'[x] = log[x]
  <2>1. Kept(x)
    BY <1>1, <1>3 DEF Kept, historyVars
  <2>2. Allowed(x)' /\ Served(x)'
    BY <2>1 DEF Kept, Allowed, Served, Upcoming
  <2>3. ASSUME pc[x] = "lost" PROVE life[x] < epoch'[host[x]]
    <3>1. host[x] \in Node /\ life[x] \in Nat
      BY <2>3, CallTypes DEF TypeInv, TypeOK
    <3>. QED BY <1>2, <2>3, <3>1 DEF Ended, TypeInv, TypeOK
  <2>. QED BY <1>t, <2>1, <2>2, <2>3 DEF Kept, Ended
<1>4. CASE pc'[x] = "lost"
  <2>1. Allowed(x)'
    BY <1>1, <1>4 DEF Allowed, InProgress, historyVars
  <2>2. Served(x)'
    BY <1>4 DEF Served, BeforeMark, BeforeIngest, BeforeAdmission
  <2>3. pc[x] # "idle"
    BY <1>1, <1>4 DEF InProgress
  <2>4. /\ host[x] \in Node /\ life[x] \in Nat /\ life[x] <= epoch[host[x]]
        /\ epoch[host[x]] \in Nat
    BY <2>3, CallTypes DEF LifeInv, TypeInv, TypeOK
  <2>5. life[x] < epoch'[host[x]]
    <3>1. CASE host[x] = n
      BY <1>2, <2>4, <3>1
    <3>2. CASE host[x] # n
      BY <1>1, <1>4, <2>4, <3>2 DEF Ended, TypeInv, TypeOK
    <3>. QED BY <3>1, <3>2
  <2>. QED BY <1>1, <1>4, <1>t, <2>1, <2>2, <2>5 DEF Ended
<1>. QED BY <1>1, <1>3, <1>4

LEMMA OutcomeStep ==
  ASSUME TypeInv, LifeInv, ProgressInv, OutcomeInv, [Next]_vars
  PROVE  OutcomeInv'
<1>. SUFFICES ASSUME NEW x \in Call
              PROVE  Allowed(x)' /\ Served(x)' /\ Ended(x)' /\ Told(x)'
  BY DEF OutcomeInv
<1>0. Allowed(x) /\ Served(x) /\ Ended(x) /\ Told(x)
  BY DEF OutcomeInv
<1>1. ASSUME NEW c \in Call, NEW n \in Node, NEW m \in Message,
             Deliver(c, n, m)
      PROVE  Allowed(x)' /\ Served(x)' /\ Ended(x)' /\ Told(x)'
  <2>1. CASE x = c
    <3>1. /\ pc[x] = "idle" /\ msg'[x] = m
          /\ pc'[x] = IF /\ HasRule(m.channel)
                         /\ WithinPayloadLimit(m, ResolveRule(m.channel))
                      THEN "limit" ELSE "reject"
          /\ UNCHANGED <<cursor, log, historyVars>>
      BY <1>1, <2>1 DEF Deliver, Goto, TypeInv, TypeOK
    <3>2. ingestedAt'[x] = Never
      BY <3>1 DEF ProgressInv, BeforeIngest, BeforeAdmission, historyVars
    <3>3. log'[x] = <<>> /\ sent'[x] = {} /\ cursor'[x] = 0
      BY <1>0, <3>1 DEF Served, BeforeMark, BeforeIngest, BeforeAdmission,
         historyVars
    <3>4. Told(x)'
      BY <3>3 DEF Told, ForwardedEvents
    <3>. QED BY <3>1, <3>2, <3>3, <3>4 DEF Allowed, Served, Ended, InProgress
  <2>2. CASE x # c
    <3>1. Kept(x) /\ UNCHANGED epoch
      BY <1>1, <2>2 DEF Kept, Deliver, Goto, historyVars, TypeInv, TypeOK
    <3>. QED BY <1>0, <3>1, OutcomeKept
  <2>. QED BY <2>1, <2>2
<1>2. ASSUME NEW c \in Call, Step(c) \/ Failure(c), ~AuditErrorFails(c)
      PROVE  Allowed(x)' /\ Served(x)' /\ Ended(x)' /\ Told(x)'
  <2>1. CASE x = c
    BY <1>0, <1>2, <2>1, AllowedStep, ServedStep, EndedStep, ToldStep
  <2>2. CASE x # c
    <3>1. Kept(x) /\ UNCHANGED epoch
      BY <1>2, <2>2, OthersKept, CallStep DEF TypeInv
    <3>. QED BY <1>0, <3>1, OutcomeKept
  <2>. QED BY <2>1, <2>2
<1>3. ASSUME NEW n \in Node, Crash(n)
      PROVE  Allowed(x)' /\ Served(x)' /\ Ended(x)' /\ Told(x)'
  BY <1>0, <1>3, DeathOutcome DEF Crash
<1>4. ASSUME NEW c \in Call, AuditErrorFails(c)
      PROVE  Allowed(x)' /\ Served(x)' /\ Ended(x)' /\ Told(x)'
  <2>1. pc[c] = "reject" /\ host[c] \in Node /\ Die(host[c])
    BY <1>4, CallTypes DEF AuditErrorFails, TypeInv
  <2>2. \/ log'[x] = log[x]
        \/ x = c /\ log'[x] = Append(log[x], Event("error", msg[x].channel))
    BY <1>4 DEF AuditErrorFails, MayWrite, Write, TypeInv, TypeOK
  <2>3. pc'[c] = "lost"
    BY <2>1 DEF Die, InProgress
  <2>. QED BY <1>0, <2>1, <2>2, <2>3, DeathOutcome
<1>5. CASE Tick \/ UNCHANGED vars
  <2>1. Kept(x) /\ UNCHANGED epoch
    BY <1>5 DEF Kept, Tick, vars, callVars, historyVars
  <2>. QED BY <1>0, <2>1, OutcomeKept
<1>. QED BY <1>1, <1>2, <1>3, <1>4, <1>5 DEF Next, Quiescent

LEMMA OutcomeInit == Init => OutcomeInv
BY DEF Init, OutcomeInv, Allowed, Served, Ended, Told, ForwardedEvents,
   InProgress

\* In every reachable state, what has been decided about a message is so,
\* and the log of a call tells what it has sent.
THEOREM OutcomeInvariant == Spec => []OutcomeInv
<1>1. IInv /\ OutcomeInv /\ [Next]_vars => OutcomeInv'
  BY OutcomeStep DEF IInv, TypeInv
<1>. QED BY <1>1, OutcomeInit, InvariantCorrect, PTL DEF Spec

\* Whatever the interleaving, the failures and the deaths, the gateway is
\* only given messages that the policy lets through, after the replay guard.
THEOREM IngestedWasAllowedCorrect == Spec => []IngestedWasAllowed
<1>1. ASSUME IInv, OutcomeInv, NEW c \in Call, ingestedAt[c] # Never
      PROVE  /\ HasRule(msg[c].channel)
             /\ LET rule == ResolveRule(msg[c].channel)
                IN /\ msg[c].bytes <= rule.maxPayloadBytes
                   /\ rule.requireAuthentication =>
                        msg[c].verdict = "authenticated"
                   /\ rule.allowedSenders # {} =>
                        \E s \in rule.allowedSenders :
                          LowerCase[s] = LowerCase[msg[c].senderId]
                   /\ msg[c].kind = "command" =>
                        msg[c].commandName \in rule.allowedCommands
             /\ admittedAt[c] # Never /\ admittedAt[c] <= ingestedAt[c]
  <2>1. /\ Allowed(c) /\ admittedAt[c] # Never
    BY <1>1 DEF OutcomeInv, IInv, ProgressInv
  <2>. QED BY <1>1, <2>1 DEF Allowed, Acceptable, WithinPayloadLimit,
           AuthenticationMet, SenderAllowed, CommandAllowed
<1>2. IInv /\ OutcomeInv => IngestedWasAllowed
  BY <1>1 DEF IngestedWasAllowed
<1>. QED BY <1>2, InvariantCorrect, OutcomeInvariant, PTL

\* A call ends with its whole fan-out sent and recorded, with an error as its
\* last word in the log, or by the death of its process.
THEOREM OutcomeAuditedCorrect == Spec => []OutcomeAudited
<1>1. ASSUME IInv, OutcomeInv, NEW c \in Call, pc[c] = "done"
      PROVE  /\ sent[c] = Eligible(msg[c])
             /\ log[c][1] = Event("accepted", msg[c].channel)
             /\ Len(log[c]) = 1 + Cardinality(Eligible(msg[c]))
  <2>1. /\ msg[c] \in Message /\ cursor[c] \in Nat
        /\ ingestedAt[c] # Never
    BY <1>1 DEF IInv, TypeOK, ProgressInv, AfterIngest, AfterMark
  <2>2. Allowed(c) /\ Served(c)
    BY <1>1 DEF OutcomeInv
  <2>3. \A i \in Eligible(msg[c]) : i \in Nat
    BY <2>1, <2>2, EligibleFinite DEF Allowed
  <2>4. /\ sent[c] = {i \in Eligible(msg[c]) : i <= cursor[c]}
        /\ Upcoming(c) = {}
    BY <1>1, <2>2 DEF Served
  <2>5. sent[c] = Eligible(msg[c])
    BY <2>1, <2>3, <2>4 DEF Upcoming
  <2>6. IsFiniteSet(Eligible(msg[c]))
    BY <2>1, <2>2, EligibleFinite DEF Allowed
  <2>7. Cardinality(sent[c]) \in Nat
    BY <2>5, <2>6, FS_CardinalityType
  <2>. QED BY <1>1, <2>2, <2>5, <2>7 DEF Served
<1>2. IInv /\ OutcomeInv => OutcomeAudited
  BY <1>1 DEF OutcomeAudited, OutcomeInv, Ended
<1>. QED BY <1>2, InvariantCorrect, OutcomeInvariant, PTL

\* The fan-out of a call is an initial part of the enabled targets, in order,
\* and the audit log tells which, but for the last target of a call that is
\* about to record it, has failed or was lost.
THEOREM FanoutAsAuditedCorrect == Spec => []FanoutAsAudited
<1>1. OutcomeInv => FanoutAsAudited
  BY DEF OutcomeInv, Told, FanoutAsAudited
<1>. QED BY <1>1, OutcomeInvariant, PTL

===============================================================================
