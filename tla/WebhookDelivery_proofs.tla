----------------------- MODULE WebhookDelivery_proofs -----------------------
(***************************************************************************)
(* Theorems about WebhookDelivery, for any posts, any number of calls, any *)
(* places with any ingress and adapters, and any TTLs.                     *)
(***************************************************************************)
EXTENDS WebhookDelivery, TLAPS

Time == Nat \cup {Never}

DeliveryType ==
  /\ clock \in 0 .. MaxTime
  /\ stage \in [Call -> {"idle", "open", "taken", "over"}]
  /\ admitted \in [Call -> Time] /\ committed \in [Call -> Time]
  /\ remembered \in [Call -> BOOLEAN]
  /\ DOMAIN message = Call /\ DOMAIN place = Call
  /\ DOMAIN origin = Call /\ DOMAIN arrival = Call
  /\ DOMAIN where = Call /\ DOMAIN answer = Call
  /\ feed \in Feeds /\ taken \subseteq Call

\* A call runs on the message that its adapter made of a post.
OriginInv ==
  \A c \in Call :
    /\ Unused(c) => stage[c] = "idle" /\ answer[c] = "none"
    /\ stage[c] # "idle" =>
         /\ origin[c] \in Posts
         /\ HasMessage(origin[c])
         /\ origin[c].channel = "status" => WakuPasses(origin[c])
         /\ origin[c].channel = "signal" => origin[c].from # Absent
         /\ arrival[c] \in 0 .. MaxTime
         /\ message[c] = MessageOf(origin[c], arrival[c])

\* How far a call has come, and what its stamps say.
ProgressInv ==
  \A c \in Call :
    /\ stage[c] = "idle" => admitted[c] = Never
    /\ admitted[c] = Never => ~remembered[c] /\ c \notin taken
    /\ admitted[c] <= clock
    /\ stage[c] = "taken" => c \in taken
    /\ c \in taken => stage[c] \in {"taken", "over"} /\ PolicyMet(message[c])
    /\ committed[c] # Never => c \in taken

SameKey(c, d) == place[c] = place[d] /\ ReplayKey(message[c]) = ReplayKey(message[d])

SameId(c, d) == place[c] = place[d] /\ message[c].id = message[d].id

SpacedInv ==
  \A c, d \in Call :
    c # d /\ remembered[c] /\ remembered[d] /\ SameKey(c, d) =>
      admitted[d] >= admitted[c] + Ttl \/ admitted[c] >= admitted[d] + Ttl

\* Why the engine could take d although it, or another call, took c.
TakeExplained(c, d) ==
  \/ committed[c] = Never
  \/ committed[c] >= admitted[d]
  \/ place[c] \in Expiring /\ clock >= committed[c] + CommitTtl

TakenInv ==
  \A c \in Call, d \in taken :
    c # d /\ remembered[c] /\ remembered[d] /\ SameId(c, d) => TakeExplained(c, d)

DeliveryInv ==
  DeliveryType /\ OriginInv /\ ProgressInv /\ SpacedInv /\ TakenInv /\ AnswerKept

-----------------------------------------------------------------------------
LEMMA DeliveryInit == Init => DeliveryInv
BY DeliveryAssumption DEF Init, Engine!Init, Engine!Unset, DeliveryInv, DeliveryType, OriginInv, ProgressInv,
       SpacedInv, TakenInv, AnswerKept, Time, Never, Unused, SameKey, SameId

\* Emits and Answer speak of the same cases.
LEMMA AnswerFits ==
  ASSUME NEW ingress, NEW w, NEW adapters
  PROVE  /\ Emits(ingress, w, adapters) => Answer(ingress, w, adapters) # "error"
         /\ Answer(ingress, w, adapters) = "ok" /\ HasMessage(w) =>
              \/ Emits(ingress, w, adapters)
              \/ w.channel = "signal" /\ w.from = Absent
              \/ w.channel \notin adapters
BY DEF Emits, Answer, HasMessage, WakuPasses, RouteFails, Subscribes

LEMMA PostStep ==
  ASSUME DeliveryInv, NEW c \in Call, NEW w \in feed, Post(c, w)
  PROVE  DeliveryInv'
<1>. USE DEF DeliveryInv
<1>1. PICK p \in Place, ingress \in Ingress :
        /\ Arrives(c, w, p, ingress)
        /\ Emits(ingress, w, Adapters[p])
        /\ Engine!Receive(c)
        /\ place'[c] = p
        /\ message'[c] = MessageOf(w, clock)
  BY DEF Post
<1>2. /\ Unused(c)
      /\ origin' = [origin EXCEPT ![c] = w]
      /\ arrival' = [arrival EXCEPT ![c] = clock]
      /\ where' = [where EXCEPT ![c] = p]
      /\ answer' = [answer EXCEPT ![c] = Answer(ingress, w, Adapters[p])]
      /\ UNCHANGED <<feed, taken>>
  BY <1>1 DEF Arrives
<1>3. /\ stage[c] = "idle"
      /\ \E m : message' = [message EXCEPT ![c] = m]
      /\ \E q \in Place : place' = [place EXCEPT ![c] = q]
      /\ stage' = [stage EXCEPT ![c] = "open"]
      /\ UNCHANGED <<clock, admitted, committed, remembered>>
  BY <1>1 DEF Engine!Receive
<1>4. /\ w \in Posts /\ HasMessage(w) /\ w # None
      /\ w.channel = "status" => WakuPasses(w)
      /\ w.channel = "signal" => w.from # Absent
  BY <1>1, DeliveryAssumption DEF DeliveryType, Posts, Emits
<1>5. /\ admitted[c] = Never /\ ~remembered[c] /\ c \notin taken /\ committed[c] = Never
      /\ \A d \in Call : d # c =>
           /\ message'[d] = message[d] /\ place'[d] = place[d] /\ stage'[d] = stage[d]
           /\ origin'[d] = origin[d] /\ arrival'[d] = arrival[d]
           /\ where'[d] = where[d] /\ answer'[d] = answer[d]
  BY <1>2, <1>3 DEF DeliveryType, ProgressInv
<1>6. DeliveryType'
  BY <1>2, <1>3 DEF DeliveryType
<1>7. OriginInv'
  <2>. SUFFICES ASSUME NEW d \in Call
                PROVE  /\ (Unused(d) => stage[d] = "idle" /\ answer[d] = "none")'
                       /\ (stage[d] # "idle" =>
                            /\ origin[d] \in Posts
                            /\ HasMessage(origin[d])
                            /\ origin[d].channel = "status" => WakuPasses(origin[d])
                            /\ origin[d].channel = "signal" => origin[d].from # Absent
                            /\ arrival[d] \in 0 .. MaxTime
                            /\ message[d] = MessageOf(origin[d], arrival[d]))'
    BY DEF OriginInv
  <2>1. CASE d = c
    BY <1>1, <1>2, <1>4, <2>1 DEF DeliveryType, Unused
  <2>2. CASE d # c
    BY <1>5, <2>2 DEF OriginInv, Unused
  <2>. QED BY <2>1, <2>2
<1>8. ProgressInv'
  BY <1>2, <1>3, <1>5 DEF DeliveryType, ProgressInv, Time, Never
<1>9. SpacedInv' /\ TakenInv'
  BY <1>2, <1>3, <1>5 DEF SpacedInv, TakenInv, SameKey, SameId, TakeExplained, DeliveryType
<1>10. AnswerKept'
  <2>. SUFFICES ASSUME NEW d \in Call
                PROVE  (/\ answer[d] = "error" => ~(stage[d] # "idle")
                        /\ answer[d] = "ok" /\ HasMessage(origin[d]) =>
                             \/ stage[d] # "idle"
                             \/ origin[d].channel = "signal" /\ origin[d].from = Absent
                             \/ origin[d].channel \notin Adapters[where[d]])'
    BY DEF AnswerKept
  <2>1. CASE d = c
    BY <1>1, <1>2, <1>3, <2>1, AnswerFits DEF DeliveryType
  <2>2. CASE d # c
    BY <1>5, <2>2 DEF AnswerKept
  <2>. QED BY <2>1, <2>2
<1>. QED BY <1>6, <1>7, <1>8, <1>9, <1>10

\* Calls come to an end, together or with what their place remembers.
Ends(S) ==
  /\ S \subseteq {c \in Call : stage[c] \in {"open", "taken"}}
  /\ stage' = [c \in Call |-> IF c \in S THEN "over" ELSE stage[c]]
  /\ remembered' \in [Call -> BOOLEAN]
  /\ \A c \in Call : remembered'[c] => remembered[c]
  /\ UNCHANGED <<clock, message, place, admitted, committed>>

LEMMA EnginesEnd ==
  ASSUME DeliveryInv,
         Engine!Close \/ (\E p \in Place : Engine!Forget(p)) \/ UNCHANGED engineVars
  PROVE  \E S \in SUBSET Call : Ends(S)
<1>. USE DEF DeliveryInv, DeliveryType
<1>1. CASE Engine!Close
  <2>1. PICK S \in SUBSET Engine!Open : Engine!Over(S)
    BY <1>1 DEF Engine!Close
  <2>. QED BY <1>1, <2>1 DEF Engine!Close, Engine!Open, Engine!Over, Ends
<1>2. ASSUME NEW p \in Place, Engine!Forget(p) PROVE \E S \in SUBSET Call : Ends(S)
  <2>. DEFINE S == {c \in Engine!Open : place[c] = p}
  <2>1. Ends(S) /\ S \in SUBSET Call
    BY <1>2 DEF Engine!Forget, Engine!Open, Engine!Over, Ends
  <2>. QED BY <2>1
<1>3. CASE UNCHANGED engineVars
  <2>1. Ends({})
    BY <1>3 DEF Ends, engineVars
  <2>. QED BY <2>1
<1>. QED BY <1>1, <1>2, <1>3

\* A post that starts no call.
ArrivesIdly(c, w, p, told) ==
  /\ Unused(c)
  /\ w # None
  /\ told = "ok" /\ HasMessage(w) =>
       \/ w.channel = "signal" /\ w.from = Absent
       \/ w.channel \notin Adapters[p]
  /\ origin' = [origin EXCEPT ![c] = w]
  /\ arrival' = [arrival EXCEPT ![c] = clock]
  /\ where' = [where EXCEPT ![c] = p]
  /\ answer' = [answer EXCEPT ![c] = told]
  /\ UNCHANGED <<feed, taken>>

LEMMA IdlePosts ==
  ASSUME DeliveryInv, NEW c \in Call, NEW w \in feed, PostIdly(c, w) \/ Poisoned(c, w)
  PROVE  /\ \E p \in Place : \E told : ArrivesIdly(c, w, p, told)
         /\ Engine!Close \/ (\E p \in Place : Engine!Forget(p)) \/ UNCHANGED engineVars
<1>1. w # None
  BY DeliveryAssumption DEF DeliveryInv, DeliveryType, Posts
<1>2. PICK p \in Place, ingress \in Ingress :
        /\ Arrives(c, w, p, ingress)
        /\ ~Emits(ingress, w, Adapters[p]) \/ w.channel = "status"
        /\ Engine!Close \/ (\E q \in Place : Engine!Forget(q)) \/ UNCHANGED engineVars
  BY DEF PostIdly, Poisoned
<1>3. w.channel = "status" => Answer(ingress, w, Adapters[p]) # "ok"
  BY DEF Answer, RouteFails, Subscribes
<1>4. ArrivesIdly(c, w, p, Answer(ingress, w, Adapters[p]))
  BY <1>1, <1>2, <1>3, AnswerFits DEF Arrives, ArrivesIdly
<1>. QED BY <1>2, <1>4

LEMMA EndStep ==
  ASSUME DeliveryInv, NEW S \in SUBSET Call, Ends(S),
         \/ UNCHANGED postVars
         \/ \E c \in Call, w \in feed, p \in Place : \E told : ArrivesIdly(c, w, p, told)
  PROVE  DeliveryInv'
<1>. USE DEF DeliveryInv
<1>1. /\ UNCHANGED <<feed, taken>>
      /\ DOMAIN origin' = Call /\ DOMAIN arrival' = Call
      /\ DOMAIN where' = Call /\ DOMAIN answer' = Call
      /\ \A d \in Call :
           \/ /\ origin'[d] = origin[d] /\ arrival'[d] = arrival[d]
              /\ where'[d] = where[d] /\ answer'[d] = answer[d]
           \/ /\ Unused(d) /\ ~(Unused(d))'
              /\ answer'[d] = "ok" /\ HasMessage(origin'[d]) =>
                   \/ origin'[d].channel = "signal" /\ origin'[d].from = Absent
                   \/ origin'[d].channel \notin Adapters[where'[d]]
  <2>1. CASE UNCHANGED postVars
    BY <2>1 DEF postVars, DeliveryType
  <2>2. ASSUME NEW c \in Call, NEW w \in feed, NEW p \in Place, NEW told,
               ArrivesIdly(c, w, p, told)
        PROVE  /\ UNCHANGED <<feed, taken>>
               /\ DOMAIN origin' = Call /\ DOMAIN arrival' = Call
               /\ DOMAIN where' = Call /\ DOMAIN answer' = Call
               /\ \A d \in Call :
                    \/ /\ origin'[d] = origin[d] /\ arrival'[d] = arrival[d]
                       /\ where'[d] = where[d] /\ answer'[d] = answer[d]
                    \/ /\ Unused(d) /\ ~(Unused(d))'
                       /\ answer'[d] = "ok" /\ HasMessage(origin'[d]) =>
                            \/ origin'[d].channel = "signal" /\ origin'[d].from = Absent
                            \/ origin'[d].channel \notin Adapters[where'[d]]
    BY <2>2 DEF ArrivesIdly, DeliveryType, Unused
  <2>. QED BY <2>1, <2>2
<1>2. /\ \A d \in Call : stage'[d] = stage[d]
                         \/ (stage[d] \in {"open", "taken"} /\ stage'[d] = "over")
      /\ stage' \in [Call -> {"idle", "open", "taken", "over"}]
      /\ remembered' \in [Call -> BOOLEAN]
      /\ \A d \in Call : remembered'[d] => remembered[d]
      /\ UNCHANGED <<clock, message, place, admitted, committed>>
  BY DEF Ends, DeliveryType
<1>3. DeliveryType'
  BY <1>1, <1>2 DEF DeliveryType
<1>4. OriginInv'
  <2>. SUFFICES ASSUME NEW d \in Call
                PROVE  /\ (Unused(d) => stage[d] = "idle" /\ answer[d] = "none")'
                       /\ (stage[d] # "idle" =>
                            /\ origin[d] \in Posts
                            /\ HasMessage(origin[d])
                            /\ origin[d].channel = "status" => WakuPasses(origin[d])
                            /\ origin[d].channel = "signal" => origin[d].from # Absent
                            /\ arrival[d] \in 0 .. MaxTime
                            /\ message[d] = MessageOf(origin[d], arrival[d]))'
    BY DEF OriginInv
  <2>1. CASE Unused(d) /\ ~(Unused(d))'
    BY <1>2, <2>1 DEF OriginInv
  <2>2. CASE /\ origin'[d] = origin[d] /\ arrival'[d] = arrival[d]
             /\ where'[d] = where[d] /\ answer'[d] = answer[d]
    BY <1>2, <2>2 DEF OriginInv, Unused
  <2>. QED BY <1>1, <2>1, <2>2
<1>5. ProgressInv'
  BY <1>1, <1>2 DEF ProgressInv
<1>6. SpacedInv' /\ TakenInv'
  <2>1. \A c, d \in Call : /\ SameKey(c, d)' <=> SameKey(c, d)
                           /\ SameId(c, d)' <=> SameId(c, d)
                           /\ TakeExplained(c, d)' <=> TakeExplained(c, d)
    BY <1>2 DEF SameKey, SameId, TakeExplained
  <2>2. SpacedInv'
    BY <1>2, <2>1 DEF SpacedInv
  <2>3. taken' = taken /\ taken \subseteq Call
    BY <1>1 DEF DeliveryType
  <2>4. TakenInv'
    BY <1>2, <2>1, <2>3 DEF TakenInv
  <2>. QED BY <2>2, <2>4
<1>7. AnswerKept'
  <2>. SUFFICES ASSUME NEW d \in Call
                PROVE  (/\ answer[d] = "error" => ~(stage[d] # "idle")
                        /\ answer[d] = "ok" /\ HasMessage(origin[d]) =>
                             \/ stage[d] # "idle"
                             \/ origin[d].channel = "signal" /\ origin[d].from = Absent
                             \/ origin[d].channel \notin Adapters[where[d]])'
    BY DEF AnswerKept
  <2>1. CASE Unused(d) /\ ~(Unused(d))'
    <3>1. stage'[d] = "idle"
      BY <1>2, <2>1 DEF OriginInv
    <3>2. /\ answer'[d] = "ok" /\ HasMessage(origin'[d]) =>
               \/ origin'[d].channel = "signal" /\ origin'[d].from = Absent
               \/ origin'[d].channel \notin Adapters[where'[d]]
      BY <1>1, <2>1 DEF Unused
    <3>. QED BY <3>1, <3>2
  <2>2. CASE /\ origin'[d] = origin[d] /\ arrival'[d] = arrival[d]
             /\ where'[d] = where[d] /\ answer'[d] = answer[d]
    BY <1>2, <2>2 DEF AnswerKept
  <2>. QED BY <1>1, <2>1, <2>2
<1>. QED BY <1>3, <1>4, <1>5, <1>6, <1>7

\* A call goes on, and nothing else moves.
LEMMA AdmitStep ==
  ASSUME DeliveryInv, NEW c \in Call, Admit(c) PROVE DeliveryInv'
<1>. USE DEF DeliveryInv
<1>1. /\ stage[c] = "open" /\ admitted[c] = Never
      /\ \A d \in Engine!Known(c) :
           ReplayKey(message[d]) = ReplayKey(message[c]) => clock >= admitted[d] + Ttl
      /\ admitted' = [admitted EXCEPT ![c] = clock]
      /\ remembered' = [remembered EXCEPT ![c] = TRUE]
      /\ UNCHANGED <<clock, stage, message, place, committed, postVars>>
  BY DEF Admit, Engine!Admit, Engine!Unset, Never
<1>2. /\ UNCHANGED <<feed, origin, arrival, where, answer, taken>>
      /\ admitted'[c] = clock
      /\ \A d \in Call : d # c => admitted'[d] = admitted[d] /\ remembered'[d] = remembered[d]
  BY <1>1 DEF postVars, DeliveryType
<1>3. DeliveryType'
  BY <1>1, <1>2 DEF DeliveryType, Time
<1>4. OriginInv' /\ AnswerKept'
  BY <1>1, <1>2 DEF OriginInv, AnswerKept, Unused
<1>5. ProgressInv'
  BY <1>1, <1>2 DEF ProgressInv, DeliveryType, Never, Time
<1>6. SpacedInv'
  <2>1. \A d \in Call : d # c /\ remembered[d] /\ SameKey(d, c) => clock >= admitted[d] + Ttl
    BY <1>1 DEF Engine!Known, SameKey
  <2>2. \A d, e \in Call : SameKey(d, e)' <=> SameKey(d, e)
    BY <1>1 DEF SameKey
  <2>3. \A d \in Call : SameKey(c, d) => SameKey(d, c)
    BY DEF SameKey
  <2>. QED BY <1>2, <2>1, <2>2, <2>3 DEF SpacedInv
<1>7. TakenInv'
  <2>. SUFFICES ASSUME NEW e \in Call, NEW d \in taken, e # d, remembered'[e],
                       remembered'[d], SameId(e, d)
                PROVE  TakeExplained(e, d)'
    BY <1>1, <1>2 DEF TakenInv, SameId
  <2>1. d # c
    BY <1>1 DEF ProgressInv, DeliveryType
  <2>2. CASE e = c
    BY <1>1, <2>2 DEF ProgressInv, TakeExplained
  <2>3. CASE e # c
    BY <1>1, <1>2, <2>1, <2>3 DEF TakenInv, TakeExplained, DeliveryType
  <2>. QED BY <2>2, <2>3
<1>. QED BY <1>3, <1>4, <1>5, <1>6, <1>7

LEMMA TakeStep ==
  ASSUME DeliveryInv, NEW c \in Call, Take(c) PROVE DeliveryInv'
<1>. USE DEF DeliveryInv
<1>1. /\ stage[c] = "open" /\ admitted[c] # Never
      /\ \A d \in Engine!Known(c) :
           message[d].id = message[c].id =>
             \/ committed[d] = Never
             \/ committed[d] >= admitted[c]
             \/ place[d] \in Expiring /\ clock >= committed[d] + CommitTtl
      /\ stage' = [stage EXCEPT ![c] = "taken"]
      /\ PolicyMet(message[c])
      /\ taken' = taken \cup {c}
      /\ UNCHANGED <<clock, message, place, admitted, committed, remembered,
                     feed, origin, arrival, where, answer>>
  BY DEF Take, Engine!Take, Engine!Expired, Engine!Unset, Never, IdOf
<1>2. DeliveryType' /\ stage'[c] = "taken"
      /\ \A d \in Call : d # c => stage'[d] = stage[d]
  BY <1>1 DEF DeliveryType
<1>3. OriginInv' /\ AnswerKept'
  BY <1>1, <1>2 DEF OriginInv, AnswerKept, Unused
<1>4. ProgressInv'
  BY <1>1, <1>2 DEF ProgressInv
<1>5. SpacedInv'
  BY <1>1 DEF SpacedInv, SameKey
<1>6. TakenInv'
  <2>. SUFFICES ASSUME NEW e \in Call, NEW d \in taken \cup {c}, e # d, remembered[e],
                       remembered[d], SameId(e, d)
                PROVE  TakeExplained(e, d)
    BY <1>1 DEF TakenInv, SameId, TakeExplained
  <2>1. CASE d = c
    BY <1>1, <2>1 DEF Engine!Known, SameId, TakeExplained
  <2>2. CASE d # c
    BY <2>2 DEF TakenInv
  <2>. QED BY <2>1, <2>2
<1>. QED BY <1>2, <1>3, <1>4, <1>5, <1>6

LEMMA CommitStep ==
  ASSUME DeliveryInv, NEW c \in Call, Commit(c) PROVE DeliveryInv'
<1>. USE DEF DeliveryInv
<1>1. /\ stage[c] = "taken" /\ committed[c] = Never
      /\ committed' = [committed EXCEPT ![c] = clock]
      /\ UNCHANGED <<clock, stage, message, place, admitted, remembered,
                     feed, origin, arrival, where, answer, taken>>
  BY DEF Commit, Engine!Commit, Engine!Unset, Never, postVars
<1>2. DeliveryType' /\ committed'[c] = clock
      /\ \A d \in Call : d # c => committed'[d] = committed[d]
  BY <1>1 DEF DeliveryType, Time
<1>3. OriginInv' /\ AnswerKept'
  BY <1>1 DEF OriginInv, AnswerKept, Unused
<1>4. ProgressInv'
  BY <1>1, <1>2 DEF ProgressInv
<1>5. SpacedInv'
  BY <1>1 DEF SpacedInv, SameKey
<1>6. TakenInv'
  <2>. SUFFICES ASSUME NEW e \in Call, NEW d \in taken, e # d, remembered[e],
                       remembered[d], SameId(e, d)
                PROVE  TakeExplained(e, d)'
    BY <1>1 DEF TakenInv, SameId
  <2>1. CASE e = c
    BY <1>1, <1>2, <2>1 DEF TakeExplained, ProgressInv, DeliveryType
  <2>2. CASE e # c
    BY <1>1, <1>2, <2>2 DEF TakenInv, TakeExplained
  <2>. QED BY <2>1, <2>2
<1>. QED BY <1>2, <1>3, <1>4, <1>5, <1>6

LEMMA AdvanceStep == DeliveryInv /\ Advance => DeliveryInv'
<1>. SUFFICES ASSUME DeliveryInv, Advance PROVE DeliveryInv'
  OBVIOUS
<1>. USE DEF DeliveryInv
<1>1. /\ clock' = clock + 1
      /\ UNCHANGED <<stage, message, place, admitted, committed, remembered,
                     feed, origin, arrival, where, answer, taken>>
  BY DEF Advance, Engine!Advance, postVars
<1>2. DeliveryType'
  BY <1>1, DeliveryAssumption DEF Advance, DeliveryType
<1>3. OriginInv' /\ AnswerKept'
  BY <1>1 DEF OriginInv, AnswerKept, Unused
<1>4. ProgressInv'
  BY <1>1 DEF ProgressInv, DeliveryType, Time, Never
<1>5. SpacedInv'
  BY <1>1 DEF SpacedInv, SameKey
<1>6. TakenInv'
  BY <1>1, DeliveryAssumption DEF TakenInv, SameId, TakeExplained, DeliveryType, Time, Never
<1>. QED BY <1>2, <1>3, <1>4, <1>5, <1>6

LEMMA DeliveryStep == DeliveryInv /\ [Next]_vars => DeliveryInv'
<1>. SUFFICES ASSUME DeliveryInv, [Next]_vars PROVE DeliveryInv'
  OBVIOUS
<1>1. ASSUME NEW c \in Call, NEW w \in feed, Post(c, w) PROVE DeliveryInv'
  BY <1>1, PostStep
<1>2. ASSUME NEW c \in Call, NEW w \in feed, PostIdly(c, w) \/ Poisoned(c, w)
      PROVE  DeliveryInv'
  BY <1>2, IdlePosts, EnginesEnd, EndStep
<1>3. ASSUME NEW c \in Call, Admit(c) \/ Take(c) \/ Commit(c) PROVE DeliveryInv'
  BY <1>3, AdmitStep, TakeStep, CommitStep
<1>4. CASE Close \/ (\E p \in Place \ Expiring : Forget(p)) \/ Quiescent \/ UNCHANGED vars
  <2>1. /\ Engine!Close \/ (\E p \in Place : Engine!Forget(p)) \/ UNCHANGED engineVars
        /\ UNCHANGED postVars
    BY <1>4 DEF Close, Forget, Quiescent, vars
  <2>. QED BY <2>1, EnginesEnd, EndStep
<1>. QED BY <1>1, <1>2, <1>3, <1>4, AdvanceStep DEF Next

\* The parts of the invariant hold of every behaviour.
THEOREM DeliveryInvariant == Spec => []DeliveryInv
BY DeliveryInit, DeliveryStep, PTL DEF Spec

\* A provider is told the truth: an error only for what started nothing, and
\* that all is well when a call has started (server.ts and the adapters'
\* handleWebhook).
THEOREM AnswerKeptCorrect == Spec => []AnswerKept
BY DeliveryInvariant, PTL DEF DeliveryInv

-----------------------------------------------------------------------------
\* What verify() makes of a message says what it has found in the post.
LEMMA VerdictFits ==
  ASSUME NEW w, NEW t, w.from \in Name \cup {Absent}, w.place \in Name \cup {Absent},
         w.channel \in Channel, PolicyMet(MessageOf(w, t))
  PROVE  /\ Kind(w) # "command"
         /\ VouchedFor(w) \/ (w.channel = "email" /\ ~RequireDkimPass)
         /\ Allowed[w.channel] # {} =>
              IF w.channel \in {"telegram", "slack"}
              THEN w.place \in Allowed[w.channel]
              ELSE /\ w.from # Absent
                   /\ \E n \in Allowed[w.channel] : LowerCase[n] = LowerCase[w.from]
<1>. DEFINE m == MessageOf(w, t)
<1>1. Authenticated(m) /\ m.kind # "command"
  BY DEF PolicyMet
<1>2. /\ m.channel = w.channel /\ m.kind = Kind(w) /\ m.genuine = w.genuine
      /\ w.channel = "telegram" => m.conversationId = w.place
      /\ w.channel = "slack" => m.conversationId = Or(w.place, Unknown)
      /\ w.channel \in {"whatsapp", "signal", "email", "status"} => m.senderId = w.from
  BY DEF MessageOf, Telegram, Slack, Discord, WhatsApp, Signal, Email, Status, Raw, Channel
<1>. HIDE DEF m
<1>3. Kind(w) # "command" /\ w.channel # "discord"
  BY <1>1, <1>2 DEF Kind
<1>4. VouchedFor(w) \/ (w.channel = "email" /\ ~RequireDkimPass)
  BY <1>1, <1>2, <1>3 DEF Authenticated, VerifyTelegram, VerifySlack, VerifyWhatsApp,
     VerifyEmail, VerifyStatus, Channel, VouchedFor
<1>5. CASE w.channel = "telegram"
  BY <1>1, <1>2, <1>3, <1>4, <1>5 DEF Authenticated, VerifyTelegram, Listed
<1>6. CASE w.channel = "slack"
  <2>1. Allowed[w.channel] # {} => Or(w.place, Unknown) \in Allowed["slack"]
    BY <1>1, <1>2, <1>6 DEF Authenticated, VerifySlack, Listed
  <2>2. Unknown \notin Allowed["slack"]
    BY AdaptersAssumption DEF Channel
  <2>3. Allowed[w.channel] # {} => w.place \in Allowed["slack"]
    BY <2>1, <2>2 DEF Or
  <2>. QED BY <1>3, <1>4, <1>6, <2>3
<1>7. CASE w.channel \in {"whatsapp", "signal", "email", "status"}
  <2>1. ListedAnyCase(w.channel, w.from)
    BY <1>1, <1>2, <1>7 DEF Authenticated, VerifyWhatsApp, VerifySignal, VerifyEmail,
       VerifyStatus
  <2>. QED BY <1>3, <1>4, <1>7, <2>1, AdaptersAssumption DEF ListedAnyCase
<1>. QED BY <1>3, <1>5, <1>6, <1>7 DEF Channel

\* What a call that was taken knows of its post.
LEMMA TakenPost ==
  ASSUME DeliveryInv, NEW c \in taken
  PROVE  /\ c \in Call /\ stage[c] # "idle" /\ origin[c] \in Webhook
         /\ PolicyMet(MessageOf(origin[c], arrival[c]))
<1>1. c \in Call /\ stage[c] # "idle" /\ PolicyMet(message[c])
  BY DEF DeliveryInv, DeliveryType, ProgressInv
<1>2. origin[c] \in Posts /\ message[c] = MessageOf(origin[c], arrival[c])
  BY <1>1 DEF DeliveryInv, OriginInv
<1>. QED BY <1>1, <1>2, DeliveryAssumption

\* What the gateway takes was vouched for by its provider, comes from where
\* the adapter's list allows and is no command (verify() of the adapters,
\* PolicyEngine under the default policy).
THEOREM TakenIsVouchedForCorrect == Spec => []TakenIsVouchedFor
<1>1. DeliveryInv => TakenIsVouchedFor
  BY TakenPost, VerdictFits DEF TakenIsVouchedFor, Webhook
<1>. QED BY <1>1, DeliveryInvariant, PTL

\* One post gives one message, whenever it comes, but for what the adapter
\* makes up from the clock.
LEMMA SameMessage ==
  ASSUME NEW w, NEW t, NEW u, w.channel \in Channel
  PROVE  /\ ~IdMadeUp(w) => MessageOf(w, t).id = MessageOf(w, u).id
         /\ ~KeyMadeUp(w) => ReplayKey(MessageOf(w, t)) = ReplayKey(MessageOf(w, u))
<1>1. CASE w.channel = "slack"
  BY <1>1 DEF IdMadeUp, KeyMadeUp, MessageOf, Slack, Raw, ReplayKey, Or
<1>2. CASE w.channel = "signal"
  BY <1>2 DEF IdMadeUp, KeyMadeUp, MessageOf, Signal, Raw, ReplayKey, Millis, Or
<1>3. CASE w.channel \in {"telegram", "discord", "whatsapp", "email", "status"}
  <2>1. MessageOf(w, t) = MessageOf(w, u)
    BY <1>3 DEF MessageOf, Telegram, Discord, WhatsApp, Email, Status
  <2>. QED BY <2>1
<1>. QED BY <1>1, <1>2, <1>3 DEF Channel

\* A repeated post is taken twice only behind its TTL, and only for one of
\* three reasons, or when the adapter has made its id up (makeReplayKey and
\* the guards of processInbound).
THEOREM RepeatTakenCorrect == Spec => []RepeatTakenExplained
<1>1. DeliveryInv => RepeatTakenExplained
  <2>. SUFFICES ASSUME DeliveryInv, NEW c \in taken, NEW d \in taken, c # d,
                       origin[c] = origin[d], place[c] = place[d],
                       remembered[c], remembered[d], admitted[c] <= admitted[d]
                PROVE  /\ KeyMadeUp(origin[c]) \/ admitted[d] >= admitted[c] + Ttl
                       /\ IdMadeUp(origin[c]) \/ TakeExplained(c, d)
    BY DEF RepeatTakenExplained, TakeExplained
  <2>1. /\ c \in Call /\ d \in Call /\ stage[c] # "idle" /\ stage[d] # "idle"
        /\ admitted[c] \in Nat /\ admitted[d] \in Nat
    BY DEF DeliveryInv, DeliveryType, ProgressInv, Time
  <2>2. /\ message[c] = MessageOf(origin[c], arrival[c])
        /\ message[d] = MessageOf(origin[c], arrival[d])
        /\ origin[c].channel \in Channel
    BY <2>1, DeliveryAssumption DEF DeliveryInv, OriginInv, Webhook
  <2>3. KeyMadeUp(origin[c]) \/ SameKey(c, d)
    BY <2>2, SameMessage DEF SameKey
  <2>4. IdMadeUp(origin[c]) \/ SameId(c, d)
    BY <2>2, SameMessage DEF SameId
  <2>5. SameKey(c, d) => admitted[d] >= admitted[c] + Ttl
    BY <2>1, DeliveryAssumption DEF DeliveryInv, SpacedInv
  <2>6. SameId(c, d) => TakeExplained(c, d)
    BY <2>1 DEF DeliveryInv, TakenInv
  <2>. QED BY <2>3, <2>4, <2>5, <2>6
<1>. QED BY <1>1, DeliveryInvariant, PTL

-----------------------------------------------------------------------------
\* Which text an adapter takes for the id, where the sender has no choice.
LEMMA IdForm ==
  ASSUME NEW w, NEW t
  PROVE  LET id == MessageOf(w, t).id
         IN /\ w.channel \in {"telegram", "discord", "whatsapp"} =>
                 id = Or(w.id, Undefined)
            /\ w.channel = "slack" => id = Or(w.id, Clock(t))
            /\ w.channel = "signal" => id = <<w.from, Millis(w, t)>>
BY DEF MessageOf, Telegram, Slack, Discord, WhatsApp, Signal, Raw

\* And what the replay key consists of.
KeyOf(w, t, sender, nonce) == ReplayKey(MessageOf(w, t)) = <<w.channel, sender, nonce>>

LEMMA KeyForm ==
  ASSUME NEW w \in Webhook, NEW t \in Nat
  PROVE  /\ w.channel \in {"telegram", "discord", "whatsapp"} =>
              \E sender : KeyOf(w, t, sender, Or(w.id, Undefined))
         /\ w.channel = "slack" =>
              KeyOf(w, t, Or(w.from, Unknown), Or(w.stamp, Or(w.id, Clock(t))))
         /\ w.channel = "signal" => KeyOf(w, t, w.from, Clock(Millis(w, t)))
         /\ w.channel \in {"email", "status"} => \E nonce : KeyOf(w, t, w.from, nonce)
<1>1. CASE w.channel \in {"telegram", "discord", "whatsapp"}
  BY <1>1 DEF KeyOf, ReplayKey, MessageOf, Telegram, Discord, WhatsApp, Raw, Or
<1>2. CASE w.channel = "slack"
  BY <1>2 DEF KeyOf, ReplayKey, MessageOf, Slack, Raw
<1>3. CASE w.channel = "signal"
  <2>1. Millis(w, t) \in Nat
    BY DEF Webhook, Text, Millis, Or, Clock
  <2>2. Clock(Millis(w, t)) # Absent
    <3>1. "" \in STRING
      BY AdaptersAssumption
    <3>2. <<"", Millis(w, t)>> \in STRING \X Nat
      BY <2>1, <3>1
    <3>. QED BY <3>2, AdaptersAssumption DEF Clock, Text
  <2>. QED BY <1>3, <2>2 DEF KeyOf, ReplayKey, MessageOf, Signal, Raw, Or
<1>4. CASE w.channel \in {"email", "status"}
  BY <1>4 DEF KeyOf, ReplayKey, MessageOf, Email, Status, Raw
<1>. QED BY <1>1, <1>2, <1>3, <1>4 DEF Webhook, Channel

LEMMA KeysAgree ==
  ASSUME NEW v, NEW t, NEW r, NEW i, KeyOf(v, t, r, i),
         NEW w, NEW u, NEW q, NEW k, KeyOf(w, u, q, k),
         ReplayKey(MessageOf(v, t)) = ReplayKey(MessageOf(w, u))
  PROVE  v.channel = w.channel /\ r = q /\ i = k
<1>1. <<v.channel, r, i>> = <<w.channel, q, k>>
  BY DEF KeyOf
<1>2. \A a, b, c, d, e, f : <<a, b, c>> = <<d, e, f>> => a = d /\ b = e /\ c = f
  OBVIOUS
<1>. QED BY <1>1, <1>2, Zenon

\* The posts that their providers number.
Numbered(w) == w \in Posts /\ HasMessage(w) /\ w.genuine /\ w.channel \in Numbering

LEMMA NumberedForm ==
  ASSUME NEW w, Numbered(w)
  PROVE  /\ w.channel \in {"telegram", "discord"} =>
              w.id # Absent /\ w.id[1] = "" /\ w.id[2] \notin 0 .. MaxTime
         /\ w.channel = "whatsapp" => w.id # Absent /\ w.id[1] = "wamid"
         /\ w.channel = "slack" => /\ w.id = Absent \/ w.id[1] = "Ev"
                                   /\ w.stamp = Absent \/ w.stamp[1] = "ts"
BY NumberingAssumption DEF Numbered

LEMMA NumberedApart ==
  ASSUME NEW v, NEW w, Numbered(v), Numbered(w), v.serial # w.serial, v.id # Absent,
         \/ v.channel = w.channel
         \/ {v.channel, w.channel} = {"telegram", "discord"}
  PROVE  v.id # w.id
<1>1. /\ v.channel = w.channel => v.id # w.id
      /\ v.channel = "telegram" /\ w.channel = "discord" => v.id # w.id
  BY NumberingAssumption DEF Numbered
<1>2. w.channel = "telegram" /\ v.channel = "discord" => w.id # v.id
  BY NumberingAssumption, NumberedForm DEF Numbered
<1>. QED BY <1>1, <1>2

\* The posts of two running calls that are not one and the same message.
LEMMA AnotherPost ==
  ASSUME DeliveryInv, NEW c \in Call, NEW d \in Call, Another(c, d)
  PROVE  LET v == origin[c]
             w == origin[d]
         IN /\ v \in Posts /\ w \in Posts /\ HasMessage(v) /\ HasMessage(w)
            /\ v \in Webhook /\ w \in Webhook
            /\ message[c] = MessageOf(v, arrival[c])
            /\ message[d] = MessageOf(w, arrival[d])
            /\ arrival[c] \in 0 .. MaxTime /\ arrival[d] \in 0 .. MaxTime
            /\ v.channel = "signal" => v.from \in Name
            /\ w.channel = "signal" => w.from \in Name
            /\ v.serial # w.serial
<1>1. stage[c] # "idle" /\ stage[d] # "idle" /\ origin[c].serial # origin[d].serial
  BY DEF Another, DeliveryInv, ProgressInv
<1>2. /\ origin[c] \in Posts /\ origin[d] \in Posts
      /\ origin[c] \in Webhook /\ origin[d] \in Webhook
  BY <1>1, DeliveryAssumption DEF DeliveryInv, OriginInv
<1>. QED BY <1>1, <1>2 DEF DeliveryInv, OriginInv, Webhook

\* A message whose key is taken is either mistakable for the one that took it,
\* or that was not vouched for, or one sender of Status or e-mail sent both
\* (makeReplayKey, and markIfNew before verify in processInbound).
THEOREM KeyTakenCorrect == Spec => []KeyTakenExplained
<1>1. ASSUME DeliveryInv, NEW c \in Call, NEW d \in Call, Another(c, d),
             VouchedFor(origin[c]), VouchedFor(origin[d]),
             ReplayKey(message[c]) = ReplayKey(message[d])
      PROVE  \/ Mistakable(c, d)
             \/ /\ origin[d].channel \in {"status", "email"}
                /\ origin[c].from = origin[d].from
  <2>. DEFINE v == origin[c]
              w == origin[d]
              t == arrival[c]
              u == arrival[d]
  <2>1. /\ v \in Posts /\ w \in Posts /\ HasMessage(v) /\ HasMessage(w)
        /\ v \in Webhook /\ w \in Webhook /\ v.serial # w.serial
        /\ t \in Nat /\ u \in Nat /\ t \in 0 .. MaxTime /\ u \in 0 .. MaxTime
        /\ ReplayKey(MessageOf(v, t)) = ReplayKey(MessageOf(w, u))
    BY <1>1, AnotherPost
  <2>2. /\ v.channel # "signal" => v.genuine
        /\ w.channel # "signal" => w.genuine
        /\ v.from \in Name \cup {Absent} /\ w.from \in Name \cup {Absent}
        /\ v.channel \in Channel /\ w.channel \in Channel
    BY <1>1, <2>1 DEF VouchedFor, Webhook
  <2>3. SUFFICES \/ /\ v.channel = w.channel
                    /\ \/ /\ v.channel = "signal" /\ v.from = w.from
                          /\ Millis(v, t) = Millis(w, u)
                       \/ /\ v.channel = "slack" /\ v.from = w.from
                          /\ v.stamp = w.stamp /\ v.stamp # Absent
                       \/ /\ v.channel = "slack" /\ v.id = Absent /\ w.id = Absent
                          /\ t = u
                 \/ w.channel \in {"status", "email"} /\ v.from = w.from
    BY DEF Mistakable, IdMadeUp
  <2>. HIDE DEF v, w, t, u
  <2>4. v.channel = w.channel
    <3>1. PICK r, i : KeyOf(v, t, r, i)
      BY <2>1, <2>2, KeyForm DEF Channel
    <3>2. PICK q, k : KeyOf(w, u, q, k)
      BY <2>1, <2>2, KeyForm DEF Channel
    <3>. QED BY <2>1, <3>1, <3>2, KeysAgree
  <2>5. CASE v.channel \in {"telegram", "discord", "whatsapp"}
    <3>1. /\ \E r : KeyOf(v, t, r, Or(v.id, Undefined))
          /\ \E q : KeyOf(w, u, q, Or(w.id, Undefined))
      BY <2>1, <2>4, <2>5, KeyForm
    <3>2. Or(v.id, Undefined) = Or(w.id, Undefined)
      BY <2>1, <3>1, KeysAgree
    <3>3. Numbered(v) /\ Numbered(w)
      BY <2>1, <2>2, <2>4, <2>5 DEF Numbered, Numbering
    <3>4. v.id # Absent /\ w.id # Absent
      BY <2>4, <2>5, <3>3, NumberedForm
    <3>5. v.id # w.id
      BY <2>1, <2>4, <3>3, <3>4, NumberedApart
    <3>. QED BY <3>2, <3>4, <3>5 DEF Or
  <2>6. CASE v.channel = "slack"
    <3>1. /\ KeyOf(v, t, Or(v.from, Unknown), Or(v.stamp, Or(v.id, Clock(t))))
          /\ KeyOf(w, u, Or(w.from, Unknown), Or(w.stamp, Or(w.id, Clock(u))))
      BY <2>1, <2>4, <2>6, KeyForm
    <3>2. /\ Or(v.from, Unknown) = Or(w.from, Unknown)
          /\ Or(v.stamp, Or(v.id, Clock(t))) = Or(w.stamp, Or(w.id, Clock(u)))
      BY <2>1, <3>1, KeysAgree
    <3>3. v.from = w.from
      BY <2>2, <3>2, AdaptersAssumption DEF Or
    <3>4. Numbered(v) /\ Numbered(w)
      BY <2>1, <2>2, <2>4, <2>6 DEF Numbered, Numbering
    <3>5. /\ v.id = Absent \/ v.id[1] = "Ev"
          /\ w.id = Absent \/ w.id[1] = "Ev"
          /\ v.stamp = Absent \/ v.stamp[1] = "ts"
          /\ w.stamp = Absent \/ w.stamp[1] = "ts"
      BY <2>4, <2>6, <3>4, NumberedForm
    <3>6. v.id = Absent \/ v.id # w.id
      BY <2>1, <2>4, <3>4, NumberedApart
    <3>7. /\ \A n : Clock(n)[1] = "" /\ Clock(n)[2] = n
          /\ v.stamp = Absent => Or(v.stamp, Or(v.id, Clock(t))) = Or(v.id, Clock(t))
          /\ w.stamp = Absent => Or(w.stamp, Or(w.id, Clock(u))) = Or(w.id, Clock(u))
          /\ v.stamp # Absent => Or(v.stamp, Or(v.id, Clock(t))) = v.stamp
          /\ w.stamp # Absent => Or(w.stamp, Or(w.id, Clock(u))) = w.stamp
      BY DEF Clock, Or
    <3>8. CASE v.stamp # Absent /\ w.stamp # Absent
      BY <2>4, <2>6, <3>2, <3>3, <3>7, <3>8
    <3>9. CASE v.stamp = Absent /\ w.stamp = Absent
      <4>1. Or(v.id, Clock(t)) = Or(w.id, Clock(u))
        BY <3>2, <3>7, <3>9
      <4>2. v.id = Absent /\ w.id = Absent
        BY <3>5, <3>6, <3>7, <4>1 DEF Or
      <4>3. Clock(t)[2] = Clock(u)[2]
        BY <4>1, <4>2 DEF Or
      <4>4. Clock(t)[2] = t /\ Clock(u)[2] = u
        BY <3>7, Zenon
      <4>5. t = u
        BY <4>3, <4>4
      <4>. QED BY <2>4, <2>6, <4>2, <4>5
    <3>10. CASE v.stamp # Absent /\ w.stamp = Absent
      <4>1. v.stamp = Or(w.id, Clock(u))
        BY <3>2, <3>7, <3>10
      <4>. QED BY <3>5, <3>7, <3>10, <4>1 DEF Or
    <3>11. CASE v.stamp = Absent /\ w.stamp # Absent
      <4>1. w.stamp = Or(v.id, Clock(t))
        BY <3>2, <3>7, <3>11
      <4>. QED BY <3>5, <3>7, <3>11, <4>1 DEF Or
    <3>. QED BY <3>8, <3>9, <3>10, <3>11
  <2>7. CASE v.channel = "signal"
    <3>1. /\ KeyOf(v, t, v.from, Clock(Millis(v, t)))
          /\ KeyOf(w, u, w.from, Clock(Millis(w, u)))
      BY <2>1, <2>4, <2>7, KeyForm
    <3>2. v.from = w.from /\ Clock(Millis(v, t)) = Clock(Millis(w, u))
      BY <2>1, <3>1, KeysAgree
    <3>3. Millis(v, t) = Millis(w, u)
      BY <3>2 DEF Clock
    <3>. QED BY <2>4, <2>7, <3>2, <3>3
  <2>8. CASE v.channel \in {"email", "status"}
    <3>1. PICK i, k : KeyOf(v, t, v.from, i) /\ KeyOf(w, u, w.from, k)
      BY <2>1, <2>4, <2>8, KeyForm
    <3>. QED BY <2>1, <2>4, <2>8, <3>1, KeysAgree
  <2>. QED BY <2>2, <2>5, <2>6, <2>7, <2>8 DEF Channel
<1>2. DeliveryInv => KeyTakenExplained
  BY <1>1 DEF KeyTakenExplained
<1>. QED BY <1>2, DeliveryInvariant, PTL

\* What the ids look like that a message can come by when its provider
\* vouches for it and its sender does not choose them.
LEMMA IdShape ==
  ASSUME NEW w \in Posts, NEW t \in 0 .. MaxTime, HasMessage(w), VouchedFor(w),
         w.channel = "signal" => w.from \in Name,
         w.channel \in Channel \ {"status", "email"}
  PROVE  LET id == MessageOf(w, t).id
         IN \/ /\ Numbered(w) /\ w.id # Absent /\ id = w.id
               /\ \/ /\ w.channel \in {"telegram", "discord"}
                     /\ id[1] = "" /\ id[2] \notin 0 .. MaxTime
                  \/ w.channel = "whatsapp" /\ id[1] = "wamid"
                  \/ w.channel = "slack" /\ id[1] = "Ev"
            \/ /\ w.channel = "slack" /\ w.id = Absent
               /\ id[1] = "" /\ id[2] = t /\ t \in 0 .. MaxTime
            \/ /\ w.channel = "signal"
               /\ id[1] = w.from /\ w.from \in Name /\ id[2] = Millis(w, t)
<1>1. CASE w.channel \in Numbering
  <2>1. Numbered(w)
    BY <1>1 DEF Numbered, VouchedFor, Numbering
  <2>2. CASE w.channel = "slack"
    <3>1. MessageOf(w, t).id = Or(w.id, Clock(t))
      BY <2>2, IdForm
    <3>2. w.id = Absent \/ w.id[1] = "Ev"
      BY <2>1, <2>2, NumberedForm
    <3>3. CASE w.id # Absent
      BY <2>1, <2>2, <3>1, <3>2, <3>3 DEF Or
    <3>4. CASE w.id = Absent
      <4>1. MessageOf(w, t).id = Clock(t)
        BY <3>1, <3>4 DEF Or
      <4>2. Clock(t)[1] = "" /\ Clock(t)[2] = t
        BY DEF Clock
      <4>. QED BY <2>2, <3>4, <4>1, <4>2
    <3>. QED BY <3>3, <3>4
  <2>3. CASE w.channel # "slack"
    <3>1. MessageOf(w, t).id = Or(w.id, Undefined)
      BY <1>1, <2>3, IdForm DEF Numbering
    <3>. QED BY <1>1, <2>1, <2>3, <3>1, NumberedForm DEF Or, Numbering
  <2>. QED BY <2>2, <2>3
<1>2. CASE w.channel = "signal"
  <2>1. MessageOf(w, t).id = <<w.from, Millis(w, t)>>
    BY <1>2, IdForm
  <2>. QED BY <1>2, <2>1
<1>. QED BY <1>1, <1>2 DEF Channel, Numbering

\* A message whose id has been committed by another is mistakable for it, or
\* one of the two came by Status or e-mail (markProcessed, which goes by the
\* id alone, after ingest in processInbound).
THEOREM IdTakenCorrect == Spec => []IdTakenExplained
<1>1. ASSUME DeliveryInv, NEW c \in Call, NEW d \in Call, Another(c, d),
             VouchedFor(origin[c]), committed[d] # Never,
             message[c].id = message[d].id,
             origin[c].channel \notin {"status", "email"},
             origin[d].channel \notin {"status", "email"}
      PROVE  Mistakable(c, d)
  <2>. DEFINE v == origin[c]
              w == origin[d]
              t == arrival[c]
              u == arrival[d]
              i == MessageOf(v, t).id
              k == MessageOf(w, u).id
  <2>1. d \in taken
    BY <1>1 DEF DeliveryInv, ProgressInv
  <2>2. VouchedFor(w)
    BY <1>1, <2>1, TakenPost, VerdictFits DEF Webhook
  <2>3. /\ v \in Posts /\ w \in Posts /\ HasMessage(v) /\ HasMessage(w)
        /\ v.serial # w.serial /\ i = k
        /\ v.channel \in Channel \ {"status", "email"}
        /\ w.channel \in Channel \ {"status", "email"}
        /\ t \in 0 .. MaxTime /\ u \in 0 .. MaxTime
        /\ v.channel = "signal" => v.from \in Name
        /\ w.channel = "signal" => w.from \in Name
    BY <1>1, AnotherPost DEF Webhook
  <2>4. SUFFICES /\ v.channel = w.channel
                 /\ \/ /\ v.channel = "signal" /\ v.from = w.from
                       /\ Millis(v, t) = Millis(w, u)
                    \/ /\ v.channel = "slack" /\ v.id = Absent /\ w.id = Absent
                       /\ t = u
    BY DEF Mistakable, IdMadeUp
  <2>5. VouchedFor(v)
    BY <1>1
  <2>. HIDE DEF v, w, t, u
  <2>6. \/ /\ Numbered(v) /\ v.id # Absent /\ i = v.id
           /\ \/ v.channel \in {"telegram", "discord"} /\ i[1] = "" /\ i[2] \notin 0 .. MaxTime
              \/ v.channel = "whatsapp" /\ i[1] = "wamid"
              \/ v.channel = "slack" /\ i[1] = "Ev"
        \/ v.channel = "slack" /\ v.id = Absent /\ i[1] = "" /\ i[2] = t
        \/ v.channel = "signal" /\ i[1] = v.from /\ v.from \in Name /\ i[2] = Millis(v, t)
    BY <2>3, <2>5, IdShape
  <2>7. \/ /\ Numbered(w) /\ w.id # Absent /\ k = w.id
           /\ \/ w.channel \in {"telegram", "discord"} /\ k[1] = "" /\ k[2] \notin 0 .. MaxTime
              \/ w.channel = "whatsapp" /\ k[1] = "wamid"
              \/ w.channel = "slack" /\ k[1] = "Ev"
        \/ w.channel = "slack" /\ w.id = Absent /\ k[1] = "" /\ k[2] = u
        \/ w.channel = "signal" /\ k[1] = w.from /\ w.from \in Name /\ k[2] = Millis(w, u)
    BY <2>2, <2>3, IdShape
  <2>8. "" \notin Name /\ "Ev" \notin Name /\ "wamid" \notin Name
    BY NumberingAssumption
  <2>9. Numbered(v) /\ Numbered(w) /\ v.id # Absent =>
          /\ v.channel = w.channel => v.id # w.id
          /\ {v.channel, w.channel} = {"telegram", "discord"} => v.id # w.id
    BY <2>3, NumberedApart
  <2>10. i = k /\ t \in 0 .. MaxTime /\ u \in 0 .. MaxTime
    BY <2>3
  <2>. HIDE DEF i, k
  <2>. QED BY <2>6, <2>7, <2>8, <2>9, <2>10
<1>2. DeliveryInv => IdTakenExplained
  BY <1>1 DEF IdTakenExplained
<1>. QED BY <1>2, DeliveryInvariant, PTL

=============================================================================
