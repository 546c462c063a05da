------------------------ MODULE BridgeNetwork_proofs -------------------------
(***************************************************************************)
(* Theorems about bridges that hear what they publish, for any number of   *)
(* processes and calls, any posts and any policy that asks Status to       *)
(* authenticate.                                                           *)
(***************************************************************************)
EXTENDS BridgeOutcomes_proofs, BridgeNetwork

NetworkInv == IInv /\ OutcomeInv /\ EchoInv

\* A call whose message has a minted id handles an echo.
LEMMA EchoMessage ==
  ASSUME TypeOK, NEW c \in Call, NEW d \in Call, EchoOf(c, d)
  PROVE  /\ msg[c].channel = "status"
         /\ \E n \in Node : /\ msg[c].senderId = StatusKey[n]
                            /\ msg[c].verdict = EchoVerdict(n)
<1>1. msg[c] \in Posts \cup Echoes /\ msg[c].id = Mint[d]
  BY NetworkAssumption DEF EchoOf, TypeOK
<1>2. msg[c] \notin Posts
  BY <1>1, NetworkAssumption
<1>3. PICK e \in Call, n \in Node, b \in Sizes : msg[c] = Echo(e, n, b)
  BY <1>1, <1>2 DEF Echoes
<1>. QED BY <1>3 DEF Echo

LEMMA PublishedStarted ==
  ASSUME OutcomeInv, NEW c \in Call, sent[c] # {}
  PROVE  pc[c] # "idle"
BY DEF OutcomeInv, Served, BeforeMark, BeforeIngest, BeforeAdmission

\* What comes back is a message of the engine, under the id minted for the
\* call that published it.
LEMMA AfloatMessage ==
  ASSUME TypeOK, OutcomeInv, NEW m \in Afloat
  PROVE  /\ m \in Message
         /\ \A d \in Call : m.id = Mint[d] => Published(d)
<1>1. CASE m \in Posts
  BY <1>1, NetworkAssumption
<1>2. CASE m \notin Posts
  <2>1. PICK e \in Call : Published(e) /\ m = Echo(e, host[e], msg[e].bytes)
    BY <1>2 DEF Afloat
  <2>2. host[e] \in Node /\ msg[e] \in Posts \cup Echoes
    BY <2>1, PublishedStarted, NetworkAssumption DEF Published, TypeOK
  <2>3. msg[e].bytes \in Sizes
    <3>1. CASE msg[e] \in Posts
      BY <3>1 DEF Sizes
    <3>2. CASE msg[e] \in Echoes
      BY <3>2 DEF Echoes, Echo
    <3>. QED BY <2>2, <3>1, <3>2
  <2>4. m \in Echoes /\ m.id = Mint[e]
    BY <2>1, <2>2, <2>3 DEF Echoes, Echo
  <2>. QED BY <2>1, <2>4, NetworkAssumption
<1>. QED BY <1>1, <1>2

\* The network takes the steps of the engine only.
LEMMA NetworkSteps ==
  ASSUME NetworkInv, [NetworkNext]_vars
  PROVE  [Next]_vars
<1>. SUFFICES ASSUME NetworkNext PROVE Next
  OBVIOUS
<1>. QED BY AfloatMessage DEF NetworkNext, Next, NetworkInv, IInv

\* A started call keeps its message, and sends to one target at a time.
LEMMA SentStep ==
  ASSUME IInv, OutcomeInv, [Next]_vars, NEW c \in Call
  PROVE  /\ pc[c] # "idle" => msg'[c] = msg[c] /\ pc'[c] # "idle"
         /\ markedAt[c] # Never => markedAt'[c] # Never
         /\ \/ sent'[c] = sent[c]
            \/ /\ pc[c] = "send" /\ markedAt'[c] # Never
               /\ \E i \in Eligible(msg[c]) : sent'[c] = sent[c] \cup {i}
<1>. USE DEF IInv, TypeInv
<1>1. pc[c] # "idle" => msg'[c] = msg[c] /\ pc'[c] # "idle"
  <2>1. pc[c] # "idle" => msg'[c] = msg[c]
    BY SameKept
  <2>2. pc[c] # "idle" => SameStore(c, c)
    BY DEF SameStore
  <2>3. SameStore(c, c)' => pc'[c] # "idle"
    BY DEF SameStore
  <2>. QED BY <2>1, <2>2, <2>3, SameKept
<1>2. markedAt[c] # Never => markedAt'[c] # Never
  BY Evolution DEF Evolves, TypeOK, Never
<1>3. ASSUME NEW d \in Call, Step(d) \/ Failure(d), ~AuditErrorFails(d)
      PROVE  \/ sent'[c] = sent[c]
             \/ /\ pc[c] = "send"
                /\ \E i \in Eligible(msg[c]) : sent'[c] = sent[c] \cup {i}
  <2>1. CASE c # d
    BY <1>3, <2>1, OthersKept DEF Kept
  <2>2. CASE c = d
    <3>1. CASE UNCHANGED sent
      BY <3>1
    <3>2. ASSUME NEW i \in Upcoming(c), pc[c] = "send",
                 sent' = [sent EXCEPT ![c] = @ \cup {i}]
          PROVE  pc[c] = "send" /\ \E j \in Eligible(msg[c]) :
                                      sent'[c] = sent[c] \cup {j}
      <4>1. sent'[c] = sent[c] \cup {i} /\ i \in Eligible(msg[c])
        BY <3>2 DEF Upcoming, TypeOK
      <4>. QED BY <3>2, <4>1
    <3>3. MarkIfNew(c) => UNCHANGED sent
      BY DEF MarkIfNew
    <3>. QED BY <1>3, <2>2, <3>1, <3>2, <3>3, HistoryCases DEF historyVars
  <2>. QED BY <2>1, <2>2
<1>4. \/ sent'[c] = sent[c]
      \/ /\ pc[c] = "send"
         /\ \E i \in Eligible(msg[c]) : sent'[c] = sent[c] \cup {i}
  BY <1>3, NextCases, DeathCase DEF Deliver, Die, Tick, vars, historyVars
<1>5. pc[c] = "send" => markedAt[c] # Never
  BY DEF ProgressInv, AfterMark
<1>. QED BY <1>1, <1>2, <1>4, <1>5

LEMMA EchoStep ==
  ASSUME NetworkInv, [NetworkNext]_vars
  PROVE  EchoInv'
<1>. USE DEF NetworkInv
<1>. SUFFICES ASSUME NEW c \in Call
              PROVE  /\ sent'[c] # {} => /\ sent'[c] \subseteq Eligible(msg'[c])
                                         /\ markedAt'[c] # Never
                     /\ \A d \in Call : EchoOf(c, d)' => Published(d)'
  BY DEF EchoInv
<1>0. [Next]_vars /\ TypeOK
  BY NetworkSteps DEF IInv
<1>1. ASSUME NEW d \in Call, Published(d) PROVE Published(d)'
  <2>1. sent[d] # {} /\ pc[d] # "idle"
    BY <1>1, PublishedStarted DEF Published
  <2>2. msg'[d] = msg[d] /\ sent[d] \subseteq sent'[d]
    BY <1>0, <2>1, SentStep
  <2>. QED BY <1>1, <2>2 DEF Published
<1>2. ASSUME sent'[c] # {}
      PROVE  sent'[c] \subseteq Eligible(msg'[c]) /\ markedAt'[c] # Never
  <2>1. CASE sent'[c] = sent[c]
    <3>1. msg'[c] = msg[c] /\ markedAt'[c] # Never
      BY <1>0, <1>2, <2>1, PublishedStarted, SentStep DEF EchoInv
    <3>. QED BY <1>2, <2>1, <3>1 DEF EchoInv
  <2>2. CASE sent'[c] # sent[c]
    <3>1. PICK i \in Eligible(msg[c]) : /\ sent'[c] = sent[c] \cup {i}
                                        /\ pc[c] = "send"
                                        /\ markedAt'[c] # Never
      BY <1>0, <2>2, SentStep
    <3>2. msg'[c] = msg[c]
      BY <1>0, <3>1, SentStep
    <3>. QED BY <3>1, <3>2 DEF EchoInv
  <2>. QED BY <2>1, <2>2
<1>3. ASSUME NEW d \in Call, EchoOf(c, d)' PROVE Published(d)'
  <2>1. CASE pc[c] # "idle"
    <3>1. EchoOf(c, d)
      BY <1>0, <1>3, <2>1, SentStep DEF EchoOf
    <3>. QED BY <1>1, <3>1 DEF EchoInv
  <2>2. CASE pc[c] = "idle"
    <3>1. pc'[c] # "idle"
      BY <1>3 DEF EchoOf
    <3>2. PICK n \in Node, m \in Afloat : Deliver(c, n, m)
      <4>1. ASSUME NEW e \in Call, NEW n \in Node, NEW m \in Afloat,
                   Deliver(e, n, m)
            PROVE  Deliver(c, n, m)
        BY <1>0, <2>2, <3>1, <4>1 DEF Deliver, Goto, TypeOK
      <4>2. ASSUME NEW e \in Call, Step(e) \/ Failure(e), ~AuditErrorFails(e)
            PROVE  FALSE
        BY <1>0, <2>2, <3>1, <4>2, CallStep DEF InProgress
      <4>3. ASSUME NEW n \in Node, Die(n) PROVE FALSE
        BY <2>2, <3>1, <4>3 DEF Die, InProgress
      <4>4. CASE Tick \/ UNCHANGED vars
        BY <2>2, <3>1, <4>4 DEF Tick, vars, callVars
      <4>. QED BY <1>0, <4>1, <4>2, <4>3, <4>4, DeathCase
               DEF NetworkNext, Crash, Quiescent
    <3>3. msg'[c] = m
      BY <1>0, <3>2 DEF Deliver, TypeOK
    <3>4. Published(d)
      BY <1>0, <1>3, <3>3, AfloatMessage DEF EchoOf
    <3>. QED BY <1>1, <3>4
  <2>. QED BY <2>1, <2>2
<1>. QED BY <1>2, <1>3

LEMMA NetworkInit == Init => NetworkInv
<1>1. Init => EchoInv
  BY DEF Init, EchoInv, EchoOf
<1>. QED BY <1>1, IInvInit, OutcomeInit DEF NetworkInv

\* The engine's invariant, and that only what a call published comes back.
THEOREM NetworkInvariant == NetworkSpec => []NetworkInv
<1>1. NetworkInv /\ [NetworkNext]_vars => NetworkInv'
  BY NetworkSteps, IInvStep, OutcomeStep, EchoStep
  DEF NetworkInv, IInv, TypeInv
<1>. QED BY <1>1, NetworkInit, PTL DEF NetworkSpec

\* However many processes listen, an echo is never published again, and what
\* comes back was taken by a gateway and marked first.
THEOREM EchoesEndCorrect == NetworkSpec => []EchoesEnd
<1>1. ASSUME NetworkInv, NEW c \in Call, NEW d \in Call, EchoOf(c, d)
      PROVE  /\ ~Published(c)
             /\ ingestedAt[d] # Never /\ markedAt[d] # Never
  <2>1. TypeOK /\ EchoInv /\ ProgressInv
    BY <1>1 DEF NetworkInv, IInv
  <2>2. msg[c].channel = "status"
    BY <1>1, <2>1, EchoMessage
  <2>3. ~Published(c)
    BY <2>1, <2>2 DEF Published, EchoInv, Eligible
  <2>4. markedAt[d] # Never
    BY <1>1, <2>1 DEF EchoInv, Published
  <2>. QED BY <2>1, <2>3, <2>4 DEF ProgressInv
<1>2. NetworkInv => EchoesEnd
  BY <1>1 DEF EchoesEnd, IsEcho
<1>. QED BY <1>2, NetworkInvariant, PTL

\* A text that one store lets the gateway see twice is the same message, for
\* one of the reasons of SecondIngestExplained, or came back from Status under
\* a key that the configuration lets in.
THEOREM TextTakenTwiceCorrect == NetworkSpec => []TextTakenTwiceExplained
<1>1. ASSUME NetworkInv, NEW e \in Call, IsEcho(e), ingestedAt[e] # Never
      PROVE  \E n \in Node :
               /\ IsEcho(e) /\ msg[e].senderId = StatusKey[n]
               /\ AllowedSenders # {} => StatusKey[n] \in AllowedSenders
  <2>1. PICK n \in Node : /\ msg[e].senderId = StatusKey[n]
                          /\ msg[e].verdict = EchoVerdict(n)
                          /\ msg[e].channel = "status"
    BY <1>1, EchoMessage DEF IsEcho, NetworkInv, IInv
  <2>2. HasRule("status") /\ Acceptable(msg[e])
    BY <1>1, <2>1 DEF NetworkInv, OutcomeInv, Allowed
  <2>3. EchoVerdict(n) = "authenticated"
    BY <2>1, <2>2, NetworkAssumption DEF Acceptable, AuthenticationMet
  <2>. QED BY <1>1, <2>1, <2>3 DEF EchoVerdict
<1>2. ASSUME NetworkInv, NEW c \in Call, NEW d \in Call, c # d,
             SameStore(c, d), TextOf(c) = TextOf(d),
             ingestedAt[c] # Never, ingestedAt[d] # Never,
             admittedAt[c] <= admittedAt[d], ~IsEcho(c), ~IsEcho(d)
      PROVE  /\ msg[c] = msg[d]
             /\ \/ markedAt[c] = Never
                \/ markedAt[c] >= admittedAt[c] + ReplayTtl
                \/ /\ CallStore(c) \in Redis
                   /\ ingestedAt[d] >= markedAt[c] + IdempotencyTtl
  <2>1. msg[c] = msg[d]
    BY <1>2 DEF TextOf
  <2>2. SecondIngestExplained
    BY <1>2 DEF NetworkInv, IInv
  <2>. QED BY <1>2, <2>1, <2>2 DEF SecondIngestExplained, SameKey
<1>3. NetworkInv => TextTakenTwiceExplained
  BY <1>1, <1>2 DEF TextTakenTwiceExplained
<1>. QED BY <1>3, NetworkInvariant, PTL

\* Whatever bridges hear of each other, each behaves as the engine does: all
\* that is proved of Spec holds of them, what a replay and a repeated id are
\* refused for included (waku-client.ts feeds processInbound like any other).
THEOREM NetworkIsEngine == NetworkSpec => Spec
<1>1. NetworkInv /\ [NetworkNext]_vars => [Next]_vars
  BY NetworkSteps
<1>. QED BY <1>1, NetworkInvariant, PTL DEF NetworkSpec, Spec

\* So a bridge that hears an echo refuses only for what it has let through
\* or taken (waku-client.ts feeds processInbound like any other).
THEOREM NetworkGuardsCorrect ==
  NetworkSpec => [](ReplayRefusedForCause /\ MarkedMeansTaken)
BY NetworkIsEngine, ReplayRefusedCorrect, MarkedMeansTakenCorrect, PTL

===============================================================================
