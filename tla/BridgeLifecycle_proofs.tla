----------------------- MODULE BridgeLifecycle_proofs -----------------------
(***************************************************************************)
(* Theorems about BridgeLifecycle, for any environments, any requests and  *)
(* messages, and any number of signals that run shutdown() side by side.   *)
(***************************************************************************)
EXTENDS BridgeLifecycle, TLAPS

\* The stages of a shutdown() whose server has closed.
Behind == {"stopping", "unsubscribing", "stopping node", "cleaning up", "quitting"}

Silent == ~network.running /\ network.subscriptions = {}

\* How far the shutdowns have come, and what the server is by then.
StageInv ==
  /\ boot = "up" => server # "none"
  /\ boot # "up" => server = "none" /\ \A s \in Signal : shutdown[s] = "none"
  /\ \A s \in Signal : shutdown[s] \in Behind => server = "closed"
  /\ server \in {"closing", "closed"} => \E s \in Signal : shutdown[s] # "none"
  /\ \A s \in Signal : shutdown[s] = "closing again" =>
       /\ config.ingress = "http"
       /\ \E t \in Signal : t # s /\ shutdown[t] # "none"
  /\ server = "closed" => Drained

\* What the fields of the Status client say of the node and of the stage.
ClientInv ==
  /\ client.node <=> client.connected
  /\ ~WithStatus => Silent /\ ~client.connected
  /\ boot \in {"starting node", "subscribing", "subscribing again"} => WithStatus
  /\ boot \in {"loading", "connecting redis", "building adapters"} => Silent
  /\ boot \in {"listening", "up"} /\ ~client.connected => Silent
  /\ WithStatus /\ boot \in {"listening", "up"} /\ server # "closed" => client.connected
  /\ \A s \in Signal : shutdown[s] = "stopping node" => client.unsubscribe = 0
  /\ \A s \in Signal : shutdown[s] \in {"cleaning up", "quitting"} => Silent

\* When there is a connection to Redis.
StoreInv ==
  /\ ~WithRedis => redis = "none"
  /\ boot \in {"loading", "connecting redis"} =>
       redis = "none" /\ \A w \in Request \cup Message : work[w] = "none"
  /\ WithRedis /\ boot \notin {"loading", "connecting redis"} => redis # "none"
  /\ redis \in {"quitting", "closed"} => Silent /\ server = "closed"
  /\ \A s \in Signal : shutdown[s] = "quitting" => redis \in {"quitting", "closed"}

WorkInv ==
  \A r \in Request :
    /\ work[r] # "none" => server # "none"
    /\ work[r] = "publishing" => WithStatus

LifeInv == TypeOK /\ StageInv /\ ClientInv /\ StoreInv /\ WorkInv

-----------------------------------------------------------------------------
LEMMA LifeInit == Init => LifeInv
<1>. SUFFICES ASSUME Init PROVE LifeInv
  OBVIOUS
<1>1. TypeOK
  BY DEF Init, TypeOK, Boot, Work, Shutdown
<1>2. StageInv /\ ClientInv /\ StoreInv /\ WorkInv
  BY DEF Init, StageInv, Behind, ClientInv, Silent, StoreInv, WorkInv
<1>. QED BY <1>1, <1>2 DEF LifeInv

\* The steps of the start, one by one.
LEMMA BootstrapStep == LifeInv /\ Bootstrap => LifeInv'
<1>. SUFFICES ASSUME LifeInv, Bootstrap PROVE LifeInv'
  OBVIOUS
<1>. USE DEF LifeInv
<1>1. CASE LoadConfig
  <2>1. TypeOK'
    BY <1>1 DEF LoadConfig, TypeOK, Boot, parts
  <2>2. StageInv' /\ ClientInv'
    BY <1>1 DEF LoadConfig, parts, StageInv, ClientInv, Behind, Silent, Drained, WithStatus
  <2>3. StoreInv' /\ WorkInv'
    BY <1>1 DEF LoadConfig, parts, StoreInv, WorkInv, Silent, WithStatus, WithRedis
  <2>. QED BY <2>1, <2>2, <2>3
<1>2. CASE ConnectRedis
  <2>1. TypeOK'
    BY <1>2 DEF ConnectRedis, TypeOK, Boot
  <2>2. StageInv' /\ ClientInv'
    BY <1>2 DEF ConnectRedis, StageInv, ClientInv, Behind, Silent, Drained, WithStatus
  <2>3. StoreInv' /\ WorkInv'
    BY <1>2 DEF ConnectRedis, StoreInv, WorkInv, Silent, WithStatus, WithRedis
  <2>. QED BY <2>1, <2>2, <2>3
<1>3. CASE BuildAdapters
  <2>1. TypeOK'
    BY <1>3 DEF BuildAdapters, TypeOK, Boot, parts
  <2>2. StageInv' /\ ClientInv'
    BY <1>3 DEF BuildAdapters, parts, StageInv, ClientInv, Behind, Silent, Drained, WithStatus
  <2>3. StoreInv' /\ WorkInv'
    BY <1>3 DEF BuildAdapters, parts, StoreInv, WorkInv, Silent, WithStatus, WithRedis
  <2>. QED BY <2>1, <2>2, <2>3
<1>4. CASE StartNode
  <2>1. TypeOK'
    BY <1>4 DEF StartNode, TypeOK, Boot
  <2>2. StageInv' /\ ClientInv'
    BY <1>4 DEF StartNode, StageInv, ClientInv, Behind, Silent, Drained, WithStatus
  <2>3. StoreInv' /\ WorkInv'
    BY <1>4 DEF StartNode, StageInv, StoreInv, WorkInv, Silent, WithStatus, WithRedis
  <2>. QED BY <2>1, <2>2, <2>3
<1>5. CASE SubscriptionOpens \/ SubscribeAgain \/ Connected
  <2>1. Attempt \in {0, 1, 2} /\ (Attempt # 0 => boot \in {"subscribing", "subscribing again"})
    BY DEF Attempt
  <2>2. /\ boot \in {"subscribing", "subscribing again"}
        /\ boot' \in {boot, "subscribing again", "listening"}
        /\ UNCHANGED <<config, redis, server, work, shutdown, exit, faulted>>
    BY <1>5, <2>1 DEF SubscriptionOpens, SubscribeAgain, Connected, parts
  <2>3. \/ /\ UNCHANGED client /\ boot' # "listening"
           /\ \E new \in SUBSET {1, 2} :
                network' = [network EXCEPT !.subscriptions = @ \cup new]
        \/ /\ UNCHANGED network /\ boot' = "listening"
           /\ \E unsubscribe \in {0, 1, 2} :
                client' = [connected |-> TRUE, unsubscribe |-> unsubscribe, node |-> TRUE]
    <3>1. CASE SubscriptionOpens
      BY <2>1, <2>2, <3>1 DEF SubscriptionOpens
    <3>2. CASE SubscribeAgain
      <4>1. UNCHANGED <<client, network>> /\ boot' = "subscribing again"
        BY <3>2 DEF SubscribeAgain, parts
      <4>2. network' = [network EXCEPT !.subscriptions = @ \cup {}]
        BY <4>1 DEF LifeInv, TypeOK
      <4>. QED BY <4>1, <4>2
    <3>3. CASE Connected
      BY <2>1, <3>3 DEF Connected
    <3>. QED BY <1>5, <3>1, <3>2, <3>3
  <2>4. TypeOK'
    <3>1. network' \in [running : BOOLEAN, subscriptions : SUBSET {1, 2}]
      BY <2>3 DEF TypeOK
    <3>2. /\ client' \in [connected : BOOLEAN, unsubscribe : {0, 1, 2}, node : BOOLEAN]
          /\ (client.connected => client.node)'
          /\ (client.unsubscribe # 0 => client.connected)'
      <4>1. CASE UNCHANGED client
        BY <4>1 DEF TypeOK
      <4>2. ASSUME NEW unsubscribe \in {0, 1, 2},
                   client' = [connected |-> TRUE, unsubscribe |-> unsubscribe, node |-> TRUE]
            PROVE  /\ client' \in [connected : BOOLEAN, unsubscribe : {0, 1, 2}, node : BOOLEAN]
                   /\ client'.connected /\ client'.node
        BY <4>2
      <4>. QED BY <2>3, <4>1, <4>2
    <3>. QED BY <2>2, <3>1, <3>2 DEF TypeOK, Boot
  <2>5. StageInv'
    BY <2>2 DEF StageInv, Behind, Drained
  <2>6. ClientInv'
    <3>1. WithStatus /\ \A s \in Signal : shutdown[s] = "none"
      BY <2>2 DEF StageInv, ClientInv
    <3>2. (client.node <=> client.connected)'
      <4>1. CASE UNCHANGED client
        BY <4>1 DEF ClientInv
      <4>2. ASSUME NEW unsubscribe \in {0, 1, 2},
                   client' = [connected |-> TRUE, unsubscribe |-> unsubscribe, node |-> TRUE]
            PROVE  client'.node /\ client'.connected
        BY <4>2
      <4>. QED BY <2>3, <4>1, <4>2
    <3>3. boot' = "listening" => client'.connected
      BY <2>3
    <3>. QED BY <2>2, <3>1, <3>2, <3>3 DEF ClientInv, WithStatus
  <2>7. StoreInv' /\ WorkInv'
    BY <2>2 DEF StageInv, StoreInv, WorkInv, WithStatus, WithRedis
  <2>. QED BY <2>4, <2>5, <2>6, <2>7
<1>6. CASE Listen
  <2>1. TypeOK'
    BY <1>6 DEF Listen, TypeOK, Boot
  <2>2. StageInv'
    BY <1>6 DEF Listen, MayListen, StageInv, Behind, Drained
  <2>3. ClientInv'
    BY <1>6 DEF Listen, MayListen, StageInv, ClientInv, Silent, WithStatus
  <2>4. StoreInv' /\ WorkInv'
    BY <1>6 DEF Listen, MayListen, StoreInv, WorkInv, Silent, WithStatus, WithRedis
  <2>. QED BY <2>1, <2>2, <2>3, <2>4
<1>. QED BY <1>1, <1>2, <1>3, <1>4, <1>5, <1>6 DEF Bootstrap

\* The steps of requests, messages and calls, as far as the invariant goes.
WorkMoves(w, next) ==
  /\ work' = [work EXCEPT ![w] = next]
  /\ UNCHANGED <<config, boot, parts, shutdown, exit, faulted>>
  /\ next \in Work \ {"none"}
  /\ next = "reading" => server = "listening"
  /\ next = "publishing" => WithStatus
  /\ w \in Request => server = "listening" \/ work[w] # "none"
  /\ network.subscriptions # {} \/ server = "listening" \/ work[w] # "none"

LEMMA WorkMove ==
  ASSUME \/ \E r \in Request : Receive(r) \/ Route(r)
         \/ \E m \in Message : Incoming(m)
         \/ \E w \in Request \cup Message : Guards(w) \/ PublishText(w)
  PROVE  \E w \in Request \cup Message, next \in Work : WorkMoves(w, next)
<1>. USE DEF WorkMoves, Work
<1>1. ASSUME NEW r \in Request, Receive(r) PROVE WorkMoves(r, "reading")
  BY <1>1 DEF Receive
<1>2. ASSUME NEW r \in Request, Route(r)
      PROVE  WorkMoves(r, "guards") \/ WorkMoves(r, "done")
  BY <1>2 DEF Route
<1>3. ASSUME NEW m \in Message, Incoming(m) PROVE WorkMoves(m, "guards")
  BY <1>3, LifecycleAssumption DEF Incoming
<1>4. ASSUME NEW w \in Request \cup Message, Guards(w)
      PROVE  \E next \in {"store closed", "publishing", "done"} : WorkMoves(w, next)
  <2>. DEFINE next == IF WithRedis /\ redis # "open" THEN "store closed"
                      ELSE IF w \in Request /\ WithStatus THEN "publishing"
                      ELSE "done"
  <2>1. /\ next \in {"store closed", "publishing", "done"}
        /\ next = "publishing" => WithStatus
    OBVIOUS
  <2>2. /\ work[w] = "guards" /\ work' = [work EXCEPT ![w] = next]
        /\ UNCHANGED <<config, boot, parts, shutdown, exit, faulted>>
    BY <1>4 DEF Guards
  <2>. HIDE DEF next
  <2>. QED BY <2>1, <2>2
<1>5. ASSUME NEW w \in Request \cup Message, PublishText(w)
      PROVE  \E next \in {"done", "send failed", "not connected"} : WorkMoves(w, next)
  <2>1. PICK next \in {"done", "send failed", "not connected"} :
          work' = [work EXCEPT ![w] = next]
    BY <1>5 DEF PublishText
  <2>2. /\ work[w] = "publishing"
        /\ UNCHANGED <<config, boot, parts, shutdown, exit, faulted>>
    BY <1>5 DEF PublishText
  <2>. QED BY <2>1, <2>2
<1>. HIDE DEF WorkMoves
<1>. QED BY <1>1, <1>2, <1>3, <1>4, <1>5

LEMMA WorkStep ==
  ASSUME LifeInv, NEW w \in Request \cup Message, NEW next \in Work, WorkMoves(w, next)
  PROVE  LifeInv'
<1>. USE DEF LifeInv
<1>1. /\ UNCHANGED <<config, boot, redis, client, network, server, shutdown, exit, faulted>>
      /\ work \in [Request \cup Message -> Work]
      /\ work' = [work EXCEPT ![w] = next] /\ next # "none"
  BY DEF WorkMoves, parts, TypeOK
<1>2. TypeOK'
  BY <1>1 DEF TypeOK
<1>3. StageInv'
  <2>1. server = "closed" /\ Drained => Drained'
    BY <1>1 DEF WorkMoves, Drained
  <2>. QED BY <1>1, <2>1 DEF StageInv, Behind
<1>4. ClientInv'
  BY <1>1 DEF ClientInv, Silent, WithStatus
<1>5. StoreInv'
  <2>1. boot \notin {"loading", "connecting redis"}
    <3>1. CASE work[w] # "none"
      BY <3>1 DEF StoreInv
    <3>2. CASE network.subscriptions # {}
      BY <3>2 DEF ClientInv, Silent
    <3>3. CASE server = "listening"
      BY <3>3 DEF StageInv
    <3>. QED BY <3>1, <3>2, <3>3 DEF WorkMoves
  <2>. QED BY <1>1, <2>1 DEF StoreInv, Silent, WithRedis
<1>6. WorkInv'
  <2>. SUFFICES ASSUME NEW r \in Request
                PROVE  /\ work'[r] # "none" => server # "none"
                       /\ work'[r] = "publishing" => WithStatus
    BY <1>1 DEF WorkInv, WithStatus
  <2>1. CASE r = w
    BY <1>1, <2>1 DEF WorkMoves, WorkInv
  <2>2. CASE r # w
    BY <1>1, <2>2 DEF WorkInv
  <2>. QED BY <2>1, <2>2
<1>. QED BY <1>2, <1>3, <1>4, <1>5, <1>6

\* The steps of shutdown().
LEMMA ServerClosedStep == LifeInv /\ ServerClosed => LifeInv'
<1>. SUFFICES ASSUME LifeInv, ServerClosed PROVE LifeInv'
  OBVIOUS
<1>. USE DEF LifeInv
<1>1. /\ server = "closing" /\ server' = "closed" /\ Drained /\ boot = "up"
      /\ exit' \in {exit, "0", "1"}
      /\ UNCHANGED <<config, boot, redis, client, network, work, faulted>>
  BY DEF ServerClosed, StageInv
<1>2. /\ shutdown' \in [Signal -> Shutdown]
      /\ \A s \in Signal :
           \/ shutdown'[s] = shutdown[s]
           \/ /\ shutdown[s] = "closing" /\ shutdown'[s] = "stopping"
              /\ \A t \in Signal : shutdown[t] # "closing again"
  <2>1. CASE \E s \in Signal : shutdown[s] = "closing again"
    BY <2>1 DEF ServerClosed, TypeOK
  <2>2. CASE ~\E s \in Signal : shutdown[s] = "closing again"
    <3>1. shutdown' = [s \in Signal |->
                         IF shutdown[s] = "closing" THEN "stopping" ELSE shutdown[s]]
      BY <2>2 DEF ServerClosed, AfterServer
    <3>2. shutdown' \in [Signal -> Shutdown]
      BY <3>1 DEF TypeOK, Shutdown
    <3>. QED BY <2>2, <3>1, <3>2
  <2>. QED BY <2>1, <2>2
<1>3. TypeOK'
  BY <1>1, <1>2 DEF TypeOK
<1>4. StageInv'
  <2>1. \A s \in Signal : shutdown[s] # "none" => shutdown'[s] # "none"
    BY <1>2
  <2>2. \E s \in Signal : shutdown'[s] # "none"
    BY <1>1, <2>1 DEF StageInv
  <2>3. ASSUME NEW s \in Signal, shutdown'[s] = "closing again"
        PROVE  config.ingress = "http" /\ \E t \in Signal : t # s /\ shutdown'[t] # "none"
    <3>1. shutdown[s] = "closing again"
      BY <1>2, <2>3
    <3>. QED BY <2>1, <3>1 DEF StageInv
  <2>. QED BY <1>1, <2>2, <2>3 DEF StageInv, Drained
<1>5. ClientInv'
  BY <1>1, <1>2 DEF ClientInv, Silent, WithStatus
<1>6. StoreInv' /\ WorkInv'
  BY <1>1, <1>2 DEF StoreInv, WorkInv, Silent, WithStatus, WithRedis
<1>. QED BY <1>3, <1>4, <1>5, <1>6

LEMMA SignalledStep ==
  ASSUME LifeInv, NEW s \in Signal, Signalled(s) PROVE LifeInv'
<1>. USE DEF LifeInv
<1>1. TypeOK'
  BY DEF Signalled, AfterServer, TypeOK, Shutdown
<1>2. StageInv'
  <2>1. CASE boot # "up"
    BY <2>1 DEF Signalled, StageInv, Behind, Drained
  <2>2. CASE boot = "up"
    <3>. DEFINE next == IF server = "closed" THEN "stopping"
                        ELSE IF server = "closing" /\ config.ingress = "http"
                             THEN "closing again" ELSE "closing"
    <3>1. /\ server # "none" /\ shutdown[s] = "none"
          /\ server' = IF server = "closed" THEN "closed" ELSE "closing"
          /\ shutdown' = [shutdown EXCEPT ![s] = next]
          /\ UNCHANGED <<config, boot, work>>
      BY <2>2 DEF Signalled, AfterServer, StageInv
    <3>2. /\ next \in Behind => server = "closed"
          /\ next # "none"
          /\ next = "closing again" => server = "closing" /\ config.ingress = "http"
      BY DEF Behind
    <3>. HIDE DEF next
    <3>3. /\ shutdown'[s] = next
          /\ \A t \in Signal : t # s => shutdown'[t] = shutdown[t]
      BY <3>1 DEF TypeOK
    <3>4. ASSUME NEW t \in Signal, shutdown'[t] \in Behind PROVE server' = "closed"
      BY <3>1, <3>2, <3>3, <3>4 DEF StageInv
    <3>5. ASSUME NEW t \in Signal, shutdown'[t] = "closing again"
          PROVE  /\ config.ingress = "http"
                 /\ \E u \in Signal : u # t /\ shutdown'[u] # "none"
      <4>1. CASE t = s
        <5>1. PICK u \in Signal : shutdown[u] # "none"
          BY <3>2, <3>3, <3>5, <4>1 DEF StageInv
        <5>. QED BY <3>1, <3>2, <3>3, <3>5, <4>1, <5>1
      <4>2. CASE t # s
        <5>1. PICK u \in Signal : u # t /\ shutdown[u] # "none"
          BY <3>3, <3>5, <4>2 DEF StageInv
        <5>. QED BY <3>1, <3>3, <3>5, <4>2, <5>1 DEF StageInv
      <4>. QED BY <4>1, <4>2
    <3>. QED BY <2>2, <3>1, <3>2, <3>3, <3>4, <3>5 DEF StageInv, Drained
  <2>. QED BY <2>1, <2>2
<1>3. ClientInv'
  BY DEF Signalled, AfterServer, ClientInv, TypeOK, Silent, WithStatus
<1>4. StoreInv'
  <2>1. \A t \in Signal : shutdown'[t] = "quitting" => shutdown[t] = "quitting"
    BY DEF Signalled, AfterServer, TypeOK
  <2>. QED BY <2>1 DEF Signalled, StageInv, StoreInv, Silent, WithRedis
<1>5. WorkInv'
  BY DEF Signalled, StageInv, WorkInv, WithStatus
<1>. QED BY <1>1, <1>2, <1>3, <1>4, <1>5

\* What Status and the stores look like behind a step of shutdown().
LEMMA StopStepStep ==
  ASSUME LifeInv, NEW s \in Signal, StopStep(s) PROVE LifeInv'
<1>. USE DEF LifeInv
<1>. DEFINE Moves(next) == shutdown' = [shutdown EXCEPT ![s] = next]
<1>0. /\ client \in [connected : BOOLEAN, unsubscribe : {0, 1, 2}, node : BOOLEAN]
      /\ network \in [running : BOOLEAN, subscriptions : SUBSET {1, 2}]
      /\ client.node <=> client.connected
      /\ client.unsubscribe # 0 => client.connected
  BY DEF TypeOK, ClientInv
<1>1. /\ shutdown[s] \in Behind /\ UNCHANGED <<config, boot, server, work, faulted>>
      /\ \/ UNCHANGED shutdown
         \/ Moves("cleaning up") \/ Moves("unsubscribing") \/ Moves("stopping node")
         \/ Moves("quitting")
      /\ exit' \in {exit, "0"}
  BY DEF StopStep, StopEngine, Disconnect, Unsubscribed, NodeStopped, Cleanup,
         QuitIfOpen, Quit, Goto, Behind
<1>2. server = "closed" /\ boot = "up"
  BY <1>1 DEF StageInv
<1>3. /\ shutdown' \in [Signal -> Shutdown]
      /\ \A t \in Signal : t # s => shutdown'[t] = shutdown[t]
      /\ shutdown'[s] \in Behind
  BY <1>1 DEF TypeOK, Shutdown, Behind
<1>4. StageInv'
  <2>0. shutdown'[s] # "none" /\ shutdown'[s] # "closing again"
    BY <1>3 DEF Behind
  <2>1. \A t \in Signal : shutdown[t] # "none" => shutdown'[t] # "none"
    BY <1>3, <2>0
  <2>2. \A t \in Signal : shutdown'[t] = "closing again" => shutdown[t] = "closing again"
    BY <1>3, <2>0
  <2>. QED BY <1>1, <1>2, <2>1, <2>2 DEF StageInv, Drained
<1>5. /\ redis' \in {redis, "quitting", "closed"}
      /\ redis' # redis => Silent /\ redis # "none"
      /\ shutdown'[s] = "quitting" => redis' \in {"quitting", "closed"}
  <2>1. CASE StopEngine(s) \/ Unsubscribed(s) \/ NodeStopped(s)
    <3>1. shutdown'[s] # "quitting" /\ redis' = redis
      BY <2>1 DEF StopEngine, Disconnect, Unsubscribed, NodeStopped, Goto, TypeOK
    <3>. QED BY <3>1
  <2>2. CASE Cleanup(s)
    <3>1. Silent
      BY <2>2 DEF Cleanup, ClientInv
    <3>2. shutdown'[s] = "quitting" => redis' = "quitting"
      BY <2>2 DEF Cleanup, QuitIfOpen, TypeOK
    <3>3. redis' = redis \/ (redis = "open" /\ redis' = "quitting")
      BY <2>2 DEF Cleanup, QuitIfOpen
    <3>. QED BY <3>1, <3>2, <3>3
  <2>3. CASE Quit(s)
    <3>1. Silent
      BY <2>3 DEF Quit, ClientInv
    <3>2. redis' = "closed" /\ redis # "none"
      BY <2>3 DEF Quit, StoreInv
    <3>. QED BY <3>1, <3>2
  <2>. QED BY <2>1, <2>2, <2>3 DEF StopStep
<1>6. /\ client' \in [connected : BOOLEAN, unsubscribe : {0, 1, 2}, node : BOOLEAN]
      /\ network' \in [running : BOOLEAN, subscriptions : SUBSET {1, 2}]
      /\ (client.node <=> client.connected)'
      /\ (client.unsubscribe # 0 => client.connected)'
      /\ client'.unsubscribe \in {client.unsubscribe, 0}
      /\ client.connected /\ ~client'.connected => Silent'
      /\ client'.connected => client.connected
      /\ Silent => Silent'
      /\ shutdown'[s] = "stopping node" => client'.unsubscribe = 0
      /\ shutdown'[s] \in {"cleaning up", "quitting"} => Silent'
  <2>1. CASE StopEngine(s)
    BY <1>0, <1>2, <2>1 DEF StopEngine, Disconnect, Goto, TypeOK, ClientInv, Silent
  <2>2. CASE Unsubscribed(s)
    BY <1>0, <1>2, <2>2 DEF Unsubscribed, Goto, TypeOK, ClientInv, Silent
  <2>3. CASE NodeStopped(s)
    BY <1>0, <1>2, <2>3 DEF NodeStopped, Forgotten, Goto, TypeOK, ClientInv, Silent
  <2>4. CASE Cleanup(s) \/ Quit(s)
    BY <1>0, <1>2, <2>4 DEF Cleanup, QuitIfOpen, Quit, Goto, TypeOK, ClientInv, Silent
  <2>. QED BY <2>1, <2>2, <2>3, <2>4 DEF StopStep
<1>7. TypeOK'
  BY <1>1, <1>3, <1>5, <1>6 DEF TypeOK
<1>8. ClientInv'
  <2>1. ~client'.connected => Silent'
    BY <1>2, <1>6 DEF ClientInv
  <2>2. \A t \in Signal : /\ shutdown'[t] = "stopping node" => client'.unsubscribe = 0
                          /\ shutdown'[t] \in {"cleaning up", "quitting"} => Silent'
    BY <1>0, <1>3, <1>6 DEF ClientInv
  <2>3. ~WithStatus => Silent' /\ ~client'.connected
    BY <1>6 DEF ClientInv
  <2>. QED BY <1>1, <1>2, <1>6, <2>1, <2>2, <2>3 DEF ClientInv, WithStatus
<1>9. StoreInv' /\ WorkInv'
  BY <1>0, <1>1, <1>2, <1>3, <1>5, <1>6 DEF StoreInv, WorkInv, WithStatus, WithRedis
<1>. QED BY <1>4, <1>7, <1>8, <1>9

LEMMA LifeStep == LifeInv /\ [Next]_vars => LifeInv'
<1>. SUFFICES ASSUME LifeInv, [Next]_vars PROVE LifeInv'
  OBVIOUS
<1>1. CASE Fault \/ Over \/ UNCHANGED vars
  <2>1. /\ UNCHANGED <<config, boot, redis, client, network, server, work, shutdown>>
        /\ exit' = exit \/ exit' = "1"
        /\ faulted' = faulted \/ faulted' = TRUE
    BY <1>1 DEF Fault, Over, vars, parts
  <2>2. TypeOK'
    BY <2>1 DEF LifeInv, TypeOK
  <2>3. StageInv' /\ ClientInv'
    BY <2>1 DEF LifeInv, StageInv, ClientInv, Silent, Drained, WithStatus
  <2>4. StoreInv' /\ WorkInv'
    BY <2>1 DEF LifeInv, StoreInv, WorkInv, Silent, WithStatus, WithRedis
  <2>. QED BY <2>2, <2>3, <2>4 DEF LifeInv
<1>2. CASE Bootstrap
  BY <1>2, BootstrapStep
<1>3. CASE \/ \E r \in Request : Receive(r) \/ Route(r)
           \/ \E m \in Message : Incoming(m)
           \/ \E w \in Request \cup Message : Guards(w) \/ PublishText(w)
  BY <1>3, WorkMove, WorkStep
<1>4. ASSUME NEW s \in Signal, Signalled(s) \/ StopStep(s) PROVE LifeInv'
  BY <1>4, SignalledStep, StopStepStep
<1>5. CASE ServerClosed
  BY <1>5, ServerClosedStep
<1>. QED BY <1>1, <1>2, <1>3, <1>4, <1>5 DEF Next

\* The parts of the invariant hold of every behaviour.
THEOREM LifeInvariant == Spec => []LifeInv
BY LifeInit, LifeStep, PTL DEF Spec

\* The process stays in the states that its code gives it: the fields of the
\* Status client never say more than is so (waku-client.ts, disconnect).
THEOREM LifecycleTypeCorrect == Spec => []TypeOK
BY LifeInvariant, PTL DEF LifeInv

-----------------------------------------------------------------------------
\* Exit code 0 is a clean end, whatever the shutdowns make of each other
\* (index.ts, shutdown).
THEOREM CleanExitCorrect == Spec => []CleanExit
<1>1. Init => CleanExit
  BY DEF Init, CleanExit
<1>2. LifeInv /\ CleanExit /\ [Next]_vars => CleanExit'
  <2>. SUFFICES ASSUME LifeInv, CleanExit, [Next]_vars, exit' = "0"
                PROVE  /\ server' = "closed" /\ \A r \in Request : work'[r] # "reading"
                       /\ Silent' /\ redis' # "open"
    BY DEF CleanExit, Silent
  <2>1. CASE exit = "0"
    <3>1. UNCHANGED vars
      BY <2>1 DEF Next, Running, Bootstrap, LoadConfig, ConnectRedis, BuildAdapters,
             StartNode, SubscriptionOpens, SubscribeAgain, Connected, Listen, Receive,
             Route, Incoming, Guards, PublishText, Signalled, StopStep, StopEngine,
             Unsubscribed, NodeStopped, Cleanup, Quit, ServerClosed, Fault, Over
    <3>. QED BY <2>1, <3>1 DEF vars, parts, CleanExit, Silent
  <2>2. CASE exit # "0"
    <3>1. \/ ServerClosed
          \/ \E s \in Signal : Cleanup(s) \/ Quit(s)
      BY <2>2 DEF Next, vars, Bootstrap, LoadConfig, ConnectRedis, BuildAdapters,
             StartNode, SubscriptionOpens, SubscribeAgain, Connected, Listen, Receive,
             Route, Incoming, Guards, PublishText, Signalled, StopStep, StopEngine,
             Unsubscribed, NodeStopped, Fault, Over
    <3>2. CASE ServerClosed
      BY <2>2, <3>2 DEF ServerClosed, LifeInv, ClientInv, StoreInv, Silent, Drained
    <3>3. ASSUME NEW s \in Signal, Cleanup(s) \/ Quit(s)
          PROVE  /\ server' = "closed" /\ \A r \in Request : work'[r] # "reading"
                 /\ Silent' /\ redis' # "open"
      <4>1. server = "closed" /\ Drained /\ Silent
        BY <3>3 DEF Cleanup, Quit, LifeInv, StageInv, ClientInv, Behind
      <4>. QED BY <2>2, <3>3, <4>1 DEF Cleanup, Quit, QuitIfOpen, Silent, Drained
    <3>. QED BY <3>1, <3>2, <3>3
  <2>. QED BY <2>1, <2>2
<1>. QED BY <1>1, <1>2, LifeInvariant, PTL DEF Spec

\* No call finds Status unconnected while the server is open: the routes are
\* opened after the adapters and closed before them (runtime.ts, index.ts).
THEOREM ConnectedWhileServingCorrect == Spec => []ConnectedWhileServing
<1>1. Init => ConnectedWhileServing
  BY DEF Init, ConnectedWhileServing
<1>2. LifeInv /\ ConnectedWhileServing /\ [Next]_vars => ConnectedWhileServing'
  <2>. SUFFICES ASSUME LifeInv, ConnectedWhileServing, [Next]_vars,
                       NEW r \in Request, work'[r] = "not connected"
                PROVE  server' = "closed"
    BY DEF ConnectedWhileServing
  <2>1. server = "closed" => server' = "closed"
    BY DEF Next, vars, parts, Bootstrap, LoadConfig, ConnectRedis, BuildAdapters,
           StartNode, SubscriptionOpens, SubscribeAgain, Connected, Listen, Receive,
           Route, Incoming, Guards, PublishText, Signalled, StopStep, StopEngine,
           Unsubscribed, NodeStopped, Cleanup, Quit, ServerClosed, Fault, Over
  <2>2. CASE work[r] = "not connected"
    BY <2>1, <2>2 DEF ConnectedWhileServing
  <2>3. CASE work[r] # "not connected"
    <3>1. work[r] = "publishing" /\ ~(client.connected /\ client.node)
      BY <2>3 DEF Next, vars, Bootstrap, LoadConfig, ConnectRedis, BuildAdapters,
           StartNode, SubscriptionOpens, SubscribeAgain, Connected, Listen, Receive,
           Route, Incoming, Guards, PublishText, Signalled, StopStep, StopEngine,
           Unsubscribed, NodeStopped, Cleanup, Quit, ServerClosed, Fault, Over,
           LifeInv, TypeOK
    <3>2. server = "closed"
      BY <3>1 DEF LifeInv, WorkInv, StageInv, ClientInv
    <3>. QED BY <2>1, <3>2
  <2>. QED BY <2>2, <2>3
<1>. QED BY <1>1, <1>2, LifeInvariant, PTL DEF Spec

\* The step at which a call finds its stores closed.
LEMMA StoreClosedStep ==
  ASSUME LifeInv, [Next]_vars, NEW w \in Request \cup Message,
         work[w] # "store closed", work'[w] = "store closed"
  PROVE  WithRedis /\ redis # "open" /\ work[w] # "none"
BY DEF Next, vars, Bootstrap, LoadConfig, ConnectRedis, BuildAdapters,
       StartNode, SubscriptionOpens, SubscribeAgain, Connected, Listen, Receive,
       Route, Incoming, Guards, PublishText, Signalled, StopStep, StopEngine,
       Unsubscribed, NodeStopped, Cleanup, Quit, ServerClosed, Fault, Over,
       LifeInv, TypeOK

\* Once Status is silent behind a closed server it stays so.
LEMMA SilenceLasts ==
  ASSUME LifeInv, [Next]_vars, Silent, server = "closed"
  PROVE  Silent' /\ server' = "closed"
<1>1. boot = "up"
  BY DEF LifeInv, StageInv
<1>2. server' = "closed"
  BY DEF Next, vars, parts, Bootstrap, LoadConfig, ConnectRedis, BuildAdapters,
         StartNode, SubscriptionOpens, SubscribeAgain, Connected, Listen, Receive,
         Route, Incoming, Guards, PublishText, Signalled, StopStep, StopEngine,
         Unsubscribed, NodeStopped, Cleanup, Quit, ServerClosed, Fault, Over
<1>3. \/ UNCHANGED network
      \/ \E s \in Signal : Unsubscribed(s) \/ NodeStopped(s)
  BY <1>1 DEF Next, vars, parts, Bootstrap, LoadConfig, ConnectRedis, BuildAdapters,
         StartNode, SubscriptionOpens, SubscribeAgain, Connected, Attempt, Listen,
         Receive, Route, Incoming, Guards, PublishText, Signalled, StopStep, StopEngine,
         Cleanup, Quit, ServerClosed, Fault, Over
<1>4. Silent'
  BY <1>3 DEF Unsubscribed, NodeStopped, Silent, LifeInv, TypeOK
<1>. QED BY <1>2, <1>4

\* No call finds its stores closed while messages come in: they are open before
\* anything does, during the start already, and adapters stop before the
\* stores do, whichever shutdown() gets there (index.ts, shutdown).
THEOREM StoresOutliveCorrect == Spec => []StoresOutliveAdapters
<1>1. Init => StoresOutliveAdapters
  BY DEF Init, StoresOutliveAdapters
<1>2. LifeInv /\ StoresOutliveAdapters /\ [Next]_vars => StoresOutliveAdapters'
  <2>. SUFFICES ASSUME LifeInv, StoresOutliveAdapters, [Next]_vars,
                       NEW w \in Request \cup Message, work'[w] = "store closed"
                PROVE  Silent' /\ server' = "closed"
    BY DEF StoresOutliveAdapters, Silent
  <2>1. Silent /\ server = "closed"
    <3>1. CASE work[w] = "store closed"
      BY <3>1 DEF StoresOutliveAdapters, Silent
    <3>2. CASE work[w] # "store closed"
      <4>1. WithRedis /\ redis # "open" /\ work[w] # "none"
        BY <3>2, StoreClosedStep
      <4>. QED BY <4>1 DEF LifeInv, TypeOK, StoreInv
    <3>. QED BY <3>1, <3>2
  <2>. QED BY <2>1, SilenceLasts
<1>. QED BY <1>1, <1>2, LifeInvariant, PTL DEF Spec

\* Exit code 1 has an explanation: a failure outside of the program, an
\* environment that cannot be used, or two signals for one node:http server
\* (index.ts, main and shutdown; server.ts, stop).
THEOREM ErrorExitCorrect == Spec => []ErrorExitExplained
<1>1. Init => ErrorExitExplained
  BY DEF Init, ErrorExitExplained
<1>2. LifeInv /\ ErrorExitExplained /\ [Next]_vars => ErrorExitExplained'
  <2>. SUFFICES ASSUME LifeInv, ErrorExitExplained, [Next]_vars, exit' = "1"
                PROVE  ErrorExitExplained'
    BY DEF ErrorExitExplained
  <2>1. CASE exit = "1"
    <3>1. UNCHANGED vars
      BY <2>1 DEF Next, Running, Bootstrap, LoadConfig, ConnectRedis, BuildAdapters,
             StartNode, SubscriptionOpens, SubscribeAgain, Connected, Listen, Receive,
             Route, Incoming, Guards, PublishText, Signalled, StopStep, StopEngine,
             Unsubscribed, NodeStopped, Cleanup, Quit, ServerClosed, Fault, Over
    <3>. QED BY <2>1, <3>1 DEF vars, parts, ErrorExitExplained
  <2>2. CASE exit # "1"
    <3>1. \/ Fault \/ LoadConfig \/ BuildAdapters \/ Listen \/ ServerClosed
      BY <2>2 DEF Next, vars, Bootstrap, ConnectRedis, StartNode, SubscriptionOpens,
             SubscribeAgain, Connected, Receive, Route, Incoming, Guards, PublishText,
             Signalled, StopStep, StopEngine, Unsubscribed, NodeStopped, Cleanup,
             QuitIfOpen, Quit, Over
    <3>2. CASE Fault
      BY <3>2 DEF Fault, ErrorExitExplained
    <3>3. CASE LoadConfig \/ BuildAdapters \/ Listen
      <4>1. server = "none"
        BY <3>3 DEF LoadConfig, BuildAdapters, Listen, LifeInv, StageInv
      <4>2. UNCHANGED <<config, server>> /\ Unusable(config.env)
        BY <2>2, <3>3, <4>1 DEF LoadConfig, BuildAdapters, Listen, parts, Unusable
      <4>. QED BY <4>1, <4>2 DEF ErrorExitExplained, Unusable
    <3>4. CASE ServerClosed
      <4>1. PICK s \in Signal : shutdown[s] = "closing again"
        BY <2>2, <3>4 DEF ServerClosed
      <4>2. UNCHANGED <<shutdown, config>>
        BY <3>4, <4>1 DEF ServerClosed
      <4>3. /\ config.ingress = "http"
            /\ \E t \in Signal : t # s /\ shutdown[t] # "none"
        BY <4>1 DEF LifeInv, StageInv
      <4>. QED BY <4>1, <4>2, <4>3 DEF ErrorExitExplained
    <3>. QED BY <3>1, <3>2, <3>3, <3>4
  <2>. QED BY <2>1, <2>2
<1>. QED BY <1>1, <1>2, LifeInvariant, PTL DEF Spec

\* No shutdown() waits for a close event or an answer to QUIT that has come
\* before, however many of them there are (server.ts, stop; runtime.ts, stop).
THEOREM AwaitedIsToComeCorrect == Spec => []AwaitedIsToCome
<1>1. Init => AwaitedIsToCome
  BY DEF Init, AwaitedIsToCome
<1>2. LifeInv /\ AwaitedIsToCome /\ [Next]_vars => AwaitedIsToCome'
  <2>. SUFFICES ASSUME LifeInv, AwaitedIsToCome, [Next]_vars, Running'
                PROVE  AwaitedIsToCome'
    BY DEF AwaitedIsToCome
  <2>1. CASE UNCHANGED <<server, redis, shutdown, exit>>
    BY <2>1 DEF AwaitedIsToCome, Running
  <2>2. CASE ConnectRedis \/ Listen
    <3>1. \A s \in Signal : shutdown[s] = "none"
      BY <2>2 DEF ConnectRedis, Listen, MayListen, LifeInv, StageInv
    <3>. QED BY <2>2, <3>1 DEF ConnectRedis, Listen, AwaitedIsToCome
  <2>3. ASSUME NEW s \in Signal, Signalled(s) PROVE AwaitedIsToCome'
    <3>1. CASE boot # "up"
      BY <2>3, <3>1 DEF Signalled, Running
    <3>2. CASE boot = "up"
      <4>1. /\ server' = IF server = "closed" THEN "closed" ELSE "closing"
            /\ UNCHANGED <<redis, exit>>
            /\ \A t \in Signal : t # s => shutdown'[t] = shutdown[t]
            /\ shutdown'[s] \in {"closing", "closing again", "stopping"}
            /\ server = "closed" => shutdown'[s] = "stopping"
        BY <2>3, <3>2 DEF Signalled, AfterServer, LifeInv, TypeOK
      <4>. QED BY <4>1 DEF AwaitedIsToCome, Running
    <3>. QED BY <3>1, <3>2
  <2>4. CASE ServerClosed
    BY <2>4 DEF ServerClosed, AfterServer, AwaitedIsToCome, Running
  <2>5. ASSUME NEW s \in Signal,
               StopEngine(s) \/ Unsubscribed(s) \/ NodeStopped(s)
        PROVE  AwaitedIsToCome'
    BY <2>5 DEF StopEngine, Disconnect, Unsubscribed, NodeStopped, Goto,
       AwaitedIsToCome, Running, LifeInv, TypeOK
  <2>6. ASSUME NEW s \in Signal, Cleanup(s) PROVE AwaitedIsToCome'
    BY <2>6 DEF Cleanup, QuitIfOpen, Goto, AwaitedIsToCome, Running, LifeInv,
       TypeOK
  <2>7. ASSUME NEW s \in Signal, Quit(s) PROVE AwaitedIsToCome'
    BY <2>7 DEF Quit, Running
  <2>. QED
    BY <2>1, <2>2, <2>3, <2>4, <2>5, <2>6, <2>7
    DEF Next, vars, parts, Bootstrap, LoadConfig, BuildAdapters, StartNode,
        SubscriptionOpens, SubscribeAgain, Connected, Receive, Route, Incoming,
        Guards, PublishText, StopStep, Fault, Over, Running
<1>. QED BY <1>1, <1>2, LifeInvariant, PTL DEF Spec

=============================================================================
