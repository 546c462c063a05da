-------------------------- MODULE BridgeLifecycle --------------------------
(***************************************************************************)
(* One process from bootstrap to its exit: src/index.ts and the framework  *)
(* entry points, runtime.ts, server.ts, and the connection of the Status   *)
(* adapter (channels/status/waku-client.ts).  The handlers of SIGINT and   *)
(* SIGTERM each run shutdown() and share everything it touches; the calls  *)
(* of the engine run beside it, and are here only what they need of the    *)
(* parts that shutdown() takes away: the stores, then the Status client.   *)
(***************************************************************************)
EXTENDS BridgeConfig

CONSTANTS
  Environment,   \* what the process may find in its environment
  Request,   \* the webhook requests
  Message,   \* the messages that come in by Status
  Signal     \* the signals with a handler

ASSUME LifecycleAssumption ==
  Environment \subseteq Env /\ Request \cap Message = {}

VARIABLES
  config,    \* the environment, and the ingress that the process runs
  boot,      \* how far the start has come: the await it is at, or "up"
  redis,     \* the connection: "none", "open", "quitting", "closed"
  client,    \* the fields connected, unsubscribe and node of the Waku client:
             \* unsubscribe ends the subscription of one attempt, or is null (0)
  network,   \* what is so: the node is running, and the attempts to subscribe
             \* whose subscription is alive
  server,    \* "none", "listening", "closing", "closed"
  work,      \* how far each request or message has come
  shutdown,  \* the await each signal's shutdown() is at, or "none"
  exit,      \* "running", or how the process ended: "0", "1" or "killed"
  faulted    \* history: something outside of the program failed

parts == <<redis, client, network, server>>
vars == <<config, boot, parts, work, shutdown, exit, faulted>>

Config == [env : Environment, ingress : {"http", "framework"}]

WithStatus == "status" \in config.env.enabled

WithRedis == StoreBackend(config.env) = "redis"

Boot == {"loading", "connecting redis", "building adapters", "starting node",
         "subscribing", "subscribing again", "listening", "up"}

\* "reading": the body of a request is being read.  "guards": a call of the
\* engine, before its last use of the stores; "publishing": behind it.
Work == {"none", "reading", "guards", "publishing", "done",
         "store closed", "not connected", "send failed"}

Shutdown == {"none", "closing", "closing again", "stopping", "unsubscribing",
             "stopping node", "cleaning up", "quitting"}

Running == exit = "running"

Init ==
  /\ config \in Config
  /\ boot = "loading"
  /\ redis = "none"
  /\ client = [connected |-> FALSE, unsubscribe |-> 0, node |-> FALSE]
  /\ network = [running |-> FALSE, subscriptions |-> {}]
  /\ server = "none"
  /\ work = [w \in Request \cup Message |-> "none"]
  /\ shutdown = [s \in Signal |-> "none"]
  /\ exit = "running"
  /\ faulted = FALSE

-----------------------------------------------------------------------------
(* bootstrap: createBridgeRuntime, runtime.start, server.start *)

LoadConfig ==
  /\ Running /\ boot = "loading"
  /\ IF Loads(config.env) /\ Valid(config.env)
     THEN boot' = "connecting redis" /\ UNCHANGED exit
     ELSE exit' = "1" /\ UNCHANGED boot
  /\ UNCHANGED <<config, parts, work, shutdown, faulted>>

ConnectRedis ==
  /\ Running /\ boot = "connecting redis"
  /\ redis' = IF WithRedis THEN "open" ELSE "none"
  /\ boot' = "building adapters"
  /\ UNCHANGED <<config, client, network, server, work, shutdown, exit, faulted>>

BuildAdapters ==
  /\ Running /\ boot = "building adapters"
  /\ IF AdaptersBuilt(config.env)
     THEN /\ boot' = (IF WithStatus THEN "starting node" ELSE "listening")
          /\ UNCHANGED exit
     ELSE exit' = "1" /\ UNCHANGED boot
  /\ UNCHANGED <<config, parts, work, shutdown, faulted>>

StartNode ==
  /\ Running /\ boot = "starting node"
  /\ network' = [network EXCEPT !.running = TRUE]
  /\ boot' = "subscribing"
  /\ UNCHANGED <<config, redis, client, server, work, shutdown, exit, faulted>>

Attempt == CASE boot = "subscribing"       -> 1
             [] boot = "subscribing again" -> 2
             [] OTHER                      -> 0

\* A subscription is alive before connect() hears of it.
SubscriptionOpens ==
  /\ Running /\ Attempt # 0 /\ Attempt \notin network.subscriptions
  /\ network' = [network EXCEPT !.subscriptions = @ \cup {Attempt}]
  /\ UNCHANGED <<config, boot, redis, client, server, work, shutdown, exit, faulted>>

\* subscribe() rejects a list of decoders, perhaps with its work done; it is
\* called again with a single one.
SubscribeAgain ==
  /\ Running /\ boot = "subscribing"
  /\ boot' = "subscribing again"
  /\ UNCHANGED <<config, parts, work, shutdown, exit, faulted>>

\* Some SDKs give no way to unsubscribe.
Connected ==
  /\ Running /\ Attempt # 0 /\ Attempt \in network.subscriptions
  /\ \E unsubscribe \in {0, Attempt} :
       client' = [connected |-> TRUE, unsubscribe |-> unsubscribe, node |-> TRUE]
  /\ boot' = "listening"
  /\ UNCHANGED <<config, redis, network, server, work, shutdown, exit, faulted>>

\* Mutant: runtime.start() is not awaited.
MayListenAtOnce == boot \in {"starting node", "subscribing", "listening"}

MayListen == boot = "listening"

\* The handlers of the signals are installed as soon as the server listens.
Listen ==
  /\ Running /\ MayListen /\ server = "none"
  /\ IF PortUsable(config.env)
     THEN server' = "listening" /\ boot' = "up" /\ UNCHANGED exit
     ELSE exit' = "1" /\ UNCHANGED <<server, boot>>
  /\ UNCHANGED <<config, redis, client, network, work, shutdown, faulted>>

-----------------------------------------------------------------------------
(* Requests, messages, and the calls of the engine *)

Receive(r) ==
  /\ Running /\ server = "listening" /\ work[r] = "none"
  /\ work' = [work EXCEPT ![r] = "reading"]
  /\ UNCHANGED <<config, boot, parts, shutdown, exit, faulted>>

\* The route gives the body to its adapter and answers 200 before the call
\* has done anything.  A ping, a challenge or a malformed body starts none.
Route(r) ==
  /\ Running /\ work[r] = "reading"
  /\ \E outcome \in {"guards", "done"} : work' = [work EXCEPT ![r] = outcome]
  /\ UNCHANGED <<config, boot, parts, shutdown, exit, faulted>>

Incoming(m) ==
  /\ Running /\ network.subscriptions # {} /\ work[m] = "none"
  /\ work' = [work EXCEPT ![m] = "guards"]
  /\ UNCHANGED <<config, boot, parts, shutdown, exit, faulted>>

\* The stores' part of a call.  Only what came by another channel is sent to
\* Status.
Guards(w) ==
  /\ Running /\ work[w] = "guards"
  /\ work' = [work EXCEPT ![w] =
                IF WithRedis /\ redis # "open" THEN "store closed"
                ELSE IF w \in Request /\ WithStatus THEN "publishing"
                ELSE "done"]
  /\ UNCHANGED <<config, boot, parts, shutdown, exit, faulted>>

PublishText(w) ==
  /\ Running /\ work[w] = "publishing"
  /\ \/ /\ client.connected /\ client.node
        /\ \E outcome \in {"done", "send failed"} :
             work' = [work EXCEPT ![w] = outcome]
     \/ /\ ~(client.connected /\ client.node)
        /\ work' = [work EXCEPT ![w] = "not connected"]
  /\ UNCHANGED <<config, boot, parts, shutdown, exit, faulted>>

-----------------------------------------------------------------------------
(* shutdown, once for each signal *)

\* What follows server.stop().  Mutant: the connections of the stores first.
CleanupFirst == "cleaning up"

AfterServer == "stopping"

\* The default action of the system until the handlers are installed.  The
\* second close() of a node:http server gets an error when the first is done.
Signalled(s) ==
  /\ Running /\ shutdown[s] = "none"
  /\ IF boot # "up"
     THEN /\ exit' = "killed"
          /\ UNCHANGED <<server, shutdown>>
     ELSE /\ server' = IF server = "closed" THEN "closed" ELSE "closing"
          /\ shutdown' = [shutdown EXCEPT ![s] =
               IF server = "closed" THEN AfterServer
               ELSE IF server = "closing" /\ config.ingress = "http"
                    THEN "closing again" ELSE "closing"]
          /\ UNCHANGED exit
  /\ UNCHANGED <<config, boot, redis, client, network, work, faulted>>

\* Mutant: connections are kept open after the answer.
DrainedForGood == \A r \in Request : work[r] = "none"

Drained == \A r \in Request : work[r] # "reading"

\* Mutant: the close event reaches one of those who wait for it.
ServerClosedToOne ==
  /\ Running /\ server = "closing" /\ Drained
  /\ server' = "closed"
  /\ \E s \in Signal :
       shutdown[s] = "closing" /\ shutdown' = [shutdown EXCEPT ![s] = AfterServer]
  /\ UNCHANGED <<config, boot, redis, client, network, work, exit, faulted>>

(* The close event.  After a second close() two continuations run at once: *)
(* the first shutdown() goes on, the second ends in a rejection that       *)
(* nothing handles, and wins unless there is nothing to wait for on the    *)
(* way to process.exit(0).                                                 *)
ServerClosed ==
  /\ Running /\ server = "closing" /\ Drained
  /\ server' = "closed"
  /\ IF \E s \in Signal : shutdown[s] = "closing again"
     THEN /\ exit' = IF WithStatus \/ WithRedis THEN "1" ELSE "0"
          /\ UNCHANGED shutdown
     ELSE /\ shutdown' = [s \in Signal |->
               IF shutdown[s] = "closing" THEN AfterServer ELSE shutdown[s]]
          /\ UNCHANGED exit
  /\ UNCHANGED <<config, boot, redis, client, network, work, faulted>>

Goto(s, stage) == shutdown' = [shutdown EXCEPT ![s] = stage]

\* Mutant: connected is cleared before anything is awaited.
DisconnectMarked(s) ==
  /\ client' = [client EXCEPT !.connected = FALSE]
  /\ Goto(s, IF ~client.connected THEN "cleaning up"
             ELSE IF client.unsubscribe # 0 THEN "unsubscribing"
             ELSE "stopping node")

Disconnect(s) ==
  /\ Goto(s, IF ~client.connected THEN "cleaning up"
             ELSE IF client.unsubscribe # 0 THEN "unsubscribing"
             ELSE "stopping node")
  /\ UNCHANGED client

\* runtime.stop, engine.stop: only the Status adapter has anything to stop.
\* The runtime's field started is not a variable: it is set before there are
\* handlers and cleared on the way to process.exit(0).
StopEngine(s) ==
  /\ Running /\ shutdown[s] = "stopping"
  /\ Disconnect(s)
  /\ UNCHANGED <<config, boot, redis, network, server, work, exit, faulted>>

\* The handle ends the subscription it was given for.  The other shutdown()
\* may have ended it, or stopped the node, meanwhile.
Unsubscribed(s) ==
  /\ Running /\ shutdown[s] = "unsubscribing"
  /\ network' = [network EXCEPT !.subscriptions = @ \ {client.unsubscribe}]
  /\ client' = [client EXCEPT !.unsubscribe = 0,
                              !.connected = @ /\ client.node]
  /\ Goto(s, IF client.node THEN "stopping node" ELSE "cleaning up")
  /\ UNCHANGED <<config, boot, redis, server, work, exit, faulted>>

\* Mutant: connected is left as it is.
ForgottenNode == [client EXCEPT !.node = FALSE]

Forgotten == [client EXCEPT !.node = FALSE, !.connected = FALSE]

NodeStopped(s) ==
  /\ Running /\ shutdown[s] = "stopping node"
  /\ network' = [running |-> FALSE, subscriptions |-> {}]
  /\ client' = Forgotten
  /\ Goto(s, "cleaning up")
  /\ UNCHANGED <<config, boot, redis, server, work, exit, faulted>>

\* Mutant: quit() whatever isOpen says; on a closed client it rejects.
QuitUnchecked(s) ==
  IF ~WithRedis THEN exit' = "0" /\ UNCHANGED <<redis, shutdown>>
  ELSE IF redis = "open" THEN redis' = "quitting" /\ Goto(s, "quitting") /\ UNCHANGED exit
  ELSE exit' = "1" /\ UNCHANGED <<redis, shutdown>>

\* isOpen is false as soon as quit() is called.
QuitIfOpen(s) ==
  \/ redis = "open" /\ redis' = "quitting" /\ Goto(s, "quitting") /\ UNCHANGED exit
  \/ redis # "open" /\ exit' = "0" /\ UNCHANGED <<redis, shutdown>>

Cleanup(s) ==
  /\ Running /\ shutdown[s] = "cleaning up"
  /\ QuitIfOpen(s)
  /\ UNCHANGED <<config, boot, client, network, server, work, faulted>>

Quit(s) ==
  /\ Running /\ shutdown[s] = "quitting"
  /\ redis' = "closed"
  /\ exit' = "0"
  /\ UNCHANGED <<config, boot, client, network, server, work, shutdown, faulted>>

-----------------------------------------------------------------------------

(* Whatever fails outside of a call ends the process with code 1: a step   *)
(* of bootstrap, in main's catch; a step of shutdown, whose promise nobody *)
(* waits for; the Redis connection, whose error event has no listener; the *)
(* record of an error (BridgeEngine).                                      *)
Fault ==
  /\ Running
  /\ exit' = "1"
  /\ faulted' = TRUE
  /\ UNCHANGED <<config, boot, parts, work, shutdown>>

Over == ~Running /\ UNCHANGED vars

Bootstrap ==
  \/ LoadConfig \/ ConnectRedis \/ BuildAdapters
  \/ StartNode \/ SubscriptionOpens \/ SubscribeAgain \/ Connected
  \/ Listen

StopStep(s) ==
  StopEngine(s) \/ Unsubscribed(s) \/ NodeStopped(s) \/ Cleanup(s) \/ Quit(s)

Next ==
  \/ Bootstrap
  \/ \E r \in Request : Receive(r) \/ Route(r)
  \/ \E m \in Message : Incoming(m)
  \/ \E w \in Request \cup Message : Guards(w) \/ PublishText(w)
  \/ \E s \in Signal : Signalled(s) \/ StopStep(s)
  \/ ServerClosed
  \/ Fault
  \/ Over

Spec == Init /\ [][Next]_vars

(* The closing of the server, unsubscribe(), stop() and QUIT come to an    *)
(* end.  Nothing forces a client to finish the body of its request.        *)
FairSpec ==
  /\ Spec
  /\ WF_vars(ServerClosed)
  /\ \A s \in Signal : WF_vars(StopStep(s))

-----------------------------------------------------------------------------
(* Properties *)

\* Besides the types: the fields of the client say no more than is so, and
\* connected stands for a node.
TypeOK ==
  /\ config \in Config
  /\ boot \in Boot
  /\ redis \in {"none", "open", "quitting", "closed"}
  /\ client \in [connected : BOOLEAN, unsubscribe : {0, 1, 2}, node : BOOLEAN]
  /\ network \in [running : BOOLEAN, subscriptions : SUBSET {1, 2}]
  /\ server \in {"none", "listening", "closing", "closed"}
  /\ work \in [Request \cup Message -> Work]
  /\ shutdown \in [Signal -> Shutdown]
  /\ exit \in {"running", "0", "1", "killed"}
  /\ faulted \in BOOLEAN
  /\ client.connected => client.node
  /\ client.unsubscribe # 0 => client.connected

\* Exit code 0 means a clean end, though two shutdown()s may have run into
\* each other: no request half read, nothing subscribed, the node stopped,
\* the connection of the stores closed or closing.
CleanExit ==
  exit = "0" =>
    /\ server = "closed"
    /\ \A r \in Request : work[r] # "reading"
    /\ ~network.running /\ network.subscriptions = {}
    /\ redis # "open"

\* No call finds Status unconnected unless a signal has come and the server
\* is closed: every route is opened after every adapter has started.
ConnectedWhileServing ==
  (\E w \in Request : work[w] = "not connected") => server = "closed"

\* No call finds its stores closed while messages come in.  They are open
\* before anything does: a message that the subscription brings during the
\* start finds them, though connected is not yet set.  And adapters stop
\* before the stores do, whichever shutdown() gets there.
StoresOutliveAdapters ==
  (\E w \in Request \cup Message : work[w] = "store closed") =>
    ~network.running /\ network.subscriptions = {} /\ server = "closed"

Unusable(env) ==
  ~Loads(env) \/ ~Valid(env) \/ ~AdaptersBuilt(env) \/ ~PortUsable(env)

\* Without a failure outside, exit code 1 has two explanations: something in
\* the environment, and then the process never served, or a second signal
\* while the node:http server was closing.
ErrorExitExplained ==
  exit = "1" =>
    \/ faulted
    \/ Unusable(config.env) /\ server = "none"
    \/ /\ config.ingress = "http"
       /\ \E s, t \in Signal : s # t /\ shutdown[s] # "none" /\ shutdown[t] # "none"

\* What a shutdown() waits for is still to come, though another may have
\* started it or seen its end: the close event of the server, the answer to
\* QUIT.  None waits for an event that was before its time.
AwaitedIsToCome ==
  Running =>
    \A s \in Signal :
      /\ shutdown[s] \in {"closing", "closing again"} => server = "closing"
      /\ shutdown[s] = "quitting" => redis = "quitting"

\* A signal ends the process, unless a client never finishes its request:
\* nothing in shutdown() waits for another shutdown(), or for a call.
SignalEndsProcess ==
  []<>( \/ \A s \in Signal : shutdown[s] = "none"
        \/ ~Running
        \/ \E r \in Request : work[r] = "reading" )

=============================================================================
