--------------------------- MODULE BridgeNetwork ----------------------------
(***************************************************************************)
(* Bridge processes that are subscribed to the chat they publish to: what  *)
(* one of them sends to Status comes back to all of them as a message of   *)
(* Status (channels/status), under a fresh id and nonce and under the      *)
(* sender's own key.  Each process is the engine of BridgeEngine with the  *)
(* default policy (core/config.ts).                                        *)
(***************************************************************************)
EXTENDS BridgeEngine

CONSTANTS
  Posts,          \* what others send, to any channel
  StatusKey,      \* the public key of each process
  AllowedSenders, \* config.status.allowedSenders; empty allows everyone
  Mint            \* the id that is drawn for what a call publishes

\* Mutant: the allowlist is not looked at.
EchoVerdictAny(n) == "authenticated"

\* verifyStatusEnvelope: the signature is good, the sender must be listed.
EchoVerdict(n) ==
  IF AllowedSenders = {} \/ StatusKey[n] \in AllowedSenders
  THEN "authenticated" ELSE "unauthenticated"

\* What publishText makes of a text of so many bytes, as it is received.
Echo(c, n, bytes) ==
  [ id |-> Mint[c], channel |-> "status", senderId |-> StatusKey[n],
    nonce |-> Mint[c], bytes |-> bytes, verdict |-> EchoVerdict(n),
    kind |-> "text", commandName |-> NoCommand ]

Sizes == {m.bytes : m \in Posts}

Echoes == {Echo(c, n, b) : c \in Call, n \in Node, b \in Sizes}

ASSUME NetworkAssumption ==
  /\ StatusKey \in [Node -> Sender]
  /\ AllowedSenders \subseteq Sender
  /\ Mint \in [Call -> Token]
  /\ \A c, d \in Call : Mint[c] = Mint[d] => c = d
  /\ \A m \in Posts, c \in Call : Mint[c] \notin {m.id, m.nonce}
  /\ Message = Posts \cup Echoes
  /\ HasRule("status") => ResolveRule("status").requireAuthentication

\* The bridge's own key is as good as any other: nothing filters it out.
Published(c) == \E i \in sent[c] : Targets(msg[c])[i] = "status"

Afloat ==
  Posts \cup {Echo(c, host[c], msg[c].bytes) : c \in {d \in Call : Published(d)}}

NetworkNext ==
  \/ \E c \in Call, n \in Node, m \in Afloat : Deliver(c, n, m)
  \/ \E c \in Call : Step(c) \/ Failure(c)
  \/ \E n \in Node : Crash(n)
  \/ Tick
  \/ Quiescent

NetworkSpec == Init /\ [][NetworkNext]_vars

-----------------------------------------------------------------------------
(* Properties *)

EchoOf(c, d) == pc[c] # "idle" /\ msg[c].id = Mint[d]

IsEcho(c) == \E d \in Call : EchoOf(c, d)

\* The message whose text a call handles: its own, or that of the call which
\* published it.
TextOf(c) == IF IsEcho(c) THEN msg[CHOOSE d \in Call : EchoOf(c, d)] ELSE msg[c]

\* One store lets the gateway see a text twice only for the reasons of
\* SecondIngestExplained, or because it came back from Status under a key of
\* a bridge that is listed as a sender.
TextTakenTwiceExplained ==
  \A c, d \in Call :
    /\ c # d /\ SameStore(c, d) /\ TextOf(c) = TextOf(d)
    /\ ingestedAt[c] # Never /\ ingestedAt[d] # Never
    /\ admittedAt[c] <= admittedAt[d]
    => \/ /\ msg[c] = msg[d]
          /\ \/ markedAt[c] = Never
             \/ markedAt[c] >= admittedAt[c] + ReplayTtl
             \/ /\ CallStore(c) \in Redis
                /\ ingestedAt[d] >= markedAt[c] + IdempotencyTtl
       \/ \E e \in {c, d}, n \in Node :
            /\ IsEcho(e) /\ msg[e].senderId = StatusKey[n]
            /\ AllowedSenders # {} => StatusKey[n] \in AllowedSenders

\* An echo has no echo, and comes back only from a call whose message was
\* ingested and marked: however many processes listen, the chat sees a text
\* no more often than a gateway did.
EchoesEnd ==
  \A c \in Call :
    IsEcho(c) =>
      /\ ~Published(c)
      /\ \A d \in Call : EchoOf(c, d) => ingestedAt[d] # Never /\ markedAt[d] # Never

\* docs/03_STATUS_INSTALLATION.md:65, "Send known-valid text payload -> expect
\* accept + ingest + configured fanout".
ConfiguredFanout ==
  \A c \in Call :
    /\ pc[c] \in Settled /\ ingestedAt[c] # Never
    /\ msg[c].channel = "status" /\ msg[c].kind = "text"
    => sent[c] = Eligible(msg[c])

-----------------------------------------------------------------------------
(* The inductive invariant, with that of the engine *)

\* Only what is published comes back, only targets are served, and only for
\* a message that is marked.
EchoInv ==
  \A c \in Call :
    /\ sent[c] # {} =>
         sent[c] \subseteq Eligible(msg[c]) /\ markedAt[c] # Never
    /\ \A d \in Call : EchoOf(c, d) => Published(d)

=============================================================================
