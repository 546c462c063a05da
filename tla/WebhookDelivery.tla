-------------------------- MODULE WebhookDelivery ---------------------------
(***************************************************************************)
(* Providers post, and post again, what the adapters turn into messages    *)
(* for the engine.  ChannelAdapters says which message each post gives,    *)
(* BridgeContract stands for the engine, which implements it (the module   *)
(* BridgeRefinement): what two guards that go by replay key and id make of *)
(* ids and nonces that come from seven providers.  No fan-out.             *)
(***************************************************************************)
EXTENDS ChannelAdapters

CONSTANTS
  Call,      \* the calls of the engine
  Feeds,     \* sets of what providers may post, any number of times
  Adapters,  \* the adapters registered in the processes of each place
  IngressOf, \* and the ways their webhooks come in
  Place, Expiring, Ttl, CommitTtl,   \* as in BridgeContract
  MaxTime,   \* bound on the clock
  None

Posts == UNION Feeds

ASSUME DeliveryAssumption ==
  /\ Posts \subseteq Webhook /\ None \notin Posts
  /\ Adapters \in [Place -> SUBSET Channel]
  /\ IngressOf \in [Place -> (SUBSET Ingress) \ {{}}]
  /\ Ttl \in Nat \ {0} /\ CommitTtl \in Nat \ {0} /\ MaxTime \in Nat

(* How providers number the messages that they post themselves.  Each      *)
(* gives them ids of their own.  An update id of Telegram, a snowflake of  *)
(* Discord and the milliseconds of a clock are numbers of different        *)
(* lengths, a ts of Slack has a point.  Nobody who posts through Signal is *)
(* named like a prefix.  Nothing is said of Status and e-mail, where the   *)
(* sender chooses the ids, nor of any post that is not genuine.            *)
Numbering == {"telegram", "slack", "discord", "whatsapp"}

ASSUME NumberingAssumption ==
  LET Numbered ==
        {w \in Posts : HasMessage(w) /\ w.genuine /\ w.channel \in Numbering}
      LongNumber(text) ==
        text # Absent /\ text[1] = "" /\ text[2] \notin 0 .. MaxTime
  IN /\ \A v, w \in Numbered :
          /\ v.serial # w.serial
          /\ \/ v.channel = w.channel
             \/ v.channel = "telegram" /\ w.channel = "discord"
          => v.id = Absent \/ v.id # w.id
     /\ \A w \in Numbered :
          /\ w.channel \in {"telegram", "discord"} => LongNumber(w.id)
          /\ w.channel = "whatsapp" => w.id # Absent /\ w.id[1] = "wamid"
          /\ w.channel = "slack" => /\ w.id = Absent \/ w.id[1] = "Ev"
                                    /\ w.stamp = Absent \/ w.stamp[1] = "ts"
     /\ Name \cap {"", "Ev", "wamid"} = {}

VARIABLES clock, stage, message, place, admitted, committed, remembered,
          reached,
          feed,     \* what the providers post in this behaviour
          origin,   \* what was posted, for each call
          arrival,  \* when,
          where,    \* and to a process at which place
          answer,   \* what the provider was told, "none" for Status
          taken     \* history: the calls whose message the gateway took

engineVars == <<clock, stage, message, place, admitted, committed,
                remembered, reached>>
postVars == <<feed, origin, arrival, where, answer, taken>>
vars == <<engineVars, postVars>>

Never == -1

\* makeReplayKey: the id stands in for a missing nonce.
ReplayKey(m) == <<m.channel, m.senderId, Or(m.nonce, m.id)>>

IdOf(m) == m.id

NoFanout(m) == {}

Messages ==
  {MessageOf(w, t) : w \in {p \in Posts : HasMessage(p)}, t \in 0 .. MaxTime}

Engine ==
  INSTANCE BridgeContract
    WITH Message <- Messages, KeyOf <- ReplayKey, Fanout <- NoFanout

Init ==
  /\ Engine!Init
  /\ feed \in Feeds
  /\ origin = [c \in Call |-> None]
  /\ arrival = [c \in Call |-> Never]
  /\ where = [c \in Call |-> None]
  /\ answer = [c \in Call |-> "none"]
  /\ taken = {}

Unused(c) == origin[c] = None

\* A post reaches a process at p, and is answered.
Arrives(c, w, p, ingress) ==
  /\ Unused(c)
  /\ ingress \in IngressOf[p]
  /\ w.channel = "status" => "status" \in Adapters[p]
  /\ origin' = [origin EXCEPT ![c] = w]
  /\ arrival' = [arrival EXCEPT ![c] = clock]
  /\ where' = [where EXCEPT ![c] = p]
  /\ answer' = [answer EXCEPT ![c] = Answer(ingress, w, Adapters[p])]
  /\ UNCHANGED <<feed, taken>>

\* The adapter emits its message, the answer is given at once.
Post(c, w) ==
  \E p \in Place, ingress \in Ingress :
    /\ Arrives(c, w, p, ingress)
    /\ Emits(ingress, w, Adapters[p])
    /\ Engine!Receive(c)
    /\ place'[c] = p
    /\ message'[c] = MessageOf(w, clock)

\* Nothing is emitted.
PostIdly(c, w) ==
  \E p \in Place, ingress \in Ingress :
    /\ Arrives(c, w, p, ingress)
    /\ ~Emits(ingress, w, Adapters[p])
    /\ ~(w.channel = "status" /\ WakuThrows(w))
    /\ UNCHANGED engineVars

\* handleWakuMessage throws, and nothing handles its rejection: the process
\* ends, with the calls it runs and with what it has in memory.
Poisoned(c, w) ==
  \E p \in Place, ingress \in Ingress :
    /\ Arrives(c, w, p, ingress)
    /\ w.channel = "status" /\ WakuThrows(w)
    /\ \/ p \notin Expiring /\ Engine!Forget(p)
       \/ p \in Expiring /\ (Engine!Close \/ UNCHANGED engineVars)

\* enforcePayloadLimit comes before the replay guard, and this before verify():
\* what is admitted need not be authentic.
Admit(c) ==
  Engine!Admit(c) /\ message[c].fits /\ UNCHANGED postVars

\* Mutant: what is not authentic is taken all the same.
PolicyMetBlindly(m) == m.kind # "command"

\* The default policy asks every channel for authentication, and lists
\* neither senders nor commands: no command is allowed.
PolicyMet(m) == Authenticated(m) /\ m.kind # "command"

Take(c) ==
  /\ Engine!Take(c)
  /\ PolicyMet(message[c])
  /\ taken' = taken \cup {c}
  /\ UNCHANGED <<feed, origin, arrival, where, answer>>

Commit(c) == Engine!Commit(c) /\ UNCHANGED postVars

Close == Engine!Close /\ UNCHANGED postVars

Forget(p) == Engine!Forget(p) /\ UNCHANGED postVars

Advance ==
  clock < MaxTime /\ Engine!Advance /\ UNCHANGED postVars

\* Every call has been used.
Quiescent ==
  /\ \A c \in Call : ~Unused(c) /\ stage[c] \in {"idle", "over"}
  /\ UNCHANGED vars

Next ==
  \/ \E c \in Call, w \in feed : Post(c, w) \/ PostIdly(c, w) \/ Poisoned(c, w)
  \/ \E c \in Call : Admit(c) \/ Take(c) \/ Commit(c)
  \/ Close
  \/ \E p \in Place \ Expiring : Forget(p)
  \/ Advance
  \/ Quiescent

Spec == Init /\ [][Next]_vars

-----------------------------------------------------------------------------
(* Properties *)

\* The posts whose id, or whose id and nonce, the adapter makes up.
IdMadeUp(w) ==
  \/ w.channel = "slack" /\ w.id = Absent
  \/ w.channel = "signal" /\ w.stamp = Absent

KeyMadeUp(w) == IdMadeUp(w) /\ w.stamp = Absent

\* A post that is repeated to the same place is taken twice only when the
\* TTL of its replay key has passed in between, and even then only if the
\* first call had not committed when the second was admitted, or its
\* commitment has expired.  The posts without an id of their own are the
\* exception: of these the engine cannot tell a repetition.
RepeatTakenExplained ==
  \A c, d \in taken :
    /\ c # d /\ origin[c] = origin[d] /\ place[c] = place[d]
    /\ remembered[c] /\ remembered[d]
    /\ admitted[c] <= admitted[d]
    => /\ KeyMadeUp(origin[c]) \/ admitted[d] >= admitted[c] + Ttl
       /\ \/ IdMadeUp(origin[c])
          \/ committed[c] = Never
          \/ committed[c] >= admitted[d]
          \/ place[c] \in Expiring /\ clock >= committed[c] + CommitTtl

\* Messages that are told apart by neither guard although their provider
\* vouches for both: two Signal messages of one sender with one timestamp, be
\* it given or read from the clock, two Slack messages of one sender with one
\* ts, and two Slack messages without an id that came at once.
Mistakable(c, d) ==
  LET v == origin[c]
      w == origin[d]
  IN /\ v.channel = w.channel
     /\ \/ /\ v.channel = "signal" /\ v.from = w.from
           /\ Millis(v, arrival[c]) = Millis(w, arrival[d])
        \/ /\ v.channel = "slack" /\ v.from = w.from
           /\ v.stamp = w.stamp /\ v.stamp # Absent
        \/ /\ v.channel = "slack" /\ IdMadeUp(v) /\ IdMadeUp(w)
           /\ arrival[c] = arrival[d]

\* The daemon of Signal is believed.
VouchedFor(w) == w.channel = "signal" \/ w.genuine

Another(c, d) ==
  /\ stage[c] # "idle" /\ remembered[d] /\ place[c] = place[d]
  /\ origin[c].serial # origin[d].serial

\* When a message that its provider vouches for finds its replay key taken by
\* another message, the two are mistakable, or one sender of Status or e-mail
\* gave both the same nonce, or the other was not vouched for: the key is set
\* before verify() looks at the signature, and stays set when that fails.
KeyTakenExplained ==
  \A c, d \in Call :
    /\ Another(c, d) /\ VouchedFor(origin[c])
    /\ ReplayKey(message[c]) = ReplayKey(message[d])
    => \/ Mistakable(c, d)
       \/ origin[d].channel \in {"status", "email"} /\ origin[c].from = origin[d].from
       \/ ~VouchedFor(origin[d])

\* The idempotency store goes by the id alone, whatever the channel and the
\* sender.  Only what the gateway took gets there, and of that a message which
\* is vouched for finds its id among others' only when the two are mistakable,
\* or when one of them came by Status or e-mail, whose senders choose the ids.
IdTakenExplained ==
  \A c, d \in Call :
    /\ Another(c, d) /\ VouchedFor(origin[c])
    /\ committed[d] # Never /\ message[c].id = message[d].id
    => \/ Mistakable(c, d)
       \/ {origin[c].channel, origin[d].channel} \cap {"status", "email"} # {}

\* What the gateway takes was vouched for by its provider, where there is
\* something to check, comes from where the adapter's list allows, and is no
\* command: that the default policy allows none shuts out Discord altogether.
TakenIsVouchedFor ==
  \A c \in taken :
    LET w == origin[c]
        From(name) ==
          \E n \in Allowed[w.channel] : LowerCase[n] = LowerCase[name]
    IN /\ Kind(w) # "command"
       /\ VouchedFor(w) \/ (w.channel = "email" /\ ~RequireDkimPass)
       /\ Allowed[w.channel] # {} =>
            IF w.channel \in {"telegram", "slack"}
            THEN w.place \in Allowed[w.channel]
            ELSE w.from # Absent /\ From(w.from)

\* A provider is told of an error only for a post that started nothing, so
\* that what it repeats is no message that was taken.  And when it is told
\* that all is well with a post, its message has started a call, unless the
\* adapter is not registered there or Signal names no source; for Signal and
\* e-mail that goes for posts without any text as well.  (Of several
\* messages in one post of WhatsApp this is true of the first.)
AnswerKept ==
  \A c \in Call :
    LET w == origin[c]
        started == stage[c] # "idle"
    IN /\ answer[c] = "error" => ~started
       /\ answer[c] = "ok" /\ HasMessage(w) =>
            \/ started
            \/ w.channel = "signal" /\ w.from = Absent
            \/ w.channel \notin Adapters[where[c]]

=============================================================================
