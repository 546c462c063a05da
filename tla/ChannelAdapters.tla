-------------------------- MODULE ChannelAdapters ---------------------------
(***************************************************************************)
(* The inbound half of the seven adapters (adapter.ts in src/channels/...  *)
(* and the message handler of status/waku-client.ts), the routes in front  *)
(* of them (server.ts, ingress/...) and the verifiers behind               *)
(* (crypto/verifiers.ts): what a provider is answered, which message an    *)
(* adapter makes of its post, under which id and nonce, and whether        *)
(* verify() finds it authentic.                                            *)
(*                                                                         *)
(* Ids and nonces are texts that adapters pass on as they come: what a     *)
(* provider numbers, or any text where the sender chooses it or the post   *)
(* is not the provider's at all; nothing checks them.                      *)
(***************************************************************************)
EXTENDS Integers

CONSTANTS
  Name,            \* senders, chats, channels and guilds
  LowerCase,       \* the lower case of each
  Allowed,         \* the allowlist of each adapter; empty allows everyone
  RequireDkimPass, \* config.email.requireDkimPass
  StatusChat,      \* config.status.chatId
  Unknown,         \* the text "unknown"
  Absent           \* a field that is not there

Channel ==
  {"status", "telegram", "slack", "discord", "whatsapp", "signal", "email"}

(* A text: a prefix and a number.  The prefix "" leaves a plain number.    *)
Text == STRING \X Nat

(* What comes in as a post of a provider.  serial tells messages apart and *)
(* is on no wire.  The form of a post is a message for the bridge, a       *)
(* control post (a ping, a challenge, a subscription), any other JSON      *)
(* object (a delivery report, a bot's own message, an e-mail without       *)
(* body), or malformed: no JSON, or for Status a key or a signature that   *)
(* is not hex of its length.  A body may be too long for fastify, a text   *)
(* for the engine.  more counts the messages of the post behind the first. *)
(* stamp is Slack's event.ts, Signal's timestamp and the nonce of a Status *)
(* payload.  genuine says that the signature, the secret token or the DKIM *)
(* result checks out; without these a post may hold anything.              *)
Webhook ==
  [ serial : Nat, channel : Channel,
    form : {"message", "control", "other", "malformed"},
    longBody : BOOLEAN, longText : BOOLEAN,
    more : Nat, text : {"plain", "slash", "audio"},
    id : Text \cup {Absent}, stamp : Text \cup {Absent},
    from : Name \cup {Absent}, place : Name \cup {Absent},
    guild : Name \cup {Absent}, genuine : BOOLEAN ]

Ingress == {"http", "fastify", "nest"}

ASSUME AdaptersAssumption ==
  /\ Name \cup {""} \subseteq STRING
  /\ LowerCase \in [Name -> Name]
  /\ Allowed \in [Channel -> SUBSET Name]
  /\ RequireDkimPass \in BOOLEAN
  /\ StatusChat \in Name
  /\ Unknown \notin Name /\ Absent \notin Name \cup Text

Or(field, default) == IF field = Absent THEN default ELSE field

\* Date.now() as a text, and what a template makes of a missing id.
Clock(t) == <<"", t>>

Undefined == <<"undefined", 0>>

\* normalize(): what starts with "/" is a command, audio excepted; Discord's
\* adapter writes the "/" itself.
Kind(w) ==
  IF w.channel = "discord" \/ (w.form = "message" /\ w.text = "slash")
  THEN "command" ELSE w.text

\* What adapters keep of the post for verify(), normalize() and the policy.
\* An e-mail without a body does not even have a length.
Raw(w, id, nonce, sender, conversation) ==
  [ channel |-> w.channel, id |-> id, nonce |-> nonce, senderId |-> sender,
    conversationId |-> conversation, guildId |-> w.guild,
    genuine |-> w.genuine, kind |-> Kind(w),
    fits |-> ~w.longText /\ (w.channel = "email" => w.form = "message") ]

-----------------------------------------------------------------------------
(* The message of a post that comes at the time t *)

\* Mutant: the date of the message for its nonce.
TelegramDated(w, t) ==
  Raw(w, Or(w.id, Undefined), Clock(t), Or(w.from, w.place), w.place)

Telegram(w, t) ==
  LET id == Or(w.id, Undefined)
  IN Raw(w, id, id, Or(w.from, w.place), w.place)

\* Mutant: never the id of the event.
SlackTimed(w, t) ==
  Raw(w, Clock(t), w.stamp, Or(w.from, Unknown), Or(w.place, Unknown))

Slack(w, t) ==
  Raw(w, Or(w.id, Clock(t)), w.stamp, Or(w.from, Unknown), Or(w.place, Unknown))

Discord(w, t) ==
  LET id == Or(w.id, Undefined)
  IN Raw(w, id, id, Or(w.from, Unknown), Or(w.place, Unknown))

WhatsApp(w, t) ==
  LET id == Or(w.id, Undefined) IN Raw(w, id, id, w.from, w.from)

\* The timestamp of an envelope is a number.  The clock is read in its stead
\* for the id and again for the nonce.
Millis(w, t) == Or(w.stamp, Clock(t))[2]

Signal(w, t) ==
  Raw(w, <<w.from, Millis(w, t)>>, Clock(Millis(w, t)), w.from, w.from)

Email(w, t) ==
  LET id == Or(w.id, Undefined) IN Raw(w, id, id, w.from, w.from)

Status(w, t) == Raw(w, w.id, w.stamp, w.from, w.place)

MessageOf(w, t) ==
  CASE w.channel = "telegram" -> Telegram(w, t)
    [] w.channel = "slack"    -> Slack(w, t)
    [] w.channel = "discord"  -> Discord(w, t)
    [] w.channel = "whatsapp" -> WhatsApp(w, t)
    [] w.channel = "signal"   -> Signal(w, t)
    [] w.channel = "email"    -> Email(w, t)
    [] w.channel = "status"   -> Status(w, t)

-----------------------------------------------------------------------------
(* What a process with these adapters does of a post *)

\* Signal's adapter takes any envelope for a message, the receipt of one
\* included, and that for e-mail any object.
HasMessage(w) ==
  \/ w.form = "message"
  \/ w.channel \in {"signal", "email"} /\ w.form # "malformed"

\* handleWakuMessage passes on what has the shape of a payload, is for the
\* chat and is signed; the rest gives a warning, to which nobody listens.
WakuPasses(w) ==
  /\ w.form = "message" /\ w.id # Absent /\ w.stamp # Absent
  /\ w.place = StatusChat /\ w.genuine

\* The signature is checked last, with a library that throws.
WakuThrows(w) == w.form = "malformed" /\ w.place = StatusChat

\* The subscription of WhatsApp is a GET.
Subscribes(w) == w.channel = "whatsapp" /\ w.form = "control"

\* fastify and nest refuse malformed and overlong bodies themselves.  With
\* node:http the adapter parses the body, or the route does.
RouteFails(ingress, w, adapters) ==
  /\ w.channel # "status" /\ ~Subscribes(w)
  /\ \/ /\ w.form = "malformed"
        /\ ingress = "http" => w.channel \in adapters \cup {"signal", "email"}
     \/ w.longBody /\ ingress # "http"

\* Mutant: a sender without a name is passed over in silence.
EmitsNamed(ingress, w, adapters) ==
  /\ w.channel \in adapters /\ HasMessage(w) /\ w.from # Absent
  /\ ~RouteFails(ingress, w, adapters)
  /\ w.channel = "status" => WakuPasses(w)

\* Whether a post starts a call of the engine: one, for its first message.
Emits(ingress, w, adapters) ==
  /\ w.channel \in adapters /\ HasMessage(w)
  /\ ~RouteFails(ingress, w, adapters)
  /\ w.channel = "signal" => w.from # Absent
  /\ w.channel = "status" => WakuPasses(w)

\* What the provider is told.  Only a WhatsApp subscription is checked
\* before its answer; Slack's challenge and Discord's ping are not.
Answer(ingress, w, adapters) ==
  CASE w.channel = "status" -> IF WakuPasses(w) THEN "none" ELSE "warning"
    [] RouteFails(ingress, w, adapters) -> "error"
    [] Subscribes(w) -> IF w.genuine /\ "whatsapp" \in adapters THEN "ok" ELSE "error"
    [] OTHER -> "ok"

-----------------------------------------------------------------------------
(* verify() *)

Listed(channel, name) == Allowed[channel] = {} \/ name \in Allowed[channel]

\* A missing sender has no lower case: verify() throws.
ListedAnyCase(channel, name) ==
  \/ Allowed[channel] = {}
  \/ name \in Name /\ \E n \in Allowed[channel] : LowerCase[n] = LowerCase[name]

\* Mutant: only the list is looked at.
VerifyTelegramListed(raw) == Listed("telegram", raw.conversationId)

VerifyTelegram(raw) == raw.genuine /\ Listed("telegram", raw.conversationId)

VerifySlack(raw) == raw.genuine /\ Listed("slack", raw.conversationId)

\* A direct message has no guild, and the list does not concern it.
VerifyDiscord(raw) ==
  raw.genuine /\ (raw.guildId # Absent => Listed("discord", raw.guildId))

VerifyWhatsApp(raw) == raw.genuine /\ ListedAnyCase("whatsapp", raw.senderId)

\* The RPC daemon is trusted.
VerifySignal(raw) == ListedAnyCase("signal", raw.senderId)

VerifyEmail(raw) ==
  (RequireDkimPass => raw.genuine) /\ ListedAnyCase("email", raw.senderId)

VerifyStatus(raw) ==
  /\ raw.genuine /\ raw.conversationId = StatusChat
  /\ ListedAnyCase("status", raw.senderId)

Authenticated(raw) ==
  CASE raw.channel = "telegram" -> VerifyTelegram(raw)
    [] raw.channel = "slack"    -> VerifySlack(raw)
    [] raw.channel = "discord"  -> VerifyDiscord(raw)
    [] raw.channel = "whatsapp" -> VerifyWhatsApp(raw)
    [] raw.channel = "signal"   -> VerifySignal(raw)
    [] raw.channel = "email"    -> VerifyEmail(raw)
    [] raw.channel = "status"   -> VerifyStatus(raw)

=============================================================================
