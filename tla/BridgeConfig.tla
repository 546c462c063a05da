---------------------------- MODULE BridgeConfig ----------------------------
(***************************************************************************)
(* What loadConfigFromEnv and validateCriticalConfig (core/config.ts) make *)
(* of the environment of a process, and which adapters createBridgeRuntime *)
(* (runtime.ts) builds from that.                                          *)
(*                                                                         *)
(* Of a text variable it matters whether it has content, of a number how   *)
(* Number() reads it.  Some variables have no part in any decision and are *)
(* left out: names, paths, prefixes, allowlists.                           *)
(***************************************************************************)
EXTENDS Integers

Kinds ==
  {"status", "whatsapp", "telegram", "signal", "discord", "slack", "email"}

\* What each adapter sends with, and what it verifies with.  It is only asked
\* whether these are given: a DISCORD_PUBLIC_KEY that is no key is found by
\* each verify() anew, which throws, and an EMAIL_SMTP_PORT that is no port by
\* each mail, which fails.
SendsWith(channel) ==
  CASE channel = "status"   -> {"STATUS_PRIVATE_KEY_HEX"}
    [] channel = "whatsapp" -> {"WHATSAPP_ACCESS_TOKEN", "WHATSAPP_PHONE_NUMBER_ID"}
    [] channel = "telegram" -> {"TELEGRAM_BOT_TOKEN"}
    [] channel = "signal"   -> {"SIGNAL_RPC_URL"}
    [] channel = "discord"  -> {"DISCORD_BOT_TOKEN"}
    [] channel = "slack"    -> {"SLACK_BOT_TOKEN"}
    [] channel = "email"    -> {"EMAIL_SMTP_HOST", "EMAIL_USERNAME", "EMAIL_PASSWORD"}

VerifiesWith(channel) ==
  CASE channel = "status"   -> {"STATUS_EXPECTED_TOPIC", "STATUS_COMMUNITY_ID",
                                "STATUS_CHAT_ID"}
    [] channel = "whatsapp" -> {"WHATSAPP_APP_SECRET"}
    [] channel = "telegram" -> {"TELEGRAM_WEBHOOK_SECRET_TOKEN"}
    [] channel = "discord"  -> {"DISCORD_PUBLIC_KEY"}
    [] channel = "slack"    -> {"SLACK_SIGNING_SECRET"}
    [] channel \in {"signal", "email"} -> {}

Variables ==
  UNION {SendsWith(c) \cup VerifiesWith(c) : c \in Kinds}
    \cup {"STATUS_WAKU_BOOTSTRAP_NODES", "EMAIL_IMAP_HOST"}

Numbers ==
  {"OPENCLAW_HTTP_PORT", "OPENCLAW_REPLAY_TTL_MS", "OPENCLAW_IDEMPOTENCY_TTL_MS",
   "OPENCLAW_RATE_LIMIT_PER_MIN", "EMAIL_IMAP_PORT", "EMAIL_SMTP_PORT"}

\* "" is unset or empty; a port is "high" above 65535.
NumberText == {"", "whole", "high", "fraction", "Infinity", "0", "-1", "many"}

Env ==
  [ enabled  : SUBSET Kinds,          \* <CHANNEL>_ENABLED
    bridged  : SUBSET Kinds,          \* BRIDGE_ENABLE_<CHANNEL>
    given    : SUBSET Variables,
    number   : [Numbers -> NumberText],
    backend  : {"unset", "memory", "redis", "other"},
    redisUrl : {"unset", "empty", "given"},
    keyBytes : Nat ]                  \* of STATUS_PRIVATE_KEY_HEX, as hex

\* asNum throws for what is no number and what is not positive; a fraction
\* and Infinity are numbers.
AsNumThrows(text) == text \in {"0", "-1", "many"}

AsNum(text, fallback) == IF text = "" THEN fallback ELSE text

Loads(env) ==
  /\ \A n \in Numbers : ~AsNumThrows(env.number[n])
  /\ env.backend # "other"

StoreBackend(env) == IF env.backend = "unset" THEN "memory" ELSE env.backend

\* What validateCriticalConfig asks for when the channel is enabled.
Required(channel) ==
  CASE channel = "status" -> SendsWith("status") \cup VerifiesWith("status")
                               \cup {"STATUS_WAKU_BOOTSTRAP_NODES"}
    [] channel \in {"whatsapp", "telegram"}
         -> SendsWith(channel) \cup VerifiesWith(channel)
    [] channel \in {"discord", "slack"} -> VerifiesWith(channel)
    [] channel = "email" -> SendsWith("email") \cup {"EMAIL_IMAP_HOST"}
    [] channel = "signal" -> {}

\* REDIS_URL has a default, which an empty text does not give way to.
Valid(env) ==
  /\ StoreBackend(env) = "redis" => env.redisUrl # "empty"
  /\ \A c \in env.enabled : Required(c) \subseteq env.given

\* deriveStatusPublicKeyHex throws in the constructor of the Waku client.
AdaptersBuilt(env) == "status" \in env.enabled => env.keyBytes \in {32, 64}

\* listen() throws for what is no port.
PortUsable(env) == AsNum(env.number["OPENCLAW_HTTP_PORT"], "whole") = "whole"

\* Status is always a target: no variable switches it off.
FanoutTargets(env) == env.bridged \cup {"status"}

-----------------------------------------------------------------------------
(* The policy: there is no way to configure another *)

defaultRule(channel, limit, targets) ==
  [ sourceChannel |-> channel, requireAuthentication |-> TRUE,
    allowedSenders |-> {}, allowedCommands |-> {},
    maxPayloadBytes |-> limit, fanoutTargets |-> targets ]

defaultPolicy ==
  << defaultRule("status", 32768, << "telegram", "discord", "slack", "email" >>),
     defaultRule("whatsapp", 16384, << "status", "slack", "email" >>),
     defaultRule("telegram", 16384, << "status", "discord", "email" >>),
     defaultRule("signal", 16384, << "status", "slack", "email" >>),
     defaultRule("discord", 16384, << "status", "slack", "email" >>),
     defaultRule("slack", 16384, << "status", "discord", "email" >>),
     defaultRule("email", 65536, << "status", "slack", "discord" >>) >>

=============================================================================
