--------------------------- MODULE MCBridgeEngine ---------------------------
(***************************************************************************)
(* Small instances of BridgeEngine for TLC.  Slack is registered but not   *)
(* enabled as a target, discord is enabled but not registered, so that     *)
(* every test of the fan-out loop matters.                                 *)
(***************************************************************************)
EXTENDS BridgeRefinement, BridgeInvariant, BridgeClaims, TLC

CONSTANTS c1, c2, n1, n2, n3, redis, memory

MCChannel    == {"status", "telegram", "slack", "discord", "email"}
MCSender     == {"alice", "Alice", "mallory"}
MCLowerCase  == [s \in MCSender |-> IF s = "Alice" THEN "alice" ELSE s]
MCCommand    == {"ping", "wipe"}
MCToken      == {"t1", "t2"}
MCRegistered == {"status", "telegram", "slack", "email"}
MCEnabled    == {"status", "telegram", "discord", "email"}
MCStalling   == {"email"}

MCRule(source, commands, targets) ==
  [ sourceChannel |-> source, requireAuthentication |-> TRUE,
    allowedSenders |-> {"Alice"}, allowedCommands |-> commands,
    maxPayloadBytes |-> 2, fanoutTargets |-> targets ]

\* The second rule of a channel is never reached, and telegram has none.
MCRules ==
  << MCRule("status", {"ping"},
            << "status", "telegram", "slack", "email", "discord" >>),
     MCRule("slack", {}, << "status" >>),
     MCRule("status", {}, << "email" >>) >>

\* The same without any fan-out, for the questions about the two stores.
MCRulesNoFanout == << MCRule("status", {}, << >>) >>

\* Two targets.
MCRulesShort == << MCRule("status", {}, << "telegram", "email" >>) >>

Msg(id, nonce) ==
  [ id |-> id, channel |-> "status", senderId |-> "alice", nonce |-> nonce,
    bytes |-> 1, verdict |-> "authenticated", kind |-> "text",
    commandName |-> NoCommand ]

\* One message, delivered again and again.
Redelivered == {Msg("t1", "t1")}

\* One id under two nonces, as when a Status client sends a message again.
Resent == {Msg("t1", "t1"), Msg("t1", "t2")}

\* One reason to refuse each, and four that are let through.  A Slack event
\* without a timestamp of its own has no nonce.
Filtered ==
  LET good == [Msg("t1", NoNonce) EXCEPT !.channel = "slack"]
      ping == [good EXCEPT !.kind = "command", !.commandName = "ping"]
  IN { good,
       [good EXCEPT !.senderId = "mallory"],
       [good EXCEPT !.senderId = "Alice", !.bytes = 2],
       [good EXCEPT !.bytes = 3],
       [good EXCEPT !.verdict = "unauthenticated"],
       [good EXCEPT !.verdict = "throws"],
       [good EXCEPT !.channel = "telegram"],
       [good EXCEPT !.channel = "discord"],
       ping,
       [ping EXCEPT !.channel = "status"],
       [ping EXCEPT !.channel = "status", !.senderId = "Alice"],
       [ping EXCEPT !.channel = "status", !.commandName = "wipe"],
       [ping EXCEPT !.channel = "status", !.commandName = NoCommand] }

\* In most runs every conversation is an address everywhere; in that of the
\* outcomes that of Alice's message to Status is none with the mail server.
MCAddresses == [m \in Message |-> Channel]

FilteredAddresses ==
  [m \in Message |-> IF m.senderId = "Alice" THEN {"telegram"} ELSE Channel]

\* Two processes share a Redis server, a third has its own memory.
Mixed    == n1 :> redis @@ n2 :> redis @@ n3 :> memory
OneOfEach == n1 :> redis @@ n3 :> memory
OneMemory == n1 :> memory
OneRedis  == n1 :> redis

AllFaults == FaultKind

CallSymmetry == Permutations(Call)

=============================================================================
