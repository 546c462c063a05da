------------------------- MODULE MCBridgeLifecycle -------------------------
(***************************************************************************)
(* Small instances of BridgeLifecycle: the four environments whose process *)
(* differs in what it holds open, and one for each reason why a start may  *)
(* fail, or succeed nevertheless.                                          *)
(***************************************************************************)
EXTENDS BridgeLifecycle

Sound ==
  [ enabled |-> Kinds, bridged |-> Kinds, given |-> Variables,
    number |-> [n \in Numbers |-> ""], backend |-> "redis",
    redisUrl |-> "unset", keyBytes |-> 32 ]

Serving ==
  { Sound,
    [Sound EXCEPT !.backend = "unset", !.keyBytes = 64],
    [Sound EXCEPT !.enabled = @ \ {"status"}, !.keyBytes = 0],
    [Sound EXCEPT !.enabled = {"signal"}, !.backend = "memory",
                  !.given = {"SIGNAL_RPC_URL"}, !.redisUrl = "empty"] }

Lacking ==
  {[Sound EXCEPT !.given = @ \ {v}] :
     v \in Variables \ {"SIGNAL_RPC_URL", "DISCORD_BOT_TOKEN", "SLACK_BOT_TOKEN"}}

Misread ==
  { [Sound EXCEPT !.number[n] = text] :
      n \in {"OPENCLAW_HTTP_PORT", "OPENCLAW_REPLAY_TTL_MS"},
      text \in {"0", "-1", "many"} }

NoPort ==
  { [Sound EXCEPT !.number["OPENCLAW_HTTP_PORT"] = text] :
      text \in {"high", "fraction", "Infinity"} }

MCEnvironment ==
  Serving \cup Lacking \cup Misread \cup NoPort \cup
  { [Sound EXCEPT !.backend = "other"],
    [Sound EXCEPT !.redisUrl = "empty"],
    [Sound EXCEPT !.keyBytes = 31] }

=============================================================================
