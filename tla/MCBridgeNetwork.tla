-------------------------- MODULE MCBridgeNetwork ---------------------------
(***************************************************************************)
(* Small instances of BridgeNetwork under the default policy, with all     *)
(* channels registered and enabled.  Two processes share a Redis server.   *)
(* No conversation is an address of another channel, and of the bridges'   *)
(* keys one is listed as a sender.                                         *)
(***************************************************************************)
EXTENDS BridgeNetwork, BridgeConfig, TLC

CONSTANTS c1, c2, c3, n1, n2, redis

MCSender == {"ann", "key1", "key2"}
MCLowerCase == [s \in MCSender |-> s]
MCToken == {"t1", "t2", "u1", "u2", "u3"}
MCMint == c1 :> "u1" @@ c2 :> "u2" @@ c3 :> "u3"
MCStatusKey == n1 :> "key1" @@ n2 :> "key2"
MCAddresses == [m \in Message |-> {}]
MCTargets == FanoutTargets([bridged |-> Kinds \ {"status"}])
MCStoreOf == n1 :> redis @@ n2 :> redis

Text(id, channel, bytes) ==
  [ id |-> id, channel |-> channel, senderId |-> "ann", nonce |-> id,
    bytes |-> bytes, verdict |-> "authenticated", kind |-> "text",
    commandName |-> NoCommand ]

MCPosts == {Text("t1", "telegram", 100)}

\* Where Status is moreover a target of its own, which the engine passes over.
MCRules ==
  [defaultPolicy EXCEPT ![1].fanoutTargets = << "status" >> \o @]

StatusText == {Text("t1", "status", 100)}

MCMessage == MCPosts \cup Echoes

StatusMessage == StatusText \cup Echoes

=============================================================================
