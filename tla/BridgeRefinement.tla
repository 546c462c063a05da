-------------------------- MODULE BridgeRefinement --------------------------
(***************************************************************************)
(* The engine implements the contract: what each variable of               *)
(* BridgeContract is in a state of BridgeEngine.                           *)
(***************************************************************************)
EXTENDS BridgeEngine

stageBar ==
  [c \in Call |->
     CASE pc[c] = "idle" -> "idle"
       [] pc[c] \in Settled -> "over"
       [] pc[c] \in InProgress ->
            IF ingestedAt[c] = Never THEN "open" ELSE "taken"]

placeBar ==
  [c \in Call |-> IF pc[c] = "idle" THEN None ELSE CallStore(c)]

\* The store still holds what the call wrote: it is a Redis server, or its
\* process has not been restarted since.
rememberedBar ==
  [c \in Call |->
     /\ admittedAt[c] # Never
     /\ CallStore(c) \in Redis \/ life[c] = epoch[host[c]]]

idOf(m) == m.id

Contract ==
  INSTANCE BridgeContract
    WITH Place <- Store, KeyOf <- ReplayKey, IdOf <- idOf,
         Fanout <- Eligible, Ttl <- ReplayTtl, Expiring <- Redis,
         CommitTtl <- IdempotencyTtl, clock <- now, stage <- stageBar,
         message <- msg, place <- placeBar, admitted <- admittedAt,
         committed <- markedAt, remembered <- rememberedBar, reached <- sent

\* Every behaviour of the engine is one the contract allows: admissions of
\* one replay key are a TTL apart, and the gateway is given a message only if
\* nothing was committed under its id when it was admitted.
ImplementsContract == Contract!Spec

=============================================================================
