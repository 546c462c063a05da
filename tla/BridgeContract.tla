--------------------------- MODULE BridgeContract ---------------------------
(***************************************************************************)
(* What the bridge promises about the handling of inbound messages, with   *)
(* no stores, no limiter, no audit log and no failures of single           *)
(* operations.  Each handling of a delivered message ("call") is open,     *)
(* then perhaps admitted, then perhaps taken by the gateway, and may then  *)
(* reach the targets of its fan-out in order; it is over at any point.     *)
(*                                                                         *)
(* Admissions of one key at one place are at least Ttl apart.  A call is   *)
(* taken only if no other call had been committed under the same id by the *)
(* time it was admitted.  Both promises are void once the place has lost   *)
(* its memory, and the second once the commitment has expired there.       *)
(***************************************************************************)
EXTENDS Integers

CONSTANTS
  Call, Message, Place,
  KeyOf(_), IdOf(_),        \* what a message is recognised by
  Fanout(_),                \* the positions its fan-out is to reach
  Ttl,                      \* how long an admission blocks its key
  Expiring,                 \* the places where commitments expire,
  CommitTtl,                \* after this long
  None

VARIABLES clock, stage, message, place, admitted, committed, remembered,
          reached

cvars == <<clock, stage, message, place, admitted, committed, remembered,
           reached>>

Unset == -1

Init ==
  /\ clock = 0
  /\ stage = [c \in Call |-> "idle"]
  /\ message = [c \in Call |-> None]
  /\ place = [c \in Call |-> None]
  /\ admitted = [c \in Call |-> Unset]
  /\ committed = [c \in Call |-> Unset]
  /\ remembered = [c \in Call |-> FALSE]
  /\ reached = [c \in Call |-> {}]

Receive(c) ==
  /\ stage[c] = "idle"
  /\ \E m \in Message, p \in Place :
       /\ message' = [message EXCEPT ![c] = m]
       /\ place' = [place EXCEPT ![c] = p]
  /\ stage' = [stage EXCEPT ![c] = "open"]
  /\ UNCHANGED <<clock, admitted, committed, remembered, reached>>

\* The calls whose admission or commitment the place of c still knows of.
Known(c) == {d \in Call \ {c} : remembered[d] /\ place[d] = place[c]}

Admit(c) ==
  /\ stage[c] = "open"
  /\ admitted[c] = Unset
  /\ \A d \in Known(c) : KeyOf(message[d]) = KeyOf(message[c])
                         => clock >= admitted[d] + Ttl
  /\ admitted' = [admitted EXCEPT ![c] = clock]
  /\ remembered' = [remembered EXCEPT ![c] = TRUE]
  /\ UNCHANGED <<clock, stage, message, place, committed, reached>>

Expired(d) == place[d] \in Expiring /\ clock >= committed[d] + CommitTtl

Take(c) ==
  /\ stage[c] = "open"
  /\ admitted[c] # Unset
  /\ \A d \in Known(c) : IdOf(message[d]) = IdOf(message[c])
                         => \/ committed[d] = Unset
                            \/ committed[d] >= admitted[c]
                            \/ Expired(d)
  /\ stage' = [stage EXCEPT ![c] = "taken"]
  /\ UNCHANGED <<clock, message, place, admitted, committed, remembered,
                 reached>>

Commit(c) ==
  /\ stage[c] = "taken"
  /\ committed[c] = Unset
  /\ committed' = [committed EXCEPT ![c] = clock]
  /\ UNCHANGED <<clock, stage, message, place, admitted, remembered, reached>>

Reach(c) ==
  /\ stage[c] = "taken"
  /\ committed[c] # Unset
  /\ \E i \in Fanout(message[c]) \ reached[c] :
       /\ \A j \in Fanout(message[c]) : j < i => j \in reached[c]
       /\ reached' = [reached EXCEPT ![c] = @ \cup {i}]
  /\ UNCHANGED <<clock, stage, message, place, admitted, committed,
                 remembered>>

Over(S) == stage' = [c \in Call |-> IF c \in S THEN "over" ELSE stage[c]]

Open == {c \in Call : stage[c] \in {"open", "taken"}}

\* Calls end one by one, or several at once with the process they run in.
Close ==
  /\ \E S \in SUBSET Open : S # {} /\ Over(S)
  /\ UNCHANGED <<clock, message, place, admitted, committed, remembered,
                 reached>>

\* A place loses its memory, and the calls that were being handled there.
Forget(p) ==
  /\ Over({c \in Open : place[c] = p})
  /\ remembered' = [c \in Call |-> remembered[c] /\ place[c] # p]
  /\ UNCHANGED <<clock, message, place, admitted, committed, reached>>

Advance ==
  /\ clock' = clock + 1
  /\ UNCHANGED <<stage, message, place, admitted, committed, remembered,
                 reached>>

Next ==
  \/ \E c \in Call : Receive(c) \/ Admit(c) \/ Take(c) \/ Commit(c) \/ Reach(c)
  \/ Close
  \/ \E p \in Place \ Expiring : Forget(p)
  \/ Advance

Spec == Init /\ [][Next]_cvars

=============================================================================
