---------------------------- MODULE BridgeClaims ----------------------------
(***************************************************************************)
(* What the repository's documents say of the engine, read literally.      *)
(* The code does not keep these; each is refuted by a run, and the README  *)
(* says how.  What does hold is in BridgeEngine and BridgeRefinement.      *)
(***************************************************************************)
EXTENDS BridgeEngine

\* docs/11_FORMAL_VERIFICATION_MANUAL.md:30, "Same message ID cannot be
\* ingested twice".  hasProcessed (bridge-engine.ts:71) and markProcessed (88)
\* are not one operation, and two messages with one id but different nonces
\* both get past the replay guard.
AtMostOncePerId ==
  \A c, d \in Call :
    /\ c # d
    /\ ingestedAt[c] # Never /\ ingestedAt[d] # Never
    => msg[c].id # msg[d].id

\* docs/00_PROGRAM_CHARTER.md:20, "No silent failures: all rejects and errors
\* must be audited".  The record of a failure can itself fail, and then the
\* process ends with the call unrecorded.
NoSilentFailure ==
  \A c \in Call :
    pc[c] \in {"failed", "lost"} =>
      \E i \in DOMAIN log[c] : log[c][i].type \in {"error", "rejected"}

=============================================================================
