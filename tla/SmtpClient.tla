----------------------------- MODULE SmtpClient -----------------------------
(***************************************************************************)
(* SmtpClient.sendText (src/channels/email/smtp-client.ts) against a mail  *)
(* server that keeps to the protocol.  TCP delivers the server's replies   *)
(* in order but not one by one: a reply may come in several pieces, and    *)
(* pieces may come together.  expect() takes whatever the next "data"      *)
(* event holds for the whole answer and looks at its first three bytes.    *)
(* Every sendText has a socket of its own, so that one is enough.          *)
(***************************************************************************)
EXTENDS Integers, Sequences

CONSTANT MaxPieces   \* bound on the pieces of one reply

ASSUME SmtpAssumption == MaxPieces \in Nat \ {0}

VARIABLES
  client,    \* "connecting", "waiting" in expect(), "resolved", "rejected"
  step,      \* the expectation the client is at
  wire,      \* the pieces that have not been read: their first three bytes
  link,      \* "up", "broken" (an error event), or "closed" (an end event)
  answered,  \* the steps the server has replied to
  refused,   \* the server has refused a step
  split,     \* history: some reply came in more than one piece
  taken      \* the server has taken the message

vars == <<client, step, wire, link, answered, refused, split, taken>>

\* Mutant: two codes the wrong way round.
DialogueSwapped == << 220, 250, 334, 334, 235, 250, 250, 250, 354, 221 >>

\* Mutant: the text of the message is expected to be answered like DATA.
DialogueCopied == << 220, 250, 334, 334, 235, 250, 250, 354, 354, 221 >>

\* What sendText expects: the greeting, then the answers to EHLO, AUTH LOGIN,
\* user, password, MAIL, RCPT, DATA, the text of the message, and QUIT.
Dialogue == << 220, 250, 334, 334, 235, 250, 250, 354, 250, 221 >>

\* The replies of the server, which has no part in the client's code.
Accepting == << 220, 250, 334, 334, 235, 250, 250, 354, 250, 221 >>
Refusing  == 550
Text      == 9
Quit      == 10

Garbage == 0   \* the piece starts in the middle of a line

Settled == {"resolved", "rejected"}

Init ==
  /\ client = "connecting"
  /\ step = 1
  /\ wire = <<>>
  /\ link = "up"
  /\ answered = 0
  /\ refused = FALSE
  /\ split = FALSE
  /\ taken = FALSE

\* The secureConnect callback: the client waits for the greeting.
Connect ==
  /\ client = "connecting" /\ link = "up"
  /\ client' = "waiting"
  /\ UNCHANGED <<step, wire, link, answered, refused, split, taken>>

(* The server replies to the next step it has not replied to, even when    *)
(* the client has given up by then.  Once it has refused a step it refuses *)
(* the later ones, but for QUIT.  It takes the message with its text.      *)
(* The first piece of a reply holds its whole code; a shorter one would be *)
(* refused like Garbage, and a reply in pieces explains that as well.      *)
Reply ==
  LET i == answered + 1
  IN /\ link = "up" /\ client # "connecting"
     /\ i <= step
     /\ \E accepts \in BOOLEAN, pieces \in 1 .. MaxPieces :
          LET code == IF accepts THEN Accepting[i] ELSE Refusing
          IN /\ accepts /\ i # Quit => ~refused
             /\ \E rest \in [1 .. pieces - 1 -> {code, Garbage}] :
                  wire' = wire \o <<code>> \o rest
             /\ refused' = (refused \/ ~accepts)
             /\ split' = (split \/ pieces > 1)
             /\ taken' = (taken \/ (accepts /\ i = Text))
     /\ answered' = i
     /\ UNCHANGED <<client, step, link>>

\* Mutant: sendText ends without the answers to the text and to QUIT.
LastAtData(i) == i = 8

Last(i) == i = Len(Dialogue)

\* Mutant: on to the next command, without a look at whether there is one.
ProceedAlways == client' = "waiting" /\ step' = step + 1

\* The expected code: sendText goes on to write its next command.
Proceed ==
  /\ client' = IF Last(step) THEN "resolved" ELSE "waiting"
  /\ step' = IF Last(step) THEN step ELSE step + 1

\* Mutant: the listener stays on after an unexpected code.
GiveUpNever == UNCHANGED <<client, step>>

GiveUp == client' = "rejected" /\ UNCHANGED step

\* A "data" event: any number of the pieces at hand.
Data ==
  /\ client = "waiting"
  /\ \E n \in 1 .. Len(wire) : wire' = SubSeq(wire, n + 1, Len(wire))
  /\ \/ wire[1] = Dialogue[step] /\ Proceed
     \/ wire[1] # Dialogue[step] /\ GiveUp
  /\ UNCHANGED <<link, answered, refused, split, taken>>

\* An "error" event, while connecting or in expect().
SocketError ==
  /\ client \notin Settled /\ link = "broken"
  /\ client' = "rejected"
  /\ UNCHANGED <<step, wire, link, answered, refused, split, taken>>

\* The connection breaks, or the server closes it: of that sendText never
\* hears, having no listener for it and no timeout.  Before the connection
\* is secure, its close is an error.
LinkDown ==
  /\ link = "up" /\ client \notin Settled
  /\ \/ link' = "broken"
     \/ client = "waiting" /\ link' = "closed"
  /\ UNCHANGED <<client, step, wire, answered, refused, split, taken>>

\* Nothing is left to happen.
Over ==
  /\ client \in Settled \/ link = "closed"
  /\ UNCHANGED vars

Next == Connect \/ Reply \/ Data \/ SocketError \/ LinkDown \/ Over

Spec == Init /\ [][Next]_vars

\* Node delivers events; the server replies as long as the connection is up.
FairSpec ==
  /\ Spec
  /\ WF_vars(Connect) /\ WF_vars(Reply) /\ WF_vars(Data)
  /\ WF_vars(SocketError)

-----------------------------------------------------------------------------
(* Properties *)

TypeOK ==
  /\ client \in {"connecting", "waiting"} \cup Settled
  /\ step \in 1 .. Len(Dialogue)
  /\ wire \in Seq({Dialogue[i] : i \in DOMAIN Dialogue} \cup {Refusing, Garbage})
  /\ link \in {"up", "broken", "closed"}
  /\ answered \in 0 .. step
  /\ refused \in BOOLEAN /\ split \in BOOLEAN /\ taken \in BOOLEAN

\* sendText only succeeds when the server has taken the message, however its
\* replies are cut up and however far the client's reading runs ahead or
\* behind: an event "forwarded" for email is never wrong.
ResolvedMeansTaken == client = "resolved" => taken

\* sendText only fails for a refusal, a broken connection, or a reply that
\* came in pieces, which it mistakes for the next one.
RejectedExplained == client = "rejected" => refused \/ link # "up" \/ split

\* The caller is told of a failure for a mail that the server has taken only
\* because of QUIT, a connection that broke, or a reply in pieces: no refusal
\* of anything before QUIT is ever followed by a delivery.
TakenYetRejectedExplained ==
  client = "rejected" /\ taken => step = Quit \/ link # "up" \/ split

\* Client and server never wait for each other: when expect() has nothing to
\* read, the server has a command to answer, however far the client's
\* reading has run ahead of the replies or fallen behind them.
NoMutualWait == client = "waiting" => wire # <<>> \/ answered < step

\* While the server keeps the connection and answers, sendText ends.
SettlesUnlessClosed == <>(client \in Settled \/ link = "closed")

=============================================================================
