------------------------- MODULE SmtpClient_proofs -------------------------
(***************************************************************************)
(* Theorems about SmtpClient, whatever the number of pieces that a reply   *)
(* may come in.                                                            *)
(***************************************************************************)
EXTENDS SmtpClient, SequenceTheorems, TLAPS

Code == {Dialogue[i] : i \in DOMAIN Dialogue} \cup {Refusing, Garbage}

\* What makes ResolvedMeansTaken inductive: 354 has one source, the reply to
\* DATA, and behind it nothing else is read until the text has its answer.
TextInv ==
  /\ answered < 8 => \A p \in 1 .. Len(wire) : wire[p] # 354
  /\ answered <= 8 =>
       \A p \in 1 .. Len(wire), q \in 1 .. Len(wire) :
         wire[p] = 354 /\ p < q => wire[q] \in {354, Garbage}
  /\ step >= 9 => answered >= 8
  /\ step = 9 /\ client = "waiting" =>
       \A p \in 1 .. Len(wire) : wire[p] = 250 => taken
  /\ step = 10 /\ client # "rejected" => taken
  /\ client = "resolved" => step = 10
  /\ client = "connecting" => step = 1 /\ answered = 0

\* While no reply was split or a refusal, the client is at the reply that is
\* on the wire, or waits for it.
PaceInv ==
  client \in {"connecting", "waiting"} /\ ~split /\ ~refused =>
    \/ answered = step /\ wire = << Dialogue[step] >>
    \/ answered = step - 1 /\ wire = << >>

\* What makes TakenYetRejectedExplained inductive: the server takes the
\* message with its ninth reply, having refused nothing before it.
TakenInv ==
  /\ taken => answered >= Text
  /\ taken /\ answered <= Text => ~refused

SmtpInv ==
  /\ TypeOK
  /\ TextInv
  /\ PaceInv
  /\ RejectedExplained
  /\ TakenInv
  /\ TakenYetRejectedExplained
  /\ NoMutualWait

-----------------------------------------------------------------------------
(* Codes, and pieces of the wire *)

LEMMA Codes ==
  /\ Len(Dialogue) = 10 /\ DOMAIN Dialogue = 1 .. 10
  /\ Dialogue[8] = 354 /\ Dialogue[9] = 250
  /\ \A i \in 1 .. 10 : /\ Dialogue[i] \in Nat /\ Dialogue[i] # 550
                        /\ Dialogue[i] # 0
                        /\ Accepting[i] = Dialogue[i]
BY DEF Dialogue, Accepting

LEMMA DataCode ==
  ASSUME NEW k \in 1 .. 10, Dialogue[k] = 354
  PROVE  k = 8
BY DEF Dialogue

LEMMA Pieces ==
  ASSUME NEW s \in Seq(Code), NEW n \in 1 .. Len(s)
  PROVE  LET t == SubSeq(s, n + 1, Len(s))
         IN /\ t \in Seq(Code)
            /\ Len(t) = Len(s) - n
            /\ \A p \in 1 .. Len(t) : t[p] = s[p + n] /\ p + n \in 1 .. Len(s)
<1>. DEFINE t == SubSeq(s, n + 1, Len(s))
<1>1. Len(s) \in Nat /\ n \in Nat /\ \A i \in n + 1 .. Len(s) : s[i] \in Code
  OBVIOUS
<1>2. /\ t \in Seq(Code)
      /\ Len(t) = IF n + 1 <= Len(s) THEN Len(s) - (n + 1) + 1 ELSE 0
      /\ \A i \in 1 .. Len(s) - (n + 1) + 1 : t[i] = s[(n + 1) + i - 1]
  BY <1>1, SubSeqProperties
<1>3. Len(t) = Len(s) - n
  BY <1>1, <1>2
<1>4. ASSUME NEW p \in 1 .. Len(t)
      PROVE  t[p] = s[p + n] /\ p + n \in 1 .. Len(s)
  <2>1. p \in 1 .. Len(s) - (n + 1) + 1 /\ (n + 1) + p - 1 = p + n
    BY <1>1, <1>3
  <2>. QED BY <1>1, <1>2, <1>3, <2>1
<1>. QED BY <1>2, <1>3, <1>4

\* The pieces of a reply.
LEMMA ReplyPieces ==
  ASSUME TypeOK, Reply
  PROVE  \E accepts \in BOOLEAN, r \in Seq(Code) :
           LET i == answered + 1
               code == IF accepts THEN Dialogue[i] ELSE Refusing
           IN /\ i \in 1 .. step
              /\ accepts /\ i # Quit => ~refused
              /\ wire' = wire \o r
              /\ Len(r) >= 1 /\ r[1] = code
              /\ \A p \in 1 .. Len(r) : r[p] \in {code, Garbage}
              /\ refused' = (refused \/ ~accepts)
              /\ split' = (split \/ Len(r) > 1)
              /\ taken' = (taken \/ (accepts /\ i = Text))
<1>. DEFINE i == answered + 1
<1>1. i \in 1 .. step /\ i \in 1 .. 10
  <2>1. answered \in Nat /\ step \in 1 .. 10
    BY Codes DEF TypeOK
  <2>2. i <= step
    BY DEF Reply
  <2>. QED BY <2>1, <2>2
<1>2. PICK accepts \in BOOLEAN, pieces \in 1 .. MaxPieces :
        LET code == IF accepts THEN Accepting[i] ELSE Refusing
        IN /\ accepts /\ i # Quit => ~refused
           /\ \E rest \in [1 .. pieces - 1 -> {code, Garbage}] :
                wire' = wire \o <<code>> \o rest
           /\ refused' = (refused \/ ~accepts)
           /\ split' = (split \/ pieces > 1)
           /\ taken' = (taken \/ (accepts /\ i = Text))
  BY DEF Reply
<1>. DEFINE code == IF accepts THEN Dialogue[i] ELSE Refusing
<1>3. code = (IF accepts THEN Accepting[i] ELSE Refusing) /\ code \in Code
  BY <1>1, Codes DEF Code
<1>4. PICK rest \in [1 .. pieces - 1 -> {code, Garbage}] :
        wire' = wire \o <<code>> \o rest
  BY <1>2, <1>3
<1>5. pieces \in Nat /\ pieces - 1 \in Nat
  BY SmtpAssumption
<1>6. rest \in Seq(Code) /\ Len(rest) = pieces - 1 /\ <<code>> \in Seq(Code)
  <2>1. rest \in [1 .. pieces - 1 -> Code]
    BY <1>3 DEF Code
  <2>. HIDE DEF code
  <2>. QED BY <1>3, <1>5, <2>1
<1>. DEFINE r == <<code>> \o rest
<1>7. /\ r \in Seq(Code) /\ Len(r) = 1 + (pieces - 1)
      /\ \A p \in 1 .. 1 + (pieces - 1) :
           r[p] = IF p <= 1 THEN <<code>>[p] ELSE rest[p - 1]
  <2>. HIDE DEF code
  <2>1. Len(<<code>>) = 1
    OBVIOUS
  <2>. QED BY <1>6, <2>1, ConcatProperties
<1>8. Len(r) = pieces /\ Len(r) >= 1 /\ r[1] = code
  BY <1>5, <1>7
<1>9. \A p \in 1 .. Len(r) : r[p] \in {code, Garbage}
  <2>. SUFFICES ASSUME NEW p \in 1 .. Len(r) PROVE r[p] \in {code, Garbage}
    OBVIOUS
  <2>1. CASE p = 1
    BY <2>1, <1>8
  <2>2. CASE p # 1
    <3>1. p \in 1 .. 1 + (pieces - 1) /\ ~(p <= 1) /\ p - 1 \in 1 .. pieces - 1
      BY <1>5, <1>8, <2>2
    <3>. HIDE DEF code
    <3>. QED BY <1>7, <3>1
  <2>. QED BY <2>1, <2>2
<1>10. wire' = wire \o r
  <2>1. wire \in Seq(Code)
    BY DEF TypeOK, Code
  <2>. HIDE DEF code
  <2>. QED BY <1>4, <1>6, <2>1, ConcatAssociative
<1>. HIDE DEF r
<1>. QED BY <1>1, <1>2, <1>5, <1>7, <1>8, <1>9, <1>10

-----------------------------------------------------------------------------
LEMMA SmtpInit == Init => SmtpInv
<1>. SUFFICES ASSUME Init PROVE SmtpInv
  OBVIOUS
<1>1. TypeOK
  <2>1. wire \in Seq({Dialogue[i] : i \in DOMAIN Dialogue} \cup {Refusing, Garbage})
    BY DEF Init
  <2>2. step \in 1 .. Len(Dialogue) /\ answered \in 0 .. step
    BY Codes DEF Init
  <2>. QED BY <2>1, <2>2 DEF Init, TypeOK
<1>2. TextInv /\ PaceInv /\ RejectedExplained
  BY DEF Init, TextInv, PaceInv, RejectedExplained
<1>3. TakenInv /\ TakenYetRejectedExplained /\ NoMutualWait
  BY DEF Init, TakenInv, TakenYetRejectedExplained, NoMutualWait
<1>. QED BY <1>1, <1>2, <1>3 DEF SmtpInv

\* What a step other than Reply and Data leaves alone.
LEMMA QuietStep ==
  ASSUME SmtpInv, Connect \/ SocketError \/ LinkDown \/ UNCHANGED vars
  PROVE  SmtpInv'
<1>1. TypeOK'
  BY DEF SmtpInv, TypeOK, Connect, SocketError, LinkDown, vars, Settled
<1>2. TextInv'
  <2>1. /\ UNCHANGED <<wire, answered, step, taken>>
        /\ client' \in {client, "rejected"} \/ (client = "connecting" /\ client' = "waiting")
    BY DEF Connect, SocketError, LinkDown, vars
  <2>2. client = "connecting" => step = 1 /\ answered = 0
    BY DEF SmtpInv, TextInv
  <2>. QED BY <2>1, <2>2 DEF SmtpInv, TextInv
<1>3. PaceInv'
  BY DEF SmtpInv, PaceInv, TypeOK, Connect, SocketError, LinkDown, vars, Settled
<1>4. RejectedExplained'
  BY DEF SmtpInv, RejectedExplained, TypeOK, Connect, SocketError, LinkDown, vars, Settled
<1>5. TakenInv'
  BY DEF SmtpInv, TakenInv, Connect, SocketError, LinkDown, vars
<1>6. TakenYetRejectedExplained'
  BY DEF SmtpInv, TakenYetRejectedExplained, TypeOK, Connect, SocketError,
     LinkDown, vars, Settled
<1>7. NoMutualWait'
  <2>1. CASE Connect
    <3>1. step = 1 /\ answered = 0 /\ UNCHANGED <<answered, step>>
      BY <2>1 DEF Connect, SmtpInv, TextInv
    <3>. QED BY <3>1 DEF NoMutualWait
  <2>2. CASE SocketError \/ LinkDown \/ UNCHANGED vars
    BY <2>2 DEF SmtpInv, NoMutualWait, SocketError, LinkDown, vars
  <2>. QED BY <2>1, <2>2
<1>. QED BY <1>1, <1>2, <1>3, <1>4, <1>5, <1>6, <1>7 DEF SmtpInv

LEMMA ReplyStep == SmtpInv /\ Reply => SmtpInv'
<1>. SUFFICES ASSUME SmtpInv, Reply PROVE SmtpInv'
  OBVIOUS
<1>. DEFINE i == answered + 1
<1>1. PICK accepts \in BOOLEAN, r \in Seq(Code) :
        LET code == IF accepts THEN Dialogue[i] ELSE Refusing
        IN /\ i \in 1 .. step
           /\ accepts /\ i # Quit => ~refused
           /\ wire' = wire \o r
           /\ Len(r) >= 1 /\ r[1] = code
           /\ \A p \in 1 .. Len(r) : r[p] \in {code, Garbage}
           /\ refused' = (refused \/ ~accepts)
           /\ split' = (split \/ Len(r) > 1)
           /\ taken' = (taken \/ (accepts /\ i = Text))
  BY ReplyPieces DEF SmtpInv
<1>. DEFINE code == IF accepts THEN Dialogue[i] ELSE Refusing
<1>2. /\ answered' = i /\ UNCHANGED <<client, step, link>>
      /\ client # "connecting" /\ link = "up"
  BY DEF Reply
<1>3. /\ wire \in Seq(Code) /\ step \in 1 .. 10 /\ answered \in Nat
      /\ answered < step /\ i \in 1 .. 10
  <2>1. wire \in Seq(Code) /\ step \in 1 .. 10 /\ answered \in 0 .. step
    BY Codes DEF SmtpInv, TypeOK, Code
  <2>2. i \in 1 .. step
    BY <1>1
  <2>. QED BY <2>1, <2>2
<1>4. /\ wire' \in Seq(Code) /\ Len(wire') = Len(wire) + Len(r)
      /\ \A p \in 1 .. Len(wire) + Len(r) :
           wire'[p] = IF p <= Len(wire) THEN wire[p] ELSE r[p - Len(wire)]
  <2>1. wire' = wire \o r
    BY <1>1
  <2>. QED BY <1>3, <2>1, ConcatProperties
<1>5. \A p \in 1 .. Len(wire') :
        \/ p \in 1 .. Len(wire) /\ wire'[p] = wire[p]
        \/ p > Len(wire) /\ wire'[p] \in {code, Garbage}
  <2>1. Len(wire) \in Nat /\ Len(r) \in Nat
    BY <1>3
  <2>2. \A p \in 1 .. Len(wire') :
          p \in 1 .. Len(wire) \/ (p > Len(wire) /\ p - Len(wire) \in 1 .. Len(r))
    BY <1>4, <2>1
  <2>. HIDE DEF code
  <2>. QED BY <1>1, <1>4, <2>1, <2>2 DEF code
<1>6. TypeOK'
  BY <1>1, <1>2, <1>3, <1>4, Codes DEF SmtpInv, TypeOK, Code
<1>7. /\ code = 354 => i = 8
      /\ code = 250 /\ i = 9 => taken'
      /\ taken => taken'
  <2>1. taken' = (taken \/ (accepts /\ i = Text))
    BY <1>1
  <2>2. /\ accepts => code = Dialogue[i]
        /\ ~accepts => code = 550
    BY DEF Refusing
  <2>3. Dialogue[i] = 354 => i = 8
    <3>1. i \in 1 .. 10
      BY <1>3
    <3>. HIDE DEF i
    <3>. QED BY <3>1, DataCode
  <2>. HIDE DEF code, i
  <2>4. code = 354 => i = 8
    BY <2>2, <2>3
  <2>5. ASSUME code = 250, i = 9 PROVE taken'
    <3>1. accepts
      BY <2>2, <2>5
    <3>2. i = Text
      BY <2>5 DEF Text
    <3>. QED BY <2>1, <3>1, <3>2, Zenon
  <2>6. taken => taken'
    BY <2>1, Zenon
  <2>. QED BY <2>4, <2>5, <2>6
<1>8. TextInv'
  <2>. HIDE DEF code
  <2>. USE DEF SmtpInv, TextInv
  <2>1. answered' < 8 => \A p \in 1 .. Len(wire') : wire'[p] # 354
    BY <1>2, <1>3, <1>5, <1>7 DEF Garbage
  <2>2. ASSUME answered' <= 8,
               NEW p \in 1 .. Len(wire'), NEW q \in 1 .. Len(wire'),
               wire'[p] = 354, p < q
        PROVE  wire'[q] \in {354, Garbage}
    <3>1. CASE p \in 1 .. Len(wire) /\ wire[p] = 354
      BY <1>2, <1>3, <2>2, <3>1
    <3>2. CASE p > Len(wire)
      <4>1. q > Len(wire) /\ wire'[q] \in {code, Garbage} /\ wire'[p] \in {code, Garbage}
        BY <1>3, <1>5, <2>2, <3>2
      <4>. QED BY <2>2, <4>1 DEF Garbage
    <3>. QED BY <1>5, <2>2, <3>1, <3>2
  <2>3. step' >= 9 => answered' >= 8
    BY <1>2, <1>3
  <2>4. step' = 9 /\ client' = "waiting" =>
          \A p \in 1 .. Len(wire') : wire'[p] = 250 => taken'
    <3>. SUFFICES ASSUME step = 9, client = "waiting",
                         NEW p \in 1 .. Len(wire'), wire'[p] = 250
                  PROVE  taken'
      BY <1>2
    <3>1. i = 9
      BY <1>3
    <3>. QED BY <1>5, <1>7, <3>1 DEF Garbage
  <2>5. step' = 10 /\ client' # "rejected" => taken'
    BY <1>2, <1>7
  <2>6. /\ client' = "resolved" => step' = 10
        /\ client' = "connecting" => step' = 1 /\ answered' = 0
    BY <1>2
  <2>. QED BY <2>1, <2>2, <2>3, <2>4, <2>5, <2>6
<1>9. PaceInv'
  <2>. SUFFICES ASSUME client \in {"connecting", "waiting"}, ~split', ~refused'
                PROVE  answered' = step' /\ wire' = << Dialogue[step'] >>
    BY <1>2 DEF PaceInv
  <2>1. ~split /\ ~refused /\ accepts /\ Len(r) = 1
    <3>1. /\ refused' = (refused \/ ~accepts)
          /\ split' = (split \/ Len(r) > 1)
          /\ Len(r) >= 1 /\ Len(r) \in Nat
      BY <1>1
    <3>2. ~split /\ ~(Len(r) > 1) /\ ~refused /\ accepts
      BY <3>1, Zenon
    <3>. QED BY <3>1, <3>2
  <2>2. answered = step - 1 /\ wire = << >>
    BY <1>3, <2>1 DEF SmtpInv, PaceInv
  <2>3. i = step
    BY <1>3, <2>2
  <2>4. Len(wire') = 1 /\ wire'[1] = Dialogue[step]
    <3>1. r[1] = Dialogue[step]
      BY <1>1, <2>1, <2>3
    <3>2. Len(wire) = 0
      BY <2>2
    <3>. HIDE DEF i
    <3>. QED BY <1>4, <2>1, <3>1, <3>2
  <2>5. wire' = << Dialogue[step] >>
    <3>. DEFINE d == Dialogue[step]
    <3>. HIDE DEF d
    <3>1. <<d>> \in Seq({d}) /\ Len(<<d>>) = 1 /\ <<d>>[1] = d
      OBVIOUS
    <3>2. Len(wire') = 1 /\ wire'[1] = d
      BY <2>4 DEF d
    <3>3. wire' = <<d>>
      <4>1. \A p \in 1 .. Len(wire') : wire'[p] = (<<d>>)[p]
        BY <3>1, <3>2
      <4>2. <<d>> \in Seq({d} \cup Code) /\ wire' \in Seq({d} \cup Code)
        BY <1>4
      <4>. QED BY <3>1, <3>2, <4>1, <4>2, SeqEqual
    <3>. QED BY <3>3 DEF d
  <2>. QED BY <1>2, <2>3, <2>5
<1>10. RejectedExplained'
  BY <1>1, <1>2 DEF SmtpInv, RejectedExplained
<1>11. TakenInv'
  <2>1. /\ taken' = (taken \/ (accepts /\ i = Text))
        /\ refused' = (refused \/ ~accepts)
        /\ accepts /\ i # Quit => ~refused
    BY <1>1
  <2>2. taken => i > Text
    BY <1>3 DEF SmtpInv, TakenInv, Text
  <2>. HIDE DEF i, code
  <2>3. CASE taken
    BY <1>2, <1>3, <2>2, <2>3 DEF TakenInv, Text
  <2>4. CASE accepts /\ i = Text
    <3>1. ~refused
      BY <2>1, <2>4 DEF Text, Quit
    <3>2. ~refused'
      BY <2>1, <2>4, <3>1, Zenon
    <3>. QED BY <1>2, <2>4, <3>2 DEF TakenInv, Text
  <2>. QED BY <2>1, <2>3, <2>4, Zenon DEF TakenInv
<1>12. TakenYetRejectedExplained'
  <2>. SUFFICES ASSUME client = "rejected", taken'
                PROVE  step = Quit \/ split'
    BY <1>2 DEF TakenYetRejectedExplained
  <2>1. /\ taken' = (taken \/ (accepts /\ i = Text))
        /\ split' = (split \/ Len(r) > 1)
        /\ accepts /\ i # Quit => ~refused
    BY <1>1
  <2>2. split => split'
    BY <2>1, Zenon
  <2>3. CASE taken
    BY <1>2, <2>2, <2>3 DEF SmtpInv, TakenYetRejectedExplained
  <2>4. CASE accepts /\ i = Text
    <3>1. ~refused
      BY <2>1, <2>4 DEF Text, Quit
    <3>. QED BY <1>2, <2>2, <3>1 DEF SmtpInv, RejectedExplained
  <2>. QED BY <2>1, <2>3, <2>4, Zenon
<1>13. NoMutualWait'
  <2>1. Len(wire') >= 1
    BY <1>1, <1>3, <1>4
  <2>. QED BY <2>1 DEF NoMutualWait
<1>. QED BY <1>6, <1>8, <1>9, <1>10, <1>11, <1>12, <1>13 DEF SmtpInv

LEMMA DataStep == SmtpInv /\ Data => SmtpInv'
<1>. SUFFICES ASSUME SmtpInv, Data PROVE SmtpInv'
  OBVIOUS
<1>1. /\ client = "waiting" /\ wire \in Seq(Code) /\ step \in 1 .. 10
      /\ answered \in 0 .. step
      /\ UNCHANGED <<link, answered, refused, split, taken>>
  BY Codes DEF SmtpInv, TypeOK, Code, Data
<1>2. PICK n \in 1 .. Len(wire) : wire' = SubSeq(wire, n + 1, Len(wire))
  BY DEF Data
<1>3. /\ wire' \in Seq(Code) /\ Len(wire') = Len(wire) - n
      /\ \A p \in 1 .. Len(wire') : wire'[p] = wire[p + n] /\ p + n \in 1 .. Len(wire)
  BY <1>1, <1>2, Pieces
<1>4. 1 \in 1 .. Len(wire) /\ Len(wire) \in Nat /\ n \in Nat /\ n >= 1
  BY <1>1
<1>5. ASSUME wire[1] = Dialogue[step], Proceed PROVE SmtpInv'
  <2>1. /\ step = 10 => client' = "resolved" /\ step' = 10
        /\ step # 10 => client' = "waiting" /\ step' = step + 1
    BY <1>5, <1>1, Codes DEF Proceed, Last
  <2>2. TypeOK'
    <3>1. step' \in 1 .. 10 /\ answered' \in 0 .. step'
      BY <1>1, <2>1
    <3>2. client' \in {"waiting", "resolved"}
      BY <1>1, <2>1
    <3>. QED BY <1>1, <1>3, <3>1, <3>2, Codes DEF SmtpInv, TypeOK, Code, Settled
  <2>3. TextInv'
    <3>. USE DEF SmtpInv, TextInv
    <3>1. step = 8 => wire[1] = 354
      BY <1>1, <1>5, Codes
    <3>2. step = 9 => wire[1] = 250
      BY <1>5, Codes
    <3>3. step' >= 9 => answered' >= 8
      BY <1>1, <1>4, <2>1, <3>1
    <3>4. answered' < 8 => \A p \in 1 .. Len(wire') : wire'[p] # 354
      BY <1>1, <1>3
    <3>5. ASSUME answered' <= 8,
                 NEW p \in 1 .. Len(wire'), NEW q \in 1 .. Len(wire'),
                 wire'[p] = 354, p < q
          PROVE  wire'[q] \in {354, Garbage}
      <4>1. p + n \in 1 .. Len(wire) /\ q + n \in 1 .. Len(wire) /\ p + n < q + n
        BY <1>3, <1>4, <3>5
      <4>. QED BY <1>1, <1>3, <3>5, <4>1
    <3>6. ASSUME step' = 9, client' = "waiting",
                 NEW p \in 1 .. Len(wire'), wire'[p] = 250
          PROVE  taken'
      <4>1. step = 8 /\ answered <= 8
        BY <1>1, <2>1, <3>6
      <4>2. p + n \in 1 .. Len(wire) /\ 1 < p + n /\ wire[p + n] = 250
        BY <1>3, <1>4, <3>6
      <4>3. wire[p + n] \in {354, Garbage}
        BY <1>4, <3>1, <4>1, <4>2
      <4>. QED BY <4>2, <4>3 DEF Garbage
    <3>7. step' = 10 /\ client' # "rejected" => taken'
      BY <1>1, <1>4, <2>1, <3>2
    <3>8. /\ client' = "resolved" => step' = 10
          /\ client' = "connecting" => step' = 1 /\ answered' = 0
      BY <2>1
    <3>. QED BY <3>3, <3>4, <3>5, <3>6, <3>7, <3>8
  <2>4. PaceInv'
    <3>. SUFFICES ASSUME client' = "waiting", ~split, ~refused
                  PROVE  answered' = step' - 1 /\ wire' = << >>
      BY <1>1, <2>1 DEF PaceInv
    <3>1. answered = step /\ wire = << Dialogue[step] >>
      BY <1>1, <1>4 DEF SmtpInv, PaceInv
    <3>2. Len(wire') = 0
      BY <1>3, <1>4, <3>1
    <3>. QED BY <1>1, <1>3, <2>1, <3>1, <3>2
  <2>5. RejectedExplained'
    BY <2>1 DEF RejectedExplained
  <2>6. TakenInv' /\ TakenYetRejectedExplained'
    BY <1>1, <2>1 DEF SmtpInv, TakenInv, TakenYetRejectedExplained
  <2>7. NoMutualWait'
    BY <1>1, <2>1 DEF NoMutualWait
  <2>. QED BY <2>2, <2>3, <2>4, <2>5, <2>6, <2>7 DEF SmtpInv
<1>6. ASSUME wire[1] # Dialogue[step], GiveUp PROVE SmtpInv'
  <2>1. client' = "rejected" /\ step' = step
    BY <1>6 DEF GiveUp
  <2>2. TypeOK'
    BY <1>1, <1>3, <2>1, Codes DEF SmtpInv, TypeOK, Code, Settled
  <2>3. TextInv'
    <3>. USE DEF SmtpInv, TextInv
    <3>1. answered' < 8 => \A p \in 1 .. Len(wire') : wire'[p] # 354
      BY <1>1, <1>3
    <3>2. ASSUME answered' <= 8,
                 NEW p \in 1 .. Len(wire'), NEW q \in 1 .. Len(wire'),
                 wire'[p] = 354, p < q
          PROVE  wire'[q] \in {354, Garbage}
      <4>1. p + n \in 1 .. Len(wire) /\ q + n \in 1 .. Len(wire) /\ p + n < q + n
        BY <1>3, <1>4, <3>2
      <4>. QED BY <1>1, <1>3, <3>2, <4>1
    <3>. QED BY <1>1, <2>1, <3>1, <3>2
  <2>4. PaceInv'
    BY <2>1 DEF PaceInv
  <2>5. RejectedExplained'
    <3>. SUFFICES ASSUME ~split, ~refused PROVE FALSE
      BY <1>1 DEF RejectedExplained
    <3>1. wire = << Dialogue[step] >>
      BY <1>1, <1>4 DEF SmtpInv, PaceInv
    <3>. QED BY <1>6, <3>1
  <2>6. TakenInv'
    BY <1>1 DEF SmtpInv, TakenInv
  <2>7. TakenYetRejectedExplained'
    <3>. SUFFICES ASSUME taken, step # Quit, ~split PROVE FALSE
      BY <1>1, <2>1 DEF TakenYetRejectedExplained
    <3>1. answered = 9 /\ step = 9 /\ ~refused
      BY <1>1 DEF SmtpInv, TakenInv, Text, Quit
    <3>2. wire = << Dialogue[step] >>
      BY <1>1, <1>4, <3>1 DEF SmtpInv, PaceInv
    <3>. QED BY <1>6, <3>2
  <2>8. NoMutualWait'
    BY <2>1 DEF NoMutualWait
  <2>. QED BY <2>2, <2>3, <2>4, <2>5, <2>6, <2>7, <2>8 DEF SmtpInv
<1>. QED BY <1>5, <1>6 DEF Data

\* The conjuncts of SmtpInv hold of every behaviour.
THEOREM SmtpInvariant == Spec => []SmtpInv
<1>1. SmtpInv /\ [Next]_vars => SmtpInv'
  <2>. SUFFICES ASSUME SmtpInv, [Next]_vars PROVE SmtpInv'
    OBVIOUS
  <2>1. CASE Connect \/ SocketError \/ LinkDown \/ UNCHANGED vars
    BY <2>1, QuietStep
  <2>2. CASE Over
    BY <2>2, QuietStep DEF Over
  <2>. QED BY <2>1, <2>2, ReplyStep, DataStep DEF Next
<1>. QED BY <1>1, SmtpInit, PTL DEF Spec

\* The client, the wire and the server stay in the states that the code and
\* the protocol give them (smtp-client.ts, sendText).
THEOREM SmtpTypeCorrect == Spec => []TypeOK
BY SmtpInvariant, PTL DEF SmtpInv

\* However the replies are cut up, sendText resolves only when the server has
\* taken the message (smtp-client.ts, sendText and expect).
THEOREM ResolvedMeansTakenCorrect == Spec => []ResolvedMeansTaken
<1>1. SmtpInv => ResolvedMeansTaken
  BY DEF SmtpInv, TextInv, ResolvedMeansTaken
<1>. QED BY <1>1, SmtpInvariant, PTL

\* It rejects only for a refusal, a broken connection or a reply in pieces.
THEOREM RejectedExplainedCorrect == Spec => []RejectedExplained
BY SmtpInvariant, PTL DEF SmtpInv

\* It rejects a mail that the server has taken only at QUIT, for a broken
\* connection or a reply in pieces (smtp-client.ts:42-43).
THEOREM TakenYetRejectedCorrect == Spec => []TakenYetRejectedExplained
BY SmtpInvariant, PTL DEF SmtpInv

\* In whatever pieces the replies come, expect() never waits for a server
\* that itself waits for the next command.
THEOREM NoMutualWaitCorrect == Spec => []NoMutualWait
BY SmtpInvariant, PTL DEF SmtpInv

=============================================================================
