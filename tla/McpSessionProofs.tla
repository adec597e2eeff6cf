--------------------------- MODULE McpSessionProofs ---------------------------
(***************************************************************************)
(* Proofs about McpSession, for any projects, command lines, messages,     *)
(* framings and faults. The messages of a channel go one way: they are     *)
(* written in the order of their numbers, wait in the input, are handled   *)
(* one at a time, and answered. ChannelInv says so, and that the stream    *)
(* in between is framed as the two readers expect. KeptInv says that none  *)
(* of them is left out.                                                    *)
(***************************************************************************)
EXTENDS McpSession, SequenceTheorems, WellFoundedInduction, TLAPS

Carriers == {"json", "body"}
Formats == {"JsonLine", "ContentLength"}
Lines == [kind : {"length", "blank", "bad length", "other"}]
           \cup [kind : Carriers, message : Message]
Carries(s, i) == s[i].kind \in Carriers
FormatOf(line) == IF line.kind = "json" THEN "JsonLine" ELSE "ContentLength"

(* A length is followed by a blank line and a body.                        *)
WellFramed(s) ==
  \A i \in DOMAIN s : s[i].kind = "length" =>
    /\ i + 2 \in DOMAIN s
    /\ s[i + 1].kind = "blank" /\ s[i + 2].kind = "body"

-----------------------------------------------------------------------------
LEMMA MinIsLeast ==
  ASSUME NEW S \in SUBSET Nat, S # {}
  PROVE  /\ Min(S) \in S
         /\ \A y \in S : Min(S) <= y
<1>1. PICK x \in S : \A y \in S : ~(<<y, x>> \in OpToRel(<, Nat))
  BY NatLessThanWellFounded, WFMin
<1>2. \A y \in S : ~(y < x)
  BY <1>1 DEF OpToRel
<1>3. \A y \in S : x <= y
  BY <1>2
<1>4. QED
  BY <1>3 DEF Min

Takes(s, reading) ==
  \E k \in DOMAIN s :
    /\ Carries(s, k)
    /\ reading.message = s[k].message
    /\ reading.format = FormatOf(s[k])
    /\ reading.rest = From(s, k + 1)

LEMMA TookTakes ==
  ASSUME NEW s \in Seq(Lines), NEW k \in DOMAIN s, NEW format,
         Carries(s, k), format = FormatOf(s[k])
  PROVE  Takes(s, Took(s, k, format))
BY DEF Takes, Took

(* The first blank line after a length is the next line.                   *)
LEMMA BlankAfterLength ==
  ASSUME NEW s \in Seq(Lines), WellFramed(s), NEW k \in DOMAIN s,
         LengthBefore(s, k),
         \A i \in DOMAIN s : i > 1 /\ s[i].kind = "blank" /\ LengthBefore(s, i) => k <= i
  PROVE  k + 1 \in DOMAIN s /\ s[k + 1].kind = "body"
<1>1. PICK j \in 1 .. k - 1 : s[j].kind = "length"
  BY DEF LengthBefore
<1>2. /\ j \in DOMAIN s /\ j + 2 \in DOMAIN s /\ j + 1 \in DOMAIN s
      /\ s[j + 1].kind = "blank" /\ s[j + 2].kind = "body"
  BY <1>1 DEF WellFramed
<1>3. LengthBefore(s, j + 1)
  BY <1>1 DEF LengthBefore
<1>4. k = j + 1
  BY <1>1, <1>2, <1>3
<1>5. QED
  BY <1>2, <1>4

(* Both readers take a message that is in the stream, as it was framed, and *)
(* leave what follows it.                                                  *)
LEMMA StdioTakes ==
  ASSUME NEW s \in Seq(Lines), WellFramed(s), ReadStdio(s).result = "message"
  PROVE  Takes(s, ReadStdio(s))
<1> DEFINE decisive == {i \in DOMAIN s : StdioDecides(s, i)}
           k == Min(decisive)
<1>1. decisive # {}
  BY DEF ReadStdio, Waiting
<1>2. decisive \in SUBSET Nat
  OBVIOUS
<1>3. k \in decisive /\ \A i \in decisive : k <= i
  BY <1>1, <1>2, MinIsLeast
<1> HIDE DEF k
<1>4. k \in DOMAIN s /\ StdioDecides(s, k)
  BY <1>3
<1>5. CASE s[k].kind = "json"
  <2>1. ReadStdio(s) = Took(s, k, "JsonLine")
    BY <1>1, <1>5 DEF ReadStdio, k
  <2>2. QED
    BY <1>4, <1>5, <2>1, TookTakes DEF Carries, Carriers, FormatOf
<1>6. CASE s[k].kind = "blank"
  <2>1. ReadStdio(s) = Took(s, k + 1, "ContentLength")
    BY <1>1, <1>6 DEF ReadStdio, k
  <2>2. LengthBefore(s, k)
    BY <1>4, <1>6 DEF StdioDecides
  <2>3. \A i \in DOMAIN s :
          i > 1 /\ s[i].kind = "blank" /\ LengthBefore(s, i) => k <= i
    BY <1>3 DEF StdioDecides
  <2>4. k + 1 \in DOMAIN s /\ s[k + 1].kind = "body"
    BY <1>4, <2>2, <2>3, BlankAfterLength
  <2>5. QED
    BY <2>1, <2>4, TookTakes DEF Carries, Carriers, FormatOf
<1>7. CASE s[k].kind \notin {"json", "blank"}
  <2>1. ReadStdio(s) = GaveUp
    BY <1>1, <1>7 DEF ReadStdio, k
  <2>2. GaveUp.result # "message"
    BY DEF GaveUp
  <2>3. QED
    BY <2>1, <2>2
<1>8. QED
  BY <1>5, <1>6, <1>7

LEMMA IpcTakes ==
  ASSUME NEW s \in Seq(Lines), WellFramed(s), ReadIpc(s).result = "message"
  PROVE  Takes(s, ReadIpc(s))
<1> DEFINE blanks == {i \in DOMAIN s : i > 1 /\ s[i].kind = "blank"}
           k == Min(blanks)
<1>1. s # <<>> /\ s[1].kind # "blank"
  BY DEF ReadIpc, Waiting, GaveUp
<1>2. 1 \in DOMAIN s
  BY <1>1
<1>3. CASE s[1].kind = "json"
  <2>1. ReadIpc(s) = Took(s, 1, "JsonLine")
    BY <1>1, <1>3 DEF ReadIpc
  <2>2. QED
    BY <1>2, <1>3, <2>1, TookTakes DEF Carries, Carriers, FormatOf
<1>4. CASE s[1].kind # "json"
  <2>1. blanks # {}
    BY <1>1, <1>4 DEF ReadIpc, Waiting
  <2>2. blanks \in SUBSET Nat
    OBVIOUS
  <2>3. k \in blanks /\ \A i \in blanks : k <= i
    BY <2>1, <2>2, MinIsLeast
  <2> HIDE DEF k
  <2>4. k \in DOMAIN s /\ \A i \in DOMAIN s : i > 1 /\ s[i].kind = "blank" => k <= i
    BY <2>3
  <2>5. LengthBefore(s, k) /\ ReadIpc(s) = Took(s, k + 1, "ContentLength")
    BY <1>1, <1>4, <2>1 DEF ReadIpc, GaveUp, k
  <2>6. k + 1 \in DOMAIN s /\ s[k + 1].kind = "body"
    BY <2>4, <2>5, BlankAfterLength
  <2>7. QED
    BY <2>5, <2>6, TookTakes DEF Carries, Carriers, FormatOf
<1>5. QED
  BY <1>3, <1>4

-----------------------------------------------------------------------------
(* What is left when a message is taken, and what is there when one more   *)
(* is written.                                                             *)
LEMMA FromIsRest ==
  ASSUME NEW s \in Seq(Lines), NEW k \in DOMAIN s
  PROVE  /\ From(s, k + 1) \in Seq(Lines)
         /\ Len(From(s, k + 1)) = Len(s) - k
         /\ \A i \in DOMAIN From(s, k + 1) :
              k + i \in DOMAIN s /\ From(s, k + 1)[i] = s[k + i]
BY DEF From

LEMMA RestWellFramed ==
  ASSUME NEW s \in Seq(Lines), NEW k \in DOMAIN s, WellFramed(s)
  PROVE  WellFramed(From(s, k + 1))
<1> DEFINE r == From(s, k + 1)
<1>1. /\ r \in Seq(Lines) /\ Len(r) = Len(s) - k
      /\ \A i \in DOMAIN r : k + i \in DOMAIN s /\ r[i] = s[k + i]
  BY FromIsRest
<1> HIDE DEF r
<1> SUFFICES ASSUME NEW i \in DOMAIN r, r[i].kind = "length"
             PROVE  /\ i + 2 \in DOMAIN r
                    /\ r[i + 1].kind = "blank" /\ r[i + 2].kind = "body"
  BY DEF WellFramed, r
<1>2. /\ k + i \in DOMAIN s /\ (k + i) + 2 \in DOMAIN s
      /\ s[(k + i) + 1].kind = "blank" /\ s[(k + i) + 2].kind = "body"
  BY <1>1 DEF WellFramed
<1>3. /\ DOMAIN s = 1 .. Len(s) /\ DOMAIN r = 1 .. Len(r)
      /\ Len(s) \in Nat /\ Len(r) \in Nat /\ k \in Nat /\ i \in Nat
  BY <1>1
<1>4. i + 2 \in DOMAIN r /\ i + 1 \in DOMAIN r
  BY <1>1, <1>2, <1>3
<1>5. (k + i) + 1 = k + (i + 1) /\ (k + i) + 2 = k + (i + 2)
  BY <1>3
<1>6. QED
  BY <1>1, <1>2, <1>4, <1>5

(* Lines that precede a message without changing what it is.               *)
Before == {<<>>, <<Line("other")>>, <<Line("blank")>>, <<Line("bad length")>>}

IsPiece(piece, m, format) ==
  /\ piece \in Seq(Lines) /\ WellFramed(piece) /\ Len(piece) > 0
  /\ \A i \in DOMAIN piece : Carries(piece, i) =>
       i = Len(piece) /\ piece[i].message = m /\ FormatOf(piece[i]) = format

LEMMA FramedIsPiece ==
  ASSUME NEW m \in Message, NEW format \in Formats
  PROVE  IsPiece(Framed(m, format), m, format)
<1> DEFINE p == Framed(m, format)
           json == [kind |-> "json", message |-> m]
           body == [kind |-> "body", message |-> m]
           len == Line("length")
           gap == Line("blank")
<1>1. /\ json \in Lines /\ body \in Lines /\ len \in Lines /\ gap \in Lines
      /\ json.kind = "json" /\ json.message = m
      /\ body.kind = "body" /\ body.message = m
      /\ len.kind = "length" /\ gap.kind = "blank"
      /\ FormatOf(json) = "JsonLine" /\ FormatOf(body) = "ContentLength"
  BY DEF Lines, Line, Carriers, FormatOf
<1>2. CASE format = "JsonLine"
  <2>1. p = <<json>>
    BY <1>2 DEF Framed, JsonLine
  <2> HIDE DEF json
  <2>2. p \in Seq(Lines) /\ Len(p) = 1 /\ DOMAIN p = {1} /\ p[1] = json
    BY <1>1, <2>1
  <2> HIDE DEF p
  <2>3. WellFramed(p)
    BY <1>1, <2>2 DEF WellFramed
  <2>4. IsPiece(p, m, format)
    BY <1>1, <1>2, <2>2, <2>3 DEF IsPiece
  <2>5. QED
    BY <2>4 DEF p
<1>3. CASE format = "ContentLength"
  <2>1. p = <<len, gap, body>>
    BY <1>3 DEF Framed, ContentLength
  <2> HIDE DEF len, gap, body
  <2>2. /\ p \in Seq(Lines) /\ Len(p) = 3 /\ DOMAIN p = {1, 2, 3}
        /\ p[1] = len /\ p[2] = gap /\ p[3] = body
    BY <1>1, <2>1
  <2> HIDE DEF p
  <2>3. WellFramed(p)
    BY <1>1, <2>2 DEF WellFramed
  <2>4. IsPiece(p, m, format)
    BY <1>1, <1>3, <2>2, <2>3 DEF IsPiece, Carries, Carriers
  <2>5. QED
    BY <2>4 DEF p
<1>4. QED
  BY <1>2, <1>3 DEF Formats

LEMMA PieceIsFramed ==
  ASSUME NEW before \in Before, NEW m \in Message, NEW format \in Formats
  PROVE  IsPiece(before \o Framed(m, format), m, format)
<1> DEFINE f == Framed(m, format)
<1>1. IsPiece(f, m, format)
  BY FramedIsPiece
<1> HIDE DEF f
<1>2. f \in Seq(Lines) /\ WellFramed(f) /\ DOMAIN f = 1 .. Len(f) /\ Len(f) \in Nat
  BY <1>1 DEF IsPiece
<1>3. CASE before = <<>>
  <2>1. before \o f = f
    BY <1>2, <1>3
  <2>2. QED
    BY <1>1, <2>1 DEF f
<1>4. ASSUME NEW x \in Lines, before = <<x>>, x.kind \notin Carriers \cup {"length"}
      PROVE  IsPiece(before \o f, m, format)
  <2> DEFINE p == before \o f
  <2>1. before \in Seq(Lines) /\ Len(before) = 1 /\ before[1] = x
    BY <1>4
  <2>2. /\ p \in Seq(Lines) /\ Len(p) = 1 + Len(f)
        /\ \A i \in 1 .. Len(p) : p[i] = IF i <= 1 THEN before[i] ELSE f[i - 1]
    <3>1. /\ p \in Seq(Lines) /\ Len(p) = Len(before) + Len(f)
          /\ \A i \in 1 .. Len(before) + Len(f) :
               p[i] = IF i <= Len(before) THEN before[i] ELSE f[i - Len(before)]
      BY <1>2, <2>1, ConcatProperties
    <3> HIDE DEF p
    <3>2. QED
      BY <2>1, <3>1
  <2> HIDE DEF p
  <2>3. /\ DOMAIN p = 1 .. Len(p) /\ Len(p) \in Nat
        /\ p[1] = x /\ \A i \in DOMAIN f : i + 1 \in DOMAIN p /\ p[i + 1] = f[i]
        /\ \A i \in DOMAIN p : i = 1 \/ (i - 1 \in DOMAIN f /\ p[i] = f[i - 1])
    BY <1>2, <2>1, <2>2
  <2>4. WellFramed(p)
    <3> SUFFICES ASSUME NEW i \in DOMAIN p, p[i].kind = "length"
                 PROVE  /\ i + 2 \in DOMAIN p
                        /\ p[i + 1].kind = "blank" /\ p[i + 2].kind = "body"
      BY DEF WellFramed
    <3>1. i - 1 \in DOMAIN f /\ f[i - 1].kind = "length"
      BY <1>4, <2>3
    <3>2. /\ (i - 1) + 1 \in DOMAIN f /\ (i - 1) + 2 \in DOMAIN f
          /\ f[(i - 1) + 1].kind = "blank" /\ f[(i - 1) + 2].kind = "body"
      BY <1>2, <3>1 DEF WellFramed
    <3>3. (i - 1) + 1 = i /\ (i - 1) + 2 = i + 1 /\ (i + 1) + 1 = i + 2
      BY <2>3
    <3>4. QED
      BY <2>3, <3>2, <3>3
  <2>5. ASSUME NEW i \in DOMAIN p, Carries(p, i)
        PROVE  i = Len(p) /\ p[i].message = m /\ FormatOf(p[i]) = format
    <3>1. i - 1 \in DOMAIN f /\ p[i] = f[i - 1] /\ Carries(f, i - 1)
      BY <1>4, <2>3, <2>5 DEF Carries
    <3>2. i - 1 = Len(f) /\ f[i - 1].message = m /\ FormatOf(f[i - 1]) = format
      BY <1>1, <3>1 DEF IsPiece
    <3>3. QED
      BY <1>2, <2>2, <2>3, <3>1, <3>2
  <2>6. IsPiece(p, m, format)
    BY <1>1, <1>2, <2>2, <2>4, <2>5 DEF IsPiece
  <2>7. QED
    BY <2>6 DEF p
<1>5. CASE before # <<>>
  <2>1. PICK kind \in {"other", "blank", "bad length"} : before = <<Line(kind)>>
    BY <1>5 DEF Before
  <2>2. Line(kind) \in Lines /\ Line(kind).kind \notin Carriers \cup {"length"}
    BY DEF Line, Lines, Carriers
  <2>3. QED
    BY <1>4, <2>1, <2>2 DEF f
<1>6. QED
  BY <1>3, <1>5
LEMMA WrittenWellFramed ==
  ASSUME NEW s \in Seq(Lines), WellFramed(s), NEW piece, NEW m, NEW format,
         IsPiece(piece, m, format)
  PROVE  LET t == s \o piece IN
         /\ t \in Seq(Lines) /\ WellFramed(t)
         /\ \A i \in DOMAIN t : Carries(t, i) =>
              \/ i \in DOMAIN s /\ t[i] = s[i]
              \/ /\ \A j \in DOMAIN s : j < i
                 /\ i = Len(t) /\ t[i].message = m /\ FormatOf(t[i]) = format
<1> DEFINE t == s \o piece
<1>1. /\ piece \in Seq(Lines) /\ WellFramed(piece)
      /\ DOMAIN piece = 1 .. Len(piece) /\ Len(piece) \in Nat
      /\ DOMAIN s = 1 .. Len(s) /\ Len(s) \in Nat
  BY DEF IsPiece
<1>2. /\ t \in Seq(Lines) /\ Len(t) = Len(s) + Len(piece)
      /\ \A i \in 1 .. Len(s) + Len(piece) :
           t[i] = IF i <= Len(s) THEN s[i] ELSE piece[i - Len(s)]
  BY <1>1, ConcatProperties
<1> HIDE DEF t
<1>3. /\ DOMAIN t = 1 .. Len(t) /\ Len(t) \in Nat
      /\ \A i \in DOMAIN s : i \in DOMAIN t /\ t[i] = s[i]
      /\ \A i \in DOMAIN piece : i + Len(s) \in DOMAIN t /\ t[i + Len(s)] = piece[i]
  BY <1>1, <1>2
<1>4. ASSUME NEW i \in DOMAIN t, i \notin DOMAIN s
      PROVE  /\ i - Len(s) \in DOMAIN piece /\ t[i] = piece[i - Len(s)]
             /\ \A j \in DOMAIN s : j < i
  BY <1>1, <1>2, <1>3, <1>4
<1>5. WellFramed(t)
  <2> SUFFICES ASSUME NEW i \in DOMAIN t, t[i].kind = "length"
               PROVE  /\ i + 2 \in DOMAIN t
                      /\ t[i + 1].kind = "blank" /\ t[i + 2].kind = "body"
    BY DEF WellFramed
  <2>1. CASE i \in DOMAIN s
    <3>1. s[i].kind = "length"
      BY <1>3, <2>1
    <3>2. i + 2 \in DOMAIN s /\ s[i + 1].kind = "blank" /\ s[i + 2].kind = "body"
      BY <2>1, <3>1 DEF WellFramed
    <3>3. i + 1 \in DOMAIN s
      BY <1>1, <2>1, <3>2
    <3>4. QED
      BY <1>3, <3>2, <3>3
  <2>2. CASE i \notin DOMAIN s
    <3> DEFINE k == i - Len(s)
    <3>1. k \in DOMAIN piece /\ piece[k].kind = "length"
      BY <1>4, <2>2
    <3>2. k + 2 \in DOMAIN piece /\ piece[k + 1].kind = "blank" /\ piece[k + 2].kind = "body"
      BY <1>1, <3>1 DEF WellFramed
    <3>3. k + 1 \in DOMAIN piece /\ (k + 1) + Len(s) = i + 1 /\ (k + 2) + Len(s) = i + 2
      <4>1. DOMAIN piece = 1 .. Len(piece) /\ Len(piece) \in Nat /\ Len(s) \in Nat
        BY <1>1
      <4>2. i \in Int
        BY <1>3
      <4> QED BY <3>1, <3>2, <4>1, <4>2
    <3> HIDE DEF k
    <3>4. QED
      BY <1>3, <3>2, <3>3
  <2>3. QED
    BY <2>1, <2>2
<1>6. ASSUME NEW i \in DOMAIN t, Carries(t, i), i \notin DOMAIN s
      PROVE  i = Len(t) /\ t[i].message = m /\ FormatOf(t[i]) = format
  <2>1. i - Len(s) \in DOMAIN piece /\ t[i] = piece[i - Len(s)]
    BY <1>4, <1>6
  <2>2. Carries(piece, i - Len(s))
    BY <1>6, <2>1 DEF Carries
  <2>3. /\ i - Len(s) = Len(piece) /\ piece[i - Len(s)].message = m
        /\ FormatOf(piece[i - Len(s)]) = format
    BY <2>1, <2>2 DEF IsPiece
  <2>4. i = Len(t)
    BY <1>1, <1>2, <1>3, <2>3
  <2>5. QED
    BY <2>1, <2>3, <2>4
<1>7. QED
  BY <1>2, <1>3, <1>4, <1>5, <1>6 DEF t

-----------------------------------------------------------------------------
(* The types of what passes through a channel.                             *)
Sent == [message : Message, format : Formats]
Answers == [id : Nat, outcome : Outcomes]
Stages ==
  {Idle} \cup [stage : {"read"}, message : Message, format : Formats]
    \cup [stage : {"answered"}, message : Message, format : Formats, host : Projects,
          answer : Answers \cup {NoAnswer}]
Outputs == [answer : Answers, format : Formats]

Types ==
  /\ input \in [Channels -> Seq(Lines)]
  /\ sent \in [Channels -> Seq(Sent)]
  /\ handling \in [Channels -> Stages]
  /\ output \in [Channels -> Seq(Outputs)]
  /\ calls \in [Projects -> SUBSET (Channels \X Nat)]

(* A message that was written, as it was.                                  *)
IsSent(c, m, format) ==
  m.number \in DOMAIN sent[c] /\ sent[c][m.number] = [message |-> m, format |-> format]
SentOK(c) ==
  \A n \in DOMAIN sent[c] :
    /\ sent[c][n].message.number = n
    /\ sent[c][n].message.id \in {NoId, n}

(* The message with this number was written before all that wait.          *)
Overtook(c, n) ==
  \A i \in DOMAIN input[c] : Carries(input[c], i) => n < input[c][i].message.number

InputOK(c) ==
  /\ WellFramed(input[c])
  /\ \A i \in DOMAIN input[c] : Carries(input[c], i) =>
       /\ IsSent(c, input[c][i].message, FormatOf(input[c][i]))
       /\ \A j \in DOMAIN input[c] : i < j /\ Carries(input[c], j) =>
            input[c][i].message.number < input[c][j].message.number

(* What may be answered to a message: its own id or none, and its own one  *)
(* to a request.                                                           *)
AnswerTo(m, answer) ==
  /\ answer # NoAnswer => answer \in Answers /\ answer.id \in {NoId, m.id}
  /\ WellFormedRequest(m) => answer # NoAnswer /\ answer.id = m.id

HandlingOK(c) == handling[c] # Idle =>
  LET m == handling[c].message IN
  /\ IsSent(c, m, handling[c].format)
  /\ Overtook(c, m.number)
  /\ handling[c].stage = "answered" =>
       /\ AnswerTo(m, handling[c].answer)
       /\ AsksForRecord(m) => Verdict(c, m.number, handling[c].answer.outcome)

(* A call that is recorded is behind: only the one being answered is not   *)
(* before the message that is handled.                                     *)
CallsOK(c) ==
  \A n \in Nat : Recorded(c, n) =>
    /\ n \in DOMAIN sent[c]
    /\ Overtook(c, n)
    /\ handling[c].stage = "read" => n < handling[c].message.number

OutputOK(c) ==
  \A j \in DOMAIN output[c] :
    LET a == output[c][j].answer IN
    /\ Overtook(c, a.id)
    /\ handling[c] # Idle => a.id < handling[c].message.number
    /\ a.id # NoId =>
         /\ a.id \in DOMAIN sent[c]
         /\ sent[c][a.id].message.id = a.id
         /\ sent[c][a.id].format = output[c][j].format
         /\ \A i \in 1 .. j - 1 : output[c][i].answer.id < a.id
         /\ AsksForRecord(sent[c][a.id].message) => Verdict(c, a.id, a.outcome)

ChannelOK(c) ==
  SentOK(c) /\ InputOK(c) /\ HandlingOK(c) /\ CallsOK(c) /\ OutputOK(c)

ChannelInv == Types /\ repeated = FALSE /\ \A c \in Channels : ChannelOK(c)

Statuses ==
  /\ phase \in [Projects -> {"off", "running", "ended"}]
  /\ listening \in [Projects -> {"no", "yes", "failed"}]
  /\ closed \in [Channels -> {"no", "process", "large", "malformed", "host"}]

SessionInv == Statuses /\ ChannelInv

-----------------------------------------------------------------------------
LEMMA IdleIsIdle ==
  /\ Idle \in Stages /\ Idle.stage = "idle"
  /\ \A h \in Stages : h.stage # "idle" => h # Idle
  /\ \A h \in Stages : h # Idle =>
       h.message \in Message /\ h.format \in Formats /\ h.stage \in {"read", "answered"}
BY DEF Stages, Idle

(* A channel of which nothing changes, but that its message may be dropped. *)
LEMMA Untouched ==
  ASSUME NEW c \in Channels, Types, Types', ChannelOK(c),
         input'[c] = input[c], sent'[c] = sent[c], output'[c] = output[c],
         handling'[c] \in {handling[c], Idle},
         \A n : Recorded(c, n)' <=> Recorded(c, n)
  PROVE  ChannelOK(c)'
<1>1. SentOK(c)'
  BY DEF ChannelOK, SentOK
<1>2. InputOK(c)'
  BY DEF ChannelOK, InputOK, IsSent
<1>3. \A n : Overtook(c, n)' <=> Overtook(c, n)
  BY DEF Overtook
<1>8. \A n, o : Verdict(c, n, o)' <=> Verdict(c, n, o)
  BY DEF Verdict
<1>4. HandlingOK(c)'
  BY <1>3, <1>8 DEF ChannelOK, HandlingOK, IsSent
<1>5. CallsOK(c)'
  BY <1>3, IdleIsIdle DEF ChannelOK, CallsOK
<1>6. OutputOK(c)'
  BY <1>3, <1>8, IdleIsIdle DEF ChannelOK, OutputOK
<1>7. QED
  BY <1>1, <1>2, <1>4, <1>5, <1>6 DEF ChannelOK

(* The message that is handled, and its place.                             *)
LEMMA HandledMessage ==
  ASSUME NEW c \in Channels, Types, ChannelOK(c), handling[c] # Idle
  PROVE  LET m == handling[c].message IN
         /\ m \in Message /\ handling[c].format \in Formats
         /\ m.number \in DOMAIN sent[c] /\ m.number \in Nat /\ m.number > 0
         /\ sent[c][m.number] = [message |-> m, format |-> handling[c].format]
         /\ m.id \in {NoId, m.number}
<1> DEFINE m == handling[c].message
<1>1. m \in Message /\ handling[c].format \in Formats
  BY IdleIsIdle DEF Types
<1>2. m.number \in DOMAIN sent[c] /\ sent[c][m.number] = [message |-> m, format |-> handling[c].format]
  BY DEF ChannelOK, HandlingOK, IsSent
<1>3. sent[c][m.number].message = m
  BY <1>2
<1>4. m.id \in {NoId, m.number}
  BY <1>2, <1>3 DEF ChannelOK, SentOK
<1>5. sent[c] \in Seq(Sent)
  BY DEF Types
<1>6. m.number \in Nat /\ m.number > 0
  BY <1>2, <1>5
<1>7. QED
  BY <1>1, <1>2, <1>4, <1>6

LEMMA CarriedNumbers ==
  ASSUME NEW s \in Seq(Lines), NEW i \in DOMAIN s, Carries(s, i)
  PROVE  s[i].message \in Message /\ s[i].message.number \in Nat
<1>1. s[i] \in Lines
  OBVIOUS
<1>2. s[i].message \in Message
  BY <1>1 DEF Lines, Carries, Carriers
<1>3. QED
  BY <1>2 DEF Message

OwnAnswer(c, answer) ==
  LET m == handling[c].message IN
  /\ answer \in Answers /\ answer.id \in {NoId, m.id}
  /\ answer.id # NoId /\ AsksForRecord(m) =>
       \A n, o : n = m.number /\ o = answer.outcome => Verdict(c, n, o)'

LEMMA Replied ==
  ASSUME NEW c \in Channels, Types, ChannelOK(c), handling[c] # Idle,
         NEW answer, Reply(c, answer), answer = NoAnswer \/ OwnAnswer(c, answer),
         input' = input, sent' = sent,
         \A n : Recorded(c, n) => Recorded(c, n)',
         \A n : Recorded(c, n)' => Recorded(c, n) \/ n = handling[c].message.number
  PROVE  /\ ChannelOK(c)'
         /\ output' \in [Channels -> Seq(Outputs)] /\ handling' \in [Channels -> Stages]
         /\ \A d \in Channels : d # c =>
              output'[d] = output[d] /\ handling'[d] = handling[d]
<1> DEFINE m == handling[c].message
           old == output[c]
           new == [answer |-> answer, format |-> handling[c].format]
<1>1. /\ m \in Message /\ handling[c].format \in Formats
      /\ m.number \in DOMAIN sent[c] /\ m.number \in Nat /\ m.number > 0
      /\ sent[c][m.number] = [message |-> m, format |-> handling[c].format]
      /\ m.id \in {NoId, m.number}
  BY HandledMessage
<1>2. old \in Seq(Outputs) /\ handling'[c] = Idle
  BY DEF Types, Reply
<1>3. new \in Outputs \/ answer = NoAnswer
  BY <1>1 DEF OwnAnswer, Outputs
<1>4. output' = [output EXCEPT ![c] = IF answer = NoAnswer THEN old ELSE Append(old, new)]
  BY DEF Reply
<1>5. output'[c] = IF answer = NoAnswer THEN old ELSE Append(old, new)
  BY <1>4 DEF Types
<1>6. output'[c] \in Seq(Outputs)
  BY <1>2, <1>3, <1>5
<1>7. /\ output' \in [Channels -> Seq(Outputs)] /\ handling' \in [Channels -> Stages]
      /\ \A d \in Channels : d # c =>
           output'[d] = output[d] /\ handling'[d] = handling[d]
  BY <1>4, <1>6, IdleIsIdle DEF Types, Reply
<1>8. SentOK(c)' /\ InputOK(c)'
  BY DEF ChannelOK, SentOK, InputOK, IsSent
<1>9. \A n : Overtook(c, n)' <=> Overtook(c, n)
  BY DEF Overtook
<1>10. HandlingOK(c)'
  BY <1>2 DEF HandlingOK
<1>11. Overtook(c, m.number)
  BY DEF ChannelOK, HandlingOK
<1>12. CallsOK(c)'
  BY <1>1, <1>2, <1>9, <1>11, IdleIsIdle DEF ChannelOK, CallsOK
<1>13. OutputOK(c)'
  <2> DEFINE Fits(j) ==
        LET a == output[c][j].answer IN
        /\ Overtook(c, a.id)
        /\ a.id # NoId =>
             /\ a.id \in DOMAIN sent[c]
             /\ sent[c][a.id].message.id = a.id
             /\ sent[c][a.id].format = output[c][j].format
             /\ \A i \in 1 .. j - 1 : output[c][i].answer.id < a.id
             /\ AsksForRecord(sent[c][a.id].message) => Verdict(c, a.id, a.outcome)
  <2>7. \A n : n < m.number => (Recorded(c, n)' <=> Recorded(c, n))
    <3>1. ~(m.number < m.number)
      BY <1>1
    <3>2. QED
      BY <3>1
  <2>6. \A n, o : n < m.number => (Verdict(c, n, o)' <=> Verdict(c, n, o))
    BY <2>7 DEF Verdict
  <2>1. \A j \in DOMAIN old : Fits(j) /\ old[j].answer.id < m.number
    BY DEF ChannelOK, OutputOK
  <2>2. ASSUME NEW j \in DOMAIN old, output'[c][j] = old[j],
               \A i \in 1 .. j - 1 : output'[c][i] = old[i]
        PROVE  Fits(j)'
    BY <1>9, <2>1, <2>2, <2>6
  <2>3. CASE answer = NoAnswer
    <3>1. output'[c] = old
      BY <1>5, <2>3
    <3>2. \A j \in DOMAIN old : Fits(j)'
      BY <2>2, <3>1
    <3>3. QED
      BY <1>2, <3>1, <3>2 DEF OutputOK
  <2>4. CASE answer # NoAnswer
    <3>1. /\ output'[c] = Append(old, new) /\ Len(old) \in Nat
          /\ DOMAIN old = 1 .. Len(old) /\ DOMAIN output'[c] = 1 .. Len(old) + 1
          /\ output'[c][Len(old) + 1] = new
          /\ \A j \in DOMAIN old : output'[c][j] = old[j]
      BY <1>2, <1>3, <1>5, <2>4
    <3>2. \A j \in DOMAIN old : Fits(j)'
      BY <2>2, <3>1
    <3>3. OwnAnswer(c, answer) /\ answer.id \in {NoId, m.number} /\ new.answer = answer
      BY <1>1, <2>4 DEF OwnAnswer
    <3>4. Overtook(c, answer.id)
      <4>1. \A i \in DOMAIN input[c] : Carries(input[c], i) =>
              input[c][i].message.number \in Nat
        BY CarriedNumbers DEF Types
      <4>2. QED
        BY <1>1, <1>11, <3>3, <4>1 DEF Overtook, NoId
    <3>5. PICK k \in Nat : k = Len(old) + 1
      BY <3>1
    <3>6. Fits(k)'
      <4>1. output'[c][k] = new /\ output'[c][k].answer = answer
        BY <3>1, <3>3, <3>5
      <4>2. Overtook(c, answer.id)'
        BY <1>9, <3>4
      <4>3. CASE answer.id = NoId
        BY <4>1, <4>2, <4>3
      <4>4. CASE answer.id = m.number /\ answer.id # NoId
        <5>1. /\ sent'[c][m.number].message = m
              /\ sent'[c][m.number].format = handling[c].format
              /\ m.number \in DOMAIN sent'[c]
          BY <1>1
        <5>2. \A i \in 1 .. k - 1 : output'[c][i].answer.id < m.number
          BY <2>1, <3>1, <3>5
        <5>3. AsksForRecord(m) =>
                \A n, o : n = m.number /\ o = answer.outcome => Verdict(c, n, o)'
          BY <1>1, <3>3, <4>4 DEF OwnAnswer
        <5>4. m.id = m.number
          BY <1>1, <3>3, <4>4 DEF OwnAnswer
        <5>5. output'[c][k].format = handling[c].format
          BY <4>1
        <5> DEFINE id == output'[c][k].answer.id
        <5>6. /\ id \in DOMAIN sent'[c] /\ sent'[c][id].message.id = id
              /\ sent'[c][id].format = output'[c][k].format
              /\ \A i \in 1 .. k - 1 : output'[c][i].answer.id < id
          BY <4>1, <4>4, <5>1, <5>2, <5>4, <5>5
        <5>8. AsksForRecord(sent'[c][id].message) =>
                Verdict(c, output[c][k].answer.id, output[c][k].answer.outcome)'
          BY <4>1, <4>4, <5>1, <5>3
        <5>9. QED
          BY <4>1, <4>2, <5>6, <5>8
      <4>5. QED
        BY <3>3, <4>3, <4>4
    <3>7. \A j \in DOMAIN output'[c] : Fits(j)'
      <4>1. \A j \in DOMAIN output'[c] : j \in DOMAIN old \/ j = k
        BY <3>1, <3>5
      <4> HIDE DEF Fits
      <4>2. QED
        BY <3>2, <3>6, <4>1
    <3>8. QED
      BY <1>2, <3>7 DEF OutputOK
  <2>5. QED
    BY <2>3, <2>4
<1>14. QED
  BY <1>7, <1>8, <1>10, <1>12, <1>13 DEF ChannelOK

-----------------------------------------------------------------------------
LEMMA TypesAreTypeOK == SessionInv => TypeOK
<1> SUFFICES ASSUME SessionInv PROVE TypeOK
  OBVIOUS
<1>1. Statuses /\ Types /\ repeated \in BOOLEAN
  BY DEF SessionInv, ChannelInv
<1>2. ASSUME NEW c \in Channels
      PROVE  /\ handling[c].stage \in {"idle", "read", "answered"}
             /\ \A i \in DOMAIN output[c] : output[c][i].answer.outcome \in Outcomes
  <2>1. handling[c] \in Stages /\ output[c] \in Seq(Outputs)
    BY <1>1 DEF Types
  <2>2. handling[c].stage \in {"idle", "read", "answered"}
    BY <2>1, IdleIsIdle
  <2>3. ASSUME NEW i \in DOMAIN output[c]
        PROVE  output[c][i].answer.outcome \in Outcomes
    <3>1. output[c][i] \in Outputs
      BY <2>1
    <3>2. QED
      BY <3>1 DEF Outputs, Answers
  <2>4. QED
    BY <2>2, <2>3
<1>3. \A p \in Projects : \A call \in calls[p] : call[1] \in Channels
  BY <1>1 DEF Types
<1>4. QED
  BY <1>1, <1>2, <1>3 DEF TypeOK, Statuses

LEMMA Initially == Init => SessionInv
<1> SUFFICES ASSUME Init PROVE SessionInv
  OBVIOUS
<1>1. Statuses
  BY DEF Init, Statuses
<1>2. Types /\ repeated = FALSE
  BY IdleIsIdle DEF Init, Types
<1>3. ASSUME NEW c \in Channels PROVE ChannelOK(c)
  <2>1. /\ input[c] = <<>> /\ sent[c] = <<>> /\ output[c] = <<>> /\ handling[c] = Idle
        /\ \A n : ~Recorded(c, n)
    BY DEF Init, Recorded
  <2>2. QED
    BY <2>1 DEF ChannelOK, SentOK, InputOK, WellFramed, HandlingOK, CallsOK, OutputOK
<1>4. QED
  BY <1>1, <1>2, <1>3 DEF SessionInv, ChannelInv

(* What is answered, and what of it is true of the record that is asked    *)
(* for.                                                                    *)
LEMMA RequestAnswer ==
  ASSUME NEW m \in Message, NEW end \in HandleRequest(m)
  PROVE  /\ AnswerTo(m, end.answer) /\ end.recorded \in BOOLEAN
         /\ AsksForRecord(m) =>
              /\ end.answer.outcome = "result" => end.recorded = TRUE
              /\ end.answer.outcome = "tool error" => end.recorded = FALSE
<1>1. m.id \in Nat
  BY DEF Message
<1>2. \A id \in {NoId, m.id}, o \in Outcomes :
        Answer(id, o) \in Answers /\ Answer(id, o).id = id /\ Answer(id, o).outcome = o
  BY <1>1 DEF Answer, Answers, NoId
<1>3. {"result", "tool error", "parse error", "no such method"} \subseteq Outcomes
  BY DEF Outcomes
<1>4. \A o \in Outcomes : Answer(m.id, o) # NoAnswer
  BY <1>1 DEF Answer, NoAnswer, Outcomes
<1>5. \A answer : end \in Only(answer) => end.answer = answer /\ end.recorded = FALSE
  BY DEF Only
<1>6. CASE end \in Only(NoAnswer) /\ ~WellFormedRequest(m) /\ ~AsksForRecord(m)
  BY <1>5, <1>6 DEF AnswerTo
<1>7. ASSUME NEW o \in Outcomes, end \in Only(Answer(m.id, o)), ~AsksForRecord(m)
      PROVE  AnswerTo(m, end.answer) /\ end.recorded \in BOOLEAN
  BY <1>2, <1>4, <1>5, <1>7 DEF AnswerTo
<1>8. CASE Malformed(m)
  <2>1. end \in Only(Answer(NoId, "parse error"))
    BY <1>8 DEF HandleRequest
  <2>2. ~WellFormedRequest(m) /\ ~AsksForRecord(m)
    BY <1>8 DEF Malformed, WellFormedRequest, AsksForRecord
  <2>3. end.answer = Answer(NoId, "parse error") /\ end.recorded = FALSE
    BY <1>5, <2>1
  <2>5. Answer(NoId, "parse error") \in Answers /\ Answer(NoId, "parse error").id = NoId
    BY <1>2, <1>3
  <2>4. QED
    BY <2>2, <2>3, <2>5 DEF AnswerTo
<1>9. CASE ~Malformed(m) /\ m.method \in {"none", "initialized"}
  <2>1. end \in Only(NoAnswer)
    BY <1>9 DEF HandleRequest
  <2>2. QED
    BY <1>6, <1>9, <2>1 DEF WellFormedRequest, AsksForRecord
<1>10. CASE ~Malformed(m) /\ m.method \in {"initialize", "ping", "tools/list", "shutdown"}
  <2>1. end \in Only(Answer(m.id, "result")) /\ ~AsksForRecord(m)
    BY <1>10 DEF HandleRequest, AsksForRecord
  <2>2. QED
    BY <1>3, <1>7, <2>1
<1>11. CASE ~Malformed(m) /\ m.method = "unknown"
  <2>1. end \in Only(IF m.id = NoId THEN NoAnswer ELSE Answer(m.id, "no such method"))
    BY <1>11 DEF HandleRequest
  <2>2. ~AsksForRecord(m) /\ (m.id = NoId => ~WellFormedRequest(m))
    BY <1>11 DEF AsksForRecord, WellFormedRequest
  <2>3. QED
    BY <1>3, <1>6, <1>7, <2>1, <2>2
<1>12. CASE ~Malformed(m) /\ m.method = "tools/call"
  <2>1. CASE m.tool = "none"
    <3>1. end \in Only(NoAnswer)
      BY <1>12, <2>1 DEF HandleRequest
    <3>2. ~WellFormedRequest(m) /\ ~AsksForRecord(m)
      BY <1>12, <2>1 DEF WellFormedRequest, AsksForRecord, Recorders
    <3>3. QED
      BY <1>6, <3>1, <3>2
  <2>2. CASE m.tool # "none"
    <3>1. PICK e \in CallTool(m.tool) :
            end = [answer |-> Answer(m.id, e[1]), recorded |-> e[2]]
      BY <1>12, <2>2 DEF HandleRequest
    <3>6. \E o \in {"result", "tool error"}, b \in BOOLEAN :
            /\ e = <<o, b>>
            /\ m.tool \in Recorders => b = (o = "result")
      <4>1. CASE m.tool \in Recorders
        <5>1. e \in {<<"result", TRUE>>, <<"tool error", FALSE>>}
          BY <3>1, <4>1 DEF CallTool, Recorders
        <5>2. QED
          BY <4>1, <5>1, Zenon
      <4>2. CASE m.tool \notin Recorders
        <5>1. \/ e \in {"result", "tool error"} \X BOOLEAN
              \/ e \in {<<"result", FALSE>>, <<"tool error", FALSE>>}
          BY <3>1, <4>2 DEF CallTool
        <5>2. CASE e \in {"result", "tool error"} \X BOOLEAN
          <6>1. PICK A, B : A = {"result", "tool error"} /\ B = BOOLEAN
            OBVIOUS
          <6>2. e \in A \X B
            BY <5>2, <6>1
          <6>3. PICK o \in A, b \in B : e = <<o, b>>
            BY <6>2
          <6>4. QED
            BY <4>2, <6>1, <6>3, Zenon
        <5>3. CASE e \in {<<"result", FALSE>>, <<"tool error", FALSE>>}
          BY <4>2, <5>3, Zenon
        <5>4. QED
          BY <5>1, <5>2, <5>3
      <4>3. QED
        BY <4>1, <4>2
    <3>2. /\ e[1] \in {"result", "tool error"} /\ e[2] \in BOOLEAN
          /\ m.tool \in Recorders =>
               /\ e[1] = "result" => e[2] = TRUE
               /\ e[1] = "tool error" => e[2] = FALSE
      <4>1. PICK o \in {"result", "tool error"}, b \in BOOLEAN :
              /\ e = <<o, b>>
              /\ m.tool \in Recorders => b = (o = "result")
        BY <3>6
      <4>2. e[1] = o /\ e[2] = b
        BY <4>1
      <4>3. QED
        BY <4>1, <4>2, Zenon
    <3>3. /\ end.answer = Answer(m.id, e[1]) /\ end.recorded = e[2]
          /\ end.answer.outcome = e[1]
      BY <1>2, <1>3, <3>1, <3>2
    <3>4. AnswerTo(m, end.answer)
      BY <1>2, <1>3, <1>4, <3>2, <3>3 DEF AnswerTo
    <3>5. QED
      BY <3>2, <3>3, <3>4 DEF AsksForRecord
  <2>3. QED
    BY <2>1, <2>2
<1>13. QED
  BY <1>8, <1>9, <1>10, <1>11, <1>12 DEF Message, Methods

-----------------------------------------------------------------------------
(* Steps of processes, and errors that close a channel: at most they drop  *)
(* the message that is handled.                                            *)
LEMMA Dropped ==
  ASSUME ChannelInv, UNCHANGED <<input, sent, output, calls, repeated>>,
         handling' \in [Channels -> Stages],
         \A c \in Channels : handling'[c] \in {handling[c], Idle}
  PROVE  ChannelInv'
<1>1. Types' /\ Types /\ repeated' = FALSE
  BY DEF ChannelInv, Types
<1>2. ASSUME NEW c \in Channels PROVE ChannelOK(c)'
  <2>1. \A n : Recorded(c, n)' <=> Recorded(c, n)
    BY DEF Recorded
  <2>2. ChannelOK(c)
    BY DEF ChannelInv
  <2>3. QED
    BY <1>1, <2>1, <2>2, Untouched
<1>3. QED
  BY <1>1, <1>2 DEF ChannelInv

LEMMA Ends ==
  ASSUME NEW p \in Projects, NEW by \in {"process", "large", "host"}, SessionInv, Ended(p, by),
         UNCHANGED <<input, sent, output, calls, repeated>>
  PROVE  SessionInv'
<1>1. Statuses'
  BY DEF SessionInv, Statuses, Ended
<1>2. /\ handling' \in [Channels -> Stages]
      /\ \A c \in Channels : handling'[c] \in {handling[c], Idle}
  BY IdleIsIdle DEF SessionInv, ChannelInv, Types, Ended
<1>3. QED
  BY <1>1, <1>2, Dropped DEF SessionInv

(* The channel c is closed, or not, and its message is dropped.            *)
LEMMA HangsUp ==
  ASSUME NEW c \in Channels, NEW by \in {"large", "malformed", "host"}, SessionInv,
         closed' = [closed EXCEPT ![c] = by], handling' = [handling EXCEPT ![c] = Idle],
         UNCHANGED <<phase, listening, input, sent, output, calls, repeated>>
  PROVE  SessionInv'
<1>1. Statuses'
  BY DEF SessionInv, Statuses
<1>2. /\ handling' \in [Channels -> Stages]
      /\ \A d \in Channels : handling'[d] \in {handling[d], Idle}
  BY IdleIsIdle DEF SessionInv, ChannelInv, Types
<1>3. QED
  BY <1>1, <1>2, Dropped DEF SessionInv

LEMMA ReplyKeeps ==
  ASSUME NEW c \in Channels, SessionInv, handling[c] # Idle,
         NEW answer, Reply(c, answer), answer = NoAnswer \/ OwnAnswer(c, answer),
         UNCHANGED <<processes, input, sent, closed>>, repeated' = FALSE,
         calls' \in [Projects -> SUBSET (Channels \X Nat)],
         \A d \in Channels : \A n : Recorded(d, n) => Recorded(d, n)',
         \A d \in Channels : \A n : Recorded(d, n)' =>
           Recorded(d, n) \/ (d = c /\ n = handling[c].message.number)
  PROVE  SessionInv'
<1>1. Statuses'
  BY DEF SessionInv, Statuses, processes
<1>2. Types /\ \A d \in Channels : ChannelOK(d)
  BY DEF SessionInv, ChannelInv
<1>3. /\ ChannelOK(c)'
      /\ output' \in [Channels -> Seq(Outputs)] /\ handling' \in [Channels -> Stages]
      /\ \A d \in Channels : d # c =>
           output'[d] = output[d] /\ handling'[d] = handling[d]
  BY <1>2, Replied
<1>4. Types'
  BY <1>2, <1>3 DEF Types
<1>5. ASSUME NEW d \in Channels, d # c PROVE ChannelOK(d)'
  <2>1. \A n : Recorded(d, n)' <=> Recorded(d, n)
    BY <1>5
  <2>2. QED
    BY <1>2, <1>3, <1>4, <1>5, <2>1, Untouched
<1>6. QED
  BY <1>1, <1>3, <1>4, <1>5 DEF SessionInv, ChannelInv

-----------------------------------------------------------------------------
(* handle_request at a message that was just read: none of its number was  *)
(* recorded before.                                                        *)
LEMMA HandledOnce ==
  ASSUME NEW c \in Channels, NEW q \in Projects, SessionInv,
         handling[c].stage = "read", Handled(c, q, TRUE)
  PROVE  /\ repeated' = FALSE
         /\ calls' \in [Projects -> SUBSET (Channels \X Nat)]
         /\ \A d \in Channels : \A n : Recorded(d, n) => Recorded(d, n)'
         /\ \A d \in Channels : \A n : Recorded(d, n)' =>
              Recorded(d, n) \/ (d = c /\ n = handling[c].message.number)
         /\ \A n : n = handling[c].message.number => Recorded(c, n)'
<1> DEFINE m == handling[c].message
           call == <<c, m.number>>
<1>1. Types /\ ChannelOK(c) /\ repeated = FALSE /\ handling[c] # Idle
  BY IdleIsIdle DEF SessionInv, ChannelInv, Types
<1>2. m.number \in Nat
  BY <1>1, HandledMessage
<1>3. \A r \in Projects : call \notin calls[r]
  BY <1>1, <1>2 DEF ChannelOK, CallsOK, Recorded
<1>4. /\ calls' = [calls EXCEPT ![q] = @ \cup {call}]
      /\ repeated' = (repeated \/ \E r \in Projects : call \in calls[r])
  BY DEF Handled
<1>5. repeated' = FALSE
  BY <1>1, <1>3, <1>4
<1>6. calls' \in [Projects -> SUBSET (Channels \X Nat)]
  BY <1>1, <1>2, <1>4 DEF Types
<1>7. \A d \in Channels : \A n : Recorded(d, n) => Recorded(d, n)'
  BY <1>1, <1>4 DEF Recorded, Types
<1>8. \A d \in Channels : \A n : Recorded(d, n)' =>
        Recorded(d, n) \/ (d = c /\ n = m.number)
  BY <1>1, <1>4 DEF Recorded, Types
<1>9. \A n : n = m.number => Recorded(c, n)'
  BY <1>1, <1>4 DEF Recorded, Types
<1>10. QED
  BY <1>5, <1>6, <1>7, <1>8, <1>9

LEMMA HandledOnly ==
  ASSUME NEW c \in Channels, NEW q \in Projects, SessionInv,
         handling[c].stage = "read", Handled(c, q, FALSE)
  PROVE  /\ repeated' = FALSE
         /\ calls' \in [Projects -> SUBSET (Channels \X Nat)]
         /\ \A d \in Channels : \A n : Recorded(d, n)' <=> Recorded(d, n)
         /\ \A n : n = handling[c].message.number => ~Recorded(c, n)'
<1>1. Types /\ ChannelOK(c) /\ repeated = FALSE /\ handling[c] # Idle
  BY IdleIsIdle DEF SessionInv, ChannelInv, Types
<1>2. handling[c].message.number \in Nat
  BY <1>1, HandledMessage
<1>3. \A n : n = handling[c].message.number => ~Recorded(c, n)
  BY <1>1, <1>2 DEF ChannelOK, CallsOK
<1>4. UNCHANGED <<calls, repeated>>
  BY DEF Handled
<1>5. \A d \in Channels : \A n : Recorded(d, n)' <=> Recorded(d, n)
  BY <1>4 DEF Recorded
<1>6. QED
  BY <1>1, <1>3, <1>4, <1>5 DEF Types

(* The verdict of an answer is true at once.                               *)
HandledWell(c, m, answer) ==
  /\ repeated' = FALSE /\ calls' \in [Projects -> SUBSET (Channels \X Nat)]
  /\ \A d \in Channels : \A n : Recorded(d, n) => Recorded(d, n)'
  /\ \A d \in Channels : \A n :
       Recorded(d, n)' => Recorded(d, n) \/ (d = c /\ n = m.number)
  /\ AnswerTo(m, answer)
  /\ AsksForRecord(m) =>
       \A n, o : n = m.number /\ o = answer.outcome => Verdict(c, n, o)'

LEMMA HandlesWell ==
  ASSUME NEW c \in Channels, NEW q \in Projects, SessionInv, handling[c].stage = "read",
         NEW m \in Message, m = handling[c].message,
         NEW end \in HandleRequest(m), Handled(c, q, end.recorded),
         NEW answer, answer = end.answer
  PROVE  HandledWell(c, m, answer)
<1>1. /\ AnswerTo(m, answer) /\ end.recorded \in BOOLEAN
      /\ AsksForRecord(m) =>
           /\ answer.outcome = "result" => end.recorded = TRUE
           /\ answer.outcome = "tool error" => end.recorded = FALSE
  BY RequestAnswer
<1>2. CASE end.recorded = TRUE
  <2>1. Handled(c, q, TRUE)
    BY <1>2, Zenon
  <2>2. AsksForRecord(m) => answer.outcome # "tool error"
    BY <1>1, <1>2
  <2>3. /\ repeated' = FALSE /\ calls' \in [Projects -> SUBSET (Channels \X Nat)]
        /\ \A d \in Channels : \A n : Recorded(d, n) => Recorded(d, n)'
        /\ \A d \in Channels : \A n :
             Recorded(d, n)' => Recorded(d, n) \/ (d = c /\ n = m.number)
        /\ \A n : n = m.number => Recorded(c, n)'
    BY <2>1, HandledOnce
  <2>4. QED
    BY <1>1, <2>2, <2>3 DEF HandledWell, Verdict
<1>3. CASE end.recorded = FALSE
  <2>1. Handled(c, q, FALSE)
    BY <1>3, Zenon
  <2>2. AsksForRecord(m) => answer.outcome # "result"
    BY <1>1, <1>3
  <2>3. /\ repeated' = FALSE /\ calls' \in [Projects -> SUBSET (Channels \X Nat)]
        /\ \A d \in Channels : \A n : Recorded(d, n)' <=> Recorded(d, n)
        /\ \A n : n = m.number => ~Recorded(c, n)'
    BY <2>1, HandledOnly
  <2>4. QED
    BY <1>1, <2>2, <2>3 DEF HandledWell, Verdict
<1>4. QED
  BY <1>1, <1>2, <1>3

(* One step of the channel's loop or of the editor leaves other channels.  *)
LEMMA OnlyChannel ==
  ASSUME NEW c \in Channels, SessionInv, Statuses', Types', repeated' = FALSE,
         ChannelOK(c)', UNCHANGED output,
         \A d \in Channels : d # c =>
           /\ input'[d] = input[d] /\ sent'[d] = sent[d] /\ handling'[d] = handling[d]
           /\ \A n : Recorded(d, n)' <=> Recorded(d, n)
  PROVE  SessionInv'
<1>1. ASSUME NEW d \in Channels, d # c PROVE ChannelOK(d)'
  BY <1>1, Untouched DEF SessionInv, ChannelInv
<1>2. QED
  BY <1>1 DEF SessionInv, ChannelInv

LEMMA ReadStep ==
  ASSUME NEW c \in Channels, SessionInv, Read(c)
  PROVE  SessionInv'
<1> DEFINE s == input[c]
           reading == Reading(c)
<1>1. Types /\ ChannelOK(c) /\ repeated = FALSE
  BY DEF SessionInv, ChannelInv
<1>2. s \in Seq(Lines) /\ WellFramed(s)
  BY <1>1 DEF Types, ChannelOK, InputOK
<1>3. reading \in {ReadStdio(s), ReadIpc(s)} /\ reading.result = "message"
  BY DEF Reading, Read
<1>4. Takes(s, reading)
  BY <1>2, <1>3, StdioTakes, IpcTakes
<1>5. /\ input' = [input EXCEPT ![c] = reading.rest]
      /\ handling' = [handling EXCEPT ![c] =
           [stage |-> "read", message |-> reading.message, format |-> reading.format]]
      /\ UNCHANGED <<processes, sent, output, closed, calls, repeated>>
  BY DEF Read
<1> HIDE DEF reading
<1>6. PICK k \in DOMAIN s : /\ Carries(s, k) /\ reading.message = s[k].message
                            /\ reading.format = FormatOf(s[k])
                            /\ reading.rest = From(s, k + 1)
  BY <1>4 DEF Takes
<1> DEFINE r == From(s, k + 1)
<1>0. /\ r \in Seq(Lines) /\ WellFramed(r)
      /\ \A i \in DOMAIN r : k + i \in DOMAIN s /\ r[i] = s[k + i]
  BY <1>2, FromIsRest, RestWellFramed
<1> HIDE DEF r
<1>7. /\ r \in Seq(Lines) /\ WellFramed(r)
      /\ \A i \in DOMAIN r : k + i \in DOMAIN s /\ r[i] = s[k + i]
      /\ \A i \in DOMAIN r : i \in Nat /\ i > 0
      /\ k \in Nat
  BY <1>0, <1>2
<1>8. PICK m \in Message :
        m = s[k].message /\ m.number \in Nat /\ FormatOf(s[k]) \in Formats
  BY <1>2, <1>6, CarriedNumbers DEF FormatOf, Formats
<1>9. /\ input' = [input EXCEPT ![c] = r] /\ input'[c] = r
      /\ handling' = [handling EXCEPT ![c] =
           [stage |-> "read", message |-> m, format |-> FormatOf(s[k])]]
      /\ handling'[c] = [stage |-> "read", message |-> m, format |-> FormatOf(s[k])]
  BY <1>1, <1>5, <1>6, <1>8 DEF Types, r
<1>10. Types' /\ Statuses'
  <2>1. [stage |-> "read", message |-> m, format |-> FormatOf(s[k])] \in Stages
    BY <1>8 DEF Stages
  <2>2. QED
    BY <1>1, <1>5, <1>7, <1>9, <2>1 DEF Types, SessionInv, Statuses, processes
<1>11. \A d \in Channels : \A n : Recorded(d, n)' <=> Recorded(d, n)
  BY <1>5 DEF Recorded
<1>12. \A n : Overtook(c, n) => Overtook(c, n)' /\ n < m.number
  <2>1. ASSUME NEW n, Overtook(c, n), NEW i \in DOMAIN r, Carries(r, i)
        PROVE  n < r[i].message.number
    BY <1>7, <2>1 DEF Overtook, Carries
  <2>2. QED
    BY <1>6, <1>8, <1>9, <2>1 DEF Overtook
<1>13. Overtook(c, m.number)'
  <2>1. ASSUME NEW i \in DOMAIN r, Carries(r, i) PROVE m.number < r[i].message.number
    <3>1. k + i \in DOMAIN s /\ k < k + i /\ r[i] = s[k + i] /\ Carries(s, k + i)
      BY <1>7, <2>1 DEF Carries
    <3>2. QED
      BY <1>1, <1>6, <1>8, <3>1 DEF ChannelOK, InputOK
  <2>2. QED
    BY <1>9, <2>1 DEF Overtook
<1>14. InputOK(c)'
  <2>1. ASSUME NEW i \in DOMAIN r, Carries(r, i)
        PROVE  /\ IsSent(c, r[i].message, FormatOf(r[i]))
               /\ \A j \in DOMAIN r : i < j /\ Carries(r, j) =>
                    r[i].message.number < r[j].message.number
    <3>1. k + i \in DOMAIN s /\ r[i] = s[k + i] /\ Carries(s, k + i)
      BY <1>7, <2>1 DEF Carries
    <3>2. IsSent(c, r[i].message, FormatOf(r[i]))
      BY <1>1, <3>1 DEF ChannelOK, InputOK
    <3>3. ASSUME NEW j \in DOMAIN r, i < j, Carries(r, j)
          PROVE  r[i].message.number < r[j].message.number
      <4>1. k + j \in DOMAIN s /\ r[j] = s[k + j] /\ Carries(s, k + j) /\ k + i < k + j
        BY <1>7, <3>3 DEF Carries
      <4>2. QED
        BY <1>1, <3>1, <4>1 DEF ChannelOK, InputOK
    <3>4. QED
      BY <3>2, <3>3
  <2>2. QED
    BY <1>5, <1>7, <1>9, <2>1 DEF InputOK, IsSent
<1>15. HandlingOK(c)'
  <2>1. IsSent(c, m, FormatOf(s[k]))
    BY <1>1, <1>6, <1>8 DEF ChannelOK, InputOK
  <2>2. /\ handling'[c].message = m /\ handling'[c].format = FormatOf(s[k])
        /\ handling'[c].stage = "read"
    BY <1>9
  <2>3. IsSent(c, handling[c].message, handling[c].format)'
    BY <1>5, <2>1, <2>2 DEF IsSent
  <2>4. Overtook(c, handling[c].message.number)'
    BY <1>13, <2>2
  <2>5. QED
    BY <2>2, <2>3, <2>4 DEF HandlingOK
<1>16. CallsOK(c)'
  BY <1>1, <1>5, <1>9, <1>11, <1>12 DEF ChannelOK, CallsOK
<1>22. \A n, o : Verdict(c, n, o)' <=> Verdict(c, n, o)
  BY <1>11 DEF Verdict
<1>17. OutputOK(c)'
  BY <1>1, <1>5, <1>9, <1>12, <1>22 DEF ChannelOK, OutputOK
<1>18. SentOK(c)'
  BY <1>1, <1>5 DEF ChannelOK, SentOK
<1>19. ChannelOK(c)'
  BY <1>14, <1>15, <1>16, <1>17, <1>18 DEF ChannelOK
<1>20. \A d \in Channels : d # c =>
         input'[d] = input[d] /\ sent'[d] = sent[d] /\ handling'[d] = handling[d]
  BY <1>1, <1>5, <1>9 DEF Types
<1>21. QED
  BY <1>1, <1>5, <1>10, <1>11, <1>19, <1>20, OnlyChannel

(* What an editor writes: the next message, after lines that are tolerated. *)
LEMMA WriteIs ==
  ASSUME NEW c \in Channels, SessionInv, Write(c)
  PROVE  \E m \in Message, f \in Frames :
           /\ Tolerated(c, f) /\ f.format \in Formats /\ f.before \in Before
           /\ m.number = Len(sent[c]) + 1 /\ m.id \in {NoId, m.number}
           /\ sent' = [sent EXCEPT ![c] =
                Append(sent[c], [message |-> m, format |-> f.format])]
           /\ input' = [input EXCEPT ![c] = input[c] \o (f.before \o Framed(m, f.format))]
<1> DEFINE s == input[c]
           number == Len(sent[c]) + 1
<1>1. s \in Seq(Lines) /\ number \in Nat
  BY DEF SessionInv, ChannelInv, Types
<1>2. PICK old \in Messages, f \in {g \in Frames : Tolerated(c, g)} :
        LET id == IF old.id = NoId THEN NoId ELSE number
            message == [old EXCEPT !.id = id, !.number = number]
        IN /\ sent' = [sent EXCEPT ![c] =
                Append(@, [message |-> message, format |-> f.format])]
           /\ input' = [input EXCEPT ![c] =
                @ \o f.before \o Framed(message, f.format)]
  BY DEF Write
<1>3. PICK m \in Message :
        /\ m = [old EXCEPT !.id = IF old.id = NoId THEN NoId ELSE number,
                           !.number = number]
        /\ m.number = number /\ m.id \in {NoId, number}
  <2>1. old \in Message
    BY SessionAssumption
  <2> DEFINE i == IF old.id = NoId THEN NoId ELSE number
             x == [old EXCEPT !.id = i, !.number = number]
  <2>2. i \in Nat /\ i \in {NoId, number}
    BY <1>1 DEF NoId
  <2> HIDE DEF i
  <2>3. x \in Message /\ x.number = number /\ x.id = i
    BY <1>1, <2>1, <2>2 DEF Message
  <2>4. QED
    BY <2>2, <2>3 DEF i
<1>4. /\ f.format \in Formats /\ f.before \in Before
  BY SessionAssumption DEF Tolerated, Formats, Before
<1>5. (s \o f.before) \o Framed(m, f.format) = s \o (f.before \o Framed(m, f.format))
  <2>1. f.before \in Seq(Lines)
    <3>1. Line("other") \in Lines /\ Line("blank") \in Lines /\ Line("bad length") \in Lines
      BY DEF Line, Lines
    <3>2. <<>> \in Seq(Lines) /\ \A x \in Lines : <<x>> \in Seq(Lines)
      OBVIOUS
    <3>3. QED
      BY <1>4, <3>1, <3>2 DEF Before
  <2>2. Framed(m, f.format) \in Seq(Lines)
    BY <1>4, FramedIsPiece DEF IsPiece
  <2> DEFINE b == f.before
             e == Framed(m, f.format)
  <2>3. s \in Seq(Lines) /\ b \in Seq(Lines) /\ e \in Seq(Lines)
    BY <1>1, <2>1, <2>2
  <2> HIDE DEF s, b, e
  <2>4. (s \o b) \o e = s \o (b \o e)
    BY <2>3, ConcatAssociative
  <2>5. QED
    BY <2>4 DEF b, e
<1>6. sent' = [sent EXCEPT ![c] = Append(sent[c], [message |-> m, format |-> f.format])]
  BY <1>2, <1>3
<1>7. input' = [input EXCEPT ![c] = s \o (f.before \o Framed(m, f.format))]
  BY <1>2, <1>3, <1>5
<1>8. QED
  BY <1>3, <1>4, <1>6, <1>7

LEMMA WriteStep ==
  ASSUME NEW c \in Channels, SessionInv, Write(c)
  PROVE  SessionInv'
<1> DEFINE s == input[c]
           number == Len(sent[c]) + 1
<1>1. Types /\ ChannelOK(c) /\ repeated = FALSE
  BY DEF SessionInv, ChannelInv
<1>2. /\ s \in Seq(Lines) /\ WellFramed(s) /\ sent[c] \in Seq(Sent)
      /\ number \in Nat /\ number > 0 /\ DOMAIN sent[c] = 1 .. Len(sent[c])
  BY <1>1 DEF Types, ChannelOK, InputOK
<1>3. PICK m \in Message, f \in Frames :
        /\ Tolerated(c, f) /\ f.format \in Formats /\ f.before \in Before
        /\ m.number = Len(sent[c]) + 1 /\ m.id \in {NoId, m.number}
        /\ sent' = [sent EXCEPT ![c] =
             Append(sent[c], [message |-> m, format |-> f.format])]
        /\ input' = [input EXCEPT ![c] = input[c] \o (f.before \o Framed(m, f.format))]
  BY WriteIs
<1>4. UNCHANGED <<processes, handling, output, closed, calls, repeated>>
  BY DEF Write
<1>5. m.number = number /\ m.id \in {NoId, number}
  BY <1>3
<1> DEFINE piece == f.before \o Framed(m, f.format)
<1>25. PICK t : t = s \o piece
  OBVIOUS
<1>26. PICK new : new = [message |-> m, format |-> f.format]
  OBVIOUS
<1>8. IsPiece(piece, m, f.format)
  BY <1>3, PieceIsFramed
<1>9. /\ sent'[c] = Append(sent[c], new)
      /\ sent' = [sent EXCEPT ![c] = Append(sent[c], new)]
  BY <1>1, <1>3, <1>26 DEF Types
<1>10. /\ input'[c] = t /\ input' = [input EXCEPT ![c] = t]
  BY <1>1, <1>3, <1>25 DEF Types
<1> HIDE DEF piece
<1>11. /\ t \in Seq(Lines) /\ WellFramed(t)
       /\ \A i \in DOMAIN t : Carries(t, i) =>
            \/ i \in DOMAIN s /\ t[i] = s[i]
            \/ /\ \A j \in DOMAIN s : j < i
               /\ i = Len(t) /\ t[i].message = m /\ FormatOf(t[i]) = f.format
  <2> HIDE DEF s
  <2>1. LET u == s \o piece IN
        /\ u \in Seq(Lines) /\ WellFramed(u)
        /\ \A i \in DOMAIN u : Carries(u, i) =>
             \/ i \in DOMAIN s /\ u[i] = s[i]
             \/ /\ \A j \in DOMAIN s : j < i
                /\ i = Len(u) /\ u[i].message = m /\ FormatOf(u[i]) = f.format
    BY <1>2, <1>8, WrittenWellFramed
  <2>2. QED
    BY <1>25, <2>1
<1>12. /\ new \in Sent /\ sent'[c] \in Seq(Sent) /\ DOMAIN sent'[c] = 1 .. number
       /\ sent'[c][number] = new /\ number \notin DOMAIN sent[c]
       /\ \A k \in DOMAIN sent[c] : k \in DOMAIN sent'[c] /\ sent'[c][k] = sent[c][k]
       /\ \A k \in DOMAIN sent[c] : k < number
       /\ \A k \in DOMAIN sent'[c] : k \in DOMAIN sent[c] \/ k = number
  <2>1. new \in Sent
    BY <1>3, <1>26 DEF Sent
  <2>2. QED
    BY <1>2, <1>9, <2>1
<1>13. Types' /\ Statuses'
  BY <1>1, <1>4, <1>9, <1>10, <1>11, <1>12
     DEF Types, SessionInv, Statuses, processes
<1>14. \A d \in Channels : \A k : Recorded(d, k)' <=> Recorded(d, k)
  BY <1>4 DEF Recorded
<1>27. \A n, o : Verdict(c, n, o)' <=> Verdict(c, n, o)
  BY <1>14 DEF Verdict
<1>15. SentOK(c)'
  <2>1. sent'[c][number].message = m
    BY <1>12, <1>26
  <2>2. QED
    BY <1>1, <1>5, <1>12, <2>1 DEF ChannelOK, SentOK
<1>16. \A x, format : IsSent(c, x, format) => IsSent(c, x, format)' /\ x.number < number
  BY <1>12 DEF IsSent
<1>17. \A k \in DOMAIN sent[c] \cup {NoId} : Overtook(c, k) => Overtook(c, k)'
  <2>1. ASSUME NEW k \in DOMAIN sent[c] \cup {NoId}, Overtook(c, k),
               NEW i \in DOMAIN t, Carries(t, i)
        PROVE  k < t[i].message.number
    <3>1. CASE i \in DOMAIN s /\ t[i] = s[i]
      BY <2>1, <3>1 DEF Overtook, Carries
    <3>2. CASE t[i].message = m
      BY <1>2, <1>5, <1>12, <3>2 DEF NoId
    <3>3. QED
      BY <1>11, <2>1, <3>1, <3>2
  <2>2. QED
    BY <1>10, <2>1 DEF Overtook
<1>18. InputOK(c)'
  <2>1. ASSUME NEW i \in DOMAIN t, Carries(t, i)
        PROVE  /\ IsSent(c, t[i].message, FormatOf(t[i]))'
               /\ \A j \in DOMAIN t : i < j /\ Carries(t, j) =>
                    t[i].message.number < t[j].message.number
    <3>1. CASE i \in DOMAIN s /\ t[i] = s[i]
      <4>1. Carries(s, i) /\ IsSent(c, s[i].message, FormatOf(s[i]))
        BY <1>1, <2>1, <3>1 DEF Carries, ChannelOK, InputOK
      <4>2. PICK x : x = s[i].message
        OBVIOUS
      <4>3. PICK format : format = FormatOf(s[i])
        OBVIOUS
      <4>4. IsSent(c, x, format)' /\ x.number < number
        BY <1>16, <4>1, <4>2, <4>3
      <4>5. IsSent(c, t[i].message, FormatOf(t[i]))'
        <5>1. t[i].message = x /\ FormatOf(t[i]) = format
          BY <3>1, <4>2, <4>3
        <5>2. QED
          BY <4>4, <5>1
      <4>6. ASSUME NEW j \in DOMAIN t, i < j, Carries(t, j)
            PROVE  t[i].message.number < t[j].message.number
        <5>1. CASE j \in DOMAIN s /\ t[j] = s[j]
          <6>1. Carries(s, j)
            BY <4>6, <5>1 DEF Carries
          <6>2. QED
            BY <1>1, <3>1, <4>1, <4>6, <5>1, <6>1 DEF ChannelOK, InputOK
        <5>2. CASE t[j].message = m
          BY <1>5, <3>1, <4>2, <4>4, <5>2
        <5>3. QED
          BY <1>11, <4>6, <5>1, <5>2
      <4>7. QED
        BY <4>5, <4>6
    <3>2. CASE i = Len(t) /\ t[i].message = m /\ FormatOf(t[i]) = f.format
      <4>1. IsSent(c, m, f.format)'
        BY <1>5, <1>12, <1>26 DEF IsSent
      <4>2. IsSent(c, t[i].message, FormatOf(t[i]))'
        BY <3>2, <4>1
      <4>3. \A j \in DOMAIN t : ~(i < j)
        BY <1>11, <3>2
      <4>4. QED
        BY <4>2, <4>3
    <3>3. QED
      BY <1>11, <2>1, <3>1, <3>2
  <2>2. QED
    BY <1>10, <1>11, <2>1 DEF InputOK
<1>19. HandlingOK(c)'
  <2> SUFFICES ASSUME handling[c] # Idle PROVE HandlingOK(c)'
    BY <1>4 DEF HandlingOK
  <2>1. PICK h \in Message : h = handling[c].message
    BY <1>1, HandledMessage
  <2>2. IsSent(c, h, handling[c].format) /\ Overtook(c, h.number) /\ h.number \in DOMAIN sent[c]
    BY <1>1, <2>1 DEF ChannelOK, HandlingOK, IsSent
  <2>3. IsSent(c, h, handling[c].format)' /\ Overtook(c, h.number)'
    BY <1>4, <1>16, <1>17, <2>2 DEF IsSent
  <2>4. QED
    BY <1>1, <1>4, <1>27, <2>1, <2>3 DEF ChannelOK, HandlingOK
<1>20. CallsOK(c)'
  BY <1>1, <1>4, <1>12, <1>14, <1>17 DEF ChannelOK, CallsOK
<1>21. OutputOK(c)'
  BY <1>1, <1>4, <1>12, <1>17, <1>27 DEF ChannelOK, OutputOK
<1>22. \A d \in Channels : d # c =>
         input'[d] = input[d] /\ sent'[d] = sent[d] /\ handling'[d] = handling[d]
  BY <1>1, <1>4, <1>9, <1>10 DEF Types
<1>23. ChannelOK(c)'
  BY <1>15, <1>18, <1>19, <1>20, <1>21 DEF ChannelOK
<1>24. QED
  BY <1>1, <1>4, <1>13, <1>14, <1>22, <1>23, OnlyChannel

-----------------------------------------------------------------------------
(* The steps of the loops, one lemma for each that handles a message.      *)
LEMMA AtMessage ==
  ASSUME NEW c \in Channels, SessionInv, handling[c].stage \in {"read", "answered"}
  PROVE  /\ handling[c] # Idle /\ handling[c].message \in Message
         /\ handling[c].message.id \in Nat
BY IdleIsIdle DEF SessionInv, ChannelInv, Types, Message

LEMMA HandleHereStep ==
  ASSUME NEW c \in Channels, SessionInv, HandleHere(c)
  PROVE  SessionInv'
<1>1. PICK m \in Message : m = handling[c].message /\ handling[c] # Idle
  BY AtMessage DEF HandleHere, At
<1>2. PICK end \in HandleRequest(m) :
        Handled(c, Process(c), end.recorded) /\ Reply(c, end.answer)
  BY <1>1 DEF HandleHere
<1>3. PICK answer : answer = end.answer
  OBVIOUS
<1>4. /\ handling[c].stage = "read" /\ Process(c) \in Projects
      /\ UNCHANGED <<processes, input, sent, closed>>
  BY DEF HandleHere, At, Process, Channels
<1>5. HandledWell(c, m, answer)
  BY <1>1, <1>2, <1>3, <1>4, HandlesWell
<1>6. answer = NoAnswer \/ OwnAnswer(c, answer)
  BY <1>1, <1>5 DEF OwnAnswer, AnswerTo, HandledWell
<1>7. Reply(c, answer)
  BY <1>2, <1>3
<1>8. QED
  BY <1>1, <1>4, <1>5, <1>6, <1>7, ReplyKeeps DEF HandledWell

(* Answers that say that the call failed, and calls that stay as they are. *)
LEMMA RefusedStep ==
  ASSUME NEW c \in Channels, SessionInv, handling[c].stage \in {"read", "answered"},
         NEW answer \in Answers, answer.id \in {NoId, handling[c].message.id},
         answer.outcome \notin {"result", "tool error"},
         NEW by \in {"malformed", "host"}, Refuse(c, answer, by),
         UNCHANGED <<input, sent, calls, repeated>>
  PROVE  SessionInv'
<1>1. handling[c] # Idle
  BY AtMessage
<1>2. CASE Kind(c) = "bridge"
  <2>1. Reply(c, answer) /\ UNCHANGED <<processes, closed>>
    BY <1>2 DEF Refuse
  <2>2. OwnAnswer(c, answer)
    BY DEF OwnAnswer, Verdict
  <2>3. /\ calls' \in [Projects -> SUBSET (Channels \X Nat)] /\ repeated' = FALSE
        /\ \A d \in Channels : \A n : Recorded(d, n)' <=> Recorded(d, n)
    BY DEF SessionInv, ChannelInv, Types, Recorded
  <2>4. QED
    BY <1>1, <2>1, <2>2, <2>3, ReplyKeeps
<1>3. CASE Kind(c) # "bridge"
  BY <1>3, HangsUp DEF Refuse, processes
<1>4. QED
  BY <1>2, <1>3

LEMMA ForwardMalformedStep ==
  ASSUME NEW c \in Channels, SessionInv, ForwardMalformed(c)
  PROVE  SessionInv'
<1> DEFINE answer == Answer(NoId, "parse error")
<1>1. /\ handling[c].stage = "read" /\ Refuse(c, answer, "malformed")
      /\ UNCHANGED <<input, sent, calls, repeated>>
  BY DEF ForwardMalformed, Forwards, At
<1>2. /\ answer \in Answers /\ answer.id = NoId
      /\ answer.outcome \notin {"result", "tool error"}
  BY DEF Answer, Answers, NoId, Outcomes
<1>3. QED
  BY <1>1, <1>2, RefusedStep

LEMMA BridgeErrorFails ==
  ASSUME NEW c \in Channels, SessionInv, handling[c].stage \in {"read", "answered"},
         Refuse(c, BridgeError(c), "host"), UNCHANGED <<input, sent, calls, repeated>>
  PROVE  SessionInv'
<1>1. /\ BridgeError(c) \in Answers /\ BridgeError(c).id = handling[c].message.id
      /\ BridgeError(c).outcome \notin {"result", "tool error"}
  BY AtMessage DEF BridgeError, Answer, Answers, Outcomes
<1>2. QED
  BY <1>1, RefusedStep

LEMMA ForwardFailsStep ==
  ASSUME NEW c \in Channels, SessionInv, ForwardFails(c)
  PROVE  SessionInv'
BY BridgeErrorFails DEF ForwardFails, Forwards, At

LEMMA LoseAnswerStep ==
  ASSUME NEW c \in Channels, SessionInv, LoseAnswer(c)
  PROVE  SessionInv'
BY BridgeErrorFails DEF LoseAnswer, At

LEMMA PassOnStep ==
  ASSUME NEW c \in Channels, SessionInv, PassOn(c)
  PROVE  SessionInv'
<1>1. PICK m \in Message : m = handling[c].message /\ handling[c] # Idle
  BY AtMessage DEF PassOn, At
<1>2. PICK answer : answer = handling[c].answer
  OBVIOUS
<1>3. /\ handling[c].stage = "answered" /\ Reply(c, answer)
      /\ UNCHANGED <<processes, input, sent, closed, calls, repeated>>
  BY <1>2 DEF PassOn, At
<1>4. /\ calls' \in [Projects -> SUBSET (Channels \X Nat)] /\ repeated' = FALSE
      /\ \A d \in Channels : \A n : Recorded(d, n)' <=> Recorded(d, n)
  BY <1>3 DEF SessionInv, ChannelInv, Types, Recorded
<1>5. /\ AnswerTo(m, answer)
      /\ AsksForRecord(m) => Verdict(c, m.number, answer.outcome)
  BY <1>1, <1>2, <1>3 DEF SessionInv, ChannelInv, ChannelOK, HandlingOK
<1>6. AsksForRecord(m) =>
        \A n, o : n = m.number /\ o = answer.outcome => Verdict(c, n, o)'
  BY <1>4, <1>5 DEF Verdict
<1>7. answer = NoAnswer \/ OwnAnswer(c, answer)
  BY <1>1, <1>5, <1>6 DEF OwnAnswer, AnswerTo
<1>8. QED
  BY <1>1, <1>3, <1>4, <1>7, ReplyKeeps

LEMMA ForwardStep ==
  ASSUME NEW c \in Channels, SessionInv, Forward(c)
  PROVE  SessionInv'
<1>1. PICK m \in Message : m = handling[c].message
  BY AtMessage DEF Forward, Forwards, At
<1>2. PICK q \in Projects, end \in HandleRequest(m) :
        /\ Handled(c, q, end.recorded)
        /\ handling' = [handling EXCEPT ![c] =
             [stage |-> "answered", message |-> m, format |-> @.format, host |-> q,
              answer |-> end.answer]]
  BY <1>1 DEF Forward
<1>3. /\ handling[c].stage = "read" /\ handling[c] # Idle
      /\ UNCHANGED <<processes, input, sent, output, closed>>
  BY AtMessage DEF Forward, Forwards, At
<1>4. Types /\ ChannelOK(c) /\ handling[c].format \in Formats
  BY <1>3, IdleIsIdle DEF SessionInv, ChannelInv, Types
<1>5. PICK answer : answer = end.answer
  OBVIOUS
<1>6. HandledWell(c, m, answer)
  BY <1>1, <1>2, <1>3, <1>5, HandlesWell
<1>7. /\ handling'[c] = [stage |-> "answered", message |-> m,
                          format |-> handling[c].format, host |-> q, answer |-> answer]
      /\ handling' \in [Channels -> Stages]
      /\ \A d \in Channels : d # c => handling'[d] = handling[d]
  <2>1. [stage |-> "answered", message |-> m,
         format |-> handling[c].format, host |-> q, answer |-> answer] \in Stages
    BY <1>4, <1>6 DEF Stages, AnswerTo, HandledWell
  <2>2. QED
    BY <1>2, <1>4, <1>5, <2>1 DEF Types
<1>8. Types' /\ Statuses'
  BY <1>3, <1>4, <1>6, <1>7 DEF Types, SessionInv, Statuses, processes, HandledWell
<1>9. \A n : Overtook(c, n)' <=> Overtook(c, n)
  BY <1>3 DEF Overtook
<1>10. IsSent(c, m, handling[c].format) /\ Overtook(c, m.number)
  BY <1>1, <1>3, <1>4 DEF ChannelOK, HandlingOK
<1>11. SentOK(c)' /\ InputOK(c)'
  BY <1>3, <1>4 DEF ChannelOK, SentOK, InputOK, IsSent
<1>12. HandlingOK(c)'
  <2>1. /\ handling'[c].message = m /\ handling'[c].format = handling[c].format
        /\ handling'[c].answer = answer
    BY <1>7
  <2>2. IsSent(c, m, handling[c].format)'
    BY <1>3, <1>10, <2>1 DEF IsSent
  <2>3. AsksForRecord(m) =>
          Verdict(c, handling[c].message.number, handling[c].answer.outcome)'
    BY <1>6, <2>1 DEF HandledWell
  <2>4. AnswerTo(m, answer)
    BY <1>6 DEF HandledWell
  <2>5. QED
    BY <1>9, <1>10, <2>1, <2>2, <2>3, <2>4 DEF HandlingOK
<1>13. CallsOK(c)'
  <2>1. handling'[c].stage # "read"
    BY <1>7
  <2>2. m.number \in DOMAIN sent[c]
    BY <1>10 DEF IsSent
  <2>3. QED
    BY <1>3, <1>4, <1>6, <1>9, <1>10, <2>1, <2>2 DEF ChannelOK, CallsOK, HandledWell
<1>14. OutputOK(c)'
  <2>1. handling'[c].message.number = handling[c].message.number
    BY <1>1, <1>7
  <2>2. \A n : n < m.number => (Recorded(c, n)' <=> Recorded(c, n))
    <3>1. ~(m.number < m.number)
      BY DEF Message
    <3>2. QED
      BY <1>6, <3>1 DEF HandledWell
  <2>3. \A n, o : n < m.number => (Verdict(c, n, o)' <=> Verdict(c, n, o))
    BY <2>2 DEF Verdict
  <2>4. QED
    BY <1>1, <1>3, <1>4, <1>9, <2>1, <2>3 DEF ChannelOK, OutputOK
<1>15. ChannelOK(c)'
  BY <1>11, <1>12, <1>13, <1>14 DEF ChannelOK
<1>16. QED
  <2>1. \A d \in Channels : d # c => \A n : Recorded(d, n)' <=> Recorded(d, n)
    BY <1>6 DEF HandledWell
  <2>2. repeated' = FALSE
    BY <1>6 DEF HandledWell
  <2>3. QED
    BY <1>3, <1>7, <1>8, <1>15, <2>1, <2>2, OnlyChannel

LEMMA BreakStep ==
  ASSUME NEW c \in Channels, SessionInv, ForwardTooLarge(c) \/ LoseBody(c)
  PROVE  SessionInv'
<1>1. PICK by \in {"large", "host"} : Breaks(c, by)
  BY DEF ForwardTooLarge, LoseBody
<1>2. UNCHANGED <<input, sent, output, calls, repeated>>
  BY DEF ForwardTooLarge, LoseBody
<1>3. CASE Kind(c) = "bridge"
  <2>1. Ended(Process(c), by) /\ Process(c) \in Projects
    BY <1>1, <1>3 DEF Breaks, Process, Channels
  <2>2. QED
    BY <1>2, <2>1, Ends
<1>4. CASE Kind(c) # "bridge"
  BY <1>1, <1>2, <1>4, HangsUp DEF Breaks
<1>5. QED
  BY <1>3, <1>4

LEMMA ProcessSteps ==
  ASSUME NEW p \in Projects, SessionInv,
         Start(p) \/ Listen(p) \/ ListenFails(p) \/ End(p)
  PROVE  SessionInv'
<1>1. ASSUME Statuses', UNCHANGED <<input, sent, handling, output, calls, repeated>>
      PROVE  SessionInv'
  <2>1. handling' \in [Channels -> Stages]
    BY <1>1 DEF SessionInv, ChannelInv, Types
  <2>2. QED
    BY <1>1, <2>1, Dropped DEF SessionInv
<1>2. CASE Start(p)
  <2>1. Statuses'
    BY <1>2 DEF Start, SessionInv, Statuses
  <2>2. QED
    BY <1>1, <1>2, <2>1 DEF Start
<1>3. CASE Listen(p)
  <2>1. Statuses'
    BY <1>3 DEF Listen, SessionInv, Statuses
  <2>2. QED
    BY <1>1, <1>3, <2>1 DEF Listen
<1>4. CASE ListenFails(p)
  <2>1. CASE launch[p].bridge
    <3>1. Statuses'
      BY <1>4, <2>1 DEF ListenFails, SessionInv, Statuses
    <3>2. QED
      BY <1>1, <1>4, <2>1, <3>1 DEF ListenFails
  <2>2. CASE ~launch[p].bridge
    BY <1>4, <2>2, Ends DEF ListenFails
  <2>3. QED
    BY <2>1, <2>2
<1>5. CASE End(p)
  BY <1>5, Ends DEF End
<1>6. QED
  BY <1>2, <1>3, <1>4, <1>5

LEMMA NextKeepsInv ==
  ASSUME SessionInv, [Next]_vars
  PROVE  SessionInv'
<1>1. ASSUME NEW p \in Projects, Start(p) \/ ProcessStep(p) \/ End(p)
      PROVE  SessionInv'
  BY <1>1, ProcessSteps DEF ProcessStep
<1>2. ASSUME NEW c \in Channels, Write(c) \/ ChannelStep(c)
      PROVE  SessionInv'
  BY <1>2, WriteStep, ReadStep, HandleHereStep, ForwardMalformedStep, ForwardStep,
     BreakStep, ForwardFailsStep, PassOnStep, LoseAnswerStep DEF ChannelStep
<1>3. CASE UNCHANGED vars
  <2>1. Statuses' /\ handling' \in [Channels -> Stages]
    BY <1>3 DEF SessionInv, ChannelInv, Types, Statuses, vars, processes
  <2>2. QED
    BY <1>3, <2>1, Dropped DEF SessionInv, vars
<1>4. QED
  BY <1>1, <1>2, <1>3 DEF Next

THEOREM InvariantHolds == Spec => []SessionInv
<1>1. Init => SessionInv
  BY Initially
<1>2. SessionInv /\ [Next]_vars => SessionInv'
  BY NextKeepsInv
<1>3. QED
  BY <1>1, <1>2, PTL DEF Spec

(* Whatever is written to a channel, and whenever processes end, every     *)
(* variable has its type (TypeOK).                                         *)
THEOREM TypeCorrect == Spec => []TypeOK
<1>1. SessionInv => TypeOK
  BY TypesAreTypeOK
<1>2. QED
  BY <1>1, InvariantHolds, PTL

(* Each answer has the id and the framing of its request, and answers come *)
(* in the order of the requests (handle_request, the two readers, bridge   *)
(* and proxy).                                                             *)
THEOREM AnswersInOrder == Spec => []AnswersFollowRequests
<1>1. SessionInv => AnswersFollowRequests
  BY DEF SessionInv, ChannelInv, ChannelOK, OutputOK, AnswersFollowRequests
<1>2. QED
  BY <1>1, InvariantHolds, PTL

(* No call is carried out twice, though answers are lost: neither bridge   *)
(* nor proxy sends a request again.                                        *)
THEOREM CalledOnce == Spec => []NoCallTwice
<1>1. SessionInv => NoCallTwice
  BY DEF SessionInv, ChannelInv, NoCallTwice
<1>2. QED
  BY <1>1, InvariantHolds, PTL

(* What is answered to a call that asks for one record is true: a result    *)
(* means that the record is in a store, a tool's own error that it is in   *)
(* none, whichever host handled the call and whoever ended since           *)
(* (handle_request, run_stdio_http_bridge and serve_proxy_client).         *)
THEOREM VerdictsHold == Spec => []VerdictsAreTrue
<1>1. SessionInv => VerdictsAreTrue
  BY DEF SessionInv, ChannelInv, ChannelOK, OutputOK, VerdictsAreTrue
<1>2. QED
  BY <1>1, InvariantHolds, PTL

-----------------------------------------------------------------------------
(* No request gets lost: what a reader passes over is no message, and what *)
(* waits can be read.                                                      *)

(* A body is announced by a length and a blank line, as a length is        *)
(* followed by them. On stdin no length is bad; on a socket a blank line   *)
(* only ends headers, and what is no length is followed by one.            *)
AnnouncedAt(door, s, i) ==
  /\ s[i].kind = "length" =>
       i + 2 \in DOMAIN s /\ s[i + 1].kind = "blank" /\ s[i + 2].kind = "body"
  /\ s[i].kind = "body" => i > 2 /\ s[i - 1].kind = "blank" /\ s[i - 2].kind = "length"
  /\ door = "stdin" => s[i].kind # "bad length"
  /\ door = "socket" =>
       /\ s[i].kind = "blank" => i > 1 /\ s[i - 1].kind = "length"
       /\ s[i].kind \in {"other", "bad length"} =>
            i + 1 \in DOMAIN s /\ s[i + 1].kind = "length"
Announced(door, s) == \A i \in DOMAIN s : AnnouncedAt(door, s, i)

LEMMA AnnouncedFramed ==
  ASSUME NEW door, NEW s, Announced(door, s) PROVE WellFramed(s)
BY DEF Announced, AnnouncedAt, WellFramed

LEMMA DomainOfLines ==
  ASSUME NEW s \in Seq(Lines)
  PROVE  /\ DOMAIN s = 1 .. Len(s) /\ Len(s) \in Nat
         /\ \A i \in DOMAIN s :
              s[i].kind \in {"length", "blank", "bad length", "other", "json", "body"}
<1>1. \A x \in Lines : x.kind \in {"length", "blank", "bad length", "other", "json", "body"}
  BY DEF Lines, Carriers
<1>2. \A i \in DOMAIN s : s[i] \in Lines
  OBVIOUS
<1>3. DOMAIN s = 1 .. Len(s) /\ Len(s) \in Nat
  OBVIOUS
<1>4. QED
  BY <1>1, <1>2, <1>3

TakesFirst(s, reading) ==
  \E k \in DOMAIN s :
    /\ Carries(s, k) /\ \A i \in 1 .. k - 1 : ~Carries(s, i)
    /\ reading.message = s[k].message /\ reading.rest = From(s, k + 1)

LEMMA StdioReads ==
  ASSUME NEW s \in Seq(Lines), Announced("stdin", s)
  PROVE  /\ ReadStdio(s).result = "message" => TakesFirst(s, ReadStdio(s))
         /\ \A i \in DOMAIN s : Carries(s, i) => ReadStdio(s).result = "message"
<1> DEFINE decisive == {i \in DOMAIN s : StdioDecides(s, i)}
           k == Min(decisive)
<1>1. /\ WellFramed(s) /\ DOMAIN s = 1 .. Len(s) /\ Len(s) \in Nat
      /\ decisive \in SUBSET Nat
  BY AnnouncedFramed
<1>2. ASSUME NEW i \in DOMAIN s, Carries(s, i)
      PROVE  \E j \in decisive : j <= i
  <2>1. CASE s[i].kind = "body"
    <3>1. i > 2 /\ s[i - 1].kind = "blank" /\ s[i - 2].kind = "length"
      BY <2>1 DEF Announced, AnnouncedAt
    <3>2. i - 1 \in DOMAIN s /\ i - 2 \in 1 .. (i - 1) - 1
      BY <1>1, <3>1
    <3>3. StdioDecides(s, i - 1)
      BY <3>1, <3>2 DEF StdioDecides, LengthBefore
    <3>4. QED
      BY <1>1, <3>2, <3>3
  <2>2. CASE s[i].kind = "json" /\ ~LengthBefore(s, i)
    <3>1. StdioDecides(s, i)
      BY <2>2 DEF StdioDecides
    <3>2. i \in decisive /\ i <= i
      BY <1>1, <3>1
    <3>3. QED
      BY <3>2
  <2>3. CASE LengthBefore(s, i)
    <3>1. PICK j \in 1 .. i - 1 : s[j].kind = "length"
      BY <2>3 DEF LengthBefore
    <3>5. j \in DOMAIN s
      BY <1>1, <3>1
    <3>6. j + 2 \in DOMAIN s /\ s[j + 1].kind = "blank"
      BY <3>1, <3>5 DEF Announced, AnnouncedAt
    <3>2. j \in DOMAIN s /\ j + 1 \in DOMAIN s /\ s[j + 1].kind = "blank" /\ j \in 1 .. (j + 1) - 1
      BY <1>1, <3>1, <3>5, <3>6
    <3>3. StdioDecides(s, j + 1)
      BY <3>1, <3>2 DEF StdioDecides, LengthBefore
    <3>4. QED
      BY <1>1, <3>1, <3>2, <3>3
  <2>4. QED
    BY <1>2, <2>1, <2>2, <2>3 DEF Carries, Carriers
<1>3. ASSUME decisive # {}
      PROVE  ReadStdio(s).result = "message" /\ TakesFirst(s, ReadStdio(s))
  <2>1. k \in decisive /\ \A i \in decisive : k <= i
    BY <1>1, <1>3, MinIsLeast
  <2>2. ReadStdio(s) = CASE s[k].kind = "json" -> Took(s, k, "JsonLine")
                         [] s[k].kind = "blank" -> Took(s, k + 1, "ContentLength")
                         [] OTHER -> GaveUp
    BY <1>3 DEF ReadStdio
  <2> HIDE DEF k
  <2>3. k \in DOMAIN s /\ StdioDecides(s, k) /\ k \in Nat
    BY <1>1, <2>1
  <2>4. s[k].kind # "bad length"
    BY <2>3 DEF Announced, AnnouncedAt
  <2>5. ASSUME NEW i \in 1 .. k - 1 PROVE ~Carries(s, i)
    <3>1. i \in DOMAIN s /\ i < k
      BY <1>1, <2>3
    <3>2. SUFFICES ASSUME Carries(s, i) PROVE FALSE
      OBVIOUS
    <3>3. PICK j \in decisive : j <= i
      BY <1>2, <3>1, <3>2
    <3>4. k <= j /\ j \in Nat /\ k \in Nat /\ i \in Nat
      BY <1>1, <2>1, <2>3, <3>1, <3>3
    <3>5. QED
      BY <3>1, <3>3, <3>4
  <2>6. CASE s[k].kind = "json"
    <3>1. ReadStdio(s) = Took(s, k, "JsonLine") /\ Carries(s, k)
      BY <2>2, <2>6 DEF Carries, Carriers
    <3>2. QED
      BY <2>3, <2>5, <3>1 DEF Took, TakesFirst
  <2>7. CASE s[k].kind = "blank"
    <3>1. ReadStdio(s) = Took(s, k + 1, "ContentLength") /\ LengthBefore(s, k) /\ ~Carries(s, k)
      BY <2>2, <2>3, <2>7 DEF StdioDecides, Carries, Carriers
    <3>2. \A i \in DOMAIN s : i > 1 /\ s[i].kind = "blank" /\ LengthBefore(s, i) => k <= i
      BY <2>1 DEF StdioDecides
    <3>3. k + 1 \in DOMAIN s /\ s[k + 1].kind = "body"
      BY <1>1, <2>3, <3>1, <3>2, BlankAfterLength
    <3>4. Carries(s, k + 1) /\ \A i \in 1 .. (k + 1) - 1 : ~Carries(s, i)
      BY <2>3, <2>5, <3>1, <3>3 DEF Carries, Carriers
    <3>5. /\ ReadStdio(s).result = "message" /\ ReadStdio(s).message = s[k + 1].message
          /\ ReadStdio(s).rest = From(s, (k + 1) + 1)
      BY <3>1 DEF Took
    <3>6. QED
      BY <3>3, <3>4, <3>5 DEF TakesFirst
  <2>8. QED
    BY <2>3, <2>4, <2>6, <2>7 DEF StdioDecides
<1>4. ReadStdio(s).result = "message" => decisive # {}
  BY DEF ReadStdio, Waiting
<1>5. QED
  BY <1>2, <1>3, <1>4

LEMMA IpcReads ==
  ASSUME NEW s \in Seq(Lines), Announced("socket", s)
  PROVE  /\ ReadIpc(s).result = "message" => TakesFirst(s, ReadIpc(s))
         /\ \A i \in DOMAIN s : Carries(s, i) => ReadIpc(s).result = "message"
<1> DEFINE blanks == {i \in DOMAIN s : i > 1 /\ s[i].kind = "blank"}
           k == Min(blanks)
<1>1. /\ WellFramed(s) /\ DOMAIN s = 1 .. Len(s) /\ Len(s) \in Nat
      /\ blanks \in SUBSET Nat
  BY AnnouncedFramed
<1>2. CASE s = <<>>
  <2>1. ReadIpc(s).result # "message" /\ DOMAIN s = {}
    BY <1>2 DEF ReadIpc, Waiting
  <2>2. QED
    BY <2>1
<1>3. CASE s # <<>>
  <2>1. 1 \in DOMAIN s
    BY <1>1, <1>3
  <2>6. AnnouncedAt("socket", s, 1)
    BY <2>1 DEF Announced
  <2>2. s[1].kind # "blank" /\ s[1].kind # "body"
    <3>1. s[1].kind = "blank" => 1 > 1
      BY <2>6 DEF AnnouncedAt
    <3>2. s[1].kind = "body" => 1 > 2
      BY <2>6 DEF AnnouncedAt
    <3>3. QED
      BY <3>1, <3>2
  <2>3. CASE s[1].kind = "json"
    <3>1. ReadIpc(s) = Took(s, 1, "JsonLine") /\ Carries(s, 1)
      BY <1>3, <2>3 DEF ReadIpc, Carries, Carriers
    <3>2. QED
      BY <2>1, <3>1 DEF Took, TakesFirst
  <2>4. CASE s[1].kind # "json"
    <3>1. PICK j \in {1, 2} : j \in DOMAIN s /\ s[j].kind = "length" /\ ~Carries(s, 1)
      <4>1. CASE s[1].kind = "length"
        BY <2>1, <4>1 DEF Carries, Carriers
      <4>2. CASE s[1].kind \in {"other", "bad length"}
        <5>1. 1 + 1 \in DOMAIN s /\ s[1 + 1].kind = "length"
          BY <2>6, <4>2 DEF AnnouncedAt
        <5>2. ~Carries(s, 1)
          BY <4>2 DEF Carries, Carriers
        <5>3. 2 \in DOMAIN s /\ s[2].kind = "length"
          BY <5>1
        <5>4. QED
          BY <5>2, <5>3
      <4>3. QED
        BY <2>1, <2>2, <2>4, <4>1, <4>2, DomainOfLines
    <3>2. j + 2 \in DOMAIN s /\ s[j + 1].kind = "blank" /\ s[j + 2].kind = "body"
      BY <3>1 DEF Announced, AnnouncedAt
    <3>3. j + 1 \in DOMAIN s /\ j + 1 > 1 /\ j \in Nat
      BY <1>1, <3>1, <3>2
    <3>4. j + 1 \in blanks
      BY <3>2, <3>3
    <3>5. k \in blanks /\ \A i \in blanks : k <= i
      BY <1>1, <3>4, MinIsLeast
    <3>6. ReadIpc(s) = IF LengthBefore(s, k) THEN Took(s, k + 1, "ContentLength") ELSE GaveUp
      BY <1>3, <2>2, <2>4, <3>4 DEF ReadIpc
    <3> HIDE DEF k
    <3>7. k \in DOMAIN s /\ k > 1 /\ s[k].kind = "blank" /\ k <= j + 1 /\ k \in Nat
      BY <1>1, <3>4, <3>5
    <3>8. s[k - 1].kind = "length" /\ k - 1 \in DOMAIN s
      <4>1. AnnouncedAt("socket", s, k)
        BY <3>7 DEF Announced
      <4>2. s[k - 1].kind = "length"
        BY <3>7, <4>1 DEF AnnouncedAt
      <4>3. QED
        BY <1>1, <3>7, <4>2
    <3>9. k = j + 1
      <4>1. CASE j = 1
        BY <3>7, <4>1
      <4>2. CASE j = 2
        <5>1. k # 2
          <6>1. s[2].kind = "length"
            BY <3>1, <4>2
          <6>2. QED
            BY <3>7, <6>1
        <5>2. QED
          BY <3>7, <4>2, <5>1
      <4>3. QED
        BY <4>1, <4>2
    <3>10. LengthBefore(s, k)
      BY <3>1, <3>3, <3>9 DEF LengthBefore
    <3>11. ReadIpc(s) = Took(s, k + 1, "ContentLength")
      BY <3>6, <3>10
    <3>12. k + 1 \in DOMAIN s /\ Carries(s, k + 1) /\ ~Carries(s, j) /\ ~Carries(s, j + 1)
      <4>1. k + 1 = j + 2
        BY <3>3, <3>9
      <4>2. QED
        BY <3>1, <3>2, <4>1 DEF Carries, Carriers
    <3>13. \A i \in 1 .. (k + 1) - 1 : i = 1 \/ i = j \/ i = j + 1
      BY <3>1, <3>9
    <3>14. \A i \in 1 .. (k + 1) - 1 : ~Carries(s, i)
      BY <3>1, <3>12, <3>13
    <3>15. /\ ReadIpc(s).result = "message" /\ ReadIpc(s).message = s[k + 1].message
           /\ ReadIpc(s).rest = From(s, (k + 1) + 1)
      BY <3>11 DEF Took
    <3>16. QED
      BY <3>12, <3>14, <3>15 DEF TakesFirst
  <2>5. QED
    BY <2>3, <2>4
<1>4. QED
  BY <1>2, <1>3

LEMMA RestAnnounced ==
  ASSUME NEW door, NEW s \in Seq(Lines), NEW k \in DOMAIN s, Carries(s, k), Announced(door, s)
  PROVE  Announced(door, From(s, k + 1))
<1> DEFINE r == From(s, k + 1)
<1>1. /\ r \in Seq(Lines) /\ Len(r) = Len(s) - k
      /\ \A i \in DOMAIN r : k + i \in DOMAIN s /\ r[i] = s[k + i]
  BY FromIsRest
<1> HIDE DEF r
<1>2. /\ DOMAIN s = 1 .. Len(s) /\ DOMAIN r = 1 .. Len(r)
      /\ Len(s) \in Nat /\ Len(r) \in Nat /\ k \in Nat /\ k > 0
  BY <1>1
<1>3. ASSUME NEW i \in DOMAIN r PROVE AnnouncedAt(door, r, i)
  <2>1. i \in Nat /\ k + i \in DOMAIN s /\ r[i] = s[k + i] /\ AnnouncedAt(door, s, k + i)
    BY <1>1, <1>2 DEF Announced
  <2>2. ASSUME NEW j \in Int, k + j \in DOMAIN s, j > 0
        PROVE  j \in DOMAIN r /\ r[j] = s[k + j]
    BY <1>1, <1>2, <2>2
  <2>3. r[i].kind = "length" =>
          i + 2 \in DOMAIN r /\ r[i + 1].kind = "blank" /\ r[i + 2].kind = "body"
    <3> SUFFICES ASSUME r[i].kind = "length"
                 PROVE  i + 2 \in DOMAIN r /\ r[i + 1].kind = "blank" /\ r[i + 2].kind = "body"
      OBVIOUS
    <3>1. /\ (k + i) + 2 \in DOMAIN s
          /\ s[(k + i) + 1].kind = "blank" /\ s[(k + i) + 2].kind = "body"
      BY <2>1 DEF AnnouncedAt
    <3>2. /\ (k + i) + 1 = k + (i + 1) /\ (k + i) + 2 = k + (i + 2)
          /\ (k + i) + 1 \in DOMAIN s
      BY <1>2, <2>1, <3>1
    <3>3. i + 1 \in Int /\ i + 2 \in Int /\ i + 1 > 0 /\ i + 2 > 0
      BY <2>1
    <3>4. QED
      BY <2>2, <3>1, <3>2, <3>3
  <2>4. \A d \in {1, 2} : s[(k + i) - d].kind \in {"length", "blank"} /\ (k + i) - d > 0
          /\ (d = 2 => i > 1) => i - d > 0 /\ r[i - d] = s[(k + i) - d]
    <3> SUFFICES ASSUME NEW d \in {1, 2}, s[(k + i) - d].kind \in {"length", "blank"},
                        (k + i) - d > 0, d = 2 => i > 1
                 PROVE  i - d > 0 /\ r[i - d] = s[(k + i) - d]
      OBVIOUS
    <3>1. (k + i) - d = k + (i - d) /\ i - d \in Int /\ k + (i - d) \in DOMAIN s
      BY <1>2, <2>1
    <3>2. k # k + (i - d)
      BY <3>1 DEF Carries, Carriers
    <3>3. i - d > 0
      <4>1. CASE d = 1
        BY <1>2, <2>1, <3>2, <4>1
      <4>2. CASE d = 2
        BY <1>2, <2>1, <3>2, <4>2
      <4>3. QED
        BY <4>1, <4>2
    <3>4. QED
      BY <2>2, <3>1, <3>3
  <2>5. r[i].kind = "body" => i > 2 /\ r[i - 1].kind = "blank" /\ r[i - 2].kind = "length"
    <3> SUFFICES ASSUME r[i].kind = "body"
                 PROVE  i > 2 /\ r[i - 1].kind = "blank" /\ r[i - 2].kind = "length"
      OBVIOUS
    <3>0. s[k + i].kind = "body"
      BY <2>1
    <3>1. /\ k + i > 2 /\ s[(k + i) - 1].kind = "blank" /\ s[(k + i) - 2].kind = "length"
          /\ (k + i) - 1 > 0 /\ (k + i) - 2 > 0
      <4>1. k + i > 2 /\ s[(k + i) - 1].kind = "blank" /\ s[(k + i) - 2].kind = "length"
        BY <2>1, <3>0 DEF AnnouncedAt
      <4>2. (k + i) - 1 > 0 /\ (k + i) - 2 > 0
        BY <1>2, <2>1, <4>1
      <4>3. QED
        BY <4>1, <4>2
    <3>2. i - 1 > 0 /\ r[i - 1] = s[(k + i) - 1]
      BY <2>4, <3>1
    <3>3. i > 1
      BY <2>1, <3>2
    <3>4. i - 2 > 0 /\ r[i - 2] = s[(k + i) - 2]
      BY <2>4, <3>1, <3>3
    <3>5. QED
      BY <2>1, <3>1, <3>2, <3>4
  <2>6. ASSUME door = "socket"
        PROVE  /\ r[i].kind = "blank" => i > 1 /\ r[i - 1].kind = "length"
               /\ r[i].kind \in {"other", "bad length"} =>
                    i + 1 \in DOMAIN r /\ r[i + 1].kind = "length"
    <3>1. ASSUME r[i].kind = "blank" PROVE i > 1 /\ r[i - 1].kind = "length"
      <4>1. k + i > 1 /\ s[(k + i) - 1].kind = "length" /\ (k + i) - 1 > 0
        BY <1>2, <2>1, <2>6, <3>1 DEF AnnouncedAt
      <4>2. i - 1 > 0 /\ r[i - 1] = s[(k + i) - 1]
        BY <2>4, <4>1
      <4>3. QED
        BY <2>1, <4>1, <4>2
    <3>2. ASSUME r[i].kind \in {"other", "bad length"}
          PROVE  i + 1 \in DOMAIN r /\ r[i + 1].kind = "length"
      <4>1. (k + i) + 1 \in DOMAIN s /\ s[(k + i) + 1].kind = "length"
        BY <2>1, <2>6, <3>2 DEF AnnouncedAt
      <4>2. (k + i) + 1 = k + (i + 1) /\ i + 1 \in Int /\ i + 1 > 0
        BY <1>2, <2>1
      <4>3. QED
        BY <2>2, <4>1, <4>2
    <3>3. QED
      BY <3>1, <3>2
  <2>7. door = "stdin" => r[i].kind # "bad length"
    BY <2>1 DEF AnnouncedAt
  <2>8. QED
    BY <2>3, <2>5, <2>6, <2>7 DEF AnnouncedAt
<1>4. QED
  BY <1>3 DEF Announced, r

(* A line keeps its announcement where the whole sequence is moved to.     *)
LEMMA Moved ==
  ASSUME NEW door, NEW s \in Seq(Lines), NEW u \in Seq(Lines), NEW d \in Nat,
         \A j \in DOMAIN s : j + d \in DOMAIN u /\ u[j + d] = s[j],
         NEW i \in DOMAIN s, AnnouncedAt(door, s, i)
  PROVE  AnnouncedAt(door, u, i + d)
<1>1. DOMAIN s = 1 .. Len(s) /\ Len(s) \in Nat /\ i \in Nat
  OBVIOUS
<1>2. u[i + d] = s[i]
  OBVIOUS
<1>3. \A e \in {1, 2} : i + e \in DOMAIN s => (i + d) + e \in DOMAIN u /\ u[(i + d) + e] = s[i + e]
  <2> SUFFICES ASSUME NEW e \in {1, 2}, i + e \in DOMAIN s
               PROVE  (i + d) + e \in DOMAIN u /\ u[(i + d) + e] = s[i + e]
    OBVIOUS
  <2>1. (i + d) + e = (i + e) + d
    BY <1>1
  <2>2. QED
    BY <2>1
<1>4. \A e \in {1, 2} : i > e => u[(i + d) - e] = s[i - e] /\ i + d > e
  <2> SUFFICES ASSUME NEW e \in {1, 2}, i > e
               PROVE  u[(i + d) - e] = s[i - e] /\ i + d > e
    OBVIOUS
  <2>1. (i + d) - e = (i - e) + d /\ i - e \in DOMAIN s /\ i + d > e
    <3>1. i - e \in 1 .. Len(s)
      BY <1>1
    <3>2. QED
      BY <1>1, <3>1
  <2>2. QED
    BY <2>1
<1>5. s[i].kind = "length" => i + 1 \in DOMAIN s
  BY <1>1 DEF AnnouncedAt
<1>6. s[i].kind = "body" => i > 1
  BY <1>1 DEF AnnouncedAt
<1>7. QED
  BY <1>2, <1>3, <1>4, <1>5, <1>6 DEF AnnouncedAt

LEMMA JoinedAnnounced ==
  ASSUME NEW door, NEW s \in Seq(Lines), NEW t \in Seq(Lines),
         Announced(door, s), Announced(door, t)
  PROVE  Announced(door, s \o t)
<1> DEFINE u == s \o t
<1>1. /\ u \in Seq(Lines) /\ Len(u) = Len(s) + Len(t)
      /\ \A i \in 1 .. Len(s) + Len(t) :
           u[i] = IF i <= Len(s) THEN s[i] ELSE t[i - Len(s)]
  BY ConcatProperties
<1> HIDE DEF u
<1>2. /\ DOMAIN s = 1 .. Len(s) /\ DOMAIN t = 1 .. Len(t) /\ DOMAIN u = 1 .. Len(u)
      /\ Len(s) \in Nat /\ Len(t) \in Nat
  BY <1>1
<1>3. \A j \in DOMAIN s : j + 0 \in DOMAIN u /\ u[j + 0] = s[j]
  BY <1>1, <1>2
<1>4. \A j \in DOMAIN t : j + Len(s) \in DOMAIN u /\ u[j + Len(s)] = t[j]
  BY <1>1, <1>2
<1>5. ASSUME NEW i \in DOMAIN u PROVE AnnouncedAt(door, u, i)
  <2>1. CASE i \in DOMAIN s
    <3>1. AnnouncedAt(door, u, i + 0)
      BY <1>1, <1>3, <2>1, Moved DEF Announced
    <3>2. i + 0 = i
      BY <1>2
    <3>3. QED
      BY <3>1, <3>2
  <2>2. CASE i \notin DOMAIN s
    <3>1. i - Len(s) \in DOMAIN t /\ (i - Len(s)) + Len(s) = i
      BY <1>1, <1>2, <2>2
    <3>2. AnnouncedAt(door, u, (i - Len(s)) + Len(s))
      BY <1>1, <1>2, <1>4, <3>1, Moved DEF Announced
    <3>3. QED
      BY <3>1, <3>2
  <2>3. QED
    BY <2>1, <2>2
<1>6. QED
  BY <1>5 DEF Announced, u

LEMMA FramedAnnounced ==
  ASSUME NEW m \in Message, NEW format \in Formats, NEW door
  PROVE  LET f == Framed(m, format) IN
         /\ f \in Seq(Lines) /\ Len(f) > 0 /\ Announced(door, f)
         /\ format = "ContentLength" => f[1].kind = "length"
         /\ Carries(f, Len(f)) /\ f[Len(f)].message = m
<1> DEFINE f == Framed(m, format)
           json == [kind |-> "json", message |-> m]
           body == [kind |-> "body", message |-> m]
           len == Line("length")
           gap == Line("blank")
<1>1. /\ json \in Lines /\ body \in Lines /\ len \in Lines /\ gap \in Lines
      /\ json.kind = "json" /\ json.message = m
      /\ body.kind = "body" /\ body.message = m
      /\ len.kind = "length" /\ gap.kind = "blank"
  BY DEF Lines, Line, Carriers
<1>2. CASE format = "JsonLine"
  <2>1. f = <<json>>
    BY <1>2 DEF Framed, JsonLine
  <2> HIDE DEF json
  <2>2. f \in Seq(Lines) /\ Len(f) = 1 /\ DOMAIN f = {1} /\ f[1] = json
    BY <1>1, <2>1
  <2> HIDE DEF f
  <2>3. AnnouncedAt(door, f, 1)
    BY <1>1, <2>2 DEF AnnouncedAt
  <2>4. Announced(door, f) /\ Carries(f, 1)
    BY <1>1, <2>2, <2>3 DEF Announced, Carries, Carriers
  <2>5. QED
    BY <1>1, <1>2, <2>2, <2>4 DEF f
<1>3. CASE format = "ContentLength"
  <2>1. f = <<len, gap, body>>
    BY <1>3 DEF Framed, ContentLength
  <2> HIDE DEF len, gap, body
  <2>2. /\ f \in Seq(Lines) /\ Len(f) = 3 /\ DOMAIN f = {1, 2, 3}
        /\ f[1] = len /\ f[2] = gap /\ f[3] = body
    BY <1>1, <2>1
  <2> HIDE DEF f
  <2>3. /\ f[1].kind = "length" /\ f[1 + 1].kind = "blank" /\ f[1 + 2].kind = "body"
        /\ f[2 - 1].kind = "length" /\ f[3 - 1].kind = "blank" /\ f[3 - 2].kind = "length"
        /\ 1 + 2 \in DOMAIN f
    BY <1>1, <2>2
  <2>4. AnnouncedAt(door, f, 1)
    BY <2>3 DEF AnnouncedAt
  <2>5. f[2].kind = "blank" /\ f[3].kind = "body" /\ f[3].message = m
    BY <1>1, <2>2
  <2>6. AnnouncedAt(door, f, 2) /\ AnnouncedAt(door, f, 3)
    BY <2>3, <2>5 DEF AnnouncedAt
  <2>7. Announced(door, f) /\ Carries(f, 3)
    BY <2>2, <2>4, <2>5, <2>6 DEF Announced, Carries, Carriers
  <2>8. QED
    BY <2>2, <2>3, <2>5, <2>7 DEF f
<1>4. QED
  BY <1>2, <1>3 DEF Formats

(* What a tolerated line and a message after it look like.                 *)
LEMMA PieceAnnounced ==
  ASSUME NEW c \in Channels, NEW frame, Tolerated(c, frame), frame.format \in Formats,
         NEW m \in Message
  PROVE  LET f == frame.before \o Framed(m, frame.format) IN
         /\ f \in Seq(Lines) /\ Len(f) > 0 /\ Announced(c[2], f)
         /\ Carries(f, Len(f)) /\ f[Len(f)].message = m
<1> DEFINE f == Framed(m, frame.format)
           p == frame.before \o f
           door == c[2]
<1>1. /\ f \in Seq(Lines) /\ Len(f) > 0 /\ Announced(door, f)
      /\ frame.format = "ContentLength" => f[1].kind = "length"
      /\ Carries(f, Len(f)) /\ f[Len(f)].message = m
  BY FramedAnnounced
<1> HIDE DEF f
<1>2. DOMAIN f = 1 .. Len(f) /\ Len(f) \in Nat
  BY <1>1
<1>3. CASE frame.before = <<>>
  <2>1. p = f
    BY <1>1, <1>3
  <2>2. QED
    BY <1>1, <2>1 DEF f
<1>4. ASSUME NEW x \in Lines, frame.before = <<x>>,
             \/ x.kind = "other" /\ (door = "stdin" \/ f[1].kind = "length")
             \/ x.kind = "blank" /\ door = "stdin"
             \/ x.kind = "bad length" /\ door = "socket" /\ f[1].kind = "length"
      PROVE  /\ p \in Seq(Lines) /\ Len(p) > 0 /\ Announced(door, p)
             /\ Carries(p, Len(p)) /\ p[Len(p)].message = m
  <2> DEFINE b == frame.before
  <2>1. b \in Seq(Lines) /\ Len(b) = 1 /\ b[1] = x
    <3>1. <<x>> \in Seq(Lines) /\ Len(<<x>>) = 1 /\ <<x>>[1] = x
      OBVIOUS
    <3>2. b = <<x>>
      BY <1>4
    <3> HIDE DEF b
    <3>3. QED
      BY <3>1, <3>2
  <2> HIDE DEF b
  <2>2. /\ b \o f \in Seq(Lines) /\ Len(b \o f) = Len(b) + Len(f)
        /\ \A i \in 1 .. Len(b) + Len(f) :
             (b \o f)[i] = IF i <= Len(b) THEN b[i] ELSE f[i - Len(b)]
    BY <1>1, <2>1, ConcatProperties
  <2>3. p = b \o f
    BY DEF b
  <2> HIDE DEF p
  <2>4. /\ p \in Seq(Lines) /\ Len(p) = 1 + Len(f) /\ DOMAIN p = 1 .. Len(p) /\ Len(p) \in Nat
        /\ p[1] = x
        /\ \A i \in DOMAIN f : i + 1 \in DOMAIN p /\ p[i + 1] = f[i]
        /\ \A i \in DOMAIN p : i = 1 \/ (i - 1 \in DOMAIN f /\ (i - 1) + 1 = i)
    BY <1>2, <2>1, <2>2, <2>3
  <2>5. 1 \in DOMAIN f /\ 1 + 1 \in DOMAIN p /\ p[1 + 1] = f[1]
    BY <1>1, <1>2, <2>4
  <2>6. AnnouncedAt(door, p, 1)
    <3>1. p[1].kind \in {"other", "blank", "bad length"}
      BY <1>4, <2>4
    <3>2. door = "stdin" => p[1].kind # "bad length"
      BY <1>4, <2>4
    <3>3. door = "socket" => p[1].kind # "blank"
      BY <1>4, <2>4
    <3>4. door = "socket" => p[1 + 1].kind = "length"
      BY <1>4, <2>5
    <3>5. QED
      BY <2>5, <3>1, <3>2, <3>3, <3>4 DEF AnnouncedAt
  <2>7. ASSUME NEW i \in DOMAIN f PROVE AnnouncedAt(door, p, i + 1)
    BY <1>1, <2>4, Moved DEF Announced
  <2>8. Announced(door, p)
    BY <2>4, <2>6, <2>7 DEF Announced
  <2>9. Len(f) \in DOMAIN f /\ Len(f) + 1 = Len(p)
    BY <1>1, <1>2, <2>4
  <2>10. p[Len(p)] = f[Len(f)]
    BY <2>4, <2>9
  <2>11. QED
    BY <1>1, <2>4, <2>8, <2>10 DEF Carries
<1>5. CASE frame.before = <<Line("other")>>
  <2>1. Line("other") \in Lines /\ Line("other").kind = "other"
    BY DEF Line, Lines
  <2>2. door = "stdin" \/ f[1].kind = "length"
    <3>1. <<Line("other")>> # <<>> /\ <<Line("other")>> # <<Line("blank")>>
          /\ <<Line("other")>> # <<Line("bad length")>>
      BY DEF Line
    <3>2. QED
      BY <1>1, <1>5, <3>1 DEF Tolerated
  <2>3. QED
    BY <1>4, <1>5, <2>1, <2>2 DEF f
<1>6. CASE frame.before = <<Line("blank")>>
  <2>1. Line("blank") \in Lines /\ Line("blank").kind = "blank"
    BY DEF Line, Lines
  <2>2. door = "stdin"
    <3>1. <<Line("blank")>> # <<>> /\ <<Line("blank")>> # <<Line("other")>>
          /\ <<Line("blank")>> # <<Line("bad length")>>
      BY DEF Line
    <3>2. QED
      BY <1>6, <3>1 DEF Tolerated
  <2>3. QED
    BY <1>4, <1>6, <2>1, <2>2 DEF f
<1>7. CASE frame.before = <<Line("bad length")>>
  <2>1. Line("bad length") \in Lines /\ Line("bad length").kind = "bad length"
    BY DEF Line, Lines
  <2>2. door = "socket" /\ f[1].kind = "length"
    <3>1. <<Line("bad length")>> # <<>> /\ <<Line("bad length")>> # <<Line("other")>>
          /\ <<Line("bad length")>> # <<Line("blank")>>
      BY DEF Line
    <3>2. QED
      BY <1>1, <1>7, <3>1 DEF Tolerated
  <2>3. QED
    BY <1>4, <1>7, <2>1, <2>2 DEF f
<1>8. QED
  BY <1>3, <1>5, <1>6, <1>7 DEF Tolerated

-----------------------------------------------------------------------------
(* Where a request is that nobody answered: at hand, or in the stream.     *)
Waits(c, n) ==
  \E i \in DOMAIN input[c] : Carries(input[c], i) /\ input[c][i].message.number = n
AtHand(c, n) == handling[c] # Idle /\ handling[c].message.number = n

IsKept(c) ==
  closed[c] = "no" => \A n \in DOMAIN sent[c] :
    WellFormedRequest(sent[c][n].message) => Answered(c, n) \/ AtHand(c, n) \/ Waits(c, n)
StaysOpen(c) == sent[c] # <<>> /\ closed[c] = "no" => Open(c)

KeptInv ==
  /\ DOMAIN loaded = Projects
  /\ \A c \in Channels : Announced(c[2], input[c]) /\ StaysOpen(c) /\ IsKept(c)

LEMMA KeptInit == Init => KeptInv
<1> SUFFICES ASSUME Init PROVE KeptInv
  OBVIOUS
<1>1. ASSUME NEW c \in Channels
      PROVE  Announced(c[2], input[c]) /\ StaysOpen(c) /\ IsKept(c)
  <2>1. input[c] = <<>> /\ sent[c] = <<>>
    BY DEF Init
  <2>2. QED
    BY <2>1 DEF Announced, StaysOpen, IsKept
<1>2. DOMAIN loaded = Projects
  <2>1. PICK l \in Launches : file = [p \in Projects |-> l[p].file]
    BY DEF Init
  <2>2. QED
    BY <2>1 DEF Init
<1>3. QED
  BY <1>1, <1>2 DEF KeptInv

(* A channel in which nothing gets lost: what is at hand stays there, or   *)
(* is answered, or the channel is closed.                                  *)
LEMMA StillKept ==
  ASSUME NEW c \in Channels, IsKept(c), sent'[c] = sent[c], input'[c] = input[c],
         closed'[c] = "no" => closed[c] = "no",
         \A n : Answered(c, n) => Answered(c, n)',
         closed'[c] = "no" => \A n \in DOMAIN sent[c] :
           AtHand(c, n) /\ WellFormedRequest(sent[c][n].message) =>
             AtHand(c, n)' \/ Answered(c, n)'
  PROVE  IsKept(c)'
<1> SUFFICES ASSUME closed'[c] = "no", NEW n \in DOMAIN sent[c],
                    WellFormedRequest(sent[c][n].message)
             PROVE  Answered(c, n)' \/ AtHand(c, n)' \/ Waits(c, n)'
  BY DEF IsKept
<1>1. Answered(c, n) \/ AtHand(c, n) \/ Waits(c, n)
  BY DEF IsKept
<1>2. Waits(c, n) => Waits(c, n)'
  BY DEF Waits
<1>3. QED
  BY <1>1, <1>2

LEMMA SameKind ==
  ASSUME NEW c, launch'[Process(c)] = launch[Process(c)], loaded'[Process(c)] = loaded[Process(c)]
  PROVE  Kind(c)' = Kind(c)
BY DEF Kind, RuntimeMode, Setting

(* What happens to other channels, and to one whose message is dropped     *)
(* when it is closed.                                                      *)
LEMMA ChannelKept ==
  ASSUME NEW c \in Channels, Announced(c[2], input[c]), StaysOpen(c), IsKept(c),
         sent'[c] = sent[c], input'[c] = input[c], output'[c] = output[c],
         closed'[c] = "no" =>
           /\ closed[c] = "no" /\ handling'[c] = handling[c]
           /\ Open(c) => Open(c)'
  PROVE  Announced(c[2], input'[c]) /\ StaysOpen(c)' /\ IsKept(c)'
<1>1. StaysOpen(c)'
  BY DEF StaysOpen
<1>2. \A n : Answered(c, n) => Answered(c, n)'
  BY DEF Answered
<1>3. closed'[c] = "no" => \A n : AtHand(c, n) => AtHand(c, n)'
  BY DEF AtHand
<1>4. IsKept(c)'
  BY <1>2, <1>3, StillKept
<1>5. QED
  BY <1>1, <1>4

LEMMA EndKeeps ==
  ASSUME NEW p \in Projects, NEW by \in {"process", "large", "host"}, SessionInv, KeptInv, Ended(p, by),
         UNCHANGED <<launch, loaded, input, sent, output>>
  PROVE  KeptInv'
<1>1. ASSUME NEW c \in Channels
      PROVE  Announced(c[2], input[c])' /\ StaysOpen(c)' /\ IsKept(c)'
  <2>1. CASE Process(c) = p
    <3>1. closed'[c] # "no"
      BY <2>1 DEF Ended
    <3>2. QED
      BY <3>1, ChannelKept DEF KeptInv
  <2>2. CASE Process(c) # p
    <3>1. closed'[c] = closed[c] /\ handling'[c] = handling[c]
      BY <2>2 DEF Ended
    <3>2. phase'[Process(c)] = phase[Process(c)] /\ listening'[Process(c)] = listening[Process(c)]
      BY <2>2 DEF Ended, SessionInv, Statuses, Process, Channels
    <3>3. Open(c) => Open(c)'
      BY <3>1, <3>2, SameKind DEF Open
    <3>4. QED
      BY <3>1, <3>3, ChannelKept DEF KeptInv
  <2>3. QED
    BY <2>1, <2>2
<1>2. QED
  BY <1>1 DEF KeptInv

LEMMA ProcessKeeps ==
  ASSUME NEW p \in Projects, SessionInv, KeptInv,
         Start(p) \/ Listen(p) \/ ListenFails(p) \/ End(p)
  PROVE  KeptInv'
<1>1. ASSUME UNCHANGED <<input, sent, output, closed, handling>>, DOMAIN loaded' = Projects,
             \A c \in Channels : StaysOpen(c) /\ Open(c) => Open(c)'
      PROVE  KeptInv'
  <2>1. ASSUME NEW c \in Channels
        PROVE  Announced(c[2], input[c])' /\ StaysOpen(c)' /\ IsKept(c)'
    BY <1>1, ChannelKept DEF KeptInv
  <2>2. QED
    BY <1>1, <2>1 DEF KeptInv
<1>2. CASE Start(p)
  <2>1. ASSUME NEW c \in Channels, Open(c) PROVE Open(c)'
    <3>1. phase[Process(c)] = "running"
      BY <2>1 DEF Open
    <3>2. Process(c) # p
      BY <1>2, <3>1 DEF Start
    <3>3. /\ launch' = launch /\ listening' = listening /\ closed' = closed
          /\ loaded'[Process(c)] = loaded[Process(c)]
          /\ phase'[Process(c)] = phase[Process(c)]
      BY <1>2, <3>2 DEF Start, KeptInv, SessionInv, Statuses, Process, Channels
    <3>4. QED
      BY <2>1, <3>3, SameKind DEF Open
  <2>2. DOMAIN loaded' = Projects
    BY <1>2 DEF Start, KeptInv
  <2>3. QED
    BY <1>1, <1>2, <2>1, <2>2 DEF Start
<1>3. CASE Listen(p)
  <2>1. ASSUME NEW c \in Channels, Open(c) PROVE Open(c)'
    <3>1. /\ launch' = launch /\ loaded' = loaded /\ phase' = phase /\ closed' = closed
          /\ listening[Process(c)] # "no" => listening'[Process(c)] # "no"
      BY <1>3 DEF Listen, SessionInv, Statuses, Process, Channels
    <3>2. QED
      BY <2>1, <3>1, SameKind DEF Open
  <2>2. QED
    BY <1>1, <1>3, <2>1 DEF Listen, KeptInv
<1>4. CASE ListenFails(p)
  <2>1. CASE launch[p].bridge
    <3>1. ASSUME NEW c \in Channels, Open(c) PROVE Open(c)'
      <4>1. /\ launch' = launch /\ loaded' = loaded /\ phase' = phase /\ closed' = closed
            /\ listening[Process(c)] # "no" => listening'[Process(c)] # "no"
        BY <1>4, <2>1 DEF ListenFails, SessionInv, Statuses, Process, Channels
      <4>2. QED
        BY <3>1, <4>1, SameKind DEF Open
    <3>2. QED
      BY <1>1, <1>4, <2>1, <3>1 DEF ListenFails, KeptInv
  <2>2. CASE ~launch[p].bridge
    BY <1>4, <2>2, EndKeeps DEF ListenFails
  <2>3. QED
    BY <2>1, <2>2
<1>5. CASE End(p)
  BY <1>5, EndKeeps DEF End
<1>6. QED
  BY <1>2, <1>3, <1>4, <1>5

-----------------------------------------------------------------------------
LEMMA ReplyKept ==
  ASSUME NEW c \in Channels, SessionInv, KeptInv, handling[c].stage \in {"read", "answered"},
         NEW answer, Reply(c, answer), UNCHANGED <<processes, input, sent, closed>>,
         WellFormedRequest(handling[c].message) =>
           answer # NoAnswer /\ answer.id = handling[c].message.id
  PROVE  KeptInv'
<1> DEFINE m == handling[c].message
           new == [answer |-> answer, format |-> handling[c].format]
<1>1. Types /\ handling[c] # Idle /\ ChannelOK(c)
  BY AtMessage DEF SessionInv, ChannelInv
<1>2. /\ sent[c][m.number] = [message |-> m, format |-> handling[c].format]
      /\ m.id \in {NoId, m.number}
  BY <1>1, HandledMessage
<1>3. /\ output[c] \in Seq(Outputs)
      /\ output'[c] = IF answer = NoAnswer THEN output[c] ELSE Append(output[c], new)
      /\ \A d \in Channels : d # c => output'[d] = output[d] /\ handling'[d] = handling[d]
  BY <1>1 DEF Types, Reply
<1>4. \A n : Answered(c, n) => Answered(c, n)'
  BY <1>3 DEF Answered
<1>5. ASSUME NEW n, n = m.number, WellFormedRequest(m) PROVE Answered(c, n)'
  <2>1. answer # NoAnswer /\ answer.id = m.id /\ m.id = n
    BY <1>2, <1>5 DEF WellFormedRequest
  <2>2. output'[c] = Append(output[c], new)
    BY <1>3, <2>1
  <2> HIDE DEF new
  <2>3. Len(output[c]) + 1 \in DOMAIN output'[c] /\ output'[c][Len(output[c]) + 1] = new
    BY <1>3, <2>2
  <2>4. output'[c][Len(output[c]) + 1].answer = answer
    BY <2>3 DEF new
  <2>5. PICK i \in DOMAIN output'[c] : output'[c][i].answer = answer
    BY <2>3, <2>4
  <2>6. QED
    BY <2>1, <2>5 DEF Answered
<1>6. UNCHANGED <<launch, loaded, phase, listening, input, sent, closed>>
  BY DEF processes
<1>7. ASSUME NEW d \in Channels, Open(d) PROVE Open(d)'
  BY <1>6, <1>7, SameKind DEF Open
<1>8. ASSUME NEW d \in Channels, d # c
      PROVE  Announced(d[2], input[d])' /\ StaysOpen(d)' /\ IsKept(d)'
  BY <1>3, <1>6, <1>7, <1>8, ChannelKept DEF KeptInv
<1>9. \A n \in DOMAIN sent[c] :
        AtHand(c, n) /\ WellFormedRequest(sent[c][n].message) => Answered(c, n)'
  <2> SUFFICES ASSUME NEW n \in DOMAIN sent[c], AtHand(c, n),
                      WellFormedRequest(sent[c][n].message)
               PROVE  Answered(c, n)'
    OBVIOUS
  <2>1. n = m.number
    BY DEF AtHand
  <2>2. sent[c][n].message = m
    BY <1>2, <2>1
  <2>3. QED
    BY <1>5, <2>1, <2>2
<1>10. IsKept(c)'
  BY <1>4, <1>6, <1>9, StillKept DEF KeptInv
<1>11. Announced(c[2], input[c])' /\ StaysOpen(c)'
  BY <1>6, <1>7 DEF KeptInv, StaysOpen
<1>12. QED
  BY <1>6, <1>8, <1>10, <1>11 DEF KeptInv

(* Where the channel is closed, nothing is owed.                           *)
LEMMA HangUpKept ==
  ASSUME NEW c \in Channels, NEW by \in {"large", "malformed", "host"}, SessionInv, KeptInv,
         closed' = [closed EXCEPT ![c] = by], handling' = [handling EXCEPT ![c] = Idle],
         UNCHANGED <<launch, loaded, phase, listening, input, sent, output>>
  PROVE  KeptInv'
<1>1. closed'[c] = by /\ by # "no"
  BY DEF SessionInv, Statuses
<1>2. ASSUME NEW d \in Channels, d # c
      PROVE  closed'[d] = closed[d] /\ handling'[d] = handling[d]
  BY <1>2 DEF SessionInv, Statuses, ChannelInv, Types
<1>3. ASSUME NEW d \in Channels
      PROVE  Announced(d[2], input[d])' /\ StaysOpen(d)' /\ IsKept(d)'
  <2>1. CASE d = c
    BY <1>1, <2>1, ChannelKept DEF KeptInv
  <2>2. CASE d # c
    <3>1. Open(d) => Open(d)'
      BY <1>2, <2>2, SameKind DEF Open
    <3>2. QED
      BY <1>2, <2>2, <3>1, ChannelKept DEF KeptInv
  <2>3. QED
    BY <2>1, <2>2
<1>4. QED
  BY <1>3 DEF KeptInv

LEMMA RefuseKept ==
  ASSUME NEW c \in Channels, SessionInv, KeptInv, handling[c].stage \in {"read", "answered"},
         NEW answer, NEW by \in {"malformed", "host"}, Refuse(c, answer, by),
         WellFormedRequest(handling[c].message) =>
           answer # NoAnswer /\ answer.id = handling[c].message.id,
         UNCHANGED <<input, sent>>
  PROVE  KeptInv'
<1>1. CASE Kind(c) = "bridge"
  BY <1>1, ReplyKept DEF Refuse
<1>2. CASE Kind(c) # "bridge"
  BY <1>2, HangUpKept DEF Refuse, processes
<1>3. QED
  BY <1>1, <1>2

LEMMA ForwardKept ==
  ASSUME NEW c \in Channels, SessionInv, KeptInv, Forward(c)
  PROVE  KeptInv'
<1>1. PICK m : m = handling[c].message
  OBVIOUS
<1>2. PICK q, answer :
        handling' = [handling EXCEPT ![c] =
          [stage |-> "answered", message |-> m, format |-> @.format, host |-> q,
           answer |-> answer]]
  BY <1>1 DEF Forward
<1>3. UNCHANGED <<launch, loaded, phase, listening, input, sent, output, closed>>
  BY DEF Forward, processes
<1>4. ASSUME NEW d \in Channels, Open(d) PROVE Open(d)'
  BY <1>3, <1>4, SameKind DEF Open
<1>5. ASSUME NEW d \in Channels, NEW n, AtHand(d, n) PROVE AtHand(d, n)'
  <2>1. handling \in [Channels -> Stages]
    BY DEF SessionInv, ChannelInv, Types
  <2>2. CASE d = c
    <3>1. handling'[c].stage = "answered" /\ handling'[c].message = m
      BY <1>2, <2>1
    <3>2. handling'[c] # Idle
      BY <3>1 DEF Idle
    <3>3. QED
      BY <1>1, <1>5, <2>2, <3>1, <3>2 DEF AtHand
  <2>3. CASE d # c
    <3>1. handling'[d] = handling[d]
      BY <1>2, <2>1, <2>3
    <3>2. QED
      BY <1>5, <3>1 DEF AtHand
  <2>4. QED
    BY <2>2, <2>3
<1>6. ASSUME NEW d \in Channels
      PROVE  Announced(d[2], input[d])' /\ StaysOpen(d)' /\ IsKept(d)'
  <2>1. \A n : Answered(d, n) => Answered(d, n)'
    BY <1>3 DEF Answered
  <2>2. IsKept(d)'
    BY <1>3, <1>5, <2>1, StillKept DEF KeptInv
  <2>3. QED
    BY <1>3, <1>4, <2>2 DEF KeptInv, StaysOpen
<1>7. QED
  BY <1>3, <1>6 DEF KeptInv

(* Who reads takes the first message there is.                             *)
LEMMA DoorReads ==
  ASSUME NEW c \in Channels, KeptInv, Types
  PROVE  /\ Reading(c).result = "message" => TakesFirst(input[c], Reading(c))
         /\ \A i \in DOMAIN input[c] : Carries(input[c], i) => Reading(c).result = "message"
<1>1. input[c] \in Seq(Lines) /\ Announced(c[2], input[c]) /\ c[2] \in {"stdin", "socket"}
  BY DEF Types, KeptInv, Channels
<1>2. CASE c[2] = "stdin"
  BY <1>1, <1>2, StdioReads DEF Reading
<1>3. CASE c[2] = "socket"
  BY <1>1, <1>3, IpcReads DEF Reading
<1>4. QED
  BY <1>1, <1>2, <1>3

LEMMA ReadKept ==
  ASSUME NEW c \in Channels, SessionInv, KeptInv, Read(c)
  PROVE  KeptInv'
<1> DEFINE s == input[c]
<1>1. Types /\ s \in Seq(Lines) /\ handling[c] = Idle
  BY DEF SessionInv, ChannelInv, Types, Read
<1>2. TakesFirst(s, Reading(c))
  BY <1>1, DoorReads DEF Read
<1>3. PICK k \in DOMAIN s :
        /\ Carries(s, k) /\ \A i \in 1 .. k - 1 : ~Carries(s, i)
        /\ Reading(c).message = s[k].message /\ Reading(c).rest = From(s, k + 1)
  BY <1>2 DEF TakesFirst
<1>4. PICK r : r = From(s, k + 1)
  OBVIOUS
<1>5. PICK h : h = [stage |-> "read", message |-> Reading(c).message, format |-> Reading(c).format]
  OBVIOUS
<1>6. /\ input' = [input EXCEPT ![c] = r] /\ handling' = [handling EXCEPT ![c] = h]
      /\ UNCHANGED <<launch, loaded, phase, listening, sent, output, closed>>
  BY <1>3, <1>4, <1>5 DEF Read, processes
<1>7. /\ input'[c] = r /\ handling'[c] = h /\ h # Idle /\ h.message = s[k].message
      /\ \A d \in Channels : d # c => input'[d] = input[d] /\ handling'[d] = handling[d]
  <2>1. h.stage = "read" /\ h.message = s[k].message
    BY <1>3, <1>5
  <2>2. h # Idle
    BY <2>1 DEF Idle
  <2>3. input'[c] = r /\ handling'[c] = h
    BY <1>1, <1>6 DEF Types
  <2>4. \A d \in Channels : d # c => input'[d] = input[d] /\ handling'[d] = handling[d]
    BY <1>1, <1>6 DEF Types
  <2>5. QED
    BY <2>1, <2>2, <2>3, <2>4
<1>8. Announced(c[2], input'[c])
  BY <1>1, <1>3, <1>4, <1>7, RestAnnounced DEF KeptInv
<1>9. ASSUME NEW d \in Channels, Open(d) PROVE Open(d)'
  BY <1>6, <1>9, SameKind DEF Open
<1>10. \A d \in Channels : \A n : Answered(d, n) => Answered(d, n)'
  BY <1>6 DEF Answered
<1>11. ASSUME NEW n, Waits(c, n) PROVE AtHand(c, n)' \/ Waits(c, n)'
  <2>1. PICK i \in DOMAIN s : Carries(s, i) /\ s[i].message.number = n
    BY <1>11 DEF Waits
  <2>2. DOMAIN s = 1 .. Len(s) /\ Len(s) \in Nat
    BY <1>1
  <2>3. CASE i = k
    BY <1>7, <2>1, <2>3 DEF AtHand
  <2>4. CASE i # k
    <3>1. i > k
      BY <1>3, <2>1, <2>2, <2>4
    <3>2. PICK j \in DOMAIN r : k + j = i
      <4>1. /\ r \in Seq(Lines) /\ Len(r) = Len(s) - k
        BY <1>1, <1>4, FromIsRest
      <4>2. i - k \in DOMAIN r /\ k + (i - k) = i
        BY <2>2, <3>1, <4>1
      <4>3. QED
        BY <4>2
    <3>3. r[j] = s[i]
      BY <1>1, <1>4, <3>2, FromIsRest
    <3>4. Carries(r, j) /\ r[j].message.number = n
      BY <2>1, <3>3 DEF Carries
    <3>5. QED
      BY <1>7, <3>4 DEF Waits
  <2>5. QED
    BY <2>3, <2>4
<1>12. IsKept(c)'
  <2> SUFFICES ASSUME closed'[c] = "no", NEW n \in DOMAIN sent'[c],
                      WellFormedRequest(sent'[c][n].message)
               PROVE  Answered(c, n)' \/ AtHand(c, n)' \/ Waits(c, n)'
    BY DEF IsKept
  <2>1. Answered(c, n) \/ AtHand(c, n) \/ Waits(c, n)
    BY <1>6 DEF KeptInv, IsKept
  <2>2. ~AtHand(c, n)
    BY <1>1 DEF AtHand
  <2>3. QED
    BY <1>10, <1>11, <2>1, <2>2
<1>13. ASSUME NEW d \in Channels
       PROVE  Announced(d[2], input[d])' /\ StaysOpen(d)' /\ IsKept(d)'
  <2>1. CASE d = c
    BY <1>6, <1>8, <1>9, <1>12, <2>1 DEF KeptInv, StaysOpen
  <2>2. CASE d # c
    BY <1>6, <1>7, <1>9, <2>2, ChannelKept DEF KeptInv
  <2>3. QED
    BY <2>1, <2>2
<1>14. QED
  BY <1>6, <1>13 DEF KeptInv

LEMMA WriteKept ==
  ASSUME NEW c \in Channels, SessionInv, KeptInv, Write(c)
  PROVE  KeptInv'
<1> DEFINE s == input[c]
           number == Len(sent[c]) + 1
<1>1. /\ Types /\ s \in Seq(Lines) /\ sent[c] \in Seq(Sent) /\ number \in Nat
      /\ DOMAIN sent[c] = 1 .. Len(sent[c])
  BY DEF SessionInv, ChannelInv, Types
<1>2. PICK m \in Message, f \in Frames :
        /\ Tolerated(c, f) /\ f.format \in Formats /\ f.before \in Before
        /\ m.number = Len(sent[c]) + 1 /\ m.id \in {NoId, m.number}
        /\ sent' = [sent EXCEPT ![c] =
             Append(sent[c], [message |-> m, format |-> f.format])]
        /\ input' = [input EXCEPT ![c] = input[c] \o (f.before \o Framed(m, f.format))]
  BY WriteIs
<1>3. PICK piece : piece = f.before \o Framed(m, f.format)
  OBVIOUS
<1>4. /\ piece \in Seq(Lines) /\ Len(piece) > 0 /\ Announced(c[2], piece)
      /\ Carries(piece, Len(piece)) /\ piece[Len(piece)].message = m
  BY <1>2, <1>3, PieceAnnounced
<1>5. PICK t : t = s \o piece
  OBVIOUS
<1>6. PICK new : new = [message |-> m, format |-> f.format]
  OBVIOUS
<1>7. /\ input'[c] = t /\ sent'[c] = Append(sent[c], new)
      /\ \A d \in Channels : d # c => input'[d] = input[d] /\ sent'[d] = sent[d]
  <2>1. input' = [input EXCEPT ![c] = t] /\ sent' = [sent EXCEPT ![c] = Append(sent[c], new)]
    BY <1>2, <1>3, <1>5, <1>6
  <2>2. QED
    BY <1>1, <2>1 DEF Types
<1>8. UNCHANGED <<launch, loaded, phase, listening, handling, output, closed>> /\ Open(c)
  BY DEF Write, processes
<1>9. ASSUME NEW d \in Channels, Open(d) PROVE Open(d)'
  BY <1>8, <1>9, SameKind DEF Open
<1>10. Announced(c[2], t)
  BY <1>1, <1>4, <1>5, JoinedAnnounced DEF KeptInv
<1>11. /\ t \in Seq(Lines) /\ Len(t) = Len(s) + Len(piece)
       /\ \A i \in 1 .. Len(s) + Len(piece) :
            t[i] = IF i <= Len(s) THEN s[i] ELSE piece[i - Len(s)]
  BY <1>1, <1>4, <1>5, ConcatProperties
<1> HIDE DEF s
<1>12. /\ Len(s) \in Nat /\ Len(piece) \in Nat /\ DOMAIN s = 1 .. Len(s)
       /\ DOMAIN t = 1 .. Len(t)
  BY <1>1, <1>4, <1>11
<1>13. ASSUME NEW n, Waits(c, n) PROVE Waits(c, n)'
  <2>1. PICK i \in DOMAIN s : Carries(s, i) /\ s[i].message.number = n
    BY <1>13 DEF Waits, s
  <2>2. i \in DOMAIN t /\ t[i] = s[i]
    BY <1>11, <1>12
  <2>3. Carries(t, i) /\ t[i].message.number = n
    BY <2>1, <2>2 DEF Carries
  <2>4. QED
    BY <1>7, <2>2, <2>3 DEF Waits
<1>14. ASSUME NEW n, n = number PROVE Waits(c, n)'
  <2>1. Len(t) \in DOMAIN t /\ t[Len(t)] = piece[Len(piece)]
    <3>1. Len(t) \in 1 .. Len(s) + Len(piece) /\ ~(Len(t) <= Len(s)) /\ Len(t) - Len(s) = Len(piece)
      BY <1>4, <1>11, <1>12
    <3>2. QED
      BY <1>11, <1>12, <3>1
  <2>2. PICK i \in DOMAIN t : t[i] = piece[Len(piece)]
    BY <2>1
  <2>3. Carries(t, i) /\ t[i].message.number = n
    BY <1>2, <1>4, <1>14, <2>2 DEF Carries
  <2>4. QED
    BY <1>7, <2>3 DEF Waits
<1>15. IsKept(c)'
  <2> SUFFICES ASSUME closed'[c] = "no", NEW n \in DOMAIN sent'[c],
                      WellFormedRequest(sent'[c][n].message)
               PROVE  Answered(c, n)' \/ AtHand(c, n)' \/ Waits(c, n)'
    BY DEF IsKept
  <2>1. n = number \/ (n \in DOMAIN sent[c] /\ sent'[c][n] = sent[c][n])
    BY <1>1, <1>7
  <2>2. CASE n = number
    BY <1>14, <2>2
  <2>3. CASE n \in DOMAIN sent[c] /\ sent'[c][n] = sent[c][n]
    <3>1. Answered(c, n) \/ AtHand(c, n) \/ Waits(c, n)
      BY <1>8, <2>3 DEF KeptInv, IsKept
    <3>2. Answered(c, n) => Answered(c, n)'
      BY <1>8 DEF Answered
    <3>3. AtHand(c, n) => AtHand(c, n)'
      BY <1>8 DEF AtHand
    <3>4. QED
      BY <1>13, <3>1, <3>2, <3>3
  <2>4. QED
    BY <2>1, <2>2, <2>3
<1>16. ASSUME NEW d \in Channels
       PROVE  Announced(d[2], input[d])' /\ StaysOpen(d)' /\ IsKept(d)'
  <2>1. CASE d = c
    BY <1>7, <1>8, <1>9, <1>10, <1>15, <2>1 DEF StaysOpen
  <2>2. CASE d # c
    BY <1>7, <1>8, <1>9, <2>2, ChannelKept DEF KeptInv
  <2>3. QED
    BY <2>1, <2>2
<1>17. QED
  BY <1>8, <1>16 DEF KeptInv

LEMMA AnswerKept ==
  ASSUME NEW c \in Channels, SessionInv, KeptInv, HandleHere(c) \/ PassOn(c)
  PROVE  KeptInv'
<1>1. PICK m \in Message : m = handling[c].message /\ handling[c] # Idle
  BY AtMessage DEF HandleHere, PassOn, At
<1>2. /\ handling[c].stage \in {"read", "answered"}
      /\ UNCHANGED <<processes, input, sent, closed>>
  BY DEF HandleHere, PassOn, At
<1>3. \E answer : Reply(c, answer) /\ AnswerTo(m, answer)
  <2>1. CASE HandleHere(c)
    <3>1. PICK end \in HandleRequest(m) : Reply(c, end.answer)
      BY <1>1, <2>1 DEF HandleHere
    <3>2. QED
      BY <3>1, RequestAnswer
  <2>2. CASE PassOn(c)
    <3>1. AnswerTo(m, handling[c].answer)
      BY <1>1, <2>2 DEF PassOn, At, SessionInv, ChannelInv, ChannelOK, HandlingOK
    <3>2. QED
      BY <2>2, <3>1 DEF PassOn
  <2>3. QED
    BY <2>1, <2>2
<1>4. QED
  BY <1>1, <1>2, <1>3, ReplyKept DEF AnswerTo

LEMMA FailureKept ==
  ASSUME NEW c \in Channels, SessionInv, KeptInv,
         ForwardMalformed(c) \/ ForwardFails(c) \/ LoseAnswer(c)
  PROVE  KeptInv'
<1>1. handling[c].stage \in {"read", "answered"} /\ UNCHANGED <<input, sent>>
  BY DEF ForwardMalformed, ForwardFails, LoseAnswer, Forwards, At
<1>2. CASE ForwardMalformed(c)
  <2>1. ~WellFormedRequest(handling[c].message)
    BY <1>2 DEF ForwardMalformed, Malformed, WellFormedRequest
  <2>2. QED
    BY <1>1, <1>2, <2>1, RefuseKept DEF ForwardMalformed
<1>3. CASE ForwardFails(c) \/ LoseAnswer(c)
  <2>1. Refuse(c, BridgeError(c), "host")
    BY <1>3 DEF ForwardFails, LoseAnswer
  <2>2. WellFormedRequest(handling[c].message) =>
          BridgeError(c) # NoAnswer /\ BridgeError(c).id = handling[c].message.id
    BY DEF WellFormedRequest, BridgeError, Answer, NoAnswer
  <2>3. QED
    BY <1>1, <2>1, <2>2, RefuseKept
<1>4. QED
  BY <1>2, <1>3

LEMMA BreakKept ==
  ASSUME NEW c \in Channels, SessionInv, KeptInv, ForwardTooLarge(c) \/ LoseBody(c)
  PROVE  KeptInv'
<1>1. PICK by \in {"large", "host"} : Breaks(c, by)
  BY DEF ForwardTooLarge, LoseBody
<1>2. UNCHANGED <<launch, loaded, input, sent, output>>
  BY DEF ForwardTooLarge, LoseBody
<1>3. CASE Kind(c) = "bridge"
  <2>1. Ended(Process(c), by) /\ Process(c) \in Projects
    BY <1>1, <1>3 DEF Breaks, Process, Channels
  <2>2. QED
    BY <1>2, <2>1, EndKeeps
<1>4. CASE Kind(c) # "bridge"
  BY <1>1, <1>2, <1>4, HangUpKept DEF Breaks
<1>5. QED
  BY <1>3, <1>4

LEMMA NextKept ==
  ASSUME SessionInv, KeptInv, [Next]_vars
  PROVE  KeptInv'
<1>1. ASSUME NEW p \in Projects, Start(p) \/ ProcessStep(p) \/ End(p)
      PROVE  KeptInv'
  BY <1>1, ProcessKeeps DEF ProcessStep
<1>2. ASSUME NEW c \in Channels, Write(c) \/ ChannelStep(c)
      PROVE  KeptInv'
  BY <1>2, WriteKept, ReadKept, AnswerKept, ForwardKept, FailureKept, BreakKept
     DEF ChannelStep
<1>3. CASE UNCHANGED vars
  <2>1. UNCHANGED <<launch, loaded, phase, listening, input, sent, output, handling, closed>>
    BY <1>3 DEF vars, processes
  <2>2. ASSUME NEW d \in Channels
        PROVE  Announced(d[2], input[d])' /\ StaysOpen(d)' /\ IsKept(d)'
    <3>1. Open(d) => Open(d)'
      BY <2>1, SameKind DEF Open
    <3>2. QED
      BY <2>1, <3>1, ChannelKept DEF KeptInv
  <2>3. QED
    BY <2>1, <2>2 DEF KeptInv
<1>4. QED
  BY <1>1, <1>2, <1>3 DEF Next

(* A process is at work on the channel, or will be when it reads on.       *)
Busy(c) == Open(c) /\ (handling[c] # Idle \/ Reading(c).result = "message")

(* A request that is owed an answer has it, unless its channel is closed   *)
(* or its process is at work.                                              *)
RequestsKept ==
  \A c \in Channels : \A n \in DOMAIN sent[c] :
    WellFormedRequest(sent[c][n].message) =>
      Answered(c, n) \/ closed[c] # "no" \/ Busy(c)

(* No request is lost, the safety half of RequestsAnswered: whatever lines *)
(* are mixed in, and whoever ends when, no reader skips a message or waits *)
(* behind one that is there, and no failure goes unreported.               *)
THEOREM NoRequestIsLost == Spec => []RequestsKept
<1>1. KeptInv /\ SessionInv => RequestsKept
  <2> SUFFICES ASSUME KeptInv, SessionInv, NEW c \in Channels, NEW n \in DOMAIN sent[c],
                      WellFormedRequest(sent[c][n].message), ~Answered(c, n), closed[c] = "no"
               PROVE  Busy(c)
    BY DEF RequestsKept
  <2>1. Types /\ sent[c] # <<>>
    BY DEF SessionInv, ChannelInv, Types
  <2>2. Open(c)
    BY <2>1 DEF KeptInv, StaysOpen
  <2>3. AtHand(c, n) \/ Waits(c, n)
    BY DEF KeptInv, IsKept
  <2>4. Waits(c, n) => Reading(c).result = "message"
    BY <2>1, DoorReads DEF Waits
  <2>5. QED
    BY <2>2, <2>3, <2>4 DEF Busy, AtHand
<1>2. Init => KeptInv
  BY KeptInit
<1>3. SessionInv /\ KeptInv /\ [Next]_vars => KeptInv'
  BY NextKept
<1>4. QED
  BY <1>1, <1>2, <1>3, InvariantHolds, PTL DEF Spec

-----------------------------------------------------------------------------
(* What a process read from config.toml is what is there, but that the     *)
(* first one wrote the template.                                           *)
FileInv ==
  /\ file = [p \in Projects |-> file[p]]
  /\ loaded = [p \in Projects |-> loaded[p]]
  /\ \A p \in Projects :
       file[p] = loaded[p] \/ (loaded[p] = Missing /\ file[p] = TemplateFile)

LEMMA TemplateSaysDefaults ==
  ASSUME NEW key \in DOMAIN Template, key # "session_id"
  PROVE  Template[key] = Default[key]
<1>1. /\ Template["overlap_window_minutes"] = Default["overlap_window_minutes"]
     /\ Template["max_recent_tags"] = Default["max_recent_tags"]
     /\ Template["username"] = Default["username"]
     /\ Template["actor_id"] = Default["actor_id"]
     /\ Template["mode"] = Default["mode"]
     /\ Template["mcp_port"] = Default["mcp_port"]
     /\ Template["ipc_port"] = Default["ipc_port"]
     /\ Template["web_port"] = Default["web_port"]
     /\ Template["auto_sync"] = Default["auto_sync"]
     /\ Template["sync_interval_seconds"] = Default["sync_interval_seconds"]
     /\ Template["max_sync_file_bytes"] = Default["max_sync_file_bytes"]
     /\ Template["treesitter_enabled"] = Default["treesitter_enabled"]
     /\ Template["lsp_mode"] = Default["lsp_mode"]
     /\ Template["sandbox_mode"] = Default["sandbox_mode"]
     /\ Template["sandbox_timeout_seconds"] = Default["sandbox_timeout_seconds"]
     /\ Template["embedding_model"] = Default["embedding_model"]
     /\ Template["model_cache_dir"] = Default["model_cache_dir"]
     /\ Template["max_records_in_memory"] = Default["max_records_in_memory"]
     /\ Template["negotiation_backend"] = Default["negotiation_backend"]
     /\ Template["registry"] = Default["registry"]
     /\ Template["ghost_add_color"] = Default["ghost_add_color"]
     /\ Template["ghost_remove_color"] = Default["ghost_remove_color"]
     /\ Template["notification_duration_seconds"] = Default["notification_duration_seconds"]
  BY SMTT(60) DEF Template, Default
<1>2. DOMAIN Template = {"session_id", "overlap_window_minutes", "max_recent_tags", "username", "actor_id", "mode", "mcp_port", "ipc_port", "web_port", "auto_sync", "sync_interval_seconds", "max_sync_file_bytes", "treesitter_enabled", "lsp_mode", "sandbox_mode", "sandbox_timeout_seconds", "embedding_model", "model_cache_dir", "max_records_in_memory", "negotiation_backend", "registry", "ghost_add_color", "ghost_remove_color", "notification_duration_seconds"}
  BY SMTT(60) DEF Template
<1>3. QED
  BY <1>1, <1>2

LEMMA TemplateRunsAlike ==
  ASSUME NEW key \in Keys \ {"session_id"}
  PROVE  Loaded(TemplateFile)[key] = Loaded(Missing)[key]
<1>1. Loaded(Missing) = Default
  BY DEF Loaded, Missing
<1>2. CASE key \in DOMAIN Template
  <2>1. Loaded(TemplateFile)[key] = Template[key]
    BY <1>2 DEF Loaded, TemplateFile, Settings
  <2>2. Template[key] = Default[key]
    BY <1>2, TemplateSaysDefaults
  <2>3. QED
    BY <1>1, <2>1, <2>2
<1>3. CASE key \notin DOMAIN Template
  <2>1. PICK s \in DOMAIN Sections : key \in Sections[s]
    BY DEF Keys
  <2>2. SectionOf(key) \in DOMAIN Sections
    BY <2>1 DEF SectionOf
  <2>3. Loaded(TemplateFile)[key] = FieldDefault[key]
    BY <1>3, <2>2 DEF Loaded, TemplateFile, Settings
  <2>4. key \in {"host_url", "api_key", "model", "base_url"}
    BY <1>3, <2>1, SMTT(60) DEF Template, Sections
  <2>5. /\ FieldDefault["host_url"] = Default["host_url"]
        /\ FieldDefault["api_key"] = Default["api_key"]
        /\ FieldDefault["model"] = Default["model"]
        /\ FieldDefault["base_url"] = Default["base_url"]
    BY SMTT(60) DEF FieldDefault, Default
  <2>6. QED
    BY <1>1, <2>3, <2>4, <2>5
<1>4. QED
  BY <1>2, <1>3

LEMMA StartReadsFile ==
  ASSUME SessionInv, FileInv, [Next]_vars
  PROVE  /\ FileInv'
         /\ \A p \in Projects : Starts(p) => loaded'[p] = file[p]
<1> DEFINE Goal == /\ FileInv'
                   /\ \A p \in Projects : Starts(p) => loaded'[p] = file[p]
<1>1. ASSUME UNCHANGED <<file, loaded>>, \A p \in Projects : ~Starts(p)
      PROVE  Goal
  BY <1>1 DEF FileInv
<1>2. ASSUME NEW q \in Projects, Start(q) PROVE Goal
  <2>1. /\ loaded' = [loaded EXCEPT ![q] = file[q]]
        /\ file' = [file EXCEPT ![q] = AfterLoading(file[q])]
        /\ phase' = [phase EXCEPT ![q] = phase'[q]]
    BY <1>2 DEF Start
  <2>2. /\ loaded'[q] = file[q]
        /\ \A p \in Projects : p # q =>
             loaded'[p] = loaded[p] /\ file'[p] = file[p] /\ phase'[p] = phase[p]
        /\ file'[q] = AfterLoading(file[q])
    BY <2>1 DEF FileInv, SessionInv, Statuses
  <2>3. FileInv'
    BY <2>1, <2>2 DEF FileInv, AfterLoading
  <2>4. \A p \in Projects : Starts(p) => loaded'[p] = file[p]
    BY <2>2 DEF Starts
  <2>5. QED
    BY <2>3, <2>4
<1>3. ASSUME NEW q \in Projects, ProcessStep(q) \/ End(q) PROVE Goal
  <2>1. UNCHANGED <<file, loaded>>
    BY <1>3 DEF ProcessStep, Listen, ListenFails, End
  <2>2. CASE UNCHANGED phase
    BY <1>1, <2>1, <2>2 DEF Starts
  <2>3. CASE phase' = [phase EXCEPT ![q] = "ended"]
    <3>1. \A p \in Projects : ~Starts(p)
      BY <2>3 DEF Starts
    <3>2. QED
      BY <1>1, <2>1, <3>1
  <2>4. QED
    BY <1>3, <2>2, <2>3 DEF ProcessStep, Listen, ListenFails, End, Ended
<1>4. ASSUME NEW c \in Channels, Write(c) \/ ChannelStep(c) PROVE Goal
  <2>1. UNCHANGED <<file, loaded>>
    BY <1>4 DEF Write, ChannelStep, Read, HandleHere, ForwardMalformed, Forward,
       ForwardTooLarge, ForwardFails, PassOn, LoseAnswer, LoseBody, Refuse, Breaks, processes
  <2>2. CASE UNCHANGED phase
    BY <1>1, <2>1, <2>2 DEF Starts
  <2>3. CASE phase' = [phase EXCEPT ![Process(c)] = "ended"]
    <3>1. \A p \in Projects : ~Starts(p)
      BY <2>3 DEF Starts
    <3>2. QED
      BY <1>1, <2>1, <3>1
  <2>4. QED
    BY <1>4, <2>2, <2>3 DEF Write, ChannelStep, Read, HandleHere, ForwardMalformed,
       Forward, ForwardTooLarge, ForwardFails, PassOn, LoseAnswer, LoseBody, Refuse,
       Breaks, Ended, processes
<1>5. CASE UNCHANGED vars
  BY <1>1, <1>5 DEF vars, processes, Starts
<1>6. QED
  BY <1>2, <1>3, <1>4, <1>5 DEF Next

(* Whatever config.toml holds at first, a start runs with the settings of  *)
(* the start before, but for a session id that is drawn (load_from_path    *)
(* and save_with_template).                                                *)
THEOREM SettingsKept == Spec => RestartKeepsSettings
<1>1. Init => FileInv
  BY DEF Init, FileInv
<1>2. SessionInv /\ FileInv /\ [Next]_vars => FileInv'
  BY StartReadsFile
<1>3. ASSUME SessionInv, FileInv, [Next]_vars
      PROVE  [\A p \in Projects : Starts(p) =>
                \A key \in Keys \ {"session_id"} :
                  Loaded(loaded'[p])[key] = Loaded(loaded[p])[key]]_vars
  <2>1. ASSUME NEW p \in Projects, Starts(p), NEW key \in Keys \ {"session_id"}
        PROVE  Loaded(loaded'[p])[key] = Loaded(loaded[p])[key]
    <3>1. loaded'[p] = file[p]
      BY <1>3, <2>1, StartReadsFile
    <3>2. CASE file[p] = loaded[p]
      BY <3>1, <3>2
    <3>3. CASE loaded[p] = Missing /\ file[p] = TemplateFile
      BY <3>1, <3>3, TemplateRunsAlike
    <3>4. QED
      BY <1>3, <3>2, <3>3 DEF FileInv
  <2>2. QED
    BY <2>1
<1>4. QED
  BY <1>1, <1>2, <1>3, InvariantHolds, PTL DEF Spec, RestartKeepsSettings

=============================================================================
