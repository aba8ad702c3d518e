----------------------- MODULE OcarinaReader_proofs -----------------------
(***************************************************************************)
(* The Ocarina adapter, for any answer to a reset, anything the interface  *)
(* still had to send before it, any number of events, silences and calls:  *)
(* the reader ends only when it has lost its place or the interface, and   *)
(* what receive() returns is what BusAdapter promises.                     *)
(*                                                                         *)
(* The argument: each byte says which event it is of, and the input is     *)
(* always what is left of one unbroken run of bytes (LineOK).  While the   *)
(* answer to the reset is awaited, its last byte cannot be missed          *)
(* (SyncOK).  From then on the next byte is the one the reader takes it    *)
(* for (InPlace), until a silence inside an event or a run of 0xAA that    *)
(* ends too soon; and even then a frame it takes for one that was sent is  *)
(* that frame, so that order is kept (InOrder, NewerToCome).               *)
(***************************************************************************)
EXTENDS OcarinaReader, SequenceTheorems, TLAPS

(* A part of a sequence.                                                   *)
LEMMA Part ==
  ASSUME NEW S, NEW s \in Seq(S), NEW a \in Nat \ {0}, NEW b \in Nat,
         a <= b + 1, b <= Len(s)
  PROVE  /\ SubSeq(s, a, b) \in Seq(S)
         /\ Len(SubSeq(s, a, b)) = b - a + 1
         /\ \A i \in 1..(b - a + 1) : SubSeq(s, a, b)[i] = s[a + i - 1]
<1>1. Len(s) \in Nat
  BY LenProperties
<1>2. \A i \in a..b : i \in 1..Len(s)
  BY <1>1, SMT
<1>3. \A i \in a..b : s[i] \in S
  BY <1>2, ElementOfSeq
<1>4. a \in Int /\ b \in Int /\ (IF a <= b THEN b - a + 1 ELSE 0) = b - a + 1
  BY SMT
<1> QED
  BY <1>3, <1>4, SubSeqProperties

(* What is in the input.                                                   *)

InputByte == [of : Nat, place : Nat]

Width(s, n) == PayloadLength[s[n]] + 2

\* Bytes of events sent, or of what came before, which have 0 or 1 for their
\* place; and the interface sends events whole.
Genuine ==
  /\ \A i \in 1..Len(input) :
       /\ input[i].of <= Len(sent)
       /\ input[i].of = 0 => input[i].place \in {0, 1}
       /\ input[i].of > 0 => input[i].place \in 1..Width(sent, input[i].of)
  /\ input # << >> =>
       /\ input[Len(input)].of = Len(sent)
       /\ Len(sent) > 0 => input[Len(input)].place = Width(sent, Len(sent))

\* c can come after b.
Successor(s, b, c) ==
  IF b.of > 0 /\ b.place < Width(s, b.of)
  THEN c = Byte(b.of, b.place + 1)
  ELSE c = Byte(b.of + 1, 1) \/ (b.of = 0 /\ c.of = 0)

Contiguous ==
  /\ \A i \in 1..Len(input) - 1 : Successor(sent, input[i], input[i + 1])
  /\ \A i, j \in 1..Len(input) : i <= j => input[i].of <= input[j].of

\* The last byte from before the events is one of the answer to the reset.
AnswerThere ==
  \A i \in 1..Len(input) : input[i].of = 0 => \E j \in i..Len(input) : IsAA(input[j])

LineOK == Genuine /\ Contiguous /\ AnswerThere

\* While the answer is awaited, all of it is to come or what has come of it
\* is counted: c is its last byte.
AwaitedUpTo(c) ==
  /\ \A i \in 1..c : input[i].of = 0
  /\ c # Len(input) => input[c + 1].of > 0
  /\ \/ c >= SYNC_LENGTH /\ \A i \in c - SYNC_LENGTH + 1..c : IsAA(input[i])
     \/ run + c >= SYNC_LENGTH /\ \A i \in 1..c : IsAA(input[i])

SyncOK ==
  thread = "sync" => run < SYNC_LENGTH /\ \E c \in 1..Len(input) : AwaitedUpTo(c)

-----------------------------------------------------------------------------
(* Frames that were sent, in the queue and out of it.                      *)

WasSent(n) == n \in 1..Len(sent) /\ sent[n] = "ext"

\* They come in order.
InOrder ==
  /\ \A i \in 1..Len(frames) : WasSent(frames[i])
  /\ \A i \in 1..Len(queue) : queue[i] > 0 => WasSent(queue[i])
  /\ \A i, j \in 1..Len(frames) : i < j => frames[i] < frames[j]
  /\ \A i, j \in 1..Len(queue) : i < j /\ queue[i] > 0 /\ queue[j] > 0 => queue[i] < queue[j]
  /\ \A i \in 1..Len(frames), j \in 1..Len(queue) : queue[j] > 0 => frames[i] < queue[j]

\* What is still to be read is newer than all of them.
NewerToCome ==
  /\ \A i \in 1..Len(frames), j \in 1..Len(input) : frames[i] < input[j].of
  /\ \A i \in 1..Len(queue), j \in 1..Len(input) : queue[i] > 0 => queue[i] < input[j].of

-----------------------------------------------------------------------------
(* The reader that has not lost its place.                                 *)

\* Its event is n, and its payload is next.
InPayloadOf(n) ==
  /\ event = [kind |-> sent[n], length |-> PayloadLength[sent[n]]]
  /\ IF PayloadLength[sent[n]] > 0 THEN input # << >> /\ input[1] = Byte(n, 3)
     ELSE IF input # << >> THEN input[1] = Byte(n + 1, 1) ELSE n = Len(sent)

\* What the next byte is.
PlaceKnown ==
  /\ thread = "type" /\ input # << >> => input[1].of > 0 /\ input[1].place = 1
  /\ thread = "length" =>
       input # << >> /\ input[1].of > 0 /\ input[1].place = 2 /\ event.kind = sent[input[1].of]
  /\ thread = "payload" => \E n \in 1..Len(sent) : InPayloadOf(n)

\* A frame is out, in the queue, or its last byte is to come.
Accounted(n) ==
  \/ \E i \in 1..Len(frames) : frames[i] = n
  \/ \E i \in 1..Len(queue) : queue[i] = n
  \/ \E i \in 1..Len(input) : input[i] = Byte(n, 4)

NoneSkipped == \A n \in 1..Len(sent) : sent[n] = "ext" => Accounted(n)

InPlace ==
  /\ thread # "dead"
  /\ frames = got /\ \A i \in 1..Len(queue) : queue[i] # 0
  /\ PlaceKnown
  /\ NoneSkipped

Types ==
  /\ TypeOK
  /\ sent \in Seq(Kind) /\ input \in Seq(InputByte)
  /\ queue \in Seq(Int) /\ got \in Seq(Int) /\ frames \in Seq(Int)
  /\ SYNC_LENGTH \in Nat \ {0} /\ MaxFaults \in Nat /\ MaxCalls \in Nat

IInv == Types /\ LineOK /\ SyncOK /\ InOrder /\ NewerToCome /\ (reasons = {} => InPlace)

-----------------------------------------------------------------------------
LEMMA LengthFacts ==
  /\ \A kind \in Kind : PayloadLength[kind] \in 0..2 /\ Needed[kind] \in 0..PayloadLength[kind]
  /\ PayloadLength["ext"] = 2 /\ "ext" \in Kind
  /\ \A kind \in Kind : PayloadLength[kind] \in Nat /\ Needed[kind] \in Nat
BY DEF Kind, PayloadLength, Needed

LEMMA ByteFacts ==
  /\ \A n, place \in Nat : Byte(n, place) \in InputByte
  /\ \A n, place : Byte(n, place).of = n /\ Byte(n, place).place = place
  /\ \A b \in InputByte : b.of \in Nat /\ b.place \in Nat /\ b = Byte(b.of, b.place)
  /\ \A b : IsAA(b) => b.of = 0
BY DEF Byte, InputByte, IsAA, Sync

LEMMA LineFacts ==
  ASSUME Types
  PROVE  /\ Len(sent) \in Nat /\ DOMAIN sent = 1..Len(sent)
         /\ Len(input) \in Nat /\ DOMAIN input = 1..Len(input)
         /\ \A i \in 1..Len(input) :
              input[i] \in InputByte /\ input[i].of \in Nat /\ input[i].place \in Nat
         /\ \A n \in 1..Len(sent) : sent[n] \in Kind /\ Width(sent, n) \in 2..4
         /\ input # << >> <=> Len(input) > 0
<1>1. /\ Len(sent) \in Nat /\ DOMAIN sent = 1..Len(sent)
      /\ Len(input) \in Nat /\ DOMAIN input = 1..Len(input)
      /\ input # << >> <=> Len(input) > 0
  BY LenProperties, EmptySeq DEF Types
<1>2. \A n \in 1..Len(sent) : sent[n] \in Kind
  BY ElementOfSeq DEF Types
<1>3. \A n \in 1..Len(sent) : Width(sent, n) \in 2..4
  BY <1>2, LengthFacts, SMT DEF Width
<1>4. \A i \in 1..Len(input) : input[i] \in InputByte
  BY ElementOfSeq DEF Types
<1> QED
  BY <1>1, <1>2, <1>3, <1>4, ByteFacts

\* What is left of the input when its first n bytes have been read.
LEMMA DropFacts ==
  ASSUME Types, NEW n \in 0..Len(input), Drop(n)
  PROVE  /\ input' \in Seq(InputByte) /\ Len(input') = Len(input) - n
         /\ Len(input') \in Nat
         /\ \A i \in 1..Len(input') : i + n \in 1..Len(input) /\ input'[i] = input[i + n]
         /\ input' # << >> <=> n < Len(input)
<1>1. /\ input \in Seq(InputByte) /\ n + 1 \in Nat \ {0} /\ Len(input) \in Nat
      /\ n + 1 <= Len(input) + 1 /\ Len(input) <= Len(input)
      /\ n \in Nat /\ n <= Len(input)
  BY LineFacts, SMT DEF Types
<1> DEFINE left == SubSeq(input, n + 1, Len(input))
<1>2. /\ left \in Seq(InputByte) /\ Len(left) = Len(input) - (n + 1) + 1
      /\ \A i \in 1..(Len(input) - (n + 1) + 1) : left[i] = input[n + 1 + i - 1]
  BY <1>1, Part
<1>3. input' = left
  BY DEF Drop
<1> HIDE DEF left
<1>4. Len(input') = Len(input) - n /\ Len(input') \in Nat
  BY <1>1, <1>2, <1>3, SMT
<1>5. ASSUME NEW i \in 1..Len(input')
      PROVE  i + n \in 1..Len(input) /\ input'[i] = input[i + n]
  <2>1. /\ i + n \in 1..Len(input) /\ n + 1 + i - 1 = i + n
        /\ i \in 1..(Len(input) - (n + 1) + 1)
    BY <1>1, <1>4, SMT
  <2> QED
    BY <1>2, <1>3, <2>1
<1>6. input' # << >> <=> Len(input') > 0
  BY <1>2, <1>3, EmptySeq
<1>7. Len(input') > 0 <=> n < Len(input)
  BY <1>1, <1>4, SMT
<1> QED
  BY <1>2, <1>3, <1>4, <1>5, <1>6, <1>7

LEMMA DropKeeps ==
  ASSUME Types, LineOK, NEW n \in 0..Len(input), Drop(n), UNCHANGED sent
  PROVE  LineOK'
<1>1. /\ Len(input) \in Nat /\ n \in Nat
      /\ Len(input') = Len(input) - n /\ Len(input') \in Nat
      /\ \A i \in 1..Len(input') : i + n \in 1..Len(input) /\ input'[i] = input[i + n]
      /\ input' # << >> <=> n < Len(input)
      /\ input # << >> <=> Len(input) > 0
  <2>1. Len(input) \in Nat /\ n \in Nat
    BY LineFacts, SMT
  <2> QED
    BY <2>1, LineFacts, DropFacts
<1>2. Genuine'
  <2>1. ASSUME NEW i \in 1..Len(input')
        PROVE  /\ input'[i].of <= Len(sent)
               /\ input'[i].of = 0 => input'[i].place \in {0, 1}
               /\ input'[i].of > 0 => input'[i].place \in 1..Width(sent, input'[i].of)
    BY <1>1 DEF LineOK, Genuine
  <2>2. ASSUME input' # << >>
        PROVE  /\ input'[Len(input')].of = Len(sent)
               /\ Len(sent) > 0 => input'[Len(input')].place = Width(sent, Len(sent))
    <3>1. /\ Len(input') \in 1..Len(input') /\ Len(input') + n = Len(input)
          /\ input # << >>
      BY <1>1, <2>2, SMT
    <3> QED
      BY <1>1, <3>1 DEF LineOK, Genuine
  <2> QED
    BY <2>1, <2>2 DEF Genuine, Width
<1>3. Contiguous'
  <2>1. ASSUME NEW i \in 1..Len(input') - 1 PROVE Successor(sent, input'[i], input'[i + 1])
    <3>1. /\ i \in 1..Len(input') /\ i + 1 \in 1..Len(input')
          /\ i + n \in 1..Len(input) - 1 /\ i + 1 + n = i + n + 1
      BY <1>1, SMT
    <3>2. input'[i] = input[i + n] /\ input'[i + 1] = input[i + n + 1]
      BY <1>1, <3>1
    <3> QED
      BY <3>1, <3>2 DEF LineOK, Contiguous
  <2>2. ASSUME NEW i \in 1..Len(input'), NEW j \in 1..Len(input'), i <= j
        PROVE  input'[i].of <= input'[j].of
    <3>1. i + n <= j + n
      BY <1>1, <2>2, SMT
    <3> QED
      BY <1>1, <3>1 DEF LineOK, Contiguous
  <2> QED
    BY <2>1, <2>2 DEF Contiguous, Successor, Width
<1>4. AnswerThere'
  <2>1. ASSUME NEW i \in 1..Len(input'), input'[i].of = 0
        PROVE  \E j \in i..Len(input') : IsAA(input'[j])
    <3>1. PICK k \in (i + n)..Len(input) : IsAA(input[k])
      BY <1>1, <2>1 DEF LineOK, AnswerThere
    <3>2. k - n \in i..Len(input') /\ k - n \in 1..Len(input') /\ k - n + n = k
      BY <1>1, <3>1, SMT
    <3>3. input'[k - n] = input[k]
      BY <1>1, <3>2
    <3> QED
      BY <3>1, <3>2, <3>3
  <2> QED
    BY <2>1 DEF AnswerThere, IsAA
<1> QED
  BY <1>2, <1>3, <1>4 DEF LineOK

-----------------------------------------------------------------------------
(* The interface sends another event.                                      *)

LEMMA WireBytes ==
  ASSUME NEW n \in Nat, NEW kind \in Kind
  PROVE  /\ Wire(n, kind) \in Seq(InputByte)
         /\ Len(Wire(n, kind)) = PayloadLength[kind] + 2
         /\ \A i \in 1..PayloadLength[kind] + 2 : Wire(n, kind)[i] = Byte(n, i)
<1>1. PayloadLength[kind] + 2 \in Nat
  BY LengthFacts, SMT
<1> DEFINE m == PayloadLength[kind] + 2
<1>2. \A i \in 1..m : Byte(n, i) \in InputByte
  BY ByteFacts
<1> HIDE DEF m
<1>3. [i \in 1..m |-> Byte(n, i)] \in Seq(InputByte) /\ Len([i \in 1..m |-> Byte(n, i)]) = m
  BY <1>1, <1>2, SMT DEF m
<1>4. Wire(n, kind) = [i \in 1..m |-> Byte(n, i)]
  BY DEF Wire, m
<1> QED
  BY <1>3, <1>4 DEF m

LEMMA TransmitFacts ==
  ASSUME Types, NEW kind \in Kind, Transmit(kind)
  PROVE  /\ sent' \in Seq(Kind) /\ Len(sent') = Len(sent) + 1
         /\ \A n \in 1..Len(sent) : sent'[n] = sent[n] /\ Width(sent', n) = Width(sent, n)
         /\ sent'[Len(sent) + 1] = kind
         /\ Width(sent', Len(sent) + 1) = PayloadLength[kind] + 2
         /\ input' \in Seq(InputByte)
         /\ Len(input') = Len(input) + PayloadLength[kind] + 2
         /\ \A i \in 1..Len(input) : input'[i] = input[i]
         /\ \A i \in 1..PayloadLength[kind] + 2 :
              input'[Len(input) + i] = Byte(Len(sent) + 1, i)
         /\ UNCHANGED <<reader, queue, caller, nFaults, reasons>>
<1>1. /\ sent' = Append(sent, kind) /\ input' = input \o Wire(Len(sent'), kind)
      /\ UNCHANGED <<reader, queue, caller, nFaults, reasons>>
  BY DEF Transmit
<1>2. /\ sent \in Seq(Kind) /\ input \in Seq(InputByte)
      /\ Len(sent) \in Nat /\ Len(input) \in Nat
  BY LineFacts DEF Types
<1>3. /\ sent' \in Seq(Kind) /\ Len(sent') = Len(sent) + 1
      /\ \A n \in 1..Len(sent) : sent'[n] = sent[n]
      /\ sent'[Len(sent) + 1] = kind
  BY <1>1, <1>2, AppendProperties
<1>4. /\ Len(sent') \in Nat /\ PayloadLength[kind] \in 0..2
  BY <1>2, <1>3, LengthFacts, SMT
<1> DEFINE w == Wire(Len(sent'), kind)
<1>5. /\ w \in Seq(InputByte) /\ Len(w) = PayloadLength[kind] + 2
      /\ \A i \in 1..PayloadLength[kind] + 2 : w[i] = Byte(Len(sent) + 1, i)
  BY <1>3, <1>4, WireBytes
<1> HIDE DEF w
<1>6. /\ input \o w \in Seq(InputByte) /\ Len(input \o w) = Len(input) + Len(w)
      /\ \A i \in 1..(Len(input) + Len(w)) :
           (input \o w)[i] = IF i <= Len(input) THEN input[i] ELSE w[i - Len(input)]
  BY <1>2, <1>5, ConcatProperties
<1>7. input' = input \o w
  BY <1>1 DEF w
<1>8. Len(input') = Len(input) + PayloadLength[kind] + 2
  BY <1>2, <1>4, <1>5, <1>6, <1>7, SMT
<1>9. ASSUME NEW i \in 1..Len(input) PROVE input'[i] = input[i]
  <2>1. i \in 1..(Len(input) + Len(w)) /\ i <= Len(input)
    BY <1>2, <1>4, <1>5, SMT
  <2> QED
    BY <1>6, <1>7, <2>1
<1>10. ASSUME NEW i \in 1..PayloadLength[kind] + 2
       PROVE  input'[Len(input) + i] = Byte(Len(sent) + 1, i)
  <2>1. /\ Len(input) + i \in 1..(Len(input) + Len(w)) /\ ~ (Len(input) + i <= Len(input))
        /\ Len(input) + i - Len(input) = i
    BY <1>2, <1>4, <1>5, SMT
  <2> QED
    BY <1>5, <1>6, <1>7, <2>1
<1>11. /\ \A n \in 1..Len(sent) : Width(sent', n) = Width(sent, n)
       /\ Width(sent', Len(sent) + 1) = PayloadLength[kind] + 2
  BY <1>3 DEF Width
<1> QED
  BY <1>1, <1>3, <1>6, <1>7, <1>8, <1>9, <1>10, <1>11

LEMMA TransmitLine ==
  ASSUME Types, LineOK, NEW kind \in Kind, Transmit(kind)
  PROVE  LineOK'
<1> DEFINE n == Len(sent) + 1
           w == PayloadLength[kind] + 2
<1>1. /\ Len(sent) \in Nat /\ Len(input) \in Nat /\ w \in 2..4
      /\ Len(sent') = n /\ n \in Nat /\ n > 0 /\ Len(sent) < n
      /\ Len(input') = Len(input) + w
  <2>1. PayloadLength[kind] \in 0..2 /\ Len(sent) \in Nat /\ Len(input) \in Nat
    BY LengthFacts, LineFacts
  <2>2. Len(sent') = Len(sent) + 1 /\ Len(input') = Len(input) + PayloadLength[kind] + 2
    BY TransmitFacts
  <2> QED
    BY <2>1, <2>2, SMT
<1>2. /\ \A i \in 1..Len(input) : input'[i] = input[i]
      /\ \A i \in 1..w : input'[Len(input) + i] = Byte(n, i)
      /\ \A m \in 1..Len(sent) : Width(sent', m) = Width(sent, m)
      /\ Width(sent', n) = w
      /\ \A i \in 1..Len(input) : input[i].of \in Nat /\ input[i].place \in Nat
      /\ input # << >> <=> Len(input) > 0
  BY TransmitFacts, LineFacts
<1> HIDE DEF n, w
<1>3. ASSUME NEW i \in 1..Len(input'), i \notin 1..Len(input)
      PROVE  /\ i - Len(input) \in 1..w /\ input'[i] = Byte(n, i - Len(input))
             /\ input'[i].of = n /\ input'[i].place = i - Len(input)
  <2>1. i - Len(input) \in 1..w /\ Len(input) + (i - Len(input)) = i
    BY <1>1, <1>3, SMT
  <2> QED
    BY <1>2, <2>1, ByteFacts
<1>4. Genuine'
  <2>1. ASSUME NEW i \in 1..Len(input')
        PROVE  /\ input'[i].of <= n
               /\ input'[i].of = 0 => input'[i].place \in {0, 1}
               /\ input'[i].of > 0 => input'[i].place \in 1..Width(sent', input'[i].of)
    <3>1. CASE i \in 1..Len(input)
      <4>1. /\ input'[i] = input[i] /\ input[i].of \in Nat /\ input[i].of <= Len(sent)
            /\ input[i].of = 0 => input[i].place \in {0, 1}
            /\ input[i].of > 0 => input[i].place \in 1..Width(sent, input[i].of)
        BY <1>2, <3>1 DEF LineOK, Genuine
      <4>2. input[i].of > 0 => input[i].of \in 1..Len(sent)
        BY <1>1, <4>1, SMT
      <4>3. input[i].of <= n
        BY <1>1, <4>1, SMT
      <4> QED
        BY <1>2, <4>1, <4>2, <4>3
    <3>2. CASE i \notin 1..Len(input)
      BY <1>1, <1>2, <1>3, <3>2
    <3> QED
      BY <3>1, <3>2
  <2>2. Len(input') \in 1..Len(input') /\ Len(input') \notin 1..Len(input)
        /\ Len(input') - Len(input) = w
    BY <1>1, SMT
  <2>3. input'[Len(input')].of = n /\ input'[Len(input')].place = Width(sent', n)
    BY <1>2, <1>3, <2>2
  <2> QED
    BY <1>1, <2>1, <2>3 DEF Genuine, Width
<1>5. Contiguous'
  <2>1. ASSUME NEW i \in 1..Len(input') - 1 PROVE Successor(sent', input'[i], input'[i + 1])
    <3>0. i \in 1..Len(input') /\ i + 1 \in 1..Len(input') /\ i \in Nat
      BY <1>1, SMT
    <3>1. CASE i \in 1..Len(input) - 1
      <4>1. i \in 1..Len(input) /\ i + 1 \in 1..Len(input)
        BY <1>1, <3>1, SMT
      <4>2. /\ input'[i] = input[i] /\ input'[i + 1] = input[i + 1]
            /\ Successor(sent, input[i], input[i + 1])
            /\ input[i].of \in Nat /\ input[i].of <= Len(sent)
        BY <1>2, <3>1, <4>1 DEF LineOK, Contiguous, Genuine
      <4>3. input[i].of > 0 => Width(sent', input[i].of) = Width(sent, input[i].of)
        <5>1. input[i].of > 0 => input[i].of \in 1..Len(sent)
          BY <1>1, <4>2, SMT
        <5> QED
          BY <1>2, <5>1
      <4> QED
        BY <4>2, <4>3 DEF Successor
    <3>2. CASE i = Len(input)
      <4>1. /\ i \in 1..Len(input) /\ Len(input) > 0
            /\ i + 1 \notin 1..Len(input) /\ i + 1 - Len(input) = 1
        BY <1>1, <3>2, SMT
      <4>2. /\ input'[i].of = Len(sent)
            /\ Len(sent) > 0 => input'[i].place = Width(sent, Len(sent))
        BY <1>2, <3>2, <4>1 DEF LineOK, Genuine
      <4>3. input'[i + 1] = Byte(Len(sent) + 1, 1)
        BY <1>3, <3>0, <4>1 DEF n
      <4>4. Len(sent) > 0 => /\ Width(sent', Len(sent)) = Width(sent, Len(sent))
                             /\ ~ (Width(sent, Len(sent)) < Width(sent, Len(sent)))
        <5>1. Len(sent) > 0 => Len(sent) \in 1..Len(sent)
          BY <1>1, SMT
        <5>2. \A m \in 1..Len(sent) : Width(sent, m) \in 2..4
          BY LineFacts
        <5>3. \A x \in 2..4 : ~ (x < x)
          BY SMT
        <5> QED
          BY <1>2, <5>1, <5>2, <5>3
      <4> QED
        BY <4>2, <4>3, <4>4 DEF Successor
    <3>3. CASE i \notin 1..Len(input)
      <4>1. /\ i + 1 \notin 1..Len(input) /\ i + 1 - Len(input) = i - Len(input) + 1
            /\ i - Len(input) < w
        BY <1>1, <3>0, <3>3, SMT
      <4>2. /\ input'[i].of = n /\ input'[i].place = i - Len(input)
            /\ input'[i + 1] = Byte(n, i - Len(input) + 1)
        BY <1>3, <3>0, <3>3, <4>1
      <4> QED
        BY <1>1, <1>2, <4>1, <4>2 DEF Successor
    <3> QED
      <4>1. i \in 1..Len(input) - 1 \/ i = Len(input) \/ i \notin 1..Len(input)
        BY <1>1, SMT
      <4> QED
        BY <3>1, <3>2, <3>3, <4>1
  <2>2. ASSUME NEW i \in 1..Len(input'), NEW j \in 1..Len(input'), i <= j
        PROVE  input'[i].of <= input'[j].of
    <3>1. CASE j \in 1..Len(input)
      <4>1. i \in 1..Len(input)
        BY <1>1, <2>2, <3>1, SMT
      <4> QED
        BY <1>2, <2>2, <3>1, <4>1 DEF LineOK, Contiguous
    <3>2. CASE j \notin 1..Len(input)
      <4>1. input'[j].of = n
        BY <1>3, <3>2
      <4>2. CASE i \in 1..Len(input)
        <5>1. input'[i].of \in Nat /\ input'[i].of <= Len(sent)
          BY <1>2, <4>2 DEF LineOK, Genuine
        <5> QED
          BY <1>1, <4>1, <5>1, SMT
      <4>3. CASE i \notin 1..Len(input)
        <5>1. input'[i].of = n
          BY <1>3, <4>3
        <5> QED
          BY <1>1, <4>1, <5>1, SMT
      <4> QED
        BY <4>2, <4>3
    <3> QED
      BY <3>1, <3>2
  <2> QED
    BY <2>1, <2>2 DEF Contiguous
<1>6. AnswerThere'
  <2>1. ASSUME NEW i \in 1..Len(input'), input'[i].of = 0
        PROVE  \E j \in i..Len(input') : IsAA(input'[j])
    <3>1. i \in 1..Len(input)
      BY <1>1, <1>3, <2>1
    <3>2. PICK j \in i..Len(input) : IsAA(input[j])
      BY <1>2, <2>1, <3>1 DEF LineOK, AnswerThere
    <3>3. j \in i..Len(input') /\ j \in 1..Len(input)
      BY <1>1, <3>1, <3>2, SMT
    <3> QED
      BY <1>2, <3>2, <3>3
  <2> QED
    BY <2>1 DEF AnswerThere, IsAA
<1> QED
  BY <1>4, <1>5, <1>6 DEF LineOK

LEMMA QueueFacts ==
  ASSUME Types
  PROVE  /\ Len(queue) \in Nat /\ DOMAIN queue = 1..Len(queue)
         /\ \A i \in 1..Len(queue) : queue[i] \in Int /\ queue[i] \in -1..Len(sent)
         /\ Len(frames) \in Nat /\ DOMAIN frames = 1..Len(frames)
         /\ \A i \in 1..Len(frames) : frames[i] \in Int
<1>1. /\ Len(queue) \in Nat /\ DOMAIN queue = 1..Len(queue)
      /\ Len(frames) \in Nat /\ DOMAIN frames = 1..Len(frames)
  BY LenProperties DEF Types
<1>2. \A i \in 1..Len(queue) : queue[i] \in Int
  BY ElementOfSeq DEF Types
<1>3. \A i \in 1..Len(frames) : frames[i] \in Int
  BY ElementOfSeq DEF Types
<1>4. \A i \in 1..Len(queue) : queue[i] \in -1..Len(sent)
  BY <1>1 DEF Types, TypeOK
<1> QED
  BY <1>1, <1>2, <1>3, <1>4

LEMMA TransmitKeeps ==
  ASSUME IInv, NEW kind \in Kind, Transmit(kind)
  PROVE  IInv'
<1>0. Types /\ LineOK
  BY DEF IInv
<1>1. /\ Len(sent) \in Nat /\ Len(input) \in Nat
      /\ sent' \in Seq(Kind) /\ Len(sent') = Len(sent) + 1
      /\ \A n \in 1..Len(sent) : sent'[n] = sent[n]
      /\ sent'[Len(sent) + 1] = kind
      /\ input' \in Seq(InputByte)
      /\ Len(input') = Len(input) + PayloadLength[kind] + 2
      /\ \A i \in 1..Len(input) : input'[i] = input[i]
      /\ \A i \in 1..PayloadLength[kind] + 2 : input'[Len(input) + i] = Byte(Len(sent) + 1, i)
      /\ PayloadLength[kind] \in 0..2
      /\ input # << >> <=> Len(input) > 0
  BY <1>0, LineFacts, TransmitFacts, LengthFacts
<1>2. /\ Len(input') \in Nat /\ Len(input') > Len(input)
      /\ \A i \in 1..Len(input) : i \in 1..Len(input')
      /\ Len(sent') \in Nat /\ Len(sent) < Len(sent')
      /\ \A n \in 1..Len(sent) : n \in 1..Len(sent')
      /\ 1 \in 1..PayloadLength[kind] + 2
  BY <1>1, SMT
<1>3. UNCHANGED <<thread, run, event, queue, call, timed, passed, result, got, frames,
                  nCalls, nFaults, reasons>>
  BY DEF Transmit, reader, caller
<1>4. Types'
  <2>1. \A n \in DOMAIN sent' : sent'[n] \in Kind
    <3>1. \A n \in 1..Len(sent') : sent'[n] \in Kind
      BY <1>1, ElementOfSeq
    <3> QED
      BY <1>1, <3>1, LenProperties
  <2>2. \A i \in DOMAIN queue' : queue'[i] \in -1..Len(sent')
    <3>1. \A x \in -1..Len(sent) : x \in -1..Len(sent')
      BY <1>1, <1>2, SMT
    <3> QED
      BY <1>0, <1>3, <3>1, QueueFacts
  <2>3. TypeOK'
    BY <1>0, <1>3, <2>1, <2>2 DEF Types, TypeOK
  <2> QED
    BY <1>0, <1>1, <1>3, <2>3 DEF Types
<1>5. LineOK'
  BY <1>0, TransmitLine
<1>6. SyncOK'
  <2> SUFFICES ASSUME thread = "sync" PROVE (run < SYNC_LENGTH /\ \E c \in 1..Len(input) : AwaitedUpTo(c))'
    BY <1>3 DEF SyncOK
  <2>1. PICK c \in 1..Len(input) : AwaitedUpTo(c)
    BY DEF IInv, SyncOK
  <2>2. /\ \A i \in 1..c : i \in 1..Len(input)
        /\ \A i \in c - SYNC_LENGTH + 1..c : c >= SYNC_LENGTH => i \in 1..Len(input)
        /\ SYNC_LENGTH \in Nat
    BY <1>0, <1>1, SMT DEF Types
  <2>3. input'[c + 1].of > 0
    <3>1. CASE c = Len(input)
      <4>1. input'[c + 1] = Byte(Len(sent) + 1, 1) /\ Len(sent) + 1 > 0
        BY <1>1, <1>2, <3>1, SMT
      <4> QED
        BY <4>1, ByteFacts
    <3>2. CASE c # Len(input)
      <4>1. c + 1 \in 1..Len(input)
        BY <1>1, <3>2, SMT
      <4> QED
        BY <1>1, <2>1, <3>2, <4>1 DEF AwaitedUpTo
    <3> QED
      BY <3>1, <3>2
  <2>4. AwaitedUpTo(c)'
    <3>1. \A i \in 1..c : input'[i].of = 0
      BY <1>1, <2>1, <2>2 DEF AwaitedUpTo
    <3>2. \/ c >= SYNC_LENGTH /\ \A i \in c - SYNC_LENGTH + 1..c : IsAA(input'[i])
          \/ run + c >= SYNC_LENGTH /\ \A i \in 1..c : IsAA(input'[i])
      BY <1>1, <2>1, <2>2 DEF AwaitedUpTo
    <3> QED
      BY <1>3, <2>3, <3>1, <3>2 DEF AwaitedUpTo, IsAA
  <2>5. run' < SYNC_LENGTH
    BY <1>3 DEF IInv, SyncOK
  <2>6. c \in 1..Len(input')
    BY <1>2
  <2> QED
    BY <2>4, <2>5, <2>6
<1>7. InOrder'
  <2>1. /\ \A i \in 1..Len(frames) : frames[i] \in 1..Len(sent') /\ sent'[frames[i]] = "ext"
        /\ \A i \in 1..Len(queue) : queue[i] > 0 =>
             queue[i] \in 1..Len(sent') /\ sent'[queue[i]] = "ext"
    BY <1>1, <1>2 DEF IInv, InOrder, WasSent
  <2> QED
    BY <1>3, <2>1 DEF IInv, InOrder, WasSent
<1>8. NewerToCome'
  <2>1. ASSUME NEW n \in 1..Len(sent), NEW j \in 1..Len(input'), j \notin 1..Len(input)
        PROVE  n < input'[j].of
    <3>1. j - Len(input) \in 1..PayloadLength[kind] + 2 /\ Len(input) + (j - Len(input)) = j
      BY <1>1, <2>1, SMTT(60)
    <3>2. input'[j].of = Len(sent) + 1
      BY <1>1, <3>1, ByteFacts
    <3> QED
      BY <1>1, <3>2, SMT
  <2>2. ASSUME NEW i \in 1..Len(frames), NEW j \in 1..Len(input')
        PROVE  frames[i] < input'[j].of
    BY <1>1, <2>1 DEF IInv, InOrder, WasSent, NewerToCome
  <2>3. ASSUME NEW i \in 1..Len(queue), NEW j \in 1..Len(input'), queue[i] > 0
        PROVE  queue[i] < input'[j].of
    BY <1>1, <2>1, <2>3 DEF IInv, InOrder, WasSent, NewerToCome
  <2> QED
    BY <1>3, <2>2, <2>3 DEF NewerToCome
<1>9. ASSUME reasons' = {} PROVE InPlace'
  <2>0. InPlace
    BY <1>3, <1>9 DEF IInv
  <2>1. input' # << >>
    BY <1>1, <1>2, EmptySeq
  <2>2. input # << >> =>
          /\ input'[1] = input[1]
          /\ input[1].of > 0 => input[1].of \in 1..Len(sent) /\ sent'[input[1].of] = sent[input[1].of]
    <3>1. ASSUME input # << >>
          PROVE  /\ 1 \in 1..Len(input)
                 /\ input[1].of > 0 => input[1].of \in 1..Len(sent)
      <4>1. 1 \in 1..Len(input)
        BY <1>1, <3>1, SMT
      <4>2. input[1].of \in Nat /\ input[1].of <= Len(sent)
        BY <1>0, <4>1, LineFacts DEF LineOK, Genuine
      <4> QED
        BY <1>1, <4>1, <4>2, SMT
    <3> QED
      BY <1>1, <3>1
  <2>3. input = << >> => input'[1] = Byte(Len(sent) + 1, 1)
    <3>1. Len(input) = 0 => Len(input) + 1 = 1
      BY SMT
    <3> QED
      BY <1>1, <1>2, <3>1, EmptySeq
  <2>4. PlaceKnown'
    <3>1. ASSUME thread = "type" PROVE input'[1].of > 0 /\ input'[1].place = 1
      <4>1. CASE input = << >>
        <5>1. Len(sent) + 1 > 0
          BY <1>1, SMT
        <5> QED
          BY <2>3, <4>1, <5>1, ByteFacts
      <4>2. CASE input # << >>
        BY <2>0, <2>2, <3>1, <4>2 DEF InPlace, PlaceKnown
      <4> QED
        BY <4>1, <4>2
    <3>2. ASSUME thread = "length"
          PROVE  input'[1].of > 0 /\ input'[1].place = 2 /\ event.kind = sent'[input'[1].of]
      BY <2>0, <2>2, <3>2 DEF InPlace, PlaceKnown
    <3>3. ASSUME thread = "payload" PROVE \E n \in 1..Len(sent') : InPayloadOf(n)'
      <4>1. PICK n \in 1..Len(sent) : InPayloadOf(n)
        BY <2>0, <3>3 DEF InPlace, PlaceKnown
      <4>2. sent'[n] = sent[n] /\ n \in 1..Len(sent')
        BY <1>1, <1>2
      <4>3. CASE PayloadLength[sent[n]] > 0
        BY <1>3, <2>1, <2>2, <4>1, <4>2, <4>3 DEF InPayloadOf
      <4>4. CASE ~ (PayloadLength[sent[n]] > 0)
        <5>1. input'[1] = Byte(n + 1, 1)
          BY <2>2, <2>3, <4>1, <4>4 DEF InPayloadOf
        <5> QED
          BY <1>3, <2>1, <4>1, <4>2, <4>4, <5>1 DEF InPayloadOf
      <4> QED
        BY <4>2, <4>3, <4>4
    <3> QED
      BY <1>3, <2>1, <3>1, <3>2, <3>3 DEF PlaceKnown
  <2>5. NoneSkipped'
    <3> SUFFICES ASSUME NEW n \in 1..Len(sent'), sent'[n] = "ext" PROVE Accounted(n)'
      BY DEF NoneSkipped
    <3>1. CASE n \in 1..Len(sent)
      <4>1. Accounted(n)
        BY <1>1, <2>0, <3>1 DEF InPlace, NoneSkipped
      <4> QED
        BY <1>1, <1>2, <1>3, <4>1 DEF Accounted
    <3>2. CASE n \notin 1..Len(sent)
      <4>1. n = Len(sent) + 1
        BY <1>1, <3>2, SMT
      <4>2. PayloadLength[kind] = 2
        BY <1>1, <4>1, LengthFacts
      <4>3. 4 \in 1..PayloadLength[kind] + 2 /\ Len(input) + 4 \in 1..Len(input')
        BY <1>1, <4>2, SMT
      <4>4. input'[Len(input) + 4] = Byte(n, 4)
        BY <1>1, <4>1, <4>3
      <4> QED
        BY <4>3, <4>4 DEF Accounted
    <3> QED
      BY <3>1, <3>2
  <2> QED
    BY <1>3, <2>0, <2>4, <2>5 DEF InPlace
<1> QED
  BY <1>4, <1>5, <1>6, <1>7, <1>8, <1>9 DEF IInv

LEMMA FaultBound ==
  ASSUME nFaults \in 0..MaxFaults,
         nFaults' = nFaults \/ (nFaults < MaxFaults /\ nFaults' = nFaults + 1),
         MaxFaults \in Nat
  PROVE  nFaults' \in 0..MaxFaults
BY SMT

LEMMA CallBound ==
  ASSUME nCalls \in 0..MaxCalls,
         nCalls' = nCalls \/ (nCalls < MaxCalls /\ nCalls' = nCalls + 1),
         MaxCalls \in Nat
  PROVE  nCalls' \in 0..MaxCalls
BY SMT

-----------------------------------------------------------------------------
(* What nothing of the reader's depends on.                                *)

LEMMA QuietKeeps ==
  ASSUME IInv, TypeOK',
         UNCHANGED <<sent, input, thread, run, event, queue, got, frames, reasons>>
  PROVE  IInv'
<1>1. Types' /\ LineOK'
  BY DEF IInv, Types, LineOK, Genuine, Contiguous, AnswerThere, Successor, Width, IsAA
<1>2. SyncOK'
  BY DEF IInv, SyncOK, AwaitedUpTo, IsAA
<1>3. InOrder' /\ NewerToCome'
  BY DEF IInv, InOrder, NewerToCome, WasSent
<1>4. reasons' = {} => InPlace'
  <2>1. PlaceKnown => PlaceKnown'
    BY DEF PlaceKnown, InPayloadOf
  <2>2. NoneSkipped => NoneSkipped'
    BY DEF NoneSkipped, Accounted
  <2> QED
    BY <2>1, <2>2 DEF IInv, InPlace
<1> QED
  BY <1>1, <1>2, <1>3, <1>4 DEF IInv

LEMMA QuietStep ==
  ASSUME IInv, Silence \/ Call \/ Clock \/ Check \/ Empty \/ UNCHANGED vars
  PROVE  IInv'
<1>0. TypeOK /\ nCalls \in Nat /\ nFaults \in Nat /\ nCalls \in 0..MaxCalls
  BY DEF IInv, Types, TypeOK
<1>1. CASE Silence
  <2>1. UNCHANGED <<sent, input, thread, run, event, queue, call, timed, passed, result, got,
                    frames, nCalls, reasons>> /\ nFaults < MaxFaults /\ nFaults' = nFaults + 1
    BY <1>1 DEF Silence, Fault, reader, caller
  <2>2. nFaults' \in 0..MaxFaults
    BY <1>0, <2>1, FaultBound DEF IInv, Types
  <2>3. TypeOK'
    BY <1>0, <2>1, <2>2 DEF TypeOK
  <2> QED
    BY <2>1, <2>3, QuietKeeps
<1>2. CASE Call \/ Clock \/ Check \/ Empty \/ UNCHANGED vars
  <2>1. UNCHANGED <<sent, input, thread, run, event, queue, got, frames, reasons, nFaults>>
    BY <1>2 DEF Call, Clock, Check, Empty, vars, reader, caller
  <2>2. nCalls' \in 0..MaxCalls
    <3>1. nCalls' = nCalls \/ (nCalls < MaxCalls /\ nCalls' = nCalls + 1)
      BY <1>2 DEF Call, Clock, Check, Empty, vars, caller
    <3> QED
      BY <1>0, <3>1, CallBound DEF IInv, Types
  <2>3. /\ call' \in {"out", "check", "wait"} /\ timed' \in BOOLEAN /\ passed' \in BOOLEAN
        /\ result' \in {"frame", "timeout", "Empty"}
    BY <1>0, <1>2 DEF Call, Clock, Check, Empty, Return, vars, caller, TypeOK
  <2>4. TypeOK'
    BY <1>0, <2>1, <2>2, <2>3 DEF TypeOK
  <2> QED
    BY <2>1, <2>4, QuietKeeps
<1> QED
  BY <1>1, <1>2

-----------------------------------------------------------------------------
(* The reader reads.                                                       *)

LEMMA InputShrinks ==
  ASSUME IInv, NEW n \in 0..Len(input), Drop(n), UNCHANGED <<sent, frames, queue>>
  PROVE  LineOK' /\ InOrder' /\ NewerToCome' /\ input' \in Seq(InputByte)
<1>0. Types /\ LineOK
  BY DEF IInv
<1>1. LineOK' /\ input' \in Seq(InputByte)
  BY <1>0, DropKeeps, DropFacts
<1>2. InOrder'
  BY DEF IInv, InOrder, WasSent
<1>3. \A i \in 1..Len(input') : i + n \in 1..Len(input) /\ input'[i] = input[i + n]
  BY <1>0, DropFacts
<1>4. NewerToCome'
  BY <1>3 DEF IInv, NewerToCome
<1> QED
  BY <1>1, <1>2, <1>4

\* An event that is read is typed, whatever has become of the rest.
LEMMA StepTypes ==
  ASSUME IInv, UNCHANGED <<sent, got, frames, call, timed, passed, result, nCalls>>,
         thread' \in {"sync", "type", "length", "payload", "dead", "failed"},
         run' \in 0..SYNC_LENGTH, event' \in [kind : Kind, length : 0..3],
         nFaults' = nFaults \/ (nFaults < MaxFaults /\ nFaults' = nFaults + 1),
         input' \in Seq(InputByte), queue' \in Seq(Int),
         \A i \in 1..Len(queue') : queue'[i] \in -1..Len(sent)
  PROVE  Types'
<1>1. nFaults \in 0..MaxFaults
  BY DEF IInv, Types, TypeOK
<1>2. nFaults' \in 0..MaxFaults
  BY <1>1, FaultBound DEF IInv, Types
<1>3. DOMAIN queue' = 1..Len(queue')
  BY LenProperties
<1>4. TypeOK'
  BY <1>2, <1>3 DEF IInv, Types, TypeOK
<1> QED
  BY <1>4 DEF IInv, Types

LEMMA PayloadBytes ==
  ASSUME Types, NEW n \in 1..Len(sent), sent[n] = "ext"
  PROVE  /\ Payload(n) \in Seq(InputByte) /\ Len(Payload(n)) = 2
         /\ Payload(n)[1] = Byte(n, 3) /\ Payload(n)[2] = Byte(n, 4)
<1> DEFINE w == Wire(n, "ext")
<1>1. n \in Nat
  BY LineFacts, SMT
<1>2. /\ w \in Seq(InputByte) /\ Len(w) = PayloadLength["ext"] + 2
      /\ \A i \in 1..PayloadLength["ext"] + 2 : w[i] = Byte(n, i)
  BY <1>1, LengthFacts, WireBytes
<1>3. /\ PayloadLength["ext"] + 2 = 4 /\ 3 \in Nat \ {0} /\ 4 \in Nat /\ 3 <= 4 + 1 /\ 4 <= Len(w)
      /\ 3 \in 1..4 /\ 4 \in 1..4 /\ 1 \in 1..(4 - 3 + 1) /\ 2 \in 1..(4 - 3 + 1)
      /\ 3 + 1 - 1 = 3 /\ 3 + 2 - 1 = 4 /\ 4 - 3 + 1 = 2
  BY <1>2, LengthFacts, SMT
<1> HIDE DEF w
<1>4. /\ SubSeq(w, 3, 4) \in Seq(InputByte) /\ Len(SubSeq(w, 3, 4)) = 4 - 3 + 1
      /\ \A i \in 1..(4 - 3 + 1) : SubSeq(w, 3, 4)[i] = w[3 + i - 1]
  BY <1>2, <1>3, Part
<1>5. Payload(n) = SubSeq(w, 3, 4)
  BY <1>3 DEF Payload, w
<1> QED
  BY <1>2, <1>3, <1>4, <1>5

\* Bytes that are the payload of a frame have that for their origin.
LEMMA OriginFacts ==
  ASSUME Types, NEW bytes \in Seq(InputByte),
         \A i \in 1..Len(bytes) : bytes[i].of <= Len(sent)
  PROVE  /\ Origin(bytes) \in 0..Len(sent)
         /\ Origin(bytes) > 0 =>
              WasSent(Origin(bytes)) /\ bytes = Payload(Origin(bytes))
         /\ \A n \in 1..Len(sent) :
              sent[n] = "ext" /\ bytes = Payload(n) => Origin(bytes) = n
<1>0. Len(sent) \in Nat /\ 0 \in 0..Len(sent) /\ ~ (0 > 0)
  BY LineFacts, SMT
<1>1. CASE bytes = << >>
  <2>1. Origin(bytes) = 0
    BY <1>1, <1>0 DEF Origin
  <2>2. \A n \in 1..Len(sent) : sent[n] = "ext" => Payload(n) # << >>
    <3>1. Len(<< >>) # 2
      BY EmptySeq, SMT
    <3> QED
      BY <3>1, PayloadBytes
  <2> QED
    BY <1>0, <1>1, <2>1, <2>2
<1>2. CASE bytes # << >>
  <2> DEFINE h == Head(bytes).of
  <2>1. Len(bytes) \in Nat /\ Len(bytes) > 0 /\ 1 \in 1..Len(bytes) /\ Head(bytes) = bytes[1]
    <3>1. Len(bytes) \in Nat /\ Len(bytes) # 0
      BY <1>2, LenProperties, EmptySeq
    <3>2. Head(bytes) = bytes[1]
      BY <1>2, HeadTailProperties
    <3> QED
      BY <3>1, <3>2, SMT
  <2>2. h \in Nat /\ h <= Len(sent)
    <3>1. bytes[1] \in InputByte
      BY <2>1, ElementOfSeq
    <3> QED
      BY <2>1, <3>1, ByteFacts
  <2>3. Origin(bytes) = IF h > 0 /\ sent[h] = "ext" /\ bytes = Payload(h) THEN h ELSE 0
    BY <1>2 DEF Origin
  <2> HIDE DEF h
  <2>4. h \in 0..Len(sent) /\ (h > 0 => h \in 1..Len(sent))
    BY <1>0, <2>2, SMT
  <2>5. ASSUME NEW n \in 1..Len(sent), sent[n] = "ext", bytes = Payload(n)
        PROVE  Origin(bytes) = n
    <3>1. bytes[1] = Byte(n, 3) /\ n > 0
      BY <2>5, PayloadBytes, SMT
    <3>2. h = n
      BY <2>1, <3>1, ByteFacts DEF h
    <3> QED
      BY <2>3, <2>5, <3>1, <3>2
  <2> QED
    BY <1>0, <2>3, <2>4, <2>5 DEF WasSent
<1> QED
  BY <1>1, <1>2

\* What Parse takes.
LEMMA TakenFacts ==
  ASSUME IInv, NEW n \in 0..Len(input)
  PROVE  /\ SubSeq(input, 1, n) \in Seq(InputByte) /\ Len(SubSeq(input, 1, n)) = n
         /\ DOMAIN SubSeq(input, 1, n) = 1..n
         /\ \A i \in 1..n : SubSeq(input, 1, n)[i] = input[i] /\ i \in 1..Len(input)
         /\ Origin(SubSeq(input, 1, n)) \in 0..Len(sent)
         /\ Origin(SubSeq(input, 1, n)) > 0 =>
              /\ WasSent(Origin(SubSeq(input, 1, n)))
              /\ SubSeq(input, 1, n) = Payload(Origin(SubSeq(input, 1, n)))
<1> DEFINE bytes == SubSeq(input, 1, n)
<1>0. Types /\ LineOK
  BY DEF IInv
<1>1. /\ input \in Seq(InputByte) /\ 1 \in Nat \ {0} /\ n \in Nat /\ 1 <= n + 1 /\ n <= Len(input)
      /\ n - 1 + 1 = n
      /\ \A i \in 1..n : 1 + i - 1 = i /\ i \in 1..Len(input)
  <2>1. Len(input) \in Nat
    BY <1>0, LineFacts
  <2> QED
    BY <1>0, <2>1, SMT DEF Types
<1>2. /\ bytes \in Seq(InputByte) /\ Len(bytes) = n - 1 + 1
      /\ \A i \in 1..(n - 1 + 1) : bytes[i] = input[1 + i - 1]
  BY <1>1, Part
<1> HIDE DEF bytes
<1>3. Len(bytes) = n /\ \A i \in 1..n : bytes[i] = input[i] /\ i \in 1..Len(input)
  BY <1>1, <1>2
<1>4. \A i \in 1..Len(bytes) : bytes[i].of <= Len(sent)
  BY <1>0, <1>3 DEF LineOK, Genuine
<1>5. /\ Origin(bytes) \in 0..Len(sent)
      /\ Origin(bytes) > 0 =>
           WasSent(Origin(bytes)) /\ bytes = Payload(Origin(bytes))
  BY <1>0, <1>2, <1>4, OriginFacts
<1>6. DOMAIN bytes = 1..n
  BY <1>2, <1>3, LenProperties
<1> QED
  BY <1>2, <1>3, <1>5, <1>6 DEF bytes

\* The bytes behind a payload that was a frame are of newer events.
LEMMA FrameCutOff ==
  ASSUME IInv, NEW n \in 0..Len(input), Drop(n),
         Origin(SubSeq(input, 1, n)) > 0
  PROVE  /\ n = 2
         /\ input[1] = Byte(Origin(SubSeq(input, 1, n)), 3)
         /\ input[2] = Byte(Origin(SubSeq(input, 1, n)), 4)
         /\ \A j \in 1..Len(input') : Origin(SubSeq(input, 1, n)) < input'[j].of
<1> DEFINE k == Origin(SubSeq(input, 1, n))
<1>0. Types /\ LineOK /\ Len(input) \in Nat /\ Len(sent) \in Nat
  BY LineFacts DEF IInv
<1>1. WasSent(k) /\ SubSeq(input, 1, n) = Payload(k) /\ Len(SubSeq(input, 1, n)) = n
  BY TakenFacts
<1> HIDE DEF k
<1>2. k \in 1..Len(sent) /\ sent[k] = "ext" /\ k \in Nat /\ k > 0 /\ k < k + 1
  BY <1>0, <1>1, SMT DEF WasSent
<1>3. n = 2 /\ input[1] = Byte(k, 3) /\ input[2] = Byte(k, 4)
  <2>1. n = 2
    BY <1>0, <1>1, <1>2, PayloadBytes
  <2>2. 1 \in 1..n /\ 2 \in 1..n
    BY <2>1, SMT
  <2>3. SubSeq(input, 1, n)[1] = input[1] /\ SubSeq(input, 1, n)[2] = input[2]
    BY <2>2, TakenFacts
  <2> QED
    BY <1>0, <1>1, <1>2, <2>1, <2>3, PayloadBytes
<1>4. ASSUME NEW j \in 1..Len(input') PROVE k < input'[j].of
  <2>1. j + n \in 1..Len(input) /\ input'[j] = input[j + n]
    BY <1>0, DropFacts
  <2>2. /\ 2 \in 1..Len(input) - 1 /\ 3 \in 1..Len(input) /\ 3 <= j + n
        /\ j + n \in 1..Len(input)
    BY <1>0, <1>3, <2>1, SMT
  <2>3. Successor(sent, input[2], input[2 + 1])
    BY <1>0, <2>2 DEF LineOK, Contiguous
  <2>4. ~ (4 < Width(sent, k))
    BY <1>2, LengthFacts, SMT DEF Width
  <2>5. input[3] = Byte(k + 1, 1)
    <3>1. input[2].of = k /\ input[2].place = 4
      BY <1>3, ByteFacts
    <3> QED
      BY <1>2, <2>3, <2>4, <3>1 DEF Successor
  <2>6. input[3].of = k + 1
    BY <2>5, ByteFacts
  <2>7. k + 1 <= input[j + n].of /\ input[j + n].of \in Nat
    BY <1>0, <2>2, <2>6, LineFacts DEF LineOK, Contiguous
  <2> QED
    BY <1>2, <2>1, <2>7, SMT
<1> QED
  BY <1>3, <1>4 DEF k

LEMMA ParseKeeps ==
  ASSUME IInv, NEW n \in 0..Len(input), Parse(SubSeq(input, 1, n)), Drop(n),
         UNCHANGED <<sent, frames>>
  PROVE  /\ queue' \in Seq(Int)
         /\ \A i \in 1..Len(queue') : queue'[i] \in -1..Len(sent)
         /\ LineOK' /\ InOrder' /\ NewerToCome' /\ input' \in Seq(InputByte)
         /\ thread' \in {"type", "dead"}
<1>0. /\ Types /\ LineOK /\ queue \in Seq(Int) /\ Len(queue) \in Nat
      /\ Len(sent) \in Nat
      /\ \A i \in 1..Len(queue) : queue[i] \in -1..Len(sent) /\ queue[i] \in Int
      /\ \A i \in 1..Len(frames) : frames[i] \in Int
  BY QueueFacts, LineFacts DEF IInv, Types
<1>1. LineOK' /\ input' \in Seq(InputByte)
  BY <1>0, DropKeeps, DropFacts
<1>2. CASE queue' = queue
  <2>1. thread' \in {"type", "dead"}
    BY DEF Parse
  <2> QED
    BY <1>0, <1>2, <2>1, InputShrinks
<1>3. CASE queue' # queue
  <2> DEFINE k == Origin(SubSeq(input, 1, n))
  <2>1. PICK new \in {k, -1} : queue' = Append(queue, new) /\ thread' = "type"
    BY <1>3 DEF Parse
  <2>2. /\ k \in 0..Len(sent) /\ new \in -1..Len(sent) /\ new \in Int
        /\ new > 0 => new = k /\ WasSent(new)
    <3>1. k \in 0..Len(sent) /\ (k > 0 => WasSent(k))
      BY TakenFacts
    <3> HIDE DEF k
    <3> QED
      BY <1>0, <3>1, SMT
  <2>3. new > 0 => /\ \A j \in 1..Len(input') : new < input'[j].of
                   /\ 1 \in 1..Len(input) /\ input[1].of = new
    <3>1. ASSUME new > 0 PROVE /\ \A j \in 1..Len(input') : new < input'[j].of
                               /\ 1 \in 1..Len(input) /\ input[1].of = new
      <4>1. /\ n = 2 /\ input[1] = Byte(new, 3)
            /\ \A j \in 1..Len(input') : new < input'[j].of
        BY <2>2, <3>1, FrameCutOff
      <4>2. 1 \in 1..Len(input)
        BY <1>0, <4>1, LineFacts, SMT
      <4> QED
        BY <4>1, <4>2, ByteFacts
    <3> QED
      BY <3>1
  <2> HIDE DEF k
  <2>4. /\ queue' \in Seq(Int) /\ Len(queue') = Len(queue) + 1
        /\ \A i \in 1..Len(queue) : queue'[i] = queue[i]
        /\ queue'[Len(queue) + 1] = new
    BY <1>0, <2>1, <2>2, AppendProperties
  <2>5. \A i \in 1..Len(queue') : i \in 1..Len(queue) \/ (i = Len(queue) + 1 /\ queue'[i] = new)
    <3>1. \A i \in 1..Len(queue') : i \in 1..Len(queue) \/ i = Len(queue) + 1
      BY <1>0, <2>4, SMT
    <3> QED
      BY <2>4, <3>1
  <2>6. \A i \in 1..Len(queue') : queue'[i] \in -1..Len(sent)
    BY <1>0, <2>2, <2>4, <2>5
  <2>7. /\ new > 0 => \A i \in 1..Len(frames) : frames[i] < new
        /\ new > 0 => \A i \in 1..Len(queue) : queue[i] > 0 => queue[i] < new
    BY <2>3 DEF IInv, NewerToCome
  <2>8. InOrder'
    <3>1. /\ \A i \in 1..Len(queue') : queue'[i] > 0 => WasSent(queue'[i])
          /\ \A i \in 1..Len(frames), j \in 1..Len(queue') : queue'[j] > 0 => frames[i] < queue'[j]
      BY <2>2, <2>4, <2>5, <2>7 DEF IInv, InOrder
    <3>2. ASSUME NEW i \in 1..Len(queue'), NEW j \in 1..Len(queue'), i < j,
                 queue'[i] > 0, queue'[j] > 0
          PROVE  queue'[i] < queue'[j]
      <4>1. i \in 1..Len(queue)
        BY <1>0, <2>4, <3>2, SMT
      <4> QED
        BY <2>4, <2>5, <2>7, <3>2, <4>1 DEF IInv, InOrder
    <3> QED
      BY <3>1, <3>2 DEF IInv, InOrder, WasSent
  <2>9. NewerToCome'
    <3>1. \A i \in 1..Len(input') : i + n \in 1..Len(input) /\ input'[i] = input[i + n]
      BY <1>0, DropFacts
    <3>2. \A i \in 1..Len(frames), j \in 1..Len(input') : frames[i] < input'[j].of
      BY <3>1 DEF IInv, NewerToCome
    <3>3. \A i \in 1..Len(queue'), j \in 1..Len(input') : queue'[i] > 0 => queue'[i] < input'[j].of
      BY <2>3, <2>4, <2>5, <3>1 DEF IInv, NewerToCome
    <3> QED
      BY <3>2, <3>3 DEF NewerToCome
  <2> QED
    BY <1>1, <2>1, <2>4, <2>6, <2>8, <2>9
<1> QED
  BY <1>2, <1>3

LEMMA HeadOfInput ==
  ASSUME Types, input # << >>
  PROVE  /\ Head(input) = input[1] /\ 1 \in 1..Len(input) /\ 1 \in 0..Len(input)
         /\ Len(input) \in Nat /\ Len(input) > 0
         /\ input[1] \in InputByte /\ input[1].of \in Nat /\ input[1].place \in Nat
<1>1. Len(input) \in Nat /\ Len(input) > 0
  BY LineFacts
<1>2. 1 \in 1..Len(input) /\ 1 \in 0..Len(input)
  BY <1>1, SMT
<1>3. Head(input) = input[1]
  BY HeadTailProperties DEF Types
<1> QED
  BY <1>1, <1>2, <1>3, LineFacts

\* Where the first byte of the rest is from, if the reader was in its place.
LEMMA NextByte ==
  ASSUME IInv, NEW n \in 0..Len(input), Drop(n), n > 0, input' # << >>
  PROVE  Successor(sent, input[n], input'[1]) /\ input'[1] \in InputByte
<1>0. Types /\ LineOK /\ Len(input) \in Nat
  BY LineFacts DEF IInv
<1>1. /\ n < Len(input) /\ Len(input') = Len(input) - n
      /\ \A i \in 1..Len(input') : i + n \in 1..Len(input) /\ input'[i] = input[i + n]
  BY <1>0, DropFacts
<1>2. 1 \in 1..Len(input') /\ n \in 1..Len(input) - 1 /\ 1 + n = n + 1
  BY <1>0, <1>1, SMT
<1>3. input'[1] = input[n + 1] /\ n + 1 \in 1..Len(input)
  BY <1>1, <1>2
<1> QED
  BY <1>0, <1>2, <1>3, LineFacts DEF LineOK, Contiguous

\* No frame is skipped by reading bytes that end none.
LEMMA SkipsNone ==
  ASSUME IInv, NoneSkipped, NEW n \in 0..Len(input), Drop(n), UNCHANGED <<sent, frames, queue>>,
         \A i \in 1..n, m \in 1..Len(sent) : sent[m] = "ext" => input[i] # Byte(m, 4)
  PROVE  NoneSkipped'
<1>0. Types /\ Len(input) \in Nat
  BY LineFacts DEF IInv
<1>1. /\ Len(input') = Len(input) - n
      /\ \A i \in 1..Len(input') : i + n \in 1..Len(input) /\ input'[i] = input[i + n]
  BY <1>0, DropFacts
<1> SUFFICES ASSUME NEW m \in 1..Len(sent), sent[m] = "ext" PROVE Accounted(m)'
  BY DEF NoneSkipped
<1>2. Accounted(m)
  BY DEF NoneSkipped
<1>3. ASSUME NEW i \in 1..Len(input), input[i] = Byte(m, 4)
      PROVE  \E j \in 1..Len(input') : input'[j] = Byte(m, 4)
  <2>1. i \notin 1..n
    BY <1>3
  <2>2. i - n \in 1..Len(input') /\ i - n + n = i
    BY <1>0, <1>1, <2>1, SMT
  <2>3. input'[i - n] = input[i]
    BY <1>1, <2>2
  <2> QED
    BY <1>3, <2>2, <2>3
<1> QED
  BY <1>2, <1>3 DEF Accounted

LEMMA TypeStep ==
  ASSUME IInv, ReadType
  PROVE  IInv'
<1>0. Types /\ LineOK
  BY DEF IInv
<1>1. /\ thread = "type" /\ input # << >> /\ Drop(1) /\ thread' = "length"
      /\ UNCHANGED <<sent, run, queue, nFaults, reasons>>
      /\ UNCHANGED <<call, timed, passed, result, got, frames, nCalls>>
  BY DEF ReadType, caller
<1>2. PICK kind \in KindsOf(Head(input)) : event' = [kind |-> kind, length |-> 0]
  BY DEF ReadType
<1>3. /\ Head(input) = input[1] /\ 1 \in 1..Len(input) /\ 1 \in 0..Len(input)
      /\ input[1] \in InputByte /\ input[1].of \in Nat /\ Len(sent) \in Nat
      /\ Len(input) \in Nat /\ Len(input) > 0
  BY <1>0, <1>1, HeadOfInput, LineFacts
<1>4. input[1].of > 0 => input[1].of \in 1..Len(sent)
  <2>1. input[1].of <= Len(sent)
    BY <1>0, <1>3 DEF LineOK, Genuine
  <2> QED
    BY <1>3, <2>1, SMT
<1>5. kind \in Kind
  <2>1. KindsOf(input[1]) \subseteq Kind
    BY <1>0, <1>4, LineFacts DEF KindsOf, Kind
  <2> QED
    BY <1>2, <1>3, <2>1
<1>6. LineOK' /\ InOrder' /\ NewerToCome' /\ input' \in Seq(InputByte)
  BY <1>1, <1>3, InputShrinks
<1>7. Types'
  <2>1. event' \in [kind : Kind, length : 0..3]
    <3>1. 0 \in 0..3
      BY SMT
    <3> QED
      BY <1>2, <1>5, <3>1
  <2> QED
    BY <1>0, <1>1, <1>6, <2>1, QueueFacts, StepTypes DEF Types, TypeOK
<1>8. SyncOK'
  BY <1>1 DEF SyncOK
<1>9. ASSUME reasons' = {} PROVE InPlace'
  <2>1. InPlace
    BY <1>1, <1>9 DEF IInv
  <2>2. input[1].of > 0 /\ input[1].place = 1
    BY <1>1, <2>1 DEF InPlace, PlaceKnown
  <2>3. kind = sent[input[1].of]
    BY <1>2, <1>3, <2>2 DEF KindsOf
  <2>4. input' # << >>
    <3> SUFFICES ASSUME input' = << >> PROVE FALSE
      OBVIOUS
    <3>1. Len(input) = 1
      <4>1. ~ (1 < Len(input))
        BY <1>0, <1>1, <1>3, DropFacts
      <4>2. Len(input) \in Nat /\ Len(input) > 0
        BY <1>3
      <4>3. \A k \in Nat : k > 0 /\ ~ (1 < k) => k = 1
        BY SMT
      <4> QED
        BY <4>1, <4>2, <4>3
    <3>2. input[1].of = Len(sent) /\ input[1].place = Width(sent, Len(sent))
      BY <1>0, <1>1, <2>2, <3>1 DEF LineOK, Genuine
    <3>3. Width(sent, Len(sent)) \in 2..4
      BY <1>0, <1>4, <2>2, <3>2, LineFacts
    <3> QED
      BY <2>2, <3>2, <3>3, SMT
  <2>5. input'[1] = Byte(input[1].of, 2)
    <3>1. Successor(sent, input[1], input'[1])
      <4>1. 1 > 0
        BY SMT
      <4> QED
        BY <1>1, <1>3, <2>4, <4>1, NextByte
    <3>2. 1 < Width(sent, input[1].of) /\ 1 + 1 = 2
      <4>1. Width(sent, input[1].of) \in 2..4
        BY <1>0, <1>4, <2>2, LineFacts
      <4> QED
        BY <4>1, SMT
    <3> QED
      BY <2>2, <3>1, <3>2 DEF Successor
  <2>6. PlaceKnown'
    <3>1. input'[1].of = input[1].of /\ input'[1].place = 2
      BY <2>5, ByteFacts
    <3> QED
      BY <1>1, <1>2, <2>2, <2>3, <2>4, <3>1 DEF PlaceKnown
  <2>7. NoneSkipped'
    <3>1. \A i \in 1..1, m \in 1..Len(sent) : input[i] # Byte(m, 4)
      <4>1. \A i \in 1..1 : i = 1
        BY SMT
      <4>2. \A m : input[1] # Byte(m, 4)
        BY <2>2, ByteFacts
      <4> QED
        BY <4>1, <4>2
    <3> QED
      BY <1>1, <1>3, <2>1, <3>1, SkipsNone DEF InPlace
  <2> QED
    BY <1>1, <2>1, <2>6, <2>7 DEF InPlace
<1> QED
  BY <1>6, <1>7, <1>8, <1>9 DEF IInv

LEMMA LengthStep ==
  ASSUME IInv, ReadLength
  PROVE  IInv'
<1>0. Types /\ LineOK
  BY DEF IInv
<1>1. /\ thread = "length" /\ input # << >> /\ Drop(1) /\ thread' = "payload"
      /\ UNCHANGED <<sent, run, queue, nFaults, reasons>>
      /\ UNCHANGED <<call, timed, passed, result, got, frames, nCalls>>
  BY DEF ReadLength, caller
<1>2. PICK length \in LengthsOf(Head(input)) : event' = [event EXCEPT !.length = length]
  BY DEF ReadLength
<1>3. /\ Head(input) = input[1] /\ 1 \in 1..Len(input) /\ 1 \in 0..Len(input)
      /\ input[1] \in InputByte /\ input[1].of \in Nat /\ Len(sent) \in Nat
      /\ Len(input) \in Nat /\ Len(input) > 0
  BY <1>0, <1>1, HeadOfInput, LineFacts
<1>4. input[1].of > 0 => input[1].of \in 1..Len(sent)
  <2>1. input[1].of <= Len(sent)
    BY <1>0, <1>3 DEF LineOK, Genuine
  <2> QED
    BY <1>3, <2>1, SMT
<1>5. length \in 0..3
  <2>1. ASSUME input[1].of > 0 PROVE PayloadLength[sent[input[1].of]] \in 0..3
    <3>1. PayloadLength[sent[input[1].of]] \in 0..2
      BY <1>0, <1>4, <2>1, LengthFacts, LineFacts
    <3> QED
      BY <3>1, SMT
  <2> QED
    BY <1>2, <1>3, <2>1 DEF LengthsOf
<1>6. LineOK' /\ InOrder' /\ NewerToCome' /\ input' \in Seq(InputByte)
  BY <1>1, <1>3, InputShrinks
<1>7. event \in [kind : Kind, length : 0..3] /\ event'.kind = event.kind /\ event'.length = length
      /\ event' = [kind |-> event.kind, length |-> length]
  BY <1>0, <1>2 DEF Types, TypeOK
<1>8. Types'
  <2>1. event' \in [kind : Kind, length : 0..3]
    BY <1>5, <1>7
  <2> QED
    BY <1>0, <1>1, <1>6, <2>1, QueueFacts, StepTypes DEF Types, TypeOK
<1>9. SyncOK'
  BY <1>1 DEF SyncOK
<1>10. ASSUME reasons' = {} PROVE InPlace'
  <2>0. PICK n \in Nat : n = input[1].of
    BY <1>3
  <2>1. InPlace
    BY <1>1, <1>10 DEF IInv
  <2>2. n > 0 /\ input[1].place = 2 /\ event.kind = sent[n]
    BY <2>0, <1>1, <2>1 DEF InPlace, PlaceKnown
  <2>3. /\ n \in 1..Len(sent) /\ PayloadLength[sent[n]] \in 0..2
        /\ Width(sent, n) = PayloadLength[sent[n]] + 2
    BY <2>0, <1>0, <1>4, <2>2, LengthFacts, LineFacts DEF Width
  <2>4. event' = [kind |-> sent[n], length |-> PayloadLength[sent[n]]]
    <3>1. length = PayloadLength[sent[n]]
      BY <2>0, <1>2, <1>3, <2>2 DEF LengthsOf
    <3> QED
      BY <1>7, <2>2, <3>1
  <2>5. input' # << >> =>
          input'[1] = IF PayloadLength[sent[n]] > 0 THEN Byte(n, 3) ELSE Byte(n + 1, 1)
    <3> SUFFICES ASSUME input' # << >>
                 PROVE  input'[1] = IF PayloadLength[sent[n]] > 0 THEN Byte(n, 3) ELSE Byte(n + 1, 1)
      OBVIOUS
    <3>1. Successor(sent, input[1], input'[1])
      <4>1. 1 > 0
        BY SMT
      <4> QED
        BY <1>1, <1>3, <4>1, NextByte
    <3>2. (2 < Width(sent, n) <=> PayloadLength[sent[n]] > 0) /\ 2 + 1 = 3 /\ n # 0
      BY <2>2, <2>3, SMT
    <3> QED
      BY <2>0, <2>2, <3>1, <3>2 DEF Successor
  <2>6. input' = << >> => n = Len(sent) /\ ~ (PayloadLength[sent[n]] > 0)
    <3> SUFFICES ASSUME input' = << >> PROVE n = Len(sent) /\ ~ (PayloadLength[sent[n]] > 0)
      OBVIOUS
    <3>1. Len(input) = 1
      <4>1. ~ (1 < Len(input))
        BY <1>0, <1>1, <1>3, DropFacts
      <4>2. Len(input) \in Nat /\ Len(input) > 0
        BY <1>3
      <4>3. \A k \in Nat : k > 0 /\ ~ (1 < k) => k = 1
        BY SMT
      <4> QED
        BY <4>1, <4>2, <4>3
    <3>2. n = Len(sent) /\ 2 = Width(sent, n)
      BY <2>0, <1>0, <1>1, <2>2, <3>1 DEF LineOK, Genuine
    <3> QED
      BY <2>3, <3>2, SMT
  <2>7. InPayloadOf(n)'
    <3>1. CASE PayloadLength[sent[n]] > 0
      BY <1>1, <2>4, <2>5, <2>6, <3>1 DEF InPayloadOf
    <3>2. CASE ~ (PayloadLength[sent[n]] > 0)
      BY <1>1, <2>4, <2>5, <2>6, <3>2 DEF InPayloadOf
    <3> QED
      BY <3>1, <3>2
  <2>8. PlaceKnown'
    BY <1>1, <2>3, <2>7 DEF PlaceKnown
  <2>9. NoneSkipped'
    <3>1. \A i \in 1..1, m \in 1..Len(sent) : input[i] # Byte(m, 4)
      <4>1. \A i \in 1..1 : i = 1
        BY SMT
      <4>2. \A m : input[1] # Byte(m, 4)
        BY <2>0, <2>2, ByteFacts
      <4> QED
        BY <4>1, <4>2
    <3> QED
      BY <1>1, <1>3, <2>1, <3>1, SkipsNone DEF InPlace
  <2> QED
    BY <1>1, <2>1, <2>8, <2>9 DEF InPlace
<1> QED
  BY <1>6, <1>8, <1>9, <1>10 DEF IInv

\* One byte of what comes before the events: the answer is still awaited.
LEMMA StillAwaited ==
  ASSUME Types, SYNC_LENGTH \in Nat \ {0}, run \in Nat, run < SYNC_LENGTH, Drop(1),
         NEW seen, seen = IF IsAA(input[1]) THEN run + 1 ELSE 0,
         run' = seen, seen # SYNC_LENGTH,
         NEW c \in 1..Len(input), AwaitedUpTo(c)
  PROVE  c - 1 \in 1..Len(input') /\ AwaitedUpTo(c - 1)' /\ run' < SYNC_LENGTH
<1>0. /\ Len(input) \in Nat /\ SYNC_LENGTH \in Nat /\ SYNC_LENGTH > 0 /\ c \in Nat /\ c >= 1
      /\ 1 \in 0..Len(input) /\ c <= Len(input)
  BY LineFacts, SMT
<1>1. /\ Len(input') = Len(input) - 1 /\ Len(input') \in Nat
      /\ \A i \in 1..Len(input') : i + 1 \in 1..Len(input) /\ input'[i] = input[i + 1]
  BY <1>0, DropFacts
<1>2. seen < SYNC_LENGTH /\ seen \in Nat
  BY <1>0, SMT
<1>3. \/ c > SYNC_LENGTH /\ \A i \in c - SYNC_LENGTH + 1..c : IsAA(input[i])
      \/ run + c >= SYNC_LENGTH /\ \A i \in 1..c : IsAA(input[i])
  <2>1. CASE c >= SYNC_LENGTH /\ \A i \in c - SYNC_LENGTH + 1..c : IsAA(input[i])
    <3>1. CASE c = SYNC_LENGTH
      <4>1. c - SYNC_LENGTH + 1 = 1 /\ run + c >= SYNC_LENGTH
        BY <1>0, <3>1, SMT
      <4> QED
        BY <2>1, <4>1
    <3>2. CASE c # SYNC_LENGTH
      <4>1. c > SYNC_LENGTH
        BY <1>0, <2>1, <3>2, SMT
      <4> QED
        BY <2>1, <4>1
    <3> QED
      BY <3>1, <3>2
  <2> QED
    BY <2>1 DEF AwaitedUpTo
<1>4. c - 1 \in 1..Len(input')
  <2>1. CASE c > SYNC_LENGTH
    BY <1>0, <1>1, <2>1, SMT
  <2>2. CASE run + c >= SYNC_LENGTH /\ \A i \in 1..c : IsAA(input[i])
    <3>1. 1 \in 1..c
      BY <1>0, SMT
    <3>2. seen = run + 1
      BY <2>2, <3>1
    <3> QED
      BY <1>0, <1>1, <1>2, <2>2, <3>2, SMT
  <2> QED
    BY <1>3, <2>1, <2>2
<1>5. \A i \in 1..c - 1 : i + 1 \in 1..c /\ i \in 1..Len(input')
  BY <1>0, <1>1, <1>4, SMT
<1>6. \A i \in 1..c - 1 : input'[i] = input[i + 1] /\ input'[i].of = 0
  BY <1>1, <1>5 DEF AwaitedUpTo
<1>7. c - 1 # Len(input') => input'[c - 1 + 1].of > 0
  <2> SUFFICES ASSUME c - 1 # Len(input') PROVE input'[c - 1 + 1].of > 0
    OBVIOUS
  <2>1. c - 1 + 1 = c /\ c \in 1..Len(input') /\ c # Len(input)
    BY <1>0, <1>1, <1>4, SMT
  <2> QED
    BY <1>1, <2>1 DEF AwaitedUpTo
<1>8. \/ c - 1 >= SYNC_LENGTH /\ \A i \in c - 1 - SYNC_LENGTH + 1..c - 1 : IsAA(input'[i])
      \/ run' + (c - 1) >= SYNC_LENGTH /\ \A i \in 1..c - 1 : IsAA(input'[i])
  <2>1. CASE c > SYNC_LENGTH /\ \A i \in c - SYNC_LENGTH + 1..c : IsAA(input[i])
    <3>1. \A i \in c - 1 - SYNC_LENGTH + 1..c - 1 :
            i + 1 \in c - SYNC_LENGTH + 1..c /\ i \in 1..c - 1
      BY <1>0, <2>1, SMT
    <3>2. c - 1 >= SYNC_LENGTH
      BY <1>0, <2>1, SMT
    <3>3. \A i \in c - 1 - SYNC_LENGTH + 1..c - 1 : IsAA(input'[i])
      BY <1>6, <2>1, <3>1
    <3> QED
      BY <3>2, <3>3
  <2>2. CASE run + c >= SYNC_LENGTH /\ \A i \in 1..c : IsAA(input[i])
    <3>1. 1 \in 1..c
      BY <1>0, SMT
    <3>2. seen = run + 1
      BY <2>2, <3>1
    <3>3. seen + (c - 1) >= SYNC_LENGTH
      BY <1>0, <2>2, <3>2, SMT
    <3>4. \A i \in 1..c - 1 : IsAA(input'[i])
      BY <1>5, <1>6, <2>2
    <3> QED
      BY <3>3, <3>4
  <2> QED
    BY <1>3, <2>1, <2>2
<1>9. AwaitedUpTo(c - 1)'
  <2>1. /\ \A i \in 1..(c - 1) : input'[i].of = 0
        /\ (c - 1) # Len(input') => input'[(c - 1) + 1].of > 0
        /\ \/ (c - 1) >= SYNC_LENGTH /\ \A i \in (c - 1) - SYNC_LENGTH + 1..(c - 1) : IsAA(input'[i])
           \/ run' + (c - 1) >= SYNC_LENGTH /\ \A i \in 1..(c - 1) : IsAA(input'[i])
    BY <1>6, <1>7, <1>8
  <2> QED
    BY <2>1 DEF AwaitedUpTo, IsAA
<1> QED
  BY <1>2, <1>4, <1>9

LEMMA SyncStep ==
  ASSUME IInv, ReadSync
  PROVE  IInv'
<1>0. Types /\ LineOK /\ SYNC_LENGTH \in Nat \ {0}
  BY DEF IInv, Types
<1> DEFINE seen == IF IsAA(Head(input)) THEN run + 1 ELSE 0
<1>1. /\ thread = "sync" /\ input # << >> /\ Drop(1)
      /\ run' = seen
      /\ thread' = IF seen = SYNC_LENGTH THEN "type" ELSE "sync"
      /\ reasons' = IF seen = SYNC_LENGTH /\ \E i \in DOMAIN Tail(input) : IsAA(Tail(input)[i])
                    THEN reasons \cup {"early"} ELSE reasons
      /\ UNCHANGED <<sent, event, queue, nFaults>>
      /\ UNCHANGED <<call, timed, passed, result, got, frames, nCalls>>
  BY DEF ReadSync, caller
<1>2. /\ Head(input) = input[1] /\ 1 \in 1..Len(input) /\ 1 \in 0..Len(input)
      /\ input[1] \in InputByte /\ input[1].of \in Nat /\ Len(sent) \in Nat
      /\ Len(input) \in Nat /\ Len(input) > 0
  BY <1>0, <1>1, HeadOfInput, LineFacts
<1>3. PICK c \in 1..Len(input) : AwaitedUpTo(c)
  BY <1>1 DEF IInv, SyncOK
<1>4. run \in Nat /\ run < SYNC_LENGTH /\ seen \in 0..SYNC_LENGTH
  <2>1. run \in Nat /\ run < SYNC_LENGTH
    BY <1>0, <1>1, SMT DEF IInv, SyncOK, Types, TypeOK
  <2> QED
    BY <1>0, <2>1, SMT
<1>5. LineOK' /\ InOrder' /\ NewerToCome' /\ input' \in Seq(InputByte)
  BY <1>1, <1>2, InputShrinks
<1>6. Types'
  <2>1. run' \in 0..SYNC_LENGTH
    BY <1>1, <1>4
  <2>2. thread' \in {"sync", "type"}
    BY <1>1
  <2> HIDE DEF seen
  <2> QED
    BY <1>0, <1>1, <1>5, <2>1, <2>2, QueueFacts, StepTypes DEF Types, TypeOK
<1>7. SyncOK'
  <2> SUFFICES ASSUME thread' = "sync"
               PROVE  run' < SYNC_LENGTH /\ \E d \in 1..Len(input') : AwaitedUpTo(d)'
    BY DEF SyncOK
  <2>1. seen # SYNC_LENGTH /\ seen = IF IsAA(input[1]) THEN run + 1 ELSE 0
    BY <1>1, <1>2
  <2> HIDE DEF seen
  <2>2. c - 1 \in 1..Len(input') /\ AwaitedUpTo(c - 1)' /\ run' < SYNC_LENGTH
    BY <1>0, <1>1, <1>3, <1>4, <2>1, StillAwaited
  <2>3. PICK d : d = c - 1
    OBVIOUS
  <2>4. AwaitedUpTo(d)'
    BY <2>2, <2>3
  <2> QED
    BY <2>2, <2>3, <2>4
<1>8. ASSUME reasons' = {} PROVE InPlace'
  <2>1. InPlace /\ reasons' = reasons
    <3>1. reasons' = reasons
      BY <1>1, <1>8
    <3> QED
      BY <1>8, <3>1 DEF IInv
  <2>2. input[1].of = 0
    <3>1. 1 \in 1..c
      BY <1>3, SMT
    <3> QED
      BY <1>3, <3>1 DEF AwaitedUpTo
  <2>3. ASSUME thread' = "type", input' # << >> PROVE input'[1].of > 0 /\ input'[1].place = 1
    <3>1. \A i \in DOMAIN Tail(input) : ~ IsAA(Tail(input)[i])
      BY <1>1, <1>8, <2>3
    <3>2. /\ Len(input') = Len(input) - 1 /\ Len(input') \in Nat
          /\ \A i \in 1..Len(input') : i + 1 \in 1..Len(input) /\ input'[i] = input[i + 1]
          /\ 1 < Len(input)
      BY <1>0, <1>1, <1>2, <2>3, DropFacts
    <3>3. /\ DOMAIN Tail(input) = 1..Len(input')
          /\ \A i \in 1..Len(input') : Tail(input)[i] = input[i + 1]
      <4>1. /\ Tail(input) \in Seq(InputByte) /\ Len(Tail(input)) = Len(input) - 1
            /\ \A i \in 1..Len(Tail(input)) : Tail(input)[i] = input[i + 1]
        BY <1>0, <1>1, HeadTailProperties DEF Types
      <4> QED
        BY <3>2, <4>1, LenProperties
    <3>4. \A i \in 1..Len(input') : ~ IsAA(input'[i])
      BY <3>1, <3>2, <3>3
    <3>5. 1 \in 1..Len(input') /\ (\A j \in 1..Len(input') : j \in 1..Len(input'))
      BY <3>2, SMT
    <3>6. input'[1].of # 0
      BY <1>5, <3>4, <3>5 DEF LineOK, AnswerThere, IsAA
    <3>7. Successor(sent, input[1], input'[1])
      <4>1. 1 > 0
        BY SMT
      <4> QED
        BY <1>1, <1>2, <2>3, <4>1, NextByte
    <3>8. input'[1] = Byte(0 + 1, 1)
      <4>1. ~ (0 > 0)
        BY SMT
      <4> QED
        BY <2>2, <3>6, <3>7, <4>1 DEF Successor
    <3>9. 0 + 1 > 0
      BY SMT
    <3> QED
      BY <3>8, <3>9, ByteFacts
  <2>4. PlaceKnown'
    <3>1. thread' # "length" /\ thread' # "payload"
      BY <1>1
    <3> QED
      BY <2>3, <3>1 DEF PlaceKnown
  <2>5. NoneSkipped'
    <3>1. \A i \in 1..1, m \in 1..Len(sent) : input[i] # Byte(m, 4)
      <4>1. \A i \in 1..1 : i = 1
        BY SMT
      <4>2. \A m \in 1..Len(sent) : m # 0
        BY <1>2, SMT
      <4> QED
        BY <2>2, <4>1, <4>2, ByteFacts
    <3> QED
      BY <1>1, <1>2, <2>1, <3>1, SkipsNone DEF InPlace
  <2>6. thread' # "dead"
    BY <1>1
  <2> QED
    BY <1>1, <2>1, <2>4, <2>5, <2>6 DEF InPlace
<1> QED
  BY <1>5, <1>6, <1>7, <1>8 DEF IInv

\* The reader in its place, with all of a payload before it.
LEMMA WholePayload ==
  ASSUME IInv, PlaceKnown, thread = "payload", Len(input) >= event.length
  PROVE  \E n \in 1..Len(sent) :
           /\ event = [kind |-> sent[n], length |-> PayloadLength[sent[n]]]
           /\ event.length \in 0..2 /\ event.length \in 0..Len(input)
           /\ \A i \in 1..event.length : input[i] = Byte(n, i + 2)
           /\ event.length # Len(input) => input[event.length + 1] = Byte(n + 1, 1)
<1>0. Types /\ LineOK /\ Len(input) \in Nat /\ Len(sent) \in Nat
      /\ (input # << >> <=> Len(input) > 0)
  BY LineFacts DEF IInv
<1>1. PICK n \in 1..Len(sent) : InPayloadOf(n)
  BY DEF PlaceKnown
<1> DEFINE l == PayloadLength[sent[n]]
<1>2. /\ event = [kind |-> sent[n], length |-> l] /\ event.length = l
      /\ l \in 0..2 /\ l \in Nat /\ Len(input) >= l /\ l \in 0..Len(input)
      /\ Width(sent, n) = l + 2 /\ n \in Nat /\ n > 0
  <2>1. event = [kind |-> sent[n], length |-> l] /\ event.length = l
    BY <1>1 DEF InPayloadOf
  <2>2. l \in 0..2 /\ Width(sent, n) = l + 2
    BY <1>0, LineFacts, LengthFacts DEF Width
  <2>3. Len(input) >= l
    BY <2>1
  <2> HIDE DEF l
  <2> QED
    BY <1>0, <2>1, <2>2, <2>3, SMT
<1>3. /\ l > 0 => input[1] = Byte(n, 3)
      /\ ~ (l > 0) /\ input # << >> => input[1] = Byte(n + 1, 1)
  BY <1>1 DEF InPayloadOf
<1> HIDE DEF l
<1>9. l \in Nat /\ Len(input) \in Nat /\ Len(input) >= l /\ n \in Nat /\ n > 0
  BY <1>0, <1>2
<1>8. ASSUME \A i \in 1..l : input[i] = Byte(n, i + 2),
             l # Len(input) => input[l + 1] = Byte(n + 1, 1)
      PROVE  /\ \A i \in 1..event.length : input[i] = Byte(n, i + 2)
             /\ event.length # Len(input) => input[event.length + 1] = Byte(n + 1, 1)
  BY <1>2, <1>8
<1>4. \A i \in 1..Len(input) - 1 : Successor(sent, input[i], input[i + 1])
  BY <1>0 DEF LineOK, Contiguous
<1>5. ASSUME l = 0
      PROVE  /\ \A i \in 1..event.length : input[i] = Byte(n, i + 2)
             /\ event.length # Len(input) => input[event.length + 1] = Byte(n + 1, 1)
  <2>1. \A i \in 1..l : FALSE
    BY <1>5, SMT
  <2>2. l # Len(input) => input # << >> /\ ~ (l > 0) /\ l + 1 = 1
    BY <1>0, <1>5, SMT
  <2> QED
    BY <1>3, <1>8, <2>1, <2>2
<1>6. ASSUME l = 1
      PROVE  /\ \A i \in 1..event.length : input[i] = Byte(n, i + 2)
             /\ event.length # Len(input) => input[event.length + 1] = Byte(n + 1, 1)
  <2>1. l > 0 /\ 1 + 2 = 3 /\ (\A i \in 1..l : i = 1) /\ l + 1 = 2
        /\ (l # Len(input) => 1 \in 1..Len(input) - 1) /\ ~ (3 < l + 2) /\ n # 0
    <3>1. \A k \in Nat : k >= 1 /\ k # 1 => 1 \in 1..k - 1
      BY SMT
    <3>2. l > 0 /\ 1 + 2 = 3 /\ l + 1 = 2 /\ ~ (3 < l + 2)
      BY <1>6, SMT
    <3>3. \A i \in 1..l : i = 1
      BY <1>6, SMT
    <3>4. n # 0
      BY <1>9, SMT
    <3> QED
      BY <1>6, <1>9, <3>1, <3>2, <3>3, <3>4
  <2>2. input[1].of = n /\ input[1].place = 3
    BY <1>3, <2>1, ByteFacts
  <2>3. l # Len(input) => input[2] = Byte(n + 1, 1)
    <3>1. l # Len(input) => Successor(sent, input[1], input[1 + 1])
      BY <1>4, <2>1
    <3>2. 1 + 1 = 2
      BY SMT
    <3> QED
      BY <1>2, <2>1, <2>2, <3>1, <3>2 DEF Successor
  <2>4. \A i \in 1..l : input[i] = Byte(n, i + 2)
    BY <1>3, <2>1
  <2> QED
    BY <1>8, <2>1, <2>3, <2>4
<1>7. ASSUME l = 2
      PROVE  /\ \A i \in 1..event.length : input[i] = Byte(n, i + 2)
             /\ event.length # Len(input) => input[event.length + 1] = Byte(n + 1, 1)
  <2>1. l > 0 /\ 1 + 2 = 3 /\ 2 + 2 = 4 /\ (\A i \in 1..l : i = 1 \/ i = 2) /\ l + 1 = 3
        /\ 1 \in 1..Len(input) - 1
        /\ (l # Len(input) => 2 \in 1..Len(input) - 1) /\ 3 < l + 2 /\ ~ (4 < l + 2) /\ n # 0
    <3>1. /\ \A k \in Nat : k >= 2 => 1 \in 1..k - 1
          /\ \A k \in Nat : k >= 2 /\ k # 2 => 2 \in 1..k - 1
      BY SMT
    <3>2. l > 0 /\ 1 + 2 = 3 /\ 2 + 2 = 4 /\ l + 1 = 3 /\ 3 < l + 2 /\ ~ (4 < l + 2)
      BY <1>7, SMT
    <3>3. \A i \in 1..l : i = 1 \/ i = 2
      BY <1>7, SMT
    <3>4. n # 0
      BY <1>9, SMT
    <3> QED
      BY <1>7, <1>9, <3>1, <3>2, <3>3, <3>4
  <2>2. input[1].of = n /\ input[1].place = 3
    BY <1>3, <2>1, ByteFacts
  <2>3. input[2] = Byte(n, 4)
    <3>1. Successor(sent, input[1], input[1 + 1])
      BY <1>4, <2>1
    <3>2. 1 + 1 = 2 /\ 3 + 1 = 4
      BY SMT
    <3> QED
      BY <1>2, <2>1, <2>2, <3>1, <3>2 DEF Successor
  <2>4. input[2].of = n /\ input[2].place = 4
    BY <2>3, ByteFacts
  <2>5. l # Len(input) => input[3] = Byte(n + 1, 1)
    <3>1. l # Len(input) => Successor(sent, input[2], input[2 + 1])
      BY <1>4, <2>1
    <3>2. 2 + 1 = 3
      BY SMT
    <3> QED
      BY <1>2, <2>1, <2>4, <3>1, <3>2 DEF Successor
  <2>6. \A i \in 1..l : input[i] = Byte(n, i + 2)
    BY <1>3, <2>1, <2>3
  <2> QED
    BY <1>8, <2>1, <2>5, <2>6
<1>10. /\ \A i \in 1..event.length : input[i] = Byte(n, i + 2)
       /\ event.length # Len(input) => input[event.length + 1] = Byte(n + 1, 1)
  <2>1. l = 0 \/ l = 1 \/ l = 2
    BY <1>2, SMT
  <2> QED
    BY <1>5, <1>6, <1>7, <2>1
<1> QED
  BY <1>2, <1>10 DEF l

LEMMA PayloadStep ==
  ASSUME IInv, ReadPayload
  PROVE  IInv'
<1>0. Types /\ LineOK /\ Len(input) \in Nat /\ Len(sent) \in Nat /\ event.length \in 0..3
  BY LineFacts DEF IInv, Types, TypeOK
<1> DEFINE bytes == SubSeq(input, 1, event.length)
<1>1. /\ thread = "payload" /\ Len(input) >= event.length /\ Parse(bytes) /\ Drop(event.length)
      /\ event' = NoEvent
      /\ UNCHANGED <<sent, run, nFaults, reasons>>
      /\ UNCHANGED <<call, timed, passed, result, got, frames, nCalls>>
  BY DEF ReadPayload, caller
<1>2. event.length \in 0..Len(input)
  BY <1>0, <1>1, SMT
<1>3. /\ queue' \in Seq(Int)
      /\ \A i \in 1..Len(queue') : queue'[i] \in -1..Len(sent)
      /\ LineOK' /\ InOrder' /\ NewerToCome' /\ input' \in Seq(InputByte)
      /\ thread' \in {"type", "dead"}
  BY <1>1, <1>2, ParseKeeps
<1>4. Types'
  <2>1. event' \in [kind : Kind, length : 0..3]
    <3>1. 0 \in 0..3
      BY SMT
    <3> QED
      BY <1>1, <3>1 DEF NoEvent, Kind
  <2>2. run' \in 0..SYNC_LENGTH
    BY <1>0, <1>1 DEF Types, TypeOK
  <2>3. thread' \in {"sync", "type", "length", "payload", "dead", "failed"}
    BY <1>3
  <2> QED
    BY <1>1, <1>3, <2>1, <2>2, <2>3, StepTypes
<1>5. SyncOK'
  BY <1>3 DEF SyncOK
<1>6. ASSUME reasons' = {} PROVE InPlace'
  <2>1. InPlace
    BY <1>1, <1>6 DEF IInv
  <2>2. PICK n \in 1..Len(sent) :
           /\ event = [kind |-> sent[n], length |-> PayloadLength[sent[n]]]
           /\ event.length \in 0..2 /\ event.length \in 0..Len(input)
           /\ \A i \in 1..event.length : input[i] = Byte(n, i + 2)
           /\ event.length # Len(input) => input[event.length + 1] = Byte(n + 1, 1)
    BY <1>1, <2>1, WholePayload DEF InPlace
  <2>3. PICK l, kind : /\ l = event.length /\ kind = event.kind /\ kind = sent[n] /\ kind \in Kind
                       /\ l = PayloadLength[kind]
    BY <1>0, <2>2, LineFacts
  <2>4. /\ bytes \in Seq(InputByte) /\ Len(bytes) = l /\ DOMAIN bytes = 1..l
        /\ \A i \in 1..l : bytes[i] = Byte(n, i + 2) /\ bytes[i] = input[i]
    BY <1>2, <2>2, <2>3, TakenFacts
  <2>5. n \in Nat /\ n > 0 /\ l \in 0..2 /\ l \in Nat
    BY <1>0, <2>2, <2>3, SMT
  <2> HIDE DEF bytes
  <2>6. Len(bytes) >= Needed[kind]
    <3>1. Needed[kind] \in 0..l
      BY <2>3, LengthFacts
    <3> QED
      BY <2>4, <2>5, <3>1, SMT
  <2>7. ~ \E i \in DOMAIN bytes : bytes[i].of = 0 \/ bytes[i].place < 3 \/ sent[bytes[i].of] # kind
    <3> SUFFICES ASSUME NEW i \in 1..l
                 PROVE  ~ (bytes[i].of = 0 \/ bytes[i].place < 3 \/ sent[bytes[i].of] # kind)
      BY <2>4
    <3>1. bytes[i].of = n /\ bytes[i].place = i + 2
      BY <2>4, ByteFacts
    <3>2. ~ (i + 2 < 3) /\ n # 0
      BY <2>5, SMT
    <3> QED
      BY <2>3, <3>1, <3>2
  <2>8. /\ thread' = "type"
        /\ queue' = CASE kind = "ext" -> Append(queue, Origin(bytes))
                      [] kind = "other" -> Append(queue, -1)
                      [] OTHER -> queue
    BY <1>1, <2>3, <2>6, <2>7 DEF Parse
  <2>9. kind = "ext" => Origin(bytes) = n
    <3> SUFFICES ASSUME kind = "ext" PROVE Origin(bytes) = n
      OBVIOUS
    <3>1. /\ Payload(n) \in Seq(InputByte) /\ Len(Payload(n)) = 2
          /\ Payload(n)[1] = Byte(n, 3) /\ Payload(n)[2] = Byte(n, 4)
      BY <1>0, <2>3, PayloadBytes
    <3>2. l = 2 /\ 1 + 2 = 3 /\ 2 + 2 = 4 /\ (\A i \in 1..2 : i = 1 \/ i = 2)
          /\ 1 \in 1..2 /\ 2 \in 1..2
      BY <2>3, LengthFacts, SMT
    <3>3. \A i \in 1..2 : bytes[i] = Payload(n)[i]
      BY <2>4, <3>1, <3>2
    <3>4. bytes = Payload(n)
      BY <2>4, <3>1, <3>2, <3>3, SeqEqual
    <3>5. \A i \in 1..Len(bytes) : bytes[i].of <= Len(sent)
      <4>1. \A i \in 1..l : bytes[i].of = n /\ n <= Len(sent)
        BY <1>0, <2>4, ByteFacts
      <4> QED
        BY <2>4, <4>1
    <3> QED
      BY <1>0, <2>3, <2>4, <3>4, <3>5, OriginFacts
  <2>10. /\ Len(queue) \in Nat /\ Len(queue') \in Nat
         /\ \A i \in 1..Len(queue) : i \in 1..Len(queue') /\ queue'[i] = queue[i]
         /\ \A i \in 1..Len(queue') : i \in 1..Len(queue) \/ queue'[i] \in {n, -1}
         /\ kind = "ext" => \E i \in 1..Len(queue') : queue'[i] = n
    <3>1. queue \in Seq(Int) /\ Len(queue) \in Nat /\ n \in Int /\ -1 \in Int
      BY <1>0, <2>5, QueueFacts, SMT DEF Types
    <3>2. CASE kind \in {"ext", "other"}
      <4>1. PICK new \in {n, -1} : queue' = Append(queue, new) /\ (kind = "ext" => new = n)
        BY <2>8, <2>9, <3>2
      <4>2. /\ queue' \in Seq(Int) /\ Len(queue') = Len(queue) + 1
            /\ \A i \in 1..Len(queue) : queue'[i] = queue[i]
            /\ queue'[Len(queue) + 1] = new
        BY <3>1, <4>1, AppendProperties
      <4>3. /\ Len(queue') \in Nat /\ Len(queue) + 1 \in 1..Len(queue')
            /\ \A i \in 1..Len(queue) : i \in 1..Len(queue')
            /\ \A i \in 1..Len(queue') : i \in 1..Len(queue) \/ i = Len(queue) + 1
        BY <3>1, <4>2, SMT
      <4> QED
        BY <3>1, <4>1, <4>2, <4>3
    <3>3. CASE kind \notin {"ext", "other"}
      BY <2>8, <3>1, <3>3
    <3> QED
      BY <3>2, <3>3
  <2>11. \A i \in 1..Len(queue') : queue'[i] # 0
    <3>1. n # 0 /\ -1 # 0
      BY <2>5, SMT
    <3> QED
      BY <2>1, <2>10, <3>1 DEF InPlace
  <2>12. /\ Len(input') = Len(input) - l /\ Len(input') \in Nat
         /\ \A i \in 1..Len(input') : i + l \in 1..Len(input) /\ input'[i] = input[i + l]
         /\ input' # << >> <=> l < Len(input)
    BY <1>0, <1>1, <1>2, <2>3, DropFacts
  <2>13. PlaceKnown'
    <3>1. ASSUME input' # << >> PROVE input'[1].of > 0 /\ input'[1].place = 1
      <4>1. 1 \in 1..Len(input') /\ 1 + l = l + 1 /\ l # Len(input) /\ n + 1 > 0
        BY <1>0, <2>5, <2>12, <3>1, SMT
      <4>2. input'[1] = Byte(n + 1, 1)
        BY <2>2, <2>3, <2>12, <4>1
      <4> QED
        BY <4>1, <4>2, ByteFacts
    <3> QED
      BY <2>8, <3>1 DEF PlaceKnown
  <2>14. NoneSkipped'
    <3> SUFFICES ASSUME NEW m \in 1..Len(sent), sent[m] = "ext" PROVE Accounted(m)'
      BY <1>1 DEF NoneSkipped
    <3>1. Accounted(m)
      BY <2>1 DEF InPlace, NoneSkipped
    <3>2. ASSUME NEW i \in 1..Len(input), input[i] = Byte(m, 4)
          PROVE  Accounted(m)'
      <4>1. CASE i \in 1..l
        <5>1. Byte(m, 4) = Byte(n, i + 2)
          BY <2>4, <3>2, <4>1
        <5>2. m = n
          BY <5>1, ByteFacts
        <5> QED
          BY <2>3, <2>10, <5>2 DEF Accounted
      <4>2. CASE i \notin 1..l
        <5>1. i - l \in 1..Len(input') /\ i - l + l = i
          BY <1>0, <2>5, <2>12, <4>2, SMT
        <5>2. input'[i - l] = Byte(m, 4)
          BY <2>12, <3>2, <5>1
        <5> QED
          BY <5>1, <5>2 DEF Accounted
      <4> QED
        BY <4>1, <4>2
    <3> QED
      BY <1>1, <2>10, <3>1, <3>2 DEF Accounted
  <2>15. thread' # "dead"
    BY <2>8
  <2> QED
    BY <1>1, <2>1, <2>11, <2>13, <2>14, <2>15 DEF InPlace
<1> QED
  BY <1>3, <1>4, <1>5, <1>6 DEF IInv

-----------------------------------------------------------------------------
(* The faults after which it does not know its place.                      *)

LEMMA SilenceInsideStep ==
  ASSUME IInv, SilenceInside
  PROVE  IInv'
<1>0. /\ Types /\ LineOK /\ Len(input) \in Nat /\ event.length \in 0..3
      /\ queue \in Seq(Int) /\ run \in 0..SYNC_LENGTH
      /\ event \in [kind : Kind, length : 0..3] /\ input \in Seq(InputByte)
      /\ \A i \in 1..Len(queue) : queue[i] \in -1..Len(sent)
  BY LineFacts, QueueFacts DEF IInv, Types, TypeOK
<1>1. /\ UNCHANGED <<sent, run, call, timed, passed, result, got, frames, nCalls>>
      /\ nFaults < MaxFaults /\ nFaults' = nFaults + 1
  BY DEF SilenceInside, Fault, caller
<1>2. CASE thread' \in {"failed", "dead"} /\ UNCHANGED <<input, event, queue>>
           /\ (thread' = "dead" => reasons' # {})
           /\ (thread' = "failed" => thread = "sync" /\ reasons' = reasons)
  <2>1. Types'
    BY <1>0, <1>1, <1>2, StepTypes
  <2>2. LineOK'
    BY <1>0, <1>1, <1>2 DEF LineOK, Genuine, Contiguous, AnswerThere, Successor, Width, IsAA
  <2>3. SyncOK'
    BY <1>2 DEF SyncOK
  <2>4. InOrder' /\ NewerToCome'
    BY <1>1, <1>2 DEF IInv, InOrder, NewerToCome, WasSent
  <2>5. reasons' = {} => InPlace'
    <3>1. ASSUME reasons' = {}, InPlace PROVE PlaceKnown' /\ NoneSkipped'
      <4>1. thread' = "failed"
        BY <1>2, <3>1
      <4>2. PlaceKnown'
        BY <4>1 DEF PlaceKnown
      <4>3. NoneSkipped'
        BY <1>1, <1>2, <3>1 DEF InPlace, NoneSkipped, Accounted
      <4> QED
        BY <4>2, <4>3
    <3>2. reasons' = {} => reasons = {} /\ thread' # "dead"
      BY <1>2
    <3> QED
      BY <1>1, <1>2, <3>1, <3>2 DEF IInv, InPlace
  <2> QED
    BY <2>1, <2>2, <2>3, <2>4, <2>5 DEF IInv
<1>3. CASE /\ \E n \in 0..event.length - 1 :
                n <= Len(input) /\ Parse(SubSeq(input, 1, n)) /\ Drop(n)
           /\ event' = NoEvent /\ reasons' # {}
  <2>1. PICK n \in 0..event.length - 1 :
               n <= Len(input) /\ Parse(SubSeq(input, 1, n)) /\ Drop(n)
    BY <1>3
  <2>2. n \in 0..Len(input)
    BY <1>0, <2>1, SMT
  <2>3. /\ queue' \in Seq(Int)
        /\ \A i \in 1..Len(queue') : queue'[i] \in -1..Len(sent)
        /\ LineOK' /\ InOrder' /\ NewerToCome' /\ input' \in Seq(InputByte)
        /\ thread' \in {"type", "dead"}
    BY <1>1, <2>1, <2>2, ParseKeeps
  <2>4. event' \in [kind : Kind, length : 0..3]
    <3>1. 0 \in 0..3
      BY SMT
    <3> QED
      BY <1>3, <3>1 DEF NoEvent, Kind
  <2>5. thread' \in {"sync", "type", "length", "payload", "dead", "failed"}
    BY <2>3
  <2>6. run' \in 0..SYNC_LENGTH
    BY <1>0, <1>1
  <2>7. Types'
    BY <1>1, <2>3, <2>4, <2>5, <2>6, StepTypes
  <2>8. SyncOK'
    BY <2>3 DEF SyncOK
  <2> QED
    BY <1>3, <2>3, <2>7, <2>8 DEF IInv
<1> QED
  BY <1>2, <1>3 DEF SilenceInside

LEMMA UnplugStep ==
  ASSUME IInv, Unplug
  PROVE  IInv'
<1>0. /\ Types /\ queue \in Seq(Int) /\ run \in 0..SYNC_LENGTH
      /\ event \in [kind : Kind, length : 0..3] /\ input \in Seq(InputByte)
      /\ \A i \in 1..Len(queue) : queue[i] \in -1..Len(sent)
  BY QueueFacts DEF IInv, Types, TypeOK
<1>1. /\ UNCHANGED <<sent, input, run, event, queue, call, timed, passed, result, got, frames, nCalls>>
      /\ nFaults < MaxFaults /\ nFaults' = nFaults + 1
      /\ thread' = "dead" /\ reasons' # {}
  BY DEF Unplug, Fault, caller
<1>2. Types'
  BY <1>0, <1>1, StepTypes
<1>3. LineOK'
  BY <1>0, <1>1 DEF IInv, LineOK, Genuine, Contiguous, AnswerThere, Successor, Width, IsAA
<1>4. SyncOK'
  BY <1>1 DEF SyncOK
<1>5. InOrder' /\ NewerToCome'
  BY <1>1 DEF IInv, InOrder, NewerToCome, WasSent
<1> QED
  BY <1>1, <1>2, <1>3, <1>4, <1>5 DEF IInv

-----------------------------------------------------------------------------
(* receive() takes what is first in the queue.                             *)

LEMMA GetFacts ==
  ASSUME Types, Get
  PROVE  /\ queue' \in Seq(Int) /\ Len(queue') = Len(queue) - 1 /\ Len(queue') \in Nat
         /\ 1 \in 1..Len(queue) /\ Head(queue) = queue[1] /\ queue[1] \in Int
         /\ queue[1] \in -1..Len(sent)
         /\ \A i \in 1..Len(queue') :
              i + 1 \in 1..Len(queue) /\ 1 < i + 1 /\ queue'[i] = queue[i + 1]
<1>1. queue \in Seq(Int) /\ queue # << >> /\ queue' = Tail(queue)
  BY DEF Types, Get
<1>2. /\ Head(queue) = queue[1]
      /\ queue' \in Seq(Int) /\ Len(queue') = Len(queue) - 1
      /\ \A i \in 1..Len(queue') : queue'[i] = queue[i + 1]
  BY <1>1, HeadTailProperties
<1>3. Len(queue) \in Nat /\ Len(queue) # 0
  BY <1>1, LenProperties, EmptySeq
<1>4. 1 \in 1..Len(queue) /\ Len(queue') \in Nat
      /\ \A i \in 1..Len(queue') : i + 1 \in 1..Len(queue) /\ 1 < i + 1
  BY <1>2, <1>3, SMT
<1> QED
  BY <1>2, <1>4, QueueFacts

\* frames grows by a frame that was sent, and not otherwise.
LEMMA FramesGrow ==
  ASSUME Types, Get
  PROVE  /\ frames' \in Seq(Int) /\ Len(frames') \in Nat
         /\ \A i \in 1..Len(frames) : i \in 1..Len(frames') /\ frames'[i] = frames[i]
         /\ \A i \in 1..Len(frames') :
              \/ i \in 1..Len(frames)
              \/ i = Len(frames) + 1 /\ queue[1] > 0 /\ frames'[i] = queue[1]
         /\ queue[1] > 0 => \E i \in 1..Len(frames') : frames'[i] = queue[1]
<1>0. /\ frames \in Seq(Int) /\ Len(frames) \in Nat
      /\ Head(queue) = queue[1] /\ queue[1] \in Int
  BY GetFacts, QueueFacts DEF Types
<1>1. CASE queue[1] > 0
  <2>1. queue[1] >= 0
    BY <1>0, <1>1, SMT
  <2>2. frames' = Append(frames, queue[1])
    BY <1>0, <1>1, <2>1 DEF Get
  <2>3. /\ frames' \in Seq(Int) /\ Len(frames') = Len(frames) + 1
        /\ \A i \in 1..Len(frames) : frames'[i] = frames[i]
        /\ frames'[Len(frames) + 1] = queue[1]
    BY <1>0, <2>2, AppendProperties
  <2>4. /\ Len(frames') \in Nat /\ Len(frames) + 1 \in 1..Len(frames')
        /\ \A i \in 1..Len(frames) : i \in 1..Len(frames')
        /\ \A i \in 1..Len(frames') : i \in 1..Len(frames) \/ i = Len(frames) + 1
    BY <1>0, <2>3, SMT
  <2> QED
    BY <1>1, <2>3, <2>4
<1>2. CASE ~ (queue[1] > 0)
  <2>1. frames' = frames
    BY <1>0, <1>2 DEF Get
  <2> QED
    BY <1>0, <1>2, <2>1
<1> QED
  BY <1>1, <1>2

LEMMA GetStep ==
  ASSUME IInv, Get
  PROVE  IInv'
<1>0. Types /\ Len(queue) \in Nat /\ Len(frames) \in Nat /\ Len(sent) \in Nat
      /\ \A i \in 1..Len(queue) : queue[i] \in Int /\ queue[i] \in -1..Len(sent)
  BY QueueFacts, LineFacts DEF IInv
<1>1. UNCHANGED <<sent, input, thread, run, event, nCalls, nFaults, reasons>>
  BY DEF Get, reader
<1>2. /\ queue' \in Seq(Int) /\ Len(queue') \in Nat
      /\ 1 \in 1..Len(queue) /\ Head(queue) = queue[1] /\ queue[1] \in Int
      /\ \A i \in 1..Len(queue') :
           i + 1 \in 1..Len(queue) /\ 1 < i + 1 /\ queue'[i] = queue[i + 1]
  BY <1>0, GetFacts
<1>3. /\ frames' \in Seq(Int) /\ Len(frames') \in Nat
      /\ \A i \in 1..Len(frames) : i \in 1..Len(frames') /\ frames'[i] = frames[i]
      /\ \A i \in 1..Len(frames') :
           \/ i \in 1..Len(frames)
           \/ i = Len(frames) + 1 /\ queue[1] > 0 /\ frames'[i] = queue[1]
      /\ queue[1] > 0 => \E i \in 1..Len(frames') : frames'[i] = queue[1]
  BY <1>0, FramesGrow
<1>4. Types'
  <2>1. got' \in Seq(Int)
    <3>1. got' = got \/ got' = Append(got, queue[1])
      BY <1>2 DEF Get
    <3>2. got \in Seq(Int)
      BY <1>0 DEF Types
    <3>3. Append(got, queue[1]) \in Seq(Int)
      BY <1>2, <3>2, AppendProperties
    <3> QED
      BY <3>1, <3>2, <3>3
  <2>2. /\ call' \in {"out", "check", "wait"} /\ timed' \in BOOLEAN /\ passed' \in BOOLEAN
        /\ result' \in {"frame", "timeout", "Empty"}
    BY <1>0 DEF Get, Return, Types, TypeOK
  <2>3. \A i \in DOMAIN queue' : queue'[i] \in -1..Len(sent)
    <3>1. DOMAIN queue' = 1..Len(queue')
      BY <1>2, LenProperties
    <3> QED
      BY <1>0, <1>2, <3>1
  <2>4. TypeOK'
    BY <1>0, <1>1, <2>2, <2>3 DEF Types, TypeOK
  <2> QED
    BY <1>0, <1>1, <1>2, <1>3, <2>1, <2>4 DEF Types
<1>5. LineOK' /\ SyncOK'
  BY <1>1 DEF IInv, LineOK, Genuine, Contiguous, AnswerThere, Successor, Width, IsAA,
              SyncOK, AwaitedUpTo
<1>6. InOrder'
  <2>1. /\ \A i \in 1..Len(frames') : WasSent(frames'[i])
        /\ \A i \in 1..Len(queue') : queue'[i] > 0 => WasSent(queue'[i])
    BY <1>2, <1>3 DEF IInv, InOrder
  <2>2. ASSUME NEW i \in 1..Len(frames'), NEW j \in 1..Len(frames'), i < j
        PROVE  frames'[i] < frames'[j]
    <3>1. ~ (j \in 1..Len(frames) /\ i = Len(frames) + 1)
          /\ ~ (i = Len(frames) + 1 /\ j = Len(frames) + 1)
      BY <1>0, <2>2, SMT
    <3> QED
      BY <1>2, <1>3, <2>2, <3>1 DEF IInv, InOrder
  <2>3. ASSUME NEW i \in 1..Len(queue'), NEW j \in 1..Len(queue'), i < j,
               queue'[i] > 0, queue'[j] > 0
        PROVE  queue'[i] < queue'[j]
    <3>1. i + 1 < j + 1
      BY <1>2, <2>3, SMT
    <3> QED
      BY <1>2, <2>3, <3>1 DEF IInv, InOrder
  <2>4. ASSUME NEW i \in 1..Len(frames'), NEW j \in 1..Len(queue'), queue'[j] > 0
        PROVE  frames'[i] < queue'[j]
    BY <1>2, <1>3, <2>4 DEF IInv, InOrder
  <2> QED
    BY <1>1, <2>1, <2>2, <2>3, <2>4 DEF InOrder, WasSent
<1>7. NewerToCome'
  <2>1. \A i \in 1..Len(frames'), j \in 1..Len(input) : frames'[i] < input[j].of
    BY <1>2, <1>3 DEF IInv, NewerToCome
  <2>2. \A i \in 1..Len(queue'), j \in 1..Len(input) : queue'[i] > 0 => queue'[i] < input[j].of
    BY <1>2 DEF IInv, NewerToCome
  <2> QED
    BY <1>1, <2>1, <2>2 DEF NewerToCome
<1>8. ASSUME reasons' = {} PROVE InPlace'
  <2>1. InPlace
    BY <1>1, <1>8 DEF IInv
  <2>2. queue[1] >= 0 <=> queue[1] > 0
    <3>1. queue[1] # 0
      BY <1>2, <2>1 DEF InPlace
    <3> QED
      BY <1>2, <3>1, SMT
  <2>3. frames' = got'
    BY <1>2, <2>1, <2>2 DEF Get, InPlace
  <2>4. \A i \in 1..Len(queue') : queue'[i] # 0
    BY <1>2, <2>1 DEF InPlace
  <2>5. PlaceKnown'
    BY <1>1, <2>1 DEF InPlace, PlaceKnown, InPayloadOf
  <2>6. NoneSkipped'
    <3> SUFFICES ASSUME NEW n \in 1..Len(sent), sent[n] = "ext" PROVE Accounted(n)'
      BY <1>1 DEF NoneSkipped
    <3>1. Accounted(n)
      BY <2>1 DEF InPlace, NoneSkipped
    <3>2. ASSUME NEW i \in 1..Len(queue), queue[i] = n PROVE Accounted(n)'
      <4>1. CASE i = 1
        <5>1. queue[1] > 0
          BY <3>2, <4>1, SMT
        <5> QED
          BY <1>3, <3>2, <4>1, <5>1 DEF Accounted
      <4>2. CASE i # 1
        <5>1. i - 1 \in 1..Len(queue') /\ i - 1 + 1 = i
          BY <1>0, <4>2, GetFacts, SMT
        <5>2. queue'[i - 1] = n
          BY <1>2, <3>2, <5>1
        <5> QED
          BY <5>1, <5>2 DEF Accounted
      <4> QED
        BY <4>1, <4>2
    <3> QED
      BY <1>1, <1>3, <3>1, <3>2 DEF Accounted
  <2> QED
    BY <1>1, <2>1, <2>3, <2>4, <2>5, <2>6 DEF InPlace
<1> QED
  BY <1>4, <1>5, <1>6, <1>7, <1>8 DEF IInv

-----------------------------------------------------------------------------
LEMMA InitIInv ==
  ASSUME Init
  PROVE  IInv
<1>1. PICK old \in Old :
        input = [i \in 1..Len(old) + SYNC_LENGTH |-> Sync(i > Len(old) \/ old[i])]
  BY DEF Init
<1>2. /\ sent = << >> /\ queue = << >> /\ frames = << >> /\ got = << >> /\ thread = "sync"
      /\ run = 0 /\ event = NoEvent /\ call = "out" /\ timed = FALSE /\ passed = FALSE
      /\ result = "timeout" /\ nCalls = 0 /\ nFaults = 0 /\ reasons = {}
  BY DEF Init
<1>3. Len(old) \in Nat /\ SYNC_LENGTH \in Nat \ {0} /\ MaxFaults \in Nat /\ MaxCalls \in Nat
  <2>1. old \in Seq(BOOLEAN)
    BY OcarinaAssumption
  <2> QED
    BY <2>1, LenProperties, OcarinaAssumption
<1> DEFINE m == Len(old) + SYNC_LENGTH
<1>4. m \in Nat /\ m > 0 /\ m \in 1..m /\ m > Len(old) /\ m - SYNC_LENGTH + 1 > Len(old)
      /\ m >= SYNC_LENGTH
      /\ \A i \in m - SYNC_LENGTH + 1..m : i \in 1..m /\ i > Len(old)
  BY <1>3, SMT
<1>5. input = [i \in 1..m |-> Sync(i > Len(old) \/ old[i])]
  BY <1>1
<1> HIDE DEF m
<1>6. \A b : Sync(b) \in InputByte /\ Sync(b).of = 0 /\ Sync(b).place \in {0, 1}
  <2>1. 0 \in Nat /\ 1 \in Nat
    BY SMT
  <2> QED
    BY <2>1 DEF Sync, Byte, InputByte
<1>7. input \in Seq(InputByte) /\ Len(input) = m
      /\ \A i \in 1..m : input[i] = Sync(i > Len(old) \/ old[i])
  <2>1. \A i \in 1..m : Sync(i > Len(old) \/ old[i]) \in InputByte
    BY <1>6
  <2> DEFINE f == [i \in 1..m |-> Sync(i > Len(old) \/ old[i])]
  <2>2. f \in [1..m -> InputByte] /\ \A i \in 1..m : f[i] = Sync(i > Len(old) \/ old[i])
    BY <2>1
  <2>3. input = f
    BY <1>5
  <2> HIDE DEF f
  <2>4. f \in Seq(InputByte) /\ Len(f) = m
    BY <1>4, <2>2, SMT
  <2> QED
    BY <2>2, <2>3, <2>4
<1>8. \A i \in 1..m : input[i].of = 0 /\ input[i].place \in {0, 1}
  BY <1>6, <1>7
<1>9. \A i \in 1..m : i > Len(old) => IsAA(input[i])
  BY <1>7 DEF IsAA, Sync
<1>10. Len(sent) = 0 /\ Len(queue) = 0 /\ Len(frames) = 0
  BY <1>2, EmptySeq
<1>11. \A i \in 1..0 : FALSE
  BY SMT
<1>12. Types
  <2>1. /\ sent \in Seq(Kind) /\ queue \in Seq(Int) /\ frames \in Seq(Int) /\ got \in Seq(Int)
        /\ DOMAIN sent = 1..0 /\ DOMAIN queue = 1..0
    BY <1>2, <1>10, EmptySeq, LenProperties
  <2>2. run \in 0..SYNC_LENGTH /\ nCalls \in 0..MaxCalls /\ nFaults \in 0..MaxFaults /\ 0 \in 0..3
    BY <1>2, <1>3, SMT
  <2>3. event \in [kind : Kind, length : 0..3]
    BY <1>2, <2>2 DEF NoEvent, Kind
  <2>4. TypeOK
    BY <1>2, <1>11, <2>1, <2>2, <2>3 DEF TypeOK
  <2> QED
    BY <1>3, <1>7, <2>1, <2>4 DEF Types
<1>13. Genuine
  <2>1. 0 <= 0 /\ ~ (0 > 0)
    BY SMT
  <2> QED
    BY <1>4, <1>7, <1>8, <1>10, <2>1 DEF Genuine
<1>14. Contiguous
  <2>1. \A i \in 1..m - 1 : i \in 1..m /\ i + 1 \in 1..m
    BY <1>4, SMT
  <2>2. 0 <= 0 /\ ~ (0 > 0)
    BY SMT
  <2> QED
    BY <1>7, <1>8, <2>1, <2>2 DEF Contiguous, Successor
<1>15. AnswerThere
  <2>1. \A i \in 1..m : m \in i..m
    BY <1>4, SMT
  <2> QED
    BY <1>4, <1>7, <1>9, <2>1 DEF AnswerThere
<1>16. SyncOK
  <2>1. AwaitedUpTo(m)
    <3>1. \A i \in m - SYNC_LENGTH + 1..m : IsAA(input[i])
      BY <1>4, <1>9
    <3> QED
      BY <1>4, <1>7, <1>8, <3>1 DEF AwaitedUpTo
  <2>2. run < SYNC_LENGTH
    BY <1>2, <1>3, SMT
  <2> QED
    BY <1>4, <1>7, <2>1, <2>2 DEF SyncOK
<1>17. InOrder /\ NewerToCome
  BY <1>10, <1>11 DEF InOrder, NewerToCome
<1>18. InPlace
  <2>1. PlaceKnown
    BY <1>2 DEF PlaceKnown
  <2>2. NoneSkipped
    BY <1>10, <1>11 DEF NoneSkipped
  <2> QED
    BY <1>2, <1>10, <1>11, <2>1, <2>2 DEF InPlace
<1> QED
  BY <1>12, <1>13, <1>14, <1>15, <1>16, <1>17, <1>18 DEF IInv, LineOK

LEMMA NextIInv == IInv /\ [Next]_vars => IInv'
<1> SUFFICES ASSUME IInv, [Next]_vars PROVE IInv'
  OBVIOUS
<1>1. CASE \E kind \in Kind : Transmit(kind)
  BY <1>1, TransmitKeeps
<1>2. CASE Unplug
  BY <1>2, UnplugStep
<1>3. CASE ReadSync
  BY <1>3, SyncStep
<1>4. CASE ReadType
  BY <1>4, TypeStep
<1>5. CASE ReadLength
  BY <1>5, LengthStep
<1>6. CASE ReadPayload
  BY <1>6, PayloadStep
<1>7. CASE SilenceInside
  BY <1>7, SilenceInsideStep
<1>8. CASE Get
  BY <1>8, GetStep
<1>9. CASE Silence \/ Call \/ Clock \/ Check \/ Empty \/ UNCHANGED vars
  BY <1>9, QuietStep
<1> QED
  BY <1>1, <1>2, <1>3, <1>4, <1>5, <1>6, <1>7, <1>8, <1>9 DEF Next, Read

LEMMA Invariance == Spec => []IInv
<1>1. Init => IInv
  BY InitIInv
<1> QED
  BY <1>1, NextIInv, PTL DEF Spec

(* The reader and the caller are where they can be, and the queue holds     *)
(* numbers of events that were sent.                                       *)
THEOREM TypeCorrect == Spec => []TypeOK
<1>1. IInv => TypeOK
  BY DEF IInv, Types
<1> QED
  BY <1>1, Invariance, PTL

(* The thread whose end nobody notices ends only when the interface is gone *)
(* or its place is lost: no event as the interface sends it makes            *)
(* _event_listener raise.                                                    *)
THEOREM EndsForAReason == Spec => []DiesForAReason
<1>1. IInv => DiesForAReason
  BY DEF IInv, InPlace, DiesForAReason
<1> QED
  BY <1>1, Invariance, PTL

-----------------------------------------------------------------------------
(* What it implements.                                                     *)

Delivered == IF reasons = {} THEN got ELSE frames

Damaged == IF reasons = {} THEN {} ELSE FrameSet

\* got and frames differ only when the reader has lost its place.
LEMMA DeliveredIsFrames ==
  /\ IInv => Delivered = frames
  /\ IInv' => Delivered' = frames'
BY DEF IInv, InPlace, Delivered

LEMMA FrameSetFacts ==
  ASSUME NEW s \in Seq(Kind)
  PROVE  /\ {n \in DOMAIN s : s[n] = "ext"} = {n \in 1..Len(s) : s[n] = "ext"}
         /\ {n \in DOMAIN s : s[n] = "ext"} \subseteq Nat
<1>1. DOMAIN s = 1..Len(s) /\ Len(s) \in Nat
  BY LenProperties
<1>2. \A n \in 1..Len(s) : n \in Nat
  BY <1>1, SMT
<1> QED
  BY <1>1, <1>2

LEMMA InitRefines == ASSUME Init PROVE Adapter!Init
<1>1. IInv /\ sent = << >> /\ call = "out" /\ got = << >> /\ reasons = {}
  BY InitIInv DEF Init
<1>2. FrameSet = {}
  <2>1. \A i \in 1..0 : FALSE
    BY SMT
  <2> QED
    BY <1>1, <2>1, EmptySeq, FrameSetFacts DEF FrameSet
<1> QED
  BY <1>1, <1>2 DEF Adapter!Init

\* Steps that move no frame.
LEMMA NoFrameMoves ==
  ASSUME IInv, IInv', UNCHANGED <<sent, frames>>, reasons \subseteq reasons'
  PROVE  /\ UNCHANGED FrameSet /\ UNCHANGED Delivered
         /\ Damaged \subseteq Damaged'
<1>1. Delivered = frames /\ Delivered' = frames'
  BY DeliveredIsFrames
<1>2. UNCHANGED FrameSet
  BY DEF FrameSet
<1> QED
  BY <1>1, <1>2 DEF Damaged

LEMMA QuietRefines ==
  ASSUME IInv, IInv', UNCHANGED <<sent, frames>>, reasons \subseteq reasons',
         (call' # "out") = (call # "out")
  PROVE  Adapter!Damage
BY NoFrameMoves DEF Adapter!Damage, Delivered, Damaged

LEMMA TransmitRefines ==
  ASSUME IInv, IInv', NEW kind \in Kind, Transmit(kind)
  PROVE  Adapter!Send
<1>1. /\ Types /\ Types' /\ Len(sent) \in Nat /\ Len(sent') = Len(sent) + 1
      /\ \A n \in 1..Len(sent) : sent'[n] = sent[n]
      /\ UNCHANGED <<queue, call, got, frames, reasons>>
  BY LineFacts, TransmitFacts DEF IInv, caller
<1>2. /\ FrameSet = {n \in 1..Len(sent) : sent[n] = "ext"}
      /\ FrameSet' = {n \in 1..Len(sent') : sent'[n] = "ext"} /\ FrameSet' \subseteq Nat
  BY <1>1, FrameSetFacts DEF FrameSet, Types
<1>3. /\ \A n \in 1..Len(sent) : n \in 1..Len(sent')
      /\ \A n \in 1..Len(sent') : n \in 1..Len(sent) \/ \A m \in 1..Len(sent) : m < n
  BY <1>1, SMT
<1>4. /\ FrameSet \subseteq FrameSet'
      /\ \A old \in FrameSet, new \in FrameSet' \ FrameSet : old < new
  BY <1>1, <1>2, <1>3
<1>5. Damaged \subseteq Damaged' /\ UNCHANGED Delivered /\ UNCHANGED (call # "out")
  BY <1>1, <1>4 DEF Damaged, Delivered
<1> QED
  BY <1>2, <1>4, <1>5 DEF Adapter!Send, Damaged, Delivered

\* A frame comes out: older ones are out, or the reader has lost its place.
LEMMA DeliverRefines ==
  ASSUME IInv, IInv', Get, queue[1] > 0
  PROVE  queue[1] \in FrameSet /\ Adapter!Deliver(queue[1])
<1> DEFINE n == queue[1]
<1>0. /\ Types /\ LineOK /\ Head(queue) = n /\ n \in Int /\ 1 \in 1..Len(queue)
      /\ Len(queue) \in Nat /\ Len(frames) \in Nat /\ DOMAIN frames = 1..Len(frames)
      /\ \A i \in 1..Len(queue) : queue[i] \in Int
      /\ \A i \in 1..Len(frames) : frames[i] \in Int
  BY QueueFacts, GetFacts DEF IInv
<1> HIDE DEF n
<1>1. n > 0 /\ n >= 0
  BY <1>0, SMT DEF n
<1>2. /\ call = "wait" /\ call' = "out" /\ frames' = Append(frames, n)
      /\ UNCHANGED <<sent, input, reasons>>
  BY <1>0, <1>1 DEF Get, Return
<1>3. Delivered = frames /\ Delivered' = Append(frames, n)
  BY <1>2, DeliveredIsFrames
<1>4. FrameSet = {m \in 1..Len(sent) : sent[m] = "ext"} /\ UNCHANGED FrameSet /\ UNCHANGED Damaged
  BY <1>0, <1>2, FrameSetFacts DEF FrameSet, Damaged, Types
<1>5. n \in FrameSet
  BY <1>0, <1>1, <1>4 DEF IInv, InOrder, WasSent, n
<1>6. \A i \in DOMAIN frames : frames[i] < n
  BY <1>0, <1>1 DEF IInv, InOrder, n
<1>7. ASSUME NEW m \in FrameSet, \A i \in DOMAIN frames : frames[i] < m, m < n
      PROVE  m \in Damaged
  <2>1. CASE reasons = {}
    <3>1. Accounted(m) /\ m \in Nat /\ m > 0
      <4>1. m \in 1..Len(sent) /\ sent[m] = "ext"
        BY <1>4
      <4> QED
        BY <2>1, <4>1, SMT DEF IInv, InPlace, NoneSkipped
    <3>2. ~ (m < m)
      BY <3>1, SMT
    <3>3. ASSUME NEW i \in 1..Len(queue), queue[i] = m PROVE FALSE
      <4>1. i # 1
        BY <1>7, <3>2, <3>3 DEF n
      <4>2. 1 < i
        BY <1>0, <4>1, SMT
      <4>3. n < m
        BY <1>0, <1>1, <3>1, <3>3, <4>2 DEF IInv, InOrder, n
      <4> QED
        BY <1>0, <1>7, <3>1, <4>3, SMT
    <3>4. ASSUME NEW i \in 1..Len(input), input[i] = Byte(m, 4) PROVE FALSE
      <4>1. n < m
        BY <1>0, <1>1, <3>4, ByteFacts DEF IInv, NewerToCome, n
      <4> QED
        BY <1>0, <1>7, <3>1, <4>1, SMT
    <3> QED
      BY <1>0, <1>7, <3>1, <3>2, <3>3, <3>4 DEF Accounted
  <2>2. CASE reasons # {}
    BY <2>2 DEF Damaged
  <2> QED
    BY <2>1, <2>2
<1>8. Adapter!Newer(n)
  BY <1>3, <1>6 DEF Adapter!Newer, Delivered
<1>9. \A m \in FrameSet : Adapter!Newer(m) /\ m < n => m \in Damaged
  BY <1>3, <1>7 DEF Adapter!Newer, Delivered
<1>10. Adapter!Deliver(n)
  BY <1>2, <1>3, <1>4, <1>8, <1>9 DEF Adapter!Deliver, Delivered, Damaged
<1> QED
  BY <1>5, <1>10 DEF n

LEMMA GetRefines ==
  ASSUME IInv, IInv', Get
  PROVE  [Adapter!Next]_(Adapter!vars)
<1>0. Types /\ Head(queue) = queue[1] /\ queue[1] \in Int /\ 1 \in 1..Len(queue)
      /\ UNCHANGED <<sent, reasons>> /\ call = "wait"
  BY GetFacts DEF IInv, Get
<1>1. CASE queue[1] > 0
  BY <1>1, DeliverRefines DEF Adapter!Next
<1>2. CASE ~ (queue[1] > 0)
  <2>1. frames' = frames
    BY <1>0, <1>2 DEF Get
  <2>2. CASE call' = "out"
    <3>1. Adapter!Raise
      BY <1>0, <2>1, <2>2, NoFrameMoves DEF Adapter!Raise, Delivered, Damaged
    <3> QED
      BY <3>1 DEF Adapter!Next
  <2>3. CASE call' # "out"
    <3>1. Adapter!Damage
      BY <1>0, <2>1, <2>3, QuietRefines
    <3> QED
      BY <3>1 DEF Adapter!Next
  <2> QED
    BY <2>2, <2>3
<1> QED
  BY <1>1, <1>2

LEMMA NextRefines ==
  ASSUME IInv, IInv', [Next]_vars
  PROVE  [Adapter!Next]_(Adapter!vars)
<1>1. CASE \E kind \in Kind : Transmit(kind)
  BY <1>1, TransmitRefines DEF Adapter!Next
<1>2. CASE Unplug \/ Read \/ Silence \/ SilenceInside \/ Clock \/ UNCHANGED vars
  <2>1. UNCHANGED <<sent, frames, call>>
    BY <1>2 DEF Unplug, Read, ReadSync, ReadType, ReadLength, ReadPayload, Silence,
                SilenceInside, Clock, vars, caller
  <2>2. reasons \subseteq reasons'
    BY <1>2 DEF Unplug, Read, ReadSync, ReadType, ReadLength, ReadPayload, Silence,
                SilenceInside, Clock, vars
  <2> QED
    BY <2>1, <2>2, QuietRefines DEF Adapter!Next
<1>3. CASE Call
  <2>1. UNCHANGED <<sent, frames, reasons>> /\ call = "out" /\ call' = "check"
    BY <1>3 DEF Call
  <2>2. Adapter!Call
    BY <2>1, NoFrameMoves DEF Adapter!Call, Delivered, Damaged
  <2> QED
    BY <2>2 DEF Adapter!Next
<1>4. CASE Check \/ Empty
  <2>1. UNCHANGED <<sent, frames, reasons>> /\ call # "out"
    BY <1>4 DEF Check, Empty
  <2>2. CASE call' = "out"
    <3>1. Adapter!Raise
      BY <2>1, <2>2, NoFrameMoves DEF Adapter!Raise, Delivered, Damaged
    <3> QED
      BY <3>1 DEF Adapter!Next
  <2>3. CASE call' # "out"
    BY <2>1, <2>3, QuietRefines DEF Adapter!Next
  <2> QED
    BY <2>2, <2>3
<1>5. CASE Get
  BY <1>5, GetRefines
<1> QED
  BY <1>1, <1>2, <1>3, <1>4, <1>5 DEF Next

(* The adapter does what BusAdapter promises the code above receive().     *)
THEOREM OcarinaIsABusAdapter == Spec => ImplementsBusAdapter
<1>1. Init => Adapter!Init
  BY InitRefines
<1>2. IInv /\ IInv' /\ [Next]_vars => [Adapter!Next]_(Adapter!vars)
  BY NextRefines
<1> QED
  BY <1>1, <1>2, Invariance, PTL DEF Spec, ImplementsBusAdapter, Adapter!Spec
=============================================================================
