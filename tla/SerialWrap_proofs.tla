------------------------- MODULE SerialWrap_proofs -------------------------
(***************************************************************************)
(* The serial-wrapped adapter, for any code length, any number of frames   *)
(* sent and any number of bytes lost, changed or inserted on the line: the *)
(* frames whose bytes arrive whole are got, in order, none is left in the  *)
(* buffer when nothing more comes, and the adapter implements BusAdapter.  *)
(* At the end, what follows for the callers of any adapter that does.      *)
(***************************************************************************)
EXTENDS SerialWrap, SequenceTheorems, TLAPS

-----------------------------------------------------------------------------
(* Sequences.                                                              *)

(* A part of a sequence.                                                   *)
LEMMA Part ==
  ASSUME NEW S, NEW s \in Seq(S), NEW a \in Nat \ {0}, NEW b \in Nat,
         a <= b + 1, b <= Len(s)
  PROVE  /\ SubSeq(s, a, b) \in Seq(S)
         /\ Len(SubSeq(s, a, b)) = b - a + 1
         /\ \A i \in 1..(b - a + 1) : SubSeq(s, a, b)[i] = s[a + i - 1]
<1>1. Len(s) \in Nat
  BY LenProperties
<1>2. \A i \in a..b : i \in 1..Len(s)
  BY <1>1, SMT
<1>3. \A i \in a..b : s[i] \in S
  BY <1>2, ElementOfSeq
<1>4. a \in Int /\ b \in Int /\ (IF a <= b THEN b - a + 1 ELSE 0) = b - a + 1
  BY SMT
<1> QED
  BY <1>3, <1>4, SubSeqProperties

-----------------------------------------------------------------------------
(* The bytes between the other end and the frames got: those in the buffer *)
(* of receive() and those still on the line.                               *)

Stream == buffer \o line

\* Frames follow each other, and so do the bytes of one; noise is anywhere.
Ordered(s) ==
  \A i, j \in 1..Len(s) : i < j =>
    /\ s[i].frame <= s[j].frame
    /\ s[i].frame = s[j].frame /\ s[i].place # 0 /\ s[j].place # 0 => s[i].place < s[j].place

\* Of the frames got no byte of code is left, and of older ones nothing.
Passed(frames, s) ==
  \A i \in 1..Len(frames), j \in 1..Len(s) :
    /\ frames[i] <= s[j].frame
    /\ frames[i] = s[j].frame => s[j].place \notin 1..CODE_LENGTH

NoneAfter(s, last) == \A j \in 1..Len(s) : s[j].frame <= last

\* The frame is there from byte k on, whole: its first zero, unless that has
\* been read, its code, and its last zero.
WholeAt(s, frame, k) ==
  /\ k + CODE_LENGTH + 1 <= Len(s)
  /\ \A i \in 1..CODE_LENGTH : s[k + i] = Byte(frame, i, "code")
  /\ s[k + CODE_LENGTH + 1] = Byte(frame, CODE_LENGTH + 1, "zero")
  /\ k # 0 => s[k] = Byte(frame, 0, "zero")

Whole(s, frame) == \E k \in Nat : WholeAt(s, frame, k)

Out(frame) == \E i \in 1..Len(got) : got[i] = frame

\* receive() takes every frame out as soon as its last zero is there.
BufferOK ==
  /\ \A i \in Delimiters : i = Len(buffer)
  /\ pc # "parse" => Delimiters = {}

IInv ==
  /\ TypeOK
  /\ Ordered(Stream) /\ Passed(got, Stream) /\ NoneAfter(Stream, sent)
  /\ \A i \in 1..Len(got) : got[i] <= sent
  /\ hit \subseteq 0..sent /\ 0 \in hit
  /\ \A frame \in (1..sent) \ hit : Whole(Stream, frame) \/ Out(frame)
  /\ BufferOK

LEMMA Lengths ==
  /\ CODE_LENGTH \in Nat \ {0} /\ MaxFrames \in Nat /\ MaxFaults \in Nat
BY SerialAssumption

LEMMA ByteType ==
  ASSUME NEW frame \in Nat, NEW place \in 0..CODE_LENGTH + 1, NEW is \in {"zero", "code", "other"}
  PROVE  /\ Byte(frame, place, is) \in AByte
         /\ Byte(frame, place, is).frame = frame
         /\ Byte(frame, place, is).place = place
         /\ Byte(frame, place, is).is = is
BY DEF Byte, AByte

LEMMA Fields ==
  ASSUME NEW b \in AByte
  PROVE  b.frame \in Nat /\ b.place \in Nat /\ b.place \in 0..CODE_LENGTH + 1
         /\ b.is \in {"zero", "code", "other"}
BY Lengths, SMT DEF AByte

\* What byte m of a frame on the wire is.
Kind(m) == IF m = 1 \/ m = CODE_LENGTH + 2 THEN "zero" ELSE "code"

LEMMA WireFacts ==
  ASSUME NEW frame \in Nat
  PROVE  /\ Wire(frame) \in Seq(AByte) /\ Len(Wire(frame)) = CODE_LENGTH + 2
         /\ \A m \in 1..(CODE_LENGTH + 2) : Wire(frame)[m] = Byte(frame, m - 1, Kind(m))
         /\ Codes(frame) \in Seq(AByte) /\ Len(Codes(frame)) = CODE_LENGTH
         /\ \A m \in 1..CODE_LENGTH : Codes(frame)[m] = Byte(frame, m, "code")
<1> DEFINE first == <<Byte(frame, 0, "zero")>>
           last == <<Byte(frame, CODE_LENGTH + 1, "zero")>>
           codes == Codes(frame)
<1>0. CODE_LENGTH \in Nat \ {0}
  BY Lengths
<1>1. /\ codes \in Seq(AByte) /\ Len(codes) = CODE_LENGTH
      /\ \A m \in 1..CODE_LENGTH : codes[m] = Byte(frame, m, "code")
  <2>1. \A m \in 1..CODE_LENGTH : m \in 0..CODE_LENGTH + 1
    BY <1>0, SMT
  <2>2. \A m \in 1..CODE_LENGTH : Byte(frame, m, "code") \in AByte
    BY <2>1, ByteType
  <2>3. codes \in [1..CODE_LENGTH -> AByte]
    BY <2>2 DEF Codes
  <2>4. codes \in Seq(AByte) /\ Len(codes) = CODE_LENGTH
    BY <1>0, <2>3, SMT
  <2> QED
    BY <2>4 DEF Codes
<1>2. /\ first \in Seq(AByte) /\ Len(first) = 1 /\ first[1] = Byte(frame, 0, "zero")
      /\ last \in Seq(AByte) /\ Len(last) = 1 /\ last[1] = Byte(frame, CODE_LENGTH + 1, "zero")
  <2>1. 0 \in 0..CODE_LENGTH + 1 /\ CODE_LENGTH + 1 \in 0..CODE_LENGTH + 1
    BY <1>0, SMT
  <2>2. Byte(frame, 0, "zero") \in AByte /\ Byte(frame, CODE_LENGTH + 1, "zero") \in AByte
    BY <2>1, ByteType
  <2> QED
    BY <2>2, SMT
<1> HIDE DEF first, last, codes
<1>3. /\ first \o codes \in Seq(AByte) /\ Len(first \o codes) = 1 + CODE_LENGTH
      /\ \A m \in 1..1 + CODE_LENGTH :
           (first \o codes)[m] = IF m <= 1 THEN first[m] ELSE codes[m - 1]
  <2>1. /\ first \o codes \in Seq(AByte) /\ Len(first \o codes) = Len(first) + Len(codes)
        /\ \A m \in 1..(Len(first) + Len(codes)) :
             (first \o codes)[m] = IF m <= Len(first) THEN first[m] ELSE codes[m - Len(first)]
    BY <1>1, <1>2, ConcatProperties
  <2> QED
    BY <1>1, <1>2, <2>1
<1>4. /\ (first \o codes) \o last \in Seq(AByte)
      /\ Len((first \o codes) \o last) = 1 + CODE_LENGTH + 1
      /\ \A m \in 1..1 + CODE_LENGTH + 1 :
           ((first \o codes) \o last)[m]
             = IF m <= 1 + CODE_LENGTH THEN (first \o codes)[m] ELSE last[m - (1 + CODE_LENGTH)]
  <2> DEFINE front == first \o codes
  <2>1. front \in Seq(AByte) /\ Len(front) = 1 + CODE_LENGTH
    BY <1>3
  <2> HIDE DEF front
  <2>2. /\ front \o last \in Seq(AByte) /\ Len(front \o last) = Len(front) + Len(last)
        /\ \A m \in 1..(Len(front) + Len(last)) :
             (front \o last)[m] = IF m <= Len(front) THEN front[m] ELSE last[m - Len(front)]
    BY <1>2, <2>1, ConcatProperties
  <2>3. /\ front \o last \in Seq(AByte) /\ Len(front \o last) = 1 + CODE_LENGTH + 1
        /\ \A m \in 1..1 + CODE_LENGTH + 1 :
             (front \o last)[m] = IF m <= 1 + CODE_LENGTH THEN front[m] ELSE last[m - (1 + CODE_LENGTH)]
    BY <1>2, <2>1, <2>2
  <2> QED
    BY <2>3 DEF front
<1>5. Wire(frame) = (first \o codes) \o last
  BY DEF Wire, first, last, codes
<1>6. ASSUME NEW m \in 1..(CODE_LENGTH + 2)
      PROVE  Wire(frame)[m] = Byte(frame, m - 1, Kind(m))
  <2>1. m \in 1..1 + CODE_LENGTH + 1
    BY <1>0, SMT
  <2>2. CASE m = 1
    <3>1. m \in 1..1 + CODE_LENGTH /\ m <= 1 + CODE_LENGTH /\ m <= 1 /\ m - 1 = 0
      BY <1>0, <2>2, SMT
    <3> QED
      BY <1>2, <1>3, <1>4, <1>5, <2>1, <2>2, <3>1 DEF Kind
  <2>3. CASE m # 1 /\ m <= 1 + CODE_LENGTH
    <3>1. m \in 1..1 + CODE_LENGTH /\ ~ (m <= 1) /\ m - 1 \in 1..CODE_LENGTH
          /\ ~ (m = CODE_LENGTH + 2)
      BY <1>0, <2>3, SMT
    <3> QED
      BY <1>1, <1>3, <1>4, <1>5, <2>1, <2>3, <3>1 DEF Kind
  <2>4. CASE ~ (m <= 1 + CODE_LENGTH)
    <3>1. m = CODE_LENGTH + 2 /\ m - (1 + CODE_LENGTH) = 1 /\ m - 1 = CODE_LENGTH + 1
      BY <1>0, <2>4, SMT
    <3> QED
      BY <1>2, <1>4, <1>5, <2>1, <2>4, <3>1 DEF Kind
  <2>5. m = 1 \/ (m # 1 /\ m <= 1 + CODE_LENGTH) \/ ~ (m <= 1 + CODE_LENGTH)
    OBVIOUS
  <2> QED
    BY <2>2, <2>3, <2>4, <2>5
<1>7. 1 + CODE_LENGTH + 1 = CODE_LENGTH + 2
  BY <1>0, SMT
<1> QED
  BY <1>1, <1>4, <1>5, <1>6, <1>7 DEF codes

(* What comes after a sequence of bytes.                                   *)
LEMMA Joined ==
  ASSUME NEW b \in Seq(AByte), NEW l \in Seq(AByte)
  PROVE  /\ b \o l \in Seq(AByte) /\ Len(b \o l) = Len(b) + Len(l)
         /\ Len(b) \in Nat /\ Len(l) \in Nat
         /\ DOMAIN b = 1..Len(b) /\ DOMAIN l = 1..Len(l)
         /\ \A m \in 1..(Len(b) + Len(l)) :
              /\ (b \o l)[m] = IF m <= Len(b) THEN b[m] ELSE l[m - Len(b)]
              /\ (b \o l)[m] \in AByte
         /\ \A i \in 1..Len(b) : (b \o l)[i] = b[i] /\ i \in 1..(Len(b) + Len(l))
         /\ \A i \in 1..Len(l) :
              /\ (b \o l)[Len(b) + i] = l[i] /\ l[i] \in AByte
              /\ Len(b) + i \in 1..(Len(b) + Len(l))
<1>2. /\ Len(b) \in Nat /\ Len(l) \in Nat
      /\ DOMAIN b = 1..Len(b) /\ DOMAIN l = 1..Len(l)
  BY LenProperties
<1>3. /\ b \o l \in Seq(AByte) /\ Len(b \o l) = Len(b) + Len(l)
      /\ \A m \in 1..(Len(b) + Len(l)) :
           (b \o l)[m] = IF m <= Len(b) THEN b[m] ELSE l[m - Len(b)]
  BY ConcatProperties
<1>4. \A m \in 1..(Len(b) + Len(l)) : (b \o l)[m] \in AByte
  BY <1>3, ElementOfSeq
<1>5. ASSUME NEW i \in 1..Len(b) PROVE (b \o l)[i] = b[i] /\ i \in 1..(Len(b) + Len(l))
  <2>1. i \in 1..(Len(b) + Len(l)) /\ i <= Len(b)
    BY <1>2, SMT
  <2> QED
    BY <1>3, <2>1
<1>6. ASSUME NEW i \in 1..Len(l)
      PROVE  /\ (b \o l)[Len(b) + i] = l[i] /\ l[i] \in AByte
             /\ Len(b) + i \in 1..(Len(b) + Len(l))
  <2>1. /\ Len(b) + i \in 1..(Len(b) + Len(l))
        /\ ~ (Len(b) + i <= Len(b)) /\ Len(b) + i - Len(b) = i
    BY <1>2, SMT
  <2> QED
    BY <1>3, <2>1, ElementOfSeq
<1> QED
  BY <1>2, <1>3, <1>4, <1>5, <1>6

(* What the line does to the bytes from b on.                              *)
LEMMA Removed ==
  ASSUME NEW b \in Seq(AByte), NEW l \in Seq(AByte), NEW i \in 1..Len(l)
  PROVE  LET without == SubSeq(l, 1, i - 1) \o SubSeq(l, i + 1, Len(l))
             t == b \o without
             s == b \o l
             j == Len(b) + i
         IN  /\ without \in Seq(AByte) /\ t \in Seq(AByte)
             /\ j \in 1..Len(s) /\ s[j] = l[i] /\ Len(t) = Len(s) - 1
             /\ \A e \in 1..Len(t) : t[e] = IF e < j THEN s[e] ELSE s[e + 1]
<1> DEFINE left == SubSeq(l, 1, i - 1)
           right == SubSeq(l, i + 1, Len(l))
           without == left \o right
           j == Len(b) + i
<1>0. Len(b) \in Nat /\ Len(l) \in Nat /\ i \in Nat \ {0} /\ i <= Len(l)
  BY LenProperties, SMT
<1>1. /\ left \in Seq(AByte) /\ Len(left) = i - 1
      /\ \A m \in 1..(i - 1) : left[m] = l[m]
  <2>1. 1 \in Nat \ {0} /\ i - 1 \in Nat /\ 1 <= i - 1 + 1 /\ i - 1 <= Len(l)
        /\ i - 1 - 1 + 1 = i - 1
    BY <1>0, SMT
  <2>2. \A m \in 1..(i - 1) : 1 + m - 1 = m
    BY <1>0, SMT
  <2>3. /\ left \in Seq(AByte) /\ Len(left) = i - 1 - 1 + 1
        /\ \A m \in 1..(i - 1 - 1 + 1) : left[m] = l[1 + m - 1]
    BY <2>1, Part
  <2> QED
    BY <2>1, <2>2, <2>3
<1>2. /\ right \in Seq(AByte) /\ Len(right) = Len(l) - i
      /\ \A m \in 1..(Len(l) - i) : right[m] = l[i + m]
  <2> DEFINE a == i + 1
  <2>1. a \in Nat \ {0} /\ a <= Len(l) + 1 /\ Len(l) <= Len(l)
        /\ Len(l) - a + 1 = Len(l) - i
    BY <1>0, SMT
  <2>2. \A m \in 1..(Len(l) - i) : a + m - 1 = i + m
    BY <1>0, SMT
  <2>4. right = SubSeq(l, a, Len(l))
    OBVIOUS
  <2> HIDE DEF a, right
  <2>3. /\ right \in Seq(AByte) /\ Len(right) = Len(l) - a + 1
        /\ \A m \in 1..(Len(l) - a + 1) : right[m] = l[a + m - 1]
    BY <1>0, <2>1, <2>4, Part
  <2> QED
    BY <2>1, <2>2, <2>3
<1> HIDE DEF left, right
<1>3. /\ without \in Seq(AByte) /\ Len(without) = Len(l) - 1
      /\ \A m \in 1..(Len(l) - 1) : without[m] = IF m < i THEN l[m] ELSE l[m + 1]
  <2>1. /\ without \in Seq(AByte) /\ Len(without) = Len(left) + Len(right)
        /\ \A m \in 1..(Len(left) + Len(right)) :
             without[m] = IF m <= Len(left) THEN left[m] ELSE right[m - Len(left)]
    BY <1>1, <1>2, Joined
  <2>2. Len(left) + Len(right) = Len(l) - 1
    BY <1>0, <1>1, <1>2, SMT
  <2>3. ASSUME NEW m \in 1..(Len(l) - 1) PROVE without[m] = IF m < i THEN l[m] ELSE l[m + 1]
    <3>1. CASE m < i
      <4>1. m \in 1..(i - 1) /\ m <= i - 1
        BY <1>0, <3>1, SMT
      <4> QED
        BY <1>1, <2>1, <2>2, <3>1, <4>1
    <3>2. CASE ~ (m < i)
      <4>1. ~ (m <= i - 1) /\ m - (i - 1) \in 1..(Len(l) - i) /\ i + (m - (i - 1)) = m + 1
        BY <1>0, <3>2, SMT
      <4> QED
        BY <1>1, <1>2, <2>1, <2>2, <3>2, <4>1, ZenonT(60)
    <3> QED
      BY <3>1, <3>2
  <2> QED
    BY <2>1, <2>2, <2>3
<1> HIDE DEF without
<1> DEFINE t == b \o without
           s == b \o l
<1>4. /\ t \in Seq(AByte) /\ Len(t) = Len(b) + Len(without)
      /\ \A m \in 1..(Len(b) + Len(without)) :
           t[m] = IF m <= Len(b) THEN b[m] ELSE without[m - Len(b)]
  BY <1>3, Joined
<1>5. /\ Len(s) = Len(b) + Len(l) /\ s[j] = l[i]
      /\ \A m \in 1..(Len(b) + Len(l)) : s[m] = IF m <= Len(b) THEN b[m] ELSE l[m - Len(b)]
  BY Joined
<1> HIDE DEF t, s
<1>6. Len(t) = Len(s) - 1 /\ j \in 1..Len(s)
  BY <1>0, <1>3, <1>4, <1>5, SMT
<1>7. ASSUME NEW e \in 1..Len(t) PROVE t[e] = IF e < j THEN s[e] ELSE s[e + 1]
  <2>0. e \in 1..(Len(b) + Len(without)) /\ e \in 1..(Len(b) + Len(l))
        /\ e + 1 \in 1..(Len(b) + Len(l))
    BY <1>0, <1>3, <1>4, <1>5, <1>6, SMT
  <2>1. CASE e <= Len(b)
    <3>1. e < j
      BY <1>0, <2>1, SMT
    <3> QED
      BY <1>4, <1>5, <2>0, <2>1, <3>1
  <2>2. CASE ~ (e <= Len(b)) /\ e < j
    <3>1. e - Len(b) \in 1..(Len(l) - 1) /\ e - Len(b) < i
      BY <1>0, <1>3, <2>0, <2>2, SMT
    <3> QED
      BY <1>3, <1>4, <1>5, <2>0, <2>2, <3>1
  <2>3. CASE ~ (e < j)
    <3>1. /\ e - Len(b) \in 1..(Len(l) - 1) /\ ~ (e - Len(b) < i) /\ ~ (e <= Len(b))
          /\ ~ (e + 1 <= Len(b)) /\ (e + 1) - Len(b) = (e - Len(b)) + 1
      BY <1>0, <1>3, <2>0, <2>3, SMT
    <3>2. t[e] = l[(e - Len(b)) + 1]
      BY <1>3, <1>4, <2>0, <3>1
    <3>3. s[e + 1] = l[(e + 1) - Len(b)]
      BY <1>5, <2>0, <3>1
    <3> QED
      BY <2>3, <3>1, <3>2, <3>3
  <2> QED
    BY <2>1, <2>2, <2>3
<1> QED
  BY <1>3, <1>4, <1>5, <1>6, <1>7 DEF t, s, without, left, right

(* A byte x in front of byte i.                                            *)
With(l, i, x) == SubSeq(l, 1, i - 1) \o <<x>> \o SubSeq(l, i, Len(l))

IsInserted(t, s, j, x) ==
  /\ t \in Seq(AByte) /\ j \in 1..Len(s) /\ Len(t) = Len(s) + 1
  /\ \A e \in 1..Len(t) : t[e] = IF e < j THEN s[e] ELSE IF e = j THEN x ELSE s[e - 1]

LEMMA Inserted ==
  ASSUME NEW b \in Seq(AByte), NEW l \in Seq(AByte), NEW i \in 1..Len(l), NEW x \in AByte
  PROVE  /\ With(l, i, x) \in Seq(AByte) /\ (b \o l)[Len(b) + i] = l[i]
         /\ IsInserted(b \o With(l, i, x), b \o l, Len(b) + i, x)
<1> DEFINE left == SubSeq(l, 1, i - 1)
           right == SubSeq(l, i, Len(l))
           front == left \o <<x>>
           with == front \o right
           t == b \o with
           s == b \o l
           j == Len(b) + i
<1>0. Len(b) \in Nat /\ Len(l) \in Nat /\ i \in Nat \ {0} /\ i <= Len(l)
  BY LenProperties, SMT
<1>1. /\ left \in Seq(AByte) /\ Len(left) = i - 1
      /\ \A m \in 1..(i - 1) : left[m] = l[m]
  <2>1. 1 \in Nat \ {0} /\ i - 1 \in Nat /\ 1 <= i - 1 + 1 /\ i - 1 <= Len(l)
        /\ i - 1 - 1 + 1 = i - 1
    BY <1>0, SMT
  <2>2. \A m \in 1..(i - 1) : 1 + m - 1 = m
    BY <1>0, SMT
  <2>3. /\ left \in Seq(AByte) /\ Len(left) = i - 1 - 1 + 1
        /\ \A m \in 1..(i - 1 - 1 + 1) : left[m] = l[1 + m - 1]
    BY <2>1, Part
  <2> QED
    BY <2>1, <2>2, <2>3
<1>2. /\ right \in Seq(AByte) /\ Len(right) = Len(l) - i + 1
      /\ \A m \in 1..(Len(l) - i + 1) : right[m] = l[i + m - 1]
  <2>1. i <= Len(l) + 1 /\ Len(l) <= Len(l) /\ i \in Nat \ {0} /\ Len(l) \in Nat
    BY <1>0, SMT
  <2> QED
    BY <2>1, Part
<1> HIDE DEF left, right
<1>3. /\ front \in Seq(AByte) /\ Len(front) = i
      /\ \A m \in 1..i : front[m] = IF m < i THEN l[m] ELSE x
  <2>1. <<x>> \in Seq(AByte) /\ Len(<<x>>) = 1 /\ <<x>>[1] = x
    BY SMT
  <2>2. /\ front \in Seq(AByte) /\ Len(front) = Len(left) + Len(<<x>>)
        /\ \A m \in 1..(Len(left) + Len(<<x>>)) :
             front[m] = IF m <= Len(left) THEN left[m] ELSE <<x>>[m - Len(left)]
    BY <1>1, <2>1, Joined, SMTT(60)
  <2>3. Len(left) + Len(<<x>>) = i
    BY <1>0, <1>1, <2>1, SMT
  <2>4. ASSUME NEW m \in 1..i PROVE front[m] = IF m < i THEN l[m] ELSE x
    <3>1. CASE m < i
      <4>1. m \in 1..(i - 1) /\ m <= i - 1
        BY <1>0, <3>1, SMT
      <4> QED
        BY <1>1, <2>2, <2>3, <3>1, <4>1
    <3>2. CASE ~ (m < i)
      <4>1. ~ (m <= i - 1) /\ m - (i - 1) = 1
        BY <1>0, <3>2, SMT
      <4> QED
        BY <1>1, <2>1, <2>2, <2>3, <3>2, <4>1
    <3> QED
      BY <3>1, <3>2
  <2> QED
    BY <2>2, <2>3, <2>4
<1> HIDE DEF front
<1>4. /\ with \in Seq(AByte) /\ Len(with) = Len(l) + 1
      /\ \A m \in 1..(Len(l) + 1) :
           with[m] = IF m < i THEN l[m] ELSE IF m = i THEN x ELSE l[m - 1]
  <2>1. /\ with \in Seq(AByte) /\ Len(with) = Len(front) + Len(right)
        /\ \A m \in 1..(Len(front) + Len(right)) :
             with[m] = IF m <= Len(front) THEN front[m] ELSE right[m - Len(front)]
    BY <1>2, <1>3, Joined, ZenonT(60)
  <2>2. Len(front) + Len(right) = Len(l) + 1
    BY <1>0, <1>2, <1>3, SMT
  <2>3. ASSUME NEW m \in 1..(Len(l) + 1)
        PROVE  with[m] = IF m < i THEN l[m] ELSE IF m = i THEN x ELSE l[m - 1]
    <3>1. CASE m <= i
      <4>1. m \in 1..i /\ (~ (m < i) => m = i)
        BY <1>0, <3>1, SMT
      <4> QED
        BY <1>3, <2>1, <2>2, <3>1, <4>1
    <3>2. CASE ~ (m <= i)
      <4>1. /\ ~ (m < i) /\ m # i /\ m - i \in 1..(Len(l) - i + 1)
            /\ i + (m - i) - 1 = m - 1
        BY <1>0, <3>2, SMT
      <4> QED
        BY <1>2, <1>3, <2>1, <2>2, <3>2, <4>1
    <3> QED
      BY <3>1, <3>2
  <2> QED
    BY <2>1, <2>2, <2>3
<1> HIDE DEF with
<1>5. /\ t \in Seq(AByte) /\ Len(t) = Len(b) + Len(with)
      /\ \A m \in 1..(Len(b) + Len(with)) :
           t[m] = IF m <= Len(b) THEN b[m] ELSE with[m - Len(b)]
  <2>1. /\ b \o with \in Seq(AByte) /\ Len(b \o with) = Len(b) + Len(with)
        /\ \A m \in 1..(Len(b) + Len(with)) :
             (b \o with)[m] = IF m <= Len(b) THEN b[m] ELSE with[m - Len(b)]
    BY <1>4, Joined
  <2> QED
    BY <2>1
<1>6. /\ Len(s) = Len(b) + Len(l) /\ s[j] = l[i]
      /\ \A m \in 1..(Len(b) + Len(l)) : s[m] = IF m <= Len(b) THEN b[m] ELSE l[m - Len(b)]
  BY Joined
<1> HIDE DEF t, s
<1>7. Len(t) = Len(s) + 1 /\ j \in 1..Len(s)
  BY <1>0, <1>4, <1>5, <1>6, SMT
<1>8. ASSUME NEW e \in 1..Len(t)
      PROVE  t[e] = IF e < j THEN s[e] ELSE IF e = j THEN x ELSE s[e - 1]
  <2>0. e \in 1..(Len(b) + Len(with)) /\ (e < j => e \in 1..(Len(b) + Len(l)))
        /\ (~ (e <= j) => e - 1 \in 1..(Len(b) + Len(l)))
    BY <1>0, <1>4, <1>5, SMT
  <2>1. CASE e <= Len(b)
    <3>1. e < j
      BY <1>0, <2>1, SMT
    <3> QED
      BY <1>5, <1>6, <2>0, <2>1, <3>1
  <2>2. CASE ~ (e <= Len(b)) /\ e < j
    <3>1. e - Len(b) \in 1..(Len(l) + 1) /\ e - Len(b) < i
      BY <1>0, <1>4, <2>0, <2>2, SMT
    <3> QED
      BY <1>4, <1>5, <1>6, <2>0, <2>2, <3>1
  <2>3. CASE e = j
    <3>1. e - Len(b) \in 1..(Len(l) + 1) /\ e - Len(b) = i /\ ~ (e <= Len(b))
          /\ ~ (e < j) /\ ~ (i < i)
      BY <1>0, <2>3, SMT
    <3> QED
      BY <1>4, <1>5, <2>0, <2>3, <3>1
  <2>4. CASE ~ (e < j) /\ e # j
    <3>a. Len(with) = Len(l) + 1
      BY <1>4
    <3>b. e \in 1..(Len(b) + Len(with))
      BY <2>0
    <3>c. ~ (e < Len(b) + i) /\ e # Len(b) + i
      BY <1>0, <2>4
    <3>0. e \in Int /\ e <= Len(b) + Len(l) + 1 /\ e > Len(b) + i
      BY <1>0, <3>a, <3>b, <3>c, SMT
    <3>1. /\ e - Len(b) \in 1..(Len(l) + 1) /\ ~ (e - Len(b) < i) /\ e - Len(b) # i
          /\ ~ (e <= Len(b)) /\ ~ (e - 1 <= Len(b)) /\ (e - 1) - Len(b) = (e - Len(b)) - 1
          /\ ~ (e <= j)
      BY <1>0, <3>0, SMT
    <3>2. t[e] = l[(e - Len(b)) - 1]
      BY <1>4, <1>5, <2>0, <3>1
    <3>3. s[e - 1] = l[(e - 1) - Len(b)]
      BY <1>6, <2>0, <3>1
    <3> QED
      BY <2>4, <3>1, <3>2, <3>3
  <2> QED
    BY <2>1, <2>2, <2>3, <2>4
<1> QED
  BY <1>4, <1>5, <1>6, <1>7, <1>8 DEF t, s, with, front, left, right, With, IsInserted

-----------------------------------------------------------------------------
(* What becomes of the order when bytes disappear, change, or come in      *)
(* between: t follows s if each of its bytes stands for one of s, in the   *)
(* same order, and two for the same only if one of them is noise.          *)

Follows(t, s, h) ==
  /\ \A e \in 1..Len(t) :
       /\ h[e] \in 1..Len(s)
       /\ t[e].frame = s[h[e]].frame
       /\ t[e].place \in {s[h[e]].place, 0}
  /\ \A e, f \in 1..Len(t) : e < f =>
       \/ h[e] < h[f]
       \/ h[e] = h[f] /\ (t[e].place = 0 \/ t[f].place = 0)

LEMMA FollowsKeeps ==
  ASSUME NEW t \in Seq(AByte), NEW s \in Seq(AByte), NEW h, Follows(t, s, h), Ordered(s)
  PROVE  /\ Ordered(t)
         /\ \A frames : Passed(frames, s) => Passed(frames, t)
         /\ \A last : NoneAfter(s, last) => NoneAfter(t, last)
<1>0. /\ \A e \in 1..Len(t) : t[e] \in AByte
      /\ \A e \in 1..Len(s) : s[e] \in AByte
  BY ElementOfSeq
<1>1. ASSUME NEW e \in 1..Len(t), NEW f \in 1..Len(t), e < f
      PROVE  /\ t[e].frame <= t[f].frame
             /\ t[e].frame = t[f].frame /\ t[e].place # 0 /\ t[f].place # 0 =>
                  t[e].place < t[f].place
  <2>1. /\ h[e] \in 1..Len(s) /\ t[e].frame = s[h[e]].frame /\ t[e].place \in {s[h[e]].place, 0}
        /\ h[f] \in 1..Len(s) /\ t[f].frame = s[h[f]].frame /\ t[f].place \in {s[h[f]].place, 0}
    BY DEF Follows
  <2>2. CASE h[e] < h[f]
    <3>1. /\ s[h[e]].frame <= s[h[f]].frame
          /\ s[h[e]].frame = s[h[f]].frame /\ s[h[e]].place # 0 /\ s[h[f]].place # 0 =>
               s[h[e]].place < s[h[f]].place
      BY <2>1, <2>2 DEF Ordered
    <3> QED
      BY <2>1, <3>1
  <2>3. CASE h[e] = h[f] /\ (t[e].place = 0 \/ t[f].place = 0)
    <3>1. t[e].frame = t[f].frame /\ t[e].frame \in Nat
      BY <1>0, <2>1, <2>3, Fields
    <3> QED
      BY <2>3, <3>1, SMT
  <2> QED
    BY <1>1, <2>2, <2>3 DEF Follows
<1>2. Ordered(t)
  BY <1>1 DEF Ordered
<1>3. ASSUME NEW frames, Passed(frames, s) PROVE Passed(frames, t)
  <2> SUFFICES ASSUME NEW i \in 1..Len(frames), NEW j \in 1..Len(t)
               PROVE  /\ frames[i] <= t[j].frame
                      /\ frames[i] = t[j].frame => t[j].place \notin 1..CODE_LENGTH
    BY DEF Passed
  <2>1. h[j] \in 1..Len(s) /\ t[j].frame = s[h[j]].frame /\ t[j].place \in {s[h[j]].place, 0}
    BY DEF Follows
  <2>2. /\ frames[i] <= s[h[j]].frame
        /\ frames[i] = s[h[j]].frame => s[h[j]].place \notin 1..CODE_LENGTH
    BY <1>3, <2>1 DEF Passed
  <2>3. 0 \notin 1..CODE_LENGTH
    BY Lengths, SMT
  <2> QED
    BY <2>1, <2>2, <2>3
<1>4. ASSUME NEW last, NoneAfter(s, last) PROVE NoneAfter(t, last)
  <2> SUFFICES ASSUME NEW j \in 1..Len(t) PROVE t[j].frame <= last
    BY DEF NoneAfter
  <2>1. h[j] \in 1..Len(s) /\ t[j].frame = s[h[j]].frame
    BY DEF Follows
  <2> QED
    BY <1>4, <2>1 DEF NoneAfter
<1> QED
  BY <1>2, <1>3, <1>4

(* The places of a whole frame.                                            *)
LEMMA WholeFacts ==
  ASSUME NEW s \in Seq(AByte), NEW frame \in Nat, NEW k \in Nat, WholeAt(s, frame, k)
  PROVE  /\ k + CODE_LENGTH + 1 <= Len(s)
         /\ \A x \in 1..CODE_LENGTH + 1 :
              /\ k + x \in 1..Len(s)
              /\ s[k + x].frame = frame /\ s[k + x].place = x
         /\ k # 0 => k \in 1..Len(s) /\ s[k].frame = frame /\ s[k].place = 0
                     /\ s[k].is = "zero"
         /\ s[k + CODE_LENGTH + 1].is = "zero"
<1>0. CODE_LENGTH \in Nat \ {0} /\ Len(s) \in Nat /\ k + CODE_LENGTH + 1 <= Len(s)
  BY Lengths, LenProperties DEF WholeAt
<1>1. ASSUME NEW x \in 1..CODE_LENGTH + 1
      PROVE  k + x \in 1..Len(s) /\ s[k + x].frame = frame /\ s[k + x].place = x
  <2>1. k + x \in 1..Len(s)
    BY <1>0, SMT
  <2>2. CASE x \in 1..CODE_LENGTH
    <3>1. s[k + x] = Byte(frame, x, "code")
      BY <2>2 DEF WholeAt
    <3> QED
      BY <2>1, <3>1 DEF Byte
  <2>3. CASE x = CODE_LENGTH + 1
    <3>1. k + x = k + CODE_LENGTH + 1
      BY <1>0, <2>3, SMT
    <3> QED
      BY <2>1, <2>3, <3>1 DEF WholeAt, Byte
  <2>4. x \in 1..CODE_LENGTH \/ x = CODE_LENGTH + 1
    BY <1>0, SMT
  <2> QED
    BY <2>2, <2>3, <2>4
<1>2. ASSUME k # 0 PROVE k \in 1..Len(s)
  BY <1>0, <1>2, SMT
<1> QED
  BY <1>0, <1>1, <1>2 DEF WholeAt, Byte

(* A block that is moved stays whole.                                      *)
LEMMA BlockMoves ==
  ASSUME NEW s, NEW t, NEW frame, NEW k \in Nat, NEW e \in Nat, WholeAt(s, frame, k),
         e + CODE_LENGTH + 1 <= Len(t),
         \A x \in 1..CODE_LENGTH + 1 : t[e + x] = s[k + x],
         e # 0 => k # 0 /\ t[e] = s[k]
  PROVE  Whole(t, frame)
<1>0. CODE_LENGTH \in Nat \ {0}
  BY Lengths
<1>1. \A i \in 1..CODE_LENGTH : t[e + i] = Byte(frame, i, "code")
  <2>1. \A i \in 1..CODE_LENGTH : i \in 1..CODE_LENGTH + 1
    BY <1>0, SMT
  <2> QED
    BY <2>1 DEF WholeAt
<1>2. t[e + CODE_LENGTH + 1] = Byte(frame, CODE_LENGTH + 1, "zero")
  <2>0. CODE_LENGTH + 1 \in 1..CODE_LENGTH + 1
    BY <1>0, SMT
  <2>1. /\ e + (CODE_LENGTH + 1) = e + CODE_LENGTH + 1
        /\ k + (CODE_LENGTH + 1) = k + CODE_LENGTH + 1
    BY <1>0, SMT
  <2>2. t[e + (CODE_LENGTH + 1)] = s[k + (CODE_LENGTH + 1)]
    BY <2>0
  <2> QED
    BY <2>1, <2>2 DEF WholeAt
<1> QED
  BY <1>1, <1>2 DEF Whole, WholeAt

(* What the loss of byte j does.                                           *)
LEMMA RemovedKeeps ==
  ASSUME NEW s \in Seq(AByte), NEW t \in Seq(AByte), NEW j \in 1..Len(s),
         Len(t) = Len(s) - 1,
         \A e \in 1..Len(t) : t[e] = IF e < j THEN s[e] ELSE s[e + 1]
  PROVE  /\ \E h : Follows(t, s, h)
         /\ \A frame \in Nat : frame # s[j].frame /\ Whole(s, frame) => Whole(t, frame)
<1>0. Len(s) \in Nat /\ Len(t) \in Nat /\ CODE_LENGTH \in Nat \ {0}
  BY LenProperties, Lengths
<1>1. Follows(t, s, [e \in 1..Len(t) |-> IF e < j THEN e ELSE e + 1])
  <2> DEFINE h == [e \in 1..Len(t) |-> IF e < j THEN e ELSE e + 1]
  <2>1. ASSUME NEW e \in 1..Len(t)
        PROVE  h[e] \in 1..Len(s) /\ t[e] = s[h[e]]
    BY <1>0, SMT
  <2>2. ASSUME NEW e \in 1..Len(t), NEW f \in 1..Len(t), e < f PROVE h[e] < h[f]
    BY <1>0, <2>2, SMT
  <2> HIDE DEF h
  <2> QED
    BY <2>1, <2>2 DEF Follows
<1>2. ASSUME NEW frame \in Nat, frame # s[j].frame, NEW k \in Nat, WholeAt(s, frame, k)
      PROVE  Whole(t, frame)
  <2>1. /\ k + CODE_LENGTH + 1 <= Len(s)
        /\ \A x \in 1..CODE_LENGTH + 1 : k + x \in 1..Len(s) /\ s[k + x].frame = frame
        /\ k # 0 => k \in 1..Len(s) /\ s[k].frame = frame
    BY <1>2, WholeFacts
  <2>2. \A x \in 1..CODE_LENGTH + 1 : k + x # j
    BY <1>2, <2>1
  <2>3. k # j
    <3>1. j # 0
      BY <1>0, SMT
    <3> QED
      BY <1>2, <2>1, <3>1
  <2>4. k + CODE_LENGTH + 1 < j \/ j < k
    <3>1. SUFFICES ASSUME ~ (k + CODE_LENGTH + 1 < j), ~ (j < k) PROVE FALSE
      OBVIOUS
    <3>2. j - k \in 1..CODE_LENGTH + 1 /\ k + (j - k) = j
      BY <1>0, <2>3, <3>1, SMT
    <3> QED
      BY <2>2, <3>2
  <2>5. CASE k + CODE_LENGTH + 1 < j
    <3>1. k + CODE_LENGTH + 1 <= Len(t) /\ (k # 0 => k \in 1..Len(t) /\ k < j)
      BY <1>0, <2>5, SMT
    <3>2. \A x \in 1..CODE_LENGTH + 1 : k + x \in 1..Len(t) /\ k + x < j
      BY <1>0, <2>5, SMT
    <3>3. \A x \in 1..CODE_LENGTH + 1 : t[k + x] = s[k + x]
      BY <3>2
    <3>4. k # 0 => t[k] = s[k]
      BY <3>1
    <3> QED
      BY <1>2, <3>1, <3>3, <3>4, BlockMoves
  <2>6. CASE j < k
    <3> DEFINE e == k - 1
    <3>1. /\ e \in Nat /\ e + CODE_LENGTH + 1 <= Len(t) /\ e + 1 = k /\ k # 0
          /\ e # 0 => e \in 1..Len(t) /\ ~ (e < j)
      BY <1>0, <2>1, <2>6, SMT
    <3>2. \A x \in 1..CODE_LENGTH + 1 :
            e + x \in 1..Len(t) /\ ~ (e + x < j) /\ (e + x) + 1 = k + x
      BY <1>0, <2>1, <2>6, SMT
    <3> HIDE DEF e
    <3>3. \A x \in 1..CODE_LENGTH + 1 : t[e + x] = s[k + x]
      BY <3>2
    <3>4. e # 0 => t[e] = s[k]
      BY <3>1
    <3> QED
      BY <1>2, <3>1, <3>3, <3>4, BlockMoves
  <2> QED
    BY <2>4, <2>5, <2>6
<1> QED
  BY <1>1, <1>2 DEF Whole

(* What a change of byte j does.                                           *)
LEMMA ChangedKeeps ==
  ASSUME NEW s \in Seq(AByte), NEW t \in Seq(AByte), NEW j \in 1..Len(s),
         Len(t) = Len(s), t[j].frame = s[j].frame, t[j].place = s[j].place,
         \A e \in 1..Len(t) : e # j => t[e] = s[e]
  PROVE  /\ \E h : Follows(t, s, h)
         /\ \A frame \in Nat : frame # s[j].frame /\ Whole(s, frame) => Whole(t, frame)
<1>0. Len(s) \in Nat /\ Len(t) \in Nat /\ CODE_LENGTH \in Nat \ {0}
  BY LenProperties, Lengths
<1>1. Follows(t, s, [e \in 1..Len(t) |-> e])
  <2> DEFINE h == [e \in 1..Len(t) |-> e]
  <2>1. ASSUME NEW e \in 1..Len(t)
        PROVE  h[e] = e /\ h[e] \in 1..Len(s) /\ t[e].frame = s[h[e]].frame /\ t[e].place = s[h[e]].place
    <3>1. h[e] = e
      OBVIOUS
    <3> QED
      BY <3>1
  <2> HIDE DEF h
  <2> QED
    BY <2>1 DEF Follows
<1>2. ASSUME NEW frame \in Nat, frame # s[j].frame, NEW k \in Nat, WholeAt(s, frame, k)
      PROVE  Whole(t, frame)
  <2>1. /\ k + CODE_LENGTH + 1 <= Len(s)
        /\ \A x \in 1..CODE_LENGTH + 1 : k + x \in 1..Len(s) /\ s[k + x].frame = frame
        /\ k # 0 => k \in 1..Len(s) /\ s[k].frame = frame
    BY <1>2, WholeFacts
  <2>2. \A x \in 1..CODE_LENGTH + 1 : t[k + x] = s[k + x]
    BY <1>2, <2>1
  <2>3. k # 0 => t[k] = s[k]
    BY <1>2, <2>1
  <2>4. k + CODE_LENGTH + 1 <= Len(t)
    BY <2>1
  <2> QED
    BY <1>2, <2>2, <2>3, <2>4, BlockMoves
<1> QED
  BY <1>1, <1>2 DEF Whole

(* What a byte of noise in front of byte j does: nothing to a frame, if    *)
(* byte j is the first zero of one.                                        *)
LEMMA InsertedKeeps ==
  ASSUME NEW s \in Seq(AByte), NEW t \in Seq(AByte), NEW j \in 1..Len(s), NEW x0,
         x0.frame = s[j].frame, x0.place = 0, IsInserted(t, s, j, x0)
  PROVE  /\ \E h : Follows(t, s, h)
         /\ \A frame \in Nat :
              (frame # s[j].frame \/ s[j].place = 0) /\ Whole(s, frame) => Whole(t, frame)
<1>0. /\ Len(s) \in Nat /\ Len(t) \in Nat /\ CODE_LENGTH \in Nat \ {0} /\ Len(t) = Len(s) + 1
  BY LenProperties, Lengths DEF IsInserted
<1>3. \A e \in 1..Len(t) : t[e] = IF e < j THEN s[e] ELSE IF e = j THEN x0 ELSE s[e - 1]
  BY DEF IsInserted
<1>1. Follows(t, s, [e \in 1..Len(t) |-> IF e <= j THEN e ELSE e - 1])
  <2> DEFINE h == [e \in 1..Len(t) |-> IF e <= j THEN e ELSE e - 1]
  <2>1. ASSUME NEW e \in 1..Len(t)
        PROVE  /\ h[e] \in 1..Len(s) /\ (e # j => t[e] = s[h[e]])
               /\ e = j => h[e] = j
    BY <1>0, <1>3, SMT
  <2>2. j \in 1..Len(t) /\ t[j] = x0
    <3>1. j \in 1..Len(t) /\ ~ (j < j)
      BY <1>0, SMT
    <3> QED
      BY <1>3, <3>1
  <2>3. ASSUME NEW e \in 1..Len(t), NEW f \in 1..Len(t), e < f
        PROVE  h[e] < h[f] \/ (h[e] = h[f] /\ e = j)
    BY <1>0, <2>3, SMT
  <2> HIDE DEF h
  <2>4. ASSUME NEW e \in 1..Len(t)
        PROVE  /\ h[e] \in 1..Len(s) /\ t[e].frame = s[h[e]].frame
               /\ t[e].place \in {s[h[e]].place, 0}
    <3>1. CASE e = j
      BY <2>1, <2>2, <3>1
    <3>2. CASE e # j
      BY <2>1, <3>2
    <3> QED
      BY <3>1, <3>2
  <2>5. t[j].place = 0
    BY <2>2
  <2>6. ASSUME NEW e \in 1..Len(t), NEW f \in 1..Len(t), e < f
        PROVE  h[e] < h[f] \/ (h[e] = h[f] /\ (t[e].place = 0 \/ t[f].place = 0))
    BY <2>3, <2>5, <2>6
  <2>7. Follows(t, s, h)
    BY <2>4, <2>6 DEF Follows
  <2> QED
    BY <2>7 DEF h
<1>2. ASSUME NEW frame \in Nat, frame # s[j].frame \/ s[j].place = 0,
             NEW k \in Nat, WholeAt(s, frame, k)
      PROVE  Whole(t, frame)
  <2>1. /\ k + CODE_LENGTH + 1 <= Len(s)
        /\ \A x \in 1..CODE_LENGTH + 1 :
             k + x \in 1..Len(s) /\ s[k + x].frame = frame /\ s[k + x].place = x
    BY <1>2, WholeFacts
  <2>2. \A x \in 1..CODE_LENGTH + 1 : k + x # j
    <3>1. \A x \in 1..CODE_LENGTH + 1 : x # 0
      BY <1>0, SMT
    <3> QED
      BY <1>2, <2>1, <3>1
  <2>4. k + CODE_LENGTH + 1 < j \/ j <= k
    <3>1. SUFFICES ASSUME ~ (k + CODE_LENGTH + 1 < j), ~ (j <= k) PROVE FALSE
      OBVIOUS
    <3>2. j - k \in 1..CODE_LENGTH + 1 /\ k + (j - k) = j
      BY <1>0, <3>1, SMT
    <3> QED
      BY <2>2, <3>2
  <2>5. CASE k + CODE_LENGTH + 1 < j
    <3>1. k + CODE_LENGTH + 1 <= Len(t) /\ (k # 0 => k \in 1..Len(t) /\ k < j)
      BY <1>0, <2>5, SMT
    <3>2. \A x \in 1..CODE_LENGTH + 1 : k + x \in 1..Len(t) /\ k + x < j
      BY <1>0, <2>5, SMT
    <3>3. \A x \in 1..CODE_LENGTH + 1 : t[k + x] = s[k + x]
      BY <1>3, <3>2
    <3>4. k # 0 => t[k] = s[k]
      BY <1>3, <3>1
    <3> QED
      BY <1>2, <3>1, <3>3, <3>4, BlockMoves
  <2>6. CASE j <= k
    <3> DEFINE e == k + 1
    <3>1. /\ e \in Nat /\ e + CODE_LENGTH + 1 <= Len(t) /\ e - 1 = k /\ k # 0
          /\ e \in 1..Len(t) /\ ~ (e < j) /\ e # j
      BY <1>0, <2>1, <2>6, SMT
    <3>2. \A x \in 1..CODE_LENGTH + 1 :
            e + x \in 1..Len(t) /\ ~ (e + x < j) /\ e + x # j /\ (e + x) - 1 = k + x
      BY <1>0, <2>1, <2>6, SMT
    <3> HIDE DEF e
    <3>3. \A x \in 1..CODE_LENGTH + 1 : t[e + x] = s[k + x]
      BY <1>3, <3>2
    <3>4. t[e] = s[k]
      BY <1>3, <3>1
    <3> QED
      BY <1>2, <3>1, <3>3, <3>4, BlockMoves
  <2> QED
    BY <2>4, <2>5, <2>6
<1> QED
  BY <1>1, <1>2 DEF Whole

-----------------------------------------------------------------------------
(* The steps keep the invariant.                                           *)

LEMMA StreamFacts ==
  ASSUME TypeOK
  PROVE  /\ Stream \in Seq(AByte) /\ Len(Stream) = Len(buffer) + Len(line)
         /\ Len(buffer) \in Nat /\ Len(line) \in Nat /\ Len(Stream) \in Nat
         /\ DOMAIN buffer = 1..Len(buffer) /\ DOMAIN line = 1..Len(line)
         /\ \A m \in 1..Len(Stream) : Stream[m] \in AByte
         /\ \A i \in 1..Len(buffer) :
              Stream[i] = buffer[i] /\ i \in 1..Len(Stream) /\ buffer[i] \in AByte
         /\ \A i \in 1..Len(line) :
              /\ Stream[Len(buffer) + i] = line[i] /\ line[i] \in AByte
              /\ Len(buffer) + i \in 1..Len(Stream)
<1>1. buffer \in Seq(AByte) /\ line \in Seq(AByte)
  BY DEF TypeOK
<1>2. \A i \in 1..Len(buffer) : buffer[i] \in AByte
  BY <1>1, ElementOfSeq
<1>3. Len(Stream) = Len(buffer) + Len(line) /\ Stream \in Seq(AByte)
  BY <1>1, Joined DEF Stream
<1>4. Len(Stream) \in Nat
  BY <1>3, LenProperties
<1> QED
  BY <1>1, <1>2, <1>3, <1>4, Joined DEF Stream

LEMMA SentType ==
  ASSUME TypeOK
  PROVE  sent \in Nat /\ sent <= MaxFrames /\ Len(got) \in Nat /\ DOMAIN got = 1..Len(got)
         /\ \A i \in 1..Len(got) : got[i] \in Nat
<1>1. sent \in Nat /\ sent <= MaxFrames
  BY Lengths, SMT DEF TypeOK
<1>2. got \in Seq(0..MaxFrames)
  BY DEF TypeOK
<1>3. \A i \in 1..Len(got) : got[i] \in 0..MaxFrames
  BY <1>2, ElementOfSeq
<1>4. \A x \in 0..MaxFrames : x \in Nat
  BY Lengths, SMT
<1> QED
  BY <1>1, <1>2, <1>3, <1>4, LenProperties

(* A fault, given what it does to the bytes and to the frames not hit.     *)
LEMMA FaultKeeps ==
  ASSUME IInv, Fault, NEW i \in DOMAIN line, line' \in Seq(AByte),
         \E h : Follows(Stream', Stream, h),
         hit' = hit \/ hit' = hit \cup {line[i].frame},
         \A frame \in (1..sent) \ hit' : Whole(Stream, frame) => Whole(Stream', frame)
  PROVE  IInv'
<1>0. TypeOK /\ Ordered(Stream)
  BY DEF IInv
<1>1. /\ UNCHANGED <<buffer, pc, result, got, sent>>
      /\ nFaults < MaxFaults /\ nFaults' = nFaults + 1
  BY DEF Fault
<1>2. line[i] \in AByte /\ line[i].frame \in Nat /\ line[i].frame <= sent
  <2>1. /\ Len(buffer) + i \in 1..Len(Stream) /\ Stream[Len(buffer) + i] = line[i]
        /\ line[i] \in AByte
    BY <1>0, StreamFacts
  <2> QED
    BY <2>1, Fields DEF IInv, NoneAfter
<1>3. hit' \subseteq 0..sent' /\ 0 \in hit' /\ hit' \subseteq 0..MaxFrames
  <2>1. line[i].frame \in 0..sent
    BY <1>0, <1>2, SentType, SMT
  <2>2. hit' \subseteq 0..sent
    BY <2>1 DEF IInv
  <2>3. \A x \in 0..sent : x \in 0..MaxFrames
    BY <1>0, SentType, Lengths, SMT
  <2> QED
    BY <1>1, <2>2, <2>3 DEF IInv
<1>4. nFaults' \in 0..MaxFaults
  BY <1>0, <1>1, Lengths, SMT DEF TypeOK
<1>5. TypeOK'
  BY <1>0, <1>1, <1>3, <1>4 DEF TypeOK
<1>6. Stream' \in Seq(AByte) /\ Stream \in Seq(AByte)
  <2>1. buffer' \in Seq(AByte)
    BY <1>5 DEF TypeOK
  <2>2. buffer' \o line' \in Seq(AByte)
    BY <2>1, Joined
  <2> QED
    BY <1>0, <2>2, StreamFacts DEF Stream
<1>7. /\ Ordered(Stream')
      /\ \A frames : Passed(frames, Stream) => Passed(frames, Stream')
      /\ \A last : NoneAfter(Stream, last) => NoneAfter(Stream', last)
  <2>1. PICK h : Follows(Stream', Stream, h)
    OBVIOUS
  <2> DEFINE s == Stream
             t == Stream'
  <2> HIDE DEF s, t
  <2>2. /\ Follows(t, s, h) /\ Ordered(s) /\ t \in Seq(AByte) /\ s \in Seq(AByte)
    BY <1>0, <1>6, <2>1 DEF s, t
  <2>3. /\ Ordered(t)
        /\ \A frames : Passed(frames, s) => Passed(frames, t)
        /\ \A last : NoneAfter(s, last) => NoneAfter(t, last)
    BY <2>2, FollowsKeeps
  <2> QED
    BY <2>3 DEF s, t
<1>8. Passed(got, Stream') /\ NoneAfter(Stream', sent)
  BY <1>7 DEF IInv
<1>9. BufferOK'
  BY <1>1 DEF IInv, BufferOK, Delimiters
<1>10. \A frame \in ((1..sent) \ hit)' : Whole(Stream', frame) \/ Out(frame)'
  <2> SUFFICES ASSUME NEW frame \in (1..sent) \ hit' PROVE Whole(Stream', frame) \/ Out(frame)'
    BY <1>1
  <2>1. frame \in (1..sent) \ hit
    OBVIOUS
  <2>2. Whole(Stream, frame) \/ Out(frame)
    BY <2>1 DEF IInv
  <2>3. Out(frame) => Out(frame)'
    BY <1>1 DEF Out
  <2> QED
    BY <2>2, <2>3
<1> QED
  BY <1>1, <1>3, <1>5, <1>7, <1>8, <1>9, <1>10 DEF IInv

LEMMA LoseIInv == ASSUME IInv, NEW i \in DOMAIN line, Lose(i) PROVE IInv'
<1>0. /\ buffer \in Seq(AByte) /\ line \in Seq(AByte) /\ i \in 1..Len(line)
      /\ Stream \in Seq(AByte)
  BY StreamFacts DEF IInv, TypeOK
<1>1. /\ Fault /\ hit' = hit \cup {line[i].frame} /\ buffer' = buffer /\ sent' = sent
      /\ line' = SubSeq(line, 1, i - 1) \o SubSeq(line, i + 1, Len(line))
  BY DEF Lose, Fault, Without
<1> DEFINE without == SubSeq(line, 1, i - 1) \o SubSeq(line, i + 1, Len(line))
           t == buffer \o without
           s == buffer \o line
           j == Len(buffer) + i
<1>2. /\ without \in Seq(AByte) /\ t \in Seq(AByte) /\ s \in Seq(AByte)
      /\ j \in 1..Len(s) /\ s[j] = line[i] /\ Len(t) = Len(s) - 1
      /\ \A e \in 1..Len(t) : t[e] = IF e < j THEN s[e] ELSE s[e + 1]
  <2>1. s \in Seq(AByte)
    BY <1>0 DEF Stream
  <2>2. /\ without \in Seq(AByte) /\ t \in Seq(AByte)
        /\ j \in 1..Len(s) /\ s[j] = line[i] /\ Len(t) = Len(s) - 1
        /\ \A e \in 1..Len(t) : t[e] = IF e < j THEN s[e] ELSE s[e + 1]
    BY <1>0, Removed
  <2> QED
    BY <2>1, <2>2
<1>3. Stream' = t /\ Stream = s /\ line' = without
  BY <1>1 DEF Stream
<1> HIDE DEF without, t, s, j
<1>4. /\ \E h : Follows(t, s, h)
      /\ \A frame \in Nat : frame # s[j].frame /\ Whole(s, frame) => Whole(t, frame)
  BY <1>2, RemovedKeeps
<1>5. \A frame \in (1..sent) \ hit' : Whole(s, frame) => Whole(t, frame)
  <2>1. \A frame \in 1..sent : frame \in Nat
    BY SentType, SMT DEF IInv
  <2> QED
    BY <1>1, <1>2, <1>4, <2>1
<1> QED
  BY <1>1, <1>2, <1>3, <1>4, <1>5, FaultKeeps

LEMMA DamageIInv == ASSUME IInv, NEW i \in DOMAIN line, Damage(i) PROVE IInv'
<1>0. /\ buffer \in Seq(AByte) /\ line \in Seq(AByte) /\ i \in 1..Len(line)
      /\ Stream \in Seq(AByte) /\ line[i] \in AByte /\ DOMAIN line = 1..Len(line)
      /\ Len(buffer) \in Nat /\ Len(line) \in Nat
  BY StreamFacts DEF IInv, TypeOK
<1>1. Fault /\ hit' = hit \cup {line[i].frame} /\ buffer' = buffer /\ sent' = sent
  BY DEF Damage, Fault
<1>2. PICK is \in {"zero", "other"} : line' = [line EXCEPT ![i].is = is]
  BY DEF Damage
<1> DEFINE changed == [line EXCEPT ![i].is = is]
           t == buffer \o changed
           s == buffer \o line
           j == Len(buffer) + i
<1>3. /\ changed[i].frame = line[i].frame /\ changed[i].place = line[i].place
      /\ changed[i] \in AByte /\ DOMAIN changed = 1..Len(line)
      /\ \A m \in 1..Len(line) : m # i => changed[m] = line[m]
  BY <1>0 DEF AByte
<1>4. changed \in Seq(AByte) /\ Len(changed) = Len(line)
  <2>1. \A m \in 1..Len(line) : line[m] \in AByte
    BY <1>0, ElementOfSeq
  <2>2. changed \in [1..Len(line) -> AByte]
    <3>1. \A m \in 1..Len(line) : changed[m] \in AByte
      BY <1>3, <2>1
    <3>2. changed = [m \in 1..Len(line) |-> changed[m]]
      BY <1>0
    <3> HIDE DEF changed
    <3> QED
      BY <3>1, <3>2
  <2> HIDE DEF changed
  <2> QED
    BY <1>0, <2>2, SMT
<1>5. Stream' = t /\ Stream = s /\ line' = changed
  BY <1>1, <1>2 DEF Stream
<1> HIDE DEF changed
<1>6. /\ t \in Seq(AByte) /\ s \in Seq(AByte) /\ j \in 1..Len(s) /\ s[j] = line[i]
      /\ Len(t) = Len(s) /\ t[j] = changed[i]
      /\ Len(s) = Len(buffer) + Len(line)
  <2>1. /\ s \in Seq(AByte) /\ Len(s) = Len(buffer) + Len(line) /\ s[j] = line[i]
        /\ j \in 1..(Len(buffer) + Len(line))
    BY <1>0, Joined
  <2>2. i \in 1..Len(changed)
    BY <1>0, <1>4
  <2>3. t \in Seq(AByte) /\ Len(t) = Len(buffer) + Len(changed) /\ t[j] = changed[i]
    BY <1>0, <1>4, <2>2, Joined, ZenonT(60)
  <2> QED
    BY <1>4, <2>1, <2>3
<1>7. \A e \in 1..Len(t) : e # j => t[e] = s[e]
  <2> SUFFICES ASSUME NEW e \in 1..Len(t), e # j PROVE t[e] = s[e]
    OBVIOUS
  <2>0. e \in 1..(Len(buffer) + Len(line))
    BY <1>6
  <2>1. /\ t[e] = IF e <= Len(buffer) THEN buffer[e] ELSE changed[e - Len(buffer)]
        /\ s[e] = IF e <= Len(buffer) THEN buffer[e] ELSE line[e - Len(buffer)]
    BY <1>0, <1>4, <2>0, Joined, SMTT(60)
  <2>2. CASE e <= Len(buffer)
    BY <2>1, <2>2
  <2>3. CASE ~ (e <= Len(buffer))
    <3>1. e - Len(buffer) \in 1..Len(line) /\ e - Len(buffer) # i
      BY <1>0, <2>0, <2>3, SMT
    <3> QED
      BY <1>3, <2>1, <2>3, <3>1
  <2> QED
    BY <2>2, <2>3
<1> HIDE DEF t, s, j
<1>8. t[j].frame = s[j].frame /\ t[j].place = s[j].place
  BY <1>3, <1>6
<1>9. /\ \E h : Follows(t, s, h)
      /\ \A frame \in Nat : frame # s[j].frame /\ Whole(s, frame) => Whole(t, frame)
  BY <1>6, <1>7, <1>8, ChangedKeeps
<1>10. \A frame \in (1..sent) \ hit' : Whole(s, frame) => Whole(t, frame)
  <2>1. \A frame \in 1..sent : frame \in Nat
    BY SentType, SMT DEF IInv
  <2> QED
    BY <1>1, <1>6, <1>9, <2>1
<1> QED
  BY <1>1, <1>4, <1>5, <1>9, <1>10, FaultKeeps

LEMMA NoiseIInv == ASSUME IInv, NEW i \in DOMAIN line, Noise(i) PROVE IInv'
<1>0. /\ buffer \in Seq(AByte) /\ line \in Seq(AByte) /\ i \in 1..Len(line)
      /\ Stream \in Seq(AByte) /\ line[i] \in AByte
  BY StreamFacts DEF IInv, TypeOK
<1>1. /\ Fault /\ buffer' = buffer /\ sent' = sent
      /\ hit' = IF line[i].place = 0 THEN hit ELSE hit \cup {line[i].frame}
  BY DEF Noise, Fault
<1>2. PICK is \in {"zero", "other"} :
        line' = SubSeq(line, 1, i - 1) \o <<Byte(line[i].frame, 0, is)>> \o SubSeq(line, i, Len(line))
  BY DEF Noise
<1> DEFINE x0 == Byte(line[i].frame, 0, is)
<1>3. x0 \in AByte /\ x0.frame = line[i].frame /\ x0.place = 0
  <2>1. line[i].frame \in Nat /\ 0 \in 0..CODE_LENGTH + 1
    BY <1>0, Fields, Lengths, SMT
  <2> QED
    BY <2>1, ByteType
<1> HIDE DEF x0
<1> DEFINE with == With(line, i, x0)
           t == buffer \o with
           s == buffer \o line
           j == Len(buffer) + i
<1>4. with \in Seq(AByte) /\ s[j] = line[i] /\ IsInserted(t, s, j, x0)
  BY <1>0, <1>3, Inserted
<1>5. Stream' = t /\ Stream = s /\ line' = with
  BY <1>1, <1>2 DEF Stream, x0, With
<1>a. s \in Seq(AByte)
  BY <1>0, <1>5
<1>b. t \in Seq(AByte) /\ j \in 1..Len(s)
  BY <1>4 DEF IsInserted
<1> HIDE DEF with, t, s, j
<1>6. /\ \E h : Follows(t, s, h)
      /\ \A frame \in Nat :
           (frame # s[j].frame \/ s[j].place = 0) /\ Whole(s, frame) => Whole(t, frame)
  BY <1>3, <1>4, <1>a, <1>b, InsertedKeeps
<1>7. \A frame \in (1..sent) \ hit' : Whole(s, frame) => Whole(t, frame)
  <2>1. \A frame \in 1..sent : frame \in Nat
    BY SentType, SMT DEF IInv
  <2> QED
    BY <1>1, <1>4, <1>6, <2>1
<1> QED
  BY <1>1, <1>4, <1>5, <1>6, <1>7, FaultKeeps

(* What is sent comes after everything else, and is whole.                 *)
LEMMA SentKeeps ==
  ASSUME NEW s \in Seq(AByte), NEW last \in Nat, NEW new, new = last + 1,
         Ordered(s), NoneAfter(s, last), NEW t, t = s \o Wire(new)
  PROVE  /\ t \in Seq(AByte) /\ Ordered(t) /\ NoneAfter(t, new) /\ Whole(t, new)
         /\ \A frame : Whole(s, frame) => Whole(t, frame)
         /\ \A frames : Passed(frames, s) /\ (\A i \in 1..Len(frames) : frames[i] \in Nat /\ frames[i] <= last)
                          => Passed(frames, t)
<1>0. new \in Nat /\ CODE_LENGTH \in Nat \ {0} /\ Len(s) \in Nat
  BY Lengths, LenProperties, SMT
<1> DEFINE w == Wire(new)
<1>1. /\ w \in Seq(AByte) /\ Len(w) = CODE_LENGTH + 2
      /\ \A m \in 1..(CODE_LENGTH + 2) : w[m] = Byte(new, m - 1, Kind(m))
  BY <1>0, WireFacts
<1>2. t = s \o w
  OBVIOUS
<1> HIDE DEF w
<1>3. /\ t \in Seq(AByte) /\ Len(t) = Len(s) + Len(w)
      /\ \A m \in 1..Len(s) : t[m] = s[m]
      /\ \A m \in 1..Len(w) : t[Len(s) + m] = w[m]
  <2>1. /\ s \o w \in Seq(AByte) /\ Len(s \o w) = Len(s) + Len(w)
        /\ \A m \in 1..Len(s) : (s \o w)[m] = s[m]
        /\ \A m \in 1..Len(w) : (s \o w)[Len(s) + m] = w[m]
    BY <1>1, Joined
  <2> QED
    BY <1>2, <2>1
<1>4. Len(t) = Len(s) + CODE_LENGTH + 2
  BY <1>0, <1>1, <1>3, SMT
<1>5. ASSUME NEW e \in 1..Len(t), ~ (e <= Len(s))
      PROVE  t[e].frame = new /\ t[e].place = e - Len(s) - 1
  <2> DEFINE m == e - Len(s)
  <2>1. m \in 1..(CODE_LENGTH + 2) /\ Len(s) + m = e /\ m - 1 = e - Len(s) - 1
    BY <1>0, <1>4, <1>5, SMT
  <2> HIDE DEF m
  <2>2. t[e] = Byte(new, m - 1, Kind(m))
    BY <1>1, <1>3, <2>1
  <2> QED
    BY <2>1, <2>2 DEF Byte
<1>6. ASSUME NEW e \in 1..Len(t), e <= Len(s)
      PROVE  e \in 1..Len(s) /\ t[e] = s[e] /\ t[e].frame \in Nat /\ t[e].frame <= last
  <2>1. e \in 1..Len(s)
    BY <1>0, <1>6, SMT
  <2>2. t[e] = s[e] /\ s[e] \in AByte
    BY <1>3, <2>1, ElementOfSeq
  <2> QED
    BY <2>1, <2>2, Fields DEF NoneAfter
<1>7. Ordered(t)
  <2> SUFFICES ASSUME NEW e \in 1..Len(t), NEW f \in 1..Len(t), e < f
               PROVE  /\ t[e].frame <= t[f].frame
                      /\ t[e].frame = t[f].frame /\ t[e].place # 0 /\ t[f].place # 0 =>
                           t[e].place < t[f].place
    BY DEF Ordered
  <2>0. e \in Nat /\ f \in Nat
    BY <1>0, <1>4, SMT
  <2>1. CASE f <= Len(s)
    <3>1. e <= Len(s)
      BY <1>0, <2>0, <2>1, SMT
    <3> QED
      BY <1>6, <2>1, <3>1 DEF Ordered
  <2>2. CASE e <= Len(s) /\ ~ (f <= Len(s))
    <3>1. t[e].frame \in Nat /\ t[e].frame <= last /\ t[f].frame = new
      BY <1>5, <1>6, <2>2
    <3> QED
      BY <1>0, <3>1, SMT
  <2>3. CASE ~ (e <= Len(s)) /\ ~ (f <= Len(s))
    <3>1. t[e].frame = new /\ t[f].frame = new
          /\ t[e].place = e - Len(s) - 1 /\ t[f].place = f - Len(s) - 1
      BY <1>5, <2>3
    <3> QED
      BY <1>0, <2>0, <3>1, SMT
  <2> QED
    BY <2>1, <2>2, <2>3
<1>8. NoneAfter(t, new)
  <2> SUFFICES ASSUME NEW e \in 1..Len(t) PROVE t[e].frame <= new
    BY DEF NoneAfter
  <2>1. CASE e <= Len(s)
    <3>1. t[e].frame \in Nat /\ t[e].frame <= last
      BY <1>6, <2>1
    <3> QED
      BY <3>1, SMT
  <2>2. CASE ~ (e <= Len(s))
    BY <1>0, <1>5, <2>2, SMT
  <2> QED
    BY <2>1, <2>2
<1>9. Whole(t, new)
  <2> DEFINE k == Len(s) + 1
  <2>1. k \in Nat /\ k + CODE_LENGTH + 1 <= Len(t) /\ 1 \in 1..(CODE_LENGTH + 2)
        /\ CODE_LENGTH + 2 \in 1..(CODE_LENGTH + 2)
        /\ k + CODE_LENGTH + 1 = Len(s) + (CODE_LENGTH + 2)
    BY <1>0, <1>4, SMT
  <2>2. t[k] = Byte(new, 0, "zero")
    <3>1. t[Len(s) + 1] = w[1] /\ w[1] = Byte(new, 1 - 1, Kind(1))
      BY <1>1, <1>3, <2>1
    <3>2. 1 - 1 = 0
      BY SMT
    <3> QED
      BY <3>1, <3>2 DEF Kind
  <2>3. t[k + CODE_LENGTH + 1] = Byte(new, CODE_LENGTH + 1, "zero")
    <3> DEFINE m == CODE_LENGTH + 2
    <3>1. m \in 1..(CODE_LENGTH + 2) /\ m - 1 = CODE_LENGTH + 1 /\ k + CODE_LENGTH + 1 = Len(s) + m
          /\ m = CODE_LENGTH + 2
      BY <1>0, SMT
    <3> HIDE DEF m, k
    <3>2. t[Len(s) + m] = Byte(new, m - 1, Kind(m))
      BY <1>1, <1>3, <3>1
    <3>3. Kind(m) = "zero"
      BY <3>1 DEF Kind
    <3> QED
      BY <3>1, <3>2, <3>3
  <2>4. ASSUME NEW i \in 1..CODE_LENGTH PROVE t[k + i] = Byte(new, i, "code")
    <3>1. /\ i + 1 \in 1..(CODE_LENGTH + 2) /\ Len(s) + (i + 1) = k + i /\ (i + 1) - 1 = i
          /\ i + 1 # 1 /\ i + 1 # CODE_LENGTH + 2
      BY <1>0, SMT
    <3>2. t[Len(s) + (i + 1)] = Byte(new, (i + 1) - 1, Kind(i + 1))
      BY <1>1, <1>3, <3>1
    <3>3. Kind(i + 1) = "code"
      BY <3>1 DEF Kind
    <3> QED
      BY <3>1, <3>2, <3>3
  <2> QED
    BY <2>1, <2>2, <2>3, <2>4 DEF Whole, WholeAt
<1>10. ASSUME NEW frame, Whole(s, frame) PROVE Whole(t, frame)
  <2>1. PICK k \in Nat : WholeAt(s, frame, k)
    BY <1>10 DEF Whole
  <2>2. k + CODE_LENGTH + 1 <= Len(s)
    BY <2>1 DEF WholeAt
  <2>3. /\ k + CODE_LENGTH + 1 <= Len(t) /\ (k # 0 => k \in 1..Len(s))
        /\ \A x \in 1..CODE_LENGTH + 1 : k + x \in 1..Len(s)
    BY <1>0, <1>4, <2>2, SMT
  <2>4. /\ \A x \in 1..CODE_LENGTH + 1 : t[k + x] = s[k + x]
        /\ k # 0 => t[k] = s[k]
    BY <1>3, <2>3
  <2> QED
    BY <2>1, <2>3, <2>4, BlockMoves
<1>11. ASSUME NEW frames, Passed(frames, s),
              \A i \in 1..Len(frames) : frames[i] \in Nat /\ frames[i] <= last
       PROVE  Passed(frames, t)
  <2> SUFFICES ASSUME NEW i \in 1..Len(frames), NEW j \in 1..Len(t)
               PROVE  /\ frames[i] <= t[j].frame
                      /\ frames[i] = t[j].frame => t[j].place \notin 1..CODE_LENGTH
    BY DEF Passed
  <2>1. CASE j <= Len(s)
    BY <1>6, <1>11, <2>1 DEF Passed
  <2>2. CASE ~ (j <= Len(s))
    <3>1. t[j].frame = new
      BY <1>5, <2>2
    <3> QED
      BY <1>0, <1>11, <3>1, SMT
  <2> QED
    BY <2>1, <2>2
<1> QED
  BY <1>3, <1>7, <1>8, <1>9, <1>10, <1>11

LEMMA TransmitIInv == ASSUME IInv, Transmit PROVE IInv'
<1>0. /\ TypeOK /\ Stream \in Seq(AByte) /\ sent \in Nat /\ buffer \in Seq(AByte)
      /\ line \in Seq(AByte)
  BY StreamFacts, SentType DEF IInv, TypeOK
<1>1. /\ sent < MaxFrames /\ sent' = sent + 1 /\ line' = line \o Wire(sent')
      /\ UNCHANGED <<buffer, pc, result, got, hit, nFaults>>
  BY DEF Transmit
<1> DEFINE new == sent + 1
           t == Stream \o Wire(new)
<1>2. new \in Nat /\ new \in 0..MaxFrames
  BY <1>0, <1>1, Lengths, SMT
<1>3. Wire(new) \in Seq(AByte)
  BY <1>2, WireFacts
<1>4. line' \in Seq(AByte)
  BY <1>0, <1>1, <1>3, Joined
<1>5. Stream' = t
  <2> DEFINE w == Wire(new)
  <2>0. w \in Seq(AByte)
    BY <1>3
  <2> HIDE DEF w
  <2>a. (buffer \o line) \o w = buffer \o (line \o w)
    BY <1>0, <2>0, ConcatAssociative
  <2>1. buffer \o (line \o Wire(new)) = (buffer \o line) \o Wire(new)
    BY <2>a DEF w
  <2> QED
    BY <1>1, <2>1 DEF Stream
<1> HIDE DEF t
<1>6. /\ Ordered(Stream) /\ NoneAfter(Stream, sent) /\ Passed(got, Stream)
      /\ \A i \in 1..Len(got) : got[i] \in Nat /\ got[i] <= sent
  BY <1>0, SentType DEF IInv
<1>7. /\ t \in Seq(AByte) /\ Ordered(t) /\ NoneAfter(t, new) /\ Whole(t, new)
      /\ \A frame : Whole(Stream, frame) => Whole(t, frame)
      /\ Passed(got, t)
  <2>1. t = Stream \o Wire(new) /\ new = sent + 1
    BY DEF t
  <2> HIDE DEF new
  <2>2. PICK s : s = Stream
    OBVIOUS
  <2>3. s \in Seq(AByte) /\ Ordered(s) /\ NoneAfter(s, sent) /\ t = s \o Wire(new) /\ Passed(got, s)
    BY <1>0, <1>6, <2>1, <2>2
  <2>4. /\ t \in Seq(AByte) /\ Ordered(t) /\ NoneAfter(t, new) /\ Whole(t, new)
        /\ \A frame : Whole(s, frame) => Whole(t, frame)
        /\ \A frames : Passed(frames, s) /\ (\A i \in 1..Len(frames) : frames[i] \in Nat /\ frames[i] <= sent)
                          => Passed(frames, t)
    BY <1>0, <2>1, <2>3, SentKeeps
  <2> QED
    BY <1>6, <2>2, <2>3, <2>4
<1>8. TypeOK'
  BY <1>0, <1>1, <1>2, <1>4 DEF TypeOK
<1>9. /\ \A i \in 1..Len(got') : got'[i] <= sent'
      /\ hit' \subseteq 0..sent' /\ 0 \in hit'
  <2>1. \A i \in 1..Len(got) : got[i] <= sent + 1
    BY <1>0, <1>6, SMT
  <2>2. \A x \in 0..sent : x \in 0..sent + 1
    BY <1>0, SMT
  <2> QED
    BY <1>1, <2>1, <2>2 DEF IInv
<1>10. ASSUME NEW frame \in (1..sent') \ hit' PROVE Whole(Stream', frame) \/ Out(frame)'
  <2>1. CASE frame = new
    BY <1>5, <1>7, <2>1
  <2>2. CASE frame # new
    <3>1. frame \in 1..sent
      BY <1>0, <1>1, <2>2, SMT
    <3>2. Whole(Stream, frame) \/ Out(frame)
      BY <1>1, <3>1 DEF IInv
    <3> QED
      BY <1>1, <1>5, <1>7, <3>2 DEF Out
  <2> QED
    BY <2>1, <2>2
<1>11. BufferOK'
  BY <1>1 DEF IInv, BufferOK, Delimiters
<1> QED
  BY <1>1, <1>5, <1>7, <1>8, <1>9, <1>10, <1>11 DEF IInv

(* A byte that is read goes from the line to the buffer; nothing else.     *)
LEMMA ReadFacts ==
  ASSUME TypeOK, Read
  PROVE  /\ Stream' = Stream /\ buffer' \in Seq(AByte) /\ line' \in Seq(AByte)
         /\ Len(buffer') = Len(buffer) + 1
         /\ \A m \in 1..Len(buffer) : buffer'[m] = buffer[m]
<1>0. /\ buffer \in Seq(AByte) /\ line \in Seq(AByte) /\ Len(buffer) \in Nat /\ Len(line) \in Nat
      /\ line # << >> /\ buffer' = Append(buffer, Head(line)) /\ line' = Tail(line)
  BY StreamFacts DEF TypeOK, Read
<1>1. /\ line' \in Seq(AByte) /\ Len(line') = Len(line) - 1 /\ Head(line) = line[1]
      /\ \A m \in 1..(Len(line) - 1) : line'[m] = line[m + 1]
      /\ Len(line) # 0 /\ line[1] \in AByte
  <2>1. Len(line) # 0
    BY <1>0, SMT
  <2>2. 1 \in 1..Len(line)
    BY <1>0, <2>1, SMT
  <2>3. line[1] \in AByte
    BY <1>0, <2>2, ElementOfSeq
  <2> QED
    BY <1>0, <2>1, <2>3, SMT
<1>2. /\ buffer' \in Seq(AByte) /\ Len(buffer') = Len(buffer) + 1
      /\ \A m \in 1..Len(buffer) : buffer'[m] = buffer[m]
      /\ buffer'[Len(buffer) + 1] = line[1]
  BY <1>0, <1>1, SMT
<1> DEFINE b == buffer'
           l == line'
<1>3. b \in Seq(AByte) /\ l \in Seq(AByte) /\ Len(b) = Len(buffer) + 1 /\ Len(l) = Len(line) - 1
  BY <1>1, <1>2
<1>4. Stream' = b \o l
  BY DEF Stream
<1> HIDE DEF b, l
<1>5. /\ b \o l \in Seq(AByte) /\ Len(b \o l) = Len(b) + Len(l)
      /\ \A m \in 1..(Len(b) + Len(l)) : (b \o l)[m] = IF m <= Len(b) THEN b[m] ELSE l[m - Len(b)]
  BY <1>3, Joined
<1>6. /\ Stream \in Seq(AByte) /\ Len(Stream) = Len(buffer) + Len(line)
      /\ \A m \in 1..(Len(buffer) + Len(line)) :
           Stream[m] = IF m <= Len(buffer) THEN buffer[m] ELSE line[m - Len(buffer)]
  BY <1>0, Joined DEF Stream
<1>7. Len(b) + Len(l) = Len(buffer) + Len(line)
  BY <1>0, <1>3, SMT
<1>8. ASSUME NEW m \in 1..Len(Stream) PROVE (b \o l)[m] = Stream[m]
  <2>0. m \in 1..(Len(b) + Len(l)) /\ m \in 1..(Len(buffer) + Len(line))
    BY <1>6, <1>7
  <2>1. CASE m <= Len(buffer)
    <3>1. m <= Len(b) /\ m \in 1..Len(buffer)
      BY <1>0, <1>3, <2>0, <2>1, SMT
    <3>2. b[m] = buffer[m]
      BY <1>2, <3>1 DEF b
    <3> QED
      BY <1>5, <1>6, <2>0, <2>1, <3>1, <3>2
  <2>2. CASE m = Len(buffer) + 1
    <3>1. m <= Len(b) /\ ~ (m <= Len(buffer)) /\ m - Len(buffer) = 1
      BY <1>0, <1>3, <2>2, SMT
    <3>2. b[m] = line[1]
      BY <1>2, <2>2 DEF b
    <3> QED
      BY <1>5, <1>6, <2>0, <3>1, <3>2
  <2>3. CASE ~ (m <= Len(buffer) + 1)
    <3>1. /\ ~ (m <= Len(b)) /\ ~ (m <= Len(buffer)) /\ m - Len(b) \in 1..(Len(line) - 1)
          /\ (m - Len(b)) + 1 = m - Len(buffer)
      BY <1>0, <1>3, <2>0, <2>3, SMT
    <3>2. l[m - Len(b)] = line[(m - Len(b)) + 1]
      BY <1>1, <3>1 DEF l
    <3> QED
      BY <1>5, <1>6, <2>0, <3>1, <3>2
  <2>4. m <= Len(buffer) \/ m = Len(buffer) + 1 \/ ~ (m <= Len(buffer) + 1)
    BY <1>0, <2>0, SMT
  <2> QED
    BY <2>1, <2>2, <2>3, <2>4
<1>9. b \o l = Stream
  <2>1. Len(b \o l) = Len(Stream)
    BY <1>5, <1>6, <1>7
  <2>2. \A m \in 1..Len(b \o l) : (b \o l)[m] = Stream[m]
    BY <1>8, <2>1
  <2> QED
    BY <1>5, <1>6, <2>1, <2>2, SeqEqual
<1> QED
  BY <1>1, <1>2, <1>4, <1>9

\* What the frames have in common with the state before, when neither the
\* bytes nor the frames sent, got and hit change.
LEMMA SameFrames ==
  ASSUME IInv, Stream' = Stream, UNCHANGED <<got, sent, hit>>, TypeOK', BufferOK'
  PROVE  IInv'
<1>1. Ordered(Stream') /\ Passed(got', Stream') /\ NoneAfter(Stream', sent')
  BY DEF IInv
<1>2. (\A i \in 1..Len(got') : got'[i] <= sent') /\ hit' \subseteq 0..sent' /\ 0 \in hit'
  BY DEF IInv
<1>3. \A frame \in (1..sent') \ hit' : Whole(Stream', frame) \/ Out(frame)'
  BY DEF IInv, Out
<1> QED
  BY <1>1, <1>2, <1>3 DEF IInv

LEMMA ReadIInv == ASSUME IInv, Read PROVE IInv'
<1>0. TypeOK /\ Delimiters = {} /\ DOMAIN buffer = 1..Len(buffer) /\ Len(buffer) \in Nat
  BY StreamFacts DEF IInv, BufferOK, Read
<1>1. /\ Stream' = Stream /\ buffer' \in Seq(AByte) /\ line' \in Seq(AByte)
      /\ Len(buffer') = Len(buffer) + 1
      /\ \A m \in 1..Len(buffer) : buffer'[m] = buffer[m]
  BY <1>0, ReadFacts
<1>2. pc' = "parse" /\ UNCHANGED <<result, got, sent, hit, nFaults>>
  BY DEF Read
<1>3. TypeOK'
  BY <1>0, <1>1, <1>2 DEF TypeOK
<1>4. BufferOK'
  <2>1. DOMAIN buffer' = 1..Len(buffer')
    BY <1>1, LenProperties
  <2>2. ASSUME NEW i \in Delimiters' PROVE i = Len(buffer')
    <3>1. i \in 1..Len(buffer') /\ buffer'[i].is = "zero"
      BY <2>1 DEF Delimiters
    <3>2. i \notin 1..Len(buffer)
      BY <1>0, <1>1, <3>1 DEF Delimiters
    <3> QED
      BY <1>0, <1>1, <3>1, <3>2, SMT
  <2> QED
    BY <1>2, <2>2 DEF BufferOK
<1> QED
  BY <1>1, <1>2, <1>3, <1>4, SameFrames

LEMMA QuietIInv ==
  ASSUME IInv, Call \/ Timeout \/ (Parse /\ Delimiters = {}) \/ UNCHANGED vars
  PROVE  IInv'
<1>1. UNCHANGED <<line, buffer, got, sent, hit, nFaults>>
  BY DEF Call, Timeout, Parse, vars
<1>2. pc' \in {"out", "read", "parse"} /\ result' \in {"frame", "timeout", "strange", "unpack"}
  BY DEF Call, Timeout, End, Parse, vars, IInv, TypeOK
<1>3. TypeOK'
  BY <1>1, <1>2 DEF IInv, TypeOK
<1>4. BufferOK'
  <2>1. pc' # "parse" => Delimiters = {}
    BY DEF Call, Timeout, End, Parse, vars, IInv, BufferOK
  <2>2. Delimiters' = Delimiters
    BY <1>1 DEF Delimiters
  <2> QED
    BY <1>1, <2>1, <2>2 DEF IInv, BufferOK
<1>5. Stream' = Stream
  BY <1>1 DEF Stream
<1> QED
  BY <1>1, <1>3, <1>4, <1>5, SameFrames

Chunk(i) == SubSeq(buffer, 1, i - 1)

(* A delimiter is the last byte in the buffer: the one just read.          *)
LEMMA CutFacts ==
  ASSUME IInv, NEW i \in Delimiters
  PROVE  /\ i = Len(buffer) /\ i \in Nat \ {0} /\ Len(line) \in Nat /\ line \in Seq(AByte)
         /\ Stream \in Seq(AByte) /\ Len(Stream) = i + Len(line)
         /\ Chunk(i) \in Seq(AByte) /\ Len(Chunk(i)) = i - 1
         /\ \A x \in 1..(i - 1) : Chunk(i)[x] = Stream[x] /\ Stream[x].is # "zero"
         /\ i \in 1..Len(Stream) /\ Stream[i].is = "zero"
         /\ SubSeq(buffer, i + 1, Len(buffer)) = << >>
         /\ \A e \in 1..Len(line) : e + i \in 1..Len(Stream) /\ line[e] = Stream[e + i]
<1>0. /\ TypeOK /\ i = Len(buffer) /\ buffer \in Seq(AByte) /\ line \in Seq(AByte)
  BY DEF IInv, BufferOK, TypeOK
<1>1. /\ Stream \in Seq(AByte) /\ Len(Stream) = Len(buffer) + Len(line)
      /\ Len(buffer) \in Nat /\ Len(line) \in Nat
      /\ DOMAIN buffer = 1..Len(buffer)
      /\ \A x \in 1..Len(buffer) : Stream[x] = buffer[x] /\ x \in 1..Len(Stream)
      /\ \A e \in 1..Len(line) :
           Stream[Len(buffer) + e] = line[e] /\ Len(buffer) + e \in 1..Len(Stream)
  BY <1>0, StreamFacts
<1>2. i \in 1..Len(buffer) /\ buffer[i].is = "zero"
  BY <1>1 DEF Delimiters
<1>3. i \in Nat \ {0}
  BY <1>1, <1>2, SMT
<1>4. /\ Chunk(i) \in Seq(AByte) /\ Len(Chunk(i)) = i - 1
      /\ \A x \in 1..(i - 1) : Chunk(i)[x] = buffer[x]
  <2>1. 1 \in Nat \ {0} /\ i - 1 \in Nat /\ 1 <= i - 1 + 1 /\ i - 1 <= Len(buffer)
        /\ i - 1 - 1 + 1 = i - 1
    BY <1>0, <1>3, SMT
  <2>2. \A x \in 1..(i - 1) : 1 + x - 1 = x
    BY <1>3, SMT
  <2> DEFINE c == SubSeq(buffer, 1, i - 1)
  <2>3. /\ c \in Seq(AByte) /\ Len(c) = i - 1 - 1 + 1
        /\ \A x \in 1..(i - 1 - 1 + 1) : c[x] = buffer[1 + x - 1]
    BY <1>0, <2>1, Part
  <2> QED
    BY <2>1, <2>2, <2>3 DEF Chunk
<1>5. ASSUME NEW x \in 1..(i - 1) PROVE Chunk(i)[x] = Stream[x] /\ Stream[x].is # "zero"
  <2>1. x \in 1..Len(buffer) /\ x # Len(buffer)
    BY <1>0, <1>1, SMT
  <2>2. x \notin Delimiters
    BY <2>1 DEF IInv, BufferOK
  <2> QED
    BY <1>1, <1>4, <2>1, <2>2 DEF Delimiters
<1>6. SubSeq(buffer, i + 1, Len(buffer)) = << >>
  <2>1. i + 1 \in Int /\ Len(buffer) \in Int /\ Len(buffer) < i + 1
    BY <1>0, <1>1, SMT
  <2> QED
    BY <2>1, SubSeqEmpty
<1>7. ASSUME NEW e \in 1..Len(line) PROVE e + i \in 1..Len(Stream) /\ line[e] = Stream[e + i]
  <2>1. e + i = Len(buffer) + e
    BY <1>0, <1>1, SMT
  <2> QED
    BY <1>1, <2>1
<1> QED
  BY <1>0, <1>1, <1>2, <1>3, <1>4, <1>5, <1>6, <1>7

(* What is cut off leaves the rest in order,                               *)
LEMMA CutKeeps ==
  ASSUME IInv, NEW i \in Delimiters
  PROVE  Ordered(line) /\ Passed(got, line) /\ NoneAfter(line, sent)
<1>1. /\ i \in Nat \ {0} /\ Len(line) \in Nat /\ line \in Seq(AByte) /\ Stream \in Seq(AByte)
      /\ \A e \in 1..Len(line) : e + i \in 1..Len(Stream) /\ line[e] = Stream[e + i]
  BY CutFacts
<1> DEFINE h == [e \in 1..Len(line) |-> e + i]
<1>2. \A e \in 1..Len(line) : h[e] = e + i
  OBVIOUS
<1>3. ASSUME NEW e \in 1..Len(line), NEW f \in 1..Len(line), e < f PROVE h[e] < h[f]
  BY <1>1, <1>3, SMT
<1> HIDE DEF h
<1>4. Follows(line, Stream, h)
  BY <1>1, <1>2, <1>3 DEF Follows
<1>5. /\ Ordered(line)
      /\ \A frames : Passed(frames, Stream) => Passed(frames, line)
      /\ \A last : NoneAfter(Stream, last) => NoneAfter(line, last)
  BY <1>1, <1>4, FollowsKeeps DEF IInv
<1> QED
  BY <1>5 DEF IInv

(* and a frame that was whole is in the rest, or is what is cut off.       *)
LEMMA CutWhole ==
  ASSUME IInv, NEW i \in Delimiters, NEW frame \in Nat, Whole(Stream, frame)
  PROVE  \/ Whole(line, frame)
         \/ IsFrame(Chunk(i)) /\ Chunk(i)[1].frame = frame
<1>0. CODE_LENGTH \in Nat \ {0}
  BY Lengths
<1>1. /\ i \in Nat \ {0} /\ Len(line) \in Nat /\ Len(Stream) = i + Len(line)
      /\ Chunk(i) \in Seq(AByte) /\ Len(Chunk(i)) = i - 1
      /\ \A x \in 1..(i - 1) : Chunk(i)[x] = Stream[x] /\ Stream[x].is # "zero"
      /\ i \in 1..Len(Stream) /\ Stream[i].is = "zero"
      /\ \A e \in 1..Len(line) : line[e] = Stream[e + i]
      /\ Stream \in Seq(AByte)
  BY CutFacts
<1>2. PICK k \in Nat : WholeAt(Stream, frame, k)
  BY DEF Whole
<1>3. /\ k + CODE_LENGTH + 1 <= Len(Stream)
      /\ k # 0 => Stream[k].is = "zero"
      /\ Stream[k + CODE_LENGTH + 1].is = "zero"
  <2>1. Stream \in Seq(AByte)
    BY <1>1
  <2> QED
    BY <1>2, <2>1, WholeFacts
<1>4. CASE i <= k
  <2> DEFINE e == k - i
  <2>1. /\ e \in Nat /\ e + CODE_LENGTH + 1 <= Len(line) /\ e + i = k /\ k # 0
        /\ e # 0 => e \in 1..Len(line)
    BY <1>0, <1>1, <1>3, <1>4, SMT
  <2>2. \A x \in 1..CODE_LENGTH + 1 : e + x \in 1..Len(line) /\ (e + x) + i = k + x
    BY <1>0, <1>1, <1>3, <1>4, SMT
  <2> HIDE DEF e
  <2>3. \A x \in 1..CODE_LENGTH + 1 : line[e + x] = Stream[k + x]
    BY <1>1, <2>2
  <2>4. e # 0 => line[e] = Stream[k]
    BY <1>1, <2>1
  <2> QED
    BY <1>2, <2>1, <2>3, <2>4, BlockMoves
<1>5. CASE ~ (i <= k)
  <2>1. k = 0
    <3> SUFFICES ASSUME k # 0 PROVE FALSE
      OBVIOUS
    <3>1. k \in 1..(i - 1)
      BY <1>1, <1>5, SMT
    <3> QED
      BY <1>1, <1>3, <3>1
  <2>2. CODE_LENGTH + 1 = i
    <3>1. ~ (CODE_LENGTH + 1 < i)
      <4> SUFFICES ASSUME CODE_LENGTH + 1 < i PROVE FALSE
        OBVIOUS
      <4>1. CODE_LENGTH + 1 \in 1..(i - 1) /\ k + CODE_LENGTH + 1 = CODE_LENGTH + 1
        BY <1>0, <1>1, <2>1, SMT
      <4> QED
        BY <1>1, <1>3, <4>1
    <3>2. ~ (i < CODE_LENGTH + 1)
      <4> SUFFICES ASSUME i < CODE_LENGTH + 1 PROVE FALSE
        OBVIOUS
      <4>1. i \in 1..CODE_LENGTH /\ k + i = i
        BY <1>0, <1>1, <2>1, SMT
      <4>2. Stream[k + i] = Byte(frame, i, "code")
        BY <1>2, <4>1 DEF WholeAt
      <4>3. Stream[i].is = "code"
        BY <4>1, <4>2 DEF Byte
      <4> QED
        BY <1>1, <4>3
    <3> QED
      BY <1>0, <1>1, <3>1, <3>2, SMT
  <2>3. i - 1 = CODE_LENGTH
    BY <1>0, <2>2, SMT
  <2>4. \A x \in 1..CODE_LENGTH : Chunk(i)[x] = Byte(frame, x, "code")
    <3>1. \A x \in 1..CODE_LENGTH : k + x = x
      BY <1>0, <2>1, SMT
    <3>2. \A x \in 1..CODE_LENGTH : Stream[k + x] = Byte(frame, x, "code")
      BY <1>2 DEF WholeAt
    <3> QED
      BY <1>1, <2>3, <3>1, <3>2
  <2>5. Chunk(i) = Codes(frame)
    <3>1. /\ Codes(frame) \in Seq(AByte) /\ Len(Codes(frame)) = CODE_LENGTH
          /\ \A m \in 1..CODE_LENGTH : Codes(frame)[m] = Byte(frame, m, "code")
      BY WireFacts
    <3> DEFINE c == Chunk(i)
               d == Codes(frame)
    <3>2. /\ c \in Seq(AByte) /\ d \in Seq(AByte) /\ Len(c) = Len(d)
          /\ \A x \in 1..Len(c) : c[x] = d[x]
      BY <1>1, <2>3, <2>4, <3>1
    <3> HIDE DEF c, d
    <3>3. c = d
      BY <3>2, SeqEqual
    <3> QED
      BY <3>3 DEF c, d
  <2>6. 1 \in 1..CODE_LENGTH
    BY <1>0, SMT
  <2>7. Chunk(i)[1].frame = frame
    <3>1. Chunk(i)[1] = Byte(frame, 1, "code")
      BY <2>4, <2>6
    <3> QED
      BY <3>1 DEF Byte
  <2> QED
    BY <1>1, <2>3, <2>5, <2>7 DEF IsFrame
<1> QED
  BY <1>4, <1>5

(* A frame that is cut off is newer than all that came out, older than     *)
(* what is left, and everything in between was hit.                        *)
LEMMA ChunkFacts ==
  ASSUME IInv, NEW i \in Delimiters, IsFrame(Chunk(i)), NEW frame, frame = Chunk(i)[1].frame
  PROVE  /\ frame \in 0..sent
         /\ \A x \in 1..Len(got) : got[x] < frame
         /\ \A j \in 1..Len(line) :
              /\ frame <= line[j].frame
              /\ frame = line[j].frame => line[j].place \notin 1..CODE_LENGTH
         /\ \A other \in (1..sent) \ hit : other < frame => Out(other)
<1>0. CODE_LENGTH \in Nat \ {0} /\ sent \in Nat /\ TypeOK
  BY Lengths, SentType DEF IInv
<1>1. /\ i \in Nat \ {0} /\ Len(line) \in Nat /\ Len(Stream) = i + Len(line)
      /\ Len(Chunk(i)) = i - 1
      /\ \A x \in 1..(i - 1) : Chunk(i)[x] = Stream[x]
      /\ \A e \in 1..Len(line) : e + i \in 1..Len(Stream) /\ line[e] = Stream[e + i]
      /\ Stream \in Seq(AByte) /\ Chunk(i) \in Seq(AByte)
  BY CutFacts
<1>2. Len(Chunk(i)) = CODE_LENGTH /\ Chunk(i) = Codes(frame)
  BY DEF IsFrame
<1>3. \A x \in 1..CODE_LENGTH : x \in 1..(i - 1) /\ x \in 1..Len(Stream)
  BY <1>0, <1>1, <1>2, SMT
<1>4. 1 \in 1..CODE_LENGTH /\ CODE_LENGTH \in 1..CODE_LENGTH
  BY <1>0, SMT
<1>5. \A x \in 1..CODE_LENGTH : Stream[x].frame = frame /\ Stream[x].place = x
  <2>1. \A x \in 1..CODE_LENGTH : Codes(frame)[x] = Byte(frame, x, "code")
    BY DEF Codes
  <2>2. \A x \in 1..CODE_LENGTH : Stream[x] = Byte(frame, x, "code")
    BY <1>1, <1>2, <1>3, <2>1
  <2>3. ASSUME NEW x \in 1..CODE_LENGTH PROVE Stream[x].frame = frame /\ Stream[x].place = x
    <3>1. Stream[x] = [frame |-> frame, place |-> x, is |-> "code"]
      BY <2>2 DEF Byte
    <3> QED
      BY <3>1
  <2> QED
    BY <2>3
<1>6. frame \in Nat /\ frame <= sent
  <2>1. Stream[1] \in AByte /\ Stream[1].frame = frame /\ Stream[1].frame <= sent
    BY <1>1, <1>3, <1>4, <1>5, ElementOfSeq DEF IInv, NoneAfter
  <2> QED
    BY <2>1, Fields
<1>7. ASSUME NEW x \in 1..Len(got) PROVE got[x] < frame
  <2>1. got[x] <= frame /\ got[x] # frame
    BY <1>3, <1>4, <1>5 DEF IInv, Passed
  <2>2. got[x] \in Nat
    BY <1>0, SentType
  <2> QED
    BY <1>6, <2>1, <2>2, SMT
<1>8. ASSUME NEW j \in 1..Len(line)
      PROVE  /\ frame <= line[j].frame
             /\ frame = line[j].frame => line[j].place \notin 1..CODE_LENGTH
  <2>1. j + i \in 1..Len(Stream) /\ line[j] = Stream[j + i] /\ CODE_LENGTH < j + i
    <3>1. CODE_LENGTH < j + i
      BY <1>0, <1>1, <1>2, SMT
    <3> QED
      BY <1>1, <3>1
  <2>2. /\ Stream[CODE_LENGTH].frame <= line[j].frame
        /\ Stream[CODE_LENGTH].frame = line[j].frame /\ Stream[CODE_LENGTH].place # 0
             /\ line[j].place # 0 => Stream[CODE_LENGTH].place < line[j].place
    BY <1>3, <1>4, <2>1 DEF IInv, Ordered
  <2>3. Stream[CODE_LENGTH].frame = frame /\ Stream[CODE_LENGTH].place = CODE_LENGTH
    BY <1>4, <1>5
  <2>4. ASSUME frame = line[j].frame, line[j].place \in 1..CODE_LENGTH PROVE FALSE
    <3>1. line[j].place # 0 /\ CODE_LENGTH # 0 /\ ~ (CODE_LENGTH < line[j].place)
      BY <1>0, <2>4, SMT
    <3> QED
      BY <2>2, <2>3, <2>4, <3>1
  <2> QED
    BY <2>2, <2>3, <2>4
<1>9. ASSUME NEW other \in (1..sent) \ hit, other < frame PROVE Out(other)
  <2> SUFFICES ASSUME Whole(Stream, other) PROVE FALSE
    BY DEF IInv
  <2>0. other \in Nat
    BY <1>0, SMT
  <2>1. PICK k \in Nat : WholeAt(Stream, other, k)
    BY DEF Whole
  <2>2. k + 1 \in 1..Len(Stream) /\ Stream[k + 1].frame = other
    <3>1. 1 \in 1..CODE_LENGTH + 1
      BY <1>0, SMT
    <3> QED
      BY <1>1, <2>0, <2>1, <3>1, WholeFacts
  <2>3. Stream[1].frame = frame /\ 1 \in 1..Len(Stream)
    BY <1>3, <1>4, <1>5
  <2>4. CASE k = 0
    <3>1. k + 1 = 1
      BY <2>4, SMT
    <3>2. other = frame
      BY <2>2, <2>3, <3>1
    <3> QED
      BY <1>6, <1>9, <3>2, SMT
  <2>5. CASE k # 0
    <3>1. 1 < k + 1
      BY <2>5, SMT
    <3>2. frame <= other
      BY <2>2, <2>3, <3>1 DEF IInv, Ordered
    <3> QED
      BY <1>6, <1>9, <2>0, <3>2, SMT
  <2> QED
    BY <2>4, <2>5
<1>10. frame \in 0..sent
  BY <1>0, <1>6, SMT
<1> QED
  BY <1>7, <1>8, <1>9, <1>10

(* A turn of the inner loop that finds a delimiter.                        *)
LEMMA CutStep ==
  ASSUME IInv, Parse, Delimiters # {}
  PROVE  \E i \in Delimiters :
           /\ buffer' = << >> /\ Stream' = line
           /\ UNCHANGED <<line, sent, hit, nFaults>> /\ pc = "parse"
           /\ \/ /\ IsFrame(Chunk(i))
                 /\ got' = Append(got, Chunk(i)[1].frame)
                 /\ pc' = "out" /\ result' \in {"strange", "frame"}
              \/ /\ ~ IsFrame(Chunk(i)) /\ got' = got
                 /\ \/ UNCHANGED <<pc, result>>
                    \/ pc' = "out" /\ result' = "unpack"
<1>1. PICK i \in Delimiters : /\ buffer' = SubSeq(buffer, i + 1, Len(buffer))
                              /\ Judge(SubSeq(buffer, 1, i - 1))
  BY DEF Parse
<1>2. buffer' = << >> /\ line \in Seq(AByte)
  BY <1>1, CutFacts
<1>3. UNCHANGED <<line, sent, hit, nFaults>> /\ pc = "parse"
  BY DEF Parse
<1>4. Stream' = line
  BY <1>2, <1>3, ConcatEmptySeq DEF Stream
<1>5. Judge(Chunk(i))
  BY <1>1 DEF Chunk
<1> QED
  BY <1>2, <1>3, <1>4, <1>5 DEF Judge, End

LEMMA ParseIInv == ASSUME IInv, Parse PROVE IInv'
<1>1. CASE Delimiters = {}
  BY <1>1, QuietIInv
<1>2. CASE Delimiters # {}
  <2>1. PICK i \in Delimiters :
           /\ buffer' = << >> /\ Stream' = line
           /\ UNCHANGED <<line, sent, hit, nFaults>> /\ pc = "parse"
           /\ \/ /\ IsFrame(Chunk(i))
                 /\ got' = Append(got, Chunk(i)[1].frame)
                 /\ pc' = "out" /\ result' \in {"strange", "frame"}
              \/ /\ ~ IsFrame(Chunk(i)) /\ got' = got
                 /\ \/ UNCHANGED <<pc, result>>
                    \/ pc' = "out" /\ result' = "unpack"
    BY <1>2, CutStep
  <2> DEFINE frame == Chunk(i)[1].frame
  <2>2. Ordered(line) /\ Passed(got, line) /\ NoneAfter(line, sent)
    BY CutKeeps
  <2>3. TypeOK /\ got \in Seq(0..MaxFrames) /\ sent \in Nat /\ sent <= MaxFrames
        /\ Len(got) \in Nat
    BY SentType DEF IInv, TypeOK
  <2>4. IsFrame(Chunk(i)) =>
          /\ frame \in 0..sent
          /\ \A j \in 1..Len(line) :
               /\ frame <= line[j].frame
               /\ frame = line[j].frame => line[j].place \notin 1..CODE_LENGTH
    BY ChunkFacts
  <2> HIDE DEF frame
  <2>5. CASE IsFrame(Chunk(i)) /\ got' = Append(got, frame)
    <3>1. frame \in 0..sent /\ frame \in 0..MaxFrames
      BY <2>3, <2>4, <2>5, Lengths, SMT
    <3>2. /\ got' \in Seq(0..MaxFrames) /\ Len(got') = Len(got) + 1
          /\ \A x \in 1..Len(got) : got'[x] = got[x]
          /\ got'[Len(got) + 1] = frame
      BY <2>3, <2>5, <3>1, SMT
    <3>3. \A x \in 1..Len(got') : x \in 1..Len(got) \/ x = Len(got) + 1
      BY <2>3, <3>2, SMT
    <3>4. Passed(got', line)
      BY <2>2, <2>4, <2>5, <3>2, <3>3 DEF Passed
    <3>5. \A x \in 1..Len(got') : got'[x] <= sent
      <4>1. frame <= sent
        BY <2>3, <3>1, SMT
      <4> QED
        BY <3>2, <3>3, <4>1 DEF IInv
    <3>6. \A other : Out(other) \/ other = frame => Out(other)'
      <4>1. Len(got) + 1 \in 1..Len(got') /\ \A x \in 1..Len(got) : x \in 1..Len(got')
        BY <2>3, <3>2, SMT
      <4> QED
        BY <3>2, <4>1 DEF Out
    <3>7. ASSUME NEW other \in (1..sent) \ hit PROVE Whole(line, other) \/ Out(other)'
      <4>0. other \in Nat
        BY <2>3, SMT
      <4>1. Whole(Stream, other) \/ Out(other)
        BY DEF IInv
      <4>2. Whole(Stream, other) => Whole(line, other) \/ other = frame
        BY <4>0, CutWhole DEF frame
      <4> QED
        BY <3>6, <4>1, <4>2
    <3>8. pc' = "out" /\ result' \in {"strange", "frame"}
      BY <2>1, <2>5
    <3>9. TypeOK'
      BY <2>1, <2>3, <3>2, <3>8, EmptySeq DEF TypeOK
    <3>10. BufferOK'
      BY <2>1 DEF BufferOK, Delimiters
    <3> QED
      BY <2>1, <2>2, <3>4, <3>5, <3>7, <3>9, <3>10 DEF IInv
  <2>6. CASE ~ IsFrame(Chunk(i)) /\ got' = got
    <3>1. ASSUME NEW other \in (1..sent) \ hit PROVE Whole(line, other) \/ Out(other)'
      <4>0. other \in Nat
        BY <2>3, SMT
      <4>1. Whole(Stream, other) \/ Out(other)
        BY DEF IInv
      <4>2. Whole(Stream, other) => Whole(line, other)
        BY <2>6, <4>0, CutWhole
      <4> QED
        BY <2>6, <4>1, <4>2 DEF Out
    <3>2. TypeOK'
      BY <2>1, <2>3, <2>6, EmptySeq DEF TypeOK
    <3>3. BufferOK'
      BY <2>1 DEF BufferOK, Delimiters
    <3> QED
      BY <2>1, <2>2, <2>6, <3>1, <3>2, <3>3 DEF IInv
  <2> QED
    BY <2>1, <2>5, <2>6 DEF frame
<1> QED
  BY <1>1, <1>2

(* The port may be opened in the middle of frame 0: a frame already hit.   *)
LEMMA InitIInv == ASSUME Init PROVE IInv
<1>0. CODE_LENGTH \in Nat \ {0} /\ MaxFrames \in Nat /\ MaxFaults \in Nat
  BY Lengths
<1>1. PICK i \in 1..CODE_LENGTH + 3 : line = SubSeq(Wire(0), i, CODE_LENGTH + 2)
  BY DEF Init
<1>2. /\ buffer = << >> /\ pc = "out" /\ result = "timeout" /\ got = << >> /\ sent = 0
      /\ hit = {0} /\ nFaults = 0
  BY DEF Init
<1> DEFINE w == Wire(0)
           n == CODE_LENGTH + 2 - i + 1
<1>3. /\ w \in Seq(AByte) /\ Len(w) = CODE_LENGTH + 2
      /\ \A m \in 1..(CODE_LENGTH + 2) : w[m] = Byte(0, m - 1, Kind(m))
  BY WireFacts
<1>4. line = SubSeq(w, i, CODE_LENGTH + 2)
  BY <1>1
<1> HIDE DEF w
<1>5. i \in Nat \ {0} /\ CODE_LENGTH + 2 \in Nat /\ i <= CODE_LENGTH + 2 + 1
      /\ CODE_LENGTH + 2 <= Len(w)
  BY <1>0, <1>3, SMT
<1>6. /\ line \in Seq(AByte) /\ Len(line) = n
      /\ \A e \in 1..n : line[e] = w[i + e - 1]
  <2> DEFINE b == CODE_LENGTH + 2
  <2>1. b \in Nat /\ i <= b + 1 /\ b <= Len(w) /\ i \in Nat \ {0} /\ w \in Seq(AByte)
    BY <1>3, <1>5
  <2>a. line = SubSeq(w, i, b)
    BY <1>4
  <2>b. n = b - i + 1
    BY <1>0, <1>5, SMT
  <2> HIDE DEF b
  <2>2. /\ SubSeq(w, i, b) \in Seq(AByte) /\ Len(SubSeq(w, i, b)) = b - i + 1
        /\ \A e \in 1..(b - i + 1) : SubSeq(w, i, b)[e] = w[i + e - 1]
    BY <2>1, Part
  <2> QED
    BY <2>a, <2>b, <2>2
<1>7. ASSUME NEW e \in 1..Len(line) PROVE line[e].frame = 0 /\ line[e].place = i + e - 2
  <2> DEFINE m == i + e - 1
  <2>1. m \in 1..(CODE_LENGTH + 2) /\ m - 1 = i + e - 2 /\ e \in 1..n
    BY <1>0, <1>5, <1>6, SMT
  <2>2. line[e] = w[m]
    BY <1>6, <2>1
  <2> HIDE DEF m
  <2>3. line[e] = Byte(0, m - 1, Kind(m))
    BY <1>3, <2>1, <2>2
  <2> QED
    BY <2>1, <2>3 DEF Byte
<1>8. Stream = line
  BY <1>2, <1>6, ConcatEmptySeq DEF Stream
<1>9. Ordered(line)
  <2> SUFFICES ASSUME NEW e \in 1..Len(line), NEW f \in 1..Len(line), e < f
               PROVE  /\ line[e].frame <= line[f].frame
                      /\ line[e].place < line[f].place
    BY DEF Ordered
  <2>1. /\ line[e].frame = 0 /\ line[f].frame = 0
        /\ line[e].place = i + e - 2 /\ line[f].place = i + f - 2
    BY <1>7
  <2>2. i \in Int /\ e \in Int /\ f \in Int
    BY <1>5, SMT
  <2> QED
    BY <2>1, <2>2, SMT
<1>10. NoneAfter(line, sent)
  BY <1>2, <1>7 DEF NoneAfter
<1>11. Len(got) = 0 /\ \A x \in 1..0 : FALSE
  BY <1>2, SMT
<1>12. Passed(got, line) /\ \A x \in 1..Len(got) : got[x] <= sent
  BY <1>11 DEF Passed
<1>13. TypeOK
  <2>1. 0 \in 0..MaxFrames /\ 0 \in 0..MaxFaults
    BY <1>0, SMT
  <2> QED
    BY <1>2, <1>6, <2>1, EmptySeq DEF TypeOK
<1>14. hit \subseteq 0..sent /\ 0 \in hit /\ (1..sent) \ hit = {}
  BY <1>2, SMT
<1>15. BufferOK
  BY <1>2 DEF BufferOK, Delimiters
<1> QED
  BY <1>8, <1>9, <1>10, <1>12, <1>13, <1>14, <1>15 DEF IInv

LEMMA NextIInv == IInv /\ [Next]_vars => IInv'
<1> SUFFICES ASSUME IInv, [Next]_vars PROVE IInv'
  OBVIOUS
<1>1. CASE Transmit
  BY <1>1, TransmitIInv
<1>2. CASE Read
  BY <1>2, ReadIInv
<1>3. CASE Parse
  BY <1>3, ParseIInv
<1>4. CASE Call \/ Timeout \/ UNCHANGED vars
  BY <1>4, QuietIInv
<1>5. CASE \E i \in DOMAIN line : Lose(i) \/ Damage(i) \/ Noise(i)
  BY <1>5, LoseIInv, DamageIInv, NoiseIInv
<1> QED
  BY <1>1, <1>2, <1>3, <1>4, <1>5 DEF Next

LEMMA Invariance == Spec => []IInv
<1>1. Init => IInv
  BY InitIInv
<1> QED
  BY <1>1, NextIInv, PTL DEF Spec

(* The state of the adapter and the line stays well formed.                *)
THEOREM TypeCorrect == Spec => []TypeOK
<1>1. IInv => TypeOK
  BY DEF IInv
<1> QED
  BY <1>1, Invariance, PTL

(* receive() returns with no frame left in the buffer that is all there.   *)
THEOREM NoFrameLeftBehind == Spec => []NothingLeftBehind
<1>1. IInv => NothingLeftBehind
  BY DEF IInv, BufferOK, NothingLeftBehind
<1> QED
  BY <1>1, Invariance, PTL

(* What the line does to a frame costs that frame alone.                   *)
THEOREM DamageStaysLocal == Spec => []OnlyTheHitAreLost
<1>1. IInv => OnlyTheHitAreLost
  <2> SUFFICES ASSUME IInv, line = << >>, pc # "parse", NEW frame \in (1..sent) \ hit
               PROVE  \E i \in DOMAIN got : got[i] = frame
    BY DEF OnlyTheHitAreLost
  <2>0. TypeOK /\ Delimiters = {}
    BY DEF IInv, BufferOK
  <2>1. ASSUME Whole(Stream, frame) PROVE FALSE
    <3>0. frame \in Nat /\ CODE_LENGTH \in Nat \ {0} /\ Len(line) = 0
      BY <2>0, SentType, Lengths, SMT
    <3>1. PICK k \in Nat : WholeAt(Stream, frame, k)
      BY <2>1 DEF Whole
    <3>2. /\ Stream \in Seq(AByte) /\ Len(Stream) = Len(buffer) + Len(line)
          /\ Len(buffer) \in Nat /\ DOMAIN buffer = 1..Len(buffer)
          /\ \A i \in 1..Len(buffer) : Stream[i] = buffer[i]
      BY <2>0, StreamFacts
    <3>3. k + CODE_LENGTH + 1 <= Len(Stream) /\ Stream[k + CODE_LENGTH + 1].is = "zero"
      <4>1. Stream \in Seq(AByte)
        BY <3>2
      <4> QED
        BY <3>0, <3>1, <4>1, WholeFacts
    <3>4. k + CODE_LENGTH + 1 \in 1..Len(buffer)
      BY <3>0, <3>2, <3>3, SMT
    <3> QED
      BY <2>0, <3>2, <3>3, <3>4 DEF Delimiters
  <2>2. Out(frame)
    BY <2>1 DEF IInv
  <2> QED
    BY <2>0, <2>2, SentType DEF Out
<1> QED
  BY <1>1, Invariance, PTL

-----------------------------------------------------------------------------
(* The adapter is a BusAdapter.                                            *)

LEMMA InitRefines == ASSUME Init PROVE Adapter!Init
<1>1. sent = 0 /\ hit = {0} /\ pc = "out" /\ got = << >>
  BY DEF Init
<1>2. 0..sent = {0}
  BY <1>1, SMT
<1> QED
  BY <1>1, <1>2 DEF Adapter!Init

LEMMA DeliverRefines ==
  ASSUME IInv, NEW i \in Delimiters, IsFrame(Chunk(i)), pc = "parse", pc' = "out",
         got' = Append(got, Chunk(i)[1].frame), UNCHANGED <<sent, hit>>
  PROVE  \E frame \in 0..sent : Adapter!Deliver(frame)
<1> DEFINE frame == Chunk(i)[1].frame
<1>1. /\ frame \in 0..sent
      /\ \A x \in 1..Len(got) : got[x] < frame
      /\ \A other \in (1..sent) \ hit : other < frame => Out(other)
  BY ChunkFacts
<1>2. DOMAIN got = 1..Len(got) /\ sent \in Nat
  BY SentType DEF IInv
<1> HIDE DEF frame
<1>3. Adapter!Newer(frame)
  BY <1>1, <1>2 DEF Adapter!Newer
<1>4. ASSUME NEW other \in 0..sent, Adapter!Newer(other), other < frame PROVE other \in hit
  <2>1. CASE other = 0
    BY <2>1 DEF IInv
  <2>2. CASE other # 0
    <3>1. other \in 1..sent /\ other \in Int /\ ~ (other < other)
      BY <1>2, <2>2, SMT
    <3>2. ~ Out(other)
      BY <1>2, <1>4, <3>1 DEF Out, Adapter!Newer
    <3> QED
      BY <1>1, <1>4, <3>1, <3>2
  <2> QED
    BY <2>1, <2>2
<1>5. Adapter!Deliver(frame)
  <2>1. got' = Append(got, frame)
    BY DEF frame
  <2> QED
    BY <1>3, <1>4, <2>1 DEF Adapter!Deliver
<1> QED
  BY <1>1, <1>5

LEMMA NextRefines == ASSUME IInv, [Next]_vars PROVE [Adapter!Next]_(Adapter!vars)
<1>0. sent \in Nat
  BY SentType DEF IInv
<1>1. CASE Transmit
  <2>1. sent' = sent + 1 /\ UNCHANGED <<pc, got, hit>>
    BY <1>1 DEF Transmit
  <2>2. /\ \A x \in 0..sent : x \in 0..sent'
        /\ \A x \in 0..sent' : x \in Nat
        /\ \A old \in 0..sent, new \in (0..sent') \ (0..sent) : old < new
    BY <1>0, <2>1, SMT
  <2>3. Adapter!Send
    BY <2>1, <2>2 DEF Adapter!Send
  <2> QED
    BY <2>3 DEF Adapter!Next
<1>2. CASE Read \/ UNCHANGED vars
  BY <1>2 DEF Read, vars, Adapter!vars
<1>3. CASE Call
  BY <1>3 DEF Call, Adapter!Call, Adapter!Next
<1>4. CASE Timeout
  BY <1>4 DEF Timeout, End, Adapter!Raise, Adapter!Next
<1>5. CASE Parse
  <2>1. CASE Delimiters = {}
    BY <1>5, <2>1 DEF Parse, Adapter!vars
  <2>2. CASE Delimiters # {}
    <3>1. PICK i \in Delimiters :
            /\ UNCHANGED <<sent, hit>> /\ pc = "parse"
            /\ \/ /\ IsFrame(Chunk(i))
                  /\ got' = Append(got, Chunk(i)[1].frame)
                  /\ pc' = "out"
               \/ /\ got' = got
                  /\ pc' = pc \/ pc' = "out"
      BY <1>5, <2>2, CutStep
    <3>2. CASE /\ IsFrame(Chunk(i))
               /\ got' = Append(got, Chunk(i)[1].frame)
               /\ pc' = "out"
      BY <3>1, <3>2, DeliverRefines DEF Adapter!Next
    <3>3. CASE got' = got /\ pc' = pc
      BY <3>1, <3>3 DEF Adapter!vars
    <3>4. CASE got' = got /\ pc' = "out"
      BY <3>1, <3>4 DEF Adapter!Raise, Adapter!Next
    <3> QED
      BY <3>1, <3>2, <3>3, <3>4
  <2> QED
    BY <2>1, <2>2
<1>6. CASE \E i \in DOMAIN line : Lose(i) \/ Damage(i) \/ Noise(i)
  <2>1. UNCHANGED <<pc, got, sent>> /\ hit \subseteq hit'
    BY <1>6 DEF Lose, Damage, Noise, Fault
  <2> QED
    BY <2>1 DEF Adapter!Damage, Adapter!Next
<1> QED
  BY <1>1, <1>2, <1>3, <1>4, <1>5, <1>6 DEF Next

(* SerialWrappedCanAdapter is a BusAdapter, whatever the line does: its    *)
(* initial states are initial states of one, and each of its steps is a    *)
(* step of one or none at all.                                             *)
THEOREM SerialIsABusAdapter == Spec => ImplementsBusAdapter
<1>1. Init => Adapter!Init
  BY InitRefines
<1>2. IInv /\ [Next]_vars => [Adapter!Next]_(Adapter!vars)
  BY NextRefines
<1> QED
  BY <1>1, <1>2, Invariance, PTL DEF Spec, ImplementsBusAdapter, Adapter!Spec

-----------------------------------------------------------------------------
(* What whoever calls receive() gets from any BusAdapter and so, by the    *)
(* theorem above, from this one.                                           *)

VARIABLES anySent, anyDamaged, anyCalling, anyGot

Any == INSTANCE BusAdapter WITH
  sent <- anySent, damaged <- anyDamaged, calling <- anyCalling, got <- anyGot

\* Frames are numbers, and so is what has come out.
BusTypes ==
  /\ anySent \subseteq Nat
  /\ anyGot \in Seq(Nat)

BusInv == BusTypes /\ Any!InOrder /\ Any!OnlyDamagedAreMissing

(* Before anything is sent or received, all of it holds.                   *)
LEMMA InitBusInv == Any!Init => BusInv
  BY DEF Any!Init, BusInv, BusTypes, Any!InOrder, Any!OnlyDamagedAreMissing, Any!Newer

(* What is sent later is newer than all that has come out, so that nothing *)
(* is missing because of it.                                               *)
LEMMA SendBusInv == BusInv /\ Any!Send => BusInv'
<1> SUFFICES ASSUME BusInv, Any!Send PROVE BusInv'
  OBVIOUS
<1>1. BusTypes'
  BY DEF BusInv, BusTypes, Any!Send
<1>2. Any!InOrder'
  BY DEF BusInv, Any!InOrder, Any!Send
<1>3. ASSUME NEW frame \in (anySent \ anyDamaged)', ~ Any!Newer(frame)'
      PROVE  \E i \in DOMAIN anyGot' : anyGot'[i] = frame
  <2>1. PICK i \in DOMAIN anyGot : ~ (anyGot[i] < frame)
    BY <1>3 DEF Any!Newer, Any!Send
  <2>2. anyGot[i] \in anySent
    BY DEF BusInv, Any!InOrder
  <2>3. frame \in anySent
    BY <1>3, <2>1, <2>2 DEF Any!Send
  <2>4. frame \notin anyDamaged
    BY <1>3 DEF Any!Send
  <2> QED
    BY <1>3, <2>3, <2>4 DEF BusInv, Any!OnlyDamagedAreMissing, Any!Newer, Any!Send
<1> QED
  BY <1>1, <1>2, <1>3 DEF BusInv, Any!OnlyDamagedAreMissing

(* The frame that comes out is newer than what came before, and all that   *)
(* it overtakes is damaged or has come out.                                *)
LEMMA DeliverBusInv ==
  ASSUME BusInv, NEW frame \in anySent, Any!Deliver(frame)
  PROVE  BusInv'
<1>1. BusTypes'
  BY DEF BusInv, BusTypes, Any!Deliver
<1>2. /\ Len(anyGot) \in Nat
      /\ DOMAIN anyGot = 1..Len(anyGot)
      /\ DOMAIN anyGot' = 1..Len(anyGot) + 1
      /\ anyGot'[Len(anyGot) + 1] = frame
      /\ \A i \in 1..Len(anyGot) : anyGot'[i] = anyGot[i] /\ anyGot[i] \in anySent
  <2>1. anyGot \in Seq(Nat) /\ anyGot' = Append(anyGot, frame) /\ frame \in Nat
    BY DEF BusInv, BusTypes, Any!Deliver
  <2>2. \A i \in DOMAIN anyGot : anyGot[i] \in anySent
    BY DEF BusInv, Any!InOrder
  <2> QED
    BY <2>1, <2>2
<1>3. Any!InOrder'
  <2>1. \A i \in DOMAIN anyGot' : anyGot'[i] \in anySent'
    BY <1>2 DEF Any!Deliver
  <2>2. ASSUME NEW i \in DOMAIN anyGot', NEW j \in DOMAIN anyGot', i < j
        PROVE  anyGot'[i] < anyGot'[j]
    <3>1. i \in 1..Len(anyGot)
      BY <1>2, <2>2
    <3>2. CASE j \in 1..Len(anyGot)
      BY <1>2, <2>2, <3>1, <3>2 DEF BusInv, Any!InOrder
    <3>3. CASE j = Len(anyGot) + 1
      BY <1>2, <3>1, <3>3 DEF Any!Deliver, Any!Newer
    <3> QED
      BY <1>2, <3>2, <3>3
  <2> QED
    BY <2>1, <2>2 DEF Any!InOrder
<1>4. ASSUME NEW other \in (anySent \ anyDamaged)', ~ Any!Newer(other)'
      PROVE  \E i \in DOMAIN anyGot' : anyGot'[i] = other
  <2>0. other \in anySent \ anyDamaged /\ anySent \subseteq Nat
    BY <1>4 DEF Any!Deliver, BusInv, BusTypes
  <2>1. CASE other = frame
    BY <1>2, <2>1
  <2>2. CASE ~ Any!Newer(other)
    <3>1. PICK i \in DOMAIN anyGot : anyGot[i] = other
      BY <2>0, <2>2 DEF BusInv, Any!OnlyDamagedAreMissing
    <3> QED
      BY <1>2, <3>1
  <2>3. CASE Any!Newer(other) /\ other # frame
    <3>1. ~ (other < frame)
      BY <2>0, <2>3 DEF Any!Deliver
    <3>2. frame < other
      BY <2>0, <2>3, <3>1
    <3>3. Any!Newer(other)'
      BY <1>2, <2>3, <3>2 DEF Any!Newer
    <3> QED
      BY <1>4, <3>3
  <2> QED
    BY <2>1, <2>2, <2>3
<1> QED
  BY <1>1, <1>3, <1>4 DEF BusInv, Any!OnlyDamagedAreMissing

(* Every step keeps the order and misses nothing but what is damaged.      *)
LEMMA NextBusInv == BusInv /\ [Any!Next]_(Any!vars) => BusInv'
<1> SUFFICES ASSUME BusInv, [Any!Next]_(Any!vars) PROVE BusInv'
  OBVIOUS
<1>1. CASE Any!Send
  BY <1>1, SendBusInv
<1>2. CASE Any!Damage
  BY <1>2 DEF BusInv, BusTypes, Any!InOrder, Any!OnlyDamagedAreMissing, Any!Newer, Any!Damage
<1>3. CASE Any!Call
  BY <1>3 DEF BusInv, BusTypes, Any!InOrder, Any!OnlyDamagedAreMissing, Any!Newer, Any!Call
<1>4. CASE Any!Raise
  BY <1>4 DEF BusInv, BusTypes, Any!InOrder, Any!OnlyDamagedAreMissing, Any!Newer, Any!Raise
<1>5. CASE \E frame \in anySent : Any!Deliver(frame)
  BY <1>5, DeliverBusInv
<1>6. CASE UNCHANGED Any!vars
  BY <1>6 DEF BusInv, BusTypes, Any!InOrder, Any!OnlyDamagedAreMissing, Any!Newer, Any!vars
<1> QED
  BY <1>1, <1>2, <1>3, <1>4, <1>5, <1>6 DEF Any!Next

(* Whatever implements BusAdapter: frames come out in the order they were  *)
(* sent, each at most once, and when one has come out, every older one has *)
(* that was not damaged: what PropertyQuery and ManifestDownload assume of *)
(* receive().                                                              *)
THEOREM AdaptersDeliver == Any!Spec => [](Any!InOrder /\ Any!OnlyDamagedAreMissing)
<1>1. BusInv => Any!InOrder /\ Any!OnlyDamagedAreMissing
  BY DEF BusInv
<1> QED
  BY <1>1, InitBusInv, NextBusInv, PTL DEF Any!Spec
=============================================================================
