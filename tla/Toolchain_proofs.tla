-------------------------- MODULE Toolchain_proofs --------------------------
(***************************************************************************)
(* Proofs about the tools, for any manifests, any texts in them, any node  *)
(* ids, any frames from others and any number of runs: the files the       *)
(* compiler leaves agree, what it serializes is parsed as it was, so       *)
(* clients and devices mean the same by an index, the test server answers  *)
(* every request, and what a command prints is so.                         *)
(*                                                                         *)
(* What is about texts of any length is proved without induction over      *)
(* sequences: a text is described by where the marks in it are, and the    *)
(* least number that were wrong is led to a contradiction (Counting).      *)
(***************************************************************************)
EXTENDS Toolchain, FiniteSetTheorems, SequenceTheorems, WellFoundedInduction, TLAPS

-----------------------------------------------------------------------------
(* The files the compiler leaves, and that the test server answers.      *)

\* FilesAgree, with the shape of what is in files.
Files(f) == [c |-> f.c, h |-> f.h, stubs |-> f.stubs]

Agree(f) == f = Files(f) /\ f.h = f.stubs /\ f.c \in {f.h, Empty}

IInv == \A module \in DOMAIN files : Agree(files[module])

\* What is written in the place of files that agree agrees, whether the
\* templates raise or not.
LEMMA GenerateAgrees ==
  ASSUME IInv, NEW s, NEW module, NEW id, NEW raises \in BOOLEAN,
         Generate(s, module, id, raises)
  PROVE  IInv'
<1> DEFINE new == IF raises THEN [FilesOf(module) EXCEPT !.c = Empty] ELSE Generated(s, id)
<1>1. Agree(FilesOf(module))
  BY DEF IInv, FilesOf, Agree, Files, Missing, Empty
<1>2. Agree(new)
  <2>1. CASE raises
    BY <1>1, <2>1 DEF Agree, Files
  <2>2. CASE ~ raises
    BY <2>2 DEF Agree, Files, Generated
  <2> QED BY <2>1, <2>2
<1>3. files' = [m \in DOMAIN files \cup {module} |-> IF m = module THEN new ELSE files[m]]
  BY DEF Generate, Write
<1> HIDE DEF new
<1> QED BY <1>2, <1>3 DEF IInv

\* Only a compilation writes files.
LEMMA NextAgrees ==
  ASSUME IInv, [Next]_vars
  PROVE  IInv'
<1>1. CASE \E s \in DOMAIN Source, id \in Ids : Compile(s, id)
  <2>1. PICK s \in DOMAIN Source, id \in Ids : Compile(s, id)
    BY <1>1
  <2>2. GenerationRaises(ManifestOf(s)) \in BOOLEAN
    BY DEF GenerationRaises
  <2>3. Generate(s, Identifier(ManifestOf(s).device), id, GenerationRaises(ManifestOf(s)))
    BY <2>1 DEF Compile
  <2> QED BY <2>2, <2>3, GenerateAgrees
<1>2. CASE files' = files
  BY <1>2 DEF IInv
<1>3. ASSUME [Next]_vars, ~ \E s \in DOMAIN Source, id \in Ids : Compile(s, id)
      PROVE  files' = files
  BY <1>3 DEF Next, vars, Build, StartServer, TakeFrame, Getprop, Setprop
<1> QED BY <1>1, <1>2, <1>3

\* Whatever is compiled, and whatever raises in between, the header and the
\* stubs of a module are of the same compilation, and the table in the C file
\* is of that one, too, or there is none.
THEOREM FilesAlwaysAgree == Spec => []FilesAgree
<1>1. Init => IInv
  BY DEF Init, IInv
<1>2. IInv /\ [Next]_vars => IInv'
  BY NextAgrees
<1>3. IInv => FilesAgree
  BY DEF IInv, FilesAgree, Agree
<1> QED BY <1>1, <1>2, <1>3, PTL DEF Spec

-----------------------------------------------------------------------------
\* The operations and errors of the format are codes it can carry.
LEMMA CodeRanges ==
  /\ READ_PROPERTY \in Codes /\ WRITE_PROPERTY \in Codes
  /\ READ_MANIFEST \in Codes /\ ERROR \in Codes
  /\ READ_MANIFEST \notin {READ_PROPERTY, WRITE_PROPERTY, ERROR}
  /\ READ_PROPERTY \notin {WRITE_PROPERTY, ERROR} /\ WRITE_PROPERTY # ERROR
BY SMT DEF READ_PROPERTY, WRITE_PROPERTY, READ_MANIFEST, ERROR, Codes

\* The fields of the identifier of a response: unpack_id after make_frame_id.
LEMMA ResponseFields ==
  ASSUME NEW n \in NodeIds, NEW opcode \in Codes, NEW index \in Indices,
         NEW id, id = MakeId(DEVICE_TO_CLIENT, n, opcode, index)
  PROVE  /\ IsDevprop(id) /\ DirOf(id) = DEVICE_TO_CLIENT
         /\ NodeOf(id) = n /\ OpcodeOf(id) = opcode /\ PropertyIndex(id) = index
<1>1. /\ n \in Int /\ 0 <= n /\ n <= 31 /\ opcode \in Int /\ 0 <= opcode /\ opcode <= 7
      /\ index \in Int /\ 0 <= index /\ index <= 255
  BY SMT DEF NodeIds, Codes, Indices
<1>2. id = 3960 * 131072 + DEVICE_TO_CLIENT * 65536 + n * 2048 + opcode * 256 + index
  BY <1>1, SMT DEF MakeId, ID_FIXED_PART, DEVICE_TO_CLIENT
<1> QED
  BY <1>1, <1>2, SMT DEF IsDevprop, DirOf, NodeOf, OpcodeOf, PropertyIndex, DEVICE_TO_CLIENT

\* One response with the index of the request is an answer, whatever is in it.
LEMMA ResponseIsAnswer ==
  ASSUME NEW n \in NodeIds, NEW msg, msg.id \in Nat, NEW values, NEW data,
         NEW opcode \in {OpcodeOf(msg.id), ERROR}, opcode \in Codes
  PROVE  IsAnswer(Answered(values, Response(n, opcode, PropertyIndex(msg.id), data)), n, msg)
<1> DEFINE index == PropertyIndex(msg.id)
<1> DEFINE resp == Response(n, opcode, index, data)
<1>1. index \in Indices
  BY SMT DEF PropertyIndex, Indices
<1>2. resp.id = MakeId(DEVICE_TO_CLIENT, n, opcode, index)
  BY DEF Response, Message
<1>3. /\ IsDevprop(resp.id) /\ DirOf(resp.id) = DEVICE_TO_CLIENT
      /\ NodeOf(resp.id) = n /\ OpcodeOf(resp.id) = opcode
      /\ PropertyIndex(resp.id) = index
  <2> HIDE DEF index
  <2> QED BY <1>1, <1>2, ResponseFields
<1> HIDE DEF resp
<1>4. /\ Answered(values, resp).alive
      /\ Len(Answered(values, resp).out) = 1
      /\ Answered(values, resp).out[1] = resp
  BY DEF Answered
<1> QED BY <1>3, <1>4 DEF IsAnswer, resp

\* A request to the server has one of four operations, and each of them ends
\* in one response.
LEMMA RequestIsAnswered ==
  ASSUME NEW n \in NodeIds, NEW msg, msg.id \in Nat, IsRequestTo(msg, n),
         NEW blob, NEW values, NEW outcome \in Take(blob, values, n, msg)
  PROVE  IsAnswer(outcome, n, msg)
<1> DEFINE opcode == OpcodeOf(msg.id)
           index == PropertyIndex(msg.id)
<1>1. outcome \in Serve(blob, values, n, opcode, index, msg.data)
  BY DEF Take, IsRequestTo
<1>2. opcode \in Opcode /\ Opcode \subseteq Codes
  BY CodeRanges DEF IsRequestTo, Opcode
<1>3. \A v, d : /\ IsAnswer(Answered(v, Response(n, opcode, index, d)), n, msg)
                /\ IsAnswer(Answered(v, Response(n, ERROR, index, d)), n, msg)
  BY <1>2, ResponseIsAnswer, CodeRanges
<1> HIDE DEF opcode, index
<1>4. PICK v, d : outcome \in {Answered(v, Response(n, opcode, index, d)),
                              Answered(v, Response(n, ERROR, index, d))}
  <2>1. CASE opcode = READ_MANIFEST
    <3>1. outcome = Answered(values, Response(n, opcode, index, Segment(blob, index)))
      BY <1>1, <2>1, CodeRanges DEF Serve
    <3> QED BY <3>1
  <2>2. CASE opcode = READ_PROPERTY
    BY <1>1, <2>2, CodeRanges DEF Serve, Refused
  <2>3. CASE opcode = WRITE_PROPERTY
    BY <1>1, <2>3, CodeRanges DEF Serve, Refused
  <2>4. CASE opcode = ERROR
    BY <1>1, <2>4, CodeRanges DEF Serve, Refused
  <2> QED BY <1>2, <2>1, <2>2, <2>3, <2>4 DEF Opcode
<1> QED BY <1>3, <1>4

\* The test server answers every request to it once and outlives it, and it
\* says nothing to other frames: for any node ids, any manifests, any frames
\* and whatever it has stored.
THEOREM TestServerAnswers == Spec => []ServerAnswers
<1>1. ServerAnswers
  <2> SUFFICES ASSUME NEW n \in Ids, IsServer(n), NEW msg \in Frames,
                      NEW outcome \in Taken(n, msg)
               PROVE  IF IsRequestTo(msg, n) THEN IsAnswer(outcome, n, msg)
                      ELSE outcome.out = << >>
    BY DEF ServerAnswers
  <2>1. n \in NodeIds /\ msg.id \in Nat
    BY ToolchainAssumption DEF NodeIds
  <2>2. CASE IsRequestTo(msg, n)
    BY <2>1, <2>2, RequestIsAnswered DEF Taken
  <2>3. CASE ~ IsRequestTo(msg, n)
    <3>1. outcome \in {[values |-> nodes[n].values, out |-> << >>, alive |-> FALSE],
                       [values |-> nodes[n].values, out |-> << >>, alive |-> TRUE]}
      BY <2>3 DEF Taken, Take, IsRequestTo
    <3> QED BY <2>3, <3>1
  <2> QED BY <2>2, <2>3
<1> QED BY <1>1, PTL DEF Spec

-----------------------------------------------------------------------------
(* Numbers: the least of them, counting, and the k-th of a set.          *)

\* The least of some numbers.
LEMMA LeastNumber ==
  ASSUME NEW T \in SUBSET Nat, T # {}
  PROVE  \E x \in T : \A y \in T : x <= y
<1> DEFINE R == OpToRel(<, Nat)
<1>1. IsWellFoundedOn(R, Nat)
  BY NatLessThanWellFounded
<1>2. \A x, y \in Nat : <<x, y>> \in R <=> x < y
  BY DEF OpToRel
<1> HIDE DEF R
<1>3. PICK x \in T : \A y \in T : ~ (<<y, x>> \in R)
  BY <1>1, WFMin
<1>4. \A y \in T : x \in Nat /\ y \in Nat /\ ~ (y < x)
  BY <1>2, <1>3
<1>5. \A a, b \in Nat : ~ (b < a) => a <= b
  BY SMT
<1> QED
  BY <1>3, <1>4, <1>5

\* Numbers that are there with 0, and with n + 1 if with n, are all there.
LEMMA Counting ==
  ASSUME NEW n \in Nat, NEW H \in SUBSET Nat, 0 \in H,
         \A i \in H : i < n => i + 1 \in H
  PROVE  \A i \in 0..n : i \in H
<1> DEFINE T == (0..n) \ H
<1>1. SUFFICES ASSUME T # {} PROVE FALSE
  OBVIOUS
<1>2. T \in SUBSET Nat
  BY SMT
<1>3. PICK x \in T : \A y \in T : x <= y
  <2> HIDE DEF T
  <2> QED BY <1>1, <1>2, LeastNumber
<1>4. x \in Nat /\ x <= n /\ x # 0 /\ x \notin H
  BY <1>3, SMT
<1>5. x - 1 \in Nat /\ x - 1 < n /\ x - 1 \in 0..n /\ x - 1 + 1 = x /\ ~ (x <= x - 1)
  BY <1>4, SMT
<1>6. x - 1 \in H
  BY <1>3, <1>5
<1> QED
  BY <1>4, <1>5, <1>6

\* A sequence of numbers in ascending order.
Ascending(at, n) ==
  /\ at \in [0..n -> Nat]
  /\ \A j, k \in 0..n : j < k => at[j] < at[k]

\* The first k of numbers in ascending order are k numbers.
LEMMA Below ==
  ASSUME NEW n \in Nat, NEW at, Ascending(at, n), NEW k \in 0..n + 1, NEW S,
         \A x : x \in S <=> \E i \in 0..k - 1 : x = at[i]
  PROVE  Cardinality(S) = k
<1> DEFINE I == 0..k - 1
           f == [i \in I |-> at[i]]
<1>0. \A x : x \in S <=> \E i \in I : x = at[i]
  OBVIOUS
<1>1. \A i \in I : i \in 0..n /\ i \in Int
  BY SMT
<1>2. IsFiniteSet(I) /\ Cardinality(I) = k
  <2>1. k \in Int /\ k - 1 \in Int /\ 0 <= k
    BY SMT
  <2>2. IF 0 > k - 1 THEN k = 0 ELSE k - 1 - 0 + 1 = k
    BY <2>1, SMT
  <2> QED
    BY <2>1, <2>2, FS_Interval
<1>3. \A i, j \in I : at[i] = at[j] => i = j
  <2> SUFFICES ASSUME NEW i \in I, NEW j \in I, i # j PROVE at[i] # at[j]
    OBVIOUS
  <2>1. i < j \/ j < i
    BY <1>1, SMT
  <2>2. at[i] < at[j] \/ at[j] < at[i]
    BY <1>1, <2>1 DEF Ascending
  <2>3. at[i] \in Nat /\ at[j] \in Nat
    BY <1>1 DEF Ascending
  <2> QED
    BY <2>2, <2>3, SMT
<1>4. f \in Bijection(I, S)
  <2> HIDE DEF I
  <2>1. f \in [I -> S]
    BY <1>0
  <2>2. \A i, j \in I : f[i] = f[j] => i = j
    BY <1>3
  <2>3. \A t \in S : \E i \in I : f[i] = t
    BY <1>0
  <2> QED
    BY <2>1, <2>2, <2>3 DEF Bijection, Injection, Surjection, IsInjective
<1>5. ExistsBijection(I, S)
  BY <1>4 DEF ExistsBijection
<1> QED
  BY <1>2, <1>5, FS_Bijection

\* They are the members of S.
\* All the numbers of a set, in ascending order.
Lists(at, n, S) == Ascending(at, n) /\ \A x : x \in S <=> \E k \in 0..n : x = at[k]

\* The k-th of numbers in ascending order.
LEMMA NthIs ==
  ASSUME NEW n \in Nat, NEW at, NEW S, Lists(at, n, S)
  PROVE  /\ Cardinality(S) = n + 1
         /\ \A k \in 0..n : Nth(S, k) = at[k]
<1>0. Ascending(at, n) /\ \A x : x \in S <=> \E k \in 0..n : x = at[k]
  BY DEF Lists
<1>1. Cardinality(S) = n + 1
  <2>1. n + 1 \in 0..n + 1 /\ n + 1 - 1 = n
    BY SMT
  <2>2. \A x : x \in S <=> \E i \in 0..(n + 1) - 1 : x = at[i]
    BY <1>0, <2>1
  <2> QED
    BY <1>0, <2>1, <2>2, Below
<1>2. ASSUME NEW k \in 0..n PROVE Cardinality({j \in S : j < at[k]}) = k
  <2>1. \A x : x \in {j \in S : j < at[k]} <=> \E i \in 0..k - 1 : x = at[i]
    <3>1. ASSUME NEW i \in 0..n PROVE at[i] < at[k] <=> i \in 0..k - 1
      <4>1. i < k => at[i] < at[k]
        BY <1>0 DEF Ascending
      <4>2. k < i => at[k] < at[i]
        BY <1>0 DEF Ascending
      <4>3. at[i] \in Nat /\ at[k] \in Nat /\ i \in Nat /\ k \in Nat
        BY <1>0, SMT DEF Ascending
      <4>4. i = k => at[i] = at[k]
        OBVIOUS
      <4> QED
        BY <4>1, <4>2, <4>3, <4>4, SMT
    <3>2. \A i \in 0..k - 1 : i \in 0..n
      BY SMT
    <3> QED
      BY <1>0, <3>1, <3>2
  <2>2. k \in 0..n + 1
    BY SMT
  <2> QED
    BY <1>0, <2>1, <2>2, Below
<1>3. ASSUME NEW k \in 0..n PROVE Nth(S, k) = at[k]
  <2>1. at[k] \in S /\ Cardinality({j \in S : j < at[k]}) = k
    BY <1>0, <1>2
  <2>2. ASSUME NEW i \in S, Cardinality({j \in S : j < i}) = k PROVE i = at[k]
    <3>1. PICK m \in 0..n : i = at[m]
      BY <1>0
    <3>2. Cardinality({j \in S : j < at[m]}) = m
      BY <1>2
    <3> QED
      BY <2>2, <3>1, <3>2
  <2> QED
    BY <2>1, <2>2 DEF Nth
<1> QED
  BY <1>1, <1>3

-----------------------------------------------------------------------------
(* Texts as parts with a mark between them.                              *)

\* Texts, as manifests are made of.
Texts == Seq(Word)

\* Text is parts with marks in between; at[k] is where the mark after part k
\* is, the end of the text counted as one.
JoinedAt(text, mark, parts, at) ==
  /\ Ascending(at, Len(parts))
  /\ at[0] = 0 /\ at[Len(parts)] = Len(text) + 1
  /\ \A k \in 1..Len(parts) :
       /\ at[k] = at[k - 1] + Len(parts[k]) + 1
       /\ \A i \in 1..Len(parts[k]) : text[at[k - 1] + i] = parts[k][i]
       /\ k # Len(parts) => text[at[k]] = mark

Joined(text, mark, parts) == \E at : JoinedAt(text, mark, parts, at)

\* No mark is within a part.
Unmarked(parts, mark) == \A k \in DOMAIN parts : \A i \in DOMAIN parts[k] : parts[k][i] # mark

\* One part alone.
LEMMA JoinedOne ==
  ASSUME NEW a \in Texts, NEW mark
  PROVE  Joined(a, mark, <<a>>)
<1> DEFINE at == [k \in 0..1 |-> IF k = 0 THEN 0 ELSE Len(a) + 1]
<1>1. Len(a) \in Nat
  BY LenProperties DEF Texts
<1>2. at[0] = 0 /\ at[1] = Len(a) + 1 /\ at \in [0..1 -> Nat]
  BY <1>1, SMT
<1>3. \A k \in 0..1 : k = 0 \/ k = 1
  BY SMT
<1>4. \A j, k \in 0..1 : j < k => j = 0 /\ k = 1
  BY SMT
<1> HIDE DEF at
<1>5. Ascending(at, 1)
  <2>1. 0 < Len(a) + 1
    BY <1>1, SMT
  <2> QED BY <1>2, <1>4, <2>1 DEF Ascending
<1>6. Len(<<a>>) = 1 /\ <<a>>[1] = a /\ 1..1 = {1} /\ 1 - 1 = 0
  BY SMT
<1>7. \A i \in 1..Len(a) : 0 + i = i
  BY SMT
<1>8. 0 + Len(a) + 1 = Len(a) + 1
  BY <1>1, SMT
<1>9. JoinedAt(a, mark, <<a>>, at)
  BY <1>2, <1>5, <1>6, <1>7, <1>8 DEF JoinedAt
<1> QED
  BY <1>9 DEF Joined

\* Two joins make one, with a mark between them.
LEMMA JoinedMore ==
  ASSUME NEW a \in Texts, NEW b \in Texts, NEW mark \in Word,
         NEW p \in Seq(Texts), NEW q \in Seq(Texts), Joined(a, mark, p), Joined(b, mark, q)
  PROVE  /\ a \o <<mark>> \o b \in Texts
         /\ Joined(a \o <<mark>> \o b, mark, p \o q)
<1> DEFINE text == a \o <<mark>> \o b
           m == Len(p)
           n == Len(q)
<1>1. PICK e : JoinedAt(a, mark, p, e)
  BY DEF Joined
<1>2. PICK f : JoinedAt(b, mark, q, f)
  BY DEF Joined
<1>3. m \in Nat /\ n \in Nat /\ Len(a) \in Nat /\ Len(b) \in Nat
  BY LenProperties DEF Texts
<1>4. /\ text \in Texts /\ Len(text) = Len(a) + 1 + Len(b)
      /\ \A i \in 1..Len(a) : text[i] = a[i]
      /\ text[Len(a) + 1] = mark
      /\ \A i \in 1..Len(b) : text[Len(a) + 1 + i] = b[i]
  <2>1. <<mark>> \in Texts /\ Len(<<mark>>) = 1 /\ <<mark>>[1] = mark
    BY SMT DEF Texts
  <2> DEFINE c == a \o <<mark>>
  <2>2. /\ c \in Texts /\ Len(c) = Len(a) + 1
        /\ \A i \in 1..Len(a) + 1 : c[i] = IF i <= Len(a) THEN a[i] ELSE <<mark>>[i - Len(a)]
    BY <2>1, ConcatProperties DEF Texts
  <2> HIDE DEF c
  <2>3. /\ c \o b \in Texts /\ Len(c \o b) = Len(c) + Len(b)
        /\ \A i \in 1..Len(c) + Len(b) : (c \o b)[i] = IF i <= Len(c) THEN c[i] ELSE b[i - Len(c)]
    <3>1. c \in Seq(Word) /\ b \in Seq(Word)
      BY <2>2 DEF Texts
    <3>2. c \o b \in Texts
      BY <3>1, ConcatProperties, Zenon DEF Texts
    <3> QED BY <3>1, <3>2, ConcatProperties, Zenon
  <2>4. \A x, y \in Nat :
          /\ \A i \in 1..x : i \in 1..x + 1 /\ i \in 1..x + 1 + y /\ i <= x /\ i <= x + 1
          /\ x + 1 \in 1..x + 1 /\ x + 1 \in 1..x + 1 + y
          /\ ~ (x + 1 <= x) /\ x + 1 - x = 1 /\ x + 1 <= x + 1
          /\ \A i \in 1..y :
               x + 1 + i \in 1..x + 1 + y /\ ~ (x + 1 + i <= x + 1) /\ x + 1 + i - (x + 1) = i
    BY SMT
  <2>5. text = c \o b
    BY DEF c
  <2> HIDE DEF text
  <2>6. \A i \in 1..Len(a) : text[i] = a[i]
    BY <1>3, <2>2, <2>3, <2>4, <2>5
  <2>7. text[Len(a) + 1] = mark
    BY <1>3, <2>1, <2>2, <2>3, <2>4, <2>5
  <2>8. \A i \in 1..Len(b) : text[Len(a) + 1 + i] = b[i]
    BY <1>3, <2>2, <2>3, <2>4, <2>5
  <2> QED
    BY <2>2, <2>3, <2>5, <2>6, <2>7, <2>8
<1>5. /\ p \o q \in Seq(Texts) /\ Len(p \o q) = m + n
      /\ \A k \in 1..m + n : (p \o q)[k] = IF k <= m THEN p[k] ELSE q[k - m]
  BY ConcatProperties
<1>6. /\ e \in [0..m -> Nat] /\ e[0] = 0 /\ e[m] = Len(a) + 1
      /\ \A j, k \in 0..m : j < k => e[j] < e[k]
      /\ f \in [0..n -> Nat] /\ f[0] = 0 /\ f[n] = Len(b) + 1
      /\ \A j, k \in 0..n : j < k => f[j] < f[k]
  BY <1>1, <1>2 DEF JoinedAt, Ascending
<1> DEFINE at == [k \in 0..m + n |-> IF k <= m THEN e[k] ELSE e[m] + f[k - m]]
<1>7. /\ \A k \in 0..m : at[k] = e[k]
      /\ \A k \in 0..n : at[m + k] = e[m] + f[k]
      /\ at \in [0..m + n -> Nat]
  <2>1. \A k \in 0..m : k \in 0..m + n /\ k <= m
    BY <1>3, SMT
  <2>2. \A k \in 0..n : m + k \in 0..m + n /\ m + k - m = k /\ (m + k <= m => k = 0)
    BY <1>3, SMT
  <2>3. \A k \in 0..m + n : k \in 0..m \/ (~ (k <= m) /\ k - m \in 0..n)
    BY <1>3, SMT
  <2>4. e[m] \in Nat /\ \A x \in Nat : e[m] + x \in Nat /\ e[m] + 0 = e[m]
    BY <1>3, <1>6, SMT
  <2>5. \A k \in 0..n : at[m + k] = e[m] + f[k]
    <3> SUFFICES ASSUME NEW k \in 0..n PROVE at[m + k] = e[m] + f[k]
      OBVIOUS
    <3>1. CASE k = 0
      <4>1. m \in 0..m + n /\ m <= m /\ m + 0 = m
        BY <1>3, SMT
      <4> QED BY <1>6, <2>4, <3>1, <4>1
    <3>2. CASE k # 0
      BY <2>2, <3>2
    <3> QED BY <3>1, <3>2
  <2>6. at \in [0..m + n -> Nat]
    BY <1>6, <2>3, <2>4
  <2> QED
    BY <2>1, <2>5, <2>6
<1> HIDE DEF at, text
<1>8. \A k \in 0..m + n : k \in 0..m \/ \E j \in 1..n : k = m + j
  <2>1. \A k \in 0..m + n : k \in 0..m \/ (k - m \in 1..n /\ k = m + (k - m))
    BY <1>3, SMT
  <2> QED BY <2>1
<1>9. Ascending(at, m + n)
  <2>1. ASSUME NEW j \in 0..m + n, NEW k \in 0..m + n, j < k PROVE at[j] < at[k]
    <3>1. CASE j \in 0..m /\ k \in 0..m
      BY <1>6, <1>7, <2>1, <3>1
    <3>2. ASSUME j \in 0..m, NEW i \in 1..n, k = m + i PROVE at[j] < at[k]
      <4>1. 0 \in 0..n /\ i \in 0..n /\ 0 < i /\ m \in 0..m
        BY <1>3, SMT
      <4>2. f[0] < f[i] /\ at[k] = e[m] + f[i] /\ at[j] = e[j]
        BY <1>6, <1>7, <3>2, <4>1
      <4>3. j < m \/ j = m
        BY <1>3, <3>2, SMT
      <4>4. e[j] < e[m] \/ e[j] = e[m]
        BY <1>6, <3>2, <4>1, <4>3
      <4>5. e[j] \in Nat /\ e[m] \in Nat /\ f[i] \in Nat /\ f[0] = 0
        BY <1>6, <3>2, <4>1
      <4>6. \A x, y, z \in Nat : (x < y \/ x = y) /\ 0 < z => x < y + z
        BY SMT
      <4> QED
        BY <4>2, <4>4, <4>5, <4>6
    <3>3. ASSUME NEW h \in 1..n, NEW i \in 1..n, j = m + h, k = m + i PROVE at[j] < at[k]
      <4>1. h \in 0..n /\ i \in 0..n /\ h < i /\ m \in 0..m
        BY <1>3, <2>1, <3>3, SMT
      <4>2. f[h] < f[i] /\ at[k] = e[m] + f[i] /\ at[j] = e[m] + f[h]
        BY <1>6, <1>7, <3>3, <4>1
      <4>3. f[h] \in Nat /\ e[m] \in Nat /\ f[i] \in Nat
        BY <1>6, <4>1
      <4>4. \A x, y, z \in Nat : x < y => z + x < z + y
        BY SMT
      <4> QED
        BY <4>2, <4>3, <4>4
    <3>4. ASSUME NEW h \in 1..n, j = m + h, k \in 0..m PROVE FALSE
      BY <1>3, <2>1, <3>4, SMT
    <3> QED
      BY <1>8, <3>1, <3>2, <3>3, <3>4
  <2> QED
    BY <1>7, <2>1 DEF Ascending
<1>10. at[0] = 0 /\ at[m + n] = Len(text) + 1
  <2>1. 0 \in 0..m /\ n \in 0..n
    BY <1>3, SMT
  <2>2. Len(a) + 1 + (Len(b) + 1) = Len(a) + 1 + Len(b) + 1
    BY <1>3, SMT
  <2> QED
    BY <1>4, <1>6, <1>7, <2>1, <2>2
<1> DEFINE Part(k) == /\ at[k] = at[k - 1] + Len((p \o q)[k]) + 1
                      /\ \A i \in 1..Len((p \o q)[k]) : text[at[k - 1] + i] = (p \o q)[k][i]
                      /\ k # m + n => text[at[k]] = mark
<1>11. ASSUME NEW k \in 1..m PROVE Part(k)
  <2>1. k \in 0..m /\ k - 1 \in 0..m /\ k \in 1..m + n /\ k <= m
    BY <1>3, SMT
  <2>2. /\ (p \o q)[k] = p[k] /\ at[k] = e[k] /\ at[k - 1] = e[k - 1]
    BY <1>5, <1>7, <2>1
  <2>3. /\ e[k] = e[k - 1] + Len(p[k]) + 1
        /\ \A i \in 1..Len(p[k]) : a[e[k - 1] + i] = p[k][i]
        /\ k # m => a[e[k]] = mark
    BY <1>1 DEF JoinedAt
  <2>4. p[k] \in Texts /\ Len(p[k]) \in Nat
    BY ElementOfSeq, LenProperties DEF Texts
  <2>5. e[k] \in Nat /\ e[k - 1] \in Nat /\ e[k] <= Len(a) + 1 /\ (k # m => e[k] <= Len(a))
    <3>1. k < m => e[k] < e[m]
      BY <1>3, <1>6, <2>1, SMT
    <3>2. e[k] \in Nat /\ e[k - 1] \in Nat
      BY <1>6, <2>1
    <3>3. k # m => k < m
      BY <1>3, SMT
    <3> QED
      BY <1>3, <1>6, <3>1, <3>2, <3>3, SMT
  <2>6. \A i \in 1..Len(p[k]) : e[k - 1] + i \in 1..Len(a)
    <3>1. \A x, y, z, l \in Nat : x = y + z + 1 /\ x <= l + 1 => \A i \in 1..z : y + i \in 1..l
      BY SMT
    <3> QED
      BY <1>3, <2>3, <2>4, <2>5, <3>1
  <2>7. k # m => e[k] \in 1..Len(a)
    <3>1. e[k] # 0
      BY <2>3, <2>4, <2>5, SMT
    <3> QED
      BY <1>3, <2>5, <3>1, SMT
  <2>8. k = m => text[at[k]] = mark
    BY <1>4, <1>6, <2>2
  <2>9. k # m => text[at[k]] = mark
    BY <1>4, <2>2, <2>3, <2>7
  <2>10. \A i \in 1..Len(p[k]) : text[e[k - 1] + i] = p[k][i]
    BY <1>4, <2>3, <2>6
  <2> QED
    BY <2>2, <2>3, <2>8, <2>9, <2>10
<1>12. ASSUME NEW j \in 1..n PROVE Part(m + j)
  <2> DEFINE k == m + j
  <2>1. /\ j \in 0..n /\ j - 1 \in 0..n /\ k \in 1..m + n /\ ~ (k <= m) /\ k - m = j
        /\ k - 1 = m + (j - 1)
    BY <1>3, SMT
  <2>2. /\ (p \o q)[k] = q[j] /\ at[k] = e[m] + f[j] /\ at[k - 1] = e[m] + f[j - 1]
    BY <1>5, <1>7, <2>1
  <2>3. /\ f[j] = f[j - 1] + Len(q[j]) + 1
        /\ \A i \in 1..Len(q[j]) : b[f[j - 1] + i] = q[j][i]
        /\ j # n => b[f[j]] = mark
    BY <1>2 DEF JoinedAt
  <2>4. q[j] \in Texts /\ Len(q[j]) \in Nat
    BY ElementOfSeq, LenProperties DEF Texts
  <2>5. f[j] \in Nat /\ f[j - 1] \in Nat /\ f[j] <= Len(b) + 1 /\ (j # n => f[j] <= Len(b))
    <3>1. j < n => f[j] < f[n]
      BY <1>3, <1>6, <2>1, SMT
    <3>2. f[j] \in Nat /\ f[j - 1] \in Nat
      BY <1>6, <2>1
    <3>3. j # n => j < n
      BY <1>3, SMT
    <3> QED
      BY <1>3, <1>6, <3>1, <3>2, <3>3, SMT
  <2>6. \A i \in 1..Len(q[j]) : f[j - 1] + i \in 1..Len(b)
    <3>1. \A x, y, z, l \in Nat : x = y + z + 1 /\ x <= l + 1 => \A i \in 1..z : y + i \in 1..l
      BY SMT
    <3> QED
      BY <1>3, <2>3, <2>4, <2>5, <3>1
  <2>7. j # n => f[j] \in 1..Len(b)
    <3>1. f[j] # 0
      BY <2>3, <2>4, <2>5, SMT
    <3> QED
      BY <1>3, <2>5, <3>1, SMT
  <2>8. at[k] = at[k - 1] + Len((p \o q)[k]) + 1
    <3>1. \A x, y, z \in Nat : x + (y + z + 1) = x + y + z + 1
      BY SMT
    <3> QED
      BY <1>3, <1>6, <2>2, <2>3, <2>4, <2>5, <3>1, SMTT(60)
  <2>9. k # m + n => text[at[k]] = mark
    BY <1>4, <1>6, <2>2, <2>3, <2>7, ZenonT(60)
  <2>10. \A i \in 1..Len(q[j]) : text[at[k - 1] + i] = q[j][i]
    <3> SUFFICES ASSUME NEW i \in 1..Len(q[j]) PROVE text[at[k - 1] + i] = q[j][i]
      OBVIOUS
    <3>1. \A x, y, z \in Nat : x + y + z = x + (y + z)
      BY SMT
    <3>2. at[k - 1] + i = Len(a) + 1 + (f[j - 1] + i)
      <4>1. i \in Nat /\ Len(a) + 1 \in Nat
        BY <1>3, SMT
      <4> QED BY <1>6, <2>2, <2>5, <3>1, <4>1
    <3> QED
      BY <1>4, <2>3, <2>6, <3>2
  <2> QED
    BY <2>2, <2>8, <2>9, <2>10
<1>13. \A k \in 1..m + n : Part(k)
  <2>1. \A k \in 1..m + n : k \in 1..m \/ \E j \in 1..n : k = m + j
    <3>1. \A k \in 1..m + n : k \in 1..m \/ (k - m \in 1..n /\ k = m + (k - m))
      BY <1>3, SMT
    <3> QED BY <3>1
  <2> HIDE DEF Part
  <2> QED
    BY <1>11, <1>12, <2>1
<1>14. JoinedAt(text, mark, p \o q, at)
  BY <1>5, <1>9, <1>10, <1>13 DEF JoinedAt
<1> QED
  BY <1>4, <1>14 DEF Joined, text

-----------------------------------------------------------------------------
(* Splitting undoes joining.                                             *)

\* Splitting undoes joining, where no part has the mark in it.
LEMMA SplitJoined ==
  ASSUME NEW text \in Texts, NEW mark, NEW parts \in Seq(Texts),
         Joined(text, mark, parts), Unmarked(parts, mark)
  PROVE  Split(text, mark) = parts
<1> DEFINE n == Len(parts)
           cuts == Cuts(text, mark)
<1>1. PICK at : JoinedAt(text, mark, parts, at)
  BY DEF Joined
<1>2. /\ n \in Nat /\ Len(text) \in Nat /\ DOMAIN text = 1..Len(text)
      /\ DOMAIN parts = 1..n
  BY LenProperties DEF Texts
<1>0. \A k \in 0..n : k = 0 \/ k = n \/ (k \in 1..n /\ k < n)
  <2>1. n \in Nat
    BY <1>2
  <2> HIDE DEF n
  <2> QED BY <2>1, SMT
<1>3. /\ Ascending(at, n) /\ at[0] = 0 /\ at[n] = Len(text) + 1
      /\ at \in [0..n -> Nat]
  BY <1>1 DEF JoinedAt, Ascending
<1>4. \A k \in 1..n : /\ at[k] = at[k - 1] + Len(parts[k]) + 1
                      /\ \A i \in 1..Len(parts[k]) : text[at[k - 1] + i] = parts[k][i]
                      /\ k # n => text[at[k]] = mark
  BY <1>1 DEF JoinedAt
<1>5. \A k \in 1..n : /\ parts[k] \in Texts /\ Len(parts[k]) \in Nat
                      /\ DOMAIN parts[k] = 1..Len(parts[k])
                      /\ \A i \in 1..Len(parts[k]) : parts[k][i] # mark
  <2>1. \A k \in 1..n : parts[k] \in Texts
    BY ElementOfSeq
  <2>2. \A k \in 1..n : Len(parts[k]) \in Nat /\ DOMAIN parts[k] = 1..Len(parts[k])
    BY <2>1, LenProperties DEF Texts
  <2> QED
    BY <1>2, <2>1, <2>2 DEF Unmarked
<1>6. \A k \in 1..n : k \in 0..n /\ k - 1 \in 0..n /\ at[k] \in Nat /\ at[k - 1] \in Nat
  <2>1. \A k \in 1..n : k \in 0..n /\ k - 1 \in 0..n
    BY <1>2, SMT
  <2> QED
    BY <1>3, <2>1
<1>7. 0 \in 0..n /\ n \in 0..n /\ n # 0
  BY <1>2, <1>3, SMT
<1>8. ASSUME NEW k \in 0..n PROVE at[k] \in cuts
  <2>1. CASE k = 0
    BY <1>3, <2>1 DEF Cuts
  <2>2. CASE k = n
    BY <1>3, <2>2 DEF Cuts
  <2>3. CASE k # 0 /\ k # n
    <3>1. k \in 1..n /\ k < n
      BY <1>0, <2>3
    <3>2. at[k] < Len(text) + 1 /\ text[at[k]] = mark
      BY <1>3, <1>4, <1>7, <2>3, <3>1 DEF Ascending
    <3>3. at[k] = at[k - 1] + Len(parts[k]) + 1
      BY <1>4, <3>1
    <3>4. at[k] \in 1..Len(text)
      BY <1>2, <1>5, <1>6, <3>1, <3>2, <3>3, SMT
    <3> QED
      BY <1>2, <3>2, <3>4 DEF Cuts
  <2> QED
    BY <2>1, <2>2, <2>3
<1>9. ASSUME NEW c \in cuts PROVE \E k \in 0..n : c = at[k]
  <2>1. CASE c = 0 \/ c = Len(text) + 1
    BY <1>3, <1>7, <2>1
  <2>2. CASE c \in 1..Len(text) /\ text[c] = mark
    <3> DEFINE T == {k \in 0..n : c <= at[k]}
    <3>1. c \in Nat /\ c # 0 /\ c <= Len(text) + 1
      BY <1>2, <2>2, SMT
    <3>2. T \in SUBSET Nat /\ T # {}
      <4>1. n \in T
        BY <1>3, <1>7, <3>1
      <4>2. 0..n \subseteq Nat
        BY SMT
      <4> QED BY <4>1, <4>2
    <3>3. PICK k \in T : \A y \in T : k <= y
      <4> HIDE DEF T
      <4> QED BY <3>2, LeastNumber
    <3>4. k \in 0..n /\ c <= at[k] /\ k # 0
      BY <1>3, <3>1, <3>3, SMT
    <3>5. k \in 1..n
      BY <1>2, <3>4, SMT
    <3>6. ~ (c <= at[k - 1])
      <4>1. k - 1 \in 0..n /\ ~ (k <= k - 1)
        BY <1>2, <3>5, SMT
      <4> QED BY <3>3, <4>1
    <3>7. /\ at[k] = at[k - 1] + Len(parts[k]) + 1
          /\ at[k] \in Nat /\ at[k - 1] \in Nat /\ Len(parts[k]) \in Nat
      BY <1>4, <1>5, <1>6, <3>5
    <3>8. c = at[k] \/ (c - at[k - 1] \in 1..Len(parts[k]) /\ at[k - 1] + (c - at[k - 1]) = c)
      BY <3>1, <3>4, <3>6, <3>7, SMT
    <3>9. c - at[k - 1] \in 1..Len(parts[k]) /\ at[k - 1] + (c - at[k - 1]) = c => text[c] # mark
      <4> SUFFICES ASSUME c - at[k - 1] \in 1..Len(parts[k]), at[k - 1] + (c - at[k - 1]) = c
                   PROVE  text[c] # mark
        OBVIOUS
      <4>1. text[at[k - 1] + (c - at[k - 1])] = parts[k][c - at[k - 1]]
        BY <1>4, <3>5
      <4>2. parts[k][c - at[k - 1]] # mark
        BY <1>5, <3>5
      <4> QED BY <4>1, <4>2
    <3> QED
      BY <2>2, <3>4, <3>8, <3>9
  <2>3. (c \in 1..Len(text) /\ text[c] = mark) \/ c = 0 \/ c = Len(text) + 1
    BY <1>2 DEF Cuts
  <2> QED
    BY <2>1, <2>2, <2>3
<1>10. \A x : x \in cuts <=> \E k \in 0..n : x = at[k]
  <2> HIDE DEF cuts
  <2> QED BY <1>8, <1>9
<1>11. /\ Cardinality(cuts) = n + 1
       /\ \A k \in 0..n : Nth(cuts, k) = at[k]
  <2>1. Lists(at, n, cuts)
    BY <1>3, <1>10 DEF Lists
  <2> HIDE DEF cuts, n
  <2> QED BY <1>2, <2>1, NthIs
<1>12. n + 1 - 1 = n
  BY <1>2, SMT
<1>13. Split(text, mark) = [k \in 1..n |-> SubSeq(text, at[k - 1] + 1, at[k] - 1)]
  <2> HIDE DEF cuts
  <2>1. Split(text, mark) = [k \in 1..n |-> SubSeq(text, Nth(cuts, k - 1) + 1, Nth(cuts, k) - 1)]
    BY <1>11, <1>12 DEF Split, cuts
  <2>2. \A k \in 1..n : Nth(cuts, k - 1) = at[k - 1] /\ Nth(cuts, k) = at[k]
    BY <1>6, <1>11
  <2> QED
    BY <2>1, <2>2
<1>14. ASSUME NEW k \in 1..n PROVE SubSeq(text, at[k - 1] + 1, at[k] - 1) = parts[k]
  <2> DEFINE x == at[k - 1] + 1
             y == at[k] - 1
  <2>1. /\ at[k] = at[k - 1] + Len(parts[k]) + 1 /\ at[k] \in Nat /\ at[k - 1] \in Nat
        /\ Len(parts[k]) \in Nat /\ parts[k] \in Seq(Word)
        /\ \A i \in 1..Len(parts[k]) : text[at[k - 1] + i] = parts[k][i]
    BY <1>4, <1>5, <1>6 DEF Texts
  <2>2. x \in Int /\ y \in Int /\ y - x + 1 = Len(parts[k])
        /\ (IF x <= y THEN y - x + 1 ELSE 0) = Len(parts[k])
    <3>1. x = at[k - 1] + 1 /\ y = at[k - 1] + Len(parts[k]) + 1 - 1
      BY <2>1
    <3>2. PICK u \in Nat : u = at[k - 1]
      BY <2>1
    <3>3. PICK l \in Nat : l = Len(parts[k])
      BY <2>1
    <3>4. x = u + 1 /\ y = u + l + 1 - 1
      BY <3>1, <3>2, <3>3
    <3> HIDE DEF x, y
    <3>5. x \in Int /\ y \in Int /\ y - x + 1 = l /\ (IF x <= y THEN y - x + 1 ELSE 0) = l
      BY <3>4, SMT
    <3> QED BY <3>3, <3>5, SMTT(60)
  <2>3. \A i \in x..y : i - at[k - 1] \in 1..Len(parts[k]) /\ at[k - 1] + (i - at[k - 1]) = i
    BY <2>1, SMTT(60)
  <2>4. \A i \in x..y : text[i] \in Word
    <3>1. \A i \in 1..Len(parts[k]) : parts[k][i] \in Word
      BY <2>1, ElementOfSeq
    <3> QED BY <2>1, <2>3, <3>1
  <2>5. \A i \in 1..Len(parts[k]) : x + i - 1 = at[k - 1] + i
    BY <2>1, SMT
  <2> HIDE DEF x, y
  <2>6. /\ SubSeq(text, x, y) \in Seq(Word)
        /\ Len(SubSeq(text, x, y)) = Len(parts[k])
        /\ \A i \in 1..Len(parts[k]) : SubSeq(text, x, y)[i] = text[x + i - 1]
    BY <2>2, <2>4, SubSeqProperties
  <2>7. \A i \in 1..Len(parts[k]) : SubSeq(text, x, y)[i] = parts[k][i]
    BY <2>1, <2>5, <2>6
  <2>8. SubSeq(text, x, y) = parts[k]
    BY <2>1, <2>6, <2>7, SeqEqual
  <2> QED
    BY <2>8 DEF x, y
<1>15. parts = [k \in 1..n |-> parts[k]]
  BY LenProperties
<1> QED
  BY <1>13, <1>14, <1>15

\* The lines after the first are the rows, but for the empty end of a text.
LEMMA RowsAre ==
  ASSUME NEW csv, NEW device \in Texts, NEW rows \in Seq(Texts),
         \A k \in 1..Len(rows) : rows[k] # << >>,
         Split(csv, EOL) = <<device>> \o rows \o << << >> >>
  PROVE  Rows(csv) = rows /\ Head(Split(csv, EOL)) = device
<1> DEFINE n == Len(rows)
           lines == Tail(Split(csv, EOL))
           filled == {i \in DOMAIN lines : lines[i] # << >>}
<1>1. n \in Nat /\ DOMAIN rows = 1..n /\ rows = [k \in 1..n |-> rows[k]]
  BY LenProperties
<1>2. /\ << << >> >> \in Seq(Texts) /\ Len(<< << >> >>) = 1 /\ << << >> >>[1] = << >>
      /\ <<device>> \in Seq(Texts)
  BY SMT DEF Texts
<1>3. rows \o << << >> >> \in Seq(Texts)
  BY <1>2, ConcatProperties
<1>4. Split(csv, EOL) = <<device>> \o (rows \o << << >> >>)
  BY <1>2, ConcatAssociative
<1>5. \A s \in Seq(Texts) : Tail(<<device>> \o s) = s /\ Head(<<device>> \o s) = device
  BY SMT
<1>6. lines = rows \o << << >> >> /\ Head(Split(csv, EOL)) = device
  BY <1>3, <1>4, <1>5
<1>7. /\ lines \in Seq(Texts) /\ Len(lines) = n + 1
      /\ \A k \in 1..n + 1 : lines[k] = IF k <= n THEN rows[k] ELSE << << >> >>[k - n]
  BY <1>2, <1>6, ConcatProperties
<1> HIDE DEF lines
<1>8. DOMAIN lines = 1..n + 1
  BY <1>7, LenProperties
<1>9. \A k \in 1..n + 1 : lines[k] # << >> <=> k \in 1..n
  <2>1. \A k \in 1..n + 1 : IF k <= n THEN k \in 1..n ELSE k - n = 1 /\ k \notin 1..n
    BY <1>1, SMT
  <2> QED BY <1>2, <1>7, <2>1
<1>10. filled = 1..n
  <2>1. 1..n \subseteq 1..n + 1
    BY <1>1, SMT
  <2> QED BY <1>8, <1>9, <2>1
<1>11. Rows(csv) = [k \in 1..Cardinality(filled) |-> lines[Nth(filled, k - 1)]]
  BY DEF Rows, lines
<1> HIDE DEF filled
<1>12. CASE n = 0
  <2>1. filled = {} /\ 1..0 = {}
    BY <1>10, <1>12, SMT
  <2>2. Cardinality(filled) = 0
    BY <2>1, FS_EmptySet
  <2>3. Rows(csv) = [k \in 1..n |-> rows[k]]
    BY <1>11, <1>12, <2>1, <2>2
  <2> QED BY <1>1, <1>6, <2>3
<1>13. CASE n # 0
  <2> DEFINE at == [k \in 0..n - 1 |-> k + 1]
  <2>1. n - 1 \in Nat /\ n - 1 + 1 = n
    BY <1>1, <1>13, SMT
  <2>2. Ascending(at, n - 1)
    <3>1. at \in [0..n - 1 -> Nat]
      BY SMT
    <3>2. \A j, k \in 0..n - 1 : j < k => j + 1 < k + 1
      BY SMT
    <3> QED BY <3>1, <3>2 DEF Ascending
  <2>3. \A x : x \in filled <=> \E k \in 0..n - 1 : x = at[k]
    <3>1. \A k \in 0..n - 1 : k + 1 \in 1..n
      BY <1>1, SMT
    <3>2. \A i \in 1..n : i - 1 \in 0..n - 1 /\ i - 1 + 1 = i
      BY <1>1, SMT
    <3> QED BY <1>10, <3>1, <3>2
  <2>4. \A k \in 1..n : k - 1 \in 0..n - 1 /\ at[k - 1] = k
    BY <1>1, SMT
  <2> HIDE DEF at
  <2>5. Cardinality(filled) = n /\ \A k \in 0..n - 1 : Nth(filled, k) = at[k]
    <3>1. Lists(at, n - 1, filled)
      BY <2>2, <2>3 DEF Lists
    <3>2. Cardinality(filled) = n - 1 + 1 /\ \A k \in 0..n - 1 : Nth(filled, k) = at[k]
      BY <2>1, <3>1, NthIs
    <3> QED BY <2>1, <3>2
  <2>6. \A k \in 1..n : Nth(filled, k - 1) = k
    BY <2>4, <2>5
  <2>7. \A k \in 1..n : lines[k] = rows[k]
    <3>1. \A k \in 1..n : k \in 1..n + 1 /\ k <= n
      BY <1>1, SMT
    <3> QED BY <1>7, <3>1
  <2>8. Rows(csv) = [k \in 1..n |-> rows[k]]
    BY <1>11, <2>5, <2>6, <2>7
  <2> QED BY <1>1, <1>6, <2>8
<1> QED
  BY <1>12, <1>13

-----------------------------------------------------------------------------
(* What the serializer writes: columns, lines and the whole.             *)

\* Append, element by element.
LEMMA AppendIs ==
  ASSUME NEW S, NEW s \in Seq(S), NEW b \in S, NEW t \in Seq(S),
         Len(t) = Len(s) + 1, \A i \in 1..Len(s) : t[i] = s[i], t[Len(t)] = b
  PROVE  Append(s, b) = t
<1> DEFINE n == Len(s)
<1>1. /\ Append(s, b) \in Seq(S) /\ Len(Append(s, b)) = n + 1
      /\ \A i \in 1..n : Append(s, b)[i] = s[i]
      /\ Append(s, b)[n + 1] = b
  BY AppendProperties
<1>2. \A i \in 1..n + 1 : i \in 1..n \/ i = n + 1
  BY SMT
<1>3. \A i \in 1..n + 1 : Append(s, b)[i] = t[i]
  BY <1>1, <1>2
<1> QED
  BY <1>1, <1>3, SeqEqual

\* Tuples of two to eight are tuples of one less with one appended.
LEMMA Tuple2 ==
  ASSUME NEW a, NEW b
  PROVE  Append(<<a>>, b) = <<a, b>>
<1> DEFINE S == {a, b}
           s == <<a>>
           t == <<a, b>>
<1>1. a \in S /\ b \in S
  OBVIOUS
<1>2. s \in Seq(S) /\ Len(s) = 1 /\ t \in Seq(S) /\ Len(t) = 2 /\ t[2] = b
  <2> HIDE DEF S
  <2> QED BY <1>1, SMT
<1>3. \A i \in 1..1 : t[i] = s[i]
  BY SMT
<1> HIDE DEF S
<1>4. Len(t) = Len(s) + 1 /\ t[Len(t)] = b /\ \A i \in 1..Len(s) : t[i] = s[i]
  <2> HIDE DEF s, t
  <2> QED BY <1>2, <1>3
<1> HIDE DEF s, t
<1>5. Append(s, b) = t
  BY <1>1, <1>2, <1>4, AppendIs
<1> QED BY <1>5 DEF s, t

\* Three.
LEMMA Tuple3 ==
  ASSUME NEW a, NEW b, NEW c
  PROVE  Append(<<a, b>>, c) = <<a, b, c>>
<1> DEFINE S == {a, b, c}
           s == <<a, b>>
           t == <<a, b, c>>
<1>1. a \in S /\ b \in S /\ c \in S
  OBVIOUS
<1>2. s \in Seq(S) /\ Len(s) = 2 /\ t \in Seq(S) /\ Len(t) = 3 /\ t[3] = c
  <2> HIDE DEF S
  <2> QED BY <1>1, SMT
<1>3. \A i \in 1..2 : t[i] = s[i]
  BY SMT
<1> HIDE DEF S
<1>4. Len(t) = Len(s) + 1 /\ t[Len(t)] = c /\ \A i \in 1..Len(s) : t[i] = s[i]
  <2> HIDE DEF s, t
  <2> QED BY <1>2, <1>3
<1> HIDE DEF s, t
<1>5. Append(s, c) = t
  BY <1>1, <1>2, <1>4, AppendIs
<1> QED BY <1>5 DEF s, t

\* Four.
LEMMA Tuple4 ==
  ASSUME NEW a, NEW b, NEW c, NEW d
  PROVE  Append(<<a, b, c>>, d) = <<a, b, c, d>>
<1> DEFINE S == {a, b, c, d}
           s == <<a, b, c>>
           t == <<a, b, c, d>>
<1>1. a \in S /\ b \in S /\ c \in S /\ d \in S
  OBVIOUS
<1>2. s \in Seq(S) /\ Len(s) = 3 /\ t \in Seq(S) /\ Len(t) = 4 /\ t[4] = d
  <2> HIDE DEF S
  <2> QED BY <1>1, SMT
<1>3. \A i \in 1..3 : t[i] = s[i]
  BY SMT
<1> HIDE DEF S
<1>4. Len(t) = Len(s) + 1 /\ t[Len(t)] = d /\ \A i \in 1..Len(s) : t[i] = s[i]
  <2> HIDE DEF s, t
  <2> QED BY <1>2, <1>3
<1> HIDE DEF s, t
<1>5. Append(s, d) = t
  BY <1>1, <1>2, <1>4, AppendIs
<1> QED BY <1>5 DEF s, t

\* Five.
LEMMA Tuple5 ==
  ASSUME NEW a, NEW b, NEW c, NEW d, NEW e
  PROVE  Append(<<a, b, c, d>>, e) = <<a, b, c, d, e>>
<1> DEFINE S == {a, b, c, d, e}
           s == <<a, b, c, d>>
           t == <<a, b, c, d, e>>
<1>1. a \in S /\ b \in S /\ c \in S /\ d \in S /\ e \in S
  OBVIOUS
<1>2. s \in Seq(S) /\ Len(s) = 4 /\ t \in Seq(S) /\ Len(t) = 5 /\ t[5] = e
  <2> HIDE DEF S
  <2> QED BY <1>1, SMT
<1>3. \A i \in 1..4 : t[i] = s[i]
  BY SMT
<1> HIDE DEF S
<1>4. Len(t) = Len(s) + 1 /\ t[Len(t)] = e /\ \A i \in 1..Len(s) : t[i] = s[i]
  <2> HIDE DEF s, t
  <2> QED BY <1>2, <1>3
<1> HIDE DEF s, t
<1>5. Append(s, e) = t
  BY <1>1, <1>2, <1>4, AppendIs
<1> QED BY <1>5 DEF s, t

\* Six.
LEMMA Tuple6 ==
  ASSUME NEW a, NEW b, NEW c, NEW d, NEW e, NEW f
  PROVE  Append(<<a, b, c, d, e>>, f) = <<a, b, c, d, e, f>>
<1> DEFINE S == {a, b, c, d, e, f}
           s == <<a, b, c, d, e>>
           t == <<a, b, c, d, e, f>>
<1>1. a \in S /\ b \in S /\ c \in S /\ d \in S /\ e \in S /\ f \in S
  OBVIOUS
<1>2. s \in Seq(S) /\ Len(s) = 5 /\ t \in Seq(S) /\ Len(t) = 6 /\ t[6] = f
  <2> HIDE DEF S
  <2> QED BY <1>1, SMT
<1>3. \A i \in 1..5 : t[i] = s[i]
  BY SMT
<1> HIDE DEF S
<1>4. Len(t) = Len(s) + 1 /\ t[Len(t)] = f /\ \A i \in 1..Len(s) : t[i] = s[i]
  <2> HIDE DEF s, t
  <2> QED BY <1>2, <1>3
<1> HIDE DEF s, t
<1>5. Append(s, f) = t
  BY <1>1, <1>2, <1>4, AppendIs
<1> QED BY <1>5 DEF s, t

\* Seven.
LEMMA Tuple7 ==
  ASSUME NEW a, NEW b, NEW c, NEW d, NEW e, NEW f, NEW g
  PROVE  Append(<<a, b, c, d, e, f>>, g) = <<a, b, c, d, e, f, g>>
<1> DEFINE S == {a, b, c, d, e, f, g}
           s == <<a, b, c, d, e, f>>
           t == <<a, b, c, d, e, f, g>>
<1>1. a \in S /\ b \in S /\ c \in S /\ d \in S /\ e \in S /\ f \in S /\ g \in S
  OBVIOUS
<1>2. s \in Seq(S) /\ Len(s) = 6 /\ t \in Seq(S) /\ Len(t) = 7 /\ t[7] = g
  <2> HIDE DEF S
  <2> QED BY <1>1, SMT
<1>3. \A i \in 1..6 : t[i] = s[i]
  BY SMT
<1> HIDE DEF S
<1>4. Len(t) = Len(s) + 1 /\ t[Len(t)] = g /\ \A i \in 1..Len(s) : t[i] = s[i]
  <2> HIDE DEF s, t
  <2> QED BY <1>2, <1>3
<1> HIDE DEF s, t
<1>5. Append(s, g) = t
  BY <1>1, <1>2, <1>4, AppendIs
<1> QED BY <1>5 DEF s, t

\* Eight, as many as a line has columns.
LEMMA Tuple8 ==
  ASSUME NEW a, NEW b, NEW c, NEW d, NEW e, NEW f, NEW g, NEW h
  PROVE  Append(<<a, b, c, d, e, f, g>>, h) = <<a, b, c, d, e, f, g, h>>
<1> DEFINE S == {a, b, c, d, e, f, g, h}
           s == <<a, b, c, d, e, f, g>>
           t == <<a, b, c, d, e, f, g, h>>
<1>1. a \in S /\ b \in S /\ c \in S /\ d \in S /\ e \in S /\ f \in S /\ g \in S /\ h \in S
  OBVIOUS
<1>2. s \in Seq(S) /\ Len(s) = 7 /\ t \in Seq(S) /\ Len(t) = 8 /\ t[8] = h
  <2> HIDE DEF S
  <2> QED BY <1>1, SMT
<1>3. \A i \in 1..7 : t[i] = s[i]
  BY SMT
<1> HIDE DEF S
<1>4. Len(t) = Len(s) + 1 /\ t[Len(t)] = h /\ \A i \in 1..Len(s) : t[i] = s[i]
  <2> HIDE DEF s, t
  <2> QED BY <1>2, <1>3
<1> HIDE DEF s, t
<1>5. Append(s, h) = t
  BY <1>1, <1>2, <1>4, AppendIs
<1> QED BY <1>5 DEF s, t

\* What is written, line by line.
LEMMA WrittenIs ==
  ASSUME NEW manifest, Len(manifest.properties) \in Nat
  PROVE  LET W == Written(manifest)
         IN  /\ W[0] = manifest.device \o <<EOL>>
             /\ \A i \in 1..Len(manifest.properties) :
                  W[i] = W[i - 1] \o Line(manifest.properties[i])
<1> DEFINE n == Len(manifest.properties)
           base == manifest.device \o <<EOL>>
           line(i) == Line(manifest.properties[i])
           Def(g, m) == g = [i \in 0..m |-> IF i = 0 THEN base ELSE g[i - 1] \o line(i)]
           H == {m \in Nat : \E g : Def(g, m)}
<1>1. 0 \in H
  <2> DEFINE g == [i \in 0..0 |-> base]
  <2>1. \A i \in 0..0 : i = 0
    BY SMT
  <2>2. g = [i \in 0..0 |-> IF i = 0 THEN base ELSE g[i - 1] \o line(i)]
    <3> HIDE DEF base, line
    <3> QED BY <2>1
  <2> QED BY <2>2
<1>2. ASSUME NEW m \in H PROVE m + 1 \in H
  <2>1. m \in Nat
    OBVIOUS
  <2>2. PICK g : Def(g, m)
    OBVIOUS
  <2> HIDE DEF base, line
  <2> DEFINE h == [i \in 0..m + 1 |-> IF i = m + 1 THEN g[m] \o line(i) ELSE g[i]]
  <2>3. \A i \in 0..m + 1 : h[i] = IF i = 0 THEN base ELSE h[i - 1] \o line(i)
    <3> SUFFICES ASSUME NEW i \in 0..m + 1
                 PROVE  h[i] = IF i = 0 THEN base ELSE h[i - 1] \o line(i)
      OBVIOUS
    <3>1. CASE i = m + 1
      <4>1. i # 0 /\ i - 1 = m /\ m \in 0..m + 1 /\ m # m + 1
        BY <2>1, <3>1, SMT
      <4>2. h[m] = g[m] /\ h[i] = g[m] \o line(i)
        BY <3>1, <4>1
      <4> QED BY <4>1, <4>2
    <3>2. CASE i # m + 1
      <4>1. i \in 0..m /\ (i # 0 => i - 1 \in 0..m + 1 /\ i - 1 # m + 1)
        BY <2>1, <3>2, SMT
      <4>2. g[i] = IF i = 0 THEN base ELSE g[i - 1] \o line(i)
        BY <2>2, <4>1
      <4>3. h[i] = g[i] /\ (i # 0 => h[i - 1] = g[i - 1])
        BY <3>2, <4>1
      <4> QED BY <4>2, <4>3
    <3> QED BY <3>1, <3>2
  <2>4. Def(h, m + 1)
    BY <2>3
  <2>5. m + 1 \in Nat
    BY <2>1, SMT
  <2> HIDE DEF Def
  <2> QED BY <2>4, <2>5
<1>3. n \in H
  <2>1. H \in SUBSET Nat
    OBVIOUS
  <2>2. n \in Nat
    OBVIOUS
  <2> HIDE DEF H, n
  <2>3. n \in 0..n
    BY <2>2, SMT
  <2> QED BY <1>1, <1>2, <2>1, <2>2, <2>3, Counting
<1>4. Def(Written(manifest), n)
  <2>1. Written(manifest) = CHOOSE g : Def(g, n)
    BY DEF Written
  <2>2. \E g : Def(g, n)
    BY <1>3
  <2> HIDE DEF Def
  <2> QED BY <2>1, <2>2
<1>5. \A i \in 0..n :
        Written(manifest)[i] = IF i = 0 THEN base ELSE Written(manifest)[i - 1] \o line(i)
  <2> HIDE DEF base, line, n
  <2> QED BY <1>4
<1>6. 0 \in 0..n /\ \A i \in 1..n : i \in 0..n /\ i # 0
  <2>1. n \in Nat
    OBVIOUS
  <2> HIDE DEF n
  <2> QED BY <2>1, SMT
<1> QED
  BY <1>5, <1>6

\* One more part.
LEMMA JoinedNext ==
  ASSUME NEW a \in Texts, NEW b \in Texts, NEW mark \in Word,
         NEW p \in Seq(Texts), Joined(a, mark, p)
  PROVE  /\ a \o <<mark>> \o b \in Texts
         /\ Append(p, b) \in Seq(Texts)
         /\ Joined(a \o <<mark>> \o b, mark, Append(p, b))
<1>1. <<b>> \in Seq(Texts) /\ p \o <<b>> = Append(p, b) /\ Append(p, b) \in Seq(Texts)
  BY SMT
<1>2. Joined(b, mark, <<b>>)
  BY JoinedOne
<1>3. a \o <<mark>> \o b \in Texts /\ Joined(a \o <<mark>> \o b, mark, p \o <<b>>)
  BY <1>1, <1>2, JoinedMore
<1> QED
  BY <1>1, <1>3

\* A property as a manifest has it.
IsProperty(p) ==
  /\ p.name \in Texts /\ p.type \in PropertyType /\ p.unit \in Texts
  /\ p.numbers \in [1..4 -> Texts] /\ p.operations \in Texts

\* A line without its end, and its columns.
Body(p) ==
  p.name \o <<COMMA, TypeCode[p.type], COMMA>> \o p.unit \o <<COMMA>>
    \o p.numbers[1] \o <<COMMA>> \o p.numbers[2] \o <<COMMA>>
    \o p.numbers[3] \o <<COMMA>> \o p.numbers[4] \o <<COMMA>> \o p.operations

Columns(p) ==
  <<p.name, <<TypeCode[p.type]>>, p.unit, p.numbers[1], p.numbers[2], p.numbers[3],
    p.numbers[4], p.operations>>

\* The marks are two words, and nothing else that is written with a property
\* is one of them: no letter of a type, no operations and no number.
LEMMA Words ==
  /\ COMMA \in Word /\ EOL \in Word /\ COMMA # EOL
  /\ \A type \in PropertyType : TypeCode[type] \in Word /\ TypeCode[type] \notin {COMMA, EOL}
  /\ \A op \in {"r", "w", "rw"} : op \in Word /\ op \notin {COMMA, EOL}
  /\ \A word \in Number : word \in Word /\ word \notin {COMMA, EOL}
<1>1. COMMA # EOL
  BY DEF COMMA, EOL
<1>2. \A type \in PropertyType : TypeCode[type] \notin {COMMA, EOL}
  <2>1. PropertyType = {"uint8", "uint16", "uint32", "int8", "int16", "int32"}
    BY DEF PropertyType, TypeCode
  <2>2. /\ TypeCode["uint8"] = "B" /\ TypeCode["uint16"] = "H" /\ TypeCode["uint32"] = "I"
        /\ TypeCode["int8"] = "b" /\ TypeCode["int16"] = "h" /\ TypeCode["int32"] = "i"
    BY DEF TypeCode
  <2>3. \A c \in {"B", "H", "I", "b", "h", "i"} : c # COMMA /\ c # EOL
    BY DEF COMMA, EOL
  <2> QED BY <2>1, <2>2, <2>3
<1>3. \A op \in {"r", "w", "rw"} : op \notin {COMMA, EOL}
  BY DEF COMMA, EOL
<1>4. \A word \in Number : word \notin {COMMA, EOL}
  BY TextAssumption
<1>5. /\ COMMA \in Word /\ EOL \in Word
      /\ \A op \in {"r", "w", "rw"} : op \in Word
      /\ \A word \in Number : word \in Word
      /\ \A type \in PropertyType : TypeCode[type] \in Word
  BY DEF Word
<1> QED
  BY <1>1, <1>2, <1>3, <1>4, <1>5

\* A line is eight columns with seven commas, and an end of line.
LEMMA LineIs ==
  ASSUME NEW p, IsProperty(p)
  PROVE  /\ Body(p) \in Texts /\ Line(p) = Body(p) \o <<EOL>>
         /\ Body(p) = p.name \o <<COMMA>> \o <<TypeCode[p.type]>> \o <<COMMA>> \o p.unit
                       \o <<COMMA>> \o p.numbers[1] \o <<COMMA>> \o p.numbers[2]
                       \o <<COMMA>> \o p.numbers[3] \o <<COMMA>> \o p.numbers[4]
                       \o <<COMMA>> \o p.operations
         /\ Columns(p) \in Seq(Texts) /\ Len(Columns(p)) = 8
         /\ Joined(Body(p), COMMA, Columns(p))
<1> DEFINE C  == <<COMMA>>
           T  == <<TypeCode[p.type]>>
           t2 == p.name \o C \o T
           t3 == t2 \o C \o p.unit
           t4 == t3 \o C \o p.numbers[1]
           t5 == t4 \o C \o p.numbers[2]
           t6 == t5 \o C \o p.numbers[3]
           t7 == t6 \o C \o p.numbers[4]
           t8 == t7 \o C \o p.operations
<1>1. /\ p.name \in Texts /\ T \in Texts /\ p.unit \in Texts /\ p.numbers[1] \in Texts
      /\ p.numbers[2] \in Texts /\ p.numbers[3] \in Texts /\ p.numbers[4] \in Texts
      /\ p.operations \in Texts
  <2>1. TypeCode[p.type] \in Word
    BY Words DEF IsProperty
  <2>2. \A w \in Word : <<w>> \in Texts
    BY SMT DEF Texts
  <2>3. \A i \in 1..4 : p.numbers[i] \in Texts
    BY DEF IsProperty
  <2>4. 1 \in 1..4 /\ 2 \in 1..4 /\ 3 \in 1..4 /\ 4 \in 1..4
    BY SMT
  <2> QED BY <2>1, <2>2, <2>3, <2>4 DEF IsProperty
<1>2. p.name \o <<COMMA, TypeCode[p.type], COMMA>> = t2 \o C
  <2>1. ASSUME NEW s \in Texts, NEW u \in Word, NEW v \in Word, NEW w \in Word
        PROVE  s \o <<u, v, w>> = s \o <<u>> \o <<v>> \o <<w>>
    <3>1. <<u>> \in Seq(Word) /\ <<v>> \in Seq(Word) /\ <<w>> \in Seq(Word)
      BY SMT
    <3>2. <<u>> \o <<v>> = <<u, v>> /\ <<u, v>> \in Seq(Word)
      <4>1. <<u, v>> \in Seq(Word) /\ Append(<<u>>, v) = <<u>> \o <<v>>
        BY <3>1, AppendIsConcat, SMT
      <4>2. Append(<<u>>, v) = <<u, v>>
        BY Tuple2
      <4> QED BY <4>1, <4>2
    <3>3. <<u, v>> \o <<w>> = <<u, v, w>>
      <4>1. Append(<<u, v>>, w) = <<u, v, w>>
        BY Tuple3
      <4>2. Append(<<u, v>>, w) = <<u, v>> \o <<w>>
        BY <3>2, AppendIsConcat
      <4> QED BY <4>1, <4>2
    <3>4. s \o <<u>> \o <<v>> = s \o <<u, v>>
      <4>1. s \o <<u>> \o <<v>> = s \o (<<u>> \o <<v>>)
        BY <3>1, ConcatAssociative DEF Texts
      <4> QED BY <3>2, <4>1
    <3>5. s \o <<u, v>> \o <<w>> = s \o <<u, v, w>>
      BY <3>1, <3>2, <3>3, ConcatAssociative DEF Texts
    <3> QED BY <3>4, <3>5
  <2>2. TypeCode[p.type] \in Word /\ COMMA \in Word
    BY Words DEF IsProperty
  <2> QED BY <1>1, <2>1, <2>2, ZenonT(60)
<1>3. Body(p) = t8
  BY <1>2 DEF Body
<1>4. Line(p) = Body(p) \o <<EOL>>
  BY DEF Line, Body
<1>5. COMMA \in Word
  BY Words
<1>6. <<p.name>> \in Seq(Texts) /\ Joined(p.name, COMMA, <<p.name>>)
  <2>1. <<p.name>> \in Seq(Texts)
    BY <1>1, SMT
  <2> QED BY <1>1, <2>1, JoinedOne
<1>7. \A a \in Texts, b \in Texts, s \in Seq(Texts) :
        Joined(a, COMMA, s) =>
          /\ a \o C \o b \in Texts /\ Append(s, b) \in Seq(Texts)
          /\ Joined(a \o C \o b, COMMA, Append(s, b))
  BY <1>5, JoinedNext
<1> HIDE DEF C, T
<1> DEFINE p2 == Append(<<p.name>>, T)
           p3 == Append(p2, p.unit)
           p4 == Append(p3, p.numbers[1])
           p5 == Append(p4, p.numbers[2])
           p6 == Append(p5, p.numbers[3])
           p7 == Append(p6, p.numbers[4])
           p8 == Append(p7, p.operations)
<1>8. t2 \in Texts /\ p2 \in Seq(Texts) /\ Joined(t2, COMMA, p2)
  BY <1>1, <1>6, <1>7
<1> HIDE DEF t2, p2
<1>9. t3 \in Texts /\ p3 \in Seq(Texts) /\ Joined(t3, COMMA, p3)
  BY <1>1, <1>8, <1>7
<1> HIDE DEF t3, p3
<1>10. t4 \in Texts /\ p4 \in Seq(Texts) /\ Joined(t4, COMMA, p4)
  BY <1>1, <1>9, <1>7
<1> HIDE DEF t4, p4
<1>11. t5 \in Texts /\ p5 \in Seq(Texts) /\ Joined(t5, COMMA, p5)
  BY <1>1, <1>10, <1>7
<1> HIDE DEF t5, p5
<1>12. t6 \in Texts /\ p6 \in Seq(Texts) /\ Joined(t6, COMMA, p6)
  BY <1>1, <1>11, <1>7
<1> HIDE DEF t6, p6
<1>13. t7 \in Texts /\ p7 \in Seq(Texts) /\ Joined(t7, COMMA, p7)
  BY <1>1, <1>12, <1>7
<1> HIDE DEF t7, p7
<1>14. t8 \in Texts /\ p8 \in Seq(Texts) /\ Joined(t8, COMMA, p8)
  BY <1>1, <1>13, <1>7
<1> HIDE DEF t8
<1>15. p8 = Columns(p) /\ Len(Columns(p)) = 8
  <2>8. p2 = <<p.name, T>>
    BY Tuple2 DEF p2
  <2>9. p3 = <<p.name, T, p.unit>>
    BY <2>8, Tuple3 DEF p3
  <2>10. p4 = <<p.name, T, p.unit, p.numbers[1]>>
    BY <2>9, Tuple4 DEF p4
  <2>11. p5 = <<p.name, T, p.unit, p.numbers[1], p.numbers[2]>>
    BY <2>10, Tuple5 DEF p5
  <2>12. p6 = <<p.name, T, p.unit, p.numbers[1], p.numbers[2], p.numbers[3]>>
    <3>1. Append(<<p.name, T, p.unit, p.numbers[1], p.numbers[2]>>, p.numbers[3])
            = <<p.name, T, p.unit, p.numbers[1], p.numbers[2], p.numbers[3]>>
      BY Tuple6
    <3> QED BY <2>11, <3>1 DEF p6
  <2>13. p7 = <<p.name, T, p.unit, p.numbers[1], p.numbers[2], p.numbers[3], p.numbers[4]>>
    <3>1. Append(<<p.name, T, p.unit, p.numbers[1], p.numbers[2], p.numbers[3]>>, p.numbers[4])
            = <<p.name, T, p.unit, p.numbers[1], p.numbers[2], p.numbers[3], p.numbers[4]>>
      BY Tuple7
    <3> QED BY <2>12, <3>1 DEF p7
  <2>14. p8 = Columns(p)
    <3>1. Append(<<p.name, T, p.unit, p.numbers[1], p.numbers[2], p.numbers[3], p.numbers[4]>>, p.operations)
            = <<p.name, T, p.unit, p.numbers[1], p.numbers[2], p.numbers[3], p.numbers[4], p.operations>>
      BY Tuple8
    <3>2. Columns(p) = <<p.name, T, p.unit, p.numbers[1], p.numbers[2], p.numbers[3], p.numbers[4], p.operations>>
      BY DEF Columns, T
    <3> QED BY <2>13, <3>1, <3>2
  <2>15. Len(Columns(p)) = 8
    BY SMT DEF Columns
  <2> QED BY <2>14, <2>15
<1>16. Body(p) = p.name \o C \o T \o C \o p.unit \o C \o p.numbers[1] \o C \o p.numbers[2]
                  \o C \o p.numbers[3] \o C \o p.numbers[4] \o C \o p.operations
  BY <1>3 DEF t8, t7, t6, t5, t4, t3, t2
<1> QED
  BY <1>3, <1>4, <1>14, <1>15, <1>16 DEF C, T

-----------------------------------------------------------------------------
(* Lines of which nothing is a mark.                                     *)

\* A text without a mark.
Free(text, mark) == \A i \in 1..Len(text) : text[i] # mark

\* Free texts with another word between them are a free text.
LEMMA FreeNext ==
  ASSUME NEW a \in Texts, NEW b \in Texts, NEW word \in Word, NEW mark, word # mark,
         Free(a, mark), Free(b, mark)
  PROVE  a \o <<word>> \o b \in Texts /\ Free(a \o <<word>> \o b, mark)
<1> DEFINE c == a \o <<word>>
<1>1. Len(a) \in Nat /\ Len(b) \in Nat
  BY LenProperties DEF Texts
<1>2. <<word>> \in Texts /\ Len(<<word>>) = 1 /\ <<word>>[1] = word
  BY SMT DEF Texts
<1>3. /\ c \in Texts /\ Len(c) = Len(a) + 1
      /\ \A i \in 1..Len(a) + 1 : c[i] = IF i <= Len(a) THEN a[i] ELSE <<word>>[i - Len(a)]
  BY <1>2, ConcatProperties DEF Texts
<1> HIDE DEF c
<1>4. /\ c \o b \in Texts /\ Len(c \o b) = Len(c) + Len(b)
      /\ \A i \in 1..Len(c) + Len(b) : (c \o b)[i] = IF i <= Len(c) THEN c[i] ELSE b[i - Len(c)]
  <2>1. c \in Seq(Word) /\ b \in Seq(Word)
    BY <1>3 DEF Texts
  <2>2. c \o b \in Texts
    BY <2>1, ConcatProperties, ZenonT(60) DEF Texts
  <2> QED BY <2>1, <2>2, ConcatProperties, ZenonT(60)
<1>5. \A x \in Nat : \A i \in 1..x + 1 : IF i <= x THEN i \in 1..x ELSE i - x = 1
  BY SMT
<1>6. \A x, y \in Nat : \A i \in 1..x + y : IF i <= x THEN i \in 1..x ELSE i - x \in 1..y
  BY SMT
<1>7. \A i \in 1..Len(a) + 1 : c[i] # mark
  BY <1>1, <1>2, <1>3, <1>5 DEF Free
<1>8. Len(c) \in Nat /\ \A i \in 1..Len(c) : c[i] # mark
  <2>1. \A x \in Nat : x + 1 \in Nat
    BY SMT
  <2> QED BY <1>1, <1>3, <1>7, <2>1
<1>9. \A i \in 1..Len(c) + Len(b) : (c \o b)[i] # mark
  BY <1>1, <1>4, <1>6, <1>8 DEF Free
<1>10. c \o b \in Texts /\ Free(c \o b, mark)
  BY <1>4, <1>9 DEF Free
<1> QED BY <1>10 DEF c

\* A word that is not the mark is free of it.
LEMMA WordFree ==
  ASSUME NEW word \in Word, NEW mark, word # mark
  PROVE  <<word>> \in Texts /\ Free(<<word>>, mark)
BY SMT DEF Texts, Free

\* Nothing in the columns of a property is one of the marks.
PlainProperty(p) ==
  /\ IsProperty(p)
  /\ \A k \in 1..8 : Free(Columns(p)[k], COMMA) /\ Free(Columns(p)[k], EOL)

\* No end of line is within a line.
LEMMA BodyFree ==
  ASSUME NEW p, PlainProperty(p)
  PROVE  Free(Body(p), EOL)
<1> DEFINE C  == <<COMMA>>
           T  == <<TypeCode[p.type]>>
           t2 == p.name \o C \o T
           t3 == t2 \o C \o p.unit
           t4 == t3 \o C \o p.numbers[1]
           t5 == t4 \o C \o p.numbers[2]
           t6 == t5 \o C \o p.numbers[3]
           t7 == t6 \o C \o p.numbers[4]
           t8 == t7 \o C \o p.operations
<1>0. /\ Columns(p)[1] = p.name /\ Columns(p)[2] = T /\ Columns(p)[3] = p.unit
      /\ Columns(p)[4] = p.numbers[1] /\ Columns(p)[5] = p.numbers[2]
      /\ Columns(p)[6] = p.numbers[3] /\ Columns(p)[7] = p.numbers[4]
      /\ Columns(p)[8] = p.operations
  BY DEF Columns
<1>00. Columns(p) \in Seq(Texts) /\ Len(Columns(p)) = 8
  BY LineIs DEF PlainProperty
<1>1. /\ p.name \in Texts /\ T \in Texts /\ p.unit \in Texts /\ p.numbers[1] \in Texts
      /\ p.numbers[2] \in Texts /\ p.numbers[3] \in Texts /\ p.numbers[4] \in Texts
      /\ p.operations \in Texts
  <2>1. \A k \in 1..8 : Columns(p)[k] \in Texts
    BY <1>00, ElementOfSeq
  <2>2. 1 \in 1..8 /\ 2 \in 1..8 /\ 3 \in 1..8 /\ 4 \in 1..8 /\ 5 \in 1..8 /\ 6 \in 1..8
        /\ 7 \in 1..8 /\ 8 \in 1..8
    BY SMT
  <2> HIDE DEF T
  <2> QED BY <1>0, <2>1, <2>2
<1>2. /\ Free(p.name, EOL) /\ Free(T, EOL) /\ Free(p.unit, EOL) /\ Free(p.numbers[1], EOL)
      /\ Free(p.numbers[2], EOL) /\ Free(p.numbers[3], EOL) /\ Free(p.numbers[4], EOL)
      /\ Free(p.operations, EOL)
  <2>1. \A k \in 1..8 : Free(Columns(p)[k], EOL)
    BY DEF PlainProperty
  <2>2. 1 \in 1..8 /\ 2 \in 1..8 /\ 3 \in 1..8 /\ 4 \in 1..8 /\ 5 \in 1..8 /\ 6 \in 1..8
        /\ 7 \in 1..8 /\ 8 \in 1..8
    BY SMT
  <2> HIDE DEF T
  <2> QED BY <1>0, <2>1, <2>2
<1>3. Body(p) = t8
  BY LineIs, Zenon DEF PlainProperty
<1>4. \A a, b \in Texts : Free(a, EOL) /\ Free(b, EOL) =>
        a \o C \o b \in Texts /\ Free(a \o C \o b, EOL)
  BY Words, FreeNext
<1> HIDE DEF C, T
<1>5. t2 \in Texts /\ Free(t2, EOL)
  BY <1>1, <1>2, <1>4
<1> HIDE DEF t2
<1>6. t3 \in Texts /\ Free(t3, EOL)
  BY <1>1, <1>2, <1>4, <1>5
<1> HIDE DEF t3
<1>7. t4 \in Texts /\ Free(t4, EOL)
  BY <1>1, <1>2, <1>4, <1>6
<1> HIDE DEF t4
<1>8. t5 \in Texts /\ Free(t5, EOL)
  BY <1>1, <1>2, <1>4, <1>7
<1> HIDE DEF t5
<1>9. t6 \in Texts /\ Free(t6, EOL)
  BY <1>1, <1>2, <1>4, <1>8
<1> HIDE DEF t6
<1>10. t7 \in Texts /\ Free(t7, EOL)
  BY <1>1, <1>2, <1>4, <1>9
<1> HIDE DEF t7
<1>11. t8 \in Texts /\ Free(t8, EOL)
  BY <1>1, <1>2, <1>4, <1>10
<1> QED BY <1>3, <1>11

\* A manifest as it is in the memory of the compiler.
IsManifest(m) ==
  /\ m.device \in Texts
  /\ Len(m.properties) \in Nat /\ DOMAIN m.properties = 1..Len(m.properties)
  /\ \A i \in DOMAIN m.properties : IsProperty(m.properties[i]) /\ m.properties[i].index = i

\* The rows of the first k properties.
RowsTo(m, k) == [i \in 1..k |-> Body(m.properties[i])]

\* All the rows of a manifest.
RowsOf(m) == RowsTo(m, Len(m.properties))

\* The rows of one property more.
LEMMA RowsToNext ==
  ASSUME NEW m, IsManifest(m), NEW k \in 0..Len(m.properties)
  PROVE  /\ RowsTo(m, k) \in Seq(Texts) /\ Len(RowsTo(m, k)) = k
         /\ k < Len(m.properties) =>
              Append(RowsTo(m, k), Body(m.properties[k + 1])) = RowsTo(m, k + 1)
<1> DEFINE n == Len(m.properties)
<1>1. \A i \in 1..n : Body(m.properties[i]) \in Texts
  BY LineIs DEF IsManifest
<1>2. n \in Nat
  BY DEF IsManifest
<1>3. ASSUME NEW j \in 0..n PROVE RowsTo(m, j) \in Seq(Texts) /\ Len(RowsTo(m, j)) = j
  <2>1. j \in Nat /\ \A i \in 1..j : i \in 1..n
    BY <1>2, SMT
  <2>2. RowsTo(m, j) \in [1..j -> Texts]
    BY <1>1, <2>1 DEF RowsTo
  <2>3. RowsTo(m, j) \in Seq(Texts)
    BY <2>1, <2>2, IsASeq
  <2>4. DOMAIN RowsTo(m, j) = 1..j
    BY DEF RowsTo
  <2>5. Len(RowsTo(m, j)) \in Nat /\ 1..Len(RowsTo(m, j)) = 1..j
    BY <2>3, <2>4, LenProperties
  <2>6. \A x, y \in Nat : 1..x = 1..y => x = y
    BY SMT
  <2> QED BY <2>1, <2>3, <2>5, <2>6
<1>4. ASSUME k < n PROVE Append(RowsTo(m, k), Body(m.properties[k + 1])) = RowsTo(m, k + 1)
  <2> DEFINE s == RowsTo(m, k)
             t == RowsTo(m, k + 1)
             b == Body(m.properties[k + 1])
  <2>1. k + 1 \in 0..n /\ k + 1 \in 1..n /\ k + 1 \in 1..k + 1 /\ \A i \in 1..k : i \in 1..k + 1
    BY <1>2, <1>4, SMT
  <2>2. s \in Seq(Texts) /\ Len(s) = k /\ t \in Seq(Texts) /\ Len(t) = k + 1 /\ b \in Texts
    BY <1>1, <1>3, <2>1
  <2>3. \A i \in 1..k : t[i] = s[i]
    BY <2>1 DEF RowsTo
  <2>4. t[k + 1] = b
    BY <2>1 DEF RowsTo
  <2> HIDE DEF s, t, b
  <2>5. Len(t) = Len(s) + 1 /\ t[Len(t)] = b /\ \A i \in 1..Len(s) : t[i] = s[i]
    BY <2>2, <2>3, <2>4
  <2>6. Append(s, b) = t
    BY <2>2, <2>5, AppendIs
  <2> QED BY <2>6 DEF s, t, b
<1> QED BY <1>3, <1>4

\* A manifest is written as its device, its rows and an empty line, with ends
\* of line in between.
LEMMA SerializedIs ==
  ASSUME NEW m, IsManifest(m)
  PROVE  /\ Serialized(m) \in Texts
         /\ RowsOf(m) \in Seq(Texts)
         /\ <<m.device>> \o RowsOf(m) \o << << >> >> \in Seq(Texts)
         /\ Joined(Serialized(m), EOL, <<m.device>> \o RowsOf(m) \o << << >> >>)
<1> DEFINE n == Len(m.properties)
           lines(k) == <<m.device>> \o RowsTo(m, k)
           Ok(k, U) == /\ U \in Texts /\ Written(m)[k] = U \o <<EOL>>
                       /\ lines(k) \in Seq(Texts) /\ Joined(U, EOL, lines(k))
           H == {k \in Nat : k <= n => \E U : Ok(k, U)}
<1>1. n \in Nat /\ m.device \in Texts
  BY DEF IsManifest
<1>2. /\ Written(m)[0] = m.device \o <<EOL>>
      /\ \A i \in 1..n : Written(m)[i] = Written(m)[i - 1] \o Line(m.properties[i])
  BY <1>1, WrittenIs
<1>3. EOL \in Word /\ <<EOL>> \in Texts /\ << >> \in Texts
  <2>1. EOL \in Word
    BY Words
  <2> QED BY <2>1, SMT DEF Texts
<1>4. <<m.device>> \in Seq(Texts)
  BY <1>1, SMT
<1>5. 0 \in H
  <2>1. RowsTo(m, 0) = << >>
    <3>1. RowsTo(m, 0) \in Seq(Texts) /\ Len(RowsTo(m, 0)) = 0
      <4>1. 0 \in 0..n
        BY <1>1, SMT
      <4> QED BY <4>1, RowsToNext
    <3> QED BY <3>1, EmptySeq
  <2>2. lines(0) = <<m.device>>
    BY <1>4, <2>1, ConcatEmptySeq
  <2>3. Joined(m.device, EOL, lines(0))
    BY <1>1, <2>2, JoinedOne
  <2>4. Ok(0, m.device)
    BY <1>1, <1>2, <1>4, <2>2, <2>3
  <2> HIDE DEF Ok
  <2> QED BY <2>4
<1>6. ASSUME NEW k \in H, k < n PROVE k + 1 \in H
  <2>1. k \in Nat /\ k <= n /\ k \in 0..n /\ k + 1 \in Nat /\ k + 1 \in 1..n /\ k + 1 - 1 = k
    <3>1. k \in Nat
      OBVIOUS
    <3> HIDE DEF H
    <3> QED BY <1>1, <1>6, <3>1, SMT
  <2>2. PICK U : Ok(k, U)
    <3> HIDE DEF Ok
    <3> QED BY <2>1
  <2> DEFINE p == m.properties[k + 1]
             V == U \o <<EOL>> \o Body(p)
  <2>3. Body(p) \in Texts /\ Line(p) = Body(p) \o <<EOL>>
    BY <2>1, LineIs DEF IsManifest
  <2>4. /\ V \in Texts /\ Append(lines(k), Body(p)) \in Seq(Texts)
        /\ Joined(V, EOL, Append(lines(k), Body(p)))
    BY <1>3, <2>2, <2>3, JoinedNext
  <2>5. Append(lines(k), Body(p)) = lines(k + 1)
    <3>1. RowsTo(m, k) \in Seq(Texts) /\ Append(RowsTo(m, k), Body(p)) = RowsTo(m, k + 1)
      BY <1>6, <2>1, RowsToNext
    <3>2. \A s, t \in Seq(Texts), b \in Texts : Append(s \o t, b) = s \o Append(t, b)
      <4> SUFFICES ASSUME NEW s \in Seq(Texts), NEW t \in Seq(Texts), NEW b \in Texts
                   PROVE  Append(s \o t, b) = s \o Append(t, b)
        OBVIOUS
      <4>1. s \o t \in Seq(Texts) /\ <<b>> \in Seq(Texts)
        BY ConcatProperties, SMT
      <4>2. Append(s \o t, b) = (s \o t) \o <<b>> /\ Append(t, b) = t \o <<b>>
        BY <4>1, AppendIsConcat
      <4>3. (s \o t) \o <<b>> = s \o (t \o <<b>>)
        BY <4>1, ConcatAssociative
      <4> QED BY <4>2, <4>3
    <3>3. Append(<<m.device>> \o RowsTo(m, k), Body(p)) = <<m.device>> \o Append(RowsTo(m, k), Body(p))
      BY <1>4, <2>3, <3>1, <3>2
    <3> QED BY <3>1, <3>3
  <2>6. Written(m)[k + 1] = V \o <<EOL>>
    <3>1. Written(m)[k + 1] = (U \o <<EOL>>) \o (Body(p) \o <<EOL>>)
      <4>1. \A i \in 1..n : i - 1 = k => Written(m)[i] = Written(m)[k] \o Line(m.properties[i])
        BY <1>2, Zenon
      <4>2. Written(m)[k + 1] = Written(m)[k] \o Line(p)
        <5>1. PICK j \in 1..n : j = k + 1 /\ j - 1 = k
          BY <2>1
        <5>2. Written(m)[j] = Written(m)[k] \o Line(m.properties[j])
          BY <4>1, <5>1, Zenon
        <5> QED BY <5>1, <5>2, Zenon
      <4>3. Written(m)[k] = U \o <<EOL>>
        BY <2>2
      <4> QED BY <2>3, <4>2, <4>3
    <3>2. U \in Texts /\ U \o <<EOL>> \in Texts
      BY <1>3, <2>2, ConcatProperties DEF Texts
    <3>3. (U \o <<EOL>>) \o (Body(p) \o <<EOL>>) = V \o <<EOL>>
      BY <1>3, <2>3, <3>2, ConcatAssociative DEF Texts
    <3> QED BY <3>1, <3>3
  <2>7. Ok(k + 1, V)
    BY <2>4, <2>5, <2>6
  <2> HIDE DEF Ok
  <2> QED BY <2>1, <2>7
<1>7. PICK U : Ok(n, U)
  <2>1. H \in SUBSET Nat
    OBVIOUS
  <2> HIDE DEF H, Ok, n
  <2>2. n \in 0..n /\ n <= n
    BY <1>1, SMT
  <2>3. n \in H
    BY <1>1, <1>5, <1>6, <2>1, <2>2, Counting
  <2> QED BY <2>2, <2>3 DEF H
<1>8. /\ U \o <<EOL>> \o << >> \in Texts
      /\ Append(lines(n), << >>) \in Seq(Texts)
      /\ Joined(U \o <<EOL>> \o << >>, EOL, Append(lines(n), << >>))
  BY <1>3, <1>7, JoinedNext
<1>9. Serialized(m) = U \o <<EOL>> \o << >>
  <2>1. U \o <<EOL>> \in Texts
    BY <1>3, <1>7, ConcatProperties DEF Texts
  <2>2. U \o <<EOL>> \o << >> = U \o <<EOL>>
    BY <2>1, ConcatEmptySeq DEF Texts
  <2> QED BY <1>7, <2>2 DEF Serialized
<1>10. Append(lines(n), << >>) = <<m.device>> \o RowsOf(m) \o << << >> >>
  BY <1>3, <1>7, AppendIsConcat DEF RowsOf
<1>11. RowsOf(m) \in Seq(Texts)
  <2>1. n \in 0..n
    BY <1>1, SMT
  <2> QED BY <2>1, RowsToNext DEF RowsOf
<1> QED BY <1>8, <1>9, <1>10, <1>11

-----------------------------------------------------------------------------
(* What is written is read as it was.                                    *)

\* Parts free of a mark can be joined by it.
LEMMA FreeUnmarked ==
  ASSUME NEW parts \in Seq(Texts), NEW mark, \A k \in 1..Len(parts) : Free(parts[k], mark)
  PROVE  Unmarked(parts, mark)
<1>1. DOMAIN parts = 1..Len(parts)
  BY LenProperties
<1>2. \A k \in 1..Len(parts) : DOMAIN parts[k] = 1..Len(parts[k])
  <2>1. \A k \in 1..Len(parts) : parts[k] \in Seq(Word)
    BY ElementOfSeq DEF Texts
  <2> QED BY <2>1, LenProperties
<1> QED BY <1>1, <1>2 DEF Unmarked, Free

\* A manifest of which nothing is a mark.
PlainParts(m) ==
  /\ IsManifest(m) /\ Free(m.device, EOL)
  /\ \A i \in DOMAIN m.properties : PlainProperty(m.properties[i])

\* A line has its commas at least, so no row is taken for an empty line.
LEMMA BodyNotEmpty ==
  ASSUME NEW p, IsProperty(p)
  PROVE  Body(p) # << >>
<1>1. PICK at : JoinedAt(Body(p), COMMA, Columns(p), at)
  BY LineIs DEF Joined
<1>2. Columns(p) \in Seq(Texts) /\ Len(Columns(p)) = 8 /\ Body(p) \in Texts
  BY LineIs
<1>3. at \in [0..8 -> Nat] /\ at[0] = 0 /\ at[8] = Len(Body(p)) + 1 /\ at[0] < at[1] /\ at[1] < at[8]
  <2>1. 0 \in 0..8 /\ 1 \in 0..8 /\ 8 \in 0..8 /\ 0 < 1 /\ 1 < 8
    BY SMT
  <2> QED BY <1>1, <1>2, <2>1 DEF JoinedAt, Ascending
<1>4. Len(Body(p)) # 0
  <2>1. at[1] \in Nat /\ Len(Body(p)) \in Nat
    <3>1. 1 \in 0..8
      BY SMT
    <3> QED BY <1>2, <1>3, <3>1, LenProperties DEF Texts
  <2> QED BY <1>3, <2>1, SMT
<1> QED BY <1>4, EmptySeq

\* Each row is split into its columns.
LEMMA ColumnsAre ==
  ASSUME NEW p, PlainProperty(p)
  PROVE  Split(Body(p), COMMA) = Columns(p)
<1>1. /\ Body(p) \in Texts /\ Columns(p) \in Seq(Texts) /\ Len(Columns(p)) = 8
      /\ Joined(Body(p), COMMA, Columns(p))
  BY LineIs DEF PlainProperty
<1>2. Unmarked(Columns(p), COMMA)
  BY <1>1, FreeUnmarked DEF PlainProperty
<1> QED BY <1>1, <1>2, SplitJoined

\* No two types have the same letter.
LEMMA TypeOfCode ==
  ASSUME NEW type \in PropertyType
  PROVE  TypeOf(<<TypeCode[type]>>) = type
<1>1. PropertyType = {"uint8", "uint16", "uint32", "int8", "int16", "int32"}
  BY DEF PropertyType, TypeCode
<1>2. /\ TypeCode["uint8"] = "B" /\ TypeCode["uint16"] = "H" /\ TypeCode["uint32"] = "I"
      /\ TypeCode["int8"] = "b" /\ TypeCode["int16"] = "h" /\ TypeCode["int32"] = "i"
  BY DEF TypeCode
<1>3. \A t \in PropertyType : TypeCode[t] = TypeCode[type] => t = type
  BY <1>1, <1>2
<1>4. \A t \in PropertyType : <<TypeCode[t]>> = <<TypeCode[type]>> => t = type
  <2>1. \A a, b : <<a>> = <<b>> => a = b
    OBVIOUS
  <2> QED BY <1>3, <2>1
<1> QED BY <1>4 DEF TypeOf

\* The offset, the scale and the range are in columns four to seven.
LEMMA FourNumbers ==
  ASSUME NEW p, IsProperty(p)
  PROVE  SubSeq(Columns(p), 4, 7) = p.numbers
<1> DEFINE s == SubSeq(Columns(p), 4, 7)
           c == Columns(p)
<1>1. c \in Seq(Texts) /\ Len(c) = 8
  BY LineIs
<1>2. /\ c[4] = p.numbers[1] /\ c[5] = p.numbers[2] /\ c[6] = p.numbers[3] /\ c[7] = p.numbers[4]
  BY DEF Columns
<1>3. p.numbers \in [1..4 -> Texts]
  BY DEF IsProperty
<1>4. p.numbers \in Seq(Texts) /\ Len(p.numbers) = 4
  <2>1. 4 \in Nat
    OBVIOUS
  <2>2. p.numbers \in Seq(Texts)
    BY <1>3, <2>1, SeqDef
  <2>3. Len(p.numbers) \in Nat /\ 1..Len(p.numbers) = 1..4
    BY <1>3, <2>2, LenProperties
  <2>4. \A x \in Nat : 1..x = 1..4 => x = 4
    BY SMT
  <2> QED BY <2>2, <2>3, <2>4
<1> HIDE DEF c
<1>5. \A i \in 4..7 : c[i] \in Texts
  <2>1. \A i \in 4..7 : i \in 1..8
    BY SMT
  <2> QED BY <1>1, <2>1, ElementOfSeq
<1>6. /\ SubSeq(c, 4, 7) \in Seq(Texts)
      /\ Len(SubSeq(c, 4, 7)) = 4
      /\ \A i \in 1..4 : SubSeq(c, 4, 7)[i] = c[4 + i - 1]
  <2>1. 4 <= 7 /\ 7 - 4 + 1 = 4 /\ 4 \in Int /\ 7 \in Int
    BY SMT
  <2> QED BY <1>5, <2>1, SubSeqProperties
<1>7. \A i \in 1..4 : SubSeq(c, 4, 7)[i] = p.numbers[i]
  <2>1. SubSeq(c, 4, 7)[1] = c[4] /\ SubSeq(c, 4, 7)[2] = c[5]
        /\ SubSeq(c, 4, 7)[3] = c[6] /\ SubSeq(c, 4, 7)[4] = c[7]
    BY <1>6, SMT
  <2>2. \A i \in 1..4 : i = 1 \/ i = 2 \/ i = 3 \/ i = 4
    BY SMT
  <2> QED BY <1>2, <2>1, <2>2
<1>8. SubSeq(c, 4, 7) = p.numbers
  BY <1>4, <1>6, <1>7, SeqEqual
<1> QED BY <1>8 DEF c

\* What is written is read as it was: serialize_manifest_draft_csv and then
\* parse_manifest_draft_csv.
LEMMA RoundTrip ==
  ASSUME NEW m, PlainParts(m), NEW csv, csv = Serialized(m)
  PROVE  /\ ~ CsvRaises(csv)
         /\ ParsedCsv(csv).device = m.device
         /\ DOMAIN ParsedCsv(csv).properties = DOMAIN m.properties
         /\ \A i \in DOMAIN m.properties :
              LET p == ParsedCsv(csv).properties[i]
                  built == m.properties[i]
              IN  /\ p.index = i /\ p.name = built.name /\ p.type = built.type
                  /\ p.unit = built.unit /\ p.numbers = built.numbers
                  /\ p.operations = built.operations
<1> DEFINE n == Len(m.properties)
           rows == RowsOf(m)
           parts == <<m.device>> \o rows \o << << >> >>
<1>1. /\ IsManifest(m) /\ n \in Nat /\ DOMAIN m.properties = 1..n /\ m.device \in Texts
      /\ \A i \in 1..n : IsProperty(m.properties[i]) /\ PlainProperty(m.properties[i])
                         /\ m.properties[i].index = i
  BY DEF PlainParts, IsManifest
<1>2. /\ csv \in Texts /\ rows \in Seq(Texts) /\ parts \in Seq(Texts) /\ Joined(csv, EOL, parts)
  BY <1>1, SerializedIs
<1>3. Len(rows) = n /\ \A i \in 1..n : rows[i] = Body(m.properties[i])
  <2>1. n \in 0..n
    BY <1>1, SMT
  <2> QED BY <1>1, <2>1, RowsToNext DEF RowsOf, RowsTo
<1>4. Unmarked(parts, EOL)
  <2> DEFINE head == <<m.device>>
             tail == << << >> >>
             front == head \o rows
  <2> HIDE DEF rows
  <2>1. head \in Seq(Texts) /\ Len(head) = 1 /\ head[1] = m.device
    BY <1>1, SMT
  <2>2. tail \in Seq(Texts) /\ Len(tail) = 1 /\ tail[1] = << >>
    BY SMT DEF Texts
  <2> HIDE DEF head, tail
  <2>3. /\ front \in Seq(Texts) /\ Len(front) = 1 + n
        /\ \A i \in 1..1 + n : front[i] = IF i <= 1 THEN head[i] ELSE rows[i - 1]
    <3>1. /\ front \in Seq(Texts) /\ Len(front) = Len(head) + Len(rows)
          /\ \A i \in 1..Len(head) + Len(rows) :
                front[i] = IF i <= Len(head) THEN head[i] ELSE rows[i - Len(head)]
      BY <1>2, <2>1, ConcatProperties
    <3> HIDE DEF front, n
    <3> QED BY <1>3, <2>1, <3>1
  <2> HIDE DEF front
  <2>4. /\ Len(front \o tail) = 1 + n + 1
        /\ \A i \in 1..1 + n + 1 : (front \o tail)[i] = IF i <= 1 + n THEN front[i] ELSE tail[i - (1 + n)]
    <3>1. /\ Len(front \o tail) = Len(front) + Len(tail)
          /\ \A i \in 1..Len(front) + Len(tail) :
                (front \o tail)[i] = IF i <= Len(front) THEN front[i] ELSE tail[i - Len(front)]
      BY <2>2, <2>3, ConcatProperties
    <3> HIDE DEF n
    <3> QED BY <2>2, <2>3, <3>1
  <2>5. Free(m.device, EOL) /\ Free(<< >>, EOL)
    <3>1. Len(<< >>) = 0 /\ 1..0 = {}
      BY SMT
    <3> QED BY <3>1 DEF PlainParts, Free
  <2>6. \A i \in 1..n : Free(rows[i], EOL)
    BY <1>1, <1>3, BodyFree
  <2>7. \A x \in Nat : \A i \in 1..1 + x : IF i <= 1 THEN i = 1 ELSE i - 1 \in 1..x
    BY SMT
  <2>8. \A i \in 1..1 + n : Free(front[i], EOL)
    BY <1>1, <2>1, <2>3, <2>5, <2>6, <2>7
  <2>9. \A x \in Nat : \A i \in 1..1 + x + 1 : IF i <= 1 + x THEN i \in 1..1 + x ELSE i - (1 + x) = 1
    BY SMT
  <2>10. \A i \in 1..1 + n + 1 : Free((front \o tail)[i], EOL)
    BY <1>1, <2>2, <2>4, <2>5, <2>8, <2>9
  <2>11. parts = front \o tail
    BY DEF front, head, tail
  <2> HIDE DEF parts
  <2> QED BY <1>2, <2>4, <2>10, <2>11, FreeUnmarked
<1>5. Split(csv, EOL) = parts
  <2> HIDE DEF parts
  <2> QED BY <1>2, <1>4, SplitJoined
<1>6. Rows(csv) = rows /\ Head(Split(csv, EOL)) = m.device
  <2>1. \A k \in 1..Len(rows) : rows[k] # << >>
    BY <1>1, <1>3, BodyNotEmpty
  <2> HIDE DEF rows
  <2> QED BY <1>1, <1>2, <1>5, <2>1, RowsAre
<1>7. DOMAIN Rows(csv) = 1..n
  <2> HIDE DEF rows
  <2> QED BY <1>2, <1>3, <1>6, LenProperties
<1>8. \A i \in 1..n : Split(Rows(csv)[i], COMMA) = Columns(m.properties[i])
  <2> HIDE DEF rows
  <2> QED BY <1>1, <1>3, <1>6, ColumnsAre
<1>9. \A i \in 1..n : /\ Len(Columns(m.properties[i])) = 8
                      /\ m.properties[i].type \in PropertyType
                      /\ Columns(m.properties[i])[1] = m.properties[i].name
                      /\ Columns(m.properties[i])[2] = <<TypeCode[m.properties[i].type]>>
                      /\ Columns(m.properties[i])[3] = m.properties[i].unit
                      /\ Columns(m.properties[i])[8] = m.properties[i].operations
                      /\ SubSeq(Columns(m.properties[i]), 4, 7) = m.properties[i].numbers
  <2>1. ASSUME NEW p, IsProperty(p)
        PROVE  /\ Len(Columns(p)) = 8 /\ p.type \in PropertyType
               /\ Columns(p)[1] = p.name /\ Columns(p)[2] = <<TypeCode[p.type]>>
               /\ Columns(p)[3] = p.unit /\ Columns(p)[8] = p.operations
               /\ SubSeq(Columns(p), 4, 7) = p.numbers
    <3>1. Len(Columns(p)) = 8 /\ SubSeq(Columns(p), 4, 7) = p.numbers /\ p.type \in PropertyType
      BY <2>1, LineIs, FourNumbers DEF IsProperty
    <3>2. /\ Columns(p)[1] = p.name /\ Columns(p)[2] = <<TypeCode[p.type]>>
          /\ Columns(p)[3] = p.unit /\ Columns(p)[8] = p.operations
      BY DEF Columns
    <3> QED BY <3>1, <3>2
  <2> HIDE DEF n
  <2> QED BY <1>1, <2>1
<1> HIDE DEF n
<1>10. ~ CsvRaises(csv)
  <2> SUFFICES ASSUME NEW i \in 1..n
               PROVE  LET columns == Split(Rows(csv)[i], COMMA)
                      IN  ~ (Len(columns) # 8
                              \/ \A type \in PropertyType : columns[2] # <<TypeCode[type]>>)
    BY <1>7 DEF CsvRaises
  <2>1. Split(Rows(csv)[i], COMMA) = Columns(m.properties[i])
    BY <1>8
  <2>2. /\ Len(Columns(m.properties[i])) = 8 /\ m.properties[i].type \in PropertyType
        /\ Columns(m.properties[i])[2] = <<TypeCode[m.properties[i].type]>>
    BY <1>9
  <2> QED BY <2>1, <2>2
<1>11. ParsedCsv(csv).device = m.device
  BY <1>6 DEF ParsedCsv
<1>12. /\ DOMAIN ParsedCsv(csv).properties = 1..n
       /\ \A i \in 1..n : ParsedCsv(csv).properties[i] = ParsedRow(i, Columns(m.properties[i]))
  BY <1>7, <1>8 DEF ParsedCsv
<1>13. ASSUME NEW i \in 1..n
       PROVE  LET p == ParsedCsv(csv).properties[i]
                  built == m.properties[i]
              IN  /\ p.index = i /\ p.name = built.name /\ p.type = built.type
                  /\ p.unit = built.unit /\ p.numbers = built.numbers
                  /\ p.operations = built.operations
  <2>1. TypeOf(<<TypeCode[m.properties[i].type]>>) = m.properties[i].type
    BY <1>9, TypeOfCode
  <2> DEFINE built == m.properties[i]
             p == ParsedCsv(csv).properties[i]
  <2>2. p = ParsedRow(i, Columns(built))
    BY <1>12
  <2>3. /\ Columns(built)[1] = built.name /\ Columns(built)[2] = <<TypeCode[built.type]>>
        /\ Columns(built)[3] = built.unit /\ Columns(built)[8] = built.operations
        /\ SubSeq(Columns(built), 4, 7) = built.numbers
    BY <1>9
  <2> HIDE DEF p, built
  <2>4. /\ p.index = i /\ p.name = Columns(built)[1] /\ p.type = TypeOf(Columns(built)[2])
        /\ p.unit = Columns(built)[3] /\ p.numbers = SubSeq(Columns(built), 4, 7)
        /\ p.operations = Columns(built)[8]
    BY <2>2 DEF ParsedRow
  <2>5. /\ p.index = i /\ p.name = built.name /\ p.type = built.type
        /\ p.unit = built.unit /\ p.numbers = built.numbers
        /\ p.operations = built.operations
    BY <2>1, <2>3, <2>4 DEF built
  <2> QED BY <2>5 DEF p, built
<1> QED BY <1>1, <1>10, <1>11, <1>12, <1>13

-----------------------------------------------------------------------------
(* What the compiler makes of what it is given.                          *)

\* A manifest for which nothing raises.
Good(s) == s \in DOMAIN Source /\ ~ Raises(s) /\ ~ GenerationRaises(ManifestOf(s))

\* A manifest is in YAML or in CSV, of texts in either case.
LEMMA Kinds ==
  ASSUME NEW s \in DOMAIN Source
  PROVE  \/ /\ s \in Yaml /\ Source[s].yaml.device \in Texts
            /\ Source[s].yaml.properties \in Seq(YamlProperty)
         \/ s \notin Yaml /\ Source[s].csv \in Texts
<1>1. "yaml" # "csv"
  OBVIOUS
<1>2. \/ /\ Source[s].kind = "yaml"
         /\ Source[s].yaml \in [device : Seq(Word), properties : Seq(YamlProperty)]
      \/ Source[s].kind = "csv" /\ Source[s].csv \in Seq(Word)
  BY ToolchainAssumption
<1> QED BY <1>1, <1>2 DEF Yaml, Texts

\* The greatest of some numbers.
LEMMA GreatestNumber ==
  ASSUME NEW n \in Nat, NEW S \in SUBSET (1..n), S # {}
  PROVE  Max(S) \in S
<1> DEFINE T == {n - i : i \in S}
<1>1. \A i \in S : i \in Nat /\ i <= n /\ n - i \in Nat
  BY SMT
<1>2. T \in SUBSET Nat /\ T # {}
  BY <1>1
<1>3. PICK x \in T : \A y \in T : x <= y
  <2> HIDE DEF T
  <2> QED BY <1>2, LeastNumber
<1>4. PICK i \in S : x = n - i
  OBVIOUS
<1>5. ASSUME NEW j \in S PROVE i >= j
  <2>1. n - i <= n - j
    BY <1>3, <1>4
  <2>2. i \in Nat /\ j \in Nat
    BY <1>1
  <2> QED BY <2>1, <2>2, SMT
<1>6. \E k \in S : \A j \in S : k >= j
  BY <1>5
<1> QED BY <1>6, Zenon DEF Max

\* What the YAML parser makes of one property that raises nothing.
LEMMA YamlRow ==
  ASSUME NEW y \in YamlProperty, ~ YamlPropertyRaises(y), NEW i, NEW p,
         p = [index |-> i, name |-> y.name, type |-> y.attributes[Max(Types(y))], unit |-> y.unit,
              numbers |-> [k \in 1..4 |-> <<y.numbers[k]>>],
              operations |-> Operations(y.attributes), implementation |-> y.implementation]
  PROVE  /\ IsProperty(p) /\ p.index = i
         /\ \A k \in 1..4 : \E word \in Number : p.numbers[k] = <<word>>
         /\ \E op \in {"r", "w", "rw"} : p.operations = <<op>>
<1>1. p.index = i /\ p.name = y.name /\ p.unit = y.unit
  OBVIOUS
<1>2. p.name \in Texts /\ p.unit \in Texts
  BY <1>1 DEF YamlProperty, Texts
<1>3. p.type \in PropertyType
  <2>1. y.attributes \in Seq(STRING) /\ Types(y) # {}
    BY DEF YamlProperty, YamlPropertyRaises
  <2>2. DOMAIN y.attributes = 1..Len(y.attributes) /\ Len(y.attributes) \in Nat
    BY <2>1, LenProperties
  <2>3. Types(y) \in SUBSET (1..Len(y.attributes))
    BY <2>2 DEF Types
  <2>4. Max(Types(y)) \in Types(y)
    BY <2>1, <2>2, <2>3, GreatestNumber
  <2> QED BY <2>4 DEF Types
<1>4. \A k \in 1..4 : p.numbers[k] = <<y.numbers[k]>> /\ y.numbers[k] \in Number
  <2>1. y.numbers \in Seq(Word) /\ Len(y.numbers) = 4
    BY DEF YamlProperty, YamlPropertyRaises
  <2>2. DOMAIN y.numbers = 1..4
    BY <2>1, LenProperties
  <2>3. \A k \in DOMAIN y.numbers : y.numbers[k] \in Number
    BY DEF YamlPropertyRaises
  <2> QED BY <2>2, <2>3
<1>5. p.numbers \in [1..4 -> Texts]
  <2>1. p.numbers = [k \in 1..4 |-> <<y.numbers[k]>>]
    OBVIOUS
  <2>2. \A word \in Number : <<word>> \in Texts
    <3>1. \A word \in Number : word \in Word
      BY Words
    <3>2. \A word \in Word : <<word>> \in Seq(Word)
      BY SMT
    <3> QED BY <3>1, <3>2 DEF Texts
  <2> QED BY <1>4, <2>1, <2>2
<1>6. PICK op \in {"r", "w", "rw"} : p.operations = <<op>>
  BY DEF Operations
<1>7. p.operations \in Texts
  <2>1. op \in Word
    BY Words
  <2>2. <<op>> \in Seq(Word)
    BY <2>1, SMT
  <2> QED BY <1>6, <2>2 DEF Texts
<1> QED BY <1>1, <1>2, <1>3, <1>4, <1>5, <1>6, <1>7 DEF IsProperty

\* A plain text is free of both marks.
LEMMA PlainIsFree ==
  ASSUME NEW text \in Texts, PlainText(text)
  PROVE  Free(text, COMMA) /\ Free(text, EOL)
<1>1. DOMAIN text = 1..Len(text)
  BY LenProperties DEF Texts
<1>2. \A i \in 1..Len(text) : text[i] \in Range(text)
  BY <1>1 DEF Range
<1> QED BY <1>2 DEF PlainText, Free

\* A property with a plain name and a plain unit has nothing but plain columns.
LEMMA PlainRow ==
  ASSUME NEW p, IsProperty(p), PlainText(p.name), PlainText(p.unit),
         \A k \in 1..4 : \E word \in Number : p.numbers[k] = <<word>>,
         \E op \in {"r", "w", "rw"} : p.operations = <<op>>
  PROVE  PlainProperty(p)
<1>1. \A word : word \notin {COMMA, EOL} /\ word \in Word =>
                  Free(<<word>>, COMMA) /\ Free(<<word>>, EOL)
  BY WordFree
<1>2. \A k \in 1..4 : Free(p.numbers[k], COMMA) /\ Free(p.numbers[k], EOL)
  BY <1>1, Words
<1>3. Free(p.operations, COMMA) /\ Free(p.operations, EOL)
  BY <1>1, Words
<1>4. Free(<<TypeCode[p.type]>>, COMMA) /\ Free(<<TypeCode[p.type]>>, EOL)
  BY <1>1, Words DEF IsProperty
<1>5. /\ Free(p.name, COMMA) /\ Free(p.name, EOL)
      /\ Free(p.unit, COMMA) /\ Free(p.unit, EOL)
  BY PlainIsFree DEF IsProperty
<1>6. /\ Columns(p)[1] = p.name /\ Columns(p)[2] = <<TypeCode[p.type]>> /\ Columns(p)[3] = p.unit
      /\ Columns(p)[4] = p.numbers[1] /\ Columns(p)[5] = p.numbers[2]
      /\ Columns(p)[6] = p.numbers[3] /\ Columns(p)[7] = p.numbers[4]
      /\ Columns(p)[8] = p.operations
  BY DEF Columns
<1>7. \A k \in 1..8 : k \in {1, 2, 3, 4, 5, 6, 7, 8}
  BY SMT
<1>8. 1 \in 1..4 /\ 2 \in 1..4 /\ 3 \in 1..4 /\ 4 \in 1..4
  BY SMT
<1>9. \A k \in 1..8 : Free(Columns(p)[k], COMMA) /\ Free(Columns(p)[k], EOL)
  BY <1>2, <1>3, <1>4, <1>5, <1>6, <1>7, <1>8
<1> QED BY <1>9 DEF PlainProperty

\* What the YAML parser makes of a file that raises nothing is a manifest.
LEMMA YamlManifest ==
  ASSUME NEW s \in Yaml, ~ Raises(s)
  PROVE  /\ IsManifest(ManifestOf(s))
         /\ PlainManifest(ManifestOf(s)) => PlainParts(ManifestOf(s))
<1> DEFINE yaml == Source[s].yaml
           m == ManifestOf(s)
           row(i) == LET y == yaml.properties[i]
                     IN  [index |-> i, name |-> y.name, type |-> y.attributes[Max(Types(y))], unit |-> y.unit,
                          numbers |-> [k \in 1..4 |-> <<y.numbers[k]>>],
                          operations |-> Operations(y.attributes),
                          implementation |-> y.implementation]
<1>1. yaml.device \in Texts /\ yaml.properties \in Seq(YamlProperty) /\ s \in DOMAIN Source
  BY Kinds DEF Yaml
<1>2. /\ m.device = yaml.device
      /\ m.properties = [i \in DOMAIN yaml.properties |-> row(i)]
  BY DEF ManifestOf, ParsedYaml
<1>3. DOMAIN yaml.properties = 1..Len(yaml.properties) /\ Len(yaml.properties) \in Nat
  BY <1>1, LenProperties
<1>4. \A i \in DOMAIN yaml.properties : ~ YamlPropertyRaises(yaml.properties[i])
  BY DEF Raises, YamlRaises
<1>6. \A i \in DOMAIN yaml.properties : yaml.properties[i] \in YamlProperty
  BY <1>1, <1>3, ElementOfSeq
<1> HIDE DEF yaml, m
<1>7. ASSUME NEW i \in DOMAIN m.properties
      PROVE  LET p == m.properties[i]
             IN  /\ IsProperty(p) /\ p.index = i
                 /\ \A k \in 1..4 : \E word \in Number : p.numbers[k] = <<word>>
                 /\ \E op \in {"r", "w", "rw"} : p.operations = <<op>>
  <2>1. i \in DOMAIN yaml.properties /\ m.properties[i] = row(i)
    BY <1>2
  <2>2. yaml.properties[i] \in YamlProperty /\ ~ YamlPropertyRaises(yaml.properties[i])
    BY <1>4, <1>6, <2>1
  <2> QED BY <2>1, <2>2, YamlRow
<1>8. Len(m.properties) \in Nat /\ DOMAIN m.properties = 1..Len(m.properties)
  <2> HIDE DEF row
  <2> DEFINE S == {row(i) : i \in 1..Len(yaml.properties)}
  <2>1. m.properties \in [1..Len(yaml.properties) -> S]
    BY <1>2, <1>3
  <2> HIDE DEF S
  <2>2. m.properties \in Seq(S)
    BY <1>3, <2>1, SeqDef
  <2> QED BY <2>2, LenProperties
<1>9. IsManifest(m)
  BY <1>1, <1>2, <1>7, <1>8 DEF IsManifest
<1>10. PlainManifest(m) => PlainParts(m)
  <2> SUFFICES ASSUME PlainManifest(m) PROVE PlainParts(m)
    OBVIOUS
  <2>1. Free(m.device, EOL)
    BY <1>1, <1>2, PlainIsFree DEF PlainManifest
  <2>2. \A i \in DOMAIN m.properties : PlainProperty(m.properties[i])
    BY <1>7, PlainRow DEF PlainManifest
  <2> QED BY <1>9, <2>1, <2>2 DEF PlainParts
<1> QED BY <1>9, <1>10 DEF m

-----------------------------------------------------------------------------
(* The invariant: each node is none, a device of a manifest for which    *)
(* nothing raised, or a test server of a payload.                        *)

\* The header of a module, where there is one, is of a manifest for which
\* nothing raised.
Headers ==
  \A module \in DOMAIN files :
    \/ files[module].h = Missing
    \/ \E s, id : Good(s) /\ id \in Ids /\ files[module].h = Output(s, id)

\* A device built from a manifest, and the test server of a payload.
DeviceNode(s, values) ==
  [kind |-> "c", manifest |-> ManifestOf(s), table |-> Table(ManifestOf(s)),
   shown |-> Shown(PayloadOf(s)), size |-> EnvelopeLength(s) % LENGTH_VALUES,
   values |-> values]

ServerNode(payload, size, values) ==
  [kind |-> "server", payload |-> payload, shown |-> Shown(payload), size |-> size,
   values |-> values]

\* The variables of an application, each of the type of its property, and
\* what the test server has stored.
Kept(s, values) ==
  /\ values \in [VariablesOf(ManifestOf(s)) -> Nat]
  /\ \A i \in DOMAIN ManifestOf(s).properties :
       LET p == ManifestOf(s).properties[i]
       IN  OfWidth(values[Identifier(p.name)], Width(p.type))

Stored(values) == \A i \in DOMAIN values : i \in Indices /\ values[i] \in Short

\* Nodes, and all the nodes.
IsDeviceOf(node, s) ==
  /\ Good(s) /\ CompilesAsC(ManifestOf(s))
  /\ \E values : Kept(s, values) /\ node = DeviceNode(s, values)

IsServerOf(node, payload) ==
  /\ payload \in Texts
  /\ \E size, values : Stored(values) /\ node = ServerNode(payload, size, values)

NodeOK(node) ==
  \/ node = NoNode
  \/ \E s : IsDeviceOf(node, s)
  \/ \E payload : IsServerOf(node, payload)

NodesOK(f) ==
  /\ f = [n \in Ids |-> f[n]]
  /\ \A n \in Ids : NodeOK(f[n])

\* The inductive invariant.
Inv ==
  /\ IInv /\ Headers
  /\ \E f : nodes = f /\ NodesOK(f)
  /\ nRuns \in 0..MaxRuns

\* What is kept changes, and a node is of the same kind still.
LEMMA NewValues ==
  /\ \A node, s, values : IsDeviceOf(node, s) /\ Kept(s, values) =>
       IsDeviceOf([node EXCEPT !.values = values], s)
  /\ \A node, payload, values : IsServerOf(node, payload) /\ Stored(values) =>
       IsServerOf([node EXCEPT !.values = values], payload)
<1>1. ASSUME NEW node, NEW s, NEW values, IsDeviceOf(node, s), Kept(s, values)
      PROVE  IsDeviceOf([node EXCEPT !.values = values], s)
  <2>1. PICK v : node = DeviceNode(s, v)
    BY <1>1 DEF IsDeviceOf
  <2>2. [node EXCEPT !.values = values] = DeviceNode(s, values)
    BY <2>1 DEF DeviceNode
  <2> QED BY <1>1, <2>2 DEF IsDeviceOf
<1>2. ASSUME NEW node, NEW payload, NEW values, IsServerOf(node, payload), Stored(values)
      PROVE  IsServerOf([node EXCEPT !.values = values], payload)
  <2>1. PICK size, v : node = ServerNode(payload, size, v)
    BY <1>2 DEF IsServerOf
  <2>2. [node EXCEPT !.values = values] = ServerNode(payload, size, values)
    BY <2>1 DEF ServerNode
  <2> QED BY <1>2, <2>2 DEF IsServerOf
<1> QED BY <1>1, <1>2

\* The fields of the three kinds of nodes.
LEMMA NodeFields ==
  /\ \A node, s : IsDeviceOf(node, s) =>
       /\ node.kind = "c" /\ node.manifest = ManifestOf(s) /\ node.table = Table(ManifestOf(s))
       /\ node.shown = Shown(PayloadOf(s)) /\ Kept(s, node.values)
  /\ \A node, payload : IsServerOf(node, payload) =>
       /\ node.kind = "server" /\ node.payload = payload
       /\ node.shown = Shown(payload) /\ Stored(node.values) /\ payload \in Texts
  /\ NoNode.kind = "none"
<1>1. ASSUME NEW node, NEW s, IsDeviceOf(node, s)
      PROVE  /\ node.kind = "c" /\ node.manifest = ManifestOf(s)
             /\ node.table = Table(ManifestOf(s))
             /\ node.shown = Shown(PayloadOf(s)) /\ Kept(s, node.values)
  <2>1. PICK v : Kept(s, v) /\ node = DeviceNode(s, v)
    BY <1>1 DEF IsDeviceOf
  <2> QED BY <2>1 DEF DeviceNode
<1>2. ASSUME NEW node, NEW payload, IsServerOf(node, payload)
      PROVE  /\ node.kind = "server" /\ node.payload = payload
             /\ node.shown = Shown(payload) /\ Stored(node.values) /\ payload \in Texts
  <2>1. PICK size, v : Stored(v) /\ node = ServerNode(payload, size, v)
    BY <1>2 DEF IsServerOf
  <2>2. payload \in Texts
    BY <1>2 DEF IsServerOf
  <2> QED BY <2>1, <2>2 DEF ServerNode
<1>3. NoNode.kind = "none"
  BY DEF NoNode
<1> QED BY <1>1, <1>2, <1>3

\* Which of the three a node is can be told from its kind.
LEMMA KindOfNode ==
  ASSUME NEW node, NodeOK(node)
  PROVE  /\ node.kind \in {"none", "c", "server"}
         /\ node.kind = "c" => \E s : IsDeviceOf(node, s)
         /\ node.kind = "server" => \E payload : IsServerOf(node, payload)
         /\ node.kind = "none" => node = NoNode
<1>1. CASE node = NoNode
  BY <1>1, NodeFields
<1>2. ASSUME NEW s, IsDeviceOf(node, s)
      PROVE  node.kind = "c" /\ \E t : IsDeviceOf(node, t)
  BY <1>2, NodeFields
<1>3. ASSUME NEW payload, IsServerOf(node, payload)
      PROVE  node.kind = "server" /\ \E t : IsServerOf(node, t)
  BY <1>3, NodeFields
<1>4. "c" # "server" /\ "c" # "none" /\ "server" # "none"
  OBVIOUS
<1> QED BY <1>1, <1>2, <1>3, <1>4 DEF NodeOK

\* One value more is stored, and found at its index.
LEMMA WithStored ==
  ASSUME NEW values, Stored(values), NEW index \in Indices, NEW value \in Short
  PROVE  /\ Stored(With(values, index, value))
         /\ Known(With(values, index, value), index)
         /\ With(values, index, value)[index] = value
BY DEF Stored, With, Known

\* The largest value of sixteen bits.
LargestShort == 65535

\* The ranges of bytes and of values of sixteen bits.
LEMMA ByteRange == \A x : x \in Byte <=> x \in Int /\ 0 <= x /\ x <= 255
BY SMT DEF Byte

\* The same for sixteen bits.
LEMMA ShortRange ==
  ASSUME NEW x
  PROVE  x \in Short <=> x \in Int /\ 0 <= x /\ x <= LargestShort
<1>1. Short = 0..LargestShort
  BY SMT DEF Short, LargestShort
<1>2. \A m \in Int : \A y : y \in 0..m <=> y \in Int /\ 0 <= y /\ y <= m
  BY SMT
<1>3. LargestShort \in Int
  BY SMT DEF LargestShort
<1> QED BY <1>1, <1>2, <1>3, SMT

\* Indices, two bytes, the index in an identifier, and what randint draws.
LEMMA Ranges ==
  /\ \A x : x \in Indices <=> x \in Byte
  /\ \A a, b \in Byte : a + 256 * b \in Short
  /\ \A id \in Nat : PropertyIndex(id) \in Indices
  /\ Drawn \subseteq Short
<1>1. \A x : x \in Indices <=> x \in Byte
  BY SMT DEF Byte, Indices
<1>2. \A a, b \in Byte : a + 256 * b \in Short
  <2>1. \A a, b \in Int : 0 <= a /\ a <= 255 /\ 0 <= b /\ b <= 255 =>
          a + 256 * b \in Int /\ 0 <= a + 256 * b /\ a + 256 * b <= LargestShort
    BY SMT DEF LargestShort
  <2> QED BY ByteRange, ShortRange, <2>1, SMT
<1>3. \A id \in Nat : PropertyIndex(id) \in Indices
  <2>1. \A id \in Nat : id % 256 \in Byte
    BY ByteRange, SMT
  <2> QED BY <1>1, <2>1, SMT DEF PropertyIndex
<1>4. Drawn \subseteq Short
  <2>1. Drawn = {0, LargestShort} /\ LargestShort \in Int /\ 0 <= LargestShort
    BY SMT DEF Drawn, LargestShort
  <2> QED BY ShortRange, <2>1, SMT
<1> QED BY <1>1, <1>2, <1>3, <1>4

\* Two bytes are unpacked as sixteen bits.
LEMMA UnpackedRange ==
  ASSUME NEW data \in Seq(Byte), Len(data) = 2
  PROVE  Unpacked(data) \in Short
<1>1. data[1] \in Byte /\ data[2] \in Byte
  <2>1. 1 \in 1..Len(data) /\ 2 \in 1..Len(data)
    BY SMT
  <2> QED BY <2>1, ElementOfSeq
<1> QED BY <1>1, Ranges, SMT DEF Unpacked

\* What the test server keeps after a frame.
LEMMA TakeStored ==
  ASSUME NEW blob, NEW values, Stored(values), NEW n, NEW msg, msg.id \in Nat,
         msg.data \in Seq(Byte), NEW outcome \in Take(blob, values, n, msg)
  PROVE  Stored(outcome.values)
<1> DEFINE opcode == OpcodeOf(msg.id)
           index == PropertyIndex(msg.id)
<1>1. index \in Indices
  BY Ranges
<1>2. \A value \in Short : Stored(With(values, index, value))
  <2> HIDE DEF index
  <2> QED BY <1>1, WithStored
<1>3. CASE opcode \in Opcode /\ outcome \in Serve(blob, values, n, opcode, index, msg.data)
  <2> HIDE DEF index, opcode
  <2>1. \A v, op, i, d : Answered(v, Response(n, op, i, d)).values = v
    BY DEF Answered
  <2>2. \A v, code : Refused(v, n, opcode, index, code).values = v
    BY <2>1 DEF Refused
  <2>3. outcome.values = values
        \/ \E value \in Short : outcome.values = With(values, index, value)
    <3>1. CASE opcode = READ_MANIFEST
      BY <1>3, <2>1, <3>1, CodeRanges DEF Serve
    <3>2. CASE opcode = READ_PROPERTY
      <4>1. \/ outcome.values = values
            \/ \E value \in Drawn : outcome.values = With(values, index, value)
        BY <1>3, <2>1, <2>2, <3>2, CodeRanges DEF Serve
      <4>2. Drawn \subseteq Short
        BY Ranges
      <4> QED BY <4>1, <4>2
    <3>3. CASE opcode = WRITE_PROPERTY
      <4>1. \/ outcome.values = values
            \/ Len(msg.data) = 2 /\ outcome.values = With(values, index, Unpacked(msg.data))
        BY <1>3, <2>1, <2>2, <3>3, CodeRanges DEF Serve
      <4> QED BY <4>1, UnpackedRange
    <3>4. CASE opcode = ERROR
      BY <1>3, <2>2, <3>4, CodeRanges DEF Serve
    <3> QED BY <1>3, <3>1, <3>2, <3>3, <3>4 DEF Opcode
  <2> QED BY <1>2, <2>3
<1>4. outcome.values = values
        \/ (opcode \in Opcode /\ outcome \in Serve(blob, values, n, opcode, index, msg.data))
  BY DEF Take
<1> QED BY <1>3, <1>4

-----------------------------------------------------------------------------
(* What clients know of a node is counted.                               *)

\* A text has finitely many lines, so the rows of a manifest are counted.
LEMMA RowsCounted ==
  ASSUME NEW csv \in Texts
  PROVE  \E k \in Nat : DOMAIN Rows(csv) = 1..k
<1> DEFINE cuts == Cuts(csv, EOL)
           lines == Split(csv, EOL)
           others == Tail(lines)
           filled == {i \in DOMAIN others : others[i] # << >>}
<1>1. Len(csv) \in Nat /\ DOMAIN csv = 1..Len(csv)
  BY LenProperties DEF Texts
<1>2. IsFiniteSet(cuts) /\ Cardinality(cuts) \in Nat
  <2>1. cuts \subseteq 0..Len(csv) + 1
    BY <1>1, SMT DEF Cuts
  <2>2. 0 \in Int /\ Len(csv) + 1 \in Int
    BY <1>1, SMT
  <2>3. IsFiniteSet(0..Len(csv) + 1)
    BY <2>2, FS_Interval
  <2> HIDE DEF cuts
  <2>4. IsFiniteSet(cuts)
    BY <2>1, <2>3, FS_Subset
  <2> QED BY <2>4, FS_CardinalityType
<1>3. Cardinality(cuts) - 1 \in Nat /\ Cardinality(cuts) - 1 # 0
  <2>1. {0, Len(csv) + 1} \subseteq cuts /\ 0 # Len(csv) + 1
    <3>1. 0 # Len(csv) + 1
      BY <1>1, SMT
    <3> QED BY <3>1 DEF Cuts
  <2> HIDE DEF cuts
  <2>2. Cardinality({0, Len(csv) + 1}) <= Cardinality(cuts)
    BY <1>2, <2>1, FS_Subset
  <2>3. Cardinality({0, Len(csv) + 1}) = 2
    <3>1. Cardinality({0}) = 1 /\ IsFiniteSet({0})
      BY FS_Singleton
    <3>2. Len(csv) + 1 \notin {0} /\ {0, Len(csv) + 1} = {0} \cup {Len(csv) + 1}
      BY <2>1
    <3>3. Cardinality({0} \cup {Len(csv) + 1}) = Cardinality({0}) + 1
      BY <3>1, <3>2, FS_AddElement
    <3> QED BY <3>1, <3>2, <3>3, SMT
  <2> QED BY <1>2, <2>2, <2>3, SMT
<1>4. PICK c \in Nat : c = Cardinality(cuts) - 1
  BY <1>3
<1>5. lines = [k \in 1..c |-> lines[k]]
  BY <1>4 DEF Split
<1>6. PICK S : lines \in Seq(S) /\ lines # << >>
  <2> DEFINE S == {lines[k] : k \in 1..c}
  <2>1. lines \in [1..c -> S]
    BY <1>5
  <2>2. lines \in Seq(S)
    BY <1>4, <2>1, SeqDef
  <2>3. DOMAIN lines = 1..c
    BY <1>5
  <2> HIDE DEF S, lines
  <2>4. lines # << >>
    <3>1. Len(lines) \in Nat /\ 1..Len(lines) = 1..c
      BY <2>2, <2>3, LenProperties
    <3>2. \A x, y \in Nat : 1..x = 1..y => x = y
      BY SMT
    <3> QED BY <1>3, <1>4, <3>1, <3>2, EmptySeq
  <2> QED BY <2>2, <2>4
<1> HIDE DEF lines
<1>7. others \in Seq(S)
  BY <1>6, HeadTailProperties
<1> HIDE DEF others
<1>8. DOMAIN others = 1..Len(others) /\ Len(others) \in Nat
  BY <1>7, LenProperties
<1>9. Cardinality(filled) \in Nat
  <2>1. IsFiniteSet(1..Len(others))
    <3>1. 1 \in Int /\ Len(others) \in Int
      BY <1>8, SMT
    <3> QED BY <3>1, FS_Interval
  <2>2. filled \subseteq 1..Len(others)
    BY <1>8
  <2> HIDE DEF filled
  <2>3. IsFiniteSet(filled)
    BY <2>1, <2>2, FS_Subset
  <2> QED BY <2>3, FS_CardinalityType
<1>10. DOMAIN Rows(csv) = 1..Cardinality(filled)
  BY DEF Rows, others, lines
<1> QED BY <1>9, <1>10

\* What a client knows of a node is its properties by their indices from one.
LEMMA ShownCounted ==
  ASSUME NEW csv \in Texts
  PROVE  \E k \in Nat : /\ DOMAIN Shown(csv).properties = 1..k
                        /\ \A i \in 1..k : Shown(csv).properties[i].index = i
<1>1. CASE CsvRaises(csv)
  <2>1. Shown(csv).properties = << >>
    BY <1>1 DEF Shown, Unreadable
  <2>2. DOMAIN << >> = 1..0 /\ 1..0 = {} /\ 0 \in Nat
    BY SMT
  <2> QED BY <2>1, <2>2
<1>2. CASE ~ CsvRaises(csv)
  <2>1. PICK k \in Nat : DOMAIN Rows(csv) = 1..k
    BY RowsCounted
  <2>2. Shown(csv).properties = [i \in 1..k |-> ParsedRow(i, Split(Rows(csv)[i], COMMA))]
    BY <1>2, <2>1 DEF Shown, ParsedCsv
  <2>3. \A i, columns : ParsedRow(i, columns).index = i
    BY DEF ParsedRow
  <2> QED BY <2>2, <2>3
<1> QED BY <1>1, <1>2

\* What a node serves is a text.
LEMMA PayloadText ==
  ASSUME NEW s \in DOMAIN Source, ~ Raises(s)
  PROVE  PayloadOf(s) \in Texts
<1>1. CASE s \in Yaml
  BY <1>1, YamlManifest, SerializedIs DEF PayloadOf
<1>2. CASE s \notin Yaml
  BY <1>2, Kinds DEF PayloadOf
<1> QED BY <1>1, <1>2

-----------------------------------------------------------------------------
(* What a request leaves of a node.                                      *)

\* A raw value of one byte in as many bytes as a type has.
LEMMA WidthIs ==
  \A type \in UnsignedType :
    /\ Width(type) \in {1, 2, 4}
    /\ Width(type) = 2 <=> type = "uint16"
    /\ Width(type) = 1 <=> type = "uint8"
<1>1. Width("uint8") = 1 /\ Width("uint16") = 2 /\ Width("uint32") = 4
  BY DEF Width
<1>2. \A type \in UnsignedType : type = "uint8" \/ type = "uint16" \/ type = "uint32"
  BY DEF UnsignedType
<1>3. 1 # 2 /\ 1 # 4 /\ 2 # 4 /\ "uint8" # "uint16" /\ "uint16" # "uint32" /\ "uint8" # "uint32"
  BY SMT
<1> QED BY <1>1, <1>2, <1>3

\* The weights of the bytes.
LEMMA Weights == Weight[1] = 1 /\ Weight[2] = 256 /\ Weight[3] = 65536 /\ Weight[4] = 16777216
BY DEF Weight

\* A value is sent in bytes, as many as there are in the type.
LEMMA BytesAre ==
  ASSUME NEW raw \in Nat, NEW width \in {1, 2, 4}
  PROVE  /\ Bytes(raw, width) \in Seq(Byte) /\ Len(Bytes(raw, width)) = width
<1> DEFINE b == Bytes(raw, width)
<1>1. \A i \in 1..4 : (raw \div Weight[i]) % 256 \in Byte
  <2>1. \A i \in 1..4 : i = 1 \/ i = 2 \/ i = 3 \/ i = 4
    BY SMT
  <2>2. \A x \in Nat : x % 256 \in Byte
    BY SMT DEF Byte
  <2>3. \A i \in 1..4 : Weight[i] \in Nat \ {0}
    BY <2>1, Weights, SMT
  <2>4. \A d \in Nat \ {0} : raw \div d \in Nat
    BY SMT
  <2> QED BY <2>2, <2>3, <2>4
<1>2. width \in Nat /\ 1..width \subseteq 1..4
  BY SMT
<1>3. b = [i \in 1..width |-> (raw \div Weight[i]) % 256]
  BY DEF Bytes
<1> HIDE DEF b
<1>4. b \in [1..width -> Byte] /\ DOMAIN b = 1..width
  BY <1>1, <1>2, <1>3
<1>5. b \in Seq(Byte)
  BY <1>2, <1>4, SeqDef
<1>6. Len(b) = width
  <2>1. Len(b) \in Nat /\ 1..Len(b) = 1..width
    BY <1>4, <1>5, LenProperties
  <2>2. \A x, y \in Nat : 1..x = 1..y => x = y
    BY SMT
  <2> QED BY <1>2, <2>1, <2>2
<1> QED BY <1>5, <1>6 DEF b

LEMMA BytesDigits ==
  ASSUME NEW raw, NEW width
  PROVE  \A i \in 1..width : Bytes(raw, width)[i] = (raw \div Weight[i]) % 256
BY Zenon DEF Bytes

\* The digits a sequence of bytes is decoded from.
Digit(data, i) == IF i <= Len(data) THEN data[i] * Weight[i] ELSE 0

\* Bytes of a value that fits the type are decoded as the value.
LEMMA DecodedBytes ==
  ASSUME NEW width \in {1, 2, 4}, NEW raw, OfWidth(raw, width)
  PROVE  Decoded(Bytes(raw, width)) = raw
<1> DEFINE b == Bytes(raw, width)
<1>1. raw \in Nat /\ raw \div Weight[width] < 256
  BY DEF OfWidth
<1>2. Len(b) = width /\ \A i \in 1..width : b[i] = (raw \div Weight[i]) % 256
  <2>1. raw \in Nat
    BY <1>1
  <2>2. Len(b) = width
    BY <2>1, BytesAre
  <2>3. \A i \in 1..width : b[i] = (raw \div Weight[i]) % 256
    BY BytesDigits
  <2> QED BY <2>2, <2>3
<1>3. Decoded(b) = Digit(b, 1) + Digit(b, 2) + Digit(b, 3) + Digit(b, 4)
  BY DEF Decoded, Digit
<1> HIDE DEF b
<1>4. CASE width = 1
  <2>1. /\ Digit(b, 1) = ((raw \div 1) % 256) * 1
        /\ Digit(b, 2) = 0 /\ Digit(b, 3) = 0 /\ Digit(b, 4) = 0
    BY <1>2, <1>4, Weights, SMT DEF Digit
  <2>2. raw \div 1 < 256
    BY <1>1, <1>4, Weights
  <2>3. ((raw \div 1) % 256) * 1 + 0 + 0 + 0 = raw
    BY <1>1, <2>2, SMT
  <2> QED BY <1>3, <2>1, <2>3 DEF b
<1>5. CASE width = 2
  <2>1. /\ Digit(b, 1) = ((raw \div 1) % 256) * 1
        /\ Digit(b, 2) = ((raw \div 256) % 256) * 256
        /\ Digit(b, 3) = 0 /\ Digit(b, 4) = 0
    BY <1>2, <1>5, Weights, SMT DEF Digit
  <2>2. raw \div 256 < 256
    BY <1>1, <1>5, Weights
  <2>3. ((raw \div 1) % 256) * 1 + ((raw \div 256) % 256) * 256 + 0 + 0 = raw
    BY <1>1, <2>2, SMT
  <2> QED BY <1>3, <2>1, <2>3 DEF b
<1>6. CASE width = 4
  <2>1. /\ Digit(b, 1) = ((raw \div 1) % 256) * 1
        /\ Digit(b, 2) = ((raw \div 256) % 256) * 256
        /\ Digit(b, 3) = ((raw \div 65536) % 256) * 65536
        /\ Digit(b, 4) = ((raw \div 16777216) % 256) * 16777216
    BY <1>2, <1>6, Weights, SMT DEF Digit
  <2>2. raw \div 16777216 < 256
    BY <1>1, <1>6, Weights
  <2>3. ((raw \div 1) % 256) * 1 + ((raw \div 256) % 256) * 256 + ((raw \div 65536) % 256) * 65536
          + ((raw \div 16777216) % 256) * 16777216 = raw
    BY <1>1, <2>2, SMTT(60)
  <2> QED BY <1>3, <2>1, <2>3 DEF b
<1> QED BY <1>4, <1>5, <1>6

\* Bytes are decoded as a value that fits the type they are of.
LEMMA DecodedFits ==
  ASSUME NEW data \in Seq(Byte), Len(data) \in {1, 2, 4}
  PROVE  OfWidth(Decoded(data), Len(data))
<1>1. Decoded(data) = Digit(data, 1) + Digit(data, 2) + Digit(data, 3) + Digit(data, 4)
  BY DEF Decoded, Digit
<1>2. \A i \in 1..Len(data) : data[i] \in Int /\ 0 <= data[i] /\ data[i] <= 255
  BY ElementOfSeq, ByteRange
<1>3. CASE Len(data) = 1
  <2>1. /\ Digit(data, 1) = data[1] * 1
        /\ Digit(data, 2) = 0 /\ Digit(data, 3) = 0 /\ Digit(data, 4) = 0
    BY <1>3, Weights, SMT DEF Digit
  <2>2. 1 \in 1..Len(data)
    BY <1>3, SMT
  <2>3. \A a \in Int : 0 <= a /\ a <= 255 => /\ a * 1 + 0 + 0 + 0 \in Nat
                                             /\ (a * 1 + 0 + 0 + 0) \div 1 < 256
    BY SMT
  <2> QED BY <1>1, <1>2, <1>3, <2>1, <2>2, <2>3, Weights DEF OfWidth
<1>4. CASE Len(data) = 2
  <2>1. /\ Digit(data, 1) = data[1] * 1 /\ Digit(data, 2) = data[2] * 256
        /\ Digit(data, 3) = 0 /\ Digit(data, 4) = 0
    BY <1>4, Weights, SMT DEF Digit
  <2>2. 1 \in 1..Len(data) /\ 2 \in 1..Len(data)
    BY <1>4, SMT
  <2>3. \A a, b \in Int : 0 <= a /\ a <= 255 /\ 0 <= b /\ b <= 255 =>
          /\ a * 1 + b * 256 + 0 + 0 \in Nat
          /\ (a * 1 + b * 256 + 0 + 0) \div 256 < 256
    BY SMT
  <2>4. PICK a, b \in Int : /\ 0 <= a /\ a <= 255 /\ 0 <= b /\ b <= 255
                             /\ data[1] = a /\ data[2] = b
    BY <1>2, <2>2
  <2>5. Decoded(data) = a * 1 + b * 256 + 0 + 0
    BY <1>1, <2>1, <2>4
  <2>6. OfWidth(a * 1 + b * 256 + 0 + 0, 2)
    BY <2>3, <2>4, Weights DEF OfWidth
  <2> QED BY <1>4, <2>5, <2>6
<1>5. CASE Len(data) = 4
  <2>1. /\ Digit(data, 1) = data[1] * 1 /\ Digit(data, 2) = data[2] * 256
        /\ Digit(data, 3) = data[3] * 65536 /\ Digit(data, 4) = data[4] * 16777216
    BY <1>5, Weights, SMT DEF Digit
  <2>2. 1 \in 1..Len(data) /\ 2 \in 1..Len(data) /\ 3 \in 1..Len(data) /\ 4 \in 1..Len(data)
    BY <1>5, SMT
  <2>3. \A a, b, c, d \in Int :
          0 <= a /\ a <= 255 /\ 0 <= b /\ b <= 255 /\ 0 <= c /\ c <= 255 /\ 0 <= d /\ d <= 255 =>
            /\ a * 1 + b * 256 + c * 65536 + d * 16777216 \in Nat
            /\ (a * 1 + b * 256 + c * 65536 + d * 16777216) \div 16777216 < 256
    BY SMTT(60)
  <2>4. PICK a, b, c, d \in Int :
          /\ 0 <= a /\ a <= 255 /\ 0 <= b /\ b <= 255
          /\ 0 <= c /\ c <= 255 /\ 0 <= d /\ d <= 255
          /\ data[1] = a /\ data[2] = b /\ data[3] = c /\ data[4] = d
    BY <1>2, <2>2
  <2>5. Decoded(data) = a * 1 + b * 256 + c * 65536 + d * 16777216
    BY <1>1, <2>1, <2>4
  <2>6. OfWidth(a * 1 + b * 256 + c * 65536 + d * 16777216, 4)
    BY <2>3, <2>4, Weights DEF OfWidth
  <2> QED BY <1>5, <2>5, <2>6
<1> QED BY <1>3, <1>4, <1>5

\* The rows of a table.
LEMMA TableRow ==
  ASSUME NEW s, Good(s), NEW i \in DOMAIN Table(ManifestOf(s))
  PROVE  LET p == ManifestOf(s).properties[i]
             row == Table(ManifestOf(s))[i]
         IN  /\ i \in DOMAIN ManifestOf(s).properties
             /\ row.type = p.type /\ row.type \in UnsignedType
             /\ row.getter = IF Readable(p) THEN Identifier(p.name) ELSE NULL
             /\ row.setter = IF Writable(p) THEN Identifier(p.name) ELSE NULL
             /\ Identifier(p.name) \in VariablesOf(ManifestOf(s))
<1> DEFINE m == ManifestOf(s)
           p == m.properties[i]
           row == Table(m)[i]
<1>1. i \in DOMAIN m.properties
  BY DEF Table
<1>2. row = [type |-> p.type,
             getter |-> IF Readable(p) THEN Identifier(p.name) ELSE NULL,
             setter |-> IF Writable(p) THEN Identifier(p.name) ELSE NULL]
  BY <1>1 DEF Table
<1>3. ~ PropertyRaises(p)
  BY <1>1 DEF Good, GenerationRaises
<1>4. p.type \in UnsignedType
  BY <1>3 DEF PropertyRaises
<1>5. Identifier(p.name) \in VariablesOf(m)
  BY <1>1 DEF VariablesOf
<1> HIDE DEF m, row, p
<1>6. /\ row.type = p.type
      /\ row.getter = IF Readable(p) THEN Identifier(p.name) ELSE NULL
      /\ row.setter = IF Writable(p) THEN Identifier(p.name) ELSE NULL
  BY <1>2
<1> QED BY <1>1, <1>4, <1>5, <1>6 DEF m, p, row

\* Each property has a variable of its own.
LEMMA OwnVariable ==
  ASSUME NEW m, CompilesAsC(m), NEW i \in DOMAIN m.properties, NEW j \in DOMAIN m.properties,
         Identifier(m.properties[i].name) = Identifier(m.properties[j].name)
  PROVE  i = j
<1> DEFINE e == Enumerators(m)
<1>1. DOMAIN e = DOMAIN m.properties /\ e[i] = e[j]
  BY DEF Enumerators
<1>2. IsInjective(e)
  BY DEF CompilesAsC
<1> HIDE DEF e
<1> QED BY <1>1, <1>2 DEF IsInjective

\* What a device keeps after a request.
LEMMA DeviceKept ==
  ASSUME NEW n \in Ids, NEW s, IsDeviceOf(nodes[n], s),
         NEW msg, msg.data \in Seq(Byte), NEW answer \in Answers(n, msg)
  PROVE  Kept(s, answer.values)
<1> DEFINE dev == nodes[n]
           index == PropertyIndex(msg.id)
           row == dev.table[index]
           m == ManifestOf(s)
<1>1. /\ dev.kind = "c" /\ dev.table = Table(m) /\ Kept(s, dev.values) /\ Good(s)
      /\ CompilesAsC(m)
  BY NodeFields DEF IsDeviceOf
<1>2. ~ IsServer(n)
  BY <1>1 DEF IsServer
<1>3. \/ answer.values = dev.values
      \/ /\ index \in DOMAIN dev.table /\ row.setter # NULL
         /\ Len(msg.data) = Width(row.type)
         /\ answer.values = [dev.values EXCEPT ![row.setter] = Decoded(msg.data)]
  <2> DEFINE opcode == OpcodeOf(msg.id)
             variable == IF opcode = READ_PROPERTY THEN row.getter ELSE row.setter
             answered(values, data) == [values |-> values, data |-> data, failed |-> FALSE]
             refused == answered(dev.values, NoAnswer)
             failed == [values |-> dev.values, data |-> NoAnswer, failed |-> TRUE]
             stray == {answered(dev.values, Bytes(0, width)) : width \in {1, 2, 4}}
             read == answered(dev.values, Bytes(dev.values[variable], Width(row.type)))
             written == answered([dev.values EXCEPT ![variable] = Decoded(msg.data)], msg.data)
  <2>1. CASE index \notin 1..Counted(dev) + 1
    <3>1. Answers(n, msg) = {refused}
      BY <1>2, <2>1 DEF Answers
    <3> QED BY <3>1
  <2>2. CASE index \in 1..Counted(dev) + 1 /\ index \notin DOMAIN dev.table
    <3>1. Answers(n, msg) = {refused} \cup stray
      BY <1>2, <2>2 DEF Answers
    <3> QED BY <3>1
  <2>3. ASSUME index \in 1..Counted(dev) + 1, index \in DOMAIN dev.table
        PROVE  \/ answer \in {refused, read, failed}
               \/ /\ opcode # READ_PROPERTY /\ variable # NULL
                  /\ Len(msg.data) = Width(row.type) /\ answer = written
    <3>1. CASE variable = NULL
      <4>1. Answers(n, msg) = {refused}
        BY <1>2, <2>3, <3>1 DEF Answers
      <4> QED BY <4>1
    <3>2. CASE variable # NULL /\ opcode = READ_PROPERTY
      <4>1. Answers(n, msg) =
              {read} \cup {f \in {failed} : dev.manifest.properties[index].implementation # "const"}
        BY <1>2, <2>3, <3>2 DEF Answers
      <4> QED BY <4>1
    <3>3. CASE variable # NULL /\ opcode # READ_PROPERTY /\ Len(msg.data) # Width(row.type)
      <4>1. Answers(n, msg) = {refused}
        BY <1>2, <2>3, <3>3 DEF Answers
      <4> QED BY <4>1
    <3>4. CASE variable # NULL /\ opcode # READ_PROPERTY /\ Len(msg.data) = Width(row.type)
      <4>1. Answers(n, msg) = {written, failed}
        BY <1>2, <2>3, <3>4 DEF Answers
      <4> QED BY <3>4, <4>1
    <3> QED BY <3>1, <3>2, <3>3, <3>4
  <2>4. CASE index \in 1..Counted(dev) + 1 /\ index \in DOMAIN dev.table
    <3>1. CASE answer \in {refused, read, failed}
      BY <3>1, SMTT(60)
    <3>2. CASE /\ opcode # READ_PROPERTY /\ variable # NULL
               /\ Len(msg.data) = Width(row.type) /\ answer = written
      <4>1. variable = row.setter
        BY <3>2
      <4> QED BY <2>4, <3>2, <4>1
    <3> QED BY <2>3, <2>4, <3>1, <3>2
  <2> QED BY <2>1, <2>2, <2>4
<1>4. ASSUME index \in DOMAIN dev.table, row.setter # NULL, Len(msg.data) = Width(row.type),
             answer.values = [dev.values EXCEPT ![row.setter] = Decoded(msg.data)]
      PROVE  Kept(s, answer.values)
  <2> DEFINE p == m.properties[index]
             new == Decoded(msg.data)
  <2>1. /\ index \in DOMAIN m.properties /\ row.type \in UnsignedType /\ row.type = p.type
        /\ row.setter = Identifier(p.name) /\ Identifier(p.name) \in VariablesOf(m)
    BY <1>1, <1>4, TableRow
  <2>2. OfWidth(new, Width(p.type)) /\ new \in Nat
    <3>1. Len(msg.data) \in {1, 2, 4}
      BY <1>4, <2>1, WidthIs
    <3>2. OfWidth(new, Len(msg.data))
      BY <3>1, DecodedFits
    <3> QED BY <1>4, <2>1, <3>2 DEF OfWidth
  <2>3. dev.values \in [VariablesOf(m) -> Nat]
    BY <1>1 DEF Kept
  <2> HIDE DEF new
  <2>4. answer.values \in [VariablesOf(m) -> Nat]
    <3> HIDE DEF row, m, dev, p
    <3> QED BY <1>4, <2>1, <2>2, <2>3 DEF new
  <2>5. ASSUME NEW i \in DOMAIN m.properties
        PROVE  OfWidth(answer.values[Identifier(m.properties[i].name)], Width(m.properties[i].type))
    <3> DEFINE v == Identifier(m.properties[i].name)
    <3>1. v \in VariablesOf(m)
      BY <2>5 DEF VariablesOf
    <3>2. OfWidth(dev.values[v], Width(m.properties[i].type))
      BY <1>1, <2>5 DEF Kept
    <3>3. v = Identifier(p.name) => i = index
      BY <1>1, <2>1, <2>5, OwnVariable
    <3>4. answer.values[v] = IF v = Identifier(p.name) THEN new ELSE dev.values[v]
      <4> HIDE DEF v, row, m, dev, p
      <4> QED BY <1>4, <2>1, <2>3, <3>1 DEF new
    <3>5. OfWidth(answer.values[v], Width(m.properties[i].type))
      <4> HIDE DEF v, m, dev, new
      <4> QED BY <2>2, <3>2, <3>3, <3>4
    <3> QED BY <3>5
  <2> QED BY <2>4, <2>5 DEF Kept
<1> QED BY <1>1, <1>3, <1>4

\* A node answers, or is asked by somebody else, and is a node still.
LEMMA AnswerKept ==
  ASSUME NEW n \in Ids, NodeOK(nodes[n]), nodes[n].kind # "none",
         NEW msg, msg.id \in Nat, msg.data \in Seq(Byte), NEW answer \in Answers(n, msg)
  PROVE  NodeOK([nodes[n] EXCEPT !.values = answer.values])
<1>1. CASE nodes[n].kind = "c"
  <2>1. PICK s : IsDeviceOf(nodes[n], s)
    BY <1>1, KindOfNode
  <2>2. Kept(s, answer.values)
    BY <2>1, DeviceKept
  <2>3. IsDeviceOf([nodes[n] EXCEPT !.values = answer.values], s)
    BY <2>1, <2>2, NewValues
  <2> QED BY <2>3 DEF NodeOK
<1>2. CASE nodes[n].kind = "server"
  <2>1. PICK payload : IsServerOf(nodes[n], payload)
    BY <1>2, KindOfNode
  <2>2. PICK o \in Taken(n, msg) : answer.values = o.values
    BY <1>2 DEF Answers, IsServer
  <2>3. Stored(answer.values)
    BY <2>1, <2>2, NodeFields, TakeStored DEF Taken
  <2>4. IsServerOf([nodes[n] EXCEPT !.values = answer.values], payload)
    BY <2>1, <2>3, NewValues
  <2> QED BY <2>4 DEF NodeOK
<1> QED BY <1>1, <1>2, KindOfNode

-----------------------------------------------------------------------------
(* What a command leaves of the nodes.                                   *)

\* A node takes the place of another.
LEMMA OtherNode ==
  ASSUME NEW f, NodesOK(f), NEW n \in Ids, NEW node, NodeOK(node)
  PROVE  NodesOK([f EXCEPT ![n] = node])
BY DEF NodesOK

\* A property a client knows has an index from one on, and its node is one
\* of those there are.
LEMMA MeantIs ==
  ASSUME NEW f, nodes = f, NodesOK(f), NEW device, NEW name, NEW x \in Meant(device, name)
  PROVE  /\ x[1] \in NodesNamed(device) /\ x[1] \in Ids /\ nodes[x[1]].kind # "none"
         /\ x[2].name = name
         /\ \E i \in DOMAIN ManifestAt(x[1]).properties :
              /\ i \in Nat /\ 1 <= i
              /\ x[2] = ManifestAt(x[1]).properties[i] /\ x[2].index = i
<1>1. PICK n \in NodesNamed(device) :
        x \in {<<n, ManifestAt(n).properties[i]>> :
                 i \in {j \in DOMAIN ManifestAt(n).properties : ManifestAt(n).properties[j].name = name}}
  BY DEF Meant
<1>2. PICK i \in DOMAIN ManifestAt(n).properties :
        ManifestAt(n).properties[i].name = name /\ x = <<n, ManifestAt(n).properties[i]>>
  BY <1>1
<1>3. n \in Ids /\ nodes[n].kind # "none"
  BY DEF NodesNamed, Visible
<1>4. PICK csv \in Texts : nodes[n].shown = Shown(csv)
  <2>1. NodeOK(nodes[n])
    BY <1>3 DEF NodesOK
  <2>2. CASE nodes[n].kind = "c"
    <3>1. PICK s : IsDeviceOf(nodes[n], s)
      BY <2>1, <2>2, KindOfNode
    <3>2. nodes[n].shown = Shown(PayloadOf(s)) /\ s \in DOMAIN Source /\ ~ Raises(s)
      BY <3>1, NodeFields DEF IsDeviceOf, Good
    <3> QED BY <3>2, PayloadText
  <2>3. CASE nodes[n].kind = "server"
    BY <2>1, <2>3, KindOfNode, NodeFields
  <2> QED BY <1>3, <2>1, <2>2, <2>3, KindOfNode
<1>5. i \in Nat /\ 1 <= i /\ ManifestAt(n).properties[i].index = i
  <2>1. PICK k \in Nat : /\ DOMAIN Shown(csv).properties = 1..k
                         /\ \A j \in 1..k : Shown(csv).properties[j].index = j
    BY ShownCounted
  <2>2. i \in 1..k /\ Shown(csv).properties[i].index = i
    BY <1>4, <2>1 DEF ManifestAt
  <2>3. i \in Nat /\ 1 <= i
    BY <2>1, <2>2, SMT
  <2> QED BY <1>4, <2>2, <2>3 DEF ManifestAt
<1>6. x[1] = n /\ x[2] = ManifestAt(n).properties[i]
  BY <1>2
<1> QED BY <1>2, <1>3, <1>5, <1>6

\* The fields of the identifier of a request: unpack_id after make_frame_id.
LEMMA RequestId ==
  ASSUME NEW n \in NodeIds, NEW opcode \in {READ_PROPERTY, WRITE_PROPERTY},
         NEW index \in Nat, ClientCanMake(n, opcode, index),
         NEW id, id = MakeId(CLIENT_TO_DEVICE, n, opcode, index)
  PROVE  /\ id \in Nat /\ index \in Indices
         /\ IsDevprop(id) /\ DirOf(id) = CLIENT_TO_DEVICE
         /\ NodeOf(id) = n /\ OpcodeOf(id) = opcode /\ PropertyIndex(id) = index
<1>1. index <= 255 /\ 1 <= index
  <2>1. index <= MAX_PROPERTY_INDEX /\ index >= 1
    BY SMT DEF ClientCanMake, IndexAllowed
  <2>2. MAX_PROPERTY_INDEX \in Int /\ MAX_PROPERTY_INDEX <= 255
    BY FormatAssumption, SMT
  <2> QED BY <2>1, <2>2, SMT
<1>2. n \in Int /\ 0 <= n /\ n <= 31
  BY SMT DEF NodeIds
<1>3. opcode \in Int /\ 0 <= opcode /\ opcode <= 7
  BY SMT DEF READ_PROPERTY, WRITE_PROPERTY
<1>4. id = 3960 * 131072 + 65536 + n * 2048 + opcode * 256 + index
  BY <1>1, <1>2, <1>3, SMT DEF MakeId, ID_FIXED_PART, CLIENT_TO_DEVICE
<1>5. index \in Indices
  BY <1>1, SMT DEF Indices
<1>6. id \in Nat
  BY <1>1, <1>2, <1>3, <1>4, SMT
<1>7. IsDevprop(id) /\ DirOf(id) = CLIENT_TO_DEVICE
  BY <1>1, <1>2, <1>3, <1>4, SMT DEF IsDevprop, DirOf, CLIENT_TO_DEVICE
<1>8. NodeOf(id) = n /\ OpcodeOf(id) = opcode /\ PropertyIndex(id) = index
  BY <1>1, <1>2, <1>3, <1>4, SMT DEF NodeOf, OpcodeOf, PropertyIndex
<1> QED BY <1>5, <1>6, <1>7, <1>8

\* What the parts of a command leave of the nodes.
LEMMA EndedKept ==
  ASSUME NEW f, nodes = f, NodesOK(f), NEW n \in Ids, NEW p, NEW answer, NEW lost,
         NodeOK([nodes[n] EXCEPT !.values = answer.values])
  PROVE  NodesOK(Ended(n, p, answer, lost).nodes)
<1> DEFINE then == [nodes EXCEPT ![n].values = answer.values]
<1>1. then = [nodes EXCEPT ![n] = [nodes[n] EXCEPT !.values = answer.values]]
  OBVIOUS
<1>2. NodesOK(then)
  BY <1>1, OtherNode
<1> HIDE DEF then
<1>3. Ended(n, p, answer, lost).nodes = then
  BY DEF Ended, Raised, then
<1> QED BY <1>2, <1>3

\* A request for a property leaves nodes behind.
LEMMA ExchangedKept ==
  ASSUME NEW f, nodes = f, NodesOK(f), NEW device, NEW name, NEW x \in Meant(device, name),
         NEW opcode \in {READ_PROPERTY, WRITE_PROPERTY}, NEW data \in Seq(Byte),
         NEW outcome \in Exchanged(x[1], x[2], opcode, data)
  PROVE  NodesOK(outcome.nodes)
<1> DEFINE n == x[1]
           p == x[2]
           msg == Message(MakeId(CLIENT_TO_DEVICE, n, opcode, p.index), data)
<1>1. \A lost : Raised(lost).nodes = nodes
  BY DEF Raised
<1>2. n \in Ids /\ nodes[n].kind # "none" /\ p.index \in Nat /\ NodeOK(nodes[n])
  BY MeantIs DEF NodesOK
<1>3. \/ outcome.nodes = nodes
      \/ /\ ClientCanMake(n, opcode, p.index)
         /\ \E lost \in BOOLEAN, answer \in Answers(n, msg) : outcome = Ended(n, p, answer, lost)
  <2> DEFINE ends == UNION {{Ended(n, p, answer, lost) : lost \in BOOLEAN} :
                              answer \in Answers(n, msg)}
  <2>1. outcome \in IF ~ ClientCanMake(n, opcode, p.index) THEN {Raised(FALSE)}
                    ELSE {Raised(TRUE)} \cup ends
    BY DEF Exchanged
  <2> HIDE DEF ends
  <2>2. outcome.nodes = nodes \/ (ClientCanMake(n, opcode, p.index) /\ outcome \in ends)
    BY <1>1, <2>1
  <2>3. outcome \in ends =>
          \E lost \in BOOLEAN, answer \in Answers(n, msg) : outcome = Ended(n, p, answer, lost)
    <3> HIDE DEF n, p, msg
    <3> QED BY DEF ends
  <2> QED BY <2>2, <2>3
<1>4. ASSUME ClientCanMake(n, opcode, p.index), NEW lost \in BOOLEAN,
             NEW answer \in Answers(n, msg), outcome = Ended(n, p, answer, lost)
      PROVE  NodesOK(outcome.nodes)
  <2>1. msg.id = MakeId(CLIENT_TO_DEVICE, n, opcode, p.index) /\ msg.data = data
    BY DEF Message
  <2>2. msg.id \in Nat
    <3>1. n \in NodeIds
      BY <1>4 DEF ClientCanMake
    <3> HIDE DEF n, p, msg
    <3> QED BY <1>2, <1>4, <2>1, <3>1, RequestId
  <2>3. NodeOK([nodes[n] EXCEPT !.values = answer.values])
    <3> HIDE DEF n, p, msg
    <3> QED BY <1>2, <1>4, <2>1, <2>2, AnswerKept
  <2> HIDE DEF n, p, msg
  <2> QED BY <1>2, <1>4, <2>3, EndedKept
<1> QED BY <1>3, <1>4

\* A command leaves nodes behind.
LEMMA CommandKept ==
  ASSUME NEW f, nodes = f, NodesOK(f), NEW device, NEW name, NEW value,
         NEW outcome, outcome \in Got(device, name) \/ outcome \in Set(device, name, value)
  PROVE  NodesOK(outcome.nodes)
<1> DEFINE data(p) == Bytes(RawOf(value, p.numbers), Width(p.type))
<1>1. \A fault : Raised(fault).nodes = nodes
  BY DEF Raised
<1>2. \/ outcome.nodes = nodes
      \/ \E x \in Meant(device, name) : outcome \in Exchanged(x[1], x[2], READ_PROPERTY, << >>)
      \/ \E x \in Meant(device, name) :
           /\ Encodable(value, x[2])
           /\ outcome \in Exchanged(x[1], x[2], WRITE_PROPERTY, data(x[2]))
  <2>1. CASE ~ FoundOne(device, name)
    BY <1>1, <2>1 DEF Got, Set
  <2>2. CASE FoundOne(device, name) /\ outcome \in Got(device, name)
    BY <2>2 DEF Got
  <2>3. CASE FoundOne(device, name) /\ outcome \in Set(device, name, value)
    <3>1. PICK x \in Meant(device, name) :
            outcome \in IF ~ Encodable(value, x[2]) THEN {Raised(FALSE)}
                        ELSE Exchanged(x[1], x[2], WRITE_PROPERTY, data(x[2]))
      BY <2>3 DEF Set
    <3> QED BY <1>1, <3>1
  <2> QED BY <2>1, <2>2, <2>3
<1>3. << >> \in Seq(Byte)
  BY EmptySeq
<1>4. \A p : Encodable(value, p) => data(p) \in Seq(Byte)
  BY WidthIs, BytesAre DEF Encodable, OfWidth
<1> HIDE DEF data
<1> QED BY <1>2, <1>3, <1>4, ExchangedKept

-----------------------------------------------------------------------------
(* The invariant is one, and types follow from it.                       *)

\* At first there are no files and no nodes.
LEMMA InitInv == Init => Inv
<1> SUFFICES ASSUME Init PROVE Inv
  OBVIOUS
<1>1. files = << >> /\ DOMAIN files = {}
  <2>1. DOMAIN << >> = {}
    BY SMT
  <2> QED BY <2>1 DEF Init
<1>2. IInv /\ Headers
  BY <1>1 DEF IInv, Headers
<1>3. NodesOK([n \in Ids |-> NoNode])
  BY DEF NodesOK, NodeOK
<1>4. nRuns \in 0..MaxRuns
  BY ToolchainAssumption, SMT DEF Init
<1> QED BY <1>2, <1>3, <1>4 DEF Init, Inv

\* A header is only written when no template raises.
LEMMA GenerateHeaders ==
  ASSUME Headers, NEW s \in DOMAIN Source, NEW id \in Ids, NEW module, ~ Raises(s),
         Generate(s, module, id, GenerationRaises(ManifestOf(s)))
  PROVE  Headers'
<1> DEFINE raises == GenerationRaises(ManifestOf(s))
           new == IF raises THEN [FilesOf(module) EXCEPT !.c = Empty] ELSE Generated(s, id)
<1>1. files' = [m \in DOMAIN files \cup {module} |-> IF m = module THEN new ELSE files[m]]
  BY DEF Generate, Write
<1>2. new.h = Missing \/ \E t, i : Good(t) /\ i \in Ids /\ new.h = Output(t, i)
  <2>1. CASE raises
    <3>1. new.h = FilesOf(module).h
      BY <2>1 DEF FilesOf
    <3> QED BY <3>1 DEF FilesOf, Headers
  <2>2. CASE ~ raises
    <3>1. new.h = Output(s, id)
      BY <2>2 DEF Generated
    <3>2. Good(s)
      BY <2>2 DEF Good
    <3> QED BY <3>1, <3>2
  <2> QED BY <2>1, <2>2
<1> HIDE DEF new
<1> QED BY <1>1, <1>2 DEF Headers

\* Runs are counted up to the bound.
LEMMA RunCounts ==
  ASSUME nRuns \in 0..MaxRuns, Run
  PROVE  nRuns' \in 0..MaxRuns
BY ToolchainAssumption, SMT DEF Run

\* What is built is a device.
LEMMA BuildNodes ==
  ASSUME IInv, Headers, NEW f, nodes = f, NodesOK(f), NEW module \in DOMAIN files, Build(module)
  PROVE  \E g : nodes' = g /\ NodesOK(g)
<1> DEFINE c == files[module].c
           h == files[module].h
<1>1. c.is = "output" /\ h.is = "output" /\ CompilesAsC(ManifestOf(h.of))
  BY DEF Build
<1>2. c \in {h, Empty}
  BY DEF IInv, Agree
<1>3. c = h
  BY <1>1, <1>2 DEF Empty
<1>4. PICK s, id : Good(s) /\ id \in Ids /\ h = Output(s, id)
  BY <1>1 DEF Headers, Missing
<1>5. h.of = s /\ h.node = id /\ c.of = s
  BY <1>3, <1>4 DEF Output
<1> DEFINE values == [v \in VariablesOf(ManifestOf(s)) |-> 0]
           node == DeviceNode(s, values)
<1>6. nodes' = [nodes EXCEPT ![id] = node]
  BY <1>5 DEF Build, DeviceNode
<1>7. Kept(s, values)
  <2>1. \A w \in {1, 2, 4} : OfWidth(0, w)
    <3>1. \A d \in {1, 256, 16777216} : 0 \in Nat /\ 0 \div d < 256
      BY SMT
    <3> QED BY <3>1, Weights DEF OfWidth
  <2>2. ASSUME NEW i \in DOMAIN ManifestOf(s).properties
        PROVE  LET p == ManifestOf(s).properties[i]
               IN  OfWidth(values[Identifier(p.name)], Width(p.type))
    <3> DEFINE p == ManifestOf(s).properties[i]
    <3>1. p.type \in UnsignedType
      BY <1>4, <2>2 DEF Good, GenerationRaises, PropertyRaises
    <3>2. values[Identifier(p.name)] = 0
      BY <2>2 DEF VariablesOf
    <3> HIDE DEF p, values
    <3> QED BY <2>1, <3>1, <3>2, WidthIs DEF p
  <2>3. values \in [VariablesOf(ManifestOf(s)) -> Nat]
    BY SMT
  <2> QED BY <2>2, <2>3 DEF Kept
<1>8. NodeOK(node)
  BY <1>1, <1>4, <1>5, <1>7 DEF NodeOK, IsDeviceOf
<1> HIDE DEF node
<1>9. NodesOK([f EXCEPT ![id] = node])
  BY <1>4, <1>8, OtherNode
<1> QED BY <1>6, <1>9

\* What is started is a test server that has stored nothing.
LEMMA ServerNodes ==
  ASSUME NEW f, nodes = f, NodesOK(f), NEW s \in DOMAIN Source, NEW id \in Ids, StartServer(s, id)
  PROVE  \E g : nodes' = g /\ NodesOK(g)
<1> DEFINE node == ServerNode(PayloadOf(s), EnvelopeLength(s), << >>)
<1>1. nodes' = [nodes EXCEPT ![id] = node] /\ ~ Raises(s)
  BY DEF StartServer, ServerNode
<1>2. Stored(<< >>)
  <2>1. DOMAIN << >> = {}
    BY SMT
  <2> QED BY <2>1 DEF Stored
<1>3. NodeOK(node)
  BY <1>1, <1>2, PayloadText DEF NodeOK, IsServerOf
<1> HIDE DEF node
<1>4. NodesOK([f EXCEPT ![id] = node])
  BY <1>3, OtherNode
<1> QED BY <1>1, <1>4

\* A frame from somebody leaves a test server, or none.
LEMMA FrameNodes ==
  ASSUME NEW f, nodes = f, NodesOK(f), NEW n \in Ids, NEW msg \in Frames, TakeFrame(n, msg)
  PROVE  \E g : nodes' = g /\ NodesOK(g)
<1>1. PICK outcome \in Taken(n, msg) :
        nodes' = [nodes EXCEPT ![n] = IF outcome.alive THEN [@ EXCEPT !.values = outcome.values]
                                      ELSE NoNode]
  BY DEF TakeFrame
<1> DEFINE node == IF outcome.alive THEN [nodes[n] EXCEPT !.values = outcome.values] ELSE NoNode
<1>2. nodes' = [nodes EXCEPT ![n] = node]
  BY <1>1
<1>3. NodeOK(node)
  <2>1. PICK payload : IsServerOf(nodes[n], payload)
    BY KindOfNode DEF TakeFrame, IsServer, NodesOK
  <2>2. Stored(nodes[n].values) /\ msg.id \in Nat /\ msg.data \in Seq(Byte)
    BY <2>1, NodeFields, ToolchainAssumption
  <2>3. Stored(outcome.values)
    BY <2>2, TakeStored DEF Taken
  <2>4. IsServerOf([nodes[n] EXCEPT !.values = outcome.values], payload)
    BY <2>1, <2>3, NewValues
  <2> QED BY <2>4 DEF NodeOK
<1> HIDE DEF node
<1>4. NodesOK([f EXCEPT ![n] = node])
  BY <1>3, OtherNode
<1> QED BY <1>2, <1>4

\* Whatever is compiled, built, started, sent or asked for, the invariant
\* stays.
LEMMA NextInv ==
  ASSUME Inv, [Next]_vars
  PROVE  Inv'
<1>1. PICK f : nodes = f /\ NodesOK(f)
  BY DEF Inv
<1>2. IInv'
  BY NextAgrees DEF Inv
<1>3. IInv /\ Headers /\ nRuns \in 0..MaxRuns
  BY DEF Inv
<1>4. ASSUME NEW s \in DOMAIN Source, NEW id \in Ids, Compile(s, id) PROVE Inv'
  <2>1. Headers'
    BY <1>3, <1>4, GenerateHeaders DEF Compile
  <2>2. nRuns' \in 0..MaxRuns
    BY <1>3, <1>4, RunCounts DEF Compile
  <2>3. nodes' = f
    BY <1>1, <1>4 DEF Compile
  <2> QED BY <1>1, <1>2, <2>1, <2>2, <2>3 DEF Inv
<1>5. ASSUME NEW module \in DOMAIN files, Build(module) PROVE Inv'
  <2>1. Headers'
    BY <1>3, <1>5 DEF Build, Headers
  <2>2. nRuns' \in 0..MaxRuns
    BY <1>3, <1>5, RunCounts DEF Build
  <2>3. \E g : nodes' = g /\ NodesOK(g)
    BY <1>1, <1>3, <1>5, BuildNodes
  <2> QED BY <1>2, <2>1, <2>2, <2>3 DEF Inv
<1>6. ASSUME NEW s \in DOMAIN Source, NEW id \in Ids, StartServer(s, id) PROVE Inv'
  <2>1. Headers'
    BY <1>3, <1>6 DEF StartServer, Headers
  <2>2. nRuns' \in 0..MaxRuns
    BY <1>3, <1>6, RunCounts DEF StartServer
  <2>3. \E g : nodes' = g /\ NodesOK(g)
    BY <1>1, <1>6, ServerNodes
  <2> QED BY <1>2, <2>1, <2>2, <2>3 DEF Inv
<1>7. ASSUME files' = files, nRuns' = nRuns, \E g : nodes' = g /\ NodesOK(g) PROVE Inv'
  <2>1. Headers'
    BY <1>3, <1>7 DEF Headers
  <2> QED BY <1>2, <1>3, <1>7, <2>1 DEF Inv
<1>8. ASSUME NEW n \in Ids, NEW msg \in Frames, TakeFrame(n, msg) PROVE Inv'
  BY <1>1, <1>7, <1>8, FrameNodes DEF TakeFrame
<1>9. ASSUME NEW names \in Names, Getprop(names[1], names[2]) PROVE Inv'
  <2>1. PICK outcome \in Got(names[1], names[2]) : nodes' = outcome.nodes
    BY <1>9 DEF Getprop
  <2>2. NodesOK(outcome.nodes)
    BY <1>1, <2>1, CommandKept
  <2> QED BY <1>7, <1>9, <2>1, <2>2 DEF Getprop
<1>10. ASSUME NEW names \in Names, NEW value \in Values, Setprop(names[1], names[2], value)
       PROVE  Inv'
  <2>1. PICK outcome \in Set(names[1], names[2], value) : nodes' = outcome.nodes
    BY <1>10 DEF Setprop
  <2>2. NodesOK(outcome.nodes)
    BY <1>1, <2>1, CommandKept
  <2> QED BY <1>7, <1>10, <2>1, <2>2 DEF Setprop
<1>11. CASE UNCHANGED vars
  BY <1>1, <1>7, <1>11 DEF vars
<1> QED BY <1>4, <1>5, <1>6, <1>8, <1>9, <1>10, <1>11 DEF Next

\* Types, among them that each callback in a table has a variable and that
\* the server keeps values of sixteen bits.
THEOREM TypeCorrect == Spec => []TypeOK
<1>1. Inv => TypeOK
  <2> SUFFICES ASSUME Inv PROVE TypeOK
    OBVIOUS
  <2>1. PICK f : nodes = f /\ NodesOK(f)
    BY DEF Inv
  <2>2. \A module \in DOMAIN files : files[module] \in [c : File, h : File, stubs : File]
    <3> SUFFICES ASSUME NEW module \in DOMAIN files
                 PROVE  files[module] \in [c : File, h : File, stubs : File]
      OBVIOUS
    <3>1. Agree(files[module])
      BY DEF Inv, IInv
    <3>2. files[module].h \in File
      BY DEF Inv, Headers, File, Good
    <3>3. Empty \in File
      BY DEF File
    <3> QED BY <3>1, <3>2, <3>3 DEF Agree, Files
  <2>3. ASSUME NEW n \in Ids
        PROVE  /\ nodes[n].kind \in {"none", "c", "server"}
               /\ IsServer(n) => \A i \in DOMAIN nodes[n].values :
                                   i \in Indices /\ nodes[n].values[i] \in Short
               /\ n \in Devices => \A i \in DOMAIN nodes[n].table :
                                     {nodes[n].table[i].getter, nodes[n].table[i].setter} \ {NULL}
                                       \subseteq DOMAIN nodes[n].values
    <3>1. NodeOK(nodes[n])
      BY <2>1 DEF NodesOK
    <3>2. nodes[n].kind \in {"none", "c", "server"}
      BY <3>1, KindOfNode
    <3>3. ASSUME IsServer(n) PROVE Stored(nodes[n].values)
      BY <3>1, <3>3, KindOfNode, NodeFields DEF IsServer
    <3>4. ASSUME n \in Devices, NEW i \in DOMAIN nodes[n].table
          PROVE  {nodes[n].table[i].getter, nodes[n].table[i].setter} \ {NULL}
                   \subseteq DOMAIN nodes[n].values
      <4>1. PICK s : IsDeviceOf(nodes[n], s)
        BY <3>1, <3>4, KindOfNode DEF Devices
      <4>2. /\ nodes[n].table = Table(ManifestOf(s)) /\ Good(s)
            /\ nodes[n].values \in [VariablesOf(ManifestOf(s)) -> Nat]
        BY <4>1, NodeFields DEF IsDeviceOf, Kept
      <4> QED BY <3>4, <4>2, TableRow
    <3> QED BY <3>2, <3>3, <3>4 DEF Stored
  <2> QED BY <2>2, <2>3 DEF TypeOK, Inv
<1> QED BY InitInv, NextInv, <1>1, PTL DEF Spec

-----------------------------------------------------------------------------
(* What a client sees of a device.                                       *)

\* What a client gets from the payload of a plain manifest is the manifest:
\* from YAML it is written and read (RoundTrip), and a CSV file that the
\* generator takes has no properties.
LEMMA PayloadIsShown ==
  ASSUME NEW s, Good(s), PlainManifest(ManifestOf(s))
  PROVE  /\ Shown(PayloadOf(s)).device = ManifestOf(s).device
         /\ DOMAIN Shown(PayloadOf(s)).properties = DOMAIN ManifestOf(s).properties
         /\ \A i \in DOMAIN ManifestOf(s).properties :
              LET p == Shown(PayloadOf(s)).properties[i]
                  built == ManifestOf(s).properties[i]
              IN  /\ p.index = i /\ p.name = built.name /\ p.type = built.type
                  /\ p.unit = built.unit /\ p.numbers = built.numbers
                  /\ p.operations = built.operations
<1> DEFINE m == ManifestOf(s)
<1>1. s \in DOMAIN Source /\ ~ Raises(s) /\ ~ GenerationRaises(m)
  BY DEF Good
<1>2. CASE s \in Yaml
  <2>1. PlainParts(m) /\ PayloadOf(s) = Serialized(m)
    BY <1>1, <1>2, YamlManifest DEF PayloadOf
  <2> HIDE DEF m
  <2>2. ~ CsvRaises(PayloadOf(s))
    BY <2>1, RoundTrip
  <2>3. Shown(PayloadOf(s)) = ParsedCsv(PayloadOf(s))
    BY <2>2 DEF Shown
  <2> QED BY <2>1, <2>3, RoundTrip DEF m
<1>3. CASE s \notin Yaml
  <2>1. PayloadOf(s) = Source[s].csv /\ m = ParsedCsv(Source[s].csv) /\ ~ CsvRaises(Source[s].csv)
    BY <1>1, <1>3 DEF PayloadOf, ManifestOf, Raises
  <2>2. Shown(PayloadOf(s)) = m
    BY <2>1 DEF Shown
  <2>3. DOMAIN m.properties = {}
    <3>1. \A i \in DOMAIN m.properties : m.properties[i].implementation = "absent"
      <4> DEFINE rows == Rows(Source[s].csv)
      <4>1. m.properties = [i \in DOMAIN rows |-> ParsedRow(i, Split(rows[i], COMMA))]
        BY <2>1 DEF ParsedCsv
      <4>2. \A i, columns : ParsedRow(i, columns).implementation = "absent"
        BY DEF ParsedRow
      <4> HIDE DEF m, rows
      <4> QED BY <4>1, <4>2
    <3>2. \A i \in DOMAIN m.properties : PropertyRaises(m.properties[i])
      BY <3>1 DEF PropertyRaises
    <3> QED BY <1>1, <3>2 DEF GenerationRaises
  <2> QED BY <2>2, <2>3
<1> QED BY <1>2, <1>3

\* A device that was compiled has a name.
LEMMA NamedDevice ==
  ASSUME NEW s, CompilesAsC(ManifestOf(s))
  PROVE  ManifestOf(s).device # << >>
<1> SUFFICES ASSUME ManifestOf(s).device = << >> PROVE FALSE
  OBVIOUS
<1>1. Identifier(<< >>) = << >>
  <2>1. DOMAIN << >> = {}
    OBVIOUS
  <2> QED BY <2>1 DEF Identifier
<1> QED BY <1>1 DEF CompilesAsC, IsIdentifier

\* A device with a plain manifest, as a client sees it.
LEMMA DeviceIsShown ==
  ASSUME NEW f, nodes = f, NodesOK(f), NEW n \in Devices, PlainManifest(nodes[n].manifest)
  PROVE  \E s :
    LET m == ManifestOf(s)
    IN  /\ IsDeviceOf(nodes[n], s) /\ Good(s) /\ CompilesAsC(m)
        /\ nodes[n].manifest = m /\ nodes[n].table = Table(m)
        /\ (Fetched(n) => n \in Visible) /\ ManifestAt(n).device = m.device
        /\ DOMAIN ManifestAt(n).properties = DOMAIN m.properties
        /\ DOMAIN Table(m) = DOMAIN m.properties
        /\ \A i \in DOMAIN m.properties :
             LET p == ManifestAt(n).properties[i]
                 built == m.properties[i]
             IN  /\ p.index = i /\ p.name = built.name /\ p.type = built.type
                 /\ p.unit = built.unit /\ p.numbers = built.numbers
                 /\ p.operations = built.operations
<1>1. n \in Ids /\ nodes[n].kind = "c" /\ NodeOK(nodes[n])
  BY DEF Devices, NodesOK
<1>2. PICK s : IsDeviceOf(nodes[n], s)
  BY <1>1, KindOfNode
<1> DEFINE m == ManifestOf(s)
<1>3. /\ nodes[n].manifest = m /\ nodes[n].table = Table(m)
      /\ ManifestAt(n) = Shown(PayloadOf(s)) /\ Good(s) /\ CompilesAsC(m)
  BY <1>2, NodeFields DEF IsDeviceOf, ManifestAt
<1>4. ManifestAt(n).device = m.device /\ m.device # << >>
  BY <1>3, PayloadIsShown, NamedDevice
<1>5. Fetched(n) => n \in Visible
  <2>1. Unreadable.device = << >>
    BY DEF Unreadable
  <2>2. nodes[n].shown # Unreadable
    BY <1>4, <2>1 DEF ManifestAt
  <2>3. nodes[n].kind # "none"
    BY <1>1
  <2> QED BY <1>1, <2>2, <2>3 DEF Visible
<1>6. DOMAIN Table(m) = DOMAIN m.properties
  BY DEF Table
<1> QED BY <1>2, <1>3, <1>4, <1>5, <1>6, PayloadIsShown

\* Clients see each plain device as it was built: for any manifests, any
\* number of properties and any texts without the marks.
THEOREM ClientsSeeTheTable == Spec => []ClientSeesTheTable
<1>1. Inv => ClientSeesTheTable
  <2> SUFFICES ASSUME Inv, NEW n \in Devices, PlainManifest(nodes[n].manifest)
               PROVE  /\ Fetched(n) => n \in Visible
                      /\ ManifestAt(n).device = nodes[n].manifest.device
                      /\ DOMAIN ManifestAt(n).properties = DOMAIN nodes[n].table
                      /\ \A i \in DOMAIN nodes[n].table :
                           LET p == ManifestAt(n).properties[i]
                               row == nodes[n].table[i]
                               built == nodes[n].manifest.properties[i]
                           IN  /\ p.index = i
                               /\ p.type = row.type
                               /\ <<p.name, p.unit, p.numbers>> = <<built.name, built.unit, built.numbers>>
                               /\ row.getter = IF Readable(p) THEN Identifier(p.name) ELSE NULL
                               /\ row.setter = IF Writable(p) THEN Identifier(p.name) ELSE NULL
    BY DEF ClientSeesTheTable
  <2>1. PICK f : nodes = f /\ NodesOK(f)
    BY DEF Inv
  <2>2. PICK s :
          LET m == ManifestOf(s)
          IN  /\ IsDeviceOf(nodes[n], s) /\ Good(s) /\ CompilesAsC(m)
              /\ nodes[n].manifest = m /\ nodes[n].table = Table(m)
              /\ (Fetched(n) => n \in Visible) /\ ManifestAt(n).device = m.device
              /\ DOMAIN ManifestAt(n).properties = DOMAIN m.properties
              /\ DOMAIN Table(m) = DOMAIN m.properties
              /\ \A i \in DOMAIN m.properties :
                   LET p == ManifestAt(n).properties[i]
                       built == m.properties[i]
                   IN  /\ p.index = i /\ p.name = built.name /\ p.type = built.type
                       /\ p.unit = built.unit /\ p.numbers = built.numbers
                       /\ p.operations = built.operations
    BY <2>1, DeviceIsShown
  <2>3. ASSUME NEW i \in DOMAIN nodes[n].table
        PROVE  LET p == ManifestAt(n).properties[i]
                   row == nodes[n].table[i]
                   built == nodes[n].manifest.properties[i]
               IN  /\ p.index = i
                   /\ p.type = row.type
                   /\ <<p.name, p.unit, p.numbers>> = <<built.name, built.unit, built.numbers>>
                   /\ row.getter = IF Readable(p) THEN Identifier(p.name) ELSE NULL
                   /\ row.setter = IF Writable(p) THEN Identifier(p.name) ELSE NULL
    <3>1. i \in DOMAIN ManifestOf(s).properties
      BY <2>2, <2>3
    <3>2. Readable(ManifestAt(n).properties[i]) <=> Readable(ManifestOf(s).properties[i])
      BY <2>2, <3>1 DEF Readable
    <3>3. Writable(ManifestAt(n).properties[i]) <=> Writable(ManifestOf(s).properties[i])
      BY <2>2, <3>1 DEF Writable
    <3> QED BY <2>2, <2>3, <3>1, <3>2, <3>3, TableRow
  <2> QED BY <2>2, <2>3
<1> QED BY InitInv, NextInv, <1>1, PTL DEF Spec

-----------------------------------------------------------------------------
(* What a device answers.                                                *)

\* The properties of a manifest are counted from one.
LEMMA PropertiesCounted ==
  ASSUME NEW s, Good(s)
  PROVE  \E k \in Nat : DOMAIN ManifestOf(s).properties = 1..k
<1>1. CASE s \in Yaml
  BY <1>1, YamlManifest DEF Good, IsManifest
<1>2. CASE s \notin Yaml
  <2>1. PICK k \in Nat : DOMAIN Rows(Source[s].csv) = 1..k
    BY <1>2, Kinds, RowsCounted DEF Good
  <2> QED BY <1>2, <2>1 DEF ManifestOf, ParsedCsv
<1> QED BY <1>1, <1>2

\* The rows of a table are counted from one, and how many there are is
\* a number of which a byte is left.
LEMMA TableCounted ==
  ASSUME NEW s, Good(s), NEW dev, dev.table = Table(ManifestOf(s))
  PROVE  /\ \A i \in DOMAIN dev.table : i \in Int /\ 1 <= i
         /\ Counted(dev) \in Int
<1> DEFINE t == dev.table
<1>1. PICK k \in Nat : DOMAIN t = 1..k
  BY PropertiesCounted DEF Table
<1>2. t = [j \in 1..k |-> t[j]]
  BY <1>1 DEF Table
<1> DEFINE S == {t[j] : j \in 1..k}
<1> HIDE DEF t
<1>3. t \in [1..k -> S]
  BY <1>2
<1> HIDE DEF S
<1>4. t \in Seq(S)
  BY <1>3, SeqDef
<1>5. Len(t) \in Nat
  BY <1>4, LenProperties
<1>6. \A i \in 1..k : i \in Int /\ 1 <= i
  BY <1>1, SMT
<1>7. Len(t) % COUNT_VALUES \in Int
  BY <1>5, ToolchainAssumption, SMT
<1> QED BY <1>1, <1>6, <1>7 DEF t, Counted

\* What has characters has an identifier.
LEMMA IdentifierIsNotNULL == \A text : IsIdentifier(Identifier(text)) => Identifier(text) # NULL
BY DEF IsIdentifier, NULL

\* A property a client means is one of the table of its device, which has a
\* variable for it, and the callbacks its operations say.
LEMMA MeantOfDevice ==
  ASSUME NEW f, nodes = f, NodesOK(f), NEW device, NEW name, NEW x \in Meant(device, name),
         nodes[x[1]].kind = "c", PlainManifest(nodes[x[1]].manifest)
  PROVE  LET p == x[2]
             dev == nodes[x[1]]
             row == dev.table[p.index]
         IN  /\ p.index \in DOMAIN dev.table /\ p.index \in 1..p.index
             /\ Counted(dev) \in Int
             /\ row.type = p.type /\ p.type \in UnsignedType
             /\ row.getter = IF Readable(p) THEN Identifier(p.name) ELSE NULL
             /\ row.setter = IF Writable(p) THEN Identifier(p.name) ELSE NULL
             /\ Identifier(p.name) # NULL
             /\ OfWidth(dev.values[Identifier(p.name)], Width(p.type))
             /\ \E V : Identifier(p.name) \in V /\ dev.values \in [V -> Nat]
<1> DEFINE n == x[1]
           p == x[2]
<1>1. n \in Ids /\ nodes[n].kind = "c"
  BY MeantIs
<1>2. n \in Devices
  BY <1>1 DEF Devices
<1>3. PICK s :
        LET m == ManifestOf(s)
        IN  /\ IsDeviceOf(nodes[n], s) /\ Good(s) /\ CompilesAsC(m)
            /\ nodes[n].manifest = m /\ nodes[n].table = Table(m)
            /\ (Fetched(n) => n \in Visible) /\ ManifestAt(n).device = m.device
            /\ DOMAIN ManifestAt(n).properties = DOMAIN m.properties
            /\ DOMAIN Table(m) = DOMAIN m.properties
            /\ \A i \in DOMAIN m.properties :
                 LET q == ManifestAt(n).properties[i]
                     built == m.properties[i]
                 IN  /\ q.index = i /\ q.name = built.name /\ q.type = built.type
                     /\ q.unit = built.unit /\ q.numbers = built.numbers
                     /\ q.operations = built.operations
  <2> HIDE DEF n
  <2>1. PlainManifest(nodes[n].manifest)
    BY DEF n
  <2> QED BY <1>2, <2>1, DeviceIsShown
<1> DEFINE m == ManifestOf(s)
           built(i) == m.properties[i]
<1>4. PICK i \in DOMAIN m.properties : p = ManifestAt(n).properties[i] /\ p.index = i
  BY <1>3, MeantIs
<1> HIDE DEF n, p
<1>5. i \in DOMAIN Table(m) /\ nodes[n].table = Table(m)
  BY <1>3, <1>4
<1>6. p.name = built(i).name /\ p.type = built(i).type /\ p.operations = built(i).operations
  BY <1>3, <1>4
<1>7. (Readable(p) <=> Readable(built(i))) /\ (Writable(p) <=> Writable(built(i)))
  BY <1>6 DEF Readable, Writable
<1>8. /\ Table(m)[i].type = built(i).type /\ built(i).type \in UnsignedType
      /\ Table(m)[i].getter = IF Readable(built(i)) THEN Identifier(built(i).name) ELSE NULL
      /\ Table(m)[i].setter = IF Writable(built(i)) THEN Identifier(built(i).name) ELSE NULL
      /\ Identifier(built(i).name) \in VariablesOf(m)
  BY <1>3, <1>5, TableRow
<1>9. Identifier(built(i).name) # NULL
  BY <1>3, <1>4, IdentifierIsNotNULL DEF CompilesAsC
<1>10. /\ nodes[n].values \in [VariablesOf(m) -> Nat]
       /\ OfWidth(nodes[n].values[Identifier(p.name)], Width(p.type))
  <2>1. Kept(s, nodes[n].values)
    BY <1>3, NodeFields
  <2> QED BY <1>4, <1>6, <2>1 DEF Kept
<1>11. i \in 1..i /\ Counted(nodes[n]) \in Int
  <2>1. i \in Int /\ 1 <= i /\ Counted(nodes[n]) \in Int
    BY <1>3, <1>5, TableCounted
  <2> QED BY <2>1, SMT
<1> QED BY <1>4, <1>5, <1>6, <1>7, <1>8, <1>9, <1>10, <1>11 DEF n, p

\* The node that has sent a response.
After(n, answer) == [nodes[n] EXCEPT !.values = answer.values]

\* What the request for a property is, to read it or to write value to it.
Requests(p, writes, value, opcode, data) ==
  IF writes THEN /\ opcode = WRITE_PROPERTY /\ Encodable(value, p)
                 /\ data = Bytes(RawOf(value, p.numbers), Width(p.type))
  ELSE opcode = READ_PROPERTY /\ data = << >>

\* Whether the node has what it takes to do as asked.
Works(n, writes, p) ==
  IF IsServer(n) THEN p.type = "uint16"
  ELSE p.index <= Counted(nodes[n]) + 1 /\ IF writes THEN Writable(p) ELSE Readable(p)

\* Data of the type of property p.
Shaped(data, p) == data # NoAnswer /\ p.type \in UnsignedType /\ Len(data) = Width(p.type)

\* Bytes of a raw value are decoded as that value.
LEMMA BytesDecoded ==
  ASSUME NEW p, p.type \in UnsignedType, NEW raw, OfWidth(raw, Width(p.type))
  PROVE  /\ Bytes(raw, Width(p.type)) \in Seq(Byte)
         /\ Shaped(Bytes(raw, Width(p.type)), p)
         /\ Decoded(Bytes(raw, Width(p.type))) = raw
<1> DEFINE w == Width(p.type)
           b == Bytes(raw, w)
<1>1. w \in {1, 2, 4} /\ raw \in Nat
  BY WidthIs DEF OfWidth
<1>2. b \in Seq(Byte) /\ Len(b) = w
  <2> HIDE DEF w
  <2> QED BY <1>1, BytesAre
<1>3. b # NoAnswer
  <2>1. Len(NoAnswer) = 0
    BY EmptySeq DEF NoAnswer
  <2>2. w # 0
    BY <1>1, SMT
  <2> QED BY <1>2, <2>1, <2>2
<1>4. Decoded(b) = raw
  BY <1>1, DecodedBytes
<1> QED BY <1>2, <1>3, <1>4 DEF Shaped

\* A device answers a request for one of its properties if it has the
\* callback and this does not fail, with what it then has in the variable.
LEMMA DeviceAnswers ==
  ASSUME NEW f, nodes = f, NodesOK(f), NEW device, NEW name, NEW x \in Meant(device, name),
         nodes[x[1]].kind = "c", PlainManifest(nodes[x[1]].manifest),
         NEW writes \in BOOLEAN, NEW value, NEW opcode, NEW data,
         Requests(x[2], writes, value, opcode, data),
         NEW msg, msg.data = data, OpcodeOf(msg.id) = opcode, PropertyIndex(msg.id) = x[2].index,
         NEW answer \in Answers(x[1], msg)
  PROVE  /\ Shaped(answer.data, x[2]) <=> Works(x[1], writes, x[2]) /\ ~ answer.failed
         /\ Shaped(answer.data, x[2]) => Holds(After(x[1], answer), x[2], Decoded(answer.data))
         /\ answer.failed \in BOOLEAN
<1> DEFINE n == x[1]
           p == x[2]
           dev == nodes[n]
           row == dev.table[p.index]
           v == Identifier(p.name)
           variable == IF opcode = READ_PROPERTY THEN row.getter ELSE row.setter
           answered(values, d) == [values |-> values, data |-> d, failed |-> FALSE]
           refused == answered(dev.values, NoAnswer)
           failed == [values |-> dev.values, data |-> NoAnswer, failed |-> TRUE]
           through == p.index <= Counted(dev) + 1
<1>1. /\ p.index \in DOMAIN dev.table /\ p.index \in 1..p.index /\ Counted(dev) \in Int
      /\ row.type = p.type /\ p.type \in UnsignedType
      /\ row.getter = IF Readable(p) THEN v ELSE NULL
      /\ row.setter = IF Writable(p) THEN v ELSE NULL
      /\ v # NULL
      /\ OfWidth(dev.values[v], Width(p.type))
      /\ \E V : v \in V /\ dev.values \in [V -> Nat]
  BY MeantOfDevice
<1>2. PICK V : v \in V /\ dev.values \in [V -> Nat]
  BY <1>1
<1>3. dev.kind = "c" /\ ~ IsServer(n) /\ "c" # "server"
  BY DEF IsServer
<1>4. READ_PROPERTY # WRITE_PROPERTY
  BY CodeRanges
<1>5. Works(n, writes, p) <=> through /\ variable # NULL
  BY <1>1, <1>3, <1>4 DEF Works, Requests
<1>6. ~ Shaped(NoAnswer, p)
  BY DEF Shaped
<1>7. p.index \in 1..Counted(dev) + 1 <=> through
  <2>1. p.index \in Int /\ 1 <= p.index
    <3>1. p.index \in Nat /\ 1 <= p.index
      BY MeantIs
    <3> QED BY <3>1, SMT
  <2> HIDE DEF n, p, dev
  <2> QED BY <1>1, <2>1, SMT
<1>8. answer \in
        IF ~ through THEN {refused}
        ELSE IF variable = NULL THEN {refused}
        ELSE IF opcode = READ_PROPERTY
        THEN {answered(dev.values, Bytes(dev.values[variable], Width(row.type)))}
               \cup {e \in {failed} : dev.manifest.properties[p.index].implementation # "const"}
        ELSE IF Len(data) # Width(row.type) THEN {refused}
        ELSE {answered([dev.values EXCEPT ![variable] = Decoded(data)], data), failed}
  BY <1>1, <1>3, <1>7, Zenon DEF Answers
<1>9. After(n, answer).kind = "c" /\ After(n, answer).values = answer.values
  <2>1. PICK s : IsDeviceOf(nodes[n], s)
    <3>1. n \in Ids /\ NodeOK(nodes[n])
      BY MeantIs DEF NodesOK
    <3> QED BY <1>3, <3>1, KindOfNode
  <2>2. PICK vals : nodes[n] = DeviceNode(s, vals)
    BY <2>1 DEF IsDeviceOf
  <2> HIDE DEF n
  <2> QED BY <2>2 DEF After, DeviceNode
<1>10. /\ \A vals, d : LET a == answered(vals, d)
                      IN  a.values = vals /\ a.data = d /\ a.failed = FALSE
       /\ failed.data = NoAnswer /\ failed.failed = TRUE
  OBVIOUS
<1> HIDE DEF n, p, dev, row, v, variable, answered, failed, through
<1>11. ASSUME NEW d, NEW vals, answer = answered(vals, d), Shaped(d, p) <=> Works(n, writes, p),
              Shaped(d, p) => vals[v] = Decoded(d)
       PROVE  /\ Shaped(answer.data, x[2]) <=> Works(x[1], writes, x[2]) /\ ~ answer.failed
              /\ Shaped(answer.data, x[2]) => Holds(After(x[1], answer), x[2], Decoded(answer.data))
              /\ answer.failed \in BOOLEAN
  <2>1. answer.values = vals /\ answer.data = d /\ answer.failed = FALSE
    BY <1>10, <1>11
  <2>2. Shaped(d, p) => Holds(After(n, answer), p, Decoded(d))
    BY <1>3, <1>9, <1>11, <2>1 DEF Holds, ValueAt, v
  <2> QED BY <1>11, <2>1, <2>2 DEF n, p
<1>12. CASE answer = failed
  BY <1>6, <1>10, <1>12 DEF n, p
<1>13. CASE answer = refused /\ (~ through \/ variable = NULL)
  BY <1>5, <1>6, <1>11, <1>13 DEF refused
<1>14. CASE /\ through /\ variable # NULL /\ opcode = READ_PROPERTY
            /\ answer = answered(dev.values, Bytes(dev.values[variable], Width(row.type)))
  <2> DEFINE d == Bytes(dev.values[v], Width(p.type))
  <2>1. variable = v
    BY <1>1, <1>14 DEF variable
  <2>2. Shaped(d, p) /\ Decoded(d) = dev.values[v]
    BY <1>1, BytesDecoded
  <2>3. answer = answered(dev.values, d)
    BY <1>1, <1>14, <2>1
  <2> HIDE DEF d
  <2> QED BY <1>5, <1>11, <1>14, <2>2, <2>3
<1>15. CASE through /\ variable # NULL /\ opcode # READ_PROPERTY
  <2> DEFINE raw == RawOf(value, p.numbers)
  <2>1. variable = v
    BY <1>1, <1>15 DEF variable
  <2>2. data = Bytes(raw, Width(p.type)) /\ OfWidth(raw, Width(p.type))
    BY <1>15 DEF Requests, Encodable, p
  <2> HIDE DEF raw
  <2>3. Shaped(data, p) /\ Decoded(data) = raw
    BY <1>1, <2>2, BytesDecoded
  <2>4. Len(data) = Width(p.type)
    BY <2>3 DEF Shaped
  <2>5. answer = answered([dev.values EXCEPT ![v] = raw], data) \/ answer = failed
    BY <1>1, <1>8, <1>15, <2>1, <2>3, <2>4
  <2>6. [dev.values EXCEPT ![v] = raw][v] = raw
    BY <1>2
  <2> QED BY <1>5, <1>11, <1>12, <1>15, <2>3, <2>5, <2>6
<1> QED BY <1>8, <1>12, <1>13, <1>14, <1>15

-----------------------------------------------------------------------------
(* What the test server answers.                                         *)

\* Sixteen bits in two bytes are decoded as they were.
LEMMA PackedDecoded ==
  ASSUME NEW v \in Short
  PROVE  /\ Packed(v) # NoAnswer /\ Len(Packed(v)) = 2 /\ Decoded(Packed(v)) = v
         /\ \A p : Shaped(Packed(v), p) <=> p.type = "uint16"
<1>1. Len(Packed(v)) = 2 /\ Packed(v)[1] = v % 256 /\ Packed(v)[2] = v \div 256
  BY DEF Packed
<1>2. Packed(v) # NoAnswer
  BY DEF Packed, NoAnswer
<1>3. (v % 256) + 256 * (v \div 256) = v
  <2>1. v \in Int
    BY ShortRange
  <2> QED BY <2>1, SMT
<1>4. Decoded(Packed(v)) = v
  <2> DEFINE d == Packed(v)
             low == v % 256
             high == v \div 256
  <2>1. low \in Int /\ high \in Int
    <3>1. v \in Int
      BY ShortRange
    <3> QED BY <3>1, SMT
  <2>2. Decoded(d) = Digit(d, 1) + Digit(d, 2) + Digit(d, 3) + Digit(d, 4)
    BY DEF Decoded, Digit
  <2>3. Len(d) = 2 /\ d[1] = low /\ d[2] = high /\ low + 256 * high = v
    BY <1>1, <1>3
  <2> HIDE DEF d, low, high
  <2>4. /\ Digit(d, 1) = low * 1 /\ Digit(d, 2) = high * 256
        /\ Digit(d, 3) = 0 /\ Digit(d, 4) = 0
    BY <2>3, Weights, SMT DEF Digit
  <2>5. low * 1 + high * 256 + 0 + 0 = low + 256 * high
    BY <2>1, SMT
  <2> QED BY <2>2, <2>3, <2>4, <2>5 DEF d
<1>5. \A p : p.type \in UnsignedType /\ 2 = Width(p.type) <=> p.type = "uint16"
  BY WidthIs DEF UnsignedType
<1> QED BY <1>1, <1>2, <1>4, <1>5 DEF Shaped

\* The responses of the test server, as a client takes them.
LEMMA ServerResponses ==
  ASSUME NEW n \in NodeIds, NEW opcode \in {READ_PROPERTY, WRITE_PROPERTY},
         NEW index \in Indices
  PROVE  /\ \A vals, data :
              LET o == Answered(vals, Response(n, opcode, index, data))
              IN  o.values = vals /\ OpcodeOf(o.out[1].id) = opcode /\ o.out[1].data = data
         /\ \A vals, code :
              LET o == Refused(vals, n, opcode, index, code)
              IN  o.values = vals /\ OpcodeOf(o.out[1].id) # opcode
<1>1. opcode \in Codes /\ ERROR \in Codes /\ ERROR # opcode
  BY CodeRanges
<1>2. \A c \in Codes : \A data : /\ OpcodeOf(Response(n, c, index, data).id) = c
                                /\ Response(n, c, index, data).data = data
  <2> TAKE c \in Codes
  <2> TAKE data
  <2>1. Response(n, c, index, data).id = MakeId(DEVICE_TO_CLIENT, n, c, index)
    BY DEF Response, Message
  <2>2. OpcodeOf(Response(n, c, index, data).id) = c
    BY <2>1, ResponseFields
  <2> QED BY <2>2 DEF Response, Message
<1>3. \A vals, r : Answered(vals, r).values = vals /\ Answered(vals, r).out[1] = r
  BY DEF Answered
<1> QED BY <1>1, <1>2, <1>3 DEF Refused

\* What the server makes of a request for a property of an index a frame can
\* carry.
LEMMA Served ==
  ASSUME NEW blob, NEW values, NEW n, NEW opcode, NEW index, NEW data,
         IndexAllowed(opcode, index), NEW o \in Serve(blob, values, n, opcode, index, data)
  PROVE  LET told(vals) == Answered(vals, Response(n, opcode, index, Packed(vals[index])))
         IN  /\ opcode = READ_PROPERTY =>
                  IF Known(values, index) THEN o = told(values)
                  ELSE \E drawn \in Drawn : o = told(With(values, index, drawn))
             /\ opcode = WRITE_PROPERTY =>
                  IF Len(data) = 2 THEN o = told(With(values, index, Unpacked(data)))
                  ELSE o = Refused(values, n, opcode, index, INTERNAL_ERROR)
<1> DEFINE told(vals) == Answered(vals, Response(n, opcode, index, Packed(vals[index])))
<1>1. ASSUME opcode = READ_PROPERTY
      PROVE  o \in IF Known(values, index) THEN {told(values)}
                   ELSE {told(With(values, index, value)) : value \in Drawn}
  <2>1. opcode # READ_MANIFEST /\ opcode # WRITE_PROPERTY /\ opcode # ERROR
    BY <1>1, CodeRanges
  <2> QED BY <1>1, <2>1 DEF Serve
<1>2. ASSUME opcode = WRITE_PROPERTY
      PROVE  o \in IF Len(data) = 2 THEN {told(With(values, index, Unpacked(data)))}
                   ELSE {Refused(values, n, opcode, index, INTERNAL_ERROR)}
  <2>1. opcode # READ_MANIFEST /\ opcode # READ_PROPERTY /\ opcode # ERROR
    BY <1>2, CodeRanges
  <2> QED BY <1>2, <2>1 DEF Serve
<1> HIDE DEF told
<1>3. /\ opcode = READ_PROPERTY =>
           IF Known(values, index) THEN o = told(values)
           ELSE \E drawn \in Drawn : o = told(With(values, index, drawn))
      /\ opcode = WRITE_PROPERTY =>
           IF Len(data) = 2 THEN o = told(With(values, index, Unpacked(data)))
           ELSE o = Refused(values, n, opcode, index, INTERNAL_ERROR)
  BY <1>1, <1>2
<1> QED BY <1>3 DEF told

\* The test server has no application that could fail.
LEMMA ServerNeverFails ==
  ASSUME NEW n, IsServer(n), NEW msg, NEW answer \in Answers(n, msg)
  PROVE  answer.failed = FALSE
<1>1. PICK o \in Taken(n, msg) :
        answer = [values |-> o.values,
                  data |-> IF OpcodeOf(o.out[1].id) = OpcodeOf(msg.id) THEN o.out[1].data
                           ELSE NoAnswer,
                  failed |-> FALSE]
  BY DEF Answers
<1> QED BY <1>1

\* What the test server makes of a request: it tells the sixteen bits it
\* then has for the index, or refuses to keep fewer or more of them.
Tells(answer, opcode, index, data) ==
    IF opcode = WRITE_PROPERTY /\ Len(data) # 2 THEN answer.data = NoAnswer
    ELSE /\ Known(answer.values, index) /\ answer.values[index] \in Short
         /\ answer.data = Packed(answer.values[index])

LEMMA ServerTells ==
  ASSUME NEW n \in Ids, NodeOK(nodes[n]), IsServer(n),
         NEW opcode \in {READ_PROPERTY, WRITE_PROPERTY}, NEW index \in Nat,
         ClientCanMake(n, opcode, index), NEW data \in Seq(Byte),
         NEW msg, msg = Message(MakeId(CLIENT_TO_DEVICE, n, opcode, index), data),
         NEW answer \in Answers(n, msg)
  PROVE  Tells(answer, opcode, index, data)
<1> SUFFICES IF opcode = WRITE_PROPERTY /\ Len(data) # 2 THEN answer.data = NoAnswer
             ELSE /\ Known(answer.values, index) /\ answer.values[index] \in Short
                  /\ answer.data = Packed(answer.values[index])
  BY DEF Tells
<1>1. msg.id = MakeId(CLIENT_TO_DEVICE, n, opcode, index) /\ msg.data = data
  BY DEF Message
<1>2. n \in NodeIds
  BY DEF ClientCanMake
<1>3. /\ index \in Indices /\ IsDevprop(msg.id) /\ DirOf(msg.id) = CLIENT_TO_DEVICE
      /\ NodeOf(msg.id) = n /\ OpcodeOf(msg.id) = opcode /\ PropertyIndex(msg.id) = index
  BY <1>1, <1>2, RequestId
<1>4. opcode \in Opcode
  BY DEF Opcode
<1> DEFINE blob == nodes[n].payload
           values == nodes[n].values
<1>5. Stored(values)
  BY KindOfNode, NodeFields DEF IsServer
<1>6. Taken(n, msg) = Serve(blob, values, n, opcode, index, data)
  BY <1>1, <1>3, <1>4, Zenon DEF Taken, Take
<1>7. PICK o \in Serve(blob, values, n, opcode, index, data) :
        answer = [values |-> o.values,
                  data |-> IF OpcodeOf(o.out[1].id) = opcode THEN o.out[1].data ELSE NoAnswer,
                  failed |-> FALSE]
  <2>1. answer \in {[values |-> o.values,
                     data |-> IF OpcodeOf(o.out[1].id) = OpcodeOf(msg.id) THEN o.out[1].data
                              ELSE NoAnswer,
                     failed |-> FALSE] : o \in Taken(n, msg)}
    BY Zenon DEF Answers
  <2> QED BY <1>3, <1>6, <2>1, Zenon
<1> HIDE DEF blob, values
<1>8. answer.values = o.values
      /\ answer.data = IF OpcodeOf(o.out[1].id) = opcode THEN o.out[1].data ELSE NoAnswer
  BY <1>7
<1>9. IndexAllowed(opcode, index)
  BY DEF ClientCanMake
<1>10. ASSUME NEW vals, o = Answered(vals, Response(n, opcode, index, Packed(vals[index])))
       PROVE  answer.values = vals /\ answer.data = Packed(answer.values[index])
  BY <1>2, <1>3, <1>8, <1>10, ServerResponses
<1>11. CASE opcode = READ_PROPERTY
  <2>1. opcode # WRITE_PROPERTY
    BY <1>11, CodeRanges
  <2>2. CASE Known(values, index)
    <3>1. o = Answered(values, Response(n, opcode, index, Packed(values[index])))
      BY <1>7, <1>9, <1>11, <2>2, Served
    <3>2. values[index] \in Short
      BY <1>5, <2>2 DEF Stored, Known
    <3> QED BY <1>10, <2>1, <2>2, <3>1, <3>2
  <2>3. CASE ~ Known(values, index)
    <3>1. PICK drawn \in Drawn :
            o = Answered(With(values, index, drawn),
                         Response(n, opcode, index, Packed(With(values, index, drawn)[index])))
      BY <1>7, <1>9, <1>11, <2>3, Served
    <3>2. drawn \in Short
      BY Ranges
    <3>3. Known(With(values, index, drawn), index) /\ With(values, index, drawn)[index] = drawn
      BY <1>3, <1>5, <3>2, WithStored
    <3> QED BY <1>10, <2>1, <3>1, <3>2, <3>3
  <2> QED BY <2>2, <2>3
<1>12. CASE opcode = WRITE_PROPERTY /\ Len(data) = 2
  <2> DEFINE new == Unpacked(data)
  <2>1. o = Answered(With(values, index, new),
                     Response(n, opcode, index, Packed(With(values, index, new)[index])))
    BY <1>7, <1>9, <1>12, Served
  <2>2. new \in Short
    BY <1>12, UnpackedRange
  <2> HIDE DEF new
  <2>3. Known(With(values, index, new), index) /\ With(values, index, new)[index] = new
    BY <1>3, <1>5, <2>2, WithStored
  <2> QED BY <1>10, <1>12, <2>1, <2>2, <2>3
<1>13. CASE opcode = WRITE_PROPERTY /\ Len(data) # 2
  <2>1. o = Refused(values, n, opcode, index, INTERNAL_ERROR)
    BY <1>7, <1>9, <1>13, Served
  <2>2. OpcodeOf(o.out[1].id) # opcode
    BY <1>2, <1>3, <2>1, ServerResponses
  <2> QED BY <1>8, <1>13, <2>2
<1> QED BY <1>11, <1>12, <1>13

\* The test server answers requests for properties of sixteen bits, with
\* what it then has at the index.
LEMMA ServerAnswersRequests ==
  ASSUME NEW n \in Ids, NodeOK(nodes[n]), IsServer(n), NEW p, p.index \in Nat,
         NEW writes \in BOOLEAN, NEW value,
         NEW opcode, NEW data, Requests(p, writes, value, opcode, data),
         ClientCanMake(n, opcode, p.index),
         NEW msg, msg = Message(MakeId(CLIENT_TO_DEVICE, n, opcode, p.index), data),
         NEW answer \in Answers(n, msg)
  PROVE  /\ Shaped(answer.data, p) <=> Works(n, writes, p) /\ ~ answer.failed
         /\ Shaped(answer.data, p) => Holds(After(n, answer), p, Decoded(answer.data))
         /\ answer.failed \in BOOLEAN
<1>1. Works(n, writes, p) <=> p.type = "uint16"
  BY DEF Works
<1>2. opcode \in {READ_PROPERTY, WRITE_PROPERTY} /\ data \in Seq(Byte)
  <2>1. CASE writes
    BY <2>1, BytesDecoded DEF Requests, Encodable
  <2>2. CASE ~ writes
    BY <2>2, EmptySeq DEF Requests
  <2> QED BY <2>1, <2>2
<1> DEFINE index == p.index
<1>0. Tells(answer, opcode, index, data) /\ answer.failed = FALSE
  <2>1. index \in Nat /\ ClientCanMake(n, opcode, index)
        /\ msg = Message(MakeId(CLIENT_TO_DEVICE, n, opcode, index), data)
    OBVIOUS
  <2> HIDE DEF index
  <2>2. answer.failed = FALSE
    BY ServerNeverFails
  <2>3. opcode \in {READ_PROPERTY, WRITE_PROPERTY}
    BY <1>2
  <2>4. data \in Seq(Byte)
    BY <1>2
  <2>5. Tells(answer, opcode, index, data)
    BY <2>1, <2>3, <2>4, ServerTells, ZenonT(30)
  <2> QED BY <2>2, <2>5
<1> HIDE DEF index
<1>3. After(n, answer).kind = "server" /\ After(n, answer).values = answer.values
  <2>1. PICK payload : IsServerOf(nodes[n], payload)
    BY KindOfNode DEF IsServer
  <2>2. PICK size, vals : nodes[n] = ServerNode(payload, size, vals)
    BY <2>1 DEF IsServerOf
  <2> QED BY <2>2 DEF After, ServerNode
<1>4. CASE opcode = WRITE_PROPERTY /\ Len(data) # 2
  <2>1. answer.data = NoAnswer /\ answer.failed = FALSE
    BY <1>0, <1>4 DEF Tells
  <2>2. writes
    BY <1>4, CodeRanges DEF Requests
  <2>3. /\ p.type \in UnsignedType /\ data = Bytes(RawOf(value, p.numbers), Width(p.type))
        /\ OfWidth(RawOf(value, p.numbers), Width(p.type))
    BY <2>2 DEF Requests, Encodable
  <2>4. Len(data) = Width(p.type)
    BY <2>3, BytesDecoded DEF Shaped
  <2>5. p.type # "uint16"
    BY <1>4, <2>3, <2>4, WidthIs
  <2> QED BY <1>1, <2>1, <2>5 DEF Shaped
<1>5. CASE ~ (opcode = WRITE_PROPERTY /\ Len(data) # 2)
  <2> DEFINE v == answer.values[index]
  <2>1. /\ Known(answer.values, index) /\ v \in Short /\ answer.data = Packed(v)
        /\ answer.failed = FALSE
    BY <1>0, <1>5 DEF Tells
  <2> HIDE DEF v
  <2>2. Decoded(answer.data) = v /\ (Shaped(answer.data, p) <=> p.type = "uint16")
    BY <2>1, PackedDecoded
  <2>3. Holds(After(n, answer), p, Decoded(answer.data))
    BY <1>3, <2>1, <2>2 DEF Holds, ValueAt, v, index
  <2> QED BY <1>1, <2>1, <2>2, <2>3
<1> QED BY <1>4, <1>5

-----------------------------------------------------------------------------
(* What the commands print, and when.                                    *)

\* How a response ends a command: what is decoded is what the node has sent.
LEMMA EndedIs ==
  ASSUME NEW n, NEW p, NEW answer, answer.failed \in BOOLEAN, answer.failed => ~ Shaped(answer.data, p),
         NEW lost \in BOOLEAN, NEW e, e = Ended(n, p, answer, lost)
  PROVE  /\ e.how = "ok" <=> ~ lost /\ Decodable(answer.data, p)
         /\ e.how = "ok" => e.value = Decoded(answer.data)
         /\ e.fault <=> lost \/ answer.failed
<1> DEFINE then == [nodes EXCEPT ![n].values = answer.values]
<1>1. e = IF lost \/ ~ Decodable(answer.data, p)
          THEN [Raised(lost \/ answer.failed) EXCEPT !.nodes = then]
          ELSE [nodes |-> then, how |-> "ok", fault |-> FALSE, value |-> Decoded(answer.data)]
  BY Zenon DEF Ended
<1> HIDE DEF then
<1>2. CASE ~ lost /\ Decodable(answer.data, p)
  <2>1. e = [nodes |-> then, how |-> "ok", fault |-> FALSE, value |-> Decoded(answer.data)]
    BY <1>1, <1>2
  <2>2. e.how = "ok" /\ e.value = Decoded(answer.data) /\ e.fault = FALSE
    BY <2>1
  <2>3. ~ answer.failed
    BY <1>2 DEF Decodable, Shaped
  <2> QED BY <1>2, <2>2, <2>3
<1>3. CASE lost \/ ~ Decodable(answer.data, p)
  <2> DEFINE fault == lost \/ answer.failed
  <2>1. e = [nodes |-> then, how |-> "raised", fault |-> fault]
    BY <1>1, <1>3 DEF Raised
  <2> HIDE DEF fault
  <2>2. e.how = "raised" /\ e.fault = fault
    BY <2>1
  <2>3. e.how # "ok"
    BY <2>2
  <2> QED BY <1>3, <2>2, <2>3, Zenon DEF fault
<1> QED BY <1>2, <1>3

\* The nodes a command leaves behind it.
LEMMA EndedNodes ==
  ASSUME NEW f, nodes = f, NodesOK(f), NEW n \in Ids, NEW p, NEW answer, NEW lost \in BOOLEAN
  PROVE  Ended(n, p, answer, lost).nodes[n] = After(n, answer)
<1> DEFINE then == [nodes EXCEPT ![n].values = answer.values]
<1>1. nodes = [m \in Ids |-> nodes[m]]
  BY DEF NodesOK
<1>2. then[n] = After(n, answer)
  BY <1>1 DEF After
<1> HIDE DEF then
<1>3. Ended(n, p, answer, lost).nodes = then
  BY DEF Ended, Raised, then
<1> QED BY <1>2, <1>3

\* An outcome of a command about the property x[2] of node x[1]: that it
\* succeeds when it may, and that what it prints is so.
Fair(outcome, x, writes, value) ==
  Plain(x[1]) => (outcome.how = "ok" <=>
                    /\ ~ outcome.fault
                    /\ Permitted(x[1], writes, x[2], value, outcome.nodes[x[1]]))

Truthful(outcome, x) ==
  Plain(x[1]) /\ outcome.how = "ok" => Holds(outcome.nodes[x[1]], x[2], outcome.value)

\* What comes of a request for a property that a user can mean.
LEMMA ExchangedIs ==
  ASSUME NEW f, nodes = f, NodesOK(f), NEW device, NEW name, NEW x \in Meant(device, name),
         Plain(x[1]), NEW writes \in BOOLEAN, NEW value, NEW opcode, NEW data,
         Requests(x[2], writes, value, opcode, data),
         NEW outcome \in Exchanged(x[1], x[2], opcode, data)
  PROVE  /\ outcome.how = "ok" <=>
              ~ outcome.fault /\ Permitted(x[1], writes, x[2], value, outcome.nodes[x[1]])
         /\ outcome.how = "ok" => Holds(outcome.nodes[x[1]], x[2], outcome.value)
<1> DEFINE n == x[1]
           p == x[2]
           id == MakeId(CLIENT_TO_DEVICE, n, opcode, p.index)
           msg == Message(id, data)
<1>1. \A fault : Raised(fault).how # "ok" /\ Raised(fault).fault = fault
  BY DEF Raised
<1>2. /\ n \in Ids /\ nodes[n].kind # "none" /\ p.index \in Nat /\ 1 <= p.index
      /\ NodeOK(nodes[n])
  BY MeantIs DEF NodesOK
<1>3. opcode \in {READ_PROPERTY, WRITE_PROPERTY} /\ data \in Seq(Byte)
  <2>1. CASE writes
    BY <2>1, BytesDecoded DEF Requests, Encodable
  <2>2. CASE ~ writes
    BY <2>2, EmptySeq DEF Requests
  <2> QED BY <2>1, <2>2
<1>4. ClientCanMake(n, opcode, p.index) <=> p.index <= MAX_PROPERTY_INDEX
  <2>1. \A k \in 0..30 : k \in 0..31
    BY SMT
  <2>2. n \in NodeIds
    BY <1>2, <2>1, ToolchainAssumption DEF NodeIds
  <2>3. p.index >= 1
    BY <1>2, SMT
  <2> HIDE DEF n, p
  <2> QED BY <1>3, <2>2, <2>3 DEF ClientCanMake, IndexAllowed
<1>5. \A after : Permitted(n, writes, p, value, after) <=>
                  /\ p.index <= MAX_PROPERTY_INDEX /\ Works(n, writes, p)
                  /\ Decodes(ValueAt(after, p), p.numbers)
  <2>1. writes => Encodable(value, p)
    BY DEF Requests
  <2> HIDE DEF n, p
  <2> QED BY <2>1 DEF Permitted, Works
<1>6. CASE ~ ClientCanMake(n, opcode, p.index)
  <2>1. outcome = Raised(FALSE)
    BY <1>6 DEF Exchanged
  <2> QED BY <1>1, <1>4, <1>5, <1>6, <2>1
<1>7. CASE ClientCanMake(n, opcode, p.index)
  <2>1. \A after : Permitted(n, writes, p, value, after) <=>
                    Works(n, writes, p) /\ Decodes(ValueAt(after, p), p.numbers)
    BY <1>4, <1>5, <1>7
  <2>2. CASE outcome = Raised(TRUE)
    BY <1>1, <2>2
  <2>3. ASSUME NEW lost \in BOOLEAN, NEW answer \in Answers(n, msg),
               outcome = Ended(n, p, answer, lost)
        PROVE  /\ outcome.how = "ok" <=>
                    ~ outcome.fault /\ Permitted(n, writes, p, value, outcome.nodes[n])
               /\ outcome.how = "ok" => Holds(outcome.nodes[n], p, outcome.value)
    <3>1. /\ Shaped(answer.data, p) <=> Works(n, writes, p) /\ ~ answer.failed
          /\ Shaped(answer.data, p) => Holds(After(n, answer), p, Decoded(answer.data))
          /\ answer.failed \in BOOLEAN
      <4>1. CASE IsServer(n)
        <5>1. msg = Message(MakeId(CLIENT_TO_DEVICE, n, opcode, p.index), data)
          OBVIOUS
        <5> HIDE DEF n, p, msg
        <5>2. Requests(p, writes, value, opcode, data)
          BY DEF p
        <5> QED BY <1>2, <1>7, <2>3, <4>1, <5>1, <5>2, ServerAnswersRequests
      <4>2. CASE ~ IsServer(n)
        <5>1. nodes[n].kind = "c" /\ PlainManifest(nodes[n].manifest)
          BY <1>2, <4>2, KindOfNode DEF Plain, IsServer
        <5>2. msg.id = id /\ msg.data = data
          BY DEF Message
        <5>3. OpcodeOf(msg.id) = opcode /\ PropertyIndex(msg.id) = p.index
          <6>1. n \in NodeIds
            BY <1>7 DEF ClientCanMake
          <6>2. id = MakeId(CLIENT_TO_DEVICE, n, opcode, p.index)
            OBVIOUS
          <6> HIDE DEF n, p, id, msg
          <6> QED BY <1>2, <1>3, <1>7, <5>2, <6>1, <6>2, RequestId
        <5> HIDE DEF msg, id
        <5> QED BY <2>3, <5>1, <5>2, <5>3, DeviceAnswers
      <4> QED BY <4>1, <4>2
    <3> HIDE DEF n, p, msg
    <3>2. /\ outcome.how = "ok" <=> ~ lost /\ Decodable(answer.data, p)
          /\ outcome.how = "ok" => outcome.value = Decoded(answer.data)
          /\ outcome.fault <=> lost \/ answer.failed
      BY <2>3, <3>1, EndedIs
    <3>3. outcome.nodes[n] = After(n, answer)
      BY <1>2, <2>3, EndedNodes
    <3>4. Decodable(answer.data, p) <=>
            Shaped(answer.data, p) /\ Decodes(Decoded(answer.data), p.numbers)
      BY DEF Decodable, Shaped
    <3>5. Shaped(answer.data, p) => ValueAt(After(n, answer), p) = Decoded(answer.data)
      BY <3>1 DEF Holds
    <3> QED BY <2>1, <3>1, <3>2, <3>3, <3>4, <3>5
  <2>4. \/ outcome = Raised(TRUE)
        \/ \E lost \in BOOLEAN, answer \in Answers(n, msg) : outcome = Ended(n, p, answer, lost)
    <3> DEFINE ends == UNION {{Ended(n, p, answer, lost) : lost \in BOOLEAN} :
                                answer \in Answers(n, msg)}
    <3>1. outcome \in {Raised(TRUE)} \cup ends
      BY <1>7 DEF Exchanged
    <3> HIDE DEF ends
    <3>2. outcome \in ends =>
            \E lost \in BOOLEAN, answer \in Answers(n, msg) : outcome = Ended(n, p, answer, lost)
      <4> HIDE DEF n, p, msg
      <4> QED BY DEF ends
    <3> QED BY <3>1, <3>2
  <2> QED BY <2>2, <2>3, <2>4
<1> QED BY <1>6, <1>7

\* What may come of getprop, or of setprop.
Outcomes(device, name, writes, value) ==
  IF writes THEN Set(device, name, value) ELSE Got(device, name)

\* What comes of a command: it is about one property or raises.
LEMMA CommandIs ==
  ASSUME NEW f, nodes = f, NodesOK(f), NEW device, NEW name, NEW writes \in BOOLEAN,
         NEW value, NEW outcome \in Outcomes(device, name, writes, value)
  PROVE  \/ ~ FoundOne(device, name) /\ outcome.how # "ok"
         \/ /\ FoundOne(device, name)
            /\ \E x : /\ Meant(device, name) = {x} /\ x[1] \in NodesNamed(device)
                      /\ Fair(outcome, x, writes, value) /\ Truthful(outcome, x)
<1>1. \A fault : Raised(fault).how # "ok" /\ Raised(fault).fault = fault
  BY DEF Raised
<1>2. CASE ~ FoundOne(device, name)
  BY <1>1, <1>2 DEF Outcomes, Got, Set
<1>3. CASE FoundOne(device, name)
  <2>1. PICK x : Meant(device, name) = {x}
    BY <1>3 DEF FoundOne, OneIn
  <2>2. x \in Meant(device, name)
    BY <2>1
  <2>3. x[1] \in NodesNamed(device) /\ x[1] \in Ids /\ nodes[x[1]].kind # "none"
    BY <2>2, MeantIs
  <2>4. ASSUME Plain(x[1])
        PROVE  /\ outcome.how = "ok" <=>
                    ~ outcome.fault /\ Permitted(x[1], writes, x[2], value, outcome.nodes[x[1]])
               /\ outcome.how = "ok" => Holds(outcome.nodes[x[1]], x[2], outcome.value)
    <3>1. CASE ~ writes
      <4>1. outcome \in Exchanged(x[1], x[2], READ_PROPERTY, << >>)
        BY <1>3, <2>1, <3>1 DEF Outcomes, Got
      <4>2. Requests(x[2], writes, value, READ_PROPERTY, << >>)
        BY <3>1 DEF Requests
      <4> QED BY <2>2, <2>4, <4>1, <4>2, ExchangedIs
    <3>2. CASE writes /\ Encodable(value, x[2])
      <4> DEFINE data == Bytes(RawOf(value, x[2].numbers), Width(x[2].type))
      <4>1. outcome \in Exchanged(x[1], x[2], WRITE_PROPERTY, data)
        BY <1>3, <2>1, <3>2 DEF Outcomes, Set
      <4>2. Requests(x[2], writes, value, WRITE_PROPERTY, data)
        BY <3>2 DEF Requests
      <4> HIDE DEF data
      <4> QED BY <2>2, <2>4, <4>1, <4>2, ExchangedIs
    <3>3. CASE writes /\ ~ Encodable(value, x[2])
      <4>1. outcome = Raised(FALSE)
        BY <1>3, <2>1, <3>3 DEF Outcomes, Set
      <4>2. \A after : ~ Permitted(x[1], writes, x[2], value, after)
        BY <3>3 DEF Permitted
      <4> QED BY <1>1, <4>1, <4>2
    <3> QED BY <3>1, <3>2, <3>3
  <2> QED BY <1>3, <2>1, <2>3, <2>4 DEF Fair, Truthful
<1> QED BY <1>2, <1>3

\* No command ever prints anything else than what each property it can be
\* about has: for any manifests, names, values and ids.
THEOREM PrintedValuesAreTrue == Spec => []PrintedIsTrue
<1>1. Inv => PrintedIsTrue
  <2> SUFFICES ASSUME Inv, NEW names \in Names,
                      NEW outcome \in Got(names[1], names[2])
                            \cup UNION {Set(names[1], names[2], value) : value \in Values},
                      outcome.how = "ok",
                      NEW x \in Meant(names[1], names[2]), Plain(x[1])
               PROVE  Holds(outcome.nodes[x[1]], x[2], outcome.value)
    BY DEF PrintedIsTrue
  <2>1. PICK f : nodes = f /\ NodesOK(f)
    BY DEF Inv
  <2>2. PICK writes \in BOOLEAN : \E value : outcome \in Outcomes(names[1], names[2], writes, value)
    <3>1. outcome \in Got(names[1], names[2]) => outcome \in Outcomes(names[1], names[2], FALSE, 0)
      BY DEF Outcomes
    <3>2. \A value : outcome \in Set(names[1], names[2], value) =>
                      outcome \in Outcomes(names[1], names[2], TRUE, value)
      BY DEF Outcomes
    <3> QED BY <3>1, <3>2
  <2>3. PICK y : /\ Meant(names[1], names[2]) = {y}
                 /\ Truthful(outcome, y)
    BY <2>1, <2>2, CommandIs
  <2> QED BY <2>3 DEF Truthful
<1> QED BY InitInv, NextInv, <1>1, PTL DEF Spec

\* A command succeeds whenever it may, nothing is lost and no callback fails,
\* and never otherwise: for any manifests, table and envelope lengths, values
\* and ways to encode them.
THEOREM CommandsSucceedWhenPermitted == Spec => []SucceedsExactlyWhenPermitted
<1>1. Inv => SucceedsExactlyWhenPermitted
  <2> SUFFICES ASSUME Inv, NEW names \in Names, NEW writes \in BOOLEAN, NEW value \in Values,
                      NEW outcome \in IF writes THEN Set(names[1], names[2], value)
                                      ELSE Got(names[1], names[2]),
                      \A n \in NodesNamed(names[1]) : Plain(n)
               PROVE  outcome.how = "ok" <=>
                        /\ ~ outcome.fault
                        /\ FoundOne(names[1], names[2])
                        /\ \A x \in Meant(names[1], names[2]) :
                             Permitted(x[1], writes, x[2], value, outcome.nodes[x[1]])
    BY DEF SucceedsExactlyWhenPermitted
  <2>1. PICK f : nodes = f /\ NodesOK(f)
    BY DEF Inv
  <2>2. \/ ~ FoundOne(names[1], names[2]) /\ outcome.how # "ok"
        \/ /\ FoundOne(names[1], names[2])
           /\ \E x : /\ Meant(names[1], names[2]) = {x} /\ x[1] \in NodesNamed(names[1])
                     /\ Fair(outcome, x, writes, value)
    <3>1. outcome \in Outcomes(names[1], names[2], writes, value)
      BY DEF Outcomes
    <3> QED BY <2>1, <3>1, CommandIs
  <2> QED BY <2>2 DEF Fair
<1> QED BY InitInv, NextInv, <1>1, PTL DEF Spec
=============================================================================
