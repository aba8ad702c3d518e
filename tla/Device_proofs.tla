--------------------------- MODULE Device_proofs ---------------------------
(***************************************************************************)
(* A device implements DeviceContract: for any table, any manifest, any    *)
(* application, and whatever frames arrive.  What it sends for one of them *)
(* is at most one frame a CAN controller can take.                         *)
(***************************************************************************)
EXTENDS Device, SequenceTheorems, TLAPS

-----------------------------------------------------------------------------
(* Identifiers: facts about their layout, for every field value.           *)

(* The fields of an identifier put together from fields are those fields:  *)
(* unpack_id after make_frame_id, dp_handle_message_ext after dpp_make_id. *)
LEMMA UnpackMake ==
  ASSUME NEW dir \in Dirs, NEW node \in NodeIds, NEW opcode \in Codes,
         NEW index \in Indices
  PROVE  LET id == MakeId(dir, node, opcode, index)
         IN  /\ id \in Nat /\ IsDevprop(id) /\ DirOf(id) = dir
             /\ NodeOf(id) = node /\ OpcodeOf(id) = opcode
             /\ PropertyIndex(id) = index
<1> DEFINE id == MakeId(dir, node, opcode, index)
<1>1. /\ dir \in Int /\ 0 <= dir /\ dir <= 1 /\ node \in Int /\ 0 <= node /\ node <= 31
      /\ opcode \in Int /\ 0 <= opcode /\ opcode <= 7
      /\ index \in Int /\ 0 <= index /\ index <= 255
  BY SMT DEF Dirs, NodeIds, Codes, Indices
<1>2. id = 3960 * 131072 + dir * 65536 + node * 2048 + opcode * 256 + index
  BY <1>1, SMT DEF MakeId, ID_FIXED_PART
<1> HIDE DEF id
<1>3. id \in Nat /\ IsDevprop(id)
  BY <1>1, <1>2, SMT DEF IsDevprop
<1>4. DirOf(id) = dir /\ NodeOf(id) = node
  BY <1>1, <1>2, SMT DEF DirOf, NodeOf
<1>5. OpcodeOf(id) = opcode /\ PropertyIndex(id) = index
  BY <1>1, <1>2, SMT DEF OpcodeOf, PropertyIndex
<1> QED
  BY <1>3, <1>4, <1>5 DEF id

(* An identifier of 29 bits with the fixed part is put together from its   *)
(* fields.                                                                 *)
LEMMA Repack ==
  ASSUME NEW id, id \in Identifiers, IsDevprop(id)
  PROVE  /\ DirOf(id) \in Dirs /\ NodeOf(id) \in NodeIds
         /\ OpcodeOf(id) \in Codes /\ PropertyIndex(id) \in Indices
         /\ id = MakeId(DirOf(id), NodeOf(id), OpcodeOf(id), PropertyIndex(id))
<1>0. id \in Int /\ 0 <= id /\ id < 536870912
  BY SMT DEF Identifiers
<1>1. id \div 131072 = 3960
  BY <1>0, SMT DEF IsDevprop
<1>2. /\ DirOf(id) \in Dirs /\ NodeOf(id) \in NodeIds
      /\ OpcodeOf(id) \in Codes /\ PropertyIndex(id) \in Indices
  BY <1>0, SMT DEF DirOf, NodeOf, OpcodeOf, PropertyIndex, Dirs, NodeIds, Codes, Indices
<1>3. id = MakeId(DirOf(id), NodeOf(id), OpcodeOf(id), PropertyIndex(id))
  BY <1>0, <1>1, SMT DEF MakeId, ID_FIXED_PART, DirOf, NodeOf, OpcodeOf, PropertyIndex
<1> QED
  BY <1>2, <1>3

(* The id ^ DIR_MASK of a request is the identifier of its response: the   *)
(* same node, operation and index, the other direction.                    *)
LEMMA FlipMake ==
  ASSUME NEW node \in NodeIds, NEW opcode \in Codes, NEW index \in Indices
  PROVE  FlipDir(MakeId(CLIENT_TO_DEVICE, node, opcode, index))
           = MakeId(DEVICE_TO_CLIENT, node, opcode, index)
<1>1. CLIENT_TO_DEVICE \in Dirs
  BY SMT DEF Dirs, CLIENT_TO_DEVICE
<1>2. DirOf(MakeId(CLIENT_TO_DEVICE, node, opcode, index)) = CLIENT_TO_DEVICE
  BY <1>1, UnpackMake
<1> QED
  BY <1>2, SMT DEF FlipDir, MakeId, ID_FIXED_PART, NodeIds, Codes, Indices,
                   CLIENT_TO_DEVICE, DEVICE_TO_CLIENT

(* The constants of the format are fields it can carry.                    *)
LEMMA FieldRanges ==
  /\ CLIENT_TO_DEVICE \in Dirs /\ DEVICE_TO_CLIENT \in Dirs
  /\ CLIENT_TO_DEVICE # DEVICE_TO_CLIENT
  /\ READ_PROPERTY \in Codes /\ WRITE_PROPERTY \in Codes
  /\ READ_MANIFEST \in Codes /\ ERROR \in Codes
  /\ READ_MANIFEST \notin {READ_PROPERTY, WRITE_PROPERTY, ERROR}
  /\ READ_PROPERTY \notin {WRITE_PROPERTY, ERROR} /\ WRITE_PROPERTY # ERROR
BY SMT DEF CLIENT_TO_DEVICE, DEVICE_TO_CLIENT, READ_PROPERTY, WRITE_PROPERTY,
           READ_MANIFEST, ERROR, Dirs, Codes

-----------------------------------------------------------------------------
(* Values.                                                                 *)

LEMMA QuotientType ==
  ASSUME NEW a \in Nat, NEW b \in Nat \ {0}
  PROVE  a \div b \in Nat
BY SMT

LEMMA WeightType == Weight \in [1..4 -> Nat \ {0}]
<1>1. /\ Base \in Nat \ {0}
      /\ Base * Base \in Nat \ {0}
      /\ Base * Base * Base \in Nat \ {0}
  BY DeviceAssumption, SMT
<1> QED
  BY <1>1, SMT DEF Weight

(* The bytes of a value are bytes, as many as the type has.                *)
LEMMA BytesType ==
  ASSUME NEW v \in Nat, NEW size \in 0..4
  PROVE  Bytes(v, size) \in Seq(Nat) /\ Len(Bytes(v, size)) = size
<1>1. Base \in Nat \ {0}
  BY DeviceAssumption, SMT
<1>2. ASSUME NEW i \in 1..size
      PROVE  (v \div Weight[i]) % Base \in Nat
  <2>1. Weight[i] \in Nat \ {0}
    BY WeightType, SMT
  <2>2. v \div Weight[i] \in Nat
    BY <2>1, QuotientType
  <2> QED
    BY <1>1, <2>2, SMT
<1>3. Bytes(v, size) \in [1..size -> Nat]
  BY <1>2 DEF Bytes
<1> QED
  BY <1>3, SMT

(* Bytes are numbers.                                                      *)
LEMMA BytesAreNumbers ==
  ASSUME NEW data \in Seq(0..Base - 1)
  PROVE  data \in Seq(Nat)
<1>1. Len(data) \in Nat /\ DOMAIN data = 1..Len(data)
  BY LenProperties
<1>2. \A i \in 1..Len(data) : data[i] \in 0..Base - 1
  BY ElementOfSeq
<1>3. \A b \in 0..Base - 1 : b \in Nat
  BY SMT
<1>4. data \in [1..Len(data) -> Nat]
  BY <1>1, <1>2, <1>3, LenProperties
<1> QED
  BY <1>1, <1>4, SMT

(* A payload stands for a number.                                          *)
LEMMA ValueType ==
  ASSUME NEW data \in Seq(Nat)
  PROVE  Value(data) \in Nat
<1> DEFINE digit(i) == IF i <= Len(data) THEN data[i] * Weight[i] ELSE 0
<1>1. ASSUME NEW i \in 1..4 PROVE digit(i) \in Nat
  <2>1. Weight[i] \in Nat
    BY WeightType
  <2>2. ASSUME i <= Len(data) PROVE data[i] \in Nat
    BY <2>2, ElementOfSeq, SMT
  <2>3. ASSUME NEW a \in Nat, NEW b \in Nat PROVE a * b \in Nat
    BY SMT
  <2>4. CASE i <= Len(data)
    BY <2>1, <2>2, <2>3, <2>4
  <2>5. CASE ~ (i <= Len(data))
    BY <2>5, SMT
  <2> QED
    BY <2>4, <2>5
<1>2. digit(1) \in Nat /\ digit(2) \in Nat /\ digit(3) \in Nat /\ digit(4) \in Nat
  BY <1>1, SMT
<1>3. Value(data) = digit(1) + digit(2) + digit(3) + digit(4)
  BY DEF Value
<1> HIDE DEF digit
<1> QED
  BY <1>2, <1>3, SMT

(* A byte more puts a number below a bound times the values of a byte.     *)
LEMMA OneByteMore ==
  ASSUME NEW a \in Nat, NEW w \in Nat, a < w, NEW b \in 0..Base - 1
  PROVE  a + b * w < w * Base
<1>1. Base \in Nat /\ b \in Nat /\ b + 1 <= Base
  BY DeviceAssumption, SMT
<1>2. \A x, y, z \in Nat : x + 1 <= y => (x + 1) * z <= y * z
  BY SMT
<1>3. (b + 1) * w <= Base * w
  BY <1>1, <1>2
<1>4. (b + 1) * w = b * w + w /\ Base * w = w * Base /\ b * w \in Nat /\ w * Base \in Nat
  BY <1>1, SMT
<1> QED
  BY <1>3, <1>4, SMT

(* Bytes, as many as the type has, stand for a value of that type: the     *)
(* shifts and ors of set_property_value.                                   *)
LEMMA ValueFits ==
  ASSUME NEW data \in Seq(0..Base - 1), NEW size \in {1, 2, 4}, Len(data) = size
  PROVE  Value(data) < Weight[size] * Base
<1> DEFINE digit(i) == IF i <= Len(data) THEN data[i] * Weight[i] ELSE 0
           w2 == Base
           w3 == Base * Base
           w4 == Base * Base * Base
<1>1. Base \in Nat /\ 0 < Base
  BY DeviceAssumption, SMT
<1>2. /\ Weight[1] = 1 /\ Weight[2] = w2 /\ Weight[3] = w3 /\ Weight[4] = w4
      /\ w3 = w2 * Base /\ w4 = w3 * Base
  BY DEF Weight
<1>3. w2 \in Nat /\ w3 \in Nat /\ w4 \in Nat
  BY WeightType, <1>2, SMT
<1>4. \A i \in 1..Len(data) : data[i] \in 0..Base - 1
  BY ElementOfSeq
<1>5. Value(data) = digit(1) + digit(2) + digit(3) + digit(4)
  BY DEF Value
<1>6. \A i \in 1..4 : digit(i) = IF i <= size THEN data[i] * Weight[i] ELSE 0
  OBVIOUS
<1>7. data[1] \in 0..Base - 1 /\ digit(1) = data[1]
  <2>1. 1 \in 1..Len(data) /\ 1 \in 1..4 /\ 1 <= size
    BY SMT
  <2>2. data[1] \in 0..Base - 1
    BY <1>4, <2>1
  <2>3. digit(1) = data[1] * 1
    BY <1>2, <1>6, <2>1
  <2> HIDE DEF digit
  <2> QED
    BY <1>1, <2>2, <2>3, SMT
<1>8. CASE size = 1
  <2>1. digit(2) = 0 /\ digit(3) = 0 /\ digit(4) = 0
    BY <1>6, <1>8, SMT
  <2> HIDE DEF digit
  <2> QED
    BY <1>1, <1>2, <1>5, <1>7, <1>8, <2>1, SMT
<1>9. CASE size # 1
  <2>1. 2 \in 1..Len(data) /\ 2 \in 1..4 /\ 2 <= size
    BY <1>9, SMT
  <2>2. data[2] \in 0..Base - 1 /\ digit(2) = data[2] * w2
    BY <1>2, <1>4, <1>6, <2>1
  <2>3. digit(1) \in Nat /\ digit(1) < w2
    <3> HIDE DEF digit
    <3> QED
      BY <1>1, <1>7, SMT
  <2>4. data[2] * w2 \in Nat
    BY <1>3, <2>2, <1>1, SMT
  <2>5. digit(1) + digit(2) < w2 * Base
    <3> HIDE DEF digit, w2
    <3> QED
      BY <1>3, <2>2, <2>3, OneByteMore
  <2>6. CASE size = 2
    <3>1. digit(3) = 0 /\ digit(4) = 0
      BY <1>6, <2>6, SMT
    <3>2. digit(1) \in Nat /\ digit(2) \in Nat
      BY <2>2, <2>3, <2>4
    <3> HIDE DEF digit, w2, w3, w4
    <3> QED
      BY <1>2, <1>5, <2>5, <2>6, <3>1, <3>2, SMT
  <2>7. CASE size = 4
    <3>1. /\ 3 \in 1..Len(data) /\ 3 \in 1..4 /\ 3 <= size
          /\ 4 \in 1..Len(data) /\ 4 \in 1..4 /\ 4 <= size
      BY <2>7, SMT
    <3>2. /\ data[3] \in 0..Base - 1 /\ digit(3) = data[3] * w3
          /\ data[4] \in 0..Base - 1 /\ digit(4) = data[4] * w4
      BY <1>2, <1>4, <1>6, <3>1
    <3>3. data[3] \in Nat /\ data[4] \in Nat
      BY <1>1, <3>2, SMT
    <3>4. data[3] * w3 \in Nat /\ data[4] * w4 \in Nat
      <4> HIDE DEF w3, w4
      <4> QED
        BY <1>3, <3>3, SMT
    <3>5. digit(1) \in Nat /\ digit(2) \in Nat /\ digit(3) \in Nat /\ digit(4) \in Nat
      BY <2>2, <2>3, <2>4, <3>2, <3>4
    <3>6. digit(1) + digit(2) < w3
      BY <1>2, <2>5
    <3> HIDE DEF digit, w2, w3, w4
    <3> DEFINE low2 == digit(1) + digit(2)
               low3 == low2 + digit(3)
    <3>7. low2 \in Nat /\ low3 \in Nat
      BY <3>5, SMT
    <3>8. low2 + data[3] * w3 < w3 * Base
      <4>1. low2 < w3
        BY <3>6
      <4> HIDE DEF low2, low3
      <4> QED
        BY <1>3, <3>2, <3>7, <4>1, OneByteMore
    <3>9. low3 < w4
      BY <1>2, <3>2, <3>8
    <3>10. low3 + data[4] * w4 < w4 * Base
      <4> HIDE DEF low2, low3
      <4> QED
        BY <1>3, <3>2, <3>7, <3>9, OneByteMore
    <3>11. Value(data) = low3 + digit(4)
      BY <1>5
    <3> HIDE DEF low2, low3
    <3> QED
      BY <1>2, <2>7, <3>2, <3>10, <3>11
  <2> QED
    BY <1>9, <2>6, <2>7
<1> QED
  BY <1>8, <1>9

(* What a setter keeps of a payload of the length of the type is a number  *)
(* no larger than its limit, and fits the type.                            *)
LEMMA KeptType ==
  ASSUME NEW p \in Property, NEW data \in Seq(0..Base - 1),
         PropSize[p] # 0, Len(data) = PropSize[p]
  PROVE  /\ Lesser(Value(data), Limit[p]) \in 0..Limit[p]
         /\ OfType(p, Lesser(Value(data), Limit[p]))
<1> DEFINE bound == Weight[PropSize[p]] * Base
           value == Value(data)
           kept == Lesser(value, Limit[p])
<1>1. PropSize[p] \in {1, 2, 4}
  BY DeviceAssumption, SMT DEF Property, NumProps
<1>2. value < bound
  BY <1>1, ValueFits
<1>3. value \in Nat
  <2>1. data \in Seq(Nat)
    BY BytesAreNumbers
  <2> QED
    BY <2>1, ValueType
<1>4. Limit[p] \in Nat
  BY DeviceAssumption
<1>5. bound \in Nat
  <2>1. Weight[PropSize[p]] \in Nat /\ Base \in Nat
    BY <1>1, WeightType, DeviceAssumption, SMT
  <2> QED
    BY <2>1, SMT
<1> HIDE DEF bound, value
<1>6. kept \in 0..Limit[p] /\ kept < bound
  BY <1>2, <1>3, <1>4, <1>5, SMT DEF Lesser
<1> QED
  BY <1>6 DEF value, bound, OfType

-----------------------------------------------------------------------------
(* What dp_handle_message_ext makes of any frame: one of the following.    *)

\* What one frame can carry.
Payload == {data \in Seq(Nat) : Len(data) <= 8}

Addressed(req) ==
  IsDevprop(req.id) /\ NodeOf(req.id) = Node /\ DirOf(req.id) = CLIENT_TO_DEVICE

ReplyId(req, opcode) == MakeId(DEVICE_TO_CLIENT, Node, opcode, PropertyIndex(req.id))

IsPassedOver(o, v) == o = Outcome(v, << >>, TRUE)

IsRefusal(o, v, req) ==
  \E code \in 1..255 :
    o = Outcome(v, <<Message(ReplyId(req, ERROR), <<OpcodeOf(req.id), code>>)>>, TRUE)

IsStop(o, v) == o = Outcome(v, << >>, FALSE)

IsReply(o, v, req, data) ==
  o = Outcome(v, <<Message(ReplyId(req, OpcodeOf(req.id)), data)>>, TRUE)

ErrorOutcome(o, v, req) ==
  IsRefusal(o, v, req) \/ (IsStop(o, v) /\ Node = 31)

PastOutcome(o, v, req) ==
  \/ ErrorOutcome(o, v, req)
  \/ IsStop(o, v)
  \/ \E data \in Payload : Len(data) \in {1, 2, 4} /\ IsReply(o, v, req, data)

\* The contract's terms, for this device.
GoodRead(req) ==
  LET p == PropertyIndex(req.id)
  IN  OpcodeOf(req.id) = READ_PROPERTY /\ p \in Readable /\ PropSize[p] # 0
      /\ req.data = << >>

GoodWrite(req) ==
  LET p == PropertyIndex(req.id)
  IN  OpcodeOf(req.id) = WRITE_PROPERTY /\ p \in Writable /\ PropSize[p] # 0
      /\ Len(req.data) = PropSize[p]

Refusable(req) ==
  /\ Addressed(req)
  /\ \/ OpcodeOf(req.id) = READ_MANIFEST /\ req.data # << >>
     \/ /\ OpcodeOf(req.id) \in {READ_PROPERTY, WRITE_PROPERTY}
        /\ UserErrors # {} \/ ~ (GoodRead(req) \/ GoodWrite(req))

PastTable(req) ==
  /\ Addressed(req)
  /\ PropertyIndex(req.id) = NumProps + 1
  /\ \/ OpcodeOf(req.id) = READ_PROPERTY /\ req.data = << >>
     \/ OpcodeOf(req.id) = WRITE_PROPERTY

(* The values and the segments that are sent fit a frame.                  *)
LEMMA BytesFit ==
  ASSUME NEW v \in Nat, NEW size \in 0..4
  PROVE  Bytes(v, size) \in Payload
<1>1. size <= 8
  BY SMT
<1> QED
  BY <1>1, BytesType DEF Payload

LEMMA SegmentFits ==
  ASSUME NEW s \in Nat
  PROVE  Segment(Manifest, s) \in Payload
<1> DEFINE m == s * SEGMENT_SIZE + 1
           n == Lesser(Len(Manifest), (s + 1) * SEGMENT_SIZE)
<1>1. SEGMENT_SIZE \in Nat /\ SEGMENT_SIZE <= 8 /\ Manifest \in Seq(Nat)
  BY FormatAssumption, NodeAssumption, SMT
<1>2. Len(Manifest) \in Nat
  BY <1>1, LenProperties
<1>3. \A x, y \in Nat : x * y \in Nat /\ (x + 1) * y = x * y + y
  BY SMT
<1>4. s * SEGMENT_SIZE \in Nat /\ (s + 1) * SEGMENT_SIZE = s * SEGMENT_SIZE + SEGMENT_SIZE
  BY <1>1, <1>3
<1>5. \A a, z, l \in Nat :
        /\ a + 1 \in Nat /\ 1 <= a + 1
        /\ Lesser(l, a + z) \in Nat /\ Lesser(l, a + z) <= l
        /\ Lesser(l, a + z) - (a + 1) + 1 <= z
  BY SMT DEF Lesser
<1>6. /\ m \in Nat /\ 1 <= m /\ n \in Nat /\ n <= Len(Manifest)
      /\ n - m + 1 <= SEGMENT_SIZE
  BY <1>1, <1>2, <1>4, <1>5
<1>7. Segment(Manifest, s) = SubSeq(Manifest, m, n)
  BY DEF Segment
<1> HIDE DEF m, n
<1>8. SubSeq(Manifest, m, n) \in Seq(Nat)
  BY <1>1, <1>2, <1>6, SMT
<1>9. Len(SubSeq(Manifest, m, n)) <= SEGMENT_SIZE
  BY <1>1, <1>2, <1>6, SMT
<1>10. Len(SubSeq(Manifest, m, n)) \in Nat
  BY <1>8, LenProperties
<1> QED
  BY <1>1, <1>7, <1>8, <1>9, <1>10, SMT DEF Payload

(* A frame for this device, taken apart and put together again.            *)
LEMMA AddressedFacts ==
  ASSUME NEW req, req.id \in Identifiers, Addressed(req)
  PROVE  /\ Node \in NodeIds /\ OpcodeOf(req.id) \in Codes
         /\ PropertyIndex(req.id) \in Indices
         /\ FlipDir(req.id) = ReplyId(req, OpcodeOf(req.id))
<1>1. /\ NodeOf(req.id) \in NodeIds /\ OpcodeOf(req.id) \in Codes
      /\ PropertyIndex(req.id) \in Indices
      /\ req.id = MakeId(DirOf(req.id), NodeOf(req.id), OpcodeOf(req.id), PropertyIndex(req.id))
  BY Repack DEF Addressed
<1>2. req.id = MakeId(CLIENT_TO_DEVICE, Node, OpcodeOf(req.id), PropertyIndex(req.id))
  BY <1>1 DEF Addressed
<1>3. Node \in NodeIds
  BY <1>1 DEF Addressed
<1>4. FlipDir(MakeId(CLIENT_TO_DEVICE, Node, OpcodeOf(req.id), PropertyIndex(req.id)))
        = MakeId(DEVICE_TO_CLIENT, Node, OpcodeOf(req.id), PropertyIndex(req.id))
  BY <1>1, <1>3, FlipMake
<1> QED
  BY <1>1, <1>2, <1>3, <1>4 DEF ReplyId

(* SendError refuses the request, but on node 31, where it stops.          *)
LEMMA SendErrorCases ==
  ASSUME NEW req, req.id \in Identifiers, Addressed(req), NEW v,
         NEW code \in ErrorRange, NEW o \in SendError(v, req.id, code)
  PROVE  ErrorOutcome(o, v, req)
<1>1. Node \in NodeIds /\ PropertyIndex(req.id) \in Indices /\ NodeOf(req.id) = Node
  BY AddressedFacts DEF Addressed
<1>2. IndexAllowed(ERROR, PropertyIndex(req.id))
  <2>1. ERROR \notin {READ_PROPERTY, WRITE_PROPERTY}
    BY FieldRanges
  <2>2. MAX_PROPERTY_INDEX = 255
    BY NodeAssumption
  <2> QED
    BY <1>1, <2>1, <2>2, SMT DEF IndexAllowed, Indices
<1>3. CASE Node \in DeviceIds
  <2>1. DeviceCanMake(NodeOf(req.id), ERROR, PropertyIndex(req.id))
    BY <1>1, <1>2, <1>3 DEF DeviceCanMake
  <2>2. o = Outcome(v, <<Message(ReplyId(req, ERROR), <<OpcodeOf(req.id), -code>>)>>, TRUE)
    BY <1>1, <2>1 DEF SendError, ReplyId
  <2>3. -code \in 1..255
    BY SMT DEF ErrorRange
  <2> QED
    BY <2>2, <2>3 DEF ErrorOutcome, IsRefusal
<1>4. CASE Node \notin DeviceIds
  <2>1. Node = 31
    BY <1>1, <1>4, SMT DEF NodeIds, DeviceIds
  <2>2. ~ DeviceCanMake(NodeOf(req.id), ERROR, PropertyIndex(req.id))
    BY <1>1, <1>4 DEF DeviceCanMake
  <2>3. o = Outcome(v, << >>, FALSE)
    BY <2>2 DEF SendError, Aborted
  <2> QED
    BY <2>1, <2>3 DEF ErrorOutcome, IsStop
<1> QED
  BY <1>3, <1>4

LEMMA UserErrorCases ==
  ASSUME NEW req, req.id \in Identifiers, Addressed(req), NEW v,
         NEW o \in UserError(v, req.id)
  PROVE  ErrorOutcome(o, v, req)
<1>1. PICK code \in UserErrors : o \in SendError(v, req.id, code)
  BY DEF UserError
<1> QED
  BY <1>1, SendErrorCases, DeviceAssumption

LEMMA ReplyCases ==
  ASSUME NEW req, req.id \in Identifiers, Addressed(req), NEW v, NEW data,
         NEW o \in Reply(v, req.id, data)
  PROVE  IsReply(o, v, req, data)
BY AddressedFacts DEF Reply, IsReply

LEMMA PastTheTableCases ==
  ASSUME NEW req, req.id \in Identifiers, Addressed(req), NEW v,
         NEW o \in PastTheTable(v, req.id)
  PROVE  PastOutcome(o, v, req)
<1>1. \/ \E code \in {VALUE_ERROR, NOT_IMPLEMENTED} : o \in SendError(v, req.id, code)
      \/ \E data \in Payload : Len(data) \in {1, 2, 4} /\ o \in Reply(v, req.id, data)
      \/ o \in Aborted(v)
  <2> DEFINE errors == UNION {SendError(v, req.id, code) : code \in {VALUE_ERROR, NOT_IMPLEMENTED}}
             replies == UNION {Reply(v, req.id, Bytes(n, size)) : n \in 0..1, size \in {1, 2, 4}}
  <2>1. o \in errors \/ o \in replies \/ o \in Aborted(v)
    BY DEF PastTheTable
  <2>2. ASSUME o \in errors
        PROVE  \E code \in {VALUE_ERROR, NOT_IMPLEMENTED} : o \in SendError(v, req.id, code)
    BY <2>2
  <2>3. ASSUME o \in replies
        PROVE  \E data \in Payload : Len(data) \in {1, 2, 4} /\ o \in Reply(v, req.id, data)
    <3>1. PICK n \in 0..1, size \in {1, 2, 4} : o \in Reply(v, req.id, Bytes(n, size))
      BY <2>3
    <3>2. n \in Nat /\ size \in 0..4
      BY SMT
    <3> QED
      BY <3>1, <3>2, BytesFit, BytesType
  <2> QED
    BY <2>1, <2>2, <2>3
<1>2. VALUE_ERROR \in ErrorRange /\ NOT_IMPLEMENTED \in ErrorRange
  BY SMT DEF VALUE_ERROR, NOT_IMPLEMENTED, ErrorRange
<1>3. ASSUME NEW code \in {VALUE_ERROR, NOT_IMPLEMENTED}, o \in SendError(v, req.id, code)
      PROVE  PastOutcome(o, v, req)
  BY <1>2, <1>3, SendErrorCases DEF PastOutcome
<1>4. ASSUME NEW data \in Payload, Len(data) \in {1, 2, 4}, o \in Reply(v, req.id, data)
      PROVE  PastOutcome(o, v, req)
  BY <1>4, ReplyCases DEF PastOutcome
<1>5. ASSUME o \in Aborted(v) PROVE PastOutcome(o, v, req)
  BY <1>5 DEF Aborted, PastOutcome, IsStop
<1> QED
  BY <1>1, <1>3, <1>4, <1>5

-----------------------------------------------------------------------------
(* The three operations.                                                   *)

ManifestOutcome(o, v, req) ==
  \/ Refusable(req) /\ ErrorOutcome(o, v, req)
  \/ req.data = << >> /\ IsReply(o, v, req, Segment(Manifest, PropertyIndex(req.id)))

ReadOutcome(o, v, req) ==
  LET p == PropertyIndex(req.id)
  IN  \/ Refusable(req) /\ ErrorOutcome(o, v, req)
      \/ PastTable(req) /\ PastOutcome(o, v, req)
      \/ GoodRead(req) /\ IsReply(o, v, req, Bytes(v[p], PropSize[p]))

WriteOutcome(o, v, req) ==
  LET p == PropertyIndex(req.id)
  IN  \/ Refusable(req) /\ ErrorOutcome(o, v, req)
      \/ PastTable(req) /\ PastOutcome(o, v, req)
      \/ /\ GoodWrite(req)
         /\ \E kept \in 0..Limit[p] :
              OfType(p, kept) /\ IsReply(o, [v EXCEPT ![p] = kept], req, Bytes(kept, PropSize[p]))

LEMMA Errors ==
  /\ VALUE_ERROR \in ErrorRange /\ NOT_IMPLEMENTED \in ErrorRange
  /\ PROTOCOL_ERROR \in ErrorRange
BY SMT DEF VALUE_ERROR, NOT_IMPLEMENTED, PROTOCOL_ERROR, ErrorRange

LEMMA ReadManifestCases ==
  ASSUME NEW req, req.id \in Identifiers, Addressed(req),
         OpcodeOf(req.id) = READ_MANIFEST, NEW v,
         NEW o \in ReadManifest(Manifest, v, req)
  PROVE  ManifestOutcome(o, v, req)
<1>1. CASE req.data # << >>
  <2>1. Refusable(req)
    BY <1>1 DEF Refusable
  <2> QED
    BY <1>1, <2>1, Errors, SendErrorCases DEF ReadManifest, ManifestOutcome
<1>2. CASE req.data = << >>
  BY <1>2, ReplyCases DEF ReadManifest, ManifestOutcome
<1> QED
  BY <1>1, <1>2

LEMMA ReadPropertyCases ==
  ASSUME NEW req, req.id \in Identifiers, Addressed(req),
         OpcodeOf(req.id) = READ_PROPERTY, NEW v,
         NEW o \in ReadProperty(v, req)
  PROVE  ReadOutcome(o, v, req)
<1> DEFINE p == PropertyIndex(req.id)
<1>0. p \in Nat /\ NumProps \in Nat /\ Readable \subseteq 1..NumProps
  <2>1. p \in Indices
    BY AddressedFacts
  <2>2. \A i \in Indices : i \in Nat
    BY SMT DEF Indices
  <2> QED
    BY <2>1, <2>2, DeviceAssumption, LenProperties DEF NumProps, Property
<1>1. ~ GoodRead(req) => Refusable(req)
  BY FieldRanges DEF Refusable, GoodWrite
<1>2. ASSUME NEW code \in ErrorRange, o \in SendError(v, req.id, code), ~ GoodRead(req)
      PROVE  ReadOutcome(o, v, req)
  BY <1>1, <1>2, SendErrorCases DEF ReadOutcome
<1>3. CASE p < 1 \/ p > NumProps + 1 \/ req.data # << >>
  <2>1. p \notin Readable \/ req.data # << >>
    BY <1>0, <1>3, SMT
  <2>2. o \in SendError(v, req.id, PROTOCOL_ERROR) /\ ~ GoodRead(req)
    BY <1>3, <2>1 DEF ReadProperty, GoodRead
  <2> QED
    BY <1>2, <2>2, Errors
<1>4. CASE req.data = << >> /\ p = NumProps + 1
  <2>1. o \in PastTheTable(v, req.id)
    <3>1. ~ (p < 1) /\ ~ (p > NumProps + 1)
      BY <1>0, <1>4, SMT
    <3> QED
      BY <1>4, <3>1 DEF ReadProperty
  <2>2. PastTable(req)
    BY <1>4 DEF PastTable
  <2> QED
    BY <2>1, <2>2, PastTheTableCases DEF ReadOutcome
<1>5. CASE ~ (p < 1) /\ ~ (p > NumProps + 1) /\ req.data = << >> /\ p # NumProps + 1
  <2>1. o \in GetPropertyValue(p, v, req)
    BY <1>5 DEF ReadProperty
  <2>2. CASE p \notin Readable
    <3>1. o \in SendError(v, req.id, VALUE_ERROR) /\ ~ GoodRead(req)
      BY <2>1, <2>2 DEF GetPropertyValue, GoodRead
    <3> QED
      BY <1>2, <3>1, Errors
  <2>3. CASE p \in Readable /\ PropSize[p] = 0
    <3>1. o \in SendError(v, req.id, NOT_IMPLEMENTED) /\ ~ GoodRead(req)
      BY <2>1, <2>3 DEF GetPropertyValue, GoodRead
    <3> QED
      BY <1>2, <3>1, Errors
  <2>4. CASE p \in Readable /\ PropSize[p] # 0
    <3>1. GoodRead(req)
      BY <1>5, <2>4 DEF GoodRead
    <3>2. \/ o \in UserError(v, req.id)
          \/ o \in Reply(v, req.id, Bytes(v[p], PropSize[p]))
      BY <2>1, <2>4 DEF GetPropertyValue
    <3>3. ASSUME o \in UserError(v, req.id) PROVE ReadOutcome(o, v, req)
      <4>1. Refusable(req)
        BY <3>3 DEF UserError, Refusable
      <4> QED
        BY <3>3, <4>1, UserErrorCases DEF ReadOutcome
    <3>4. ASSUME o \in Reply(v, req.id, Bytes(v[p], PropSize[p])) PROVE ReadOutcome(o, v, req)
      BY <3>1, <3>4, ReplyCases DEF ReadOutcome
    <3> QED
      BY <3>2, <3>3, <3>4
  <2> QED
    BY <2>2, <2>3, <2>4
<1> QED
  BY <1>3, <1>4, <1>5

LEMMA WritePropertyCases ==
  ASSUME NEW req, req.id \in Identifiers, req.data \in Seq(0..Base - 1), Addressed(req),
         OpcodeOf(req.id) = WRITE_PROPERTY, NEW v,
         NEW o \in WriteProperty(v, req)
  PROVE  WriteOutcome(o, v, req)
<1> DEFINE p == PropertyIndex(req.id)
<1>0. p \in Nat /\ NumProps \in Nat /\ Writable \subseteq 1..NumProps
  <2>1. p \in Indices
    BY AddressedFacts
  <2>2. \A i \in Indices : i \in Nat
    BY SMT DEF Indices
  <2> QED
    BY <2>1, <2>2, DeviceAssumption, LenProperties DEF NumProps, Property
<1> DEFINE kept == Lesser(Value(req.data), Limit[p])
<1>1. ~ GoodWrite(req) => Refusable(req)
  BY FieldRanges DEF Refusable, GoodRead
<1>2. ASSUME NEW code \in ErrorRange, o \in SendError(v, req.id, code), ~ GoodWrite(req)
      PROVE  WriteOutcome(o, v, req)
  BY <1>1, <1>2, SendErrorCases DEF WriteOutcome
<1>3. CASE p < 1 \/ p > NumProps + 1
  <2>1. p \notin Writable
    BY <1>0, <1>3, SMT
  <2>2. o \in SendError(v, req.id, PROTOCOL_ERROR) /\ ~ GoodWrite(req)
    BY <1>3, <2>1 DEF WriteProperty, GoodWrite
  <2> QED
    BY <1>2, <2>2, Errors
<1>4. CASE p = NumProps + 1
  <2>1. o \in PastTheTable(v, req.id)
    <3>1. ~ (p < 1) /\ ~ (p > NumProps + 1)
      BY <1>0, <1>4, SMT
    <3> QED
      BY <1>4, <3>1 DEF WriteProperty
  <2>2. PastTable(req)
    BY <1>4 DEF PastTable
  <2> QED
    BY <2>1, <2>2, PastTheTableCases DEF WriteOutcome
<1>5. CASE ~ (p < 1) /\ ~ (p > NumProps + 1) /\ p # NumProps + 1
  <2>1. o \in SetPropertyValue(p, v, req)
    BY <1>5 DEF WriteProperty
  <2>2. CASE p \notin Writable
    <3>1. o \in SendError(v, req.id, VALUE_ERROR) /\ ~ GoodWrite(req)
      BY <2>1, <2>2 DEF SetPropertyValue, GoodWrite
    <3> QED
      BY <1>2, <3>1, Errors
  <2>3. CASE p \in Writable /\ PropSize[p] = 0
    <3>1. o \in SendError(v, req.id, NOT_IMPLEMENTED) /\ ~ GoodWrite(req)
      BY <2>1, <2>3 DEF SetPropertyValue, GoodWrite
    <3> QED
      BY <1>2, <3>1, Errors
  <2>4. CASE p \in Writable /\ PropSize[p] # 0 /\ Len(req.data) # PropSize[p]
    <3>1. o \in SendError(v, req.id, PROTOCOL_ERROR) /\ ~ GoodWrite(req)
      BY <2>1, <2>4 DEF SetPropertyValue, GoodWrite
    <3> QED
      BY <1>2, <3>1, Errors
  <2>5. CASE p \in Writable /\ PropSize[p] # 0 /\ Len(req.data) = PropSize[p]
    <3>1. GoodWrite(req)
      BY <2>5 DEF GoodWrite
    <3>2. \/ o \in UserError(v, req.id)
          \/ o \in Reply([v EXCEPT ![p] = kept], req.id, Bytes(kept, PropSize[p]))
      BY <2>1, <2>5 DEF SetPropertyValue
    <3>3. ASSUME o \in UserError(v, req.id) PROVE WriteOutcome(o, v, req)
      <4>1. Refusable(req)
        BY <3>3 DEF UserError, Refusable
      <4> QED
        BY <3>3, <4>1, UserErrorCases DEF WriteOutcome
    <3>4. ASSUME o \in Reply([v EXCEPT ![p] = kept], req.id, Bytes(kept, PropSize[p]))
          PROVE  WriteOutcome(o, v, req)
      <4>1. kept \in 0..Limit[p] /\ OfType(p, kept)
        BY <2>5, DeviceAssumption, KeptType
      <4>2. IsReply(o, [v EXCEPT ![p] = kept], req, Bytes(kept, PropSize[p]))
        BY <3>4, ReplyCases
      <4> HIDE DEF kept
      <4> QED
        BY <3>1, <4>1, <4>2 DEF WriteOutcome
    <3> QED
      BY <3>2, <3>3, <3>4
  <2> QED
    BY <2>2, <2>3, <2>4, <2>5
<1> QED
  BY <1>3, <1>4, <1>5

-----------------------------------------------------------------------------
(* dp_handle_message_ext as a whole.                                       *)

HandleOutcomeIs(o, v, req) ==
  \/ IsPassedOver(o, v) /\ (Addressed(req) => OpcodeOf(req.id) \notin Requests)
  \/ /\ Addressed(req)
     /\ \/ OpcodeOf(req.id) = READ_MANIFEST /\ ManifestOutcome(o, v, req)
        \/ OpcodeOf(req.id) = READ_PROPERTY /\ ReadOutcome(o, v, req)
        \/ OpcodeOf(req.id) = WRITE_PROPERTY /\ WriteOutcome(o, v, req)

LEMMA HandleCases ==
  ASSUME NEW req, req.id \in Identifiers, req.data \in Seq(0..Base - 1), NEW v,
         NEW o \in Handle(Node, Manifest, v, req)
  PROVE  HandleOutcomeIs(o, v, req)
<1> DEFINE opcode == OpcodeOf(req.id)
<1>1. CASE ~ Addressed(req)
  <2>1. o \in Ignored(v)
    BY <1>1 DEF Handle, Addressed
  <2> QED
    BY <1>1, <2>1 DEF Ignored, IsPassedOver, HandleOutcomeIs
<1>2. CASE Addressed(req)
  <2>0. IsDevprop(req.id) /\ NodeOf(req.id) = Node /\ DirOf(req.id) = CLIENT_TO_DEVICE
    BY <1>2 DEF Addressed
  <2>1. CASE opcode = READ_MANIFEST
    <3>1. o \in ReadManifest(Manifest, v, req)
      BY <2>0, <2>1 DEF Handle
    <3> QED
      BY <1>2, <2>1, <3>1, ReadManifestCases DEF HandleOutcomeIs
  <2>2. CASE opcode = READ_PROPERTY
    <3>1. o \in ReadProperty(v, req)
      BY <2>0, <2>2, FieldRanges DEF Handle
    <3> QED
      BY <1>2, <2>2, <3>1, ReadPropertyCases DEF HandleOutcomeIs
  <2>3. CASE opcode = WRITE_PROPERTY
    <3>1. o \in WriteProperty(v, req)
      BY <2>0, <2>3, FieldRanges DEF Handle
    <3> QED
      BY <1>2, <2>3, <3>1, WritePropertyCases DEF HandleOutcomeIs
  <2>4. CASE opcode \notin Requests
    <3>1. o \in Ignored(v)
      BY <2>0, <2>4 DEF Handle, Requests
    <3> QED
      BY <2>4, <3>1 DEF Ignored, IsPassedOver, HandleOutcomeIs
  <2> QED
    BY <2>1, <2>2, <2>3, <2>4 DEF Requests
<1> QED
  BY <1>1, <1>2

-----------------------------------------------------------------------------
(* The invariant: the properties have values, the device runs or not, what *)
(* was sent is at most one frame, and the last request was answered.       *)

Values == {v \in [Property -> Nat] : \A p \in Property : OfType(p, v[p])}

StateOK == vals \in Values /\ up \in BOOLEAN

IsFrame(req) == req.id \in Nat /\ req.data \in Seq(Nat) /\ req = Message(req.id, req.data)

IsSent(out) == out = << >> \/ \E id \in Nat, data \in Payload : out = <<Message(id, data)>>

LastOK == IsFrame(last.req) /\ IsSent(last.out)

IInv == StateOK /\ LastOK /\ AnsweredInsideTheTable

(* What is sent is of the types TypeOK names.                              *)
LEMMA SentType ==
  ASSUME NEW out, IsSent(out)
  PROVE  /\ out \in Seq([id : Nat, data : Seq(Nat)])
         /\ Len(out) <= 1
         /\ \A i \in DOMAIN out : Len(out[i].data) <= 8
<1>1. CASE out = << >>
  <2>1. Len(out) = 0 /\ DOMAIN out = {} /\ out \in Seq([id : Nat, data : Seq(Nat)])
    BY <1>1, SMT
  <2> QED
    BY <2>1
<1>2. ASSUME NEW id \in Nat, NEW data \in Payload, out = <<Message(id, data)>>
      PROVE  /\ out \in Seq([id : Nat, data : Seq(Nat)])
             /\ Len(out) <= 1
             /\ \A i \in DOMAIN out : Len(out[i].data) <= 8
  <2> DEFINE msg == Message(id, data)
  <2>1. msg \in [id : Nat, data : Seq(Nat)] /\ Len(msg.data) <= 8
    BY DEF Message, Payload
  <2> HIDE DEF msg
  <2>2. Len(out) = 1 /\ DOMAIN out = {1} /\ out[1] = msg
    BY <1>2, SMT DEF msg
  <2>3. out \in Seq([id : Nat, data : Seq(Nat)])
    BY <1>2, <2>1, SMT DEF msg
  <2> QED
    BY <2>1, <2>2, <2>3
<1> QED
  BY <1>1, <1>2 DEF IsSent

(* A refusal or a reply is one frame, and a refusal is an error.           *)
LEMMA FramesSent ==
  ASSUME NEW req, req.id \in Identifiers, Addressed(req), NEW o, NEW v, NEW data
  PROVE  /\ IsReply(o, v, req, data) => Len(o.out) = 1
         /\ IsRefusal(o, v, req) => Len(o.out) = 1 /\ OpcodeOf(o.out[1].id) = ERROR
<1>1. OpcodeOf(ReplyId(req, ERROR)) = ERROR
  BY AddressedFacts, FieldRanges, UnpackMake DEF ReplyId
<1>2. ASSUME IsReply(o, v, req, data) PROVE Len(o.out) = 1
  BY <1>2 DEF IsReply, Outcome
<1>3. ASSUME IsRefusal(o, v, req) PROVE Len(o.out) = 1 /\ OpcodeOf(o.out[1].id) = ERROR
  <2>1. PICK code \in 1..255 :
          o = Outcome(v, <<Message(ReplyId(req, ERROR), <<OpcodeOf(req.id), code>>)>>, TRUE)
    BY <1>3 DEF IsRefusal
  <2>2. o.out = <<Message(ReplyId(req, ERROR), <<OpcodeOf(req.id), code>>)>>
    BY <2>1 DEF Outcome
  <2>3. Len(o.out) = 1 /\ o.out[1].id = ReplyId(req, ERROR)
    BY <2>2 DEF Message
  <2> QED
    BY <1>1, <2>3
<1> QED
  BY <1>2, <1>3

LEMMA QuietIsFine ==
  ASSUME last' = Quiet
  PROVE  AnsweredInsideTheTable'
<1>1. last'.req.id = 0
  BY DEF Quiet, NoFrame, Message
<1>2. ~ IsDevprop(0)
  BY SMT DEF IsDevprop
<1> QED
  BY <1>1, <1>2 DEF AnsweredInsideTheTable, IsRequest

LEMMA ReceiveAnswers ==
  ASSUME NEW req, req.id \in Identifiers, NEW o, HandleOutcomeIs(o, vals, req),
         last' = [req |-> req, out |-> o.out]
  PROVE  AnsweredInsideTheTable'
<1> DEFINE p == PropertyIndex(req.id)
<1>1. last'.req = req /\ last'.out = o.out
  OBVIOUS
<1>2. SUFFICES ASSUME Addressed(req), OpcodeOf(req.id) \in Requests,
                      p # NumProps + 1, Node < 31
               PROVE  /\ Len(o.out) = 1
                      /\ OpcodeOf(req.id) # READ_MANIFEST /\ p \notin Property =>
                           OpcodeOf(o.out[1].id) = ERROR
  BY <1>1 DEF AnsweredInsideTheTable, IsRequest, Addressed
<1>3. Node # 31
  BY <1>2, NodeAssumption, SMT
<1>4. CASE IsRefusal(o, vals, req)
  BY <1>2, <1>4, FramesSent
<1>5. CASE OpcodeOf(req.id) = READ_MANIFEST /\ \E data : IsReply(o, vals, req, data)
  BY <1>2, <1>5, FramesSent
<1>6. CASE p \in Property /\ \E v, data : IsReply(o, v, req, data)
  BY <1>2, <1>6, FramesSent
<1>7. Readable \subseteq Property /\ Writable \subseteq Property
  BY DeviceAssumption
<1>8. \/ IsRefusal(o, vals, req)
      \/ OpcodeOf(req.id) = READ_MANIFEST /\ \E data : IsReply(o, vals, req, data)
      \/ p \in Property /\ \E v, data : IsReply(o, v, req, data)
  <2>1. ErrorOutcome(o, vals, req) => IsRefusal(o, vals, req)
    BY <1>3 DEF ErrorOutcome
  <2>2. \/ OpcodeOf(req.id) = READ_MANIFEST /\ ManifestOutcome(o, vals, req)
        \/ ReadOutcome(o, vals, req)
        \/ WriteOutcome(o, vals, req)
    BY <1>2 DEF HandleOutcomeIs
  <2>3. CASE OpcodeOf(req.id) = READ_MANIFEST /\ ManifestOutcome(o, vals, req)
    BY <2>1, <2>3 DEF ManifestOutcome
  <2>4. CASE ReadOutcome(o, vals, req)
    BY <1>2, <1>7, <2>1, <2>4 DEF ReadOutcome, PastTable, GoodRead
  <2>5. CASE WriteOutcome(o, vals, req)
    BY <1>2, <1>7, <2>1, <2>5 DEF WriteOutcome, PastTable, GoodWrite
  <2> QED
    BY <2>2, <2>3, <2>4, <2>5
<1> QED
  BY <1>4, <1>5, <1>6, <1>8

(* What each kind of outcome leaves.                                       *)
LEMMA OutcomeParts ==
  ASSUME NEW o, NEW v, NEW req, NEW data
  PROVE  /\ IsPassedOver(o, v) => o.vals = v /\ o.ok = TRUE /\ o.out = << >>
         /\ IsStop(o, v) => o.vals = v /\ o.ok = FALSE /\ o.out = << >>
         /\ IsReply(o, v, req, data) =>
              /\ o.vals = v /\ o.ok = TRUE
              /\ o.out = <<Message(ReplyId(req, OpcodeOf(req.id)), data)>>
         /\ IsRefusal(o, v, req) =>
              /\ o.vals = v /\ o.ok = TRUE
              /\ \E code \in 1..255 :
                   o.out = <<Message(ReplyId(req, ERROR), <<OpcodeOf(req.id), code>>)>>
<1>1. \A out, ok : LET x == Outcome(v, out, ok)
                  IN  x.vals = v /\ x.out = out /\ x.ok = ok
  BY DEF Outcome
<1>2. ASSUME IsRefusal(o, v, req)
      PROVE  /\ o.vals = v /\ o.ok = TRUE
             /\ \E code \in 1..255 :
                  o.out = <<Message(ReplyId(req, ERROR), <<OpcodeOf(req.id), code>>)>>
  <2>1. PICK code \in 1..255 :
          o = Outcome(v, <<Message(ReplyId(req, ERROR), <<OpcodeOf(req.id), code>>)>>, TRUE)
    BY <1>2 DEF IsRefusal
  <2> QED
    BY <1>1, <2>1
<1>3. ASSUME IsPassedOver(o, v) PROVE o.vals = v /\ o.ok = TRUE /\ o.out = << >>
  <2>1. o = Outcome(v, << >>, TRUE)
    BY <1>3 DEF IsPassedOver
  <2> QED
    BY <1>1, <2>1
<1>4. ASSUME IsStop(o, v) PROVE o.vals = v /\ o.ok = FALSE /\ o.out = << >>
  <2>1. o = Outcome(v, << >>, FALSE)
    BY <1>4 DEF IsStop
  <2> QED
    BY <1>1, <2>1
<1>5. ASSUME IsReply(o, v, req, data)
      PROVE  /\ o.vals = v /\ o.ok = TRUE
             /\ o.out = <<Message(ReplyId(req, OpcodeOf(req.id)), data)>>
  <2>1. o = Outcome(v, <<Message(ReplyId(req, OpcodeOf(req.id)), data)>>, TRUE)
    BY <1>5 DEF IsReply
  <2> QED
    BY <1>1, <2>1
<1> QED
  BY <1>2, <1>3, <1>4, <1>5

(* A value that fits in the place of another leaves values.                *)
LEMMA OneValueChanged ==
  ASSUME NEW v \in Values, NEW p \in Property, NEW new \in Nat, OfType(p, new)
  PROVE  [v EXCEPT ![p] = new] \in Values
<1> DEFINE w == [v EXCEPT ![p] = new]
<1>1. v \in [Property -> Nat] /\ \A q \in Property : OfType(q, v[q])
  BY DEF Values
<1>2. w \in [Property -> Nat]
  BY <1>1
<1>3. ASSUME NEW q \in Property PROVE OfType(q, w[q])
  <2>1. w[q] = IF q = p THEN new ELSE v[q]
    BY <1>1
  <2> HIDE DEF w
  <2> QED
    BY <1>1, <2>1
<1> HIDE DEF w
<1>4. w \in Values
  BY <1>2, <1>3 DEF Values
<1> QED
  BY <1>4 DEF w

(* What a call leaves behind are values.                                   *)
LEMMA ValuesStay ==
  ASSUME NEW req, NEW o, NEW v \in Values, HandleOutcomeIs(o, v, req)
  PROVE  o.vals \in Values /\ o.ok \in BOOLEAN
<1> DEFINE p == PropertyIndex(req.id)
<1>1. \/ o.vals = v /\ o.ok \in BOOLEAN
      \/ p \in Writable /\ o.ok \in BOOLEAN
           /\ \E kept \in 0..Limit[p] : OfType(p, kept) /\ o.vals = [v EXCEPT ![p] = kept]
  <2>1. ASSUME ErrorOutcome(o, v, req) PROVE o.vals = v /\ o.ok \in BOOLEAN
    BY <2>1, OutcomeParts, ZenonT(60) DEF ErrorOutcome
  <2>2. ASSUME PastOutcome(o, v, req) PROVE o.vals = v /\ o.ok \in BOOLEAN
    BY <2>1, <2>2, OutcomeParts, ZenonT(60) DEF PastOutcome
  <2>3. ASSUME NEW new, NEW data, IsReply(o, new, req, data)
        PROVE  o.vals = new /\ o.ok \in BOOLEAN
    BY <2>3, OutcomeParts, ZenonT(60)
  <2>4. ASSUME IsPassedOver(o, v) PROVE o.vals = v /\ o.ok \in BOOLEAN
    BY <2>4, OutcomeParts
  <2>5. ASSUME ManifestOutcome(o, v, req) PROVE o.vals = v /\ o.ok \in BOOLEAN
    BY <2>1, <2>3, <2>5 DEF ManifestOutcome
  <2>6. ASSUME ReadOutcome(o, v, req) PROVE o.vals = v /\ o.ok \in BOOLEAN
    BY <2>1, <2>2, <2>3, <2>6 DEF ReadOutcome
  <2>7. ASSUME WriteOutcome(o, v, req)
        PROVE  \/ o.vals = v /\ o.ok \in BOOLEAN
               \/ p \in Writable /\ o.ok \in BOOLEAN
                    /\ \E kept \in 0..Limit[p] :
                         OfType(p, kept) /\ o.vals = [v EXCEPT ![p] = kept]
    BY <2>1, <2>2, <2>3, <2>7 DEF WriteOutcome, GoodWrite
  <2> QED
    BY <2>4, <2>5, <2>6, <2>7 DEF HandleOutcomeIs
<1>2. \A kept \in 0..Limit[p] : p \in Writable => p \in Property /\ kept \in Nat
  BY DeviceAssumption, SMT
<1> QED
  BY <1>1, <1>2, OneValueChanged

(* What a call sends is at most one frame.                                 *)
LEMMA OneFrameSent ==
  ASSUME NEW req, req.id \in Identifiers, NEW o, NEW v \in Values,
         HandleOutcomeIs(o, v, req)
  PROVE  IsSent(o.out)
<1> DEFINE p == PropertyIndex(req.id)
<1>0. v \in [Property -> Nat]
  BY DEF Values
<1>1. ASSUME IsPassedOver(o, v) PROVE IsSent(o.out)
  BY <1>1, OutcomeParts DEF IsSent
<1>2. ASSUME IsStop(o, v) PROVE IsSent(o.out)
  BY <1>2, OutcomeParts DEF IsSent
<1>3. SUFFICES ASSUME Addressed(req), ~ IsPassedOver(o, v) PROVE IsSent(o.out)
  BY <1>1 DEF HandleOutcomeIs
<1>4. ReplyId(req, ERROR) \in Nat /\ ReplyId(req, OpcodeOf(req.id)) \in Nat
      /\ p \in Nat /\ OpcodeOf(req.id) \in Nat
  <2>1. Node \in NodeIds /\ OpcodeOf(req.id) \in Codes /\ p \in Indices
    BY <1>3, AddressedFacts
  <2>2. p \in Nat /\ OpcodeOf(req.id) \in Nat
    BY <2>1, SMT DEF Indices, Codes
  <2> QED
    BY <2>1, <2>2, UnpackMake, FieldRanges DEF ReplyId
<1>5. ASSUME NEW new, NEW data \in Payload, IsReply(o, new, req, data) PROVE IsSent(o.out)
  <2>1. o.out = <<Message(ReplyId(req, OpcodeOf(req.id)), data)>>
    BY <1>5, OutcomeParts, ZenonT(60)
  <2> QED
    BY <1>4, <2>1 DEF IsSent
<1>6. ASSUME IsRefusal(o, v, req) PROVE IsSent(o.out)
  <2>1. PICK code \in 1..255 :
          o = Outcome(v, <<Message(ReplyId(req, ERROR), <<OpcodeOf(req.id), code>>)>>, TRUE)
    BY <1>6 DEF IsRefusal
  <2>2. o.out = <<Message(ReplyId(req, ERROR), <<OpcodeOf(req.id), code>>)>>
    BY <2>1 DEF Outcome
  <2>3. \A a, b \in Nat : <<a, b>> \in Seq(Nat) /\ Len(<<a, b>>) = 2
    BY SMT
  <2>4. code \in Nat /\ 2 <= 8
    BY SMT
  <2>5. <<OpcodeOf(req.id), code>> \in Payload
    BY <1>4, <2>3, <2>4 DEF Payload
  <2> QED
    BY <1>4, <2>2, <2>5 DEF IsSent
<1>7. ASSUME ErrorOutcome(o, v, req) PROVE IsSent(o.out)
  BY <1>2, <1>6, <1>7 DEF ErrorOutcome
<1>8. ASSUME PastOutcome(o, v, req) PROVE IsSent(o.out)
  BY <1>2, <1>5, <1>7, <1>8 DEF PastOutcome
<1>9. ASSUME ManifestOutcome(o, v, req) PROVE IsSent(o.out)
  BY <1>4, <1>5, <1>7, <1>9, SegmentFits DEF ManifestOutcome
<1>10. \A i \in Property : PropSize[i] \in 0..4
  BY DeviceAssumption, SMT DEF Property, NumProps
<1>11. Readable \subseteq Property /\ Writable \subseteq Property
  BY DeviceAssumption
<1>12. ASSUME ReadOutcome(o, v, req) PROVE IsSent(o.out)
  <2>1. p \in Readable => Bytes(v[p], PropSize[p]) \in Payload
    BY <1>0, <1>10, <1>11, BytesFit
  <2> QED
    BY <1>5, <1>7, <1>8, <1>12, <2>1 DEF ReadOutcome, GoodRead
<1>13. ASSUME WriteOutcome(o, v, req) PROVE IsSent(o.out)
  <2>1. ASSUME p \in Writable, NEW kept \in 0..Limit[p]
        PROVE  Bytes(kept, PropSize[p]) \in Payload
    <3>1. kept \in Nat
      BY SMT
    <3> QED
      BY <1>10, <1>11, <2>1, <3>1, BytesFit
  <2> QED
    BY <1>5, <1>7, <1>8, <1>13, <2>1 DEF WriteOutcome, GoodWrite
<1> QED
  BY <1>3, <1>9, <1>12, <1>13 DEF HandleOutcomeIs

-----------------------------------------------------------------------------
(* The invariant is inductive.                                             *)

LEMMA QuietIsNoFrame == IsFrame(Quiet.req) /\ IsSent(Quiet.out)
<1>1. << >> \in Seq(Nat) /\ 0 \in Nat
  BY SMT
<1> QED
  BY <1>1 DEF Quiet, NoFrame, Message, IsFrame, IsSent

LEMMA Starts == ASSUME Init PROVE IInv
<1>1. StateOK
  BY NodeAssumption DEF Init, StateOK, Values
<1>2. LastOK
  BY QuietIsNoFrame DEF Init, LastOK
<1>3. AnsweredInsideTheTable
  <2>1. last.req.id = 0
    BY DEF Init, Quiet, NoFrame, Message
  <2>2. ~ IsDevprop(0)
    BY SMT DEF IsDevprop
  <2> QED
    BY <2>1, <2>2 DEF AnsweredInsideTheTable, IsRequest
<1> QED
  BY <1>1, <1>2, <1>3 DEF IInv

(* A frame received, as an outcome of dp_handle_message_ext.               *)
LEMMA ReceiveCases ==
  ASSUME NEW id \in Ids, NEW data \in Payloads, Receive(id, data)
  PROVE  \E req, o :
           /\ req.id \in Identifiers /\ IsFrame(req)
           /\ HandleOutcomeIs(o, vals, req)
           /\ up /\ vals' = o.vals /\ up' = o.ok
           /\ last' = [req |-> req, out |-> o.out]
<1> DEFINE req == Message(id, data)
<1>1. req.id \in Identifiers /\ req.data \in Seq(0..Base - 1)
  BY NodeAssumption DEF Message
<1>5. IsFrame(req)
  <2>1. Identifiers \subseteq Nat
    BY DEF Identifiers
  <2>2. req.data \in Seq(Nat)
    BY <1>1, BytesAreNumbers
  <2> QED
    BY <1>1, <2>1, <2>2 DEF IsFrame, Message
<1>2. PICK o \in Handle(Node, Manifest, vals, req) :
        /\ vals' = o.vals /\ up' = o.ok
        /\ last' = [req |-> req, out |-> o.out]
  BY DEF Receive
<1> HIDE DEF req
<1>3. HandleOutcomeIs(o, vals, req)
  BY <1>1, <1>2, HandleCases
<1>4. up
  BY DEF Receive
<1> QED
  BY <1>1, <1>2, <1>3, <1>4, <1>5

LEMMA Inductive == ASSUME IInv, [Next]_vars PROVE IInv'
<1>1. ASSUME NEW id \in Ids, NEW data \in Payloads, Receive(id, data) PROVE IInv'
  <2>1. PICK req, o :
          /\ req.id \in Identifiers /\ IsFrame(req)
          /\ HandleOutcomeIs(o, vals, req)
          /\ up /\ vals' = o.vals /\ up' = o.ok
          /\ last' = [req |-> req, out |-> o.out]
    BY <1>1, ReceiveCases
  <2>2. StateOK'
    BY <2>1, ValuesStay DEF IInv, StateOK
  <2>3. AnsweredInsideTheTable'
    BY <2>1, ReceiveAnswers
  <2>4. IsSent(o.out)
    BY <2>1, OneFrameSent DEF IInv, StateOK
  <2>5. LastOK'
    BY <2>1, <2>4 DEF LastOK
  <2> QED
    BY <2>2, <2>3, <2>5 DEF IInv
<1>2. ASSUME NEW p \in Property, Change(p) PROVE IInv'
  <2>1. PICK v \in 0..Limit[p] : OfType(p, v) /\ vals' = [vals EXCEPT ![p] = v]
    BY <1>2 DEF Change
  <2>2. v \in Nat
    BY DeviceAssumption, SMT
  <2>3. vals' \in Values
    BY <2>1, <2>2, OneValueChanged DEF IInv, StateOK
  <2>4. StateOK'
    BY <1>2, <2>3 DEF Change, IInv, StateOK
  <2> QED
    BY <1>2, <2>4, QuietIsFine, QuietIsNoFrame DEF Change, IInv, LastOK
<1>3. ASSUME Restart PROVE IInv'
  BY <1>3, NodeAssumption, QuietIsFine, QuietIsNoFrame
     DEF Restart, IInv, StateOK, LastOK, Values
<1>4. ASSUME UNCHANGED vars PROVE IInv'
  BY <1>4 DEF vars, IInv, StateOK, LastOK, AnsweredInsideTheTable, IsRequest
<1> QED
  BY <1>1, <1>2, <1>3, <1>4 DEF Next

LEMMA Invariance == Spec => []IInv
BY Starts, Inductive, PTL DEF Spec

(* Whatever arrives, the value of a property stays within the width of its *)
(* type (set_property_value takes a payload of that length alone), and a   *)
(* call sends at most one frame, which a CAN controller can take.          *)
THEOREM TypeCorrect == Spec => []TypeOK
<1>1. IInv => TypeOK
  <2> SUFFICES ASSUME IInv PROVE TypeOK
    OBVIOUS
  <2>1. last.req \in [id : Nat, data : Seq(Nat)]
    <3>1. IsFrame(last.req)
      BY DEF IInv, LastOK
    <3>2. \A i \in Nat, d \in Seq(Nat) : Message(i, d) \in [id : Nat, data : Seq(Nat)]
      BY DEF Message
    <3> QED
      BY <3>1, <3>2 DEF IsFrame
  <2>2. IsSent(last.out)
    BY DEF IInv, LastOK
  <2> QED
    BY <2>1, <2>2, SentType DEF IInv, StateOK, TypeOK, Values
<1> QED
  BY <1>1, Invariance, PTL

(* Away from the index just past the table, a device that can report       *)
(* errors sends exactly one frame for each request it receives, and        *)
(* refuses one that names no property (dp_handle_message_ext).             *)
THEOREM EachRequestAnswered == Spec => []AnsweredInsideTheTable
<1>1. IInv => AnsweredInsideTheTable
  BY DEF IInv
<1> QED
  BY <1>1, Invariance, PTL

-----------------------------------------------------------------------------
(* The contract is about the same message format and the same table.       *)

LEMMA SameFormat ==
  /\ \A req : Contract!IsRequest(req) <=> Addressed(req)
  /\ \A req, opcode : Contract!ResponseId(req, opcode) = ReplyId(req, opcode)
  /\ \A id : Contract!OpcodeOf(id) = OpcodeOf(id)
  /\ \A id : Contract!PropertyIndex(id) = PropertyIndex(id)
  /\ \A id, data : Contract!Message(id, data) = Message(id, data)
<1>1. \A id : Contract!IsDevprop(id) = IsDevprop(id)
  BY SMT DEF Contract!IsDevprop, IsDevprop
<1>2. \A id : /\ Contract!NodeOf(id) = NodeOf(id) /\ Contract!DirOf(id) = DirOf(id)
              /\ Contract!OpcodeOf(id) = OpcodeOf(id)
              /\ Contract!PropertyIndex(id) = PropertyIndex(id)
  BY SMT DEF Contract!NodeOf, NodeOf, Contract!DirOf, DirOf, Contract!OpcodeOf, OpcodeOf,
         Contract!PropertyIndex, PropertyIndex
<1>3. \A req : Contract!IsRequest(req) <=> Addressed(req)
  <2>1. Contract!CLIENT_TO_DEVICE = CLIENT_TO_DEVICE
    BY SMT DEF Contract!CLIENT_TO_DEVICE, CLIENT_TO_DEVICE
  <2> QED
    BY <1>1, <1>2, <2>1 DEF Contract!IsRequest, Addressed
<1>4. \A req, opcode : Contract!ResponseId(req, opcode) = ReplyId(req, opcode)
  <2>1. \A dir, node, opcode, index :
          Contract!MakeId(dir, node, opcode, index) = MakeId(dir, node, opcode, index)
    BY SMT DEF Contract!MakeId, MakeId, Contract!ID_FIXED_PART, ID_FIXED_PART
  <2>2. Contract!DEVICE_TO_CLIENT = DEVICE_TO_CLIENT
    BY SMT DEF Contract!DEVICE_TO_CLIENT, DEVICE_TO_CLIENT
  <2> QED
    BY <1>2, <2>1, <2>2 DEF Contract!ResponseId, ReplyId
<1>5. \A id, data : Contract!Message(id, data) = Message(id, data)
  BY Zenon DEF Contract!Message, Message
<1> QED
  BY <1>2, <1>3, <1>4, <1>5

LEMMA SameCodes ==
  /\ Contract!Requests = Requests
  /\ Contract!READ_MANIFEST = READ_MANIFEST
  /\ Contract!READ_PROPERTY = READ_PROPERTY
  /\ Contract!WRITE_PROPERTY = WRITE_PROPERTY
  /\ Contract!ERROR = ERROR
BY DEF Contract!Requests, Requests, Contract!READ_MANIFEST, READ_MANIFEST,
       Contract!READ_PROPERTY, READ_PROPERTY,
       Contract!WRITE_PROPERTY, WRITE_PROPERTY, Contract!ERROR, ERROR

LEMMA SameTable ==
  /\ Contract!NumProps = NumProps /\ Contract!Property = Property
  /\ Contract!Quiet = Quiet
  /\ \A v, size : Contract!Bytes(v, size) = Bytes(v, size)
  /\ \A m, i : Contract!Segment(m, i) = Segment(m, i)
  /\ \A p, v : Contract!OfType(p, v) <=> OfType(p, v)
<1>1. Contract!NumProps = NumProps /\ Contract!Property = Property
  BY Zenon DEF Contract!NumProps, NumProps, Contract!Property, Property
<1>2. Contract!Quiet = Quiet
  BY Zenon DEF Contract!Quiet, Quiet, Contract!NoFrame, NoFrame, Contract!Message, Message
<1>3. \A v, size : Contract!Bytes(v, size) = Bytes(v, size)
  BY Zenon DEF Contract!Bytes, Bytes, Contract!Weight, Weight
<1>4. \A m, i : Contract!Segment(m, i) = Segment(m, i)
  BY Zenon DEF Contract!Segment, Segment, Contract!Lesser, Lesser
<1>5. \A p, v : Contract!OfType(p, v) <=> OfType(p, v)
  BY Zenon DEF Contract!OfType, OfType, Contract!Weight, Weight
<1> QED
  BY <1>1, <1>2, <1>3, <1>4, <1>5

(* And about the same requests.                                            *)
LEMMA SameReasons ==
  ASSUME NEW req
  PROVE  /\ Contract!GoodRead(req) <=> GoodRead(req)
         /\ Contract!GoodWrite(req) <=> GoodWrite(req)
         /\ Contract!Refusable(req) <=> Refusable(req)
         /\ Contract!PastTable(req) <=> PastTable(req)
<1>1. Contract!GoodRead(req) <=> GoodRead(req)
  BY SameFormat, SameCodes DEF Contract!GoodRead, GoodRead
<1>2. Contract!GoodWrite(req) <=> GoodWrite(req)
  BY SameFormat, SameCodes DEF Contract!GoodWrite, GoodWrite
<1>3. Contract!Refusable(req) <=> Refusable(req)
  BY <1>1, <1>2, SameFormat, SameCodes DEF Contract!Refusable, Refusable
<1>4. Contract!PastTable(req) <=> PastTable(req)
  BY SameFormat, SameCodes, SameTable DEF Contract!PastTable, PastTable
<1> QED
  BY <1>1, <1>2, <1>3, <1>4

(* "o" is what the device did with "req".                                  *)
Did(o, req) ==
  /\ up = TRUE
  /\ vals' = o.vals
  /\ up' = o.ok
  /\ last' = [req |-> req, out |-> o.out]

LEMMA IgnoreKeeps ==
  ASSUME NEW o, NEW req, Did(o, req), IsPassedOver(o, vals),
         Addressed(req) => OpcodeOf(req.id) \notin Requests
  PROVE  Contract!Ignore(req)
<1>1. o.vals = vals /\ o.ok = TRUE /\ o.out = << >>
  BY OutcomeParts
<1> QED
  BY <1>1, SameFormat, SameCodes DEF Contract!Ignore, Did

LEMMA StopKeeps ==
  ASSUME NEW o, NEW req, Did(o, req), Addressed(req), IsStop(o, vals),
         PastTable(req) \/ (Node = 31 /\ Refusable(req))
  PROVE  Contract!Undefined(req)
<1>1. o.vals = vals /\ o.ok = FALSE /\ o.out = << >>
  BY OutcomeParts
<1>2. Contract!MayStop(req)
  BY SameReasons DEF Contract!MayStop
<1> QED
  BY <1>1, <1>2 DEF Contract!Undefined, Did

LEMMA ErrorKeeps ==
  ASSUME NEW o, NEW req, Did(o, req), Addressed(req), Refusable(req),
         ErrorOutcome(o, vals, req)
  PROVE  Contract!Step(req)
<1>1. CASE IsRefusal(o, vals, req)
  <2>1. o.vals = vals /\ o.ok = TRUE
    BY <1>1, OutcomeParts, ZenonT(60)
  <2>2. PICK code \in 1..255 :
          o = Outcome(vals, <<Message(ReplyId(req, ERROR), <<OpcodeOf(req.id), code>>)>>, TRUE)
    BY <1>1 DEF IsRefusal
  <2>3. o.out = <<Message(ReplyId(req, ERROR), <<OpcodeOf(req.id), code>>)>>
    BY <2>2 DEF Outcome
  <2>4. o.out = <<Contract!Message(Contract!ResponseId(req, Contract!ERROR),
                                   <<Contract!OpcodeOf(req.id), code>>)>>
    BY <2>3, SameFormat, SameCodes
  <2>5. Contract!Refuse(req)
    BY <2>1, <2>4, SameReasons DEF Contract!Refuse, Did
  <2> QED
    BY <2>5 DEF Contract!Step
<1>2. CASE IsStop(o, vals) /\ Node = 31
  BY <1>2, StopKeeps DEF Contract!Step
<1> QED
  BY <1>1, <1>2 DEF ErrorOutcome

LEMMA PastKeeps ==
  ASSUME NEW o, NEW req, Did(o, req), Addressed(req), PastOutcome(o, vals, req),
         PastTable(req)
  PROVE  Contract!Step(req)
<1>0. Refusable(req)
  <2>1. NumProps \in Nat /\ NumProps + 1 \notin 1..NumProps
    BY DeviceAssumption, LenProperties, SMT DEF NumProps
  <2>2. PropertyIndex(req.id) \notin Readable /\ PropertyIndex(req.id) \notin Writable
    BY <2>1, DeviceAssumption DEF PastTable, Property
  <2> QED
    BY <2>2 DEF Refusable, PastTable, GoodRead, GoodWrite
<1>1. ASSUME NEW data \in Payload, Len(data) \in {1, 2, 4}, IsReply(o, vals, req, data)
      PROVE  Contract!Step(req)
  <2>0. IsReply(o, vals, req, data)
    BY <1>1
  <2>1. /\ o.vals = vals /\ o.ok = TRUE
        /\ o.out = <<Message(ReplyId(req, OpcodeOf(req.id)), data)>>
    BY <2>0, OutcomeParts, ZenonT(60)
  <2>2. /\ Len(o.out) = 1 /\ o.out[1].id = ReplyId(req, OpcodeOf(req.id))
        /\ o.out[1].data = data
    BY <2>1 DEF Message
  <2>3. /\ Len(last'.out) = 1 /\ last'.out[1].id = Contract!ResponseId(req, Contract!OpcodeOf(req.id))
        /\ Len(last'.out[1].data) \in {1, 2, 4}
    BY <1>1, <2>2, SameFormat DEF Did
  <2>4. Contract!MayStop(req) /\ Contract!PastTable(req)
    BY SameReasons DEF Contract!MayStop
  <2>5. UNCHANGED vals /\ up' = up /\ last'.req = req
    BY <2>1 DEF Did
  <2>6. Contract!Undefined(req)
    BY <2>3, <2>4, <2>5 DEF Contract!Undefined
  <2> QED
    BY <2>6 DEF Contract!Step
<1>2. CASE IsStop(o, vals)
  BY <1>2, StopKeeps DEF Contract!Step
<1>3. CASE ErrorOutcome(o, vals, req)
  BY <1>0, <1>3, ErrorKeeps
<1> QED
  BY <1>1, <1>2, <1>3 DEF PastOutcome

LEMMA ManifestKeeps ==
  ASSUME NEW o, NEW req, Did(o, req), Addressed(req),
         OpcodeOf(req.id) = READ_MANIFEST, ManifestOutcome(o, vals, req)
  PROVE  Contract!Step(req)
<1>1. CASE req.data = << >> /\ IsReply(o, vals, req, Segment(Manifest, PropertyIndex(req.id)))
  <2>1. /\ o.vals = vals /\ o.ok = TRUE
        /\ o.out = <<Message(ReplyId(req, READ_MANIFEST),
                             Segment(Manifest, PropertyIndex(req.id)))>>
    BY <1>1, OutcomeParts, ZenonT(60)
  <2>2. o.out = <<Contract!Message(Contract!ResponseId(req, Contract!READ_MANIFEST),
                                   Contract!Segment(Manifest, Contract!PropertyIndex(req.id)))>>
    BY <2>1, SameFormat, SameCodes, SameTable
  <2>3. Contract!ServeManifest(req)
    BY <1>1, <2>1, <2>2, SameFormat, SameCodes DEF Contract!ServeManifest, Did
  <2> QED
    BY <2>3 DEF Contract!Step
<1> QED
  BY <1>1, ErrorKeeps DEF ManifestOutcome

LEMMA ReadKeeps ==
  ASSUME NEW o, NEW req, Did(o, req), Addressed(req),
         OpcodeOf(req.id) = READ_PROPERTY, ReadOutcome(o, vals, req)
  PROVE  Contract!Step(req)
<1> DEFINE p == PropertyIndex(req.id)
<1>1. CASE GoodRead(req) /\ IsReply(o, vals, req, Bytes(vals[p], PropSize[p]))
  <2>1. /\ o.vals = vals /\ o.ok = TRUE
        /\ o.out = <<Message(ReplyId(req, READ_PROPERTY), Bytes(vals[p], PropSize[p]))>>
    BY <1>1, OutcomeParts, ZenonT(60)
  <2>2. Contract!PropertyIndex(req.id) = p
    BY SameFormat
  <2>3. o.out = <<Contract!Message(Contract!ResponseId(req, Contract!READ_PROPERTY),
                                   Contract!Bytes(vals[p], PropSize[p]))>>
    BY <2>1, SameFormat, SameCodes, SameTable
  <2>4. Contract!ServeRead(req)
    BY <1>1, <2>1, <2>2, <2>3, SameFormat, SameReasons DEF Contract!ServeRead, Did
  <2> QED
    BY <2>4 DEF Contract!Step
<1> QED
  BY <1>1, ErrorKeeps, PastKeeps DEF ReadOutcome

LEMMA WriteKeeps ==
  ASSUME NEW o, NEW req, Did(o, req), Addressed(req),
         OpcodeOf(req.id) = WRITE_PROPERTY, WriteOutcome(o, vals, req)
  PROVE  Contract!Step(req)
<1> DEFINE p == PropertyIndex(req.id)
<1>1. ASSUME GoodWrite(req), NEW kept \in 0..Limit[p], OfType(p, kept),
             IsReply(o, [vals EXCEPT ![p] = kept], req, Bytes(kept, PropSize[p]))
      PROVE  Contract!Step(req)
  <2>1. /\ o.vals = [vals EXCEPT ![p] = kept] /\ o.ok = TRUE
        /\ o.out = <<Message(ReplyId(req, WRITE_PROPERTY), Bytes(kept, PropSize[p]))>>
    BY <1>1, OutcomeParts, ZenonT(60)
  <2>2. Contract!PropertyIndex(req.id) = p
    BY SameFormat
  <2>3. o.out = <<Contract!Message(Contract!ResponseId(req, Contract!WRITE_PROPERTY),
                                   Contract!Bytes(kept, PropSize[p]))>>
    BY <2>1, SameFormat, SameCodes, SameTable
  <2>4. Contract!ServeWrite(req)
    BY <1>1, <2>1, <2>2, <2>3, SameFormat, SameReasons, SameTable DEF Contract!ServeWrite, Did
  <2> QED
    BY <2>4 DEF Contract!Step
<1> QED
  BY <1>1, ErrorKeeps, PastKeeps DEF WriteOutcome

LEMMA StepKeeps ==
  ASSUME NEW o, NEW req, Did(o, req), HandleOutcomeIs(o, vals, req)
  PROVE  Contract!Step(req)
<1>1. CASE IsPassedOver(o, vals) /\ (Addressed(req) => OpcodeOf(req.id) \notin Requests)
  BY <1>1, IgnoreKeeps DEF Contract!Step
<1> QED
  BY <1>1, ManifestKeeps, ReadKeeps, WriteKeeps DEF HandleOutcomeIs

LEMMA NextKeeps ==
  ASSUME IInv, [Next]_vars
  PROVE  [Contract!Next]_(Contract!vars)
<1>1. ASSUME NEW id \in Ids, NEW data \in Payloads, Receive(id, data)
      PROVE  Contract!Next
  <2>1. PICK req, o :
          /\ HandleOutcomeIs(o, vals, req)
          /\ up /\ vals' = o.vals /\ up' = o.ok
          /\ last' = [req |-> req, out |-> o.out]
    BY <1>1, ReceiveCases
  <2>2. up = TRUE
    BY <2>1 DEF IInv, StateOK
  <2>3. Did(o, req)
    BY <2>1, <2>2 DEF Did
  <2>4. Contract!Step(req) /\ last'.req = req
    BY <2>1, <2>3, StepKeeps
  <2>5. up /\ Contract!Step(last'.req)
    BY <2>1, <2>4
  <2> QED
    BY <2>5 DEF Contract!Next
<1>2. ASSUME NEW p \in Property, Change(p) PROVE Contract!Next
  <2>1. vals' \in Values
    BY Inductive, <1>2 DEF IInv, StateOK, Next
  <2>2. Contract!Change
    BY <1>2, <2>1, SameTable DEF Change, Contract!Change, Contract!Values, Values
  <2> QED
    BY <2>2 DEF Contract!Next
<1>3. ASSUME Restart PROVE Contract!Next
  BY <1>3, SameTable DEF Restart, Contract!Start, Contract!Next
<1>4. ASSUME UNCHANGED vars PROVE UNCHANGED Contract!vars
  BY <1>4 DEF vars, Contract!vars
<1> QED
  BY <1>1, <1>2, <1>3, <1>4 DEF Next

(* Whatever frames arrive, whatever the callbacks do and whenever the      *)
(* device restarts, every step of the device is one the contract allows:   *)
(* it ignores what is not for it, a refusal has its reason in the request  *)
(* or a callback, names the request and changes nothing, an answer tells the value the property has, and a write that   *)
(* is acknowledged has changed that property alone.                        *)
THEOREM DeviceKeepsContract == Spec => ImplementsContract
<1>1. Init => Contract!Init
  BY SameTable DEF Init, Contract!Init
<1>2. IInv /\ [Next]_vars => [Contract!Next]_(Contract!vars)
  BY NextKeeps
<1> QED
  BY <1>1, <1>2, Invariance, PTL DEF Spec, ImplementsContract, Contract!Spec

=============================================================================
