----------------------- MODULE PropertyAccess_proofs -----------------------
(***************************************************************************)
(* What holds of PropertyAccess for any number of clients and devices, any *)
(* property table and calls, and whatever is late, lost or foreign: type   *)
(* correctness, and that an answer comes from the device that was asked.   *)
(* Then, what needs more: that answers and acknowledged writes are true,   *)
(* for a client that is alone on its bus; and that no read is left without *)
(* an answer, for any number of clients of devices that refuse nothing.    *)
(***************************************************************************)
EXTENDS PropertyAccess, SequenceTheorems, TLAPS

-----------------------------------------------------------------------------
(* Identifiers: facts about their layout, for every field value.           *)

(* The fields of an identifier put together from fields are those fields:  *)
(* unpack_id after make_frame_id, dp_handle_message_ext after dpp_make_id. *)
LEMMA UnpackMake ==
  ASSUME NEW dir \in Dirs, NEW node \in NodeIds, NEW opcode \in Codes,
         NEW index \in Indices
  PROVE  LET id == MakeId(dir, node, opcode, index)
         IN  /\ id \in Nat /\ IsDevprop(id) /\ DirOf(id) = dir
             /\ NodeOf(id) = node /\ OpcodeOf(id) = opcode
             /\ PropertyIndex(id) = index
<1> DEFINE id == MakeId(dir, node, opcode, index)
<1>1. /\ dir \in Int /\ 0 <= dir /\ dir <= 1 /\ node \in Int /\ 0 <= node /\ node <= 31
      /\ opcode \in Int /\ 0 <= opcode /\ opcode <= 7
      /\ index \in Int /\ 0 <= index /\ index <= 255
  BY SMT DEF Dirs, NodeIds, Codes, Indices
<1>2. id = 3960 * 131072 + dir * 65536 + node * 2048 + opcode * 256 + index
  BY <1>1, SMT DEF MakeId, ID_FIXED_PART
<1> HIDE DEF id
<1>3. id \in Nat /\ IsDevprop(id)
  BY <1>1, <1>2, SMT DEF IsDevprop
<1>4. DirOf(id) = dir /\ NodeOf(id) = node
  BY <1>1, <1>2, SMT DEF DirOf, NodeOf
<1>5. OpcodeOf(id) = opcode /\ PropertyIndex(id) = index
  BY <1>1, <1>2, SMT DEF OpcodeOf, PropertyIndex
<1> QED
  BY <1>3, <1>4, <1>5 DEF id

(* The id ^ DIR_MASK of a request is the identifier of its response: the   *)
(* same node, operation and index, the other direction.                    *)
LEMMA FlipMake ==
  ASSUME NEW node \in NodeIds, NEW opcode \in Codes, NEW index \in Indices
  PROVE  FlipDir(MakeId(CLIENT_TO_DEVICE, node, opcode, index))
           = MakeId(DEVICE_TO_CLIENT, node, opcode, index)
<1>1. CLIENT_TO_DEVICE \in Dirs
  BY SMT DEF Dirs, CLIENT_TO_DEVICE
<1>2. DirOf(MakeId(CLIENT_TO_DEVICE, node, opcode, index)) = CLIENT_TO_DEVICE
  BY <1>1, UnpackMake
<1> QED
  BY <1>2, SMT DEF FlipDir, MakeId, ID_FIXED_PART, NodeIds, Codes, Indices,
                   CLIENT_TO_DEVICE, DEVICE_TO_CLIENT

(* The constants of the format are fields it can carry.                    *)
LEMMA FieldRanges ==
  /\ CLIENT_TO_DEVICE \in Dirs /\ DEVICE_TO_CLIENT \in Dirs
  /\ CLIENT_TO_DEVICE # DEVICE_TO_CLIENT
  /\ READ_PROPERTY \in Codes /\ WRITE_PROPERTY \in Codes
  /\ READ_MANIFEST \in Codes /\ ERROR \in Codes
  /\ READ_MANIFEST \notin {READ_PROPERTY, WRITE_PROPERTY, ERROR}
  /\ READ_PROPERTY \notin {WRITE_PROPERTY, ERROR} /\ WRITE_PROPERTY # ERROR
BY SMT DEF CLIENT_TO_DEVICE, DEVICE_TO_CLIENT, READ_PROPERTY, WRITE_PROPERTY,
           READ_MANIFEST, ERROR, Dirs, Codes

(* The fields of the identifier of a request, and of its responses.        *)
LEMMA UnpackRequest ==
  ASSUME NEW node \in NodeIds, NEW opcode \in Codes, NEW index \in Indices,
         NEW dir \in {CLIENT_TO_DEVICE, DEVICE_TO_CLIENT}
  PROVE  LET id == MakeId(dir, node, opcode, index)
         IN  /\ id \in Nat /\ IsDevprop(id) /\ DirOf(id) = dir
             /\ NodeOf(id) = node /\ OpcodeOf(id) = opcode
             /\ PropertyIndex(id) = index
BY UnpackMake, FieldRanges

-----------------------------------------------------------------------------
(* Values, and what is in a queue.                                         *)

LEMMA QuotientType ==
  ASSUME NEW a \in Nat, NEW b \in Nat \ {0}
  PROVE  a \div b \in Nat
BY SMT

LEMMA WeightType == Weight \in [1..4 -> Nat \ {0}]
<1>1. /\ Base \in Nat \ {0}
      /\ Base * Base \in Nat \ {0}
      /\ Base * Base * Base \in Nat \ {0}
  BY DeviceAssumption, SMT
<1> QED
  BY <1>1, SMT DEF Weight

(* The bytes of a value are bytes, as many as the type has.                *)
LEMMA BytesType ==
  ASSUME NEW v \in Nat, NEW size \in 0..4
  PROVE  Bytes(v, size) \in Seq(Nat) /\ Len(Bytes(v, size)) = size
<1>1. Base \in Nat \ {0}
  BY DeviceAssumption, SMT
<1>2. ASSUME NEW i \in 1..size
      PROVE  (v \div Weight[i]) % Base \in Nat
  <2>1. Weight[i] \in Nat \ {0}
    BY WeightType, SMT
  <2>2. v \div Weight[i] \in Nat
    BY <2>1, QuotientType
  <2> QED
    BY <1>1, <2>2, SMT
<1>3. Bytes(v, size) \in [1..size -> Nat]
  BY <1>2 DEF Bytes
<1> QED
  BY <1>3, SMT

(* A payload stands for a number, and a setter keeps a number.             *)
LEMMA KeptType ==
  ASSUME NEW data \in Seq(Nat), NEW limit \in Nat
  PROVE  Lesser(Value(data), limit) \in Nat
<1> DEFINE digit(i) == IF i <= Len(data) THEN data[i] * Weight[i] ELSE 0
<1>1. ASSUME NEW i \in 1..4 PROVE digit(i) \in Nat
  <2>1. Weight[i] \in Nat
    BY WeightType
  <2>2. ASSUME i <= Len(data) PROVE data[i] \in Nat
    BY <2>2, ElementOfSeq, SMT
  <2>3. ASSUME NEW a \in Nat, NEW b \in Nat PROVE a * b \in Nat
    BY SMT
  <2>4. CASE i <= Len(data)
    BY <2>1, <2>2, <2>3, <2>4
  <2>5. CASE ~ (i <= Len(data))
    BY <2>5, SMT
  <2> QED
    BY <2>4, <2>5
<1>2. digit(1) \in Nat /\ digit(2) \in Nat /\ digit(3) \in Nat /\ digit(4) \in Nat
  BY <1>1, SMT
<1>3. Value(data) = digit(1) + digit(2) + digit(3) + digit(4)
  BY DEF Value
<1> HIDE DEF digit
<1> QED
  BY <1>2, <1>3, SMT DEF Lesser

(* What is in a queue after a frame has been put into it or taken from it. *)
LEMMA RangeOf ==
  ASSUME NEW S, NEW q \in Seq(S), NEW e \in S
  PROVE  /\ Range(Append(q, e)) = Range(q) \cup {e}
         /\ q # << >> => Range(q) = Range(Tail(q)) \cup {Head(q)}
         /\ q \o <<e>> = Append(q, e)
         /\ Range(<< >>) = {}
         /\ Range(q) \subseteq S
<1>1. /\ DOMAIN q = 1..Len(q) /\ Len(q) \in Nat
      /\ DOMAIN Append(q, e) = 1..(Len(q) + 1)
      /\ \A i \in 1..Len(q) : Append(q, e)[i] = q[i] /\ q[i] \in S
      /\ Append(q, e)[Len(q) + 1] = e
  BY SMT
<1>2. Range(Append(q, e)) = Range(q) \cup {e}
  <2>1. ASSUME NEW x \in Range(q) PROVE x \in Range(Append(q, e))
    <3>1. PICK i \in 1..Len(q) : q[i] = x
      BY <1>1, <2>1 DEF Range
    <3>2. i \in 1..(Len(q) + 1)
      BY <1>1, <3>1, SMT
    <3> QED
      BY <1>1, <3>1, <3>2 DEF Range
  <2>2. e \in Range(Append(q, e))
    <3>1. Len(q) + 1 \in 1..(Len(q) + 1)
      BY <1>1, SMT
    <3> QED
      BY <1>1, <3>1 DEF Range
  <2>3. ASSUME NEW x \in Range(Append(q, e)) PROVE x \in Range(q) \cup {e}
    <3>1. PICK i \in 1..(Len(q) + 1) : Append(q, e)[i] = x
      BY <1>1, <2>3 DEF Range
    <3>2. i \in 1..Len(q) \/ i = Len(q) + 1
      BY <1>1, <3>1, SMT
    <3> QED
      BY <1>1, <3>1, <3>2 DEF Range
  <2> QED
    BY <2>1, <2>2, <2>3
<1>3. ASSUME q # << >> PROVE Range(q) = Range(Tail(q)) \cup {Head(q)}
  <2>1. /\ DOMAIN Tail(q) = 1..(Len(q) - 1) /\ 1 \in 1..Len(q) /\ Head(q) = q[1]
        /\ \A i \in 1..(Len(q) - 1) : Tail(q)[i] = q[i + 1] /\ i + 1 \in 1..Len(q)
        /\ \A i \in 1..Len(q) : i # 1 => i - 1 \in 1..(Len(q) - 1) /\ (i - 1) + 1 = i
    BY <1>1, <1>3, SMT
  <2>2. ASSUME NEW x \in Range(q) PROVE x \in Range(Tail(q)) \cup {Head(q)}
    <3>1. PICK i \in 1..Len(q) : q[i] = x
      BY <1>1, <2>2 DEF Range
    <3>2. CASE i = 1
      BY <2>1, <3>1, <3>2
    <3>3. CASE i # 1
      <4>1. i - 1 \in DOMAIN Tail(q) /\ Tail(q)[i - 1] = x
        BY <2>1, <3>1, <3>3
      <4> QED
        BY <4>1 DEF Range
    <3> QED
      BY <3>2, <3>3
  <2>3. Head(q) \in Range(q)
    BY <1>1, <2>1 DEF Range
  <2>4. ASSUME NEW x \in Range(Tail(q)) PROVE x \in Range(q)
    <3>1. PICK i \in 1..(Len(q) - 1) : Tail(q)[i] = x
      BY <2>1, <2>4 DEF Range
    <3> QED
      BY <1>1, <2>1, <3>1 DEF Range
  <2> QED
    BY <2>2, <2>3, <2>4
<1>4. q \o <<e>> = Append(q, e)
  BY SMT
<1>5. Range(<< >>) = {}
  BY DEF Range
<1>6. Range(q) \subseteq S
  BY <1>1 DEF Range
<1> QED
  BY <1>2, <1>3, <1>4, <1>5, <1>6

-----------------------------------------------------------------------------
(* What dp_handle_message_ext makes of a request for a property its table  *)
(* has: exactly one frame, an error that names the request or the value the *)
(* property has afterwards.                                                *)

(* A response to the request for operation opcode on property p of a node: *)
(* an error that names the property, or the bytes of the value it now has. *)
IsErrorFor(msg, node, p) == msg.id = MakeId(DEVICE_TO_CLIENT, node, ERROR, p)

IsValueFor(msg, node, opcode, p, values) ==
  /\ msg.id = MakeId(DEVICE_TO_CLIENT, node, opcode, p)
  /\ PropSize[p] \in {1, 2, 4}
  /\ msg.data = Bytes(values[p], PropSize[p])

LEMMA PropertyRange ==
  /\ NumProps \in Nat
  /\ Property \subseteq Indices
  /\ \A p \in Property : p \in Nat /\ 1 <= p /\ p <= NumProps /\ p <= MAX_PROPERTY_INDEX
<1>1. NumProps \in Nat
  BY DeviceAssumption, SMT DEF NumProps
<1>2. NumProps <= MAX_PROPERTY_INDEX /\ MAX_PROPERTY_INDEX \in 1..255
  BY DeviceAssumption, FormatAssumption
<1> QED
  BY <1>1, <1>2, SMT DEF Property, Indices

LEMMA SendErrorOutcome ==
  ASSUME NEW id, NEW node \in DeviceIds, NodeOf(id) = node,
         NEW p \in Property, PropertyIndex(id) = p, OpcodeOf(id) \in Nat,
         NEW code \in ErrorRange, NEW values, NEW o \in SendError(values, id, code)
  PROVE  /\ o.vals = values
         /\ o.ok
         /\ \E data \in Seq(Nat) :
              o.out = <<Message(MakeId(DEVICE_TO_CLIENT, node, ERROR, p), data)>>
<1>1. p <= MAX_PROPERTY_INDEX /\ p >= 0
  BY PropertyRange, FormatAssumption, SMT
<1>2. ERROR \notin {READ_PROPERTY, WRITE_PROPERTY}
  BY FieldRanges
<1>3. DeviceCanMake(node, ERROR, p)
  BY <1>1, <1>2 DEF DeviceCanMake, IndexAllowed
<1> DEFINE data == <<OpcodeOf(id), -code>>
           msg  == Message(MakeId(DEVICE_TO_CLIENT, node, ERROR, p), data)
<1>4. data \in Seq(Nat)
  <2>1. -code \in Nat
    BY SMT DEF ErrorRange
  <2> QED
    BY <2>1, SMT
<1>5. o = Outcome(values, <<msg>>, TRUE)
  BY <1>3 DEF SendError
<1>6. o.vals = values /\ o.ok /\ o.out = <<msg>>
  BY <1>5 DEF Outcome
<1> QED
  BY <1>4, <1>6

LEMMA ReplyOutcome ==
  ASSUME NEW id, NEW respId, FlipDir(id) = respId, NEW values, NEW data,
         NEW o \in Reply(values, id, data)
  PROVE  o.vals = values /\ o.ok /\ o.out = <<Message(respId, data)>>
<1>1. o = Outcome(values, <<Message(respId, data)>>, TRUE)
  BY DEF Reply
<1> QED
  BY <1>1 DEF Outcome

LEMMA HandleOutcome ==
  ASSUME NEW node \in DeviceIds, NEW p \in Property, NEW opcode \in {READ_PROPERTY, WRITE_PROPERTY},
         NEW data \in Seq(Nat), opcode = READ_PROPERTY => data = << >>,
         NEW values \in [Property -> Nat], NEW manifest,
         NEW o \in Handle(node, manifest, values,
                          Message(MakeId(CLIENT_TO_DEVICE, node, opcode, p), data))
  PROVE  /\ o.vals \in [Property -> Nat]
         /\ o.ok
         /\ \E msg \in [id : Nat, data : Seq(Nat)] :
              /\ o.out = <<msg>>
              /\ \/ IsErrorFor(msg, node, p)
                 \/ IsValueFor(msg, node, opcode, p, o.vals)
<1> DEFINE id  == MakeId(CLIENT_TO_DEVICE, node, opcode, p)
           req == Message(id, data)
<1>1. node \in NodeIds /\ opcode \in Codes /\ p \in Indices
  BY PropertyRange, FieldRanges, SMT DEF NodeIds, DeviceIds
<1>2. /\ IsDevprop(id) /\ DirOf(id) = CLIENT_TO_DEVICE
      /\ NodeOf(id) = node /\ PropertyIndex(id) = p /\ OpcodeOf(id) = opcode
  BY <1>1, UnpackRequest
<1> DEFINE respId == MakeId(DEVICE_TO_CLIENT, node, opcode, p)
<1>13. FlipDir(id) = respId
  BY <1>1, FlipMake
<1>3. req.id = id /\ req.data = data
  BY DEF Message
<1>4. /\ MakeId(DEVICE_TO_CLIENT, node, ERROR, p) \in Nat
      /\ MakeId(DEVICE_TO_CLIENT, node, opcode, p) \in Nat
  BY <1>1, FieldRanges, UnpackRequest
<1>14. OpcodeOf(id) \in Nat
  BY <1>1, <1>2, SMT DEF Codes
<1>15. o \in Handle(node, manifest, values, req)
  OBVIOUS
<1> HIDE DEF id, req
<1>5. ~ (p < 1) /\ ~ (p > NumProps + 1) /\ p # NumProps + 1
  BY PropertyRange, SMT
<1>6. PropSize[p] \in {0, 1, 2, 4}
  BY DeviceAssumption, SMT DEF Property, NumProps
<1>7. ASSUME NEW code \in ErrorRange, o \in SendError(values, id, code)
      PROVE  /\ o.vals \in [Property -> Nat]
             /\ o.ok
             /\ \E msg \in [id : Nat, data : Seq(Nat)] :
                  o.out = <<msg>> /\ IsErrorFor(msg, node, p)
  <2>0. /\ o.vals = values
        /\ o.ok
        /\ \E body \in Seq(Nat) :
             o.out = <<Message(MakeId(DEVICE_TO_CLIENT, node, ERROR, p), body)>>
    <3>1. NodeOf(id) = node /\ PropertyIndex(id) = p
      BY <1>2
    <3> QED
      BY <1>7, <1>14, <3>1, SendErrorOutcome, SMTT(30)
  <2>1. PICK d \in Seq(Nat) :
          o.out = <<Message(MakeId(DEVICE_TO_CLIENT, node, ERROR, p), d)>>
    BY <2>0
  <2>2. o.vals = values /\ o.ok
    BY <2>0
  <2>3. Message(MakeId(DEVICE_TO_CLIENT, node, ERROR, p), d) \in [id : Nat, data : Seq(Nat)]
    BY <1>4 DEF Message
  <2>4. IsErrorFor(Message(MakeId(DEVICE_TO_CLIENT, node, ERROR, p), d), node, p)
    BY DEF IsErrorFor, Message
  <2> QED
    BY <2>1, <2>2, <2>3, <2>4
<1>8. ASSUME o \in UserError(values, id)
      PROVE  \E code \in ErrorRange : o \in SendError(values, id, code)
  BY <1>8, DeviceAssumption DEF UserError
<1>9. ASSUME NEW new \in [Property -> Nat], PropSize[p] # 0,
             o \in Reply(new, id, Bytes(new[p], PropSize[p]))
      PROVE  /\ o.vals \in [Property -> Nat]
             /\ o.ok
             /\ \E msg \in [id : Nat, data : Seq(Nat)] :
                  o.out = <<msg>> /\ IsValueFor(msg, node, opcode, p, o.vals)
  <2> DEFINE msg == Message(MakeId(DEVICE_TO_CLIENT, node, opcode, p), Bytes(new[p], PropSize[p]))
  <2>1. o.vals = new /\ o.ok /\ o.out = <<msg>>
    BY <1>9, <1>13, ReplyOutcome
  <2>2. new[p] \in Nat /\ PropSize[p] \in 0..4 /\ PropSize[p] \in {1, 2, 4}
    BY <1>6, <1>9, SMT
  <2>3. Bytes(new[p], PropSize[p]) \in Seq(Nat)
    BY <2>2, BytesType
  <2>4. msg \in [id : Nat, data : Seq(Nat)]
    BY <1>4, <2>3, SMT DEF Message
  <2>5. IsValueFor(msg, node, opcode, p, new)
    BY <2>2 DEF IsValueFor, Message
  <2> QED
    BY <2>1, <2>4, <2>5
<1>10. /\ VALUE_ERROR \in ErrorRange /\ NOT_IMPLEMENTED \in ErrorRange
       /\ PROTOCOL_ERROR \in ErrorRange
  BY SMT DEF VALUE_ERROR, NOT_IMPLEMENTED, PROTOCOL_ERROR, ErrorRange
<1>11. CASE opcode = READ_PROPERTY
  <2>1. o \in GetPropertyValue(p, values, req)
    <3>1. opcode # READ_MANIFEST
      BY <1>11, SMT DEF READ_PROPERTY, READ_MANIFEST
    <3>2. o \in ReadProperty(values, req)
      BY <1>2, <1>3, <1>11, <1>15, <3>1 DEF Handle
    <3> QED
      BY <1>2, <1>3, <1>5, <1>11, <3>2 DEF ReadProperty
  <2>2. \/ o \in Reply(values, id, Bytes(values[p], PropSize[p])) /\ PropSize[p] # 0
        \/ \E code \in ErrorRange : o \in SendError(values, id, code)
    BY <1>3, <1>8, <1>10, <2>1 DEF GetPropertyValue
  <2> QED
    BY <1>7, <1>9, <2>2
<1>12. CASE opcode = WRITE_PROPERTY
  <2> DEFINE kept == Lesser(Value(data), Limit[p])
             new  == [values EXCEPT ![p] = kept]
  <2>1. o \in SetPropertyValue(p, values, req)
    <3>1. opcode # READ_MANIFEST /\ opcode # READ_PROPERTY
      BY <1>12, SMT DEF READ_PROPERTY, READ_MANIFEST, WRITE_PROPERTY
    <3>2. o \in WriteProperty(values, req)
      BY <1>2, <1>3, <1>12, <1>15, <3>1 DEF Handle
    <3> QED
      BY <1>2, <1>3, <1>5, <3>2 DEF WriteProperty
  <2>2. kept \in Nat
    BY DeviceAssumption, KeptType
  <2>3. new \in [Property -> Nat] /\ new[p] = kept
    BY <2>2
  <2>4. \/ o \in Reply(new, id, Bytes(kept, PropSize[p])) /\ PropSize[p] # 0
        \/ \E code \in ErrorRange : o \in SendError(values, id, code)
    BY <1>3, <1>8, <1>10, <2>1 DEF SetPropertyValue
  <2> QED
    BY <1>7, <1>9, <2>3, <2>4
<1> QED
  BY <1>11, <1>12

-----------------------------------------------------------------------------
PacketType == [tag : Tags, req : Msg, msg : Msg]

\* A request a client makes of node n.
IsRequestFor(n, req) ==
  \E opcode \in {READ_PROPERTY, WRITE_PROPERTY}, p \in Property :
    /\ req.id = MakeId(CLIENT_TO_DEVICE, n, opcode, p)
    /\ opcode = READ_PROPERTY => req.data = << >>

\* What waits for device n.
DeviceQueue(n) ==
  {k \in PacketType : k.req = k.msg /\ IsRequestFor(n, k.msg)}

\* A response with a value is the device's response to the request recorded
\* with it, and as long as the property that request names.
IsGenuine(k) ==
  Unpacks(k.msg) /\ DirOf(k.msg.id) = DEVICE_TO_CLIENT
    /\ OpcodeOf(k.msg.id) \in {READ_PROPERTY, WRITE_PROPERTY} =>
  /\ NodeOf(k.req.id) = NodeOf(k.msg.id)
  /\ OpcodeOf(k.req.id) = OpcodeOf(k.msg.id)
  /\ Len(k.msg.data) = PropSize[PropertyIndex(k.req.id)]

\* What waits for a client.
ClientQueue == {k \in PacketType : IsGenuine(k)}

(* The inductive invariant: an answer comes from the node because every    *)
(* frame on the bus comes from where its identifier says.                  *)
QueuesOK ==
  /\ devq \in [Node -> Seq(PacketType)]
  /\ \A n \in Node : devq[n] \in Seq(DeviceQueue(n))
  /\ rxq \in [Client -> Seq(ClientQueue)]

IInv == TypeOK /\ QueuesOK /\ AnswerFromTheNode

-----------------------------------------------------------------------------
LEMMA PropSizeType ==
  /\ PropSize \in [Property -> {0, 1, 2, 4}]
  /\ \A p \in Property : PropSize[p] \in 0..4
BY DeviceAssumption, SMT DEF Property, NumProps

LEMMA NodeRange == Node \subseteq DeviceIds /\ Node \subseteq NodeIds
BY AccessAssumption, SMT DEF DeviceIds, NodeIds

(* A client busy with a query asks a device for one of its properties.     *)
LEMMA TargetType ==
  ASSUME TypeOK, NEW c \in Client, pc[c] # "idle"
  PROVE  /\ call[c] \in Calls
         /\ call[c] \in Call
         /\ Target(c) = <<TargetNode(c), TargetProperty(c)>>
         /\ TargetNode(c) \in Node
         /\ TargetProperty(c) \in Property
         /\ Len(answers[c]) \in Nat
         /\ Len(answers[c]) + 1 \in 1..Len(call[c].list)
<1>1. /\ call[c] \in Calls \cup {NoCall} /\ Len(answers[c]) < Len(call[c].list)
      /\ answers[c] \in Seq(AnswerType)
  BY DEF TypeOK
<1>2. call[c] # NoCall
  <2>1. SUFFICES ASSUME call[c] = NoCall PROVE FALSE
    OBVIOUS
  <2>2. Len(call[c].list) = 0
    BY <2>1, SMT DEF NoCall
  <2> QED
    BY <1>1, <2>2, SMT
<1>3. call[c] \in Calls /\ call[c] \in Call
  BY <1>1, <1>2, AccessAssumption
<1>4. call[c].list \in Seq(Node \X Property)
  BY <1>3 DEF Call
<1>5. Len(answers[c]) \in Nat /\ Len(answers[c]) + 1 \in 1..Len(call[c].list)
  BY <1>1, <1>4, SMT
<1>6. Target(c) \in Node \X Property
  BY <1>4, <1>5, ElementOfSeq DEF Target
<1> QED
  BY <1>3, <1>5, <1>6, SMT DEF TargetNode, TargetProperty

(* The request it sends is one for that device, and no response.           *)
LEMMA RequestType ==
  ASSUME TypeOK, NEW c \in Client, pc[c] # "idle", NEW tag \in Tags
  PROVE  /\ Packet(tag, Request(c), Request(c)) \in DeviceQueue(TargetNode(c))
         /\ Packet(tag, Request(c), Request(c)) \in ClientQueue
<1> DEFINE n == TargetNode(c)
           p == TargetProperty(c)
           op == call[c].op
           data == IF op = WRITE_PROPERTY THEN call[c].data ELSE << >>
           id == MakeId(CLIENT_TO_DEVICE, n, op, p)
           k == Packet(tag, Request(c), Request(c))
<1>1. /\ n \in Node /\ n \in NodeIds /\ p \in Property /\ p \in Indices
      /\ op \in {READ_PROPERTY, WRITE_PROPERTY} /\ call[c].data \in Seq(Nat)
  BY TargetType, NodeRange, PropertyRange DEF Call
<1>2. op \in Codes /\ CLIENT_TO_DEVICE # DEVICE_TO_CLIENT
  BY <1>1, FieldRanges
<1>3. id \in Nat /\ DirOf(id) = CLIENT_TO_DEVICE
  BY <1>1, <1>2, UnpackRequest
<1>4. Request(c) = Message(id, data)
  BY <1>1, FieldRanges DEF Request, ReadPropertyRequest, WritePropertyRequest
<1>5. Request(c).id = id /\ Request(c).data = data
  BY <1>4 DEF Message
<1>6. data \in Seq(Nat)
  BY <1>1, EmptySeq
<1>7. Request(c) \in Msg
  BY <1>3, <1>4, <1>6 DEF Message, Msg
<1>8. k \in PacketType /\ k.req = k.msg /\ k.msg = Request(c)
  BY <1>7 DEF Packet, PacketType
<1>9. IsRequestFor(n, Request(c))
  BY <1>1, <1>5, FieldRanges DEF IsRequestFor
<1>10. IsGenuine(k)
  BY <1>2, <1>3, <1>5, <1>8 DEF IsGenuine
<1> QED
  BY <1>8, <1>9, <1>10 DEF DeviceQueue, ClientQueue

(* The values seen during a query are strings of bytes.                    *)
LEMMA HeldType ==
  ASSUME TypeOK, NEW newVals \in [Node -> [Property -> Nat]]
  PROVE  HeldWith(newVals) \in [Client -> SUBSET Seq(Nat)]
<1>1. ASSUME NEW c \in Client, pc[c] = "recv"
      PROVE  Encoded(newVals, TargetNode(c), TargetProperty(c)) \in Seq(Nat)
  <2>1. TargetNode(c) \in Node /\ TargetProperty(c) \in Property
    BY <1>1, TargetType
  <2>2. newVals[TargetNode(c)][TargetProperty(c)] \in Nat
    BY <2>1
  <2> QED
    BY <2>1, <2>2, PropSizeType, BytesType DEF Encoded
<1> QED
  BY <1>1 DEF HeldWith, TypeOK

(* A query that ends with a value from the right device and operation, or  *)
(* with none, leaves the answers as they should be.                        *)
LEMMA AnswerStep ==
  ASSUME TypeOK, AnswerFromTheNode, NEW c \in Client, pc[c] # "idle",
         NEW value \in Seq(Nat), NEW tag \in Tags, NEW req \in Msg,
         value # NoValue =>
           /\ NodeOf(req.id) = TargetNode(c)
           /\ OpcodeOf(req.id) = call[c].op
           /\ Len(value) = PropSize[PropertyIndex(req.id)],
         Answer(c, value, tag, req)
  PROVE  /\ answers' \in [Client -> Seq(AnswerType)]
         /\ pc' \in [Client -> {"idle", "send", "recv"}]
         /\ \A d \in Client :
              /\ Len(answers'[d]) <= Len(call'[d].list)
              /\ pc'[d] # "idle" => Len(answers'[d]) < Len(call'[d].list)
         /\ AnswerFromTheNode'
<1> DEFINE answer == [value |-> value, tag |-> tag, req |-> req,
                      held |-> held[c], sent |-> sent[c]]
           new == Append(answers[c], answer)
<1>1. answer \in AnswerType
  BY DEF TypeOK, AnswerType
<1>2. answers[c] \in Seq(AnswerType)
  BY DEF TypeOK
<1>3. /\ new \in Seq(AnswerType)
      /\ Len(new) = Len(answers[c]) + 1
      /\ \A i \in 1..Len(answers[c]) : new[i] = answers[c][i]
      /\ new[Len(answers[c]) + 1] = answer
  BY <1>1, <1>2, SMT
<1>4. /\ answers' = [answers EXCEPT ![c] = new]
      /\ pc' = [pc EXCEPT ![c] = IF Len(answers[c]) + 1 = Len(call[c].list)
                                 THEN "idle" ELSE "send"]
      /\ call' = call
  BY DEF Answer
<1> HIDE DEF answer, new
<1>5. answers' \in [Client -> Seq(AnswerType)] /\ pc' \in [Client -> {"idle", "send", "recv"}]
  BY <1>3, <1>4 DEF TypeOK
<1>6. answers'[c] = new /\ \A d \in Client \ {c} : answers'[d] = answers[d] /\ pc'[d] = pc[d]
  BY <1>4 DEF TypeOK
<1>7. Len(answers[c]) \in Nat /\ Len(answers[c]) + 1 \in 1..Len(call[c].list)
  BY TargetType
<1>8. \A d \in Client :
        /\ Len(answers'[d]) <= Len(call'[d].list)
        /\ pc'[d] # "idle" => Len(answers'[d]) < Len(call'[d].list)
  <2>1. ASSUME NEW d \in Client \ {c}
        PROVE  /\ Len(answers'[d]) <= Len(call'[d].list)
               /\ pc'[d] # "idle" => Len(answers'[d]) < Len(call'[d].list)
    BY <1>4, <1>6 DEF TypeOK
  <2>2. /\ Len(answers'[c]) <= Len(call'[c].list)
        /\ pc'[c] # "idle" => Len(answers'[c]) < Len(call'[c].list)
    <3>1. Len(answers'[c]) = Len(answers[c]) + 1 /\ call'[c] = call[c]
      BY <1>3, <1>4, <1>6
    <3>2. pc'[c] # "idle" => Len(answers[c]) + 1 # Len(call[c].list)
      BY <1>4 DEF TypeOK
    <3>3. Len(call[c].list) \in Int
      BY <1>7, SMT
    <3> QED
      BY <1>7, <3>1, <3>2, <3>3, SMT
  <2> QED
    BY <2>1, <2>2
<1>9. AnswerFromTheNode'
  <2> SUFFICES ASSUME NEW d \in Client, NEW i \in DOMAIN answers'[d],
                      answers'[d][i].value # NoValue
               PROVE  /\ NodeOf(answers'[d][i].req.id) = call'[d].list[i][1]
                      /\ OpcodeOf(answers'[d][i].req.id) = call'[d].op
                      /\ Len(answers'[d][i].value)
                           = PropSize[PropertyIndex(answers'[d][i].req.id)]
    BY DEF AnswerFromTheNode, Given
  <2>1. CASE d # c
    BY <1>4, <1>6, <2>1 DEF AnswerFromTheNode, Given
  <2>2. CASE d = c /\ i \in 1..Len(answers[c])
    <3>1. answers'[d][i] = answers[c][i] /\ i \in DOMAIN answers[c]
      BY <1>2, <1>3, <1>6, <2>2, LenProperties
    <3> QED
      BY <1>4, <2>2, <3>1 DEF AnswerFromTheNode, Given
  <2>3. CASE d = c /\ i = Len(answers[c]) + 1
    <3>1. answers'[d][i] = answer
      BY <1>3, <1>6, <2>3
    <3>2. answer.value = value /\ answer.req = req
      BY DEF answer
    <3>3. call[c].list[i][1] = TargetNode(c)
      BY <2>3 DEF TargetNode, Target
    <3> QED
      BY <1>4, <2>3, <3>1, <3>2, <3>3
  <2>4. i \in 1..(Len(answers[c]) + 1) \/ d # c
    BY <1>3, <1>6, LenProperties
  <2> QED
    BY <1>7, <2>1, <2>2, <2>3, <2>4, SMT
<1> QED
  BY <1>5, <1>8, <1>9

-----------------------------------------------------------------------------
LEMMA InitIInv == Init => IInv
<1> SUFFICES ASSUME Init PROVE IInv
  OBVIOUS
<1>1. TypeOK
  <2>1. Len(NoCall.list) = 0 /\ Len(<< >>) = 0 /\ << >> \in Seq(AnswerType)
    BY EmptySeq DEF NoCall
  <2>2. devq \in [Node -> Packets] /\ rxq \in [Client -> Packets]
    BY EmptySeq DEF Init, Packets
  <2>3. 0 \in 0..MaxCalls /\ 0 \in 0..MaxFaults
    BY AccessAssumption, SMT
  <2> QED
    BY <2>1, <2>2, <2>3, AccessAssumption DEF Init, TypeOK
<1>2. QueuesOK
  BY EmptySeq DEF Init, QueuesOK
<1>3. AnswerFromTheNode
  BY DEF Init, AnswerFromTheNode, Given
<1> QED
  BY <1>1, <1>2, <1>3 DEF IInv

(* The queues' types follow from what they hold.                           *)
LEMMA QueueTypes ==
  ASSUME NEW dq \in [Node -> Seq(PacketType)], NEW rq \in [Client -> Seq(ClientQueue)]
  PROVE  dq \in [Node -> Packets] /\ rq \in [Client -> Packets]
<1>1. ClientQueue \subseteq PacketType /\ Packets = Seq(PacketType)
  BY DEF ClientQueue, Packets, PacketType
<1>2. \A c \in Client : rq[c] \in Seq(PacketType)
  BY <1>1, SeqMonotonic
<1> QED
  BY <1>1, <1>2

(* A queue keeps its kind when a packet is taken from it or put into it.   *)
LEMMA TakeFromDevice ==
  ASSUME QueuesOK, NEW n \in Node, devq[n] # << >>,
         devq' = [devq EXCEPT ![n] = Tail(@)]
  PROVE  /\ devq' \in [Node -> Seq(PacketType)]
         /\ \A m \in Node : devq'[m] \in Seq(DeviceQueue(m))
         /\ Head(devq[n]) \in DeviceQueue(n)
<1>1. devq[n] \in Seq(DeviceQueue(n)) /\ devq[n] \in Seq(PacketType)
  BY DEF QueuesOK
<1>2. Tail(devq[n]) \in Seq(DeviceQueue(n)) /\ Tail(devq[n]) \in Seq(PacketType)
  BY <1>1, HeadTailProperties
<1> QED
  BY <1>1, <1>2, HeadTailProperties DEF QueuesOK

LEMMA TakeFromClient ==
  ASSUME QueuesOK, NEW c \in Client, rxq[c] # << >>,
         rxq' = [rxq EXCEPT ![c] = Tail(@)]
  PROVE  rxq' \in [Client -> Seq(ClientQueue)] /\ Head(rxq[c]) \in ClientQueue
<1>1. rxq[c] \in Seq(ClientQueue)
  BY DEF QueuesOK
<1>2. Tail(rxq[c]) \in Seq(ClientQueue) /\ Head(rxq[c]) \in ClientQueue
  BY <1>1, HeadTailProperties
<1> QED
  BY <1>2 DEF QueuesOK

LEMMA FaultCount ==
  ASSUME TypeOK, NEW kind, Fault(kind)
  PROVE  nFaults' \in 0..MaxFaults /\ seen' \subseteq Faults
<1>1. nFaults' \in 0..MaxFaults
  BY AccessAssumption, SMT DEF Fault, TypeOK
<1>2. seen' \subseteq Faults
  BY DEF Fault, TypeOK
<1> QED
  BY <1>1, <1>2

-----------------------------------------------------------------------------
(* Each action keeps the invariant.                                        *)

LEMMA StartStep == ASSUME IInv, NEW c \in Client, Start(c) PROVE IInv'
<1>1. TypeOK /\ QueuesOK /\ AnswerFromTheNode
  BY DEF IInv
<1>2. PICK new \in Calls : call' = [call EXCEPT ![c] = new]
  BY DEF Start
<1>3. new.list \in Seq(Node \X Property) /\ new.list # << >>
  BY <1>2, AccessAssumption DEF Call
<1>4. Len(new.list) \in Nat /\ 0 < Len(new.list)
  BY <1>3, EmptySeq, SMT
<1>5. Len(<< >>) = 0 /\ << >> \in Seq(AnswerType)
  BY EmptySeq
<1>6. nCalls' \in 0..MaxCalls
  BY <1>1, AccessAssumption, SMT DEF Start, TypeOK
<1>7. /\ answers' = [answers EXCEPT ![c] = << >>]
      /\ pc' = [pc EXCEPT ![c] = "send"]
      /\ UNCHANGED <<vals, devq, rxq, held, sent, nFaults, seen>>
  BY DEF Start, faultVars
<1>8. \A d \in Client :
        /\ Len(answers'[d]) <= Len(call'[d].list)
        /\ pc'[d] # "idle" => Len(answers'[d]) < Len(call'[d].list)
  <2>1. ASSUME NEW d \in Client, d # c
        PROVE  /\ Len(answers'[d]) <= Len(call'[d].list)
               /\ pc'[d] # "idle" => Len(answers'[d]) < Len(call'[d].list)
    BY <1>1, <1>2, <1>7, <2>1 DEF TypeOK
  <2>2. Len(answers'[c]) = 0 /\ call'[c] = new
    BY <1>1, <1>2, <1>5, <1>7 DEF TypeOK
  <2>3. Len(answers'[c]) <= Len(call'[c].list) /\ Len(answers'[c]) < Len(call'[c].list)
    BY <1>4, <2>2, SMT
  <2> QED
    BY <2>1, <2>3
<1>9. TypeOK'
  BY <1>1, <1>2, <1>5, <1>6, <1>7, <1>8 DEF TypeOK
<1>10. QueuesOK'
  BY <1>1, <1>7 DEF QueuesOK
<1>11. AnswerFromTheNode'
  <2>1. ASSUME NEW d \in Client, d # c
        PROVE  answers'[d] = answers[d] /\ call'[d] = call[d]
    BY <1>1, <1>2, <1>7, <2>1 DEF TypeOK
  <2>2. answers'[c] = << >> /\ DOMAIN << >> = {}
    BY <1>1, <1>7 DEF TypeOK
  <2> QED
    BY <1>1, <2>1, <2>2 DEF AnswerFromTheNode, Given
<1> QED
  BY <1>9, <1>10, <1>11 DEF IInv

LEMMA SendStep == ASSUME IInv, NEW c \in Client, Send(c) PROVE IInv'
<1> DEFINE n == TargetNode(c)
           packet == Packet(<<c, sent[c] + 1>>, Request(c), Request(c))
<1>1. TypeOK /\ QueuesOK /\ AnswerFromTheNode
  BY DEF IInv
<1>2. /\ pc[c] = "send"
      /\ pc' = [pc EXCEPT ![c] = "recv"]
      /\ sent' = [sent EXCEPT ![c] = @ + 1]
      /\ devq' = [devq EXCEPT ![n] = Append(@, packet)]
      /\ rxq' = ToAll(c, <<packet>>)
      /\ held' = [held EXCEPT ![c] = {Encoded(vals, n, TargetProperty(c))}]
      /\ UNCHANGED <<vals, call, answers, nCalls, nFaults, seen>>
  BY DEF Send, faultVars
<1>3. sent[c] + 1 \in Nat /\ sent' \in [Client -> Nat]
  BY <1>1, <1>2, SMT DEF TypeOK
<1>4. <<c, sent[c] + 1>> \in Tags
  BY <1>3 DEF Tags
<1>5. packet \in DeviceQueue(n) /\ packet \in ClientQueue
  BY <1>1, <1>2, <1>4, RequestType
<1>6. n \in Node /\ TargetProperty(c) \in Property
  BY <1>1, <1>2, TargetType
<1> HIDE DEF packet, n
<1>7. Encoded(vals, n, TargetProperty(c)) \in Seq(Nat)
  BY <1>1, <1>6, PropSizeType, BytesType, ZenonT(60) DEF Encoded, TypeOK
<1>8. QueuesOK'
  <2>1. packet \in PacketType
    BY <1>5 DEF DeviceQueue
  <2>2. devq[n] \in Seq(DeviceQueue(n)) /\ devq[n] \in Seq(PacketType)
    BY <1>1, <1>6 DEF QueuesOK
  <2>3. Append(devq[n], packet) \in Seq(DeviceQueue(n))
    BY <1>5, <2>2, SMT
  <2>4. Append(devq[n], packet) \in Seq(PacketType)
    BY <2>1, <2>2, SMT
  <2>5. /\ devq' \in [Node -> Seq(PacketType)]
        /\ \A m \in Node : devq'[m] \in Seq(DeviceQueue(m))
    BY <1>1, <1>2, <1>6, <2>3, <2>4 DEF QueuesOK
  <2>6. <<packet>> \in Seq(ClientQueue)
    BY <1>5, SMT
  <2>7. ASSUME NEW d \in Client PROVE rxq[d] \o <<packet>> \in Seq(ClientQueue)
    BY <1>1, <2>6, ConcatProperties DEF QueuesOK
  <2>8. rxq' \in [Client -> Seq(ClientQueue)]
    BY <1>1, <1>2, <2>7 DEF ToAll, QueuesOK
  <2> QED
    BY <2>5, <2>8 DEF QueuesOK
<1>9. devq' \in [Node -> Packets] /\ rxq' \in [Client -> Packets]
  BY <1>8, QueueTypes DEF QueuesOK
<1>10. TypeOK'
  BY <1>1, <1>2, <1>3, <1>7, <1>9 DEF TypeOK
<1>11. AnswerFromTheNode'
  BY <1>1, <1>2 DEF AnswerFromTheNode, Given
<1> QED
  BY <1>8, <1>10, <1>11 DEF IInv

LEMMA ReceiveStep == ASSUME IInv, NEW c \in Client, Receive(c) PROVE IInv'
<1> DEFINE packet == Head(rxq[c])
           msg == packet.msg
<1>1. TypeOK /\ QueuesOK /\ AnswerFromTheNode
  BY DEF IInv
<1>2. /\ pc[c] = "recv" /\ pc[c] # "idle"
      /\ rxq[c] # << >>
      /\ rxq' = [rxq EXCEPT ![c] = Tail(@)]
      /\ UNCHANGED <<vals, devq, nFaults, seen>>
  BY DEF Receive, faultVars
<1>3. rxq' \in [Client -> Seq(ClientQueue)] /\ packet \in ClientQueue
  BY <1>1, <1>2, TakeFromClient
<1>4. QueuesOK'
  BY <1>1, <1>2, <1>3 DEF QueuesOK
<1>5. devq' \in [Node -> Packets] /\ rxq' \in [Client -> Packets]
  BY <1>4, QueueTypes DEF QueuesOK
<1>6. /\ packet.tag \in Tags /\ packet.req \in Msg /\ msg \in Msg /\ IsGenuine(packet)
      /\ msg.data \in Seq(Nat)
  BY <1>3 DEF ClientQueue, PacketType, Msg
<1>7. ASSUME NEW value \in Seq(Nat), NEW tag \in Tags, NEW req \in Msg,
             value # NoValue =>
               /\ NodeOf(req.id) = TargetNode(c)
               /\ OpcodeOf(req.id) = call[c].op
               /\ Len(value) = PropSize[PropertyIndex(req.id)],
             Answer(c, value, tag, req)
      PROVE  IInv'
  <2>1. /\ answers' \in [Client -> Seq(AnswerType)]
        /\ pc' \in [Client -> {"idle", "send", "recv"}]
        /\ \A d \in Client :
             /\ Len(answers'[d]) <= Len(call'[d].list)
             /\ pc'[d] # "idle" => Len(answers'[d]) < Len(call'[d].list)
        /\ AnswerFromTheNode'
    BY <1>1, <1>2, <1>7, AnswerStep
  <2>2. UNCHANGED <<call, held, sent, nCalls>>
    BY <1>7 DEF Answer
  <2>3. TypeOK'
    BY <1>1, <1>2, <1>5, <2>1, <2>2 DEF TypeOK
  <2> QED
    BY <1>4, <2>1, <2>3 DEF IInv
<1>8. CASE ~ Unpacks(msg) /\ Answer(c, NoValue, NoTag, NoFrame)
  <2>1. NoValue \in Seq(Nat) /\ NoTag \in Tags
    BY EmptySeq DEF NoValue, Tags
  <2>2. NoFrame \in Msg
    BY EmptySeq, SMT DEF NoFrame, Message, Msg
  <2> QED
    BY <1>7, <1>8, <2>1, <2>2
<1>9. CASE /\ Unpacks(msg) /\ IsAnswer(c, msg)
           /\ Answer(c, Result(c, msg), packet.tag, packet.req)
  <2>1. Result(c, msg) \in Seq(Nat)
    BY <1>6, EmptySeq DEF Result, NoValue
  <2>2. ASSUME Result(c, msg) # NoValue
        PROVE  /\ NodeOf(packet.req.id) = TargetNode(c)
               /\ OpcodeOf(packet.req.id) = call[c].op
               /\ Len(Result(c, msg)) = PropSize[PropertyIndex(packet.req.id)]
    <3>1. call[c].op \in {READ_PROPERTY, WRITE_PROPERTY}
      BY <1>1, <1>2, TargetType DEF Call
    <3>2. Result(c, msg) = msg.data
      BY <2>2 DEF Result
    <3> QED
      BY <1>6, <1>9, <3>1, <3>2 DEF IsGenuine, IsAnswer
  <2> QED
    BY <1>6, <1>7, <1>9, <2>1, <2>2
<1>10. CASE Unpacks(msg) /\ ~ IsAnswer(c, msg) /\ UNCHANGED <<clientVars, held>>
  <2>1. UNCHANGED <<pc, call, answers, sent, nCalls, held>>
    BY <1>10 DEF clientVars
  <2>2. TypeOK'
    BY <1>1, <1>2, <1>5, <2>1 DEF TypeOK
  <2>3. AnswerFromTheNode'
    BY <1>1, <2>1 DEF AnswerFromTheNode, Given
  <2> QED
    BY <1>4, <2>2, <2>3 DEF IInv
<1> QED
  BY <1>8, <1>9, <1>10 DEF Receive

LEMMA TimeoutStep == ASSUME IInv, NEW c \in Client, Timeout(c) PROVE IInv'
<1>1. TypeOK /\ QueuesOK /\ AnswerFromTheNode
  BY DEF IInv
<1>2. /\ pc[c] # "idle"
      /\ Answer(c, NoValue, NoTag, NoFrame)
      /\ UNCHANGED <<vals, devq, rxq>>
  BY DEF Timeout
<1>9. nFaults' \in 0..MaxFaults /\ seen' \subseteq Faults
  <2>1. CASE UNCHANGED faultVars
    BY <1>1, <2>1 DEF faultVars, TypeOK
  <2>2. CASE Fault("late")
    BY <1>1, <2>2, FaultCount
  <2> QED
    BY <2>1, <2>2 DEF Timeout
<1>3. NoValue \in Seq(Nat) /\ NoTag \in Tags
  BY EmptySeq DEF NoValue, Tags
<1>4. NoFrame \in Msg
  BY EmptySeq, SMT DEF NoFrame, Message, Msg
<1>5. /\ answers' \in [Client -> Seq(AnswerType)]
      /\ pc' \in [Client -> {"idle", "send", "recv"}]
      /\ \A d \in Client :
           /\ Len(answers'[d]) <= Len(call'[d].list)
           /\ pc'[d] # "idle" => Len(answers'[d]) < Len(call'[d].list)
      /\ AnswerFromTheNode'
  BY <1>1, <1>2, <1>3, <1>4, AnswerStep
<1>6. UNCHANGED <<call, held, sent, nCalls>>
  BY <1>2 DEF Answer
<1>7. TypeOK'
  BY <1>1, <1>2, <1>5, <1>6, <1>9 DEF TypeOK
<1>8. QueuesOK'
  BY <1>1, <1>2 DEF QueuesOK
<1> QED
  BY <1>5, <1>7, <1>8 DEF IInv

(* What a device answers to a request in its queue is one genuine frame.   *)
LEMMA RespondOutcome ==
  ASSUME TypeOK, NEW n \in Node, NEW packet \in DeviceQueue(n),
         NEW o \in Handle(n, << >>, vals[n], packet.msg)
  PROVE  /\ o.vals \in [Property -> Nat]
         /\ \E msg \in Msg :
              /\ o.out = <<msg>>
              /\ Packet(packet.tag, packet.req, msg) \in ClientQueue
<1>1. packet \in PacketType /\ packet.req = packet.msg /\ IsRequestFor(n, packet.msg)
  BY DEF DeviceQueue
<1>2. PICK opcode \in {READ_PROPERTY, WRITE_PROPERTY}, p \in Property :
        /\ packet.msg.id = MakeId(CLIENT_TO_DEVICE, n, opcode, p)
        /\ opcode = READ_PROPERTY => packet.msg.data = << >>
  BY <1>1 DEF IsRequestFor
<1> DEFINE data == packet.msg.data
           id == MakeId(CLIENT_TO_DEVICE, n, opcode, p)
<1>3. packet.tag \in Tags /\ packet.msg \in Msg
  BY <1>1 DEF PacketType
<1>4. packet.msg = Message(id, data) /\ data \in Seq(Nat)
  BY <1>2, <1>3 DEF Message, Msg
<1>5. n \in DeviceIds /\ n \in NodeIds /\ vals[n] \in [Property -> Nat]
  BY NodeRange DEF TypeOK
<1> o \in Handle(n, << >>, vals[n], Message(id, data))
  BY <1>4
<1> HIDE DEF data
<1>15. opcode = READ_PROPERTY => data = << >>
  BY <1>2 DEF data
<1>6. PICK msg \in [id : Nat, data : Seq(Nat)] :
        /\ o.out = <<msg>>
        /\ \/ IsErrorFor(msg, n, p)
           \/ IsValueFor(msg, n, opcode, p, o.vals)
  BY <1>4, <1>5, <1>15, HandleOutcome
<1>7. o.vals \in [Property -> Nat]
  BY <1>4, <1>5, <1>15, HandleOutcome
<1>8. opcode \in Codes /\ p \in Indices /\ p \in Property
  BY <1>2, FieldRanges, PropertyRange
<1>9. NodeOf(id) = n /\ OpcodeOf(id) = opcode /\ PropertyIndex(id) = p
  BY <1>5, <1>8, UnpackRequest
<1> DEFINE k == Packet(packet.tag, packet.req, msg)
<1>10. k.tag = packet.tag /\ k.req = packet.req /\ k.msg = msg
  BY DEF Packet
<1>11. k \in PacketType
  BY <1>1, <1>3, <1>6 DEF Packet, PacketType, Msg
<1>12. k.req.id = id
  BY <1>1, <1>2, <1>10
<1> HIDE DEF k, id
<1>13. IsGenuine(k)
  <2>1. CASE IsErrorFor(msg, n, p)
    <3>1. OpcodeOf(msg.id) = ERROR
      BY <1>5, <1>8, <2>1, UnpackRequest, FieldRanges DEF IsErrorFor
    <3> QED
      BY <1>10, <3>1, FieldRanges DEF IsGenuine
  <2>2. CASE IsValueFor(msg, n, opcode, p, o.vals)
    <3>1. msg.id = MakeId(DEVICE_TO_CLIENT, n, opcode, p)
      BY <2>2 DEF IsValueFor
    <3>2. NodeOf(msg.id) = n /\ OpcodeOf(msg.id) = opcode
      BY <1>5, <1>8, <3>1, UnpackRequest
    <3>3. Len(msg.data) = PropSize[p]
      <4>1. o.vals[p] \in Nat /\ PropSize[p] \in 0..4
        BY <1>7, <1>8, PropSizeType
      <4>2. msg.data = Bytes(o.vals[p], PropSize[p])
        BY <2>2 DEF IsValueFor
      <4>3. Len(Bytes(o.vals[p], PropSize[p])) = PropSize[p]
        BY <4>1, BytesType
      <4> QED
        BY <4>2, <4>3
    <3> QED
      BY <1>9, <1>10, <1>12, <3>2, <3>3 DEF IsGenuine
  <2> QED
    BY <1>6, <2>1, <2>2
<1>14. k \in ClientQueue
  BY <1>11, <1>13 DEF ClientQueue
<1> QED
  BY <1>6, <1>7, <1>14 DEF k, Msg

LEMMA RespondStep == ASSUME IInv, NEW n \in Node, Respond(n) PROVE IInv'
<1> DEFINE packet == Head(devq[n])
<1>1. TypeOK /\ QueuesOK /\ AnswerFromTheNode
  BY DEF IInv
<1>2. PICK o \in Handle(n, << >>, vals[n], packet.msg) :
        /\ vals' = [vals EXCEPT ![n] = o.vals]
        /\ rxq' = [c \in Client |->
                     rxq[c] \o [i \in DOMAIN o.out |-> Packet(packet.tag, packet.req, o.out[i])]]
  BY DEF Respond
<1>3. /\ devq[n] # << >>
      /\ devq' = [devq EXCEPT ![n] = Tail(@)]
      /\ held' = HeldWith(vals')
      /\ UNCHANGED <<pc, call, answers, sent, nCalls, nFaults, seen>>
  BY DEF Respond, clientVars, faultVars
<1>4. /\ devq' \in [Node -> Seq(PacketType)]
      /\ \A m \in Node : devq'[m] \in Seq(DeviceQueue(m))
      /\ packet \in DeviceQueue(n)
  BY <1>1, <1>3, TakeFromDevice
<1>5. PICK msg \in Msg :
        o.out = <<msg>> /\ Packet(packet.tag, packet.req, msg) \in ClientQueue
  BY <1>1, <1>2, <1>4, RespondOutcome
<1>6. o.vals \in [Property -> Nat]
  BY <1>1, <1>2, <1>4, RespondOutcome
<1> HIDE DEF packet
<1> DEFINE k == Packet(packet.tag, packet.req, msg)
           out == [i \in DOMAIN o.out |-> Packet(packet.tag, packet.req, o.out[i])]
<1>7. out = <<k>>
  BY <1>5, SMT
<1>8. <<k>> \in Seq(ClientQueue)
  BY <1>5, SMT
<1>9. rxq' \in [Client -> Seq(ClientQueue)]
  <2>1. ASSUME NEW c \in Client PROVE rxq[c] \o out \in Seq(ClientQueue)
    BY <1>1, <1>7, <1>8, ConcatProperties DEF QueuesOK
  <2> QED
    BY <1>2, <2>1
<1>10. vals' \in [Node -> [Property -> Nat]]
  BY <1>1, <1>2, <1>6 DEF TypeOK
<1>11. held' \in [Client -> SUBSET Seq(Nat)]
  BY <1>1, <1>3, <1>10, HeldType
<1>12. QueuesOK'
  BY <1>4, <1>9 DEF QueuesOK
<1>13. devq' \in [Node -> Packets] /\ rxq' \in [Client -> Packets]
  BY <1>4, <1>9, QueueTypes
<1>14. TypeOK'
  BY <1>1, <1>3, <1>10, <1>11, <1>13 DEF TypeOK
<1>15. AnswerFromTheNode'
  BY <1>1, <1>3 DEF AnswerFromTheNode, Given
<1> QED
  BY <1>12, <1>14, <1>15 DEF IInv

LEMMA ChangeStep ==
  ASSUME IInv, NEW n \in Node, NEW p \in Changing, Change(n, p) PROVE IInv'
<1>1. TypeOK /\ QueuesOK /\ AnswerFromTheNode
  BY DEF IInv
<1>2. PICK v \in 0..Limit[p] : vals' = [vals EXCEPT ![n][p] = v]
  BY DEF Change
<1>3. /\ held' = HeldWith(vals')
      /\ UNCHANGED <<pc, call, answers, sent, nCalls, devq, rxq, nFaults, seen>>
  BY DEF Change, clientVars, faultVars
<1>4. v \in Nat
  BY <1>2, SMT
<1>5. vals' \in [Node -> [Property -> Nat]]
  BY <1>1, <1>2, <1>4 DEF TypeOK
<1>6. held' \in [Client -> SUBSET Seq(Nat)]
  BY <1>1, <1>3, <1>5, HeldType
<1>7. TypeOK'
  BY <1>1, <1>3, <1>5, <1>6 DEF TypeOK
<1>8. QueuesOK' /\ AnswerFromTheNode'
  BY <1>1, <1>3 DEF QueuesOK, AnswerFromTheNode, Given
<1> QED
  BY <1>7, <1>8 DEF IInv

LEMMA LoseRequestStep == ASSUME IInv, NEW n \in Node, LoseRequest(n) PROVE IInv'
<1>1. TypeOK /\ QueuesOK /\ AnswerFromTheNode
  BY DEF IInv
<1>2. /\ Fault("lose")
      /\ devq[n] # << >>
      /\ devq' = [devq EXCEPT ![n] = Tail(@)]
      /\ UNCHANGED <<pc, call, answers, sent, nCalls, vals, rxq, held>>
  BY DEF LoseRequest, clientVars
<1>3. /\ devq' \in [Node -> Seq(PacketType)]
      /\ \A m \in Node : devq'[m] \in Seq(DeviceQueue(m))
  BY <1>1, <1>2, TakeFromDevice
<1>4. QueuesOK'
  BY <1>1, <1>2, <1>3 DEF QueuesOK
<1>5. devq' \in [Node -> Packets] /\ rxq' \in [Client -> Packets]
  BY <1>4, QueueTypes DEF QueuesOK
<1>6. TypeOK'
  BY <1>1, <1>2, <1>5, FaultCount DEF TypeOK
<1>7. AnswerFromTheNode'
  BY <1>1, <1>2 DEF AnswerFromTheNode, Given
<1> QED
  BY <1>4, <1>6, <1>7 DEF IInv

LEMMA LoseFrameStep == ASSUME IInv, NEW c \in Client, LoseFrame(c) PROVE IInv'
<1>1. TypeOK /\ QueuesOK /\ AnswerFromTheNode
  BY DEF IInv
<1>2. /\ Fault("lose")
      /\ rxq[c] # << >>
      /\ rxq' = [rxq EXCEPT ![c] = Tail(@)]
      /\ UNCHANGED <<pc, call, answers, sent, nCalls, vals, devq, held>>
  BY DEF LoseFrame, clientVars
<1>3. rxq' \in [Client -> Seq(ClientQueue)]
  BY <1>1, <1>2, TakeFromClient
<1>4. QueuesOK'
  BY <1>1, <1>2, <1>3 DEF QueuesOK
<1>5. devq' \in [Node -> Packets] /\ rxq' \in [Client -> Packets]
  BY <1>4, QueueTypes DEF QueuesOK
<1>6. TypeOK'
  BY <1>1, <1>2, <1>5, FaultCount DEF TypeOK
<1>7. AnswerFromTheNode'
  BY <1>1, <1>2 DEF AnswerFromTheNode, Given
<1> QED
  BY <1>4, <1>6, <1>7 DEF IInv

LEMMA RestartStep == ASSUME IInv, NEW n \in Node, Restart(n) PROVE IInv'
<1>1. TypeOK /\ QueuesOK /\ AnswerFromTheNode
  BY DEF IInv
<1>2. /\ Fault("restart")
      /\ vals' = [vals EXCEPT ![n] = InitVals]
      /\ devq' = [devq EXCEPT ![n] = << >>]
      /\ held' = HeldWith(vals')
      /\ UNCHANGED <<pc, call, answers, sent, nCalls, rxq>>
  BY DEF Restart, clientVars
<1>3. vals' \in [Node -> [Property -> Nat]]
  BY <1>1, <1>2, AccessAssumption DEF TypeOK
<1>4. held' \in [Client -> SUBSET Seq(Nat)]
  BY <1>1, <1>2, <1>3, HeldType
<1>5. QueuesOK'
  <2>1. << >> \in Seq(PacketType) /\ << >> \in Seq(DeviceQueue(n))
    BY EmptySeq
  <2> QED
    BY <1>1, <1>2, <2>1 DEF QueuesOK
<1>6. devq' \in [Node -> Packets] /\ rxq' \in [Client -> Packets]
  BY <1>5, QueueTypes DEF QueuesOK
<1>7. TypeOK'
  BY <1>1, <1>2, <1>3, <1>4, <1>6, FaultCount DEF TypeOK
<1>8. AnswerFromTheNode'
  BY <1>1, <1>2 DEF AnswerFromTheNode, Given
<1> QED
  BY <1>5, <1>7, <1>8 DEF IInv

LEMMA ForeignStep ==
  ASSUME IInv, NEW id \in ForeignIds, Foreign(id) PROVE IInv'
<1> DEFINE k == Packet(NoTag, NoFrame, Message(id, << >>))
<1>1. TypeOK /\ QueuesOK /\ AnswerFromTheNode
  BY DEF IInv
<1>2. /\ Fault("foreign")
      /\ rxq' = [c \in Client |-> Append(rxq[c], k)]
      /\ UNCHANGED <<pc, call, answers, sent, nCalls, vals, devq, held>>
  BY DEF Foreign, clientVars
<1>3. id \in Nat /\ ~ (IsDevprop(id) /\ OpcodeOf(id) \in Opcode)
  BY AccessAssumption
<1>4. k \in ClientQueue
  <2>1. NoTag \in Tags
    BY DEF Tags
  <2>2. NoFrame \in Msg
    BY EmptySeq, SMT DEF NoFrame, Message, Msg
  <2>3. Message(id, << >>) \in Msg /\ Message(id, << >>).id = id
    BY <1>3, EmptySeq DEF Message, Msg
  <2>4. k \in PacketType /\ k.msg.id = id
    BY <2>1, <2>2, <2>3 DEF Packet, PacketType
  <2>5. IsGenuine(k)
    BY <1>3, <2>4 DEF IsGenuine, Unpacks
  <2> QED
    BY <2>4, <2>5 DEF ClientQueue
<1> HIDE DEF k
<1>5. rxq' \in [Client -> Seq(ClientQueue)]
  <2>1. ASSUME NEW c \in Client PROVE Append(rxq[c], k) \in Seq(ClientQueue)
    <3>1. rxq[c] \in Seq(ClientQueue)
      BY <1>1 DEF QueuesOK
    <3> QED
      BY <1>4, <3>1, SMT
  <2> QED
    BY <1>2, <2>1
<1>6. QueuesOK'
  BY <1>1, <1>2, <1>5 DEF QueuesOK
<1>7. devq' \in [Node -> Packets] /\ rxq' \in [Client -> Packets]
  BY <1>6, QueueTypes DEF QueuesOK
<1>8. TypeOK'
  BY <1>1, <1>2, <1>7, FaultCount DEF TypeOK
<1>9. AnswerFromTheNode'
  BY <1>1, <1>2 DEF AnswerFromTheNode, Given
<1> QED
  BY <1>6, <1>8, <1>9 DEF IInv

LEMMA NextIInv == IInv /\ [Next]_vars => IInv'
<1> SUFFICES ASSUME IInv, [Next]_vars PROVE IInv'
  OBVIOUS
<1>1. CASE UNCHANGED vars
  BY <1>1 DEF vars, IInv, TypeOK, QueuesOK, AnswerFromTheNode, Given
<1>2. CASE Next
  BY <1>2, StartStep, SendStep, ReceiveStep, TimeoutStep, LoseFrameStep,
     RespondStep, LoseRequestStep, RestartStep, ChangeStep, ForeignStep DEF Next
<1> QED
  BY <1>1, <1>2

LEMMA Invariance == Spec => []IInv
BY InitIInv, NextIInv, PTL DEF Spec

-----------------------------------------------------------------------------
(* The state of the clients, the devices and the queues between them is    *)
(* well formed whatever is late, lost or foreign: no query looks for a     *)
(* target past the end of its list (query_properties, client.py).          *)
THEOREM TypeCorrect == Spec => []TypeOK
<1>1. IInv => TypeOK
  BY DEF IInv
<1> QED
  BY Invariance, <1>1, PTL

(* What a query takes for its answer is the response of the device it      *)
(* asked to a request for the operation it asked for, and as long as the   *)
(* property that request named: frame_received of PropertyQuery compares   *)
(* direction, node and operation, and the device answers with the          *)
(* identifier of the request.                                              *)
THEOREM AnswersFromTheNode == Spec => []AnswerFromTheNode
<1>1. IInv => AnswerFromTheNode
  BY DEF IInv
<1> QED
  BY Invariance, <1>1, PTL

-----------------------------------------------------------------------------
(* The only client of a bus.  As long as it is in step there is at most    *)
(* one packet on the way: the request of the query it waits for, or the    *)
(* response to that; and nothing at all between two queries.               *)

OnlyClient == \A c, d \in Client : c = d

NoRequests == \A n \in Node : devq[n] = << >>

Nothing(c) == NoRequests /\ rxq[c] = << >>

Asked(c) == Packet(Tag(c), Request(c), Request(c))

RequestOut(c) ==
  /\ devq[TargetNode(c)] = <<Asked(c)>>
  /\ \A n \in Node \ {TargetNode(c)} : devq[n] = << >>
  /\ rxq[c] = << >>

\* A value the property has had since the request; and has still, unless
\* something else than this client can change it.
IsTrue(c, msg) ==
  /\ msg.id = MakeId(DEVICE_TO_CLIENT, TargetNode(c), call[c].op, TargetProperty(c))
  /\ msg.data \in held[c]
  /\ "restart" \notin seen /\ TargetProperty(c) \notin Changing =>
       msg.data = Encoded(vals, TargetNode(c), TargetProperty(c))

Answering(c, msg) ==
  IsErrorFor(msg, TargetNode(c), TargetProperty(c)) \/ IsTrue(c, msg)

ResponseBack(c) ==
  LET msg == rxq[c][1].msg
  IN  /\ NoRequests
      /\ rxq[c] = <<Packet(Tag(c), Request(c), msg)>>
      /\ Answering(c, msg)

OneAtATime(c) ==
  IF pc[c] = "recv" THEN Nothing(c) \/ RequestOut(c) \/ ResponseBack(c) ELSE Nothing(c)

Matched(c) ==
  \A i \in Given(c) : /\ answers[c][i].value \in answers[c][i].held
                      /\ answers[c][i].tag = <<c, answers[c][i].sent>>

SoleInv == InStep => \A c \in Client : OneAtATime(c) /\ Matched(c)

LEMMA SeenGrows == ASSUME [Next]_vars PROVE seen \subseteq seen' /\ (InStep' => InStep)
<1>1. seen' = seen \/ \E kind : seen' = seen \cup {kind}
  <2>1. ASSUME NEW c \in Client, Start(c) PROVE seen' = seen
    BY <2>1 DEF Start, faultVars
  <2>2. ASSUME NEW c \in Client, Send(c) PROVE seen' = seen
    BY <2>2 DEF Send, faultVars
  <2>3. ASSUME NEW c \in Client, Receive(c) PROVE seen' = seen
    BY <2>3 DEF Receive, faultVars
  <2>4. ASSUME NEW c \in Client, Timeout(c) PROVE seen' = seen \/ seen' = seen \cup {"late"}
    BY <2>4 DEF Timeout, Fault, faultVars
  <2>5. ASSUME NEW c \in Client, LoseFrame(c) PROVE seen' = seen \cup {"lose"}
    BY <2>5 DEF LoseFrame, Fault
  <2>6. ASSUME NEW n \in Node, Respond(n) PROVE seen' = seen
    BY <2>6 DEF Respond, faultVars
  <2>7. ASSUME NEW n \in Node, LoseRequest(n) \/ Restart(n)
        PROVE  seen' = seen \cup {"lose"} \/ seen' = seen \cup {"restart"}
    BY <2>7 DEF LoseRequest, Restart, Fault
  <2>8. ASSUME NEW n \in Node, NEW p \in Changing, Change(n, p) PROVE seen' = seen
    BY <2>8 DEF Change, faultVars
  <2>9. ASSUME NEW id \in ForeignIds, Foreign(id) PROVE seen' = seen \cup {"foreign"}
    BY <2>9 DEF Foreign, Fault
  <2> QED
    BY <2>1, <2>2, <2>3, <2>4, <2>5, <2>6, <2>7, <2>8, <2>9 DEF Next, vars
<1> QED
  BY <1>1 DEF InStep

(* While the call and its answers stay, so does the query.                 *)
LEMMA SameQuery ==
  ASSUME NEW c \in Client, UNCHANGED <<call, answers, sent>>
  PROVE  /\ Tag(c)' = Tag(c) /\ Request(c)' = Request(c)
         /\ TargetNode(c)' = TargetNode(c) /\ TargetProperty(c)' = TargetProperty(c)
         /\ Asked(c)' = Asked(c)
BY DEF Tag, Request, TargetNode, TargetProperty, Target, Asked

LEMMA SameMatched ==
  ASSUME NEW c \in Client, UNCHANGED answers, Matched(c) PROVE Matched(c)'
BY DEF Matched, Given

LEMMA SoleInit == Init => SoleInv
BY DEF Init, SoleInv, OneAtATime, Nothing, NoRequests, Matched, Given

LEMMA SoleStart ==
  ASSUME TypeOK, NEW c \in Client, OneAtATime(c), Start(c)
  PROVE  OneAtATime(c)' /\ Matched(c)'
<1>1. pc'[c] = "send" /\ answers'[c] = << >> /\ pc[c] # "recv"
  BY DEF Start, TypeOK
<1>2. UNCHANGED <<devq, rxq>>
  BY DEF Start
<1> QED
  BY <1>1, <1>2 DEF OneAtATime, Nothing, NoRequests, Matched, Given

LEMMA SoleSend ==
  ASSUME TypeOK, NEW c \in Client, OneAtATime(c), Matched(c), Send(c)
  PROVE  OneAtATime(c)' /\ Matched(c)'
<1> DEFINE n == TargetNode(c)
           packet == Packet(<<c, sent[c] + 1>>, Request(c), Request(c))
<1>1. /\ pc[c] = "send" /\ pc'[c] = "recv"
      /\ sent'[c] = sent[c] + 1
      /\ devq' = [devq EXCEPT ![n] = Append(@, packet)]
      /\ rxq' = ToAll(c, <<packet>>)
      /\ UNCHANGED <<call, answers>>
  BY DEF Send, TypeOK
<1>2. Nothing(c)
  BY <1>1 DEF OneAtATime
<1>3. /\ TargetNode(c)' = n /\ Request(c)' = Request(c) /\ Tag(c)' = <<c, sent[c] + 1>>
  BY <1>1 DEF TargetNode, Target, TargetProperty, Request, Tag
<1>4. Asked(c)' = packet
  BY <1>3 DEF Asked
<1>5. n \in Node
  BY <1>1, TargetType
<1>6. rxq'[c] = << >>
  BY <1>1, <1>2 DEF ToAll, Nothing
<1>7. devq'[n] = <<packet>> /\ \A m \in Node \ {n} : devq'[m] = << >>
  <2>1. devq[n] = << >> /\ \A m \in Node : devq[m] = << >>
    BY <1>2, <1>5 DEF Nothing, NoRequests
  <2>2. Append(<< >>, packet) = <<packet>>
    BY SMT
  <2>3. devq \in [Node -> Packets]
    BY DEF TypeOK
  <2> HIDE DEF packet
  <2> QED
    BY <1>1, <1>5, <2>1, <2>2, <2>3
<1>8. RequestOut(c)'
  BY <1>3, <1>4, <1>6, <1>7 DEF RequestOut
<1>9. OneAtATime(c)'
  BY <1>1, <1>8 DEF OneAtATime
<1> QED
  BY <1>1, <1>9, SameMatched

(* A query that ends leaves nothing behind.                                *)
LEMMA SoleAnswer ==
  ASSUME TypeOK, NEW c \in Client, Matched(c), pc[c] # "idle",
         NEW value, NEW tag, NEW req, Answer(c, value, tag, req),
         value # NoValue => value \in held[c] /\ tag = Tag(c),
         Nothing(c)'
  PROVE  OneAtATime(c)' /\ Matched(c)'
<1> DEFINE answer == [value |-> value, tag |-> tag, req |-> req,
                      held |-> held[c], sent |-> sent[c]]
           new == Append(answers[c], answer)
<1>1. answers[c] \in Seq(AnswerType) /\ Len(answers[c]) \in Nat
  BY LenProperties DEF TypeOK
<1>2. DOMAIN new = 1..Len(answers[c]) + 1 /\ new[Len(answers[c]) + 1] = answer
      /\ \A i \in 1..Len(answers[c]) : new[i] = answers[c][i]
  BY <1>1, SMT
<1>3. answers'[c] = new /\ pc'[c] # "recv"
  BY DEF Answer, TypeOK
<1>4. answer.value = value /\ answer.tag = tag /\ answer.held = held[c] /\ answer.sent = sent[c]
  OBVIOUS
<1> HIDE DEF answer, new
<1>5. OneAtATime(c)'
  BY <1>3 DEF OneAtATime
<1>6. ASSUME NEW i \in Given(c)'
      PROVE  /\ answers'[c][i].value \in answers'[c][i].held
             /\ answers'[c][i].tag = <<c, answers'[c][i].sent>>
  <2>1. i \in DOMAIN new /\ new[i].value # NoValue
    BY <1>3 DEF Given
  <2>2. CASE i = Len(answers[c]) + 1
    BY <1>2, <1>3, <1>4, <2>1, <2>2 DEF Tag
  <2>3. CASE i \in 1..Len(answers[c])
    <3>1. new[i] = answers[c][i] /\ i \in DOMAIN answers[c]
      BY <1>1, <1>2, <2>3, LenProperties
    <3> QED
      BY <1>3, <2>1, <3>1 DEF Matched, Given
  <2> QED
    BY <1>1, <1>2, <2>1, <2>2, <2>3, SMT
<1> QED
  BY <1>5, <1>6 DEF Matched

(* What the response of a query is, when it comes.                         *)
LEMMA ResponseFacts ==
  ASSUME IInv, NEW c \in Client, pc[c] = "recv", OneAtATime(c), rxq[c] # << >>
  PROVE  LET msg == Head(rxq[c]).msg
         IN  /\ NoRequests /\ Tail(rxq[c]) = << >>
             /\ Head(rxq[c]).tag = Tag(c) /\ Head(rxq[c]).req = Request(c)
             /\ Answering(c, msg)
             /\ IsAnswer(c, msg) => IsTrue(c, msg)
<1> DEFINE msg == rxq[c][1].msg
<1>1. ResponseBack(c)
  BY DEF OneAtATime, Nothing, RequestOut
<1> DEFINE k == Packet(Tag(c), Request(c), msg)
<1>2. NoRequests /\ rxq[c] = <<k>> /\ Answering(c, msg)
  BY <1>1 DEF ResponseBack
<1>3. k.tag = Tag(c) /\ k.req = Request(c) /\ k.msg = msg
  BY DEF Packet
<1> HIDE DEF msg, k
<1>4. Head(rxq[c]) = k /\ Tail(rxq[c]) = << >>
  BY <1>2, SMT
<1>5. ASSUME IsErrorFor(msg, TargetNode(c), TargetProperty(c)) PROVE ~ IsAnswer(c, msg)
  <2>1. /\ TargetNode(c) \in NodeIds /\ TargetProperty(c) \in Indices
        /\ call[c].op \in {READ_PROPERTY, WRITE_PROPERTY}
    BY TargetType, NodeRange, PropertyRange DEF IInv, Call
  <2>2. OpcodeOf(msg.id) = ERROR
    BY <1>5, <2>1, UnpackRequest, FieldRanges DEF IsErrorFor
  <2> QED
    BY <2>1, <2>2, FieldRanges DEF IsAnswer
<1> QED
  BY <1>2, <1>3, <1>4, <1>5 DEF Answering

LEMMA SoleReceive ==
  ASSUME IInv, NEW c \in Client, OneAtATime(c), Matched(c), Receive(c)
  PROVE  OneAtATime(c)' /\ Matched(c)'
<1> DEFINE packet == Head(rxq[c])
           msg == packet.msg
<1>1. /\ pc[c] = "recv" /\ rxq[c] # << >>
      /\ rxq' = [rxq EXCEPT ![c] = Tail(@)]
      /\ UNCHANGED devq
      /\ TypeOK
  BY DEF Receive, IInv
<1>2. /\ NoRequests /\ Tail(rxq[c]) = << >> /\ packet.tag = Tag(c)
      /\ IsAnswer(c, msg) => IsTrue(c, msg)
  BY <1>1, ResponseFacts
<1>3. Nothing(c)'
  BY <1>1, <1>2 DEF Nothing, NoRequests, TypeOK
<1> HIDE DEF packet
<1>4. CASE Answer(c, NoValue, NoTag, NoFrame)
  BY <1>1, <1>3, <1>4, SoleAnswer
<1>5. CASE IsAnswer(c, msg) /\ Answer(c, Result(c, msg), packet.tag, packet.req)
  <2>1. Result(c, msg) # NoValue => Result(c, msg) \in held[c]
    BY <1>2, <1>5 DEF Result, IsTrue
  <2> QED
    BY <1>1, <1>2, <1>3, <1>5, <2>1, SoleAnswer
<1>6. CASE UNCHANGED <<clientVars, held>>
  <2>1. pc' = pc /\ answers' = answers
    BY <1>6 DEF clientVars
  <2> QED
    BY <1>3, <2>1, SameMatched DEF OneAtATime
<1> QED
  BY <1>4, <1>5, <1>6 DEF Receive, packet

(* The deadline cannot pass while the request or the response is on its    *)
(* way, for then the client would fall out of step.                        *)
LEMMA SoleTimeout ==
  ASSUME TypeOK, NEW c \in Client, OneAtATime(c), Matched(c), Timeout(c), InStep'
  PROVE  OneAtATime(c)' /\ Matched(c)'
<1>1. ~ Fault("late")
  BY DEF InStep, Fault
<1>2. /\ pc[c] = "recv" /\ ~ OnTheWay(c)
      /\ Answer(c, NoValue, NoTag, NoFrame)
      /\ UNCHANGED <<devq, rxq>>
  BY <1>1 DEF Timeout
<1>3. ~ RequestOut(c)
  <2>1. SUFFICES ASSUME RequestOut(c) PROVE FALSE
    OBVIOUS
  <2>2. devq[TargetNode(c)] = <<Asked(c)>> /\ TargetNode(c) \in Node
    BY <1>2, <2>1, TargetType DEF RequestOut
  <2>3. Asked(c).tag = Tag(c)
    BY DEF Asked, Packet
  <2>4. 1 \in DOMAIN devq[TargetNode(c)] /\ devq[TargetNode(c)][1] = Asked(c)
    BY <2>2, SMT
  <2> QED
    BY <1>2, <2>2, <2>3, <2>4 DEF OnTheWay
<1>4. ~ ResponseBack(c)
  <2>1. SUFFICES ASSUME ResponseBack(c) PROVE FALSE
    OBVIOUS
  <2>2. PICK k : rxq[c] = <<k>> /\ k.tag = Tag(c)
    BY <2>1 DEF ResponseBack, Packet
  <2>3. 1 \in DOMAIN rxq[c] /\ rxq[c][1] = k
    BY <2>2, SMT
  <2> QED
    BY <1>2, <2>2, <2>3 DEF OnTheWay
<1>5. Nothing(c)'
  BY <1>2, <1>3, <1>4 DEF OneAtATime, Nothing, NoRequests
<1> QED
  BY <1>2, <1>5, SoleAnswer

LEMMA SoleLoseFrame ==
  ASSUME IInv, NEW c \in Client, OneAtATime(c), Matched(c), LoseFrame(c)
  PROVE  OneAtATime(c)' /\ Matched(c)'
<1>1. /\ rxq[c] # << >> /\ rxq' = [rxq EXCEPT ![c] = Tail(@)]
      /\ UNCHANGED <<pc, answers, devq>> /\ TypeOK
  BY DEF LoseFrame, clientVars, IInv
<1>2. pc[c] = "recv"
  BY <1>1 DEF OneAtATime, Nothing
<1>3. Nothing(c)'
  BY <1>1, <1>2, ResponseFacts DEF Nothing, NoRequests, TypeOK
<1> QED
  BY <1>1, <1>3, SameMatched DEF OneAtATime

LEMMA SoleLoseRequest ==
  ASSUME TypeOK, NEW c \in Client, OneAtATime(c), Matched(c),
         NEW n \in Node, LoseRequest(n)
  PROVE  OneAtATime(c)' /\ Matched(c)'
<1>1. /\ devq[n] # << >> /\ devq' = [devq EXCEPT ![n] = Tail(@)]
      /\ UNCHANGED <<pc, answers, rxq>>
  BY DEF LoseRequest, clientVars
<1>2. RequestOut(c)
  BY <1>1 DEF OneAtATime, Nothing, NoRequests, ResponseBack
<1>3. n = TargetNode(c) /\ devq[n] = <<Asked(c)>>
  BY <1>1, <1>2 DEF RequestOut
<1>4. Tail(devq[n]) = << >>
  BY <1>3, SMT
<1>5. Nothing(c)'
  BY <1>1, <1>2, <1>3, <1>4 DEF RequestOut, Nothing, NoRequests, TypeOK
<1> QED
  BY <1>1, <1>5, SameMatched DEF OneAtATime

(* The request of a query, as its device takes it apart.                   *)
LEMMA RequestFacts ==
  ASSUME TypeOK, NEW c \in Client, pc[c] # "idle"
  PROVE  /\ TargetNode(c) \in DeviceIds /\ TargetProperty(c) \in Property
         /\ call[c].op \in {READ_PROPERTY, WRITE_PROPERTY}
         /\ \E data \in Seq(Nat) :
              /\ call[c].op = READ_PROPERTY => data = << >>
              /\ Request(c) =
                   Message(MakeId(CLIENT_TO_DEVICE, TargetNode(c), call[c].op,
                                  TargetProperty(c)), data)
<1>1. /\ TargetNode(c) \in Node /\ TargetProperty(c) \in Property
      /\ call[c].op \in {READ_PROPERTY, WRITE_PROPERTY} /\ call[c].data \in Seq(Nat)
  BY TargetType DEF Call
<1> DEFINE data == IF call[c].op = WRITE_PROPERTY THEN call[c].data ELSE << >>
<1>2. data \in Seq(Nat) /\ (call[c].op = READ_PROPERTY => data = << >>)
  BY <1>1, EmptySeq, FieldRanges
<1>3. Request(c) =
        Message(MakeId(CLIENT_TO_DEVICE, TargetNode(c), call[c].op, TargetProperty(c)), data)
  BY <1>1, FieldRanges DEF Request, ReadPropertyRequest, WritePropertyRequest
<1> QED
  BY <1>1, <1>2, <1>3, NodeRange

(* The values seen during a query include the one the property has now.    *)
LEMMA HeldNow ==
  ASSUME TypeOK, NEW c \in Client, pc[c] = "recv", NEW newVals, held' = HeldWith(newVals)
  PROVE  /\ held[c] \subseteq held'[c]
         /\ Encoded(newVals, TargetNode(c), TargetProperty(c)) \in held'[c]
BY DEF HeldWith

LEMMA SoleRespond ==
  ASSUME TypeOK, NEW c \in Client, OneAtATime(c), Matched(c), NEW n \in Node, Respond(n)
  PROVE  OneAtATime(c)' /\ Matched(c)'
<1> DEFINE p == TargetProperty(c)
           op == call[c].op
<1>1. /\ devq[n] # << >> /\ devq' = [devq EXCEPT ![n] = Tail(@)]
      /\ held' = HeldWith(vals')
      /\ UNCHANGED <<pc, call, answers, sent>>
  BY DEF Respond, clientVars
<1>2. RequestOut(c) /\ pc[c] = "recv"
  BY <1>1 DEF OneAtATime, Nothing, NoRequests, ResponseBack
<1>3. n = TargetNode(c) /\ devq[n] = <<Asked(c)>> /\ rxq[c] = << >>
  BY <1>1, <1>2 DEF RequestOut
<1>4. Tail(devq[n]) = << >> /\ Head(devq[n]) = Asked(c)
  BY <1>3, SMT
<1>5. /\ Head(devq[n]).tag = Tag(c) /\ Head(devq[n]).req = Request(c)
      /\ Head(devq[n]).msg = Request(c)
  BY <1>4 DEF Asked, Packet
<1>6. NoRequests'
  BY <1>1, <1>2, <1>3, <1>4 DEF RequestOut, NoRequests, TypeOK
<1>7. PICK o \in Handle(n, << >>, vals[n], Head(devq[n]).msg) :
        /\ vals' = [vals EXCEPT ![n] = o.vals]
        /\ rxq' = [d \in Client |->
                     rxq[d] \o [i \in DOMAIN o.out |->
                                 Packet(Head(devq[n]).tag, Head(devq[n]).req, o.out[i])]]
  BY DEF Respond
<1>8. PICK data \in Seq(Nat) :
        /\ op = READ_PROPERTY => data = << >>
        /\ Request(c) = Message(MakeId(CLIENT_TO_DEVICE, n, op, p), data)
  BY <1>2, <1>3, RequestFacts
<1>9. /\ n \in DeviceIds /\ p \in Property /\ op \in {READ_PROPERTY, WRITE_PROPERTY}
      /\ vals[n] \in [Property -> Nat]
  BY <1>2, <1>3, RequestFacts DEF TypeOK
<1> HIDE DEF p, op
<1>10. PICK msg \in [id : Nat, data : Seq(Nat)] :
         /\ o.out = <<msg>>
         /\ IsErrorFor(msg, n, p) \/ IsValueFor(msg, n, op, p, o.vals)
  BY <1>5, <1>7, <1>8, <1>9, HandleOutcome, SMTT(60)
<1> DEFINE k == Packet(Tag(c), Request(c), msg)
<1>11. k.msg = msg
  BY DEF Packet
<1>12. [i \in DOMAIN o.out |-> Packet(Head(devq[n]).tag, Head(devq[n]).req, o.out[i])] = <<k>>
  BY <1>5, <1>10, SMT
<1> HIDE DEF k
<1>13. rxq'[c] = <<k>>
  <2>1. rxq'[c] = << >> \o <<k>>
    BY <1>3, <1>7, <1>12
  <2> QED
    BY <2>1, SMT
<1>14. rxq'[c][1].msg = msg /\ rxq'[c] = <<Packet(Tag(c), Request(c), msg)>>
  BY <1>11, <1>13, SMT DEF k
<1>15. TargetNode(c)' = n /\ TargetProperty(c)' = p /\ Tag(c)' = Tag(c)
       /\ Request(c)' = Request(c) /\ call'[c].op = op
  BY <1>1, <1>3, SameQuery DEF p, op
<1>16. ASSUME IsValueFor(msg, n, op, p, o.vals) PROVE IsTrue(c, msg)'
  <2>1. vals'[n] = o.vals
    BY <1>7 DEF TypeOK
  <2>2. msg.data = Encoded(vals', n, p) /\ msg.id = MakeId(DEVICE_TO_CLIENT, n, op, p)
    BY <1>16, <2>1 DEF IsValueFor, Encoded
  <2>3. Encoded(vals', n, p) \in held'[c]
    BY <1>1, <1>2, <1>3, HeldNow DEF p
  <2> QED
    BY <1>15, <2>2, <2>3 DEF IsTrue
<1>17. Answering(c, msg)'
  BY <1>10, <1>15, <1>16 DEF Answering
<1>18. ResponseBack(c)'
  BY <1>6, <1>14, <1>15, <1>17 DEF ResponseBack
<1> QED
  BY <1>1, <1>2, <1>18, SameMatched DEF OneAtATime

LEMMA SoleChange ==
  ASSUME TypeOK, NEW c \in Client, OneAtATime(c), Matched(c),
         NEW n \in Node, NEW p \in Changing, Change(n, p)
  PROVE  OneAtATime(c)' /\ Matched(c)'
<1>1. PICK v : vals' = [vals EXCEPT ![n][p] = v]
  BY DEF Change
<1>2. held' = HeldWith(vals') /\ UNCHANGED <<pc, call, answers, sent, devq, rxq, seen>>
  BY DEF Change, clientVars, faultVars
<1>3. SUFFICES OneAtATime(c)'
  BY <1>2, SameMatched
<1>4. Nothing(c) => Nothing(c)'
  BY <1>2 DEF Nothing, NoRequests
<1>5. RequestOut(c) => RequestOut(c)'
  BY <1>2, SameQuery DEF RequestOut
<1>6. ASSUME pc[c] = "recv", ResponseBack(c) PROVE ResponseBack(c)'
  <2>0. PICK msg : msg = rxq[c][1].msg
    OBVIOUS
  <2>1. TargetNode(c) \in Node /\ TargetProperty(c) \in Property
    BY <1>6, TargetType
  <2>2. TargetProperty(c) \notin Changing =>
          Encoded(vals', TargetNode(c), TargetProperty(c))
            = Encoded(vals, TargetNode(c), TargetProperty(c))
    BY <1>1, <2>1 DEF Encoded, TypeOK
  <2>3. held[c] \subseteq held'[c]
    BY <1>2, <1>6, HeldNow
  <2>4. NoRequests' /\ rxq'[c] = <<Packet(Tag(c), Request(c), msg)>> /\ Answering(c, msg)
    BY <1>2, <1>6, <2>0 DEF ResponseBack, NoRequests
  <2>5. IsTrue(c, msg) => IsTrue(c, msg)'
    BY <1>2, <2>2, <2>3, SameQuery DEF IsTrue
  <2>6. Answering(c, msg)'
    BY <1>2, <2>4, <2>5, SameQuery DEF Answering
  <2> QED
    BY <1>2, <2>0, <2>4, <2>6, SameQuery DEF ResponseBack
<1> QED
  BY <1>2, <1>4, <1>5, <1>6 DEF OneAtATime

LEMMA SoleRestart ==
  ASSUME TypeOK, NEW c \in Client, OneAtATime(c), Matched(c), NEW n \in Node, Restart(n)
  PROVE  OneAtATime(c)' /\ Matched(c)'
<1>1. /\ devq' = [devq EXCEPT ![n] = << >>] /\ held' = HeldWith(vals')
      /\ UNCHANGED <<pc, call, answers, sent, rxq>>
      /\ "restart" \in seen'
  BY DEF Restart, Fault, clientVars
<1>2. SUFFICES OneAtATime(c)'
  BY <1>1, SameMatched
<1>3. NoRequests => NoRequests'
  BY <1>1 DEF NoRequests, TypeOK
<1>4. Nothing(c) => Nothing(c)'
  BY <1>1, <1>3 DEF Nothing
<1>5. ASSUME RequestOut(c) PROVE RequestOut(c)' \/ Nothing(c)'
  <2>1. CASE n = TargetNode(c)
    BY <1>1, <1>5, <2>1 DEF RequestOut, Nothing, NoRequests, TypeOK
  <2>2. CASE n # TargetNode(c)
    <3>1. devq'[TargetNode(c)] = devq[TargetNode(c)]
      BY <1>1, <1>5, <2>2 DEF TypeOK
    <3>2. \A m \in Node \ {TargetNode(c)} : devq'[m] = << >>
      BY <1>1, <1>5 DEF RequestOut, TypeOK
    <3> QED
      BY <1>1, <1>5, <3>1, <3>2, SameQuery DEF RequestOut
  <2> QED
    BY <2>1, <2>2
<1>6. ASSUME pc[c] = "recv", ResponseBack(c) PROVE ResponseBack(c)'
  <2>0. PICK msg : msg = rxq[c][1].msg
    OBVIOUS
  <2>1. held[c] \subseteq held'[c]
    BY <1>1, <1>6, HeldNow
  <2>2. NoRequests' /\ rxq'[c] = <<Packet(Tag(c), Request(c), msg)>> /\ Answering(c, msg)
    BY <1>1, <1>3, <1>6, <2>0 DEF ResponseBack
  <2>3. IsTrue(c, msg) => IsTrue(c, msg)'
    BY <1>1, <2>1, SameQuery DEF IsTrue
  <2>4. Answering(c, msg)'
    BY <1>1, <2>2, <2>3, SameQuery DEF Answering
  <2> QED
    BY <1>1, <2>0, <2>2, <2>4, SameQuery DEF ResponseBack
<1> QED
  BY <1>1, <1>4, <1>5, <1>6 DEF OneAtATime

LEMMA SoleNext ==
  ASSUME OnlyClient, IInv, SoleInv, [Next]_vars
  PROVE  SoleInv'
<1> SUFFICES ASSUME InStep', NEW c \in Client PROVE OneAtATime(c)' /\ Matched(c)'
  BY DEF SoleInv
<1>1. TypeOK /\ OneAtATime(c) /\ Matched(c) /\ \A d \in Client : d = c
  BY SeenGrows DEF SoleInv, IInv, OnlyClient
<1>2. CASE UNCHANGED vars
  <2>1. UNCHANGED <<vals, devq, rxq, pc, call, answers, held, sent, seen>>
    BY <1>2 DEF vars
  <2>2. Nothing(c)' = Nothing(c) /\ RequestOut(c)' = RequestOut(c)
    BY <2>1, SameQuery DEF Nothing, NoRequests, RequestOut
  <2>3. ResponseBack(c)' = ResponseBack(c)
    BY <2>1, SameQuery DEF ResponseBack, NoRequests, Answering, IsTrue
  <2> QED
    BY <1>1, <2>1, <2>2, <2>3, SameMatched DEF OneAtATime
<1>3. CASE \E d \in Client :
             Start(d) \/ Send(d) \/ Receive(d) \/ Timeout(d) \/ LoseFrame(d)
  BY <1>1, <1>3, SoleStart, SoleSend, SoleReceive, SoleTimeout, SoleLoseFrame
<1>4. CASE \E n \in Node : Respond(n) \/ LoseRequest(n) \/ Restart(n)
  BY <1>1, <1>4, SoleRespond, SoleLoseRequest, SoleRestart
<1>5. CASE \E n \in Node, p \in Changing : Change(n, p)
  BY <1>1, <1>5, SoleChange
<1>6. ~ \E id \in ForeignIds : Foreign(id)
  BY DEF Foreign, Fault, InStep
<1> QED
  BY <1>2, <1>3, <1>4, <1>5, <1>6 DEF Next

LEMMA SoleInvariance == ASSUME OnlyClient PROVE Spec => []SoleInv
<1>1. IInv /\ SoleInv /\ [Next]_vars => SoleInv'
  BY SoleNext
<1> QED
  BY <1>1, SoleInit, Invariance, PTL DEF Spec

(* A client that is alone on its bus and in step reads values that were    *)
(* true while it waited, whatever is lost or restarts: what                *)
(* query_properties returns is what the property itself had between the    *)
(* request and the answer.                                                 *)
THEOREM OnlyClientReadsTheTruth == OnlyClient => (Spec => []AnswersAreCurrent)
<1> SUFFICES ASSUME OnlyClient PROVE Spec => []AnswersAreCurrent
  OBVIOUS
<1>1. SoleInv => AnswersAreCurrent
  BY DEF SoleInv, Matched, AnswersAreCurrent
<1> QED
  BY <1>1, SoleInvariance, PTL

(* For it, responses correspond to requests one to one (doc/SPEC.md:297).  *)
THEOREM OneResponsePerRequest ==
  OnlyClient => (Spec => [](InStep => AnswerIsToTheRequest))
<1> SUFFICES ASSUME OnlyClient PROVE Spec => [](InStep => AnswerIsToTheRequest)
  OBVIOUS
<1>1. SoleInv => (InStep => AnswerIsToTheRequest)
  BY DEF SoleInv, Matched, AnswerIsToTheRequest
<1> QED
  BY <1>1, SoleInvariance, PTL

(* The step in which a write is acknowledged.                              *)
LEMMA SoleWrite ==
  ASSUME OnlyClient, IInv, SoleInv, Next, NEW c \in Client,
         InStep, "restart" \notin seen, TargetProperty(c) \notin Changing,
         Len(answers'[c]) = Len(answers[c]) + 1,
         answers'[c][Len(answers[c]) + 1].value # NoValue
  PROVE  answers'[c][Len(answers[c]) + 1].value
           = Encoded(vals, TargetNode(c), TargetProperty(c))
<1>1. TypeOK /\ OneAtATime(c) /\ (\A d \in Client : d = c)
  BY DEF SoleInv, IInv, OnlyClient
<1>2. Len(answers[c]) \in Nat /\ answers[c] \in Seq(AnswerType)
  BY <1>1, LenProperties DEF TypeOK
<1>3. answers'[c] # answers[c] /\ answers'[c] # << >>
  BY <1>2, SMT
<1>4. ASSUME NEW value, NEW tag, NEW req, Answer(c, value, tag, req)
      PROVE  answers'[c][Len(answers[c]) + 1].value = value
  <2> DEFINE answer == [value |-> value, tag |-> tag, req |-> req,
                        held |-> held[c], sent |-> sent[c]]
  <2>1. answers'[c] = Append(answers[c], answer) /\ answer.value = value
    BY <1>1, <1>4 DEF Answer, TypeOK
  <2> HIDE DEF answer
  <2> QED
    BY <1>2, <2>1, SMT
<1>5. Receive(c)
  <2>1. ASSUME NEW n \in Node, Respond(n) \/ LoseRequest(n) \/ Restart(n)
        PROVE  FALSE
    BY <1>3, <2>1 DEF Respond, LoseRequest, Restart, clientVars
  <2>2. ASSUME NEW n \in Node, NEW p \in Changing, Change(n, p) PROVE FALSE
    BY <1>3, <2>2 DEF Change, clientVars
  <2>3. ASSUME NEW id \in ForeignIds, Foreign(id) PROVE FALSE
    BY <1>3, <2>3 DEF Foreign, clientVars
  <2>4. ASSUME Start(c) \/ Send(c) \/ LoseFrame(c) PROVE FALSE
    BY <1>1, <1>3, <2>4 DEF Start, Send, LoseFrame, clientVars, TypeOK
  <2>5. ~ Timeout(c)
    BY <1>4 DEF Timeout
  <2> QED
    BY <1>1, <2>1, <2>2, <2>3, <2>4, <2>5 DEF Next
<1> DEFINE msg == Head(rxq[c]).msg
<1>6. /\ pc[c] = "recv" /\ rxq[c] # << >>
      /\ IsAnswer(c, msg) => IsTrue(c, msg)
  BY <1>1, <1>5, ResponseFacts DEF Receive
<1>7. \/ Answer(c, NoValue, NoTag, NoFrame)
      \/ /\ IsAnswer(c, msg)
         /\ Answer(c, Result(c, msg), Head(rxq[c]).tag, Head(rxq[c]).req)
      \/ answers' = answers
  BY <1>5 DEF Receive, clientVars
<1> HIDE DEF msg
<1>8. IsTrue(c, msg) /\ answers'[c][Len(answers[c]) + 1].value = Result(c, msg)
  BY <1>3, <1>4, <1>6, <1>7
<1> QED
  BY <1>8 DEF IsTrue, Result

(* set_property of such a client changes what it says it has changed: as   *)
(* long as the device has not restarted, the value it returns is the one   *)
(* the device has.                                                         *)
THEOREM AcknowledgedWritesAreInEffect == OnlyClient => (Spec => WriteIsInEffect)
<1> SUFFICES ASSUME OnlyClient PROVE Spec => WriteIsInEffect
  OBVIOUS
<1> DEFINE Effect ==
      \A c \in Client :
        LET n == Len(answers[c]) + 1
        IN  /\ InStep /\ "restart" \notin seen
            /\ call[c].op = WRITE_PROPERTY
            /\ Len(answers'[c]) = n /\ answers'[c][n].value # NoValue
            /\ TargetProperty(c) \notin Changing
            => answers'[c][n].value = Encoded(vals, TargetNode(c), TargetProperty(c))
<1>1. IInv /\ SoleInv /\ [Next]_vars => [Effect]_vars
  BY SoleWrite
<1>2. WriteIsInEffect <=> [][Effect]_vars
  BY DEF WriteIsInEffect
<1> HIDE DEF Effect
<1> QED
  BY <1>1, <1>2, Invariance, SoleInvariance, PTL DEF Spec

-----------------------------------------------------------------------------
(* Any number of clients, and nothing lost, late or refused: the request   *)
(* of a read or its response is always there, and what is taken for a      *)
(* response has a value.                                                   *)

IsResponseTo(c, k) == k.tag = Tag(c) /\ IsAnswer(c, k.msg)

Coming(c) ==
  \/ Asked(c) \in Range(devq[TargetNode(c)])
  \/ \E k \in Range(rxq[c]) : IsResponseTo(c, k)

IsSound(k) ==
  /\ Unpacks(k.msg)
  /\ DirOf(k.msg.id) = DEVICE_TO_CLIENT /\ OpcodeOf(k.msg.id) = READ_PROPERTY =>
       k.msg.data # << >>

AnswersComing(c) ==
  call[c].op = READ_PROPERTY =>
    /\ Given(c) = DOMAIN answers[c]
    /\ pc[c] = "recv" => Coming(c)

SuccessInv ==
  seen = {} =>
    \A c \in Client : (\A k \in Range(rxq[c]) : IsSound(k)) /\ AnswersComing(c)

\* Nothing is refused: the callbacks do not fail, and what is read has a
\* getter and a type the library has.
NothingRefused ==
  /\ UserErrors = {}
  /\ \A c \in Calls : c.op = READ_PROPERTY =>
       \A i \in DOMAIN c.list : c.list[i][2] \in Readable /\ PropSize[c.list[i][2]] # 0

(* A device that refuses nothing answers a read with the value.            *)
LEMMA ReadIsAnswered ==
  ASSUME NEW node \in DeviceIds, NEW p \in Readable, PropSize[p] # 0, UserErrors = {},
         NEW values, NEW manifest,
         NEW o \in Handle(node, manifest, values,
                          Message(MakeId(CLIENT_TO_DEVICE, node, READ_PROPERTY, p), << >>))
  PROVE  \E data : o.out = <<Message(MakeId(DEVICE_TO_CLIENT, node, READ_PROPERTY, p), data)>>
<1> DEFINE id  == MakeId(CLIENT_TO_DEVICE, node, READ_PROPERTY, p)
           req == Message(id, << >>)
<1>1. p \in Property
  BY DeviceAssumption
<1>2. node \in NodeIds /\ READ_PROPERTY \in Codes /\ p \in Indices
  BY <1>1, PropertyRange, FieldRanges, SMT DEF NodeIds, DeviceIds
<1>3. /\ IsDevprop(id) /\ DirOf(id) = CLIENT_TO_DEVICE
      /\ NodeOf(id) = node /\ PropertyIndex(id) = p /\ OpcodeOf(id) = READ_PROPERTY
  BY <1>2, UnpackRequest
<1>4. FlipDir(id) = MakeId(DEVICE_TO_CLIENT, node, READ_PROPERTY, p)
  BY <1>2, FlipMake
<1>5. ~ (p < 1) /\ ~ (p > NumProps + 1) /\ p # NumProps + 1
  BY <1>1, PropertyRange, SMT
<1>6. req.id = id /\ req.data = << >> /\ o \in Handle(node, manifest, values, req)
  BY DEF Message
<1> HIDE DEF id, req
<1>7. o \in ReadProperty(values, req)
  <2>1. READ_PROPERTY # READ_MANIFEST
    BY FieldRanges
  <2> QED
    BY <1>3, <1>6, <2>1 DEF Handle
<1>8. o \in GetPropertyValue(p, values, req)
  BY <1>3, <1>5, <1>6, <1>7 DEF ReadProperty
<1>9. o \in Reply(values, id, Bytes(values[p], PropSize[p])) \cup UserError(values, id)
  BY <1>6, <1>8 DEF GetPropertyValue
<1>10. UserError(values, id) = {}
  BY DEF UserError
<1> QED
  BY <1>4, <1>9, <1>10, ReplyOutcome

(* What any device sends can be unpacked, and a value is not empty.        *)
LEMMA ResponseIsSound ==
  ASSUME TypeOK, NEW n \in Node, NEW packet \in DeviceQueue(n),
         NEW o \in Handle(n, << >>, vals[n], packet.msg)
  PROVE  \E msg : /\ o.out = <<msg>>
                  /\ \A k : k.msg = msg => IsSound(k)
<1>1. packet.msg \in Msg /\ IsRequestFor(n, packet.msg)
  BY DEF DeviceQueue, PacketType
<1>2. PICK opcode \in {READ_PROPERTY, WRITE_PROPERTY}, p \in Property :
        /\ packet.msg.id = MakeId(CLIENT_TO_DEVICE, n, opcode, p)
        /\ opcode = READ_PROPERTY => packet.msg.data = << >>
  BY <1>1 DEF IsRequestFor
<1>3. PICK data \in Seq(Nat) :
        packet.msg = Message(MakeId(CLIENT_TO_DEVICE, n, opcode, p), data)
          /\ data = packet.msg.data
  BY <1>1, <1>2 DEF Message, Msg
<1>4. n \in DeviceIds /\ n \in NodeIds /\ vals[n] \in [Property -> Nat]
  BY NodeRange DEF TypeOK
<1>5. PICK msg \in [id : Nat, data : Seq(Nat)] :
        /\ o.vals \in [Property -> Nat]
        /\ o.out = <<msg>>
        /\ IsErrorFor(msg, n, p) \/ IsValueFor(msg, n, opcode, p, o.vals)
  BY <1>2, <1>3, <1>4, HandleOutcome
<1>6. p \in Indices /\ opcode \in Codes /\ ERROR \in Codes
      /\ opcode \in Opcode /\ ERROR \in Opcode /\ ERROR # READ_PROPERTY
  BY PropertyRange, FieldRanges DEF Opcode
<1>7. ASSUME IsErrorFor(msg, n, p), NEW k, k.msg = msg PROVE IsSound(k)
  <2>1. IsDevprop(msg.id) /\ OpcodeOf(msg.id) = ERROR
    BY <1>4, <1>6, <1>7, UnpackRequest DEF IsErrorFor
  <2> QED
    BY <1>6, <1>7, <2>1 DEF IsSound, Unpacks
<1>8. ASSUME IsValueFor(msg, n, opcode, p, o.vals), NEW k, k.msg = msg PROVE IsSound(k)
  <2>1. IsDevprop(msg.id) /\ OpcodeOf(msg.id) = opcode
    BY <1>4, <1>6, <1>8, UnpackRequest DEF IsValueFor
  <2>2. msg.data # << >>
    <3>1. o.vals[p] \in Nat /\ PropSize[p] \in 0..4 /\ PropSize[p] # 0
      BY <1>5, <1>8, PropSizeType DEF IsValueFor
    <3>2. Len(Bytes(o.vals[p], PropSize[p])) = PropSize[p]
      BY <3>1, BytesType
    <3> QED
      BY <1>8, <3>1, <3>2, EmptySeq DEF IsValueFor
  <2> QED
    BY <1>6, <1>8, <2>1, <2>2 DEF IsSound, Unpacks
<1> QED
  BY <1>5, <1>7, <1>8

SoundQueue(c) == \A k \in Range(rxq[c]) : IsSound(k)

(* A client that does nothing goes on with the same query.                 *)
LEMMA SameAsked ==
  ASSUME NEW c \in Client, call'[c] = call[c], answers'[c] = answers[c], sent'[c] = sent[c]
  PROVE  /\ TargetNode(c)' = TargetNode(c) /\ Asked(c)' = Asked(c)
         /\ \A k : IsResponseTo(c, k)' <=> IsResponseTo(c, k)
<1>1. Target(c)' = Target(c)
  BY DEF Target
<1>2. TargetNode(c)' = TargetNode(c) /\ TargetProperty(c)' = TargetProperty(c)
      /\ Tag(c)' = Tag(c)
  BY <1>1 DEF TargetNode, TargetProperty, Tag
<1>3. Asked(c)' = Asked(c)
  BY <1>2 DEF Asked, Request
<1> QED
  BY <1>2, <1>3 DEF IsResponseTo, IsAnswer

LEMMA StillComing ==
  ASSUME NEW c \in Client, AnswersComing(c),
         call'[c] = call[c], answers'[c] = answers[c], sent'[c] = sent[c], pc'[c] = pc[c],
         \A k \in Range(rxq[c]) : IsResponseTo(c, k) => k \in Range(rxq'[c]),
         pc[c] = "recv" /\ call[c].op = READ_PROPERTY
             /\ Asked(c) \in Range(devq[TargetNode(c)]) =>
           \/ Asked(c) \in Range(devq'[TargetNode(c)])
           \/ \E k \in Range(rxq'[c]) : IsResponseTo(c, k)
  PROVE  AnswersComing(c)'
<1>1. /\ TargetNode(c)' = TargetNode(c) /\ Asked(c)' = Asked(c)
      /\ \A k : IsResponseTo(c, k)' <=> IsResponseTo(c, k)
  BY SameAsked
<1>2. Given(c)' = Given(c)
  BY DEF Given
<1>3. ASSUME call[c].op = READ_PROPERTY, pc[c] = "recv" PROVE Coming(c)'
  <2>1. \/ Asked(c) \in Range(devq'[TargetNode(c)])
        \/ \E k \in Range(rxq'[c]) : IsResponseTo(c, k)
    BY <1>3 DEF AnswersComing, Coming
  <2>2. Coming(c)' <=> \/ Asked(c)' \in Range(devq'[TargetNode(c)'])
                       \/ \E k \in Range(rxq'[c]) : IsResponseTo(c, k)'
    BY DEF Coming, Range
  <2> QED
    BY <1>1, <2>1, <2>2
<1> QED
  BY <1>2, <1>3 DEF AnswersComing

LEMMA SuccessStart ==
  ASSUME TypeOK, NEW c \in Client, SoundQueue(c), AnswersComing(c),
         NEW d \in Client, Start(d)
  PROVE  SoundQueue(c)' /\ AnswersComing(c)'
<1>1. UNCHANGED <<devq, rxq, sent>>
  BY DEF Start
<1>2. CASE d = c
  <2>1. answers'[c] = << >> /\ pc'[c] = "send"
    BY <1>2 DEF Start, TypeOK
  <2> QED
    BY <1>1, <2>1 DEF SoundQueue, AnswersComing, Given, Range
<1>3. CASE d # c
  <2>1. answers'[c] = answers[c] /\ pc'[c] = pc[c] /\ call'[c] = call[c]
    BY <1>3 DEF Start, TypeOK
  <2> QED
    BY <1>1, <2>1, StillComing DEF SoundQueue, Range
<1> QED
  BY <1>2, <1>3

(* A request is no response, and can be unpacked.                          *)
LEMMA RequestIsSound ==
  ASSUME TypeOK, NEW d \in Client, pc[d] # "idle", NEW k, k.msg = Request(d)
  PROVE  IsSound(k)
<1>1. /\ TargetNode(d) \in NodeIds /\ TargetProperty(d) \in Indices
      /\ call[d].op \in Codes /\ call[d].op \in Opcode
  BY RequestFacts, TargetType, NodeRange, PropertyRange, FieldRanges DEF Opcode
<1>2. k.msg.id = MakeId(CLIENT_TO_DEVICE, TargetNode(d), call[d].op, TargetProperty(d))
  BY RequestFacts DEF Message
<1>3. /\ IsDevprop(k.msg.id) /\ OpcodeOf(k.msg.id) = call[d].op
      /\ DirOf(k.msg.id) = CLIENT_TO_DEVICE
  BY <1>1, <1>2, UnpackRequest
<1> QED
  BY <1>1, <1>3, FieldRanges DEF IsSound, Unpacks

LEMMA SuccessSend ==
  ASSUME IInv, NEW c \in Client, SoundQueue(c), AnswersComing(c),
         NEW d \in Client, Send(d)
  PROVE  SoundQueue(c)' /\ AnswersComing(c)'
<1> DEFINE n == TargetNode(d)
           packet == Packet(<<d, sent[d] + 1>>, Request(d), Request(d))
<1>1. TypeOK /\ QueuesOK
  BY DEF IInv
<1>2. /\ pc[d] = "send"
      /\ pc' = [pc EXCEPT ![d] = "recv"]
      /\ sent' = [sent EXCEPT ![d] = @ + 1]
      /\ devq' = [devq EXCEPT ![n] = Append(@, packet)]
      /\ rxq' = ToAll(d, <<packet>>)
      /\ UNCHANGED <<call, answers>>
  BY DEF Send
<1>3. sent[d] + 1 \in Nat /\ <<d, sent[d] + 1>> \in Tags
  BY <1>1, SMT DEF TypeOK, Tags
<1>4. packet \in DeviceQueue(n) /\ packet \in ClientQueue /\ n \in Node
  BY <1>1, <1>2, <1>3, RequestType, TargetType
<1>5. IsSound(packet)
  BY <1>1, <1>2, RequestIsSound DEF Packet
<1>6. devq[n] \in Seq(DeviceQueue(n)) /\ rxq[c] \in Seq(ClientQueue)
  BY <1>1, <1>4 DEF QueuesOK
<1>14. devq \in [Node -> Packets] /\ sent \in [Client -> Nat] /\ pc \in [Client -> {"idle", "send", "recv"}]
  BY <1>1 DEF TypeOK
<1> HIDE DEF packet
<1>7. devq'[n] = Append(devq[n], packet)
  BY <1>2, <1>4, <1>14
<1>8. Range(devq'[n]) = Range(devq[n]) \cup {packet}
  BY <1>4, <1>6, <1>7, RangeOf
<1>9. CASE d = c
  <2>1. rxq'[c] = rxq[c] /\ sent'[c] = sent[c] + 1 /\ pc'[c] = "recv"
    BY <1>2, <1>9, <1>14 DEF ToAll
  <2>2. TargetNode(c)' = n /\ Asked(c)' = packet
    BY <1>2, <1>9, <2>1
       DEF TargetNode, TargetProperty, Target, Asked, Request, Tag, packet
  <2>3. Coming(c)'
    <3>1. Coming(c)' <=> \/ Asked(c)' \in Range(devq'[TargetNode(c)'])
                         \/ \E k \in Range(rxq'[c]) : IsResponseTo(c, k)'
      BY DEF Coming, Range
    <3> QED
      BY <1>8, <2>2, <3>1
  <2>4. SoundQueue(c)'
    BY <2>1 DEF SoundQueue, Range
  <2> QED
    BY <1>2, <2>3, <2>4 DEF AnswersComing, Given
<1>10. CASE d # c
  <2>1. rxq'[c] = rxq[c] \o <<packet>> /\ sent'[c] = sent[c] /\ pc'[c] = pc[c]
    BY <1>2, <1>10, <1>14 DEF ToAll
  <2>2. Range(rxq'[c]) = Range(rxq[c]) \cup {packet}
    <3>1. rxq[c] \o <<packet>> = Append(rxq[c], packet)
      BY <1>4, <1>6, RangeOf
    <3>2. rxq'[c] = Append(rxq[c], packet)
      BY <2>1, <3>1
    <3>3. Range(Append(rxq[c], packet)) = Range(rxq[c]) \cup {packet}
      BY <1>4, <1>6, RangeOf
    <3> QED
      BY <3>2, <3>3
  <2>3. SoundQueue(c)'
    BY <1>5, <2>2 DEF SoundQueue, Range
  <2>4. ASSUME pc[c] = "recv", Asked(c) \in Range(devq[TargetNode(c)])
        PROVE  Asked(c) \in Range(devq'[TargetNode(c)])
    <3>1. CASE TargetNode(c) = n
      BY <1>8, <2>4, <3>1
    <3>2. CASE TargetNode(c) # n
      <4>1. devq'[TargetNode(c)] = devq[TargetNode(c)]
        BY <1>1, <1>2, <1>14, <2>4, <3>2, TargetType
      <4> QED
        BY <2>4, <4>1
    <3> QED
      BY <3>1, <3>2
  <2> QED
    BY <1>2, <2>1, <2>2, <2>3, <2>4, StillComing
<1> QED
  BY <1>9, <1>10

LEMMA SuccessReceive ==
  ASSUME IInv, NEW c \in Client, SoundQueue(c), AnswersComing(c),
         NEW d \in Client, Receive(d)
  PROVE  SoundQueue(c)' /\ AnswersComing(c)'
<1>1. TypeOK /\ QueuesOK
  BY DEF IInv
<1>2. /\ pc[d] = "recv" /\ rxq[d] # << >>
      /\ rxq' = [rxq EXCEPT ![d] = Tail(@)] /\ UNCHANGED devq
  BY DEF Receive
<1>3. CASE d # c
  <2>1. /\ rxq'[c] = rxq[c] /\ answers'[c] = answers[c] /\ pc'[c] = pc[c]
        /\ call'[c] = call[c] /\ sent'[c] = sent[c]
    BY <1>1, <1>2, <1>3 DEF Receive, Answer, clientVars, TypeOK
  <2> QED
    BY <1>2, <2>1, StillComing DEF SoundQueue, Range
<1>4. CASE d = c
  <2> DEFINE packet == Head(rxq[c])
             msg == packet.msg
  <2>1. rxq[c] \in Seq(ClientQueue) /\ rxq'[c] = Tail(rxq[c])
    BY <1>1, <1>2, <1>4 DEF QueuesOK
  <2>2. packet \in ClientQueue
    BY <1>2, <1>4, <2>1, SMT
  <2>3. Range(rxq[c]) = Range(rxq'[c]) \cup {packet}
    BY <1>2, <1>4, <2>1, <2>2, RangeOf
  <2>4. IsSound(packet)
    BY <2>3 DEF SoundQueue
  <2>5. SoundQueue(c)'
    BY <2>3 DEF SoundQueue, Range
  <2>6. \/ ~ Unpacks(msg)
        \/ IsAnswer(c, msg) /\ Answer(c, Result(c, msg), packet.tag, packet.req)
        \/ ~ IsAnswer(c, msg) /\ UNCHANGED <<clientVars, held>>
    BY <1>4 DEF Receive
  <2> HIDE DEF packet
  <2>7. CASE IsAnswer(c, msg) /\ Answer(c, Result(c, msg), packet.tag, packet.req)
    <3> SUFFICES ASSUME call[c].op = READ_PROPERTY
                 PROVE  Given(c)' = DOMAIN answers'[c] /\ pc'[c] # "recv"
      BY <2>5, <2>7 DEF AnswersComing, Answer
    <3> DEFINE answer == [value |-> Result(c, msg), tag |-> packet.tag, req |-> packet.req,
                          held |-> held[c], sent |-> sent[c]]
    <3>1. answers'[c] = Append(answers[c], answer) /\ pc'[c] # "recv"
      BY <1>1, <2>7 DEF Answer, TypeOK
    <3>2. Result(c, msg) = msg.data /\ msg.data # << >>
      BY <2>4, <2>7, FieldRanges DEF Result, IsSound, IsAnswer
    <3>3. answer.value # NoValue
      BY <3>2 DEF NoValue
    <3> HIDE DEF answer
    <3>4. /\ DOMAIN answers[c] = 1..Len(answers[c]) /\ Len(answers[c]) \in Nat
          /\ DOMAIN answers'[c] = 1..(Len(answers[c]) + 1)
          /\ \A i \in 1..Len(answers[c]) : answers'[c][i] = answers[c][i]
          /\ answers'[c][Len(answers[c]) + 1] = answer
      <4>1. answers[c] \in Seq(AnswerType)
        BY <1>1 DEF TypeOK
      <4> QED
        BY <3>1, <4>1, SMT
    <3>5. ASSUME NEW i \in 1..(Len(answers[c]) + 1) PROVE answers'[c][i].value # NoValue
      <4>1. i \in 1..Len(answers[c]) \/ i = Len(answers[c]) + 1
        BY <3>4, SMT
      <4>2. \A j \in DOMAIN answers[c] : answers[c][j].value # NoValue
        BY DEF AnswersComing, Given
      <4> QED
        BY <3>3, <3>4, <4>1, <4>2
    <3> QED
      BY <3>1, <3>4, <3>5 DEF Given
  <2>8. CASE ~ IsAnswer(c, msg) /\ UNCHANGED <<clientVars, held>>
    <3>1. ~ IsResponseTo(c, packet)
      BY <2>8 DEF IsResponseTo
    <3> QED
      BY <1>2, <2>3, <2>5, <2>8, <3>1, StillComing DEF clientVars
  <2> QED
    BY <2>4, <2>6, <2>7, <2>8 DEF IsSound
<1> QED
  BY <1>3, <1>4

(* A deadline that passes although nothing is late passes for a write.     *)
LEMMA SuccessTimeout ==
  ASSUME TypeOK, NEW c \in Client, SoundQueue(c), AnswersComing(c),
         NEW d \in Client, Timeout(d), seen' = {}
  PROVE  SoundQueue(c)' /\ AnswersComing(c)'
<1>1. ~ Fault("late")
  BY DEF Fault
<1>2. /\ pc[d] = "recv" /\ ~ OnTheWay(d) /\ UNCHANGED <<devq, rxq>>
      /\ Answer(d, NoValue, NoTag, NoFrame)
  BY <1>1 DEF Timeout
<1>3. SoundQueue(c)'
  BY <1>2 DEF SoundQueue, Range
<1>4. CASE d # c
  <2>1. /\ answers'[c] = answers[c] /\ pc'[c] = pc[c]
        /\ call'[c] = call[c] /\ sent'[c] = sent[c]
    BY <1>2, <1>4 DEF Answer, TypeOK
  <2> QED
    BY <1>2, <1>3, <2>1, StillComing
<1>5. CASE d = c
  <2>1. call'[c] = call[c]
    BY <1>2 DEF Answer
  <2>2. ~ Coming(c)
    <3>1. Asked(c).tag = Tag(c)
      BY DEF Asked, Packet
    <3>2. TargetNode(c) \in Node
      BY <1>2, <1>5, TargetType
    <3> QED
      BY <1>2, <1>5, <3>1, <3>2 DEF Coming, OnTheWay, Range, IsResponseTo
  <2>3. call[c].op # READ_PROPERTY
    BY <1>2, <1>5, <2>2 DEF AnswersComing
  <2> QED
    BY <1>3, <2>1, <2>3 DEF AnswersComing
<1> QED
  BY <1>4, <1>5

LEMMA SuccessRespond ==
  ASSUME IInv, NothingRefused, NEW c \in Client, SoundQueue(c), AnswersComing(c),
         NEW n \in Node, Respond(n)
  PROVE  SoundQueue(c)' /\ AnswersComing(c)'
<1>1. TypeOK /\ QueuesOK
  BY DEF IInv
<1>2. /\ devq[n] # << >> /\ devq' = [devq EXCEPT ![n] = Tail(@)]
      /\ UNCHANGED <<pc, call, answers, sent>>
  BY DEF Respond, clientVars
<1>3. PICK o \in Handle(n, << >>, vals[n], Head(devq[n]).msg) :
        rxq' = [e \in Client |->
                  rxq[e] \o [i \in DOMAIN o.out |->
                              Packet(Head(devq[n]).tag, Head(devq[n]).req, o.out[i])]]
  BY DEF Respond
<1>4. Head(devq[n]) \in DeviceQueue(n) /\ devq[n] \in Seq(DeviceQueue(n))
      /\ rxq[c] \in Seq(ClientQueue)
  BY <1>1, <1>2, TakeFromDevice DEF QueuesOK
<1>5. PICK msg : o.out = <<msg>> /\ \A k : k.msg = msg => IsSound(k)
  BY <1>1, <1>3, <1>4, ResponseIsSound
<1> DEFINE k == Packet(Head(devq[n]).tag, Head(devq[n]).req, msg)
<1>6. k.msg = msg /\ k.tag = Head(devq[n]).tag
  BY DEF Packet
<1>7. [i \in DOMAIN o.out |-> Packet(Head(devq[n]).tag, Head(devq[n]).req, o.out[i])] = <<k>>
  BY <1>5, SMT
<1>8. k \in ClientQueue
  <2>1. PICK m \in Msg :
          o.out = <<m>> /\ Packet(Head(devq[n]).tag, Head(devq[n]).req, m) \in ClientQueue
    BY <1>1, <1>3, <1>4, RespondOutcome
  <2>2. m = msg
    BY <1>5, <2>1, SMT
  <2> QED
    BY <2>1, <2>2
<1> HIDE DEF k
<1>9. rxq'[c] = rxq[c] \o <<k>>
  BY <1>3, <1>7
<1>10. Range(rxq'[c]) = Range(rxq[c]) \cup {k}
  <2>1. rxq[c] \o <<k>> = Append(rxq[c], k)
    BY <1>4, <1>8, RangeOf
  <2>2. rxq'[c] = Append(rxq[c], k)
    BY <1>9, <2>1
  <2>3. Range(Append(rxq[c], k)) = Range(rxq[c]) \cup {k}
    BY <1>4, <1>8, RangeOf
  <2> QED
    BY <2>2, <2>3
<1>11. SoundQueue(c)'
  <2>1. IsSound(k)
    BY <1>5, <1>6
  <2> QED
    BY <1>10, <2>1 DEF SoundQueue, Range
<1>12. devq'[n] = Tail(devq[n])
  BY <1>1, <1>2 DEF TypeOK
<1>13. Range(devq[n]) = Range(devq'[n]) \cup {Head(devq[n])}
  BY <1>2, <1>4, <1>12, RangeOf
<1>14. ASSUME pc[c] = "recv", call[c].op = READ_PROPERTY,
              Asked(c) \in Range(devq[TargetNode(c)])
       PROVE  Asked(c) \in Range(devq'[TargetNode(c)]) \/ IsResponseTo(c, k)
  <2>1. CASE TargetNode(c) # n
    <3>1. devq'[TargetNode(c)] = devq[TargetNode(c)]
      BY <1>1, <1>2, <1>14, <2>1, TargetType DEF TypeOK
    <3> QED
      BY <1>14, <3>1
  <2>2. CASE TargetNode(c) = n /\ Asked(c) # Head(devq[n])
    BY <1>13, <1>14, <2>2
  <2>3. CASE TargetNode(c) = n /\ Asked(c) = Head(devq[n])
    <3> DEFINE p == TargetProperty(c)
    <3>1. Head(devq[n]).msg = Request(c) /\ k.tag = Tag(c)
      BY <1>6, <2>3 DEF Asked, Packet
    <3>2. Request(c) = Message(MakeId(CLIENT_TO_DEVICE, n, READ_PROPERTY, p), << >>)
      BY <1>14, <2>3, FieldRanges DEF Request, ReadPropertyRequest
    <3>3. p \in Readable /\ PropSize[p] # 0
      <4>1. /\ call[c] \in Calls /\ Len(answers[c]) + 1 \in DOMAIN call[c].list
            /\ p = call[c].list[Len(answers[c]) + 1][2]
        <5>1. call[c].list \in Seq(Node \X Property)
          BY <1>1, <1>14, TargetType DEF Call
        <5> QED
          BY <1>1, <1>14, <5>1, TargetType, LenProperties DEF TargetProperty, Target
      <4> QED
        BY <1>14, <4>1 DEF NothingRefused
    <3>4. n \in DeviceIds /\ n \in NodeIds /\ p \in Indices
      BY <3>3, NodeRange, PropertyRange, DeviceAssumption
    <3> HIDE DEF p
    <3>5. PICK data :
            o.out = <<Message(MakeId(DEVICE_TO_CLIENT, n, READ_PROPERTY, p), data)>>
      <4>1. UserErrors = {}
        BY DEF NothingRefused
      <4>2. o \in Handle(n, << >>, vals[n],
                         Message(MakeId(CLIENT_TO_DEVICE, n, READ_PROPERTY, p), << >>))
        BY <1>3, <3>1, <3>2
      <4> QED
        BY <3>3, <3>4, <4>1, <4>2, ReadIsAnswered
    <3>6. msg = Message(MakeId(DEVICE_TO_CLIENT, n, READ_PROPERTY, p), data)
      BY <1>5, <3>5, SMT
    <3>7. msg.id = MakeId(DEVICE_TO_CLIENT, n, READ_PROPERTY, p)
      BY <3>6 DEF Message
    <3>8. /\ DirOf(msg.id) = DEVICE_TO_CLIENT /\ NodeOf(msg.id) = n
          /\ OpcodeOf(msg.id) = READ_PROPERTY
      BY <3>4, <3>7, FieldRanges, UnpackRequest
    <3>9. IsAnswer(c, msg)
      BY <1>14, <2>3, <3>8 DEF IsAnswer
    <3> QED
      BY <1>6, <3>1, <3>9 DEF IsResponseTo
  <2> QED
    BY <2>1, <2>2, <2>3
<1> QED
  BY <1>2, <1>10, <1>11, <1>14, StillComing

LEMMA SuccessNext ==
  ASSUME NothingRefused, IInv, SuccessInv, [Next]_vars
  PROVE  SuccessInv'
<1> SUFFICES ASSUME seen' = {}, NEW c \in Client PROVE SoundQueue(c)' /\ AnswersComing(c)'
  BY DEF SuccessInv, SoundQueue
<1>1. TypeOK /\ SoundQueue(c) /\ AnswersComing(c)
  BY SeenGrows DEF SuccessInv, SoundQueue, IInv
<1>2. ASSUME UNCHANGED <<devq, rxq, pc, call, answers, sent>>
      PROVE  SoundQueue(c)' /\ AnswersComing(c)'
  BY <1>1, <1>2, StillComing DEF SoundQueue, Range
<1>3. CASE UNCHANGED vars
  BY <1>2, <1>3 DEF vars
<1>4. CASE \E d \in Client : Start(d) \/ Send(d) \/ Receive(d) \/ Timeout(d)
  BY <1>1, <1>4, SuccessStart, SuccessSend, SuccessReceive, SuccessTimeout
<1>5. CASE \E n \in Node : Respond(n)
  BY <1>1, <1>5, SuccessRespond
<1>6. CASE \E n \in Node, p \in Changing : Change(n, p)
  BY <1>2, <1>6 DEF Change, clientVars
<1>7. /\ \A d \in Client : ~ LoseFrame(d)
      /\ \A n \in Node : ~ LoseRequest(n) /\ ~ Restart(n)
      /\ \A id \in ForeignIds : ~ Foreign(id)
  BY DEF LoseFrame, LoseRequest, Restart, Foreign, Fault
<1> QED
  BY <1>3, <1>4, <1>5, <1>6, <1>7 DEF Next

(* However many clients there are: as long as nothing is lost, late or     *)
(* foreign and no device has started again, query_properties has a value   *)
(* for every property that can be read, although the responses of the same *)
(* device to the others are on the bus too.                                *)
THEOREM QueriesAreAnswered == NothingRefused => (Spec => []QueriesSucceed)
<1> SUFFICES ASSUME NothingRefused PROVE Spec => []QueriesSucceed
  OBVIOUS
<1>1. Init => SuccessInv
  BY DEF Init, SuccessInv, AnswersComing, Given, Range
<1>2. IInv /\ SuccessInv /\ [Next]_vars => SuccessInv'
  BY SuccessNext
<1>3. SuccessInv => QueriesSucceed
  BY DEF SuccessInv, AnswersComing, QueriesSucceed
<1> QED
  BY <1>1, <1>2, <1>3, Invariance, PTL DEF Spec
=============================================================================
