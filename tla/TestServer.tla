----------------------------- MODULE TestServer -----------------------------
(***************************************************************************)
(* What the test server does with one frame (devprop/test_server.py), as   *)
(* the set of outcomes this may have: the values it keeps afterwards, the  *)
(* frames sent and whether it is still there.  It stands in for a device,  *)
(* keeps a value of sixteen bits for any index it hears of, and knows      *)
(* nothing of the manifest it serves.                                      *)
(***************************************************************************)
EXTENDS CanExtV1, FiniteSetsExt

\* Variant: randint takes its upper end for excluded.
DrawnBeyond == {0, 65536}

\* random.randint(0, 2**16 - 1): both ends stand for what is between.
Drawn == {0, 65535}

\* struct.unpack("<H", data), and bytes([value & 0xff, value >> 8])
Unpacked(data) == data[1] + 256 * data[2]
Packed(value)  == <<value % 256, value \div 256>>

\* blob[segment * 8:(segment + 1) * 8]
Segment(blob, segment) ==
  SubSeq(blob, segment * SEGMENT_SIZE + 1, Min({(segment + 1) * SEGMENT_SIZE, Len(blob)}))

Known(values, index) == index \in DOMAIN values

With(values, index, value) ==
  [i \in DOMAIN values \cup {index} |-> IF i = index THEN value ELSE values[i]]

Answered(values, out) == [values |-> values, out |-> <<out>>, alive |-> TRUE]

Response(node, opcode, index, data) ==
  Message(MakeId(DEVICE_TO_CLIENT, node, opcode, index), data)

\* make_error_response
Refused(values, node, opcode, index, code) ==
  Answered(values, Response(node, ERROR, index, <<opcode, - code>>))

\* Variant: an exception is not caught.
ServeUncaught(blob, values, node, opcode, index, data) ==
  IF opcode \in {READ_PROPERTY, WRITE_PROPERTY} /\ index = 0
  THEN {[values |-> values, out |-> << >>, alive |-> FALSE]}
  ELSE {Answered(values, Response(node, opcode, index, data))}

\* A request for this node.  A value is kept before make_frame_id asserts
\* that there is a property of that index.
Serve(blob, values, node, opcode, index, data) ==
  LET internal(vals) == Refused(vals, node, opcode, index, INTERNAL_ERROR)
      told(vals) == IF IndexAllowed(opcode, index)
                    THEN Answered(vals, Response(node, opcode, index, Packed(vals[index])))
                    ELSE internal(vals)
  IN  CASE opcode = READ_MANIFEST ->
             {Answered(values, Response(node, opcode, index, Segment(blob, index)))}
        [] opcode = READ_PROPERTY ->
             IF Known(values, index) THEN {told(values)}
             ELSE {told(With(values, index, value)) : value \in Drawn}
        [] opcode = WRITE_PROPERTY ->
             IF Len(data) = 2 THEN {told(With(values, index, Unpacked(data)))}
             ELSE {internal(values)}
        [] opcode = ERROR -> {Refused(values, node, opcode, index, PROTOCOL_ERROR)}

\* The loop around it.  unpack_id asserts and Opcode() raises for a frame
\* that is not devprop's; and a response of the server's own node id is one
\* assertion too many.
Take(blob, values, node, msg) ==
  LET id == msg.id
  IN  IF ~ IsDevprop(id) \/ OpcodeOf(id) \notin Opcode
         \/ (NodeOf(id) = node /\ DirOf(id) # CLIENT_TO_DEVICE)
      THEN {[values |-> values, out |-> << >>, alive |-> FALSE]}
      ELSE IF NodeOf(id) # node
      THEN {[values |-> values, out |-> << >>, alive |-> TRUE]}
      ELSE Serve(blob, values, node, OpcodeOf(id), PropertyIndex(id), msg.data)
=============================================================================
