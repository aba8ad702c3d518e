----------------------------- MODULE DeviceLib -----------------------------
(***************************************************************************)
(* What a device does with one frame: dp_handle_message_ext and the        *)
(* functions it calls (lang_c/devprop_can_ext_v1.c), as the set of         *)
(* outcomes the call may have.  An outcome is the values of the properties *)
(* afterwards, the frame sent (a sequence of at most one) and whether the  *)
(* device survives: a failed assert stops it, the Makefile builds without  *)
(* NDEBUG.                                                                 *)
(*                                                                         *)
(* The getters and setters are the application's and not part of the       *)
(* library: a getter returns the current value, a setter keeps at most     *)
(* Limit[p] of what it is given and returns what it kept, and either may   *)
(* report one of UserErrors instead and change nothing.  Their parameters  *)
(* and results are of the C type of the property.                          *)
(***************************************************************************)
EXTENDS CanExtV1

CONSTANTS
  Base,        \* values of a byte; the code has 256
  PropSize,    \* the property table: PropSize[p] is the width of property p
               \* in bytes, 0 for a type the library does not support
  Readable,    \* the properties that have a getter
  Writable,    \* the properties that have a setter
  Limit,       \* the largest value the setter of a property keeps
  UserErrors   \* what the callbacks may report through error_out

NumProps == Len(PropSize)
Property == 1..NumProps

ASSUME DeviceAssumption ==
  /\ Base \in Nat \ {0, 1}
  /\ PropSize \in Seq({0, 1, 2, 4})
  /\ NumProps <= MAX_PROPERTY_INDEX
  /\ Readable \subseteq Property
  /\ Writable \subseteq Property
  /\ Limit \in [Property -> Nat]
  /\ UserErrors \subseteq ErrorRange

-----------------------------------------------------------------------------
(* Values are sent in little-endian order.                                 *)

Weight == <<1, Base, Base * Base, Base * Base * Base>>

\* buffer_out->bytes[i] = (value >> 8 * i) & 0xff
Bytes(v, size) == [i \in 1..size |-> (v \div Weight[i]) % Base]

\* value_bytes[0] | (value_bytes[1] << 8) | ...
Value(data) ==
  LET digit(i) == IF i <= Len(data) THEN data[i] * Weight[i] ELSE 0
  IN  digit(1) + digit(2) + digit(3) + digit(4)

\* A value of the type of property p: a uint8_t, a uint16_t or a uint32_t.
OfType(p, v) == PropSize[p] # 0 => v < Weight[PropSize[p]] * Base

Lesser(a, b) == IF a <= b THEN a ELSE b

-----------------------------------------------------------------------------
(* Outcomes.                                                               *)

Outcome(vals, out, ok) == [vals |-> vals, out |-> out, ok |-> ok]

Ignored(vals) == {Outcome(vals, << >>, TRUE)}

Aborted(vals) == {Outcome(vals, << >>, FALSE)}

\* dp_user_send_message_ext(inst, id ^ DIR_MASK, ...)
Reply(vals, id, data) == {Outcome(vals, <<Message(FlipDir(id), data)>>, TRUE)}

SendError(vals, id, code) ==
  IF DeviceCanMake(NodeOf(id), ERROR, PropertyIndex(id))
  THEN LET resp == Message(
             MakeId(DEVICE_TO_CLIENT, NodeOf(id), ERROR, PropertyIndex(id)),
             <<OpcodeOf(id), -code>>)
       IN  {Outcome(vals, <<resp>>, TRUE)}
  ELSE Aborted(vals)

UserError(vals, id) == UNION {SendError(vals, id, code) : code \in UserErrors}

\* property_table[num_properties]: the test real_property_index >
\* num_properties lets the index one past the table through, and what lies
\* there is used as a dp_Property.  The outcomes a build can produce: no
\* callback or no such type, some value, or a jump that ends the device.
PastTheTable(vals, id) ==
  (UNION {SendError(vals, id, code) : code \in {VALUE_ERROR, NOT_IMPLEMENTED}})
  \cup (UNION {Reply(vals, id, Bytes(v, size)) : v \in 0..1, size \in {1, 2, 4}})
  \cup Aborted(vals)

-----------------------------------------------------------------------------
(* The requests.                                                           *)

\* The bytes of segment s, fewer or none at the end of the manifest.
Segment(manifest, s) ==
  SubSeq(manifest, s * SEGMENT_SIZE + 1,
         Lesser(Len(manifest), (s + 1) * SEGMENT_SIZE))

\* Variant: no return after the error.
ReadManifestNoReturn(manifest, vals, req) ==
  LET replies == Reply(vals, req.id, Segment(manifest, PropertyIndex(req.id)))
  IN  IF req.data # << >>
      THEN {Outcome(vals, e.out \o r.out, e.ok) :
              e \in SendError(vals, req.id, PROTOCOL_ERROR), r \in replies}
      ELSE replies

ReadManifest(manifest, vals, req) ==
  IF req.data # << >>
  THEN SendError(vals, req.id, PROTOCOL_ERROR)
  ELSE Reply(vals, req.id, Segment(manifest, PropertyIndex(req.id)))

GetPropertyValue(p, vals, req) ==
  IF p \notin Readable THEN SendError(vals, req.id, VALUE_ERROR)
  ELSE IF PropSize[p] = 0 THEN SendError(vals, req.id, NOT_IMPLEMENTED)
  ELSE Reply(vals, req.id, Bytes(vals[p], PropSize[p])) \cup UserError(vals, req.id)

\* Variant: a request that is wrong gets no error response.
ReadPropertySilent(vals, req) ==
  LET p == PropertyIndex(req.id)
  IN  IF p < 1 \/ p > NumProps + 1 \/ req.data # << >>
      THEN Ignored(vals)
      ELSE IF p = NumProps + 1 THEN PastTheTable(vals, req.id)
      ELSE GetPropertyValue(p, vals, req)

ReadProperty(vals, req) ==
  LET p == PropertyIndex(req.id)
  IN  IF p < 1 \/ p > NumProps + 1 \/ req.data # << >>
      THEN SendError(vals, req.id, PROTOCOL_ERROR)
      ELSE IF p = NumProps + 1 THEN PastTheTable(vals, req.id)
      ELSE GetPropertyValue(p, vals, req)

\* Variant: the response repeats the request, not what the setter kept.
SetPropertyValueEcho(p, vals, req) ==
  LET kept == Lesser(Value(req.data), Limit[p])
  IN  IF p \notin Writable THEN SendError(vals, req.id, VALUE_ERROR)
      ELSE IF PropSize[p] = 0 THEN SendError(vals, req.id, NOT_IMPLEMENTED)
      ELSE IF Len(req.data) # PropSize[p]
      THEN SendError(vals, req.id, PROTOCOL_ERROR)
      ELSE Reply([vals EXCEPT ![p] = kept], req.id, req.data)
           \cup UserError(vals, req.id)

SetPropertyValue(p, vals, req) ==
  LET kept == Lesser(Value(req.data), Limit[p])
  IN  IF p \notin Writable THEN SendError(vals, req.id, VALUE_ERROR)
      ELSE IF PropSize[p] = 0 THEN SendError(vals, req.id, NOT_IMPLEMENTED)
      ELSE IF Len(req.data) # PropSize[p]
      THEN SendError(vals, req.id, PROTOCOL_ERROR)
      ELSE Reply([vals EXCEPT ![p] = kept], req.id, Bytes(kept, PropSize[p]))
           \cup UserError(vals, req.id)

WriteProperty(vals, req) ==
  LET p == PropertyIndex(req.id)
  IN  IF p < 1 \/ p > NumProps + 1
      THEN SendError(vals, req.id, PROTOCOL_ERROR)
      ELSE IF p = NumProps + 1 THEN PastTheTable(vals, req.id)
      ELSE SetPropertyValue(p, vals, req)

\* dp_handle_message_ext of the device with the given node id.
Handle(node, manifest, vals, req) ==
  LET opcode == OpcodeOf(req.id)
  IN  IF ~ IsDevprop(req.id) \/ NodeOf(req.id) # node
         \/ DirOf(req.id) # CLIENT_TO_DEVICE THEN Ignored(vals)
      ELSE IF opcode = READ_MANIFEST THEN ReadManifest(manifest, vals, req)
      ELSE IF opcode = READ_PROPERTY THEN ReadProperty(vals, req)
      ELSE IF opcode = WRITE_PROPERTY THEN WriteProperty(vals, req)
      ELSE Ignored(vals)
=============================================================================
