------------------------------ MODULE Device -------------------------------
(***************************************************************************)
(* One device (lang_c/): a dp_Node and the application around it, which    *)
(* hands every frame it receives to dp_handle_message_ext.  Any frame may  *)
(* arrive: requests for this device and for others, responses, frames of   *)
(* other protocols, operations and indices that do not exist, payloads of  *)
(* any length.  Between frames the application may change its properties   *)
(* and the device may start again, with its initial values.                *)
(***************************************************************************)
EXTENDS DeviceLib

CONSTANTS
  Node,       \* the node id given to dp_node_init
  Manifest,   \* the manifest envelope, a sequence of bytes
  InitVals,   \* the values of the properties after a start
  Ids,        \* the identifiers that arrive
  Payloads    \* the payloads that arrive

\* dp_node_init asserts 0 <= node_id <= MAX_NODE_ID, which is 31.  An error
\* can be reported about every index, and a segment fits a frame.
ASSUME NodeAssumption ==
  /\ Node \in 0..31
  /\ MAX_PROPERTY_INDEX = 255
  /\ SEGMENT_SIZE <= 8
  /\ Manifest \in Seq(Nat)
  /\ InitVals \in [Property -> Nat]
  /\ \A p \in Property : OfType(p, InitVals[p])
  /\ Ids \subseteq Identifiers
  /\ Payloads \subseteq Seq(0..Base - 1)

VARIABLES
  vals,   \* vals[p]: the value of property p
  up,     \* the device runs
  last    \* the frame just handled and what was sent for it

vars == <<vals, up, last>>

NoFrame == Message(0, << >>)

Quiet == [req |-> NoFrame, out |-> << >>]

Init ==
  /\ vals = InitVals
  /\ up = TRUE
  /\ last = Quiet

Receive(id, data) ==
  /\ up
  /\ \E o \in Handle(Node, Manifest, vals, Message(id, data)) :
       /\ vals' = o.vals
       /\ up' = o.ok
       /\ last' = [req |-> Message(id, data), out |-> o.out]

\* The application has a new value for a property: a sensor, a counter.
Change(p) ==
  /\ up
  /\ \E v \in 0..Limit[p] : OfType(p, v) /\ vals' = [vals EXCEPT ![p] = v]
  /\ last' = Quiet
  /\ UNCHANGED up

Restart ==
  /\ vals' = InitVals
  /\ up' = TRUE
  /\ last' = Quiet

Next ==
  \/ \E id \in Ids, data \in Payloads : Receive(id, data)
  \/ \E p \in Property : Change(p)
  \/ Restart

Spec == Init /\ [][Next]_vars

-----------------------------------------------------------------------------
(* Type correctness: the value of a property fits the width of its type,   *)
(* and a call sends at most one frame, of at most eight bytes.             *)
TypeOK ==
  /\ vals \in [Property -> Nat]
  /\ \A p \in Property : OfType(p, vals[p])
  /\ up \in BOOLEAN
  /\ last.req \in [id : Nat, data : Seq(Nat)]
  /\ last.out \in Seq([id : Nat, data : Seq(Nat)])
  /\ Len(last.out) <= 1
  /\ \A i \in DOMAIN last.out : Len(last.out[i].data) <= 8

Requests == {READ_MANIFEST, READ_PROPERTY, WRITE_PROPERTY}

IsRequest(req) ==
  /\ IsDevprop(req.id)
  /\ NodeOf(req.id) = Node
  /\ DirOf(req.id) = CLIENT_TO_DEVICE
  /\ OpcodeOf(req.id) \in Requests

\* "If the property does not exist, a BAD_REQUEST should be returned by the
\* device" (doc/SPEC.md:217): such a read or write is never answered with a
\* value.
NonexistentRefused ==
  IsRequest(last.req) /\ OpcodeOf(last.req.id) # READ_MANIFEST
    /\ PropertyIndex(last.req.id) \notin Property =>
  \A i \in DOMAIN last.out : OpcodeOf(last.out[i].id) = ERROR

\* This, and "The targeted device shall respond with either a response type
\* matching the request, or an ERROR response" (doc/SPEC.md:171), as far as the
\* code keeps them: away from the index just past the table, and on a node that
\* can report errors (31 cannot: the assertion in dpp_make_id stops it), each
\* request gets its answer and a missing property is refused.
AnsweredInsideTheTable ==
  IsRequest(last.req) /\ PropertyIndex(last.req.id) # NumProps + 1 /\ Node < 31 =>
    /\ Len(last.out) = 1
    /\ OpcodeOf(last.req.id) # READ_MANIFEST
         /\ PropertyIndex(last.req.id) \notin Property =>
       OpcodeOf(last.out[1].id) = ERROR

\* The device gives a client what the library promises, DeviceContract.
Contract == INSTANCE DeviceContract
ImplementsContract == Contract!Spec
=============================================================================
