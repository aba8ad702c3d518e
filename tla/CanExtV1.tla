------------------------------ MODULE CanExtV1 ------------------------------
(***************************************************************************)
(* The CAN 2.0B message format of devprop (devprop_can_ext_v1): the 29-bit *)
(* identifier and its fields, operation codes, directions, error codes and *)
(* the requests a client can make.  Both implementations of the format are *)
(* here: devprop/protocol_can_ext_v1 (Python) and lang_c/ (C).             *)
(*                                                                         *)
(*    bit 28 ... 17 | 16  | 15 ... 11 | 10 ... 8 | 7 ... 0                 *)
(*    fixed 0xF78   | dir | node id   | opcode   | property index          *)
(*                                                                         *)
(* The code masks and shifts; here a field is a quotient and a remainder,  *)
(* and the bitwise "or" of disjoint fields is their sum.  FieldsAreBits in *)
(* MCDevice compares both with the bit-by-bit definitions.                 *)
(***************************************************************************)
EXTENDS Integers, Sequences

CONSTANTS
  SEGMENT_SIZE,        \* bytes of a manifest segment; the code has 8
  MAX_PROPERTY_INDEX   \* the largest property index; the code has 255

ASSUME FormatAssumption ==
  /\ SEGMENT_SIZE \in Nat \ {0}
  /\ MAX_PROPERTY_INDEX \in 1..255

READ_MANIFEST  == 0
READ_PROPERTY  == 1
WRITE_PROPERTY == 2
ERROR          == 7

\* The values of class Opcode; Opcode(n) raises ValueError for any other n.
Opcode == {READ_MANIFEST, READ_PROPERTY, WRITE_PROPERTY, ERROR}

DEVICE_TO_CLIENT == 0
CLIENT_TO_DEVICE == 1

\* dp_ErrorCode: negative inside the device, positive in an ERROR payload.
GENERIC_ERROR   == -1
PROTOCOL_ERROR  == -2
NOT_IMPLEMENTED == -3
INTERNAL_ERROR  == -4
VALUE_ERROR     == -5

ErrorRange == -255..-1        \* MAX_ERROR_CODE = 255

ID_FIXED_PART == 3960 * 131072                  \* 0x1EF00000

-----------------------------------------------------------------------------
(* Identifiers have 29 bits; their fields, each with its range.            *)

Identifiers == {id \in Nat : id < 536870912}

Dirs    == 0..1
NodeIds == 0..31
Codes   == 0..7
Indices == 0..255

IsDevprop(id)     == (id \div 131072) % 4096 = 3960  \* (id & MASK) = PART
DirOf(id)         == (id \div 65536) % 2
NodeOf(id)        == (id \div 2048) % 32
OpcodeOf(id)      == (id \div 256) % 8
PropertyIndex(id) == id % 256

\* id ^ DIR_MASK: the identifier of the response to a request.
FlipDir(id) == IF DirOf(id) = 1 THEN id - 65536 ELSE id + 65536

\* make_frame_id and dpp_make_id once their assertions hold.
MakeId(dir, node, opcode, index) ==
  ID_FIXED_PART + dir * 65536 + node * 2048 + opcode * 256 + index

\* The property index a constructor accepts for an operation: index 0 is
\* reserved for READ_PROPERTY and WRITE_PROPERTY, a segment number otherwise.
IndexAllowed(opcode, index) ==
  /\ index <= MAX_PROPERTY_INDEX
  /\ index >= (IF opcode \in {READ_PROPERTY, WRITE_PROPERTY} THEN 1 ELSE 0)

\* The assertions of make_frame_id (Python): nodes 0..31.
ClientCanMake(node, opcode, index) ==
  IndexAllowed(opcode, index) /\ node \in NodeIds

\* The assertions of dpp_make_id (C), whose bound is node_id < MAX_NODE_ID
\* with MAX_NODE_ID = 31.
DeviceIds == 0..30

DeviceCanMake(node, opcode, index) ==
  IndexAllowed(opcode, index) /\ node \in DeviceIds

-----------------------------------------------------------------------------
(* Messages: an identifier and a payload of bytes.                         *)

Message(id, data) == [id |-> id, data |-> data]

ReadManifestRequest(node, segment) ==
  Message(MakeId(CLIENT_TO_DEVICE, node, READ_MANIFEST, segment), << >>)

ReadPropertyRequest(node, p) ==
  Message(MakeId(CLIENT_TO_DEVICE, node, READ_PROPERTY, p), << >>)

WritePropertyRequest(node, p, data) ==
  Message(MakeId(CLIENT_TO_DEVICE, node, WRITE_PROPERTY, p), data)

=============================================================================
