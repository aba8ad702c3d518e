----------------------------- MODULE MCDevice ------------------------------
(***************************************************************************)
(* A device with four properties, for TLC: a read-write uint8, a read-only *)
(* uint16, a write-only uint32 and a property of a type the library does   *)
(* not support.  A byte has two values, a segment two bytes.  Each of the  *)
(* operations, and one that does not exist, arrives for this node with     *)
(* every index up to two past the table and payloads of no to four bytes;  *)
(* so do responses, requests for other nodes and foreign frames, which     *)
(* differ from the device's own in any field or in the fixed part.         *)
(***************************************************************************)
EXTENDS Device, Bitwise

MCPropSize == <<1, 2, 4, 0>>
MCReadable == {1, 2, 4}
MCWritable == {1, 3, 4}
MCLimit    == <<3, 1, 1, 0>>
MCErrors   == {GENERIC_ERROR, NOT_IMPLEMENTED}
MCManifest == <<1, 0, 1, 1, 0>>
MCInitVals == <<1, 1, 0, 0>>

MCIds ==
  {MakeId(CLIENT_TO_DEVICE, Node, opcode, index) :
     opcode \in {0, 1, 2, 4}, index \in 0..NumProps + 2}
  \cup {MakeId(dir, node, opcode, 1) :
          dir \in 0..1, node \in {Node, 7}, opcode \in Requests}
  \cup {MakeId(dir, node, 7, 255) : dir \in 0..1, node \in {0, 15, 16, 21, 31}}
  \cup {MakeId(1, Node, 1, 1) + bits : bits \in {131072, 1048576}}
  \cup {MakeId(1, Node, 1, 1) - bits : bits \in {1048576, 268435456}}
  \cup {Node * 2048 + 65536}

MCPayloads == {<< >>, <<1>>, <<0, 1>>, <<1, 0, 1>>, <<0, 1, 0, 0>>}
(* The fields of any identifier that arrives are what the masks and shifts *)
(* of unpack_id (messages.py) and dp_handle_message_ext (lang_c/) leave of *)
(* it.                                                                     *)
ASSUME FieldsAreBits ==
  \A id \in MCIds :
    /\ IsDevprop(id) <=> (id & 536739840) = 519045120
    /\ DirOf(id) = shiftR(id, 16) & 1
    /\ NodeOf(id) = shiftR(id, 11) & 31
    /\ OpcodeOf(id) = shiftR(id, 8) & 7
    /\ PropertyIndex(id) = id & 255
=============================================================================
