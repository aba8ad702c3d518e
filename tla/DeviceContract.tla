-------------------------- MODULE DeviceContract ---------------------------
(***************************************************************************)
(* What a devprop device promises its clients, whatever the library does   *)
(* inside: it keeps one value per property, ignores what is not a request  *)
(* for it, and answers a request with one frame that says the truth about  *)
(* the property the request names.  It refuses a request only for a reason *)
(* the request or the application's callback gives.  It is let off only    *)
(* where the library fails: when a property is read or written at the      *)
(* index just past its table and, on node 31, when it has an error to      *)
(* report.                                                                 *)
(***************************************************************************)
EXTENDS DeviceLib

CONSTANTS Node, Manifest, InitVals

VARIABLES
  vals,   \* vals[p]: the value of property p
  up,     \* the device runs
  last    \* the frame it has just taken from the bus and what it sent for it

vars == <<vals, up, last>>

NoFrame == Message(0, << >>)

Quiet == [req |-> NoFrame, out |-> << >>]

Values == {v \in [Property -> Nat] : \A p \in Property : OfType(p, v[p])}

IsRequest(req) ==
  /\ IsDevprop(req.id)
  /\ NodeOf(req.id) = Node
  /\ DirOf(req.id) = CLIENT_TO_DEVICE

Requests == {READ_MANIFEST, READ_PROPERTY, WRITE_PROPERTY}

\* A read or a write of a property the device has and lets clients read or
\* write, in the form the operation asks for.
GoodRead(req) ==
  LET p == PropertyIndex(req.id)
  IN  OpcodeOf(req.id) = READ_PROPERTY /\ p \in Readable /\ PropSize[p] # 0
      /\ req.data = << >>

GoodWrite(req) ==
  LET p == PropertyIndex(req.id)
  IN  OpcodeOf(req.id) = WRITE_PROPERTY /\ p \in Writable /\ PropSize[p] # 0
      /\ Len(req.data) = PropSize[p]

\* The requests the device may refuse: the segments of the manifest are read
\* without a payload, and on a good read or write only a callback may fail.
Refusable(req) ==
  /\ IsRequest(req)
  /\ \/ OpcodeOf(req.id) = READ_MANIFEST /\ req.data # << >>
     \/ /\ OpcodeOf(req.id) \in {READ_PROPERTY, WRITE_PROPERTY}
        /\ UserErrors # {} \/ ~ (GoodRead(req) \/ GoodWrite(req))

\* A read or write that gets as far as the entry behind the table.
PastTable(req) ==
  /\ IsRequest(req)
  /\ PropertyIndex(req.id) = NumProps + 1
  /\ \/ OpcodeOf(req.id) = READ_PROPERTY /\ req.data = << >>
     \/ OpcodeOf(req.id) = WRITE_PROPERTY

MayStop(req) == PastTable(req) \/ (Node = 31 /\ Refusable(req))

\* The identifier of the response to a request, for an operation code.
ResponseId(req, opcode) ==
  MakeId(DEVICE_TO_CLIENT, Node, opcode, PropertyIndex(req.id))

Init ==
  /\ vals = InitVals
  /\ up = TRUE
  /\ last = Quiet

\* A frame that is no request for this device, or names no operation.
Ignore(req) ==
  /\ IsRequest(req) => OpcodeOf(req.id) \notin Requests
  /\ last' = [req |-> req, out |-> << >>]
  /\ UNCHANGED <<vals, up>>

\* A refused request changes nothing, and the error names it.
Refuse(req) ==
  /\ Refusable(req)
  /\ \E code \in 1..255 :
       last' = [req |-> req,
                out |-> <<Message(ResponseId(req, ERROR), <<OpcodeOf(req.id), code>>)>>]
  /\ UNCHANGED <<vals, up>>

\* A segment of the manifest.
ServeManifest(req) ==
  /\ IsRequest(req)
  /\ OpcodeOf(req.id) = READ_MANIFEST
  /\ req.data = << >>
  /\ last' = [req |-> req,
              out |-> <<Message(ResponseId(req, READ_MANIFEST),
                                Segment(Manifest, PropertyIndex(req.id)))>>]
  /\ UNCHANGED <<vals, up>>

\* A read tells the value the property has.
ServeRead(req) ==
  LET p == PropertyIndex(req.id)
  IN  /\ IsRequest(req)
      /\ GoodRead(req)
      /\ last' = [req |-> req,
                  out |-> <<Message(ResponseId(req, READ_PROPERTY),
                                    Bytes(vals[p], PropSize[p]))>>]
      /\ UNCHANGED <<vals, up>>

\* An acknowledged write has changed that property alone, and the
\* acknowledgement tells the value it has now.
ServeWrite(req) ==
  LET p == PropertyIndex(req.id)
  IN  /\ IsRequest(req)
      /\ GoodWrite(req)
      /\ \E v \in 0..Limit[p] :
           /\ OfType(p, v)
           /\ vals' = [vals EXCEPT ![p] = v]
           /\ last' = [req |-> req,
                       out |-> <<Message(ResponseId(req, WRITE_PROPERTY),
                                         Bytes(v, PropSize[p]))>>]
      /\ UNCHANGED up

\* A read or write past the table may be answered with anything of the length
\* of a value; there, or where node 31 has an error to report, the device may
\* stop.
Undefined(req) ==
  /\ MayStop(req)
  /\ UNCHANGED vals
  /\ \/ up' = FALSE /\ last' = [req |-> req, out |-> << >>]
     \/ /\ PastTable(req)
        /\ up' = up
        /\ last'.req = req
        /\ Len(last'.out) = 1
        /\ last'.out[1].id = ResponseId(req, OpcodeOf(req.id))
        /\ Len(last'.out[1].data) \in {1, 2, 4}

\* The application changes a value, or the device starts again.
Change == vals' \in Values /\ last' = Quiet /\ UNCHANGED up

Start == vals' = InitVals /\ up' = TRUE /\ last' = Quiet

Step(req) ==
  \/ Ignore(req) \/ Refuse(req) \/ ServeManifest(req) \/ ServeRead(req)
  \/ ServeWrite(req) \/ Undefined(req)

Next ==
  \/ up /\ Step(last'.req)   \* "last" names the frame the step is about
  \/ Change
  \/ Start

Spec == Init /\ [][Next]_vars
=============================================================================
