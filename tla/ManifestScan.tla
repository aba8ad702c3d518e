---------------------------- MODULE ManifestScan ----------------------------
(***************************************************************************)
(* The bus scan: Client.enumerate_nodes (devprop/client.py) asks every     *)
(* node id for the first segment of its manifest, collects what comes back *)
(* until the deadline, and then downloads the rest from one candidate      *)
(* after another with ManifestDownload (state_machines.py), run by         *)
(* execute_state_machine (adapter.py).  The devices are lang_c's.          *)
(*                                                                         *)
(* A manifest envelope is a header, which tells a hash and the length of   *)
(* what follows, and the compressed manifest.  Here a byte is the image it *)
(* belongs to and its position: the header's first byte tells the length   *)
(* its image claims, and the hash holds if all bytes are of one image, in  *)
(* their order and none missing.                                           *)
(***************************************************************************)
EXTENDS DeviceLib, FiniteSets

CONSTANTS
  HEADER_LENGTH,  \* bytes of the envelope header; the code has 7
  MAX_NODE_ID,    \* node ids are 0 .. MAX_NODE_ID - 1; the code has 32
  Node,           \* the node ids of the devices on the bus
  FirstImage,     \* FirstImage[n]: the image device n has at first
  Updates,        \* images a device may be updated to
  Faults,         \* which of "lose", "update", "foreign", "other" and "late"
                  \* happen; "late": a deadline passes while a frame is
                  \* still to come
  MaxFaults,      \* bound: faults in a behavior
  MaxScans,       \* bound: scans in a behavior
  ForeignIds      \* identifiers of frames that are not devprop's

\* An image claims a payload length in its header, has a size in bytes, and
\* may be sound: the format known, the hash right, the manifest well formed.
Image == [name : STRING, claims : Nat, size : Nat, sound : BOOLEAN]

ASSUME ScanAssumption ==
  /\ HEADER_LENGTH \in 1..SEGMENT_SIZE
  /\ MAX_NODE_ID \in 1..32
  /\ Node \subseteq 0..(MAX_NODE_ID - 1)
  /\ FirstImage \in [Node -> Image]
  /\ Updates \subseteq Image
  /\ ForeignIds \subseteq {id \in Nat : ~ IsDevprop(id) \/ OpcodeOf(id) \notin Opcode}
  /\ MaxScans \in Nat /\ MaxFaults \in Nat

VARIABLES
  image,       \* image[n]: the image device n runs
  devq,        \* devq[n]: the requests on their way to device n
  rxq,         \* the receive queue of the scanning client
  pc,          \* where enumerate_nodes is, see below
  pinged,      \* node ids asked for their first segment
  candidates,  \* the nodes that answered, in the order of the dict
  initial,     \* initial[n]: the data of the last first segment of n
  envelope,    \* _manifest_envelope of the ManifestDownload
  expected,    \* _expected_length, and -1 for None
  sentAt,      \* _request_sent_at, and -1 for None
  found,       \* found[n]: the envelope of node n that was parsed
  nScans,      \* scans made
  nFaults,     \* faults so far
  seen,        \* and their kinds
  had          \* had[n]: the images device n has had

\* pc: "idle", "ping" (sending the first requests), "collect", "next"
\* (between downloads), "run" (top of the loop of execute_state_machine),
\* "recv" (waiting for a frame), "done", or "raised": an exception left the
\* scan and its caller has no result at all.

download == <<envelope, expected, sentAt>>
client == <<pc, pinged, candidates, initial, envelope, expected, sentAt, found, nScans>>
faultVars == <<nFaults, seen>>
vars == <<image, devq, rxq, pc, pinged, candidates, initial, envelope, expected,
          sentAt, found, nScans, nFaults, seen, had>>

Envelope(im) == [i \in 1..im.size |-> <<im, i>>]

\* check_envelope_header: the length of the whole envelope.
LengthIn(data) == HEADER_LENGTH + data[1][1].claims

\* Variant: the hash is not compared.
ParsesUnhashed(data) ==
  Len(data) = HEADER_LENGTH + data[1][1].claims /\ data[1][1].sound

\* parse_enveloped_manifest returns and does not raise.
Parses(data) ==
  LET im == data[1][1]
  IN  /\ data = Envelope(im)
      /\ Len(data) = HEADER_LENGTH + im.claims
      /\ im.sound

Found == DOMAIN found

Init ==
  /\ image = FirstImage
  /\ devq = [n \in Node |-> << >>]
  /\ rxq = << >>
  /\ pc = "idle"
  /\ pinged = 0
  /\ candidates = << >>
  /\ initial = [n \in Node |-> << >>]
  /\ envelope = << >>
  /\ expected = -1
  /\ sentAt = -1
  /\ found = << >>
  /\ nScans = 0
  /\ nFaults = 0
  /\ seen = {}
  /\ had = [n \in Node |-> {FirstImage[n]}]

-----------------------------------------------------------------------------
(* The scan, first half: who is there?                                     *)

Begin ==
  /\ pc \in {"idle", "done", "raised"}
  /\ nScans < MaxScans
  /\ nScans' = nScans + 1
  /\ pc' = "ping"
  /\ pinged' = 0
  /\ candidates' = << >>
  /\ initial' = [n \in Node |-> << >>]
  /\ found' = << >>
  /\ UNCHANGED <<image, devq, rxq, download, faultVars, had>>

\* A request for a node id nobody has is on the bus for nothing.
Sent(n, segment) ==
  devq' = [d \in Node |-> IF d = n THEN Append(devq[d], ReadManifestRequest(n, segment))
                          ELSE devq[d]]

\* Variant: one node id too many.
PingOneMore ==
  /\ pc = "ping"
  /\ Sent(pinged, 0)
  /\ pinged' = pinged + 1
  /\ pc' = IF pinged = MAX_NODE_ID THEN "collect" ELSE "ping"
  /\ UNCHANGED <<image, rxq, candidates, initial, download, found, nScans, faultVars, had>>

Ping ==
  /\ pc = "ping"
  /\ Sent(pinged, 0)
  /\ pinged' = pinged + 1
  /\ pc' = IF pinged' = MAX_NODE_ID THEN "collect" ELSE "ping"
  /\ UNCHANGED <<image, rxq, candidates, initial, download, found, nScans, faultVars, had>>

Unpacks(msg) == IsDevprop(msg.id) /\ OpcodeOf(msg.id) \in Opcode

IsSegment(msg) ==
  OpcodeOf(msg.id) = READ_MANIFEST /\ DirOf(msg.id) = DEVICE_TO_CLIENT

\* A candidate answers for the first time, or again.  An exception other
\* than ProtocolError and TimeoutError leaves the scan.
Collect ==
  LET msg == Head(rxq)
      n == NodeOf(msg.id)
  IN  /\ pc = "collect"
      /\ rxq # << >>
      /\ rxq' = Tail(rxq)
      /\ \/ /\ ~ Unpacks(msg)
            /\ pc' = "raised"
            /\ UNCHANGED <<candidates, initial>>
         \/ /\ Unpacks(msg) /\ IsSegment(msg) /\ PropertyIndex(msg.id) = 0
            /\ candidates' = IF \E i \in DOMAIN candidates : candidates[i] = n
                             THEN candidates ELSE Append(candidates, n)
            /\ initial' = [initial EXCEPT ![n] = msg.data]
            /\ UNCHANGED pc
         \/ /\ Unpacks(msg) /\ ~ (IsSegment(msg) /\ PropertyIndex(msg.id) = 0)
            /\ UNCHANGED <<pc, candidates, initial>>
      /\ UNCHANGED <<image, devq, pinged, download, found, nScans, faultVars, had>>

Quiet == rxq = << >> /\ \A n \in Node : devq[n] = << >>

Fault(kind) ==
  /\ kind \in Faults
  /\ nFaults < MaxFaults
  /\ nFaults' = nFaults + 1
  /\ seen' = seen \cup {kind}

CollectTimeout ==
  /\ pc = "collect"
  /\ \/ Quiet /\ UNCHANGED faultVars
     \/ ~ Quiet /\ Fault("late")
  /\ pc' = "next"
  /\ UNCHANGED <<image, devq, rxq, pinged, candidates, initial, download, found,
                 nScans, had>>

-----------------------------------------------------------------------------
(* Second half: the manifests, one candidate after the other.  The one at  *)
(* the head of candidates is being downloaded.                             *)

Current == Head(candidates)
NextSegment == Len(envelope) \div SEGMENT_SIZE

\* A new ManifestDownload takes the segment collected.  It is outside the
\* try: a first segment that is not full ends the scan.
NextCandidate ==
  /\ pc = "next"
  /\ candidates # << >>
  /\ sentAt' = -1
  /\ IF Len(initial[Current]) = SEGMENT_SIZE
     THEN /\ pc' = "run"
          /\ envelope' = initial[Current]
          /\ expected' = LengthIn(initial[Current])
     ELSE /\ pc' = "raised"
          /\ envelope' = << >>
          /\ expected' = -1
  /\ UNCHANGED <<image, devq, rxq, pinged, candidates, initial, found, nScans, faultVars, had>>

Finish ==
  /\ pc = "next"
  /\ candidates = << >>
  /\ pc' = "done"
  /\ UNCHANGED <<image, devq, rxq, pinged, candidates, initial, download, found,
                 nScans, faultVars, had>>

\* The candidate is dropped, with or without a result.
GoOn ==
  /\ pc' = "next"
  /\ candidates' = Tail(candidates)
  /\ UNCHANGED <<pinged, initial, nScans>>

\* is_finished: the envelope is parsed, and kept unless that raises.
Parse ==
  /\ pc = "run"
  /\ Len(envelope) = expected
  /\ GoOn
  /\ found' = IF Parses(envelope)
              THEN [n \in Found \cup {Current} |->
                      IF n = Current THEN envelope ELSE found[n]]
              ELSE found
  /\ UNCHANGED <<image, devq, rxq, download, faultVars, had>>

\* get_frame_to_send: one request for each length the envelope reaches.
Send ==
  /\ pc = "run"
  /\ Len(envelope) # expected
  /\ IF sentAt = Len(envelope)
     THEN pc' = "recv" /\ UNCHANGED <<devq, candidates, sentAt>>
     ELSE /\ sentAt' = Len(envelope)
          /\ IF ClientCanMake(Current, READ_MANIFEST, NextSegment)
             THEN /\ Sent(Current, NextSegment)
                  /\ pc' = "recv"
                  /\ UNCHANGED candidates
             ELSE \* the assertions of make_frame_id: the node is skipped
                  /\ pc' = "next"
                  /\ candidates' = Tail(candidates)
                  /\ UNCHANGED devq
  /\ UNCHANGED <<image, rxq, pinged, initial, envelope, expected, found, nScans,
                 faultVars, had>>

\* Variant: any segment of the node will do.
IsAnySegment(msg) == IsSegment(msg) /\ NodeOf(msg.id) = Current

IsNextSegment(msg) ==
  /\ IsSegment(msg)
  /\ NodeOf(msg.id) = Current
  /\ PropertyIndex(msg.id) = NextSegment

\* Variant: the last segment has to be full, too.
FitsFull(data) ==
  Len(envelope) + Len(data) <= expected /\ Len(data) = SEGMENT_SIZE

\* What may follow the envelope so far: a full segment, or what is missing.
Fits(data) ==
  LET length == Len(envelope) + Len(data)
  IN  /\ data # << >>
      /\ length <= expected
      /\ length < expected => Len(data) = SEGMENT_SIZE

Receive ==
  LET msg == Head(rxq)
  IN  /\ pc = "recv"
      /\ rxq # << >>
      /\ rxq' = Tail(rxq)
      /\ \/ /\ Unpacks(msg) /\ IsNextSegment(msg) /\ Fits(msg.data)
            /\ envelope' = envelope \o msg.data
            /\ pc' = "run"
            /\ UNCHANGED <<pinged, candidates, initial, nScans>>
         \/ /\ Unpacks(msg) => IsNextSegment(msg) /\ ~ Fits(msg.data)
            /\ GoOn
            /\ UNCHANGED envelope
         \/ /\ Unpacks(msg) /\ ~ IsNextSegment(msg)
            /\ pc' = "run"
            /\ UNCHANGED <<envelope, pinged, candidates, initial, nScans>>
      /\ UNCHANGED <<image, devq, expected, sentAt, found, faultVars, had>>

\* Variants: receive() waits without a limit; the exception is not caught.
TimeoutAtTheTop ==
  /\ pc = "run" /\ Len(envelope) # expected /\ Fault("late")
  /\ GoOn
  /\ UNCHANGED <<image, devq, rxq, download, found, had>>

TimeoutLeaves ==
  /\ \/ pc = "recv" /\ Quiet /\ UNCHANGED faultVars
     \/ pc = "recv" /\ ~ Quiet /\ Fault("late")
     \/ pc = "run" /\ Len(envelope) # expected /\ Fault("late")
  /\ pc' = "raised"
  /\ UNCHANGED <<image, devq, rxq, pinged, candidates, initial, download, found,
                 nScans, had>>

\* TimeoutError, from receive() or at the top of the loop.
Timeout ==
  /\ \/ pc = "recv" /\ Quiet /\ UNCHANGED faultVars
     \/ pc = "recv" /\ ~ Quiet /\ Fault("late")
     \/ pc = "run" /\ Len(envelope) # expected /\ Fault("late")
  /\ GoOn
  /\ UNCHANGED <<image, devq, rxq, download, found, had>>

-----------------------------------------------------------------------------
(* The devices and the bus.                                                *)

Respond(n) ==
  /\ devq[n] # << >>
  /\ devq' = [devq EXCEPT ![n] = Tail(@)]
  /\ \E o \in Handle(n, Envelope(image[n]), << >>, Head(devq[n])) : rxq' = rxq \o o.out
  /\ UNCHANGED <<client, image, faultVars, had>>

LoseRequest(n) ==
  /\ Fault("lose")
  /\ devq[n] # << >>
  /\ devq' = [devq EXCEPT ![n] = Tail(@)]
  /\ UNCHANGED <<client, image, rxq, had>>

LoseFrame ==
  /\ Fault("lose")
  /\ rxq # << >>
  /\ rxq' = Tail(rxq)
  /\ UNCHANGED <<client, image, devq, had>>

\* The device starts again with other firmware.
Update(n) ==
  /\ Fault("update")
  /\ \E im \in Updates :
       image' = [image EXCEPT ![n] = im] /\ had' = [had EXCEPT ![n] = @ \cup {im}]
  /\ devq' = [devq EXCEPT ![n] = << >>]
  /\ UNCHANGED <<client, rxq>>

Foreign(id) ==
  /\ Fault("foreign")
  /\ rxq' = Append(rxq, Message(id, << >>))
  /\ UNCHANGED <<client, image, devq, had>>

\* Another client reads a segment: the scan sees its request and, later,
\* the response.
Other(n, segment) ==
  /\ Fault("other")
  /\ Sent(n, segment)
  /\ rxq' = Append(rxq, ReadManifestRequest(n, segment))
  /\ UNCHANGED <<client, image, had>>

-----------------------------------------------------------------------------
Scan ==
  \/ Ping \/ Collect \/ CollectTimeout \/ NextCandidate \/ Finish
  \/ Parse \/ Send \/ Receive \/ Timeout

Next ==
  \/ Begin
  \/ Scan
  \/ \E n \in Node : Respond(n) \/ LoseRequest(n) \/ Update(n)
  \/ LoseFrame
  \/ \E id \in ForeignIds : Foreign(id)
  \/ \E n \in Node, segment \in 0..MAX_PROPERTY_INDEX : Other(n, segment)

Spec == Init /\ [][Next]_vars

\* The scanning thread runs, its clock advances, and devices poll.
FairSpec == Spec /\ WF_vars(Scan) /\ \A n \in Node : WF_vars(Respond(n))

-----------------------------------------------------------------------------
(* Properties.                                                             *)

Byte == Image \X (Nat \ {0})
Msg == [id : Nat, data : Seq(Byte)]

TypeOK ==
  /\ image \in [Node -> Image]
  /\ devq \in [Node -> Seq(Msg)]
  /\ rxq \in Seq(Msg)
  /\ pc \in {"idle", "ping", "collect", "next", "run", "recv", "done", "raised"}
  /\ pinged \in 0..MAX_NODE_ID
  /\ candidates \in Seq(Node)
  /\ initial \in [Node -> Seq(Byte)]
  /\ envelope \in Seq(Byte)
  /\ expected \in Nat \cup {-1}
  /\ sentAt \in Nat \cup {-1}
  /\ Found \subseteq Node
  /\ \A n \in Found : found[n] \in Seq(Byte)
  /\ nScans \in 0..MaxScans
  /\ nFaults \in 0..MaxFaults
  /\ seen \subseteq Faults
  /\ had \in [Node -> SUBSET Image]
  /\ pc \in {"run", "recv"} => candidates # << >> /\ envelope # << >>

\* A manifest the scan reports is one its device has had, whole: never the
\* beginning of one and the end of another.
FoundIsGenuine ==
  \A n \in Found : \E im \in had[n] : im.sound /\ found[n] = Envelope(im)

\* Whatever is lost, late or asked by others, and as long as the devices
\* keep their firmware: what is downloaded so far is the beginning of the
\* manifest of the device, no segment is skipped, repeated or another's.
DownloadIsPrefix ==
  pc \in {"run", "recv"} /\ had[Current] = {image[Current]} =>
    LET whole == Envelope(image[Current])
    IN  Len(envelope) <= Len(whole) /\ envelope = SubSeq(whole, 1, Len(envelope))

\* The manifests the protocol has the segments for.  The header takes its
\* bytes from them, too, which "<= 2048 bytes of compressed manifest"
\* (doc/SPEC.md:141) does not say.
Downloadable(im) ==
  /\ im.sound
  /\ im.size = HEADER_LENGTH + im.claims
  /\ im.size >= SEGMENT_SIZE
  /\ im.size <= (MAX_PROPERTY_INDEX + 1) * SEGMENT_SIZE

\* When nothing is lost, late or foreign, whoever else reads manifests, a
\* scan that returns has found exactly the devices that have such a one.
ScanIsComplete ==
  pc = "done" /\ seen \subseteq {"other"} => Found = {n \in Node : Downloadable(image[n])}

\* An exception leaves the scan only because of a foreign frame or a device
\* whose first segment is not full; a device that answers is enough.
RaisedForAReason ==
  pc = "raised" =>
    "foreign" \in seen \/ \E n \in Node : \E im \in had[n] : im.size < SEGMENT_SIZE

\* A scan ends.
ScanReturns == pc = "ping" ~> pc \in {"done", "raised"}
=============================================================================
