------------------------- MODULE ManifestScan_proofs -------------------------
(***************************************************************************)
(* Theorems about the scan of the bus: what enumerate_nodes reports is     *)
(* genuine, what it downloads is never mixed up, it raises only for a      *)
(* reason, and left alone it finds every device there is to find.          *)
(*                                                                         *)
(* IInv says, for every fault there is, which frames can be in the queues  *)
(* and how far a download has got; the first four theorems follow from it. *)
(* CompleteInv adds, for a bus on which nothing is lost, late or foreign,  *)
(* that the frame the client waits for is on its way, and that no device   *)
(* has been dropped.                                                       *)
(***************************************************************************)
EXTENDS ManifestScan, SequenceTheorems, TLAPS

-----------------------------------------------------------------------------
(* Identifiers: facts about their layout, for every field value.           *)

(* A number put together from a high and a low part gives both back: what  *)
(* the shifts and masks of unpack_id and dp_handle_message_ext rely on.    *)
LEMMA DivMod ==
  ASSUME NEW q \in Nat, NEW w \in Nat \ {0}, NEW r \in Nat, r < w
  PROVE  (q * w + r) \div w = q /\ (q * w + r) % w = r
BY SMT

(* The fields of an identifier put together from fields are those fields:  *)
(* unpack_id after make_frame_id, dp_handle_message_ext after dpp_make_id. *)
LEMMA UnpackMake ==
  ASSUME NEW dir \in Dirs, NEW node \in NodeIds, NEW opcode \in Codes,
         NEW index \in Indices
  PROVE  LET id == MakeId(dir, node, opcode, index)
         IN  /\ id \in Nat /\ IsDevprop(id) /\ DirOf(id) = dir
             /\ NodeOf(id) = node /\ OpcodeOf(id) = opcode
             /\ PropertyIndex(id) = index
<1> DEFINE id == MakeId(dir, node, opcode, index)
<1>1. /\ dir \in Int /\ 0 <= dir /\ dir <= 1 /\ node \in Int /\ 0 <= node /\ node <= 31
      /\ opcode \in Int /\ 0 <= opcode /\ opcode <= 7
      /\ index \in Int /\ 0 <= index /\ index <= 255
  BY SMT DEF Dirs, NodeIds, Codes, Indices
<1>2. id = 3960 * 131072 + dir * 65536 + node * 2048 + opcode * 256 + index
  BY <1>1, SMT DEF MakeId, ID_FIXED_PART
<1> HIDE DEF id
<1>3. id \in Nat /\ IsDevprop(id)
  BY <1>1, <1>2, SMT DEF IsDevprop
<1>4. DirOf(id) = dir /\ NodeOf(id) = node
  BY <1>1, <1>2, SMT DEF DirOf, NodeOf
<1>5. OpcodeOf(id) = opcode /\ PropertyIndex(id) = index
  BY <1>1, <1>2, SMT DEF OpcodeOf, PropertyIndex
<1> QED
  BY <1>3, <1>4, <1>5 DEF id

(* The id ^ DIR_MASK of a request is the identifier of its response: the   *)
(* same node, operation and index, the other direction.                    *)
LEMMA FlipMake ==
  ASSUME NEW node \in NodeIds, NEW opcode \in Codes, NEW index \in Indices
  PROVE  FlipDir(MakeId(CLIENT_TO_DEVICE, node, opcode, index))
           = MakeId(DEVICE_TO_CLIENT, node, opcode, index)
<1>1. CLIENT_TO_DEVICE \in Dirs
  BY SMT DEF Dirs, CLIENT_TO_DEVICE
<1>2. DirOf(MakeId(CLIENT_TO_DEVICE, node, opcode, index)) = CLIENT_TO_DEVICE
  BY <1>1, UnpackMake
<1> QED
  BY <1>2, SMT DEF FlipDir, MakeId, ID_FIXED_PART, NodeIds, Codes, Indices,
                   CLIENT_TO_DEVICE, DEVICE_TO_CLIENT

(* The constants of the format are fields it can carry.                    *)
LEMMA FieldRanges ==
  /\ CLIENT_TO_DEVICE \in Dirs /\ DEVICE_TO_CLIENT \in Dirs
  /\ CLIENT_TO_DEVICE # DEVICE_TO_CLIENT
  /\ READ_PROPERTY \in Codes /\ WRITE_PROPERTY \in Codes
  /\ READ_MANIFEST \in Codes /\ ERROR \in Codes
  /\ READ_MANIFEST \notin {READ_PROPERTY, WRITE_PROPERTY, ERROR}
  /\ READ_PROPERTY \notin {WRITE_PROPERTY, ERROR} /\ WRITE_PROPERTY # ERROR
BY SMT DEF CLIENT_TO_DEVICE, DEVICE_TO_CLIENT, READ_PROPERTY, WRITE_PROPERTY,
           READ_MANIFEST, ERROR, Dirs, Codes

(* The fields of the identifier of a request, and of its responses.        *)
LEMMA UnpackRequest ==
  ASSUME NEW node \in NodeIds, NEW opcode \in Codes, NEW index \in Indices,
         NEW dir \in {CLIENT_TO_DEVICE, DEVICE_TO_CLIENT}
  PROVE  LET id == MakeId(dir, node, opcode, index)
         IN  /\ id \in Nat /\ IsDevprop(id) /\ DirOf(id) = dir
             /\ NodeOf(id) = node /\ OpcodeOf(id) = opcode
             /\ PropertyIndex(id) = index
BY UnpackMake, FieldRanges

-----------------------------------------------------------------------------
(* Numbers, queues, and what is sent.                                      *)

LEMMA QuotientType ==
  ASSUME NEW a \in Nat, NEW b \in Nat \ {0}
  PROVE  a \div b \in Nat
BY SMT

(* What is in a queue after a frame has been put into it or taken from it. *)
LEMMA RangeOf ==
  ASSUME NEW S, NEW q \in Seq(S), NEW e \in S
  PROVE  /\ Range(Append(q, e)) = Range(q) \cup {e}
         /\ q # << >> => Range(q) = Range(Tail(q)) \cup {Head(q)}
         /\ q \o <<e>> = Append(q, e)
         /\ Range(<< >>) = {}
         /\ Range(q) \subseteq S
<1>1. /\ DOMAIN q = 1..Len(q) /\ Len(q) \in Nat
      /\ DOMAIN Append(q, e) = 1..(Len(q) + 1)
      /\ \A i \in 1..Len(q) : Append(q, e)[i] = q[i] /\ q[i] \in S
      /\ Append(q, e)[Len(q) + 1] = e
  BY SMT
<1>2. Range(Append(q, e)) = Range(q) \cup {e}
  <2>1. ASSUME NEW x \in Range(q) PROVE x \in Range(Append(q, e))
    <3>1. PICK i \in 1..Len(q) : q[i] = x
      BY <1>1, <2>1 DEF Range
    <3>2. i \in 1..(Len(q) + 1)
      BY <1>1, <3>1, SMT
    <3> QED
      BY <1>1, <3>1, <3>2 DEF Range
  <2>2. e \in Range(Append(q, e))
    <3>1. Len(q) + 1 \in 1..(Len(q) + 1)
      BY <1>1, SMT
    <3> QED
      BY <1>1, <3>1 DEF Range
  <2>3. ASSUME NEW x \in Range(Append(q, e)) PROVE x \in Range(q) \cup {e}
    <3>1. PICK i \in 1..(Len(q) + 1) : Append(q, e)[i] = x
      BY <1>1, <2>3 DEF Range
    <3>2. i \in 1..Len(q) \/ i = Len(q) + 1
      BY <1>1, <3>1, SMT
    <3> QED
      BY <1>1, <3>1, <3>2 DEF Range
  <2> QED
    BY <2>1, <2>2, <2>3
<1>3. ASSUME q # << >> PROVE Range(q) = Range(Tail(q)) \cup {Head(q)}
  <2>1. /\ DOMAIN Tail(q) = 1..(Len(q) - 1) /\ 1 \in 1..Len(q) /\ Head(q) = q[1]
        /\ \A i \in 1..(Len(q) - 1) : Tail(q)[i] = q[i + 1] /\ i + 1 \in 1..Len(q)
        /\ \A i \in 1..Len(q) : i # 1 => i - 1 \in 1..(Len(q) - 1) /\ (i - 1) + 1 = i
    BY <1>1, <1>3, SMT
  <2>2. ASSUME NEW x \in Range(q) PROVE x \in Range(Tail(q)) \cup {Head(q)}
    <3>1. PICK i \in 1..Len(q) : q[i] = x
      BY <1>1, <2>2 DEF Range
    <3>2. CASE i = 1
      BY <2>1, <3>1, <3>2
    <3>3. CASE i # 1
      <4>1. i - 1 \in DOMAIN Tail(q) /\ Tail(q)[i - 1] = x
        BY <2>1, <3>1, <3>3
      <4> QED
        BY <4>1 DEF Range
    <3> QED
      BY <3>2, <3>3
  <2>3. Head(q) \in Range(q)
    BY <1>1, <2>1 DEF Range
  <2>4. ASSUME NEW x \in Range(Tail(q)) PROVE x \in Range(q)
    <3>1. PICK i \in 1..(Len(q) - 1) : Tail(q)[i] = x
      BY <2>1, <2>4 DEF Range
    <3> QED
      BY <1>1, <2>1, <3>1 DEF Range
  <2> QED
    BY <2>2, <2>3, <2>4
<1>4. q \o <<e>> = Append(q, e)
  BY SMT
<1>5. Range(<< >>) = {}
  BY DEF Range
<1>6. Range(q) \subseteq S
  BY <1>1 DEF Range
<1> QED
  BY <1>2, <1>3, <1>4, <1>5, <1>6

LEMMA ReplyOutcome ==
  ASSUME NEW id, NEW respId, FlipDir(id) = respId, NEW vals, NEW data,
         NEW o \in Reply(vals, id, data)
  PROVE  o.vals = vals /\ o.ok /\ o.out = <<Message(respId, data)>>
<1>1. o = Outcome(vals, <<Message(respId, data)>>, TRUE)
  BY DEF Reply
<1> QED
  BY <1>1 DEF Outcome

-----------------------------------------------------------------------------
(* Segments.                                                               *)

\* The numbers a segment can have.
Segments == 0..MAX_PROPERTY_INDEX

\* The response of device n to the request for segment s of image im.
SegmentOf(n, im, s) ==
  Message(MakeId(DEVICE_TO_CLIENT, n, READ_MANIFEST, s), Segment(Envelope(im), s))

\* The first byte an image has in segment s, less one.
Offset(s) == s * SEGMENT_SIZE

LEMMA SizeType ==
  /\ SEGMENT_SIZE \in Nat \ {0} /\ MAX_PROPERTY_INDEX \in Nat /\ 0 < MAX_PROPERTY_INDEX
  /\ HEADER_LENGTH \in Nat /\ MAX_NODE_ID \in Nat /\ 0 < MAX_NODE_ID /\ MAX_NODE_ID <= 32
  /\ Segments \subseteq Indices /\ 0 \in Segments
BY FormatAssumption, ScanAssumption, SMT DEF Segments, Indices

LEMMA NodeRange ==
  ASSUME NEW n \in Node
  PROVE  n \in NodeIds /\ n \in Nat /\ 0 <= n /\ n < MAX_NODE_ID
<1>1. n \in 0..(MAX_NODE_ID - 1)
  BY ScanAssumption
<1> QED
  BY <1>1, SizeType, SMT DEF NodeIds

LEMMA OffsetFacts ==
  /\ \A s \in Nat : /\ Offset(s) \in Nat
                    /\ Offset(s + 1) = Offset(s) + SEGMENT_SIZE
                    /\ Offset(s) \div SEGMENT_SIZE = s
  /\ Offset(0) = 0 /\ Offset(1) = SEGMENT_SIZE
  /\ \A s, t \in Nat : s <= t => Offset(s) <= Offset(t)
<1>0. SEGMENT_SIZE \in Nat \ {0}
  BY SizeType
<1>1. ASSUME NEW s \in Nat
      PROVE  /\ Offset(s) \in Nat
             /\ Offset(s + 1) = Offset(s) + SEGMENT_SIZE
             /\ Offset(s) \div SEGMENT_SIZE = s
  <2>1. Offset(s) \in Nat /\ Offset(s + 1) = Offset(s) + SEGMENT_SIZE
    BY <1>0, SMT DEF Offset
  <2>2. (s * SEGMENT_SIZE + 0) \div SEGMENT_SIZE = s
    BY <1>0, DivMod, SMT
  <2>3. s * SEGMENT_SIZE + 0 = s * SEGMENT_SIZE
    BY <1>0, SMT
  <2> QED
    BY <2>1, <2>2, <2>3 DEF Offset
<1>2. Offset(0) = 0 /\ Offset(1) = SEGMENT_SIZE
  BY <1>0, SMT DEF Offset
<1>3. ASSUME NEW s \in Nat, NEW t \in Nat, s <= t PROVE Offset(s) <= Offset(t)
  BY <1>0, <1>3, SMT DEF Offset
<1> QED
  BY <1>1, <1>2, <1>3

LEMMA EnvelopeFacts ==
  ASSUME NEW im \in Image
  PROVE  /\ im.size \in Nat /\ im.claims \in Nat /\ im.sound \in BOOLEAN
         /\ Envelope(im) \in Seq(Byte)
         /\ Len(Envelope(im)) = im.size
         /\ \A i \in 1..im.size : Envelope(im)[i] = <<im, i>>
         /\ \A i \in Nat \ {0} : <<im, i>> \in Byte
<1>1. im.size \in Nat /\ im.claims \in Nat /\ im.sound \in BOOLEAN
  BY DEF Image
<1>2. \A i \in Nat \ {0} : <<im, i>> \in Byte
  BY DEF Byte
<1>3. Envelope(im) \in [1..im.size -> Byte]
  <2>1. \A i \in 1..im.size : i \in Nat \ {0}
    BY <1>1, SMT
  <2> QED
    BY <1>2, <2>1 DEF Envelope
<1>4. Envelope(im) \in Seq(Byte) /\ Len(Envelope(im)) = im.size
  BY <1>1, <1>3, SMT
<1> QED
  BY <1>1, <1>2, <1>4 DEF Envelope

(* What segment s of an image holds: as much as fits of what follows the   *)
(* segments before it.                                                     *)
LEMMA SegmentFacts ==
  ASSUME NEW im \in Image, NEW s \in Nat
  PROVE  LET data == Segment(Envelope(im), s)
         IN  /\ data \in Seq(Byte)
             /\ Len(data) = IF im.size <= Offset(s) THEN 0
                            ELSE Lesser(im.size - Offset(s), SEGMENT_SIZE)
             /\ \A i \in 1..Len(data) : data[i] = <<im, Offset(s) + i>>
<1> DEFINE last == Lesser(im.size, Offset(s) + SEGMENT_SIZE)
           data == Segment(Envelope(im), s)
<1>1. im.size \in Nat /\ SEGMENT_SIZE \in Nat \ {0} /\ Offset(s) \in Nat
  BY EnvelopeFacts, SizeType, OffsetFacts
<1>2. last \in Nat /\ last <= im.size /\ last <= Offset(s) + SEGMENT_SIZE
      /\ (last = im.size \/ last = Offset(s) + SEGMENT_SIZE)
  BY <1>1, SMT DEF Lesser
<1>3. data = SubSeq(Envelope(im), Offset(s) + 1, last)
  <2>1. Offset(s + 1) = Offset(s) + SEGMENT_SIZE
    BY OffsetFacts
  <2> QED
    BY <2>1, EnvelopeFacts DEF Segment, Offset
<1>4. \A i \in Offset(s) + 1..last : i \in 1..im.size /\ Envelope(im)[i] \in Byte
                                     /\ Envelope(im)[i] = <<im, i>>
  <2>1. \A i \in Offset(s) + 1..last : i \in 1..im.size /\ i \in Nat \ {0}
    BY <1>1, <1>2, SMT
  <2> QED
    BY <2>1, EnvelopeFacts
<1> HIDE DEF last, data
<1>5. /\ data \in Seq(Byte)
      /\ Len(data) = IF Offset(s) + 1 <= last THEN last - (Offset(s) + 1) + 1 ELSE 0
      /\ \A i \in 1..(last - (Offset(s) + 1) + 1) :
           data[i] = Envelope(im)[Offset(s) + 1 + i - 1]
  <2>1. Offset(s) + 1 \in Int /\ last \in Int
    BY <1>1, <1>2, SMT
  <2> QED
    BY <1>3, <1>4, <2>1, SubSeqProperties
<1>6. Len(data) = IF im.size <= Offset(s) THEN 0
                  ELSE Lesser(im.size - Offset(s), SEGMENT_SIZE)
  <2>1. CASE im.size <= Offset(s)
    <3>1. ~ (Offset(s) + 1 <= last)
      BY <1>1, <1>2, <2>1, SMT
    <3> QED
      BY <1>5, <2>1, <3>1
  <2>2. CASE ~ (im.size <= Offset(s))
    <3>1. /\ Offset(s) + 1 <= last
          /\ last - (Offset(s) + 1) + 1 = Lesser(im.size - Offset(s), SEGMENT_SIZE)
      BY <1>1, <1>2, <2>2, SMT DEF Lesser
    <3> QED
      BY <1>5, <2>2, <3>1
  <2> QED
    BY <2>1, <2>2
<1>7. ASSUME NEW i \in 1..Len(data) PROVE data[i] = <<im, Offset(s) + i>>
  <2>1. /\ i \in 1..(last - (Offset(s) + 1) + 1)
        /\ Offset(s) + 1 + i - 1 = Offset(s) + i
        /\ Offset(s) + i \in Offset(s) + 1..last
    BY <1>1, <1>2, <1>5, SMT
  <2> QED
    BY <1>4, <1>5, <2>1
<1> QED
  BY <1>5, <1>6, <1>7 DEF data

(* The identifiers of the requests for segments, and of the responses.     *)
LEMMA SegmentIds ==
  ASSUME NEW n \in Node, NEW s \in Segments
  PROVE  /\ LET id == ReadManifestRequest(n, s).id
            IN  /\ id \in Nat /\ IsDevprop(id) /\ OpcodeOf(id) = READ_MANIFEST
                /\ NodeOf(id) = n /\ PropertyIndex(id) = s
                /\ DirOf(id) = CLIENT_TO_DEVICE
                /\ FlipDir(id) = MakeId(DEVICE_TO_CLIENT, n, READ_MANIFEST, s)
         /\ LET id == MakeId(DEVICE_TO_CLIENT, n, READ_MANIFEST, s)
            IN  /\ id \in Nat /\ IsDevprop(id) /\ OpcodeOf(id) = READ_MANIFEST
                /\ NodeOf(id) = n /\ PropertyIndex(id) = s
                /\ DirOf(id) = DEVICE_TO_CLIENT
<1>1. n \in NodeIds /\ s \in Indices /\ READ_MANIFEST \in Codes
  BY NodeRange, SizeType, FieldRanges
<1>2. ReadManifestRequest(n, s).id = MakeId(CLIENT_TO_DEVICE, n, READ_MANIFEST, s)
  BY DEF ReadManifestRequest, Message
<1> QED
  BY <1>1, <1>2, UnpackRequest, FlipMake

(* A device answers the request for a segment with that segment of the     *)
(* image it runs.                                                          *)
LEMMA SegmentIsSent ==
  ASSUME NEW n \in Node, NEW s \in Segments, NEW im,
         NEW o \in Handle(n, Envelope(im), << >>, ReadManifestRequest(n, s))
  PROVE  o.out = <<SegmentOf(n, im, s)>>
<1> DEFINE req == ReadManifestRequest(n, s)
<1>1. /\ IsDevprop(req.id) /\ OpcodeOf(req.id) = READ_MANIFEST
      /\ NodeOf(req.id) = n /\ PropertyIndex(req.id) = s
      /\ DirOf(req.id) = CLIENT_TO_DEVICE
      /\ FlipDir(req.id) = MakeId(DEVICE_TO_CLIENT, n, READ_MANIFEST, s)
  BY SegmentIds
<1>2. req.data = << >>
  BY DEF ReadManifestRequest, Message
<1> HIDE DEF req
<1>3. o \in Reply(<< >>, req.id, Segment(Envelope(im), s))
  <2>1. o \in Handle(n, Envelope(im), << >>, req)
    BY DEF req
  <2> QED
    BY <1>1, <1>2, <2>1 DEF Handle, ReadManifest
<1> QED
  BY <1>1, <1>3, ReplyOutcome DEF SegmentOf

-----------------------------------------------------------------------------
(* The inductive invariant.                                                *)

DeviceQueue(n) == {ReadManifestRequest(n, s) : s \in Segments}

\* A frame the scan can see: the request of another client, what a device
\* sent while it had some image, or another protocol's.
IsRequest(msg) == \E n \in Node : msg \in DeviceQueue(n)

IsResponse(msg) ==
  \E n \in Node, s \in Segments : \E im \in had[n] : msg = SegmentOf(n, im, s)

IsForeign(msg) == "foreign" \in seen /\ \E id \in ForeignIds : msg = Message(id, << >>)

Frames == {msg \in Msg : IsRequest(msg) \/ IsResponse(msg) \/ IsForeign(msg)}

QueuesOK ==
  /\ \A n \in Node : devq[n] \in Seq(DeviceQueue(n))
  /\ rxq \in Seq(Frames)

Known == \A n \in Node : image[n] \in had[n]

CandidatesOK ==
  \A n \in Range(candidates) : \E im \in had[n] : initial[n] = Segment(Envelope(im), 0)

\* The device has not changed its firmware.
Stable(n) == had[n] = {image[n]}

IsPartOf(part, im) ==
  Len(part) <= im.size /\ \A i \in 1..Len(part) : part[i] = <<im, i>>

\* A download goes on at a segment boundary, and with the first byte of an
\* image the device has had; as long as the device has the same, with all
\* of them.
Downloading ==
  /\ envelope[1][1] \in had[Current]
  /\ expected = LengthIn(envelope)
  /\ SEGMENT_SIZE <= Len(envelope)
  /\ Len(envelope) <= Offset(MAX_PROPERTY_INDEX + 1)
  /\ Len(envelope) # expected => Len(envelope) = Offset(NextSegment)
  /\ Stable(Current) => IsPartOf(envelope, image[Current])
  /\ sentAt <= Len(envelope)
  /\ sentAt = Len(envelope) => NextSegment \in Segments
  /\ pc = "recv" => sentAt = Len(envelope) /\ Len(envelope) # expected

DownloadOK == pc \in {"run", "recv"} => Downloading

FoundOK ==
  \A n \in Found : \E im \in had[n] : Downloadable(im) /\ found[n] = Envelope(im)

PingOK == pc = "ping" => pinged < MAX_NODE_ID

IInv ==
  /\ TypeOK /\ QueuesOK /\ Known /\ CandidatesOK /\ DownloadOK /\ FoundOK /\ PingOK
  /\ RaisedForAReason

-----------------------------------------------------------------------------
(* What only grows.                                                        *)

\* The steps that are not the client's.
Environment ==
  \/ \E n \in Node : Respond(n) \/ LoseRequest(n) \/ Update(n)
  \/ LoseFrame
  \/ \E id \in ForeignIds : Foreign(id)
  \/ \E n \in Node, segment \in 0..MAX_PROPERTY_INDEX : Other(n, segment)

LEMMA Grows ==
  ASSUME TypeOK, Known, [Next]_vars
  PROVE  /\ seen \subseteq seen'
         /\ \A n \in Node : /\ had[n] \subseteq had'[n] /\ image'[n] \in had'[n]
                            /\ Stable(n)' => Stable(n) /\ image'[n] = image[n]
         /\ had' \in [Node -> SUBSET Image] /\ image' \in [Node -> Image]
<1>1. seen' = seen \/ \E kind : Fault(kind)
  BY DEF Next, vars, Begin, Scan, Ping, Collect, CollectTimeout, NextCandidate, Finish,
         Parse, Send, Receive, Timeout, faultVars, Respond, LoseRequest, Update, LoseFrame,
         Foreign, Other
<1>2. seen \subseteq seen'
  BY <1>1 DEF Fault
<1>3. \/ had' = had /\ image' = image
      \/ \E n \in Node : Update(n)
  BY DEF Next, vars, Begin, Scan, Ping, Collect, CollectTimeout, NextCandidate, Finish,
         Parse, Send, Receive, Timeout, Respond, LoseRequest, LoseFrame, Foreign, Other
<1>4. CASE had' = had /\ image' = image
  BY <1>2, <1>4 DEF Stable, Known, TypeOK
<1>5. ASSUME NEW m \in Node, Update(m)
      PROVE  /\ \A n \in Node : /\ had[n] \subseteq had'[n] /\ image'[n] \in had'[n]
                                /\ Stable(n)' => Stable(n) /\ image'[n] = image[n]
             /\ had' \in [Node -> SUBSET Image] /\ image' \in [Node -> Image]
  <2>1. PICK im \in Updates :
          image' = [image EXCEPT ![m] = im] /\ had' = [had EXCEPT ![m] = @ \cup {im}]
    BY <1>5 DEF Update
  <2>2. /\ had \in [Node -> SUBSET Image] /\ image \in [Node -> Image] /\ im \in Image
        /\ \A n \in Node : image[n] \in had[n]
    BY ScanAssumption DEF TypeOK, Known
  <2>3. had' \in [Node -> SUBSET Image] /\ image' \in [Node -> Image]
    BY <2>1, <2>2
  <2>4. ASSUME NEW n \in Node
        PROVE  /\ had[n] \subseteq had'[n] /\ image'[n] \in had'[n]
               /\ Stable(n)' => Stable(n) /\ image'[n] = image[n]
    <3>1. CASE n # m
      BY <2>1, <2>2, <3>1 DEF Stable
    <3>2. CASE n = m
      <4>1. had'[n] = had[n] \cup {im} /\ image'[n] = im
        BY <2>1, <2>2, <3>2
      <4> QED
        BY <2>2, <4>1 DEF Stable
    <3> QED
      BY <3>1, <3>2
  <2> QED
    BY <2>3, <2>4
<1> QED
  BY <1>2, <1>3, <1>4, <1>5

LEMMA FramesGrow ==
  ASSUME TypeOK, Known, [Next]_vars
  PROVE  Frames \subseteq Frames'
<1> SUFFICES ASSUME NEW msg \in Frames PROVE msg \in Frames'
  OBVIOUS
<1>1. IsResponse(msg) => IsResponse(msg)'
  BY Grows DEF IsResponse
<1>2. IsForeign(msg) => IsForeign(msg)'
  BY Grows DEF IsForeign
<1> QED
  BY <1>1, <1>2 DEF Frames

-----------------------------------------------------------------------------
(* The frames.                                                             *)

LEMMA FrameType ==
  ASSUME TypeOK, NEW n \in Node, NEW s \in Segments
  PROVE  /\ ReadManifestRequest(n, s) \in Msg
         /\ ReadManifestRequest(n, s) \in Frames
         /\ \A im \in had[n] : SegmentOf(n, im, s) \in Msg /\ SegmentOf(n, im, s) \in Frames
<1>1. ReadManifestRequest(n, s) \in Msg
  <2>1. ReadManifestRequest(n, s).data = << >>
    BY DEF ReadManifestRequest, Message
  <2> QED
    BY <2>1, SegmentIds, EmptySeq DEF ReadManifestRequest, Message, Msg
<1>2. ReadManifestRequest(n, s) \in Frames
  BY <1>1 DEF Frames, IsRequest, DeviceQueue
<1>3. ASSUME NEW im \in had[n] PROVE SegmentOf(n, im, s) \in Msg
  <2>1. im \in Image /\ s \in Nat
    BY SizeType, SMT DEF TypeOK, Segments
  <2>2. Segment(Envelope(im), s) \in Seq(Byte)
    BY <2>1, SegmentFacts
  <2> QED
    BY <2>2, SegmentIds DEF SegmentOf, Message, Msg
<1>4. ASSUME NEW im \in had[n] PROVE SegmentOf(n, im, s) \in Frames
  BY <1>3 DEF Frames, IsResponse
<1> QED
  BY <1>1, <1>2, <1>3, <1>4

LEMMA QueueTypes ==
  ASSUME TypeOK, NEW n \in Node, NEW q \in Seq(DeviceQueue(n)), NEW r \in Seq(Frames)
  PROVE  q \in Seq(Msg) /\ r \in Seq(Msg)
<1>1. DeviceQueue(n) \subseteq Msg
  BY FrameType DEF DeviceQueue
<1>2. Frames \subseteq Msg
  BY DEF Frames
<1> QED
  BY <1>1, <1>2, SeqMonotonic

(* What a frame is, as the scan takes it apart.                            *)
LEMMA FrameFacts ==
  ASSUME TypeOK, NEW msg \in Frames
  PROVE  /\ msg.id \in Nat /\ msg.data \in Seq(Byte)
         /\ ~ Unpacks(msg) => "foreign" \in seen
         /\ Unpacks(msg) /\ IsSegment(msg) =>
              /\ NodeOf(msg.id) \in Node /\ PropertyIndex(msg.id) \in Segments
              /\ \E im \in had[NodeOf(msg.id)] :
                   msg = SegmentOf(NodeOf(msg.id), im, PropertyIndex(msg.id))
<1>1. msg.id \in Nat /\ msg.data \in Seq(Byte)
  BY DEF Frames, Msg
<1>2. ASSUME NEW n \in Node, NEW s \in Segments, msg = ReadManifestRequest(n, s)
      PROVE  Unpacks(msg) /\ ~ IsSegment(msg)
  BY <1>2, SegmentIds, FieldRanges DEF Unpacks, IsSegment, Opcode
<1>3. ASSUME NEW n \in Node, NEW s \in Segments, NEW im \in had[n], msg = SegmentOf(n, im, s)
      PROVE  Unpacks(msg) /\ NodeOf(msg.id) = n /\ PropertyIndex(msg.id) = s
  <2>1. msg.id = MakeId(DEVICE_TO_CLIENT, n, READ_MANIFEST, s)
    BY <1>3 DEF SegmentOf, Message
  <2> QED
    BY <2>1, SegmentIds DEF Unpacks, Opcode
<1>4. ASSUME NEW id \in ForeignIds, "foreign" \in seen, msg = Message(id, << >>)
      PROVE  ~ Unpacks(msg) /\ "foreign" \in seen
  BY <1>4, ScanAssumption DEF Unpacks, Message
<1>5. \/ \E n \in Node, s \in Segments : msg = ReadManifestRequest(n, s)
      \/ \E n \in Node, s \in Segments : \E im \in had[n] : msg = SegmentOf(n, im, s)
      \/ "foreign" \in seen /\ \E id \in ForeignIds : msg = Message(id, << >>)
  BY DEF Frames, IsRequest, DeviceQueue, IsResponse, IsForeign
<1> QED
  BY <1>1, <1>2, <1>3, <1>4, <1>5

-----------------------------------------------------------------------------
(* The queues.                                                             *)

LEMMA NextSegmentType ==
  ASSUME TypeOK
  PROVE  /\ Len(envelope) \in Nat /\ NextSegment \in Nat
         /\ \A n : ClientCanMake(n, READ_MANIFEST, NextSegment) => NextSegment \in Segments
<1>1. Len(envelope) \in Nat
  BY LenProperties DEF TypeOK
<1>2. NextSegment \in Nat
  BY <1>1, SizeType, QuotientType DEF NextSegment
<1> QED
  BY <1>1, <1>2, SizeType, SMT DEF ClientCanMake, IndexAllowed, Segments

\* What can happen to the requests on their way.
DeviceQueueSteps ==
  \/ devq' = devq
  \/ \E n \in Nat, s \in Segments : Sent(n, s)
  \/ \E n \in Node : devq[n] # << >> /\ devq' = [devq EXCEPT ![n] = Tail(@)]
  \/ \E n \in Node : devq' = [devq EXCEPT ![n] = << >>]

LEMMA DeviceQueuesNext ==
  ASSUME IInv, [Next]_vars
  PROVE  DeviceQueueSteps /\ devq' \in [Node -> Seq(Msg)]
           /\ \A n \in Node : devq'[n] \in Seq(DeviceQueue(n))
<1>1. TypeOK /\ QueuesOK
  BY DEF IInv
<1>2. DeviceQueueSteps
  <2>1. CASE Ping
    <3>1. pinged \in Nat /\ 0 \in Segments
      BY <1>1, SizeType, SMT DEF TypeOK
    <3> QED
      BY <2>1, <3>1 DEF Ping, DeviceQueueSteps
  <2>2. CASE Send
    <3>1. ASSUME devq' # devq
          PROVE  Sent(Current, NextSegment) /\ NextSegment \in Segments /\ Current \in Nat
      <4>1. /\ pc = "run" /\ Sent(Current, NextSegment)
            /\ ClientCanMake(Current, READ_MANIFEST, NextSegment)
        BY <2>2, <3>1 DEF Send
      <4> QED
        BY <1>1, <4>1, NextSegmentType, SMT DEF ClientCanMake, NodeIds
    <3> QED
      BY <3>1 DEF DeviceQueueSteps
  <2>3. ASSUME NEW n \in Node, Respond(n) \/ LoseRequest(n) \/ Update(n)
        PROVE  DeviceQueueSteps
    BY <2>3 DEF Respond, LoseRequest, Update, DeviceQueueSteps
  <2>4. ASSUME NEW n \in Node, NEW s \in 0..MAX_PROPERTY_INDEX, Other(n, s)
        PROVE  DeviceQueueSteps
    BY <2>4, NodeRange DEF Other, DeviceQueueSteps, Segments
  <2>5. CASE Begin \/ Collect \/ CollectTimeout \/ NextCandidate \/ Finish
    BY <2>5 DEF Begin, Collect, CollectTimeout, NextCandidate, Finish, DeviceQueueSteps
  <2>6. CASE Parse \/ Receive \/ Timeout \/ LoseFrame \/ UNCHANGED vars
    BY <2>6 DEF Parse, Receive, Timeout, LoseFrame, vars, DeviceQueueSteps
  <2>7. ASSUME NEW id \in ForeignIds, Foreign(id) PROVE DeviceQueueSteps
    BY <2>7 DEF Foreign, DeviceQueueSteps
  <2> QED
    BY <2>1, <2>2, <2>3, <2>4, <2>5, <2>6, <2>7 DEF Next, Scan
<1>3. devq' \in [Node -> Seq(Msg)] /\ \A n \in Node : devq'[n] \in Seq(DeviceQueue(n))
  <2>0. devq \in [Node -> Seq(Msg)] /\ \A n \in Node : devq[n] \in Seq(DeviceQueue(n))
    BY <1>1 DEF TypeOK, QueuesOK
  <2>1. CASE devq' = devq
    BY <2>0, <2>1
  <2>2. ASSUME NEW n \in Nat, NEW s \in Segments, Sent(n, s)
        PROVE  devq' \in [Node -> Seq(Msg)] /\ \A d \in Node : devq'[d] \in Seq(DeviceQueue(d))
    <3>1. devq' = [d \in Node |-> IF d = n THEN Append(devq[d], ReadManifestRequest(n, s))
                                  ELSE devq[d]]
      BY <2>2 DEF Sent
    <3>2. ASSUME NEW d \in Node PROVE devq'[d] \in Seq(Msg) /\ devq'[d] \in Seq(DeviceQueue(d))
      <4>1. CASE d # n
        BY <2>0, <3>1, <4>1
      <4>2. CASE d = n
        <5>1. devq'[d] = Append(devq[d], ReadManifestRequest(d, s))
          BY <3>1, <4>2
        <5>2. ReadManifestRequest(d, s) \in Msg /\ ReadManifestRequest(d, s) \in DeviceQueue(d)
          BY <1>1, FrameType DEF DeviceQueue
        <5> QED
          BY <2>0, <5>1, <5>2, AppendProperties
      <4> QED
        BY <4>1, <4>2
    <3> QED
      BY <3>1, <3>2
  <2>3. ASSUME NEW n \in Node, devq[n] # << >>, devq' = [devq EXCEPT ![n] = Tail(@)]
        PROVE  devq' \in [Node -> Seq(Msg)] /\ \A d \in Node : devq'[d] \in Seq(DeviceQueue(d))
    <3>1. Tail(devq[n]) \in Seq(Msg) /\ Tail(devq[n]) \in Seq(DeviceQueue(n))
      BY <2>0, <2>3, HeadTailProperties
    <3> QED
      BY <2>0, <2>3, <3>1
  <2>4. ASSUME NEW n \in Node, devq' = [devq EXCEPT ![n] = << >>]
        PROVE  devq' \in [Node -> Seq(Msg)] /\ \A d \in Node : devq'[d] \in Seq(DeviceQueue(d))
    <3>1. << >> \in Seq(Msg) /\ << >> \in Seq(DeviceQueue(n))
      BY EmptySeq
    <3> QED
      BY <2>0, <2>4, <3>1
  <2> QED
    BY <1>2, <2>1, <2>2, <2>3, <2>4 DEF DeviceQueueSteps
<1> QED
  BY <1>2, <1>3

(* What a device puts on the bus is the segment asked for.                 *)
LEMMA RespondFacts ==
  ASSUME IInv, NEW n \in Node, Respond(n)
  PROVE  \E s \in Segments : /\ Head(devq[n]) = ReadManifestRequest(n, s)
                             /\ SegmentOf(n, image[n], s) \in Frames
                             /\ rxq' = rxq \o <<SegmentOf(n, image[n], s)>>
<1>1. TypeOK /\ QueuesOK /\ image[n] \in had[n] /\ devq[n] # << >>
  BY DEF IInv, Known, Respond
<1>2. PICK o \in Handle(n, Envelope(image[n]), << >>, Head(devq[n])) : rxq' = rxq \o o.out
  BY DEF Respond
<1>3. PICK s \in Segments : Head(devq[n]) = ReadManifestRequest(n, s)
  <2>1. devq[n] \in Seq(DeviceQueue(n))
    BY <1>1 DEF QueuesOK
  <2>2. Head(devq[n]) \in DeviceQueue(n)
    BY <1>1, <2>1, HeadTailProperties
  <2> QED
    BY <2>2 DEF DeviceQueue
<1>4. o.out = <<SegmentOf(n, image[n], s)>>
  BY <1>2, <1>3, SegmentIsSent
<1>5. SegmentOf(n, image[n], s) \in Frames
  BY <1>1, FrameType
<1> QED
  BY <1>2, <1>3, <1>4, <1>5

\* What can happen to the frames the scan can see.
ClientQueueSteps ==
  \/ rxq' = rxq
  \/ rxq # << >> /\ rxq' = Tail(rxq)
  \/ \E msg \in Frames' : rxq' = rxq \o <<msg>>

LEMMA ClientQueueNext ==
  ASSUME IInv, [Next]_vars
  PROVE  ClientQueueSteps /\ rxq' \in Seq(Frames')
<1>1. TypeOK /\ QueuesOK /\ Known
  BY DEF IInv
<1>2. Frames \subseteq Frames'
  BY <1>1, FramesGrow
<1>3. rxq \in Seq(Frames) /\ rxq \in Seq(Frames')
  BY <1>1, <1>2, SeqMonotonic DEF QueuesOK
<1>4. ClientQueueSteps
  <2>1. CASE Collect \/ Receive \/ LoseFrame
    BY <2>1 DEF Collect, Receive, LoseFrame, ClientQueueSteps
  <2>2. CASE Begin \/ Ping \/ CollectTimeout \/ NextCandidate \/ Finish
    BY <2>2 DEF Begin, Ping, CollectTimeout, NextCandidate, Finish, ClientQueueSteps
  <2>3. CASE Parse \/ Send \/ Timeout \/ UNCHANGED vars
    BY <2>3 DEF Parse, Send, Timeout, vars, ClientQueueSteps
  <2>4. ASSUME NEW n \in Node, LoseRequest(n) \/ Update(n) PROVE ClientQueueSteps
    BY <2>4 DEF LoseRequest, Update, ClientQueueSteps
  <2>5. ASSUME NEW n \in Node, Respond(n) PROVE ClientQueueSteps
    BY <1>2, <2>5, RespondFacts DEF ClientQueueSteps
  <2>6. ASSUME NEW id \in ForeignIds, Foreign(id) PROVE ClientQueueSteps
    <3>1. "foreign" \in seen' /\ rxq' = Append(rxq, Message(id, << >>))
      BY <2>6 DEF Foreign, Fault
    <3>2. Message(id, << >>) \in Msg
      BY ScanAssumption, EmptySeq DEF Message, Msg
    <3>3. IsForeign(Message(id, << >>))'
      BY <3>1 DEF IsForeign
    <3>4. Message(id, << >>) \in Frames'
      BY <3>2, <3>3 DEF Frames
    <3> QED
      BY <1>3, <3>1, <3>4, AppendIsConcat DEF ClientQueueSteps
  <2>7. ASSUME NEW n \in Node, NEW s \in 0..MAX_PROPERTY_INDEX, Other(n, s)
        PROVE  ClientQueueSteps
    <3>1. rxq' = Append(rxq, ReadManifestRequest(n, s))
      BY <2>7 DEF Other
    <3>2. ReadManifestRequest(n, s) \in Frames'
      BY <1>1, <1>2, FrameType DEF Segments
    <3> QED
      BY <1>3, <3>1, <3>2, AppendIsConcat DEF ClientQueueSteps
  <2> QED
    BY <2>1, <2>2, <2>3, <2>4, <2>5, <2>6, <2>7 DEF Next, Scan
<1>5. ASSUME NEW msg \in Frames' PROVE rxq \o <<msg>> \in Seq(Frames')
  <2>1. rxq \o <<msg>> = Append(rxq, msg)
    BY <1>3, AppendIsConcat
  <2> QED
    BY <1>3, <2>1, AppendProperties
<1>6. rxq # << >> => Tail(rxq) \in Seq(Frames')
  BY <1>3, HeadTailProperties
<1> QED
  BY <1>3, <1>4, <1>5, <1>6 DEF ClientQueueSteps

LEMMA QueuesNext ==
  ASSUME IInv, [Next]_vars
  PROVE  QueuesOK' /\ devq' \in [Node -> Seq(Msg)] /\ rxq' \in Seq(Msg)
<1>1. rxq' \in Seq(Frames')
  BY ClientQueueNext
<1>2. QueuesOK'
  BY <1>1, DeviceQueuesNext DEF QueuesOK
<1>3. rxq' \in Seq(Msg)
  <2>1. Frames' \subseteq Msg
    BY DEF Frames
  <2> QED
    BY <1>1, <2>1, SeqMonotonic
<1> QED
  BY <1>2, <1>3, DeviceQueuesNext

-----------------------------------------------------------------------------
(* Types.                                                                  *)

LEMMA CandidateFacts ==
  ASSUME TypeOK, candidates # << >>
  PROVE  /\ Current \in Node /\ Tail(candidates) \in Seq(Node)
         /\ Range(candidates) = Range(Tail(candidates)) \cup {Current}
         /\ Range(candidates) \subseteq Node
<1>1. candidates \in Seq(Node)
  BY DEF TypeOK
<1>2. Current \in Node /\ Tail(candidates) \in Seq(Node)
  BY <1>1, HeadTailProperties DEF Current
<1> QED
  BY <1>1, <1>2, RangeOf DEF Current

(* The frame a handler takes from the queue.                               *)
LEMMA HeadFrame ==
  ASSUME IInv, rxq # << >>
  PROVE  TypeOK /\ Head(rxq) \in Frames
<1>1. rxq \in Seq(Frames)
  BY DEF IInv, QueuesOK
<1> QED
  BY <1>1, HeadTailProperties DEF IInv

\* The types of the client's variables.
ClientTypes ==
  /\ pc \in {"idle", "ping", "collect", "next", "run", "recv", "done", "raised"}
  /\ pinged \in 0..MAX_NODE_ID
  /\ candidates \in Seq(Node)
  /\ initial \in [Node -> Seq(Byte)]
  /\ envelope \in Seq(Byte)
  /\ expected \in Nat \cup {-1}
  /\ sentAt \in Nat \cup {-1}
  /\ Found \subseteq Node
  /\ \A n \in Found : found[n] \in Seq(Byte)
  /\ nScans \in 0..MaxScans
  /\ pc \in {"run", "recv"} => candidates # << >> /\ envelope # << >>

LEMMA ClientTypesNow == ASSUME TypeOK PROVE ClientTypes
BY DEF TypeOK, ClientTypes

\* The first byte tells how long an envelope is.
LEMMA LengthType ==
  ASSUME NEW data \in Seq(Byte), data # << >>
  PROVE  data[1][1] \in Image /\ LengthIn(data) \in Nat
<1>1. 1 \in 1..Len(data)
  BY EmptySeq, SMT
<1>2. data[1] \in Image \X (Nat \ {0})
  BY <1>1, ElementOfSeq DEF Byte
<1>3. data[1][1] \in Image
  BY <1>2
<1>4. data[1][1].claims \in Nat
  BY <1>3 DEF Image
<1> QED
  BY <1>3, <1>4, SizeType, SMT DEF LengthIn

LEMMA TypesBegin == ASSUME IInv, Begin PROVE ClientTypes'
<1>1. TypeOK
  BY DEF IInv
<1>2. /\ pc' = "ping" /\ pinged' = 0 /\ candidates' = << >>
      /\ initial' = [n \in Node |-> << >>] /\ found' = << >>
      /\ UNCHANGED <<envelope, expected, sentAt>>
  BY DEF Begin, download
<1>3. nScans' \in 0..MaxScans
  BY <1>1, ScanAssumption, SMT DEF Begin, TypeOK
<1>4. 0 \in 0..MAX_NODE_ID
  BY SizeType, SMT
<1>5. << >> \in Seq(Node) /\ << >> \in Seq(Byte) /\ DOMAIN << >> = {}
  BY EmptySeq
<1> QED
  BY <1>1, <1>2, <1>3, <1>4, <1>5 DEF TypeOK, ClientTypes, Found

LEMMA TypesPing == ASSUME IInv, Ping PROVE ClientTypes'
<1>1. ClientTypes /\ pinged < MAX_NODE_ID
  BY ClientTypesNow DEF IInv, PingOK, Ping
<1>2. /\ pc' \in {"ping", "collect"} /\ pinged' = pinged + 1
      /\ UNCHANGED <<candidates, initial, envelope, expected, sentAt, found, nScans>>
  BY DEF Ping, download
<1>3. pinged' \in 0..MAX_NODE_ID
  BY <1>1, <1>2, SizeType, SMT DEF ClientTypes
<1> QED
  BY <1>1, <1>2, <1>3 DEF ClientTypes, Found

LEMMA TypesCollect == ASSUME IInv, Collect PROVE ClientTypes'
<1> DEFINE msg == Head(rxq)
           n == NodeOf(msg.id)
<1>1. ClientTypes /\ rxq # << >>
  BY ClientTypesNow DEF IInv, Collect
<1>2. TypeOK /\ msg \in Frames
  BY <1>1, HeadFrame
<1>3. /\ pc = "collect" /\ pc' \in {"raised", "collect"}
      /\ UNCHANGED <<pinged, envelope, expected, sentAt, found, nScans>>
      /\ \/ UNCHANGED <<candidates, initial>>
         \/ /\ Unpacks(msg) /\ IsSegment(msg)
            /\ candidates' = candidates \/ candidates' = Append(candidates, n)
            /\ initial' = [initial EXCEPT ![n] = msg.data]
  BY DEF Collect, download
<1> HIDE DEF msg
<1>4. candidates' \in Seq(Node) /\ initial' \in [Node -> Seq(Byte)]
  <2>1. CASE UNCHANGED <<candidates, initial>>
    BY <1>1, <2>1 DEF ClientTypes
  <2>2. CASE /\ Unpacks(msg) /\ IsSegment(msg)
             /\ candidates' = candidates \/ candidates' = Append(candidates, n)
             /\ initial' = [initial EXCEPT ![n] = msg.data]
    <3>1. n \in Node /\ msg.data \in Seq(Byte)
      BY <1>2, <2>2, FrameFacts
    <3> HIDE DEF n
    <3>2. candidates \in Seq(Node) /\ initial \in [Node -> Seq(Byte)]
      BY <1>1 DEF ClientTypes
    <3>3. Append(candidates, n) \in Seq(Node)
      BY <3>1, <3>2, AppendProperties
    <3>4. [initial EXCEPT ![n] = msg.data] \in [Node -> Seq(Byte)]
      BY <3>1, <3>2
    <3> QED
      BY <2>2, <3>2, <3>3, <3>4
  <2> QED
    BY <1>3, <2>1, <2>2
<1> QED
  BY <1>1, <1>3, <1>4 DEF ClientTypes, Found

LEMMA TypesNextCandidate == ASSUME IInv, NextCandidate PROVE ClientTypes'
<1>1. TypeOK /\ ClientTypes /\ candidates # << >> /\ pc = "next"
  BY ClientTypesNow DEF IInv, NextCandidate
<1>2. initial[Current] \in Seq(Byte)
  BY <1>1, CandidateFacts DEF ClientTypes
<1>3. /\ sentAt' = -1
      /\ UNCHANGED <<pinged, candidates, initial, found, nScans>>
      /\ \/ /\ Len(initial[Current]) = SEGMENT_SIZE /\ pc' = "run"
            /\ envelope' = initial[Current] /\ expected' = LengthIn(initial[Current])
         \/ pc' = "raised" /\ envelope' = << >> /\ expected' = -1
  BY DEF NextCandidate
<1>4. Len(initial[Current]) = SEGMENT_SIZE => initial[Current] # << >>
  BY SizeType, EmptySeq, SMT
<1>5. envelope' \in Seq(Byte) /\ expected' \in Nat \cup {-1} /\ sentAt' \in Nat \cup {-1}
      /\ (pc' = "run" => envelope' # << >>)
  BY <1>2, <1>3, <1>4, LengthType, EmptySeq
<1> QED
  BY <1>1, <1>3, <1>5 DEF ClientTypes, Found

LEMMA TypesGoOn ==
  ASSUME TypeOK, pc \in {"run", "recv"}, GoOn, UNCHANGED <<expected, sentAt>>,
         envelope' \in Seq(Byte),
         Found' \subseteq Node, \A n \in Found' : found'[n] \in Seq(Byte)
  PROVE  ClientTypes'
<1>1. ClientTypes /\ candidates # << >>
  BY ClientTypesNow DEF ClientTypes
<1>2. /\ pc' = "next" /\ candidates' = Tail(candidates)
      /\ UNCHANGED <<pinged, initial, nScans>>
  BY DEF GoOn
<1>3. candidates' \in Seq(Node)
  BY <1>1, <1>2, CandidateFacts
<1> QED
  BY <1>1, <1>2, <1>3 DEF ClientTypes

LEMMA TypesParse == ASSUME IInv, Parse PROVE ClientTypes'
<1>1. TypeOK /\ ClientTypes /\ pc = "run" /\ candidates # << >>
  BY ClientTypesNow DEF IInv, Parse, ClientTypes
<1>2. /\ GoOn /\ UNCHANGED <<envelope, expected, sentAt>>
      /\ \/ found' = found
         \/ found' = [n \in Found \cup {Current} |->
                        IF n = Current THEN envelope ELSE found[n]]
  BY DEF Parse, download
<1>3. Current \in Node
  BY <1>1, CandidateFacts
<1>4. Found' \subseteq Node /\ \A n \in Found' : found'[n] \in Seq(Byte)
  BY <1>1, <1>2, <1>3 DEF Found, ClientTypes
<1>5. envelope' \in Seq(Byte)
  BY <1>1, <1>2 DEF ClientTypes
<1> QED
  BY <1>1, <1>2, <1>4, <1>5, TypesGoOn

LEMMA TypesSend == ASSUME IInv, Send PROVE ClientTypes'
<1>1. TypeOK /\ ClientTypes /\ pc = "run" /\ candidates # << >>
  BY ClientTypesNow DEF IInv, Send, ClientTypes
<1>2. /\ UNCHANGED <<pinged, initial, envelope, expected, found, nScans>>
      /\ sentAt' \in {sentAt, Len(envelope)}
      /\ \/ pc' = "recv" /\ candidates' = candidates
         \/ pc' = "next" /\ candidates' = Tail(candidates)
  BY DEF Send
<1>3. Len(envelope) \in Nat
  BY <1>1, NextSegmentType
<1> QED
  BY <1>1, <1>2, <1>3, CandidateFacts DEF ClientTypes, Found

LEMMA TypesReceive == ASSUME IInv, Receive PROVE ClientTypes'
<1> DEFINE msg == Head(rxq)
<1>1. ClientTypes /\ pc = "recv" /\ candidates # << >> /\ envelope # << >> /\ rxq # << >>
  BY ClientTypesNow DEF IInv, Receive, ClientTypes
<1>2. TypeOK /\ msg.data \in Seq(Byte)
  BY <1>1, HeadFrame, FrameFacts
<1>3. /\ UNCHANGED <<expected, sentAt, found>>
      /\ \/ /\ envelope' = envelope \o msg.data /\ pc' = "run"
            /\ UNCHANGED <<pinged, candidates, initial, nScans>>
         \/ GoOn /\ UNCHANGED envelope
         \/ pc' = "run" /\ UNCHANGED <<envelope, pinged, candidates, initial, nScans>>
  BY DEF Receive
<1> HIDE DEF msg
<1>4. envelope \o msg.data \in Seq(Byte) /\ envelope \o msg.data # << >>
  BY <1>1, <1>2, ConcatProperties, EmptySeq, SMT DEF ClientTypes
<1>5. CASE GoOn /\ UNCHANGED envelope
  BY <1>1, <1>2, <1>3, <1>5, TypesGoOn DEF ClientTypes, Found
<1>6. CASE pc' = "run" /\ UNCHANGED <<pinged, candidates, initial, nScans>>
             /\ envelope' \in {envelope, envelope \o msg.data}
  BY <1>1, <1>3, <1>4, <1>6 DEF ClientTypes, Found
<1> QED
  BY <1>3, <1>5, <1>6

LEMMA TypesTimeout == ASSUME IInv, Timeout PROVE ClientTypes'
<1>1. TypeOK /\ ClientTypes
  BY ClientTypesNow DEF IInv
<1>2. pc \in {"run", "recv"} /\ GoOn /\ UNCHANGED <<envelope, expected, sentAt, found>>
  BY DEF Timeout, download
<1> QED
  BY <1>1, <1>2, TypesGoOn DEF ClientTypes, Found

LEMMA EnvironmentKeeps ==
  ASSUME Environment \/ UNCHANGED vars
  PROVE  UNCHANGED client
BY DEF Environment, Respond, LoseRequest, Update, LoseFrame, Foreign, Other, vars, client

LEMMA FaultsNext ==
  ASSUME TypeOK, [Next]_vars PROVE nFaults' \in 0..MaxFaults /\ seen' \subseteq Faults
<1>1. UNCHANGED faultVars \/ \E kind : Fault(kind)
  BY DEF Next, vars, Begin, Scan, Ping, Collect, CollectTimeout, NextCandidate, Finish,
         Parse, Send, Receive, Timeout, faultVars, Respond, LoseRequest, Update, LoseFrame,
         Foreign, Other
<1>2. CASE UNCHANGED faultVars
  BY <1>2 DEF faultVars, TypeOK
<1>3. ASSUME NEW kind, Fault(kind) PROVE nFaults' \in 0..MaxFaults /\ seen' \subseteq Faults
  <2>1. nFaults' \in 0..MaxFaults
    BY <1>3, ScanAssumption, SMT DEF Fault, TypeOK
  <2>2. seen' \subseteq Faults
    BY <1>3 DEF Fault, TypeOK
  <2> QED
    BY <2>1, <2>2
<1> QED
  BY <1>1, <1>2, <1>3

LEMMA NextCases ==
  ASSUME [Next]_vars
  PROVE  \/ Begin \/ Ping \/ Collect \/ CollectTimeout \/ NextCandidate \/ Finish
         \/ Parse \/ Send \/ Receive \/ Timeout
         \/ Environment \/ UNCHANGED vars
BY DEF Next, Scan, Environment

LEMMA TypeNext == ASSUME IInv, [Next]_vars PROVE TypeOK'
<1>1. ClientTypes'
  <2>1. ClientTypes
    BY ClientTypesNow DEF IInv
  <2>2. CASE CollectTimeout \/ Finish
    BY <2>1, <2>2 DEF CollectTimeout, Finish, download, ClientTypes, Found
  <2>3. CASE Environment \/ UNCHANGED vars
    BY <2>1, <2>3, EnvironmentKeeps DEF client, ClientTypes, Found
  <2> QED
    BY <2>2, <2>3, NextCases, TypesBegin, TypesPing, TypesCollect, TypesNextCandidate,
       TypesParse, TypesSend, TypesReceive, TypesTimeout
<1>2. TypeOK /\ Known
  BY DEF IInv
<1> QED
  BY <1>1, <1>2, Grows, QueuesNext, FaultsNext DEF TypeOK, ClientTypes

-----------------------------------------------------------------------------
(* The candidates and the end of the first half.                           *)

LEMMA CandidatesNext == ASSUME IInv, [Next]_vars PROVE CandidatesOK'
<1>1. TypeOK /\ Known /\ CandidatesOK /\ ClientTypes
  BY ClientTypesNow DEF IInv
<1>2. \A n \in Node : had[n] \subseteq had'[n]
  BY <1>1, Grows
<1>3. Range(candidates) \subseteq Node
  <2>1. candidates \in Seq(Node)
    BY <1>1 DEF ClientTypes
  <2> QED
    BY <2>1, RangeOfSeq
<1>4. ASSUME initial' = initial, Range(candidates') \subseteq Range(candidates)
      PROVE  CandidatesOK'
  BY <1>1, <1>2, <1>3, <1>4 DEF CandidatesOK, Range
<1>5. CASE Begin
  <2>1. candidates' = << >>
    BY <1>5 DEF Begin
  <2> QED
    BY <2>1 DEF CandidatesOK, Range
<1>6. CASE Collect
  <2> DEFINE msg == Head(rxq)
             n == NodeOf(msg.id)
  <2>1. rxq # << >> /\ had' = had
    BY <1>6 DEF Collect
  <2>2. msg \in Frames
    BY <2>1, HeadFrame
  <2>3. \/ UNCHANGED <<candidates, initial>>
        \/ /\ Unpacks(msg) /\ IsSegment(msg) /\ PropertyIndex(msg.id) = 0
           /\ candidates' = candidates \/ candidates' = Append(candidates, n)
           /\ initial' = [initial EXCEPT ![n] = msg.data]
    BY <1>6 DEF Collect
  <2> HIDE DEF msg
  <2>4. CASE /\ Unpacks(msg) /\ IsSegment(msg) /\ PropertyIndex(msg.id) = 0
             /\ candidates' = candidates \/ candidates' = Append(candidates, n)
             /\ initial' = [initial EXCEPT ![n] = msg.data]
    <3>1. n \in Node /\ \E im \in had[n] : msg = SegmentOf(n, im, 0)
      BY <1>1, <2>2, <2>4, FrameFacts
    <3>2. \E im \in had[n] : msg.data = Segment(Envelope(im), 0)
      BY <3>1 DEF SegmentOf, Message
    <3> HIDE DEF n
    <3>3. Range(candidates') \subseteq Range(candidates) \cup {n}
      <4>1. candidates \in Seq(Node)
        BY <1>1 DEF ClientTypes
      <4>2. Range(Append(candidates, n)) = Range(candidates) \cup {n}
        BY <3>1, <4>1, RangeOf
      <4> QED
        BY <2>4, <4>2
    <3>4. \A m \in Node : initial'[m] = IF m = n THEN msg.data ELSE initial[m]
      BY <1>1, <2>4, <3>1 DEF ClientTypes
    <3>5. ASSUME NEW m \in Range(candidates')
          PROVE  \E im \in had[m] : initial'[m] = Segment(Envelope(im), 0)
      BY <1>1, <1>3, <3>1, <3>2, <3>3, <3>4 DEF CandidatesOK
    <3>6. Range(candidates') = Range(candidates)'
      BY DEF Range
    <3> QED
      BY <2>1, <3>5, <3>6 DEF CandidatesOK
  <2> QED
    BY <1>4, <2>3, <2>4
<1>7. ASSUME candidates' = Tail(candidates), candidates # << >>, initial' = initial
      PROVE  CandidatesOK'
  BY <1>1, <1>4, <1>7, CandidateFacts
<1>8. pc \in {"run", "recv"} => candidates # << >>
  BY <1>1 DEF ClientTypes
<1>9. CASE Parse \/ Receive \/ Timeout
  BY <1>4, <1>7, <1>8, <1>9 DEF Parse, Receive, Timeout, GoOn
<1>10. CASE Send
  BY <1>4, <1>7, <1>8, <1>10 DEF Send
<1>11. CASE Ping \/ CollectTimeout \/ NextCandidate \/ Finish
  BY <1>4, <1>11 DEF Ping, CollectTimeout, NextCandidate, Finish
<1>12. CASE Environment \/ UNCHANGED vars
  BY <1>4, <1>12, EnvironmentKeeps DEF client
<1> QED
  BY <1>5, <1>6, <1>9, <1>10, <1>11, <1>12, NextCases

LEMMA PingNext == ASSUME IInv, [Next]_vars PROVE PingOK'
<1>1. CASE Begin
  BY <1>1, SizeType DEF Begin, PingOK
<1>2. CASE Ping
  <2>1. TypeOK /\ pinged < MAX_NODE_ID
    BY <1>2 DEF IInv, PingOK, Ping
  <2>2. /\ pinged' = pinged + 1
        /\ pc' = "ping" => pinged' # MAX_NODE_ID
    BY <1>2 DEF Ping
  <2> QED
    BY <2>1, <2>2, SizeType, SMT DEF PingOK, TypeOK
<1>3. CASE Collect \/ CollectTimeout \/ NextCandidate \/ Finish
  BY <1>3 DEF Collect, CollectTimeout, NextCandidate, Finish, PingOK
<1>4. CASE Parse \/ Send \/ Receive \/ Timeout
  BY <1>4 DEF Parse, Send, Receive, Timeout, GoOn, PingOK
<1>5. CASE Environment \/ UNCHANGED vars
  BY <1>5, EnvironmentKeeps DEF client, IInv, PingOK
<1> QED
  BY <1>1, <1>2, <1>3, <1>4, <1>5, NextCases

(* The first segment of an image that has a full one.                      *)
LEMMA FirstSegment ==
  ASSUME NEW im \in Image
  PROVE  LET data == Segment(Envelope(im), 0)
         IN  /\ data \in Seq(Byte) /\ Len(data) = Lesser(im.size, SEGMENT_SIZE)
             /\ \A i \in 1..Len(data) : data[i] = <<im, i>>
<1> DEFINE data == Segment(Envelope(im), 0)
<1>1. im.size \in Nat /\ SEGMENT_SIZE \in Nat \ {0} /\ 0 \in Nat /\ Offset(0) = 0
  BY EnvelopeFacts, SizeType, OffsetFacts
<1>2. /\ data \in Seq(Byte)
      /\ Len(data) = IF im.size <= Offset(0) THEN 0
                     ELSE Lesser(im.size - Offset(0), SEGMENT_SIZE)
      /\ \A i \in 1..Len(data) : data[i] = <<im, Offset(0) + i>>
  BY <1>1, SegmentFacts
<1>3. (IF im.size <= 0 THEN 0 ELSE Lesser(im.size - 0, SEGMENT_SIZE)) = Lesser(im.size, SEGMENT_SIZE)
  BY <1>1, SMT DEF Lesser
<1> HIDE DEF data
<1>4. Len(data) = Lesser(im.size, SEGMENT_SIZE)
  BY <1>1, <1>2, <1>3
<1>5. ASSUME NEW i \in 1..Len(data) PROVE data[i] = <<im, i>>
  <2>1. 0 + i = i
    BY SMT
  <2> QED
    BY <1>1, <1>2, <2>1
<1> QED
  BY <1>2, <1>4, <1>5 DEF data

\* The reasons there are for an exception.
Reason == "foreign" \in seen \/ \E n \in Node : \E im \in had[n] : im.size < SEGMENT_SIZE

LEMMA RaisedNext == ASSUME IInv, [Next]_vars PROVE RaisedForAReason'
<1>1. TypeOK /\ Known /\ (pc = "raised" => Reason) /\ CandidatesOK
  BY DEF IInv, RaisedForAReason, Reason
<1>2. Reason => Reason'
  BY <1>1, Grows DEF Reason
<1>3. SUFFICES ASSUME pc' = "raised" PROVE Reason
  BY <1>2 DEF RaisedForAReason, Reason
<1>4. CASE Collect
  <2>1. rxq # << >> /\ ~ Unpacks(Head(rxq))
    BY <1>3, <1>4 DEF Collect
  <2> QED
    BY <2>1, HeadFrame, FrameFacts DEF Reason
<1>5. CASE NextCandidate
  <2>1. candidates # << >> /\ Len(initial[Current]) # SEGMENT_SIZE
    BY <1>3, <1>5 DEF NextCandidate
  <2>2. Current \in Node /\ Current \in Range(candidates)
    BY <1>1, <2>1, CandidateFacts
  <2>3. PICK im \in had[Current] : initial[Current] = Segment(Envelope(im), 0)
    BY <1>1, <2>2 DEF CandidatesOK
  <2>4. im \in Image /\ im.size \in Nat
    BY <1>1, <2>2, EnvelopeFacts DEF TypeOK
  <2>5. Lesser(im.size, SEGMENT_SIZE) # SEGMENT_SIZE
    BY <2>1, <2>3, <2>4, FirstSegment
  <2>6. im.size < SEGMENT_SIZE
    BY <2>4, <2>5, SizeType, SMT DEF Lesser
  <2> QED
    BY <2>2, <2>6 DEF Reason
<1>6. CASE Begin \/ Ping \/ CollectTimeout \/ Finish
  BY <1>3, <1>6 DEF Begin, Ping, CollectTimeout, Finish
<1>7. CASE Parse \/ Send \/ Receive \/ Timeout
  BY <1>3, <1>7 DEF Parse, Send, Receive, Timeout, GoOn
<1>8. CASE Environment \/ UNCHANGED vars
  BY <1>1, <1>3, <1>8, EnvironmentKeeps DEF client
<1> QED
  BY <1>4, <1>5, <1>6, <1>7, <1>8, NextCases

-----------------------------------------------------------------------------
(* The download.                                                           *)

LEMMA DownloadKept ==
  ASSUME TypeOK, Known, [Next]_vars, candidates # << >>, Downloading,
         UNCHANGED <<candidates, envelope, expected>>,
         sentAt' = sentAt \/ (sentAt' = Len(envelope) /\ NextSegment \in Segments),
         pc' = "recv" => sentAt' = Len(envelope) /\ Len(envelope) # expected
  PROVE  Downloading'
<1>1. Current \in Node /\ Current' = Current
  BY CandidateFacts DEF Current
<1>2. /\ had[Current] \subseteq had'[Current]
      /\ had'[Current] = {image'[Current]} => Stable(Current) /\ image'[Current] = image[Current]
  BY <1>1, Grows DEF Stable
<1>3. NextSegment' = NextSegment /\ LengthIn(envelope)' = LengthIn(envelope)
  BY DEF NextSegment, LengthIn
<1>4. Len(envelope) \in Nat
  BY NextSegmentType
<1>5. had'[Current] = {image'[Current]} => IsPartOf(envelope, image'[Current])
  BY <1>1, <1>2 DEF Downloading
<1>6. sentAt' <= Len(envelope) /\ (sentAt' = Len(envelope) => NextSegment \in Segments)
  BY <1>4, SMT DEF Downloading
<1> QED
  BY <1>1, <1>2, <1>3, <1>5, <1>6 DEF Downloading, Stable

LEMMA DownloadBegins ==
  ASSUME IInv, NextCandidate, pc' = "run" PROVE Downloading'
<1>1. /\ candidates # << >> /\ Len(initial[Current]) = SEGMENT_SIZE
      /\ envelope' = initial[Current] /\ expected' = LengthIn(initial[Current])
      /\ sentAt' = -1
      /\ UNCHANGED <<image, had, candidates>>
  BY DEF NextCandidate
<1>2. Current \in Node /\ Current \in Range(candidates) /\ Current' = Current
  BY <1>1, CandidateFacts DEF IInv, Current
<1>3. PICK im \in had[Current] : initial[Current] = Segment(Envelope(im), 0)
  BY <1>2 DEF IInv, CandidatesOK
<1>4. im \in Image /\ im.size \in Nat /\ SEGMENT_SIZE \in Nat \ {0}
  BY <1>2, EnvelopeFacts, SizeType DEF IInv, TypeOK
<1>5. /\ Len(envelope') = Lesser(im.size, SEGMENT_SIZE)
      /\ \A i \in 1..Len(envelope') : envelope'[i] = <<im, i>>
  BY <1>1, <1>3, <1>4, FirstSegment
<1>6. Len(envelope') = SEGMENT_SIZE
  BY <1>1
<1>7. envelope'[1][1] = im
  <2>1. 1 \in 1..Len(envelope')
    BY <1>4, <1>6, SMT
  <2> QED
    BY <1>5, <2>1
<1>8. IsPartOf(envelope', im)
  <2>1. Len(envelope') <= im.size
    BY <1>4, <1>5, <1>6, SMT DEF Lesser
  <2> QED
    BY <1>5, <2>1 DEF IsPartOf
<1>9. SEGMENT_SIZE <= Offset(MAX_PROPERTY_INDEX + 1)
  <2>1. 1 \in Nat /\ MAX_PROPERTY_INDEX + 1 \in Nat /\ 1 <= MAX_PROPERTY_INDEX + 1
    BY SizeType, SMT
  <2> QED
    BY <2>1, OffsetFacts
<1>10. NextSegment' = 1
  <2>1. NextSegment' = SEGMENT_SIZE \div SEGMENT_SIZE
    BY <1>6 DEF NextSegment
  <2> QED
    BY <2>1, OffsetFacts
<1>11. Len(envelope') = Offset(1) /\ SEGMENT_SIZE <= Len(envelope')
  BY <1>4, <1>6, OffsetFacts
<1>12. ~ (sentAt' = Len(envelope')) /\ sentAt' <= Len(envelope')
  BY <1>1, <1>4, <1>6, SMT
<1>13. expected' = LengthIn(envelope)'
  BY <1>1 DEF LengthIn
<1>14. had'[Current] = {image'[Current]} => IsPartOf(envelope', image'[Current])
  <2>1. ASSUME had'[Current] = {image'[Current]} PROVE image'[Current] = im
    BY <1>1, <1>3, <2>1
  <2> QED
    BY <1>8, <2>1
<1> QED
  BY <1>1, <1>2, <1>3, <1>6, <1>7, <1>9, <1>10, <1>11, <1>12, <1>13, <1>14
     DEF Downloading, Stable

(* What a segment that fits adds to an envelope.                           *)
LEMMA DownloadGrows ==
  ASSUME IInv, pc = "recv", Receive, Unpacks(Head(rxq)), IsNextSegment(Head(rxq)),
         Fits(Head(rxq).data), envelope' = envelope \o Head(rxq).data, pc' = "run",
         candidates' = candidates
  PROVE  Downloading'
<1> DEFINE msg == Head(rxq)
           data == msg.data
           s == NextSegment
<1>1. /\ rxq # << >> /\ UNCHANGED <<image, had, expected, sentAt>>
  BY DEF Receive
<1>2. TypeOK /\ msg \in Frames /\ Downloading /\ candidates # << >>
  BY <1>1, HeadFrame DEF IInv, DownloadOK, TypeOK
<1>3. Current \in Node /\ Current' = Current
  BY <1>2, CandidateFacts DEF Current
<1>4. /\ NodeOf(msg.id) = Current /\ PropertyIndex(msg.id) = s /\ IsSegment(msg)
  BY DEF IsNextSegment
<1>5. PICK im \in had[Current] : msg = SegmentOf(Current, im, s)
  BY <1>2, <1>4, FrameFacts
<1>6. data = Segment(Envelope(im), s) /\ data \in Seq(Byte) /\ envelope \in Seq(Byte)
  BY <1>2, <1>5, FrameFacts DEF SegmentOf, Message, TypeOK
<1>7. s \in Nat /\ s <= MAX_PROPERTY_INDEX /\ s \in Segments
  <2>1. s \in Segments
    BY <1>2 DEF Downloading
  <2> QED
    BY <2>1, SizeType, SMT DEF Segments
<1>8. im \in Image /\ im.size \in Nat /\ SEGMENT_SIZE \in Nat \ {0} /\ Offset(s) \in Nat
  BY <1>2, <1>3, <1>7, EnvelopeFacts, SizeType, OffsetFacts DEF TypeOK
<1>9. /\ Len(data) = IF im.size <= Offset(s) THEN 0
                     ELSE Lesser(im.size - Offset(s), SEGMENT_SIZE)
      /\ \A i \in 1..Len(data) : data[i] = <<im, Offset(s) + i>>
  BY <1>6, <1>7, <1>8, SegmentFacts
<1>10. /\ Len(envelope) = Offset(s) /\ sentAt = Len(envelope)
       /\ SEGMENT_SIZE <= Len(envelope) /\ envelope[1][1] \in had[Current]
       /\ expected = LengthIn(envelope)
       /\ Stable(Current) => IsPartOf(envelope, image[Current])
  BY <1>2 DEF Downloading
<1>11. /\ data # << >>
       /\ Len(envelope) + Len(data) < expected => Len(data) = SEGMENT_SIZE
       /\ Len(envelope) + Len(data) <= expected
  BY DEF Fits
<1>12. expected \in Nat \cup {-1} /\ Len(data) \in Nat \ {0}
  BY <1>2, <1>6, <1>11, EmptySeq DEF TypeOK
<1> HIDE DEF data, msg, s
<1>13. /\ Len(data) <= SEGMENT_SIZE /\ Offset(s) + Len(data) <= im.size
  <2>1. ~ (im.size <= Offset(s))
    BY <1>9, <1>12, SMT
  <2>2. Len(data) = Lesser(im.size - Offset(s), SEGMENT_SIZE)
    BY <1>9, <2>1
  <2> QED
    BY <1>8, <2>1, <2>2, SMT DEF Lesser
<1>14. /\ Len(envelope') = Offset(s) + Len(data)
       /\ \A i \in 1..Len(envelope') :
            envelope'[i] = IF i <= Offset(s) THEN envelope[i] ELSE data[i - Offset(s)]
  <2>1. envelope' = envelope \o data
    BY DEF data, msg
  <2>2. /\ Len(envelope \o data) = Len(envelope) + Len(data)
        /\ \A i \in 1..Len(envelope) + Len(data) : (envelope \o data)[i]
                = IF i <= Len(envelope) THEN envelope[i] ELSE data[i - Len(envelope)]
    BY <1>6, ConcatProperties
  <2> QED
    BY <1>10, <2>1, <2>2
<1>15. 1 \in 1..Len(envelope') /\ 1 <= Offset(s)
  BY <1>8, <1>10, <1>12, <1>14, SMT
<1>16. envelope'[1] = envelope[1]
  BY <1>14, <1>15
<1>17. expected' = LengthIn(envelope)'
  BY <1>1, <1>10, <1>16 DEF LengthIn
<1>18. /\ Len(envelope') <= Offset(MAX_PROPERTY_INDEX + 1)
       /\ SEGMENT_SIZE <= Len(envelope') /\ sentAt' < Len(envelope')
       /\ sentAt' <= Len(envelope') /\ ~ (sentAt' = Len(envelope'))
  <2>1. s + 1 \in Nat /\ MAX_PROPERTY_INDEX + 1 \in Nat /\ s + 1 <= MAX_PROPERTY_INDEX + 1
    BY <1>7, SizeType, SMT
  <2>2. Offset(s + 1) <= Offset(MAX_PROPERTY_INDEX + 1) /\ Offset(s + 1) = Offset(s) + SEGMENT_SIZE
        /\ Offset(MAX_PROPERTY_INDEX + 1) \in Nat
    BY <1>7, <2>1, OffsetFacts
  <2> QED
    BY <1>1, <1>8, <1>10, <1>12, <1>13, <1>14, <2>2, SMT
<1>19. Len(envelope') # expected' => Len(envelope') = Offset(NextSegment')
  <2>1. SUFFICES ASSUME Len(envelope') # expected' PROVE Len(envelope') = Offset(NextSegment')
    OBVIOUS
  <2>2. Len(data) = SEGMENT_SIZE
    BY <1>1, <1>8, <1>10, <1>11, <1>12, <1>14, <2>1, SMT
  <2>3. Len(envelope') = Offset(s + 1) /\ s + 1 \in Nat
    BY <1>7, <1>14, <2>2, OffsetFacts, SMT
  <2>4. NextSegment' = s + 1
    BY <2>3, OffsetFacts DEF NextSegment
  <2> QED
    BY <2>3, <2>4
<1>20. had'[Current] = {image'[Current]} => IsPartOf(envelope', image'[Current])
  <2>1. SUFFICES ASSUME had'[Current] = {image'[Current]}
                 PROVE  IsPartOf(envelope', image'[Current])
    OBVIOUS
  <2>2. image'[Current] = im /\ IsPartOf(envelope, im)
    BY <1>1, <1>5, <1>10, <2>1 DEF Stable
  <2>3. ASSUME NEW i \in 1..Len(envelope') PROVE envelope'[i] = <<im, i>>
    <3>1. CASE i <= Offset(s)
      <4>1. i \in 1..Len(envelope)
        BY <1>8, <1>10, <3>1, SMT
      <4> QED
        BY <1>14, <2>2, <3>1, <4>1 DEF IsPartOf
    <3>2. CASE ~ (i <= Offset(s))
      <4>1. i - Offset(s) \in 1..Len(data) /\ Offset(s) + (i - Offset(s)) = i
        BY <1>8, <1>12, <1>14, <3>2, SMT
      <4> QED
        BY <1>9, <1>14, <3>2, <4>1
    <3> QED
      BY <3>1, <3>2
  <2> QED
    BY <1>13, <1>14, <2>2, <2>3 DEF IsPartOf
<1> QED
  BY <1>1, <1>3, <1>10, <1>16, <1>17, <1>18, <1>19, <1>20 DEF Downloading, Stable

LEMMA DownloadNext == ASSUME IInv, [Next]_vars PROVE DownloadOK'
<1>1. TypeOK /\ Known /\ (pc \in {"run", "recv"} => Downloading /\ candidates # << >>)
  BY DEF IInv, DownloadOK, TypeOK
<1>2. SUFFICES ASSUME pc' \in {"run", "recv"} PROVE Downloading'
  BY DEF DownloadOK
<1>3. CASE NextCandidate
  <2>1. pc' = "run"
    BY <1>2, <1>3 DEF NextCandidate
  <2> QED
    BY <1>3, <2>1, DownloadBegins
<1>4. CASE Send
  <2>1. /\ pc = "run" /\ pc' = "recv" /\ Len(envelope) # expected
        /\ UNCHANGED <<candidates, envelope, expected>>
        /\ \/ sentAt = Len(envelope) /\ sentAt' = sentAt
           \/ /\ sentAt' = Len(envelope)
              /\ ClientCanMake(Current, READ_MANIFEST, NextSegment)
    BY <1>2, <1>4 DEF Send
  <2> QED
    BY <1>1, <2>1, NextSegmentType, DownloadKept
<1>5. CASE Receive
  <2>1. /\ pc = "recv" /\ pc' = "run" /\ candidates' = candidates /\ UNCHANGED <<expected, sentAt>>
        /\ \/ /\ Unpacks(Head(rxq)) /\ IsNextSegment(Head(rxq)) /\ Fits(Head(rxq).data)
              /\ envelope' = envelope \o Head(rxq).data
           \/ envelope' = envelope
    BY <1>2, <1>5 DEF Receive, GoOn
  <2> QED
    BY <1>1, <1>5, <2>1, DownloadGrows, DownloadKept
<1>6. CASE Begin \/ Ping \/ Collect \/ CollectTimeout \/ Finish \/ Parse \/ Timeout
  BY <1>2, <1>6 DEF Begin, Ping, Collect, CollectTimeout, Finish, Parse, Timeout, GoOn
<1>7. CASE Environment \/ UNCHANGED vars
  <2>1. UNCHANGED <<pc, candidates, envelope, expected, sentAt>>
    BY <1>7, EnvironmentKeeps DEF client
  <2>2. pc = "recv" => sentAt = Len(envelope) /\ Len(envelope) # expected
    BY <1>1 DEF Downloading
  <2> QED
    BY <1>1, <1>2, <2>1, <2>2, DownloadKept
<1> QED
  BY <1>3, <1>4, <1>5, <1>6, <1>7, NextCases

-----------------------------------------------------------------------------
(* What is found.                                                          *)

LEMMA FoundNext == ASSUME IInv, [Next]_vars PROVE FoundOK'
<1>1. TypeOK /\ Known /\ FoundOK /\ Found \subseteq Node
  BY DEF IInv, TypeOK
<1>2. \A n \in Node : had[n] \subseteq had'[n]
  BY <1>1, Grows
<1>3. ASSUME found' = found PROVE FoundOK'
  BY <1>1, <1>2, <1>3 DEF FoundOK, Found
<1>4. CASE Begin
  <2>1. DOMAIN found' = {}
    BY <1>4 DEF Begin
  <2> QED
    BY <2>1 DEF FoundOK, Found
<1>5. CASE Parse
  <2>1. /\ pc = "run" /\ had' = had
        /\ \/ found' = found
           \/ /\ Parses(envelope)
              /\ found' = [n \in Found \cup {Current} |->
                             IF n = Current THEN envelope ELSE found[n]]
    BY <1>5 DEF Parse
  <2>2. Downloading
    BY <2>1 DEF IInv, DownloadOK
  <2> DEFINE im == envelope[1][1]
  <2>3. CASE /\ Parses(envelope)
             /\ found' = [n \in Found \cup {Current} |->
                            IF n = Current THEN envelope ELSE found[n]]
    <3>1. im \in had[Current] /\ Current \in Node
      BY <1>1, <2>1, <2>2, CandidateFacts DEF Downloading, TypeOK
    <3>2. im \in Image /\ im.size \in Nat
      BY <1>1, <3>1, EnvelopeFacts DEF TypeOK
    <3>3. envelope = Envelope(im) /\ Len(envelope) = HEADER_LENGTH + im.claims /\ im.sound
      BY <2>3 DEF Parses
    <3>4. Len(envelope) = im.size
      BY <3>2, <3>3, EnvelopeFacts
    <3>5. SEGMENT_SIZE <= Len(envelope) /\ Len(envelope) <= Offset(MAX_PROPERTY_INDEX + 1)
      BY <2>2 DEF Downloading
    <3> HIDE DEF im
    <3>6. Downloadable(im)
      BY <3>3, <3>4, <3>5 DEF Downloadable, Offset
    <3>7. \A n \in Found' : /\ n \in Found \cup {Current}
                            /\ found'[n] = IF n = Current THEN envelope ELSE found[n]
      BY <2>3 DEF Found
    <3> QED
      BY <1>1, <2>1, <3>1, <3>3, <3>6, <3>7 DEF FoundOK
  <2> QED
    BY <1>3, <2>1, <2>3
<1>6. CASE Ping \/ Collect \/ CollectTimeout \/ NextCandidate \/ Finish
  BY <1>3, <1>6 DEF Ping, Collect, CollectTimeout, NextCandidate, Finish
<1>7. CASE Send \/ Receive \/ Timeout
  BY <1>3, <1>7 DEF Send, Receive, Timeout
<1>8. CASE Environment \/ UNCHANGED vars
  BY <1>3, <1>8, EnvironmentKeeps DEF client
<1> QED
  BY <1>4, <1>5, <1>6, <1>7, <1>8, NextCases

-----------------------------------------------------------------------------
LEMMA InitIInv == Init => IInv
<1> SUFFICES ASSUME Init PROVE IInv
  OBVIOUS
<1>1. TypeOK
  <2>1. 0 \in 0..MAX_NODE_ID /\ 0 \in 0..MaxScans /\ 0 \in 0..MaxFaults
    BY SizeType, ScanAssumption, SMT
  <2>2. /\ devq \in [Node -> Seq(Msg)] /\ rxq \in Seq(Msg) /\ candidates \in Seq(Node)
        /\ initial \in [Node -> Seq(Byte)] /\ envelope \in Seq(Byte)
    BY EmptySeq DEF Init
  <2>3. Found = {} /\ -1 \in Nat \cup {-1}
    BY DEF Init, Found
  <2> QED
    BY <2>1, <2>2, <2>3, ScanAssumption DEF Init, TypeOK
<1>2. QueuesOK
  BY EmptySeq DEF Init, QueuesOK
<1>3. CandidatesOK /\ FoundOK
  BY DEF Init, CandidatesOK, FoundOK, Found, Range
<1> QED
  BY <1>1, <1>2, <1>3 DEF Init, IInv, Known, DownloadOK, PingOK, RaisedForAReason

LEMMA NextIInv == IInv /\ [Next]_vars => IInv'
<1> SUFFICES ASSUME IInv, [Next]_vars PROVE IInv'
  OBVIOUS
<1>1. Known'
  BY Grows DEF IInv, Known
<1> QED
  BY <1>1, TypeNext, QueuesNext, CandidatesNext, DownloadNext, FoundNext, PingNext,
     RaisedNext DEF IInv

LEMMA Invariance == Spec => []IInv
BY InitIInv, NextIInv, PTL DEF Spec

-----------------------------------------------------------------------------
(* The scan's state is well formed, whatever is lost, late, foreign or     *)
(* asked by others: no node id above the last is asked (enumerate_nodes),  *)
(* and a download always has a node and a first segment.                   *)
THEOREM TypeCorrect == Spec => []TypeOK
<1>1. IInv => TypeOK
  BY DEF IInv
<1> QED
  BY Invariance, <1>1, PTL

(* enumerate_nodes reports a manifest only if the device has had exactly   *)
(* that one: the first segment and the rest, which are asked for at        *)
(* different times, are never put together from two.                       *)
THEOREM ManifestsAreGenuine == Spec => []FoundIsGenuine
<1>1. IInv => FoundIsGenuine
  BY DEF IInv, FoundOK, FoundIsGenuine, Downloadable
<1> QED
  BY Invariance, <1>1, PTL

LEMMA PartIsPrefix ==
  ASSUME NEW im \in Image, NEW part \in Seq(Byte), IsPartOf(part, im)
  PROVE  Len(part) <= Len(Envelope(im)) /\ part = SubSeq(Envelope(im), 1, Len(part))
<1> DEFINE n == Len(part)
           start == SubSeq(Envelope(im), 1, n)
<1>1. n \in Nat /\ n <= im.size /\ im.size \in Nat /\ Len(Envelope(im)) = im.size
      /\ \A i \in 1..n : part[i] = <<im, i>>
  BY EnvelopeFacts, LenProperties DEF IsPartOf
<1>2. \A i \in 1..n : i \in 1..im.size /\ i \in Nat \ {0}
  BY <1>1, SMT
<1>3. \A i \in 1..n : Envelope(im)[i] \in Byte /\ Envelope(im)[i] = <<im, i>>
  BY <1>2, EnvelopeFacts
<1> HIDE DEF n
<1>4. /\ start \in Seq(Byte) /\ Len(start) = IF 1 <= n THEN n - 1 + 1 ELSE 0
      /\ \A i \in 1..(n - 1 + 1) : start[i] = Envelope(im)[1 + i - 1]
  BY <1>1, <1>3, SubSeqProperties, SMT
<1> HIDE DEF start
<1>5. Len(start) = n /\ \A i \in 1..n : start[i] = Envelope(im)[i]
  <2>1. /\ (IF 1 <= n THEN n - 1 + 1 ELSE 0) = n
        /\ \A i \in 1..n : i \in 1..(n - 1 + 1) /\ 1 + i - 1 = i
    BY <1>1, SMT
  <2> QED
    BY <1>4, <2>1
<1>6. start = part
  BY <1>1, <1>3, <1>4, <1>5, SeqEqual DEF n
<1> QED
  BY <1>1, <1>6 DEF n, start

(* What a ManifestDownload has so far is the beginning of the device's     *)
(* manifest, as long as the device has never changed its firmware:         *)
(* duplicates, segments other clients asked for and late ones of an        *)
(* earlier download do not get into it (frame_received).                   *)
THEOREM DownloadsArePrefixes == Spec => []DownloadIsPrefix
<1>1. IInv => DownloadIsPrefix
  <2> SUFFICES ASSUME IInv, pc \in {"run", "recv"}, had[Current] = {image[Current]}
               PROVE  LET whole == Envelope(image[Current])
                      IN  /\ Len(envelope) <= Len(whole)
                          /\ envelope = SubSeq(whole, 1, Len(envelope))
    BY DEF DownloadIsPrefix
  <2>1. TypeOK /\ Downloading /\ candidates # << >>
    BY DEF IInv, DownloadOK, TypeOK
  <2>2. Current \in Node /\ image[Current] \in Image /\ envelope \in Seq(Byte)
    BY <2>1, CandidateFacts DEF TypeOK
  <2>3. IsPartOf(envelope, image[Current])
    BY <2>1 DEF Downloading, Stable
  <2> QED
    BY <2>2, <2>3, PartIsPrefix
<1> QED
  BY Invariance, <1>1, PTL

(* No exception leaves enumerate_nodes but for a frame of another protocol *)
(* or a device whose first segment is not full.                            *)
THEOREM RaisesOnlyForAReason == Spec => []RaisedForAReason
<1>1. IInv => RaisedForAReason
  BY DEF IInv
<1> QED
  BY Invariance, <1>1, PTL

-----------------------------------------------------------------------------
(* Nothing is missed: as long as nothing is lost, late or foreign, what    *)
(* the client waits for is on its way.                                     *)

Undisturbed == seen \subseteq {"other"}

\* The response of device n to a request for segment s is to come, whoever
\* asked for it.
Coming(n, s) ==
  \/ ReadManifestRequest(n, s) \in Range(devq[n])
  \/ SegmentOf(n, image[n], s) \in Range(rxq)

AllAwaited ==
  pc \in {"ping", "collect"} =>
    \A n \in Node :
      (pc = "ping" => n < pinged) => n \in Range(candidates) \/ Coming(n, 0)

NoneMissed ==
  pc \in {"next", "run", "recv", "done"} =>
    \A n \in Node : Downloadable(image[n]) => n \in Range(candidates) \cup Found

SegmentComing ==
  pc \in {"run", "recv"} /\ sentAt = Len(envelope) /\ Len(envelope) # expected =>
    Coming(Current, NextSegment)

DoneEmpty == pc = "done" => candidates = << >>

CompleteInv ==
  Undisturbed =>
    (\A n \in Node : Stable(n)) /\ AllAwaited /\ NoneMissed /\ SegmentComing /\ DoneEmpty

LEMMA UndisturbedStep ==
  ASSUME IInv, [Next]_vars, Undisturbed'
  PROVE  /\ Undisturbed /\ UNCHANGED <<image, had>>
         /\ ~ Fault("late") /\ ~ LoseFrame
         /\ \A n \in Node : ~ LoseRequest(n) /\ ~ Update(n)
         /\ \A id \in ForeignIds : ~ Foreign(id)
<1>1. seen \subseteq seen'
  BY Grows DEF IInv
<1>2. /\ ~ Fault("late") /\ ~ LoseFrame
      /\ \A n \in Node : ~ LoseRequest(n) /\ ~ Update(n)
      /\ \A id \in ForeignIds : ~ Foreign(id)
  BY DEF Undisturbed, Fault, LoseFrame, LoseRequest, Update, Foreign
<1>3. UNCHANGED <<image, had>>
  BY <1>2 DEF Next, vars, Begin, Scan, Ping, Collect, CollectTimeout, NextCandidate, Finish,
         Parse, Send, Receive, Timeout, Respond, Other
<1> QED
  BY <1>1, <1>2, <1>3 DEF Undisturbed

LEMMA SameRequest ==
  ASSUME NEW n \in Node, NEW s \in Segments, NEW t \in Segments,
         ReadManifestRequest(n, s) = ReadManifestRequest(n, t)
  PROVE  s = t
<1>1. /\ PropertyIndex(ReadManifestRequest(n, s).id) = s
      /\ PropertyIndex(ReadManifestRequest(n, t).id) = t
  BY SegmentIds
<1> QED
  BY <1>1

(* It stays on its way until the client takes it from the queue.           *)
LEMMA ComingNext ==
  ASSUME IInv, [Next]_vars, Undisturbed', NEW n \in Node, NEW s \in Segments, Coming(n, s),
         rxq # << >> /\ rxq' = Tail(rxq) => Head(rxq) # SegmentOf(n, image[n], s)
  PROVE  Coming(n, s)'
<1>1. TypeOK /\ QueuesOK /\ image' = image
  BY UndisturbedStep DEF IInv
<1>2. devq \in [Node -> Seq(Msg)] /\ rxq \in Seq(Msg) /\ rxq' \in Seq(Msg)
  BY <1>1, QueuesNext DEF TypeOK
<1>3. Range(rxq') = Range(rxq)' /\ Range(devq'[n]) = Range(devq[n])'
  BY DEF Range
<1>4. CASE SegmentOf(n, image[n], s) \in Range(rxq)
  <2>1. CASE rxq # << >> /\ rxq' = Tail(rxq)
    <3>1. Head(rxq) \in Msg
      BY <1>2, <2>1, HeadTailProperties
    <3>2. Range(rxq) = Range(Tail(rxq)) \cup {Head(rxq)}
      BY <1>2, <2>1, <3>1, RangeOf
    <3> QED
      BY <1>1, <1>3, <1>4, <2>1, <3>2 DEF Coming
  <2>2. ASSUME NEW msg \in Frames', rxq' = rxq \o <<msg>> PROVE Coming(n, s)'
    <3>1. msg \in Msg
      BY DEF Frames
    <3>2. Range(Append(rxq, msg)) = Range(rxq) \cup {msg} /\ rxq \o <<msg>> = Append(rxq, msg)
      BY <1>2, <3>1, RangeOf
    <3> QED
      BY <1>1, <1>3, <1>4, <2>2, <3>2 DEF Coming
  <2> QED
    BY <1>1, <1>4, <2>1, <2>2, ClientQueueNext DEF ClientQueueSteps, Coming
<1>5. CASE ReadManifestRequest(n, s) \in Range(devq[n])
  <2>1. ASSUME NEW m \in Nat, NEW t \in Segments, Sent(m, t)
        PROVE  Range(devq[n]) \subseteq Range(devq'[n])
    <3>1. devq'[n] = IF n = m THEN Append(devq[n], ReadManifestRequest(m, t)) ELSE devq[n]
      BY <2>1 DEF Sent
    <3>2. CASE n = m
      <4>1. ReadManifestRequest(m, t) \in Msg /\ devq[n] \in Seq(Msg)
        BY <1>1, <1>2, <3>2, FrameType
      <4>2. Range(Append(devq[n], ReadManifestRequest(m, t)))
              = Range(devq[n]) \cup {ReadManifestRequest(m, t)}
        BY <4>1, RangeOf
      <4> QED
        BY <3>1, <3>2, <4>2
    <3> QED
      BY <3>1, <3>2
  <2>2. ASSUME NEW m \in Node, Respond(m) PROVE Coming(n, s)'
    <3>1. devq[m] # << >> /\ devq' = [devq EXCEPT ![m] = Tail(@)]
      BY <2>2 DEF Respond
    <3>2. CASE m # n
      <4>1. devq'[n] = devq[n]
        BY <1>2, <3>1, <3>2
      <4> QED
        BY <1>3, <1>5, <4>1 DEF Coming
    <3>3. CASE m = n
      <4>1. Head(devq[n]) \in Msg /\ devq[n] \in Seq(Msg) /\ devq[n] # << >>
        BY <1>2, <3>1, <3>3, HeadTailProperties
      <4>2. Range(devq[n]) = Range(Tail(devq[n])) \cup {Head(devq[n])}
            /\ devq'[n] = Tail(devq[n])
        BY <1>2, <3>1, <3>3, <4>1, RangeOf
      <4>3. PICK t \in Segments : /\ Head(devq[n]) = ReadManifestRequest(n, t)
                                  /\ SegmentOf(n, image[n], t) \in Frames
                                  /\ rxq' = rxq \o <<SegmentOf(n, image[n], t)>>
        BY <2>2, <3>3, RespondFacts
      <4>4. CASE s # t
        <5>1. ReadManifestRequest(n, s) # Head(devq[n])
          BY <4>3, <4>4, SameRequest
        <5> QED
          BY <1>3, <1>5, <4>2, <5>1 DEF Coming
      <4>5. CASE s = t
        <5>1. SegmentOf(n, image[n], s) \in Msg
          BY <4>3, <4>5 DEF Frames
        <5>2. /\ Range(Append(rxq, SegmentOf(n, image[n], s)))
                   = Range(rxq) \cup {SegmentOf(n, image[n], s)}
              /\ rxq \o <<SegmentOf(n, image[n], s)>> = Append(rxq, SegmentOf(n, image[n], s))
          BY <1>2, <5>1, RangeOf
        <5>3. SegmentOf(n, image[n], s) \in Range(rxq')
          BY <4>3, <4>5, <5>2
        <5> QED
          BY <1>1, <1>3, <5>3 DEF Coming
      <4> QED
        BY <4>4, <4>5
    <3> QED
      BY <3>2, <3>3
  <2>3. ASSUME Range(devq[n]) \subseteq Range(devq'[n]) PROVE Coming(n, s)'
    BY <1>3, <1>5, <2>3 DEF Coming
  <2>4. CASE devq' = devq
    BY <2>3, <2>4
  <2>5. CASE Ping \/ Send \/ \E m \in Node, t \in 0..MAX_PROPERTY_INDEX : Other(m, t)
    <3>1. devq' = devq \/ \E m \in Nat, t \in Segments : Sent(m, t)
      <4>1. CASE Ping
        <5>1. pinged \in Nat /\ 0 \in Segments
          BY <1>1, SizeType, SMT DEF TypeOK
        <5> QED
          BY <4>1, <5>1 DEF Ping
      <4>2. CASE Send
        <5>1. \/ devq' = devq
              \/ Sent(Current, NextSegment) /\ ClientCanMake(Current, READ_MANIFEST, NextSegment)
          BY <4>2 DEF Send
        <5>2. ClientCanMake(Current, READ_MANIFEST, NextSegment) =>
                Current \in Nat /\ NextSegment \in Segments
          BY <1>1, NextSegmentType, SMT DEF ClientCanMake, NodeIds
        <5> QED
          BY <5>1, <5>2
      <4>3. ASSUME NEW m \in Node, NEW t \in 0..MAX_PROPERTY_INDEX, Other(m, t)
            PROVE  \E d \in Nat, r \in Segments : Sent(d, r)
        BY <4>3, NodeRange DEF Other, Segments
      <4> QED
        BY <2>5, <4>1, <4>2, <4>3
    <3> QED
      BY <2>1, <2>3, <2>4, <3>1
  <2>6. CASE Begin \/ Collect \/ CollectTimeout \/ NextCandidate \/ Finish
    BY <2>4, <2>6 DEF Begin, Collect, CollectTimeout, NextCandidate, Finish
  <2>7. CASE Parse \/ Receive \/ Timeout \/ UNCHANGED vars
    BY <2>4, <2>7 DEF Parse, Receive, Timeout, vars
  <2> QED
    BY <2>2, <2>5, <2>6, <2>7, UndisturbedStep DEF Next, Scan
<1> QED
  BY <1>4, <1>5 DEF Coming

LEMMA SegmentUnpacks ==
  ASSUME NEW n \in Node, NEW s \in Segments, NEW im
  PROVE  LET msg == SegmentOf(n, im, s)
         IN  /\ Unpacks(msg) /\ IsSegment(msg)
             /\ NodeOf(msg.id) = n /\ PropertyIndex(msg.id) = s
<1> DEFINE msg == SegmentOf(n, im, s)
<1>1. msg.id = MakeId(DEVICE_TO_CLIENT, n, READ_MANIFEST, s)
  BY DEF SegmentOf, Message
<1> HIDE DEF msg
<1>2. Unpacks(msg) /\ IsSegment(msg) /\ NodeOf(msg.id) = n /\ PropertyIndex(msg.id) = s
  BY <1>1, SegmentIds DEF Unpacks, IsSegment, Opcode
<1> QED
  BY <1>2 DEF msg

(* Only the client takes frames from its queue.                            *)
LEMMA ComingStays ==
  ASSUME IInv, [Next]_vars, Undisturbed', rxq' = rxq \/ Environment \/ UNCHANGED vars,
         NEW n \in Node, NEW s \in Segments, Coming(n, s)
  PROVE  Coming(n, s)'
<1>1. TypeOK /\ rxq \in Seq(Msg)
  BY DEF IInv, TypeOK
<1>2. rxq' = rxq \/ \E msg \in Msg : rxq' = Append(rxq, msg)
  <2>1. ASSUME NEW m \in Node, Respond(m)
        PROVE  \E msg \in Msg : rxq' = Append(rxq, msg)
    <3>1. PICK t \in Segments : /\ SegmentOf(m, image[m], t) \in Frames
                                /\ rxq' = rxq \o <<SegmentOf(m, image[m], t)>>
      BY <2>1, RespondFacts
    <3>2. SegmentOf(m, image[m], t) \in Msg
      BY <3>1 DEF Frames
    <3> QED
      BY <1>1, <3>1, <3>2, RangeOf
  <2>2. ASSUME NEW m \in Node, NEW t \in 0..MAX_PROPERTY_INDEX, Other(m, t)
        PROVE  \E msg \in Msg : rxq' = Append(rxq, msg)
    BY <1>1, <2>2, FrameType DEF Other, Segments
  <2> QED
    BY <2>1, <2>2, UndisturbedStep DEF Environment, vars
<1>3. ~ (rxq # << >> /\ rxq' = Tail(rxq))
  <2>1. rxq # << >> => Len(Tail(rxq)) = Len(rxq) - 1
    BY <1>1, HeadTailProperties
  <2>2. Len(rxq') = Len(rxq) \/ Len(rxq') = Len(rxq) + 1
    BY <1>1, <1>2, AppendProperties
  <2>3. Len(rxq) \in Nat
    BY <1>1, LenProperties
  <2> QED
    BY <2>1, <2>2, <2>3, SMT
<1> QED
  BY <1>3, ComingNext

LEMMA RequestComing ==
  ASSUME TypeOK, NEW n \in Node, NEW s \in Segments, Sent(n, s)
  PROVE  Coming(n, s)'
<1>1. devq'[n] = Append(devq[n], ReadManifestRequest(n, s))
  BY DEF Sent
<1>2. devq[n] \in Seq(Msg) /\ ReadManifestRequest(n, s) \in Msg
  BY FrameType DEF TypeOK
<1>3. Range(Append(devq[n], ReadManifestRequest(n, s)))
        = Range(devq[n]) \cup {ReadManifestRequest(n, s)}
  BY <1>2, RangeOf
<1>4. Range(devq'[n]) = Range(devq[n])'
  BY DEF Range
<1> QED
  BY <1>1, <1>3, <1>4 DEF Coming

LEMMA QuietNothingComing ==
  ASSUME Quiet, NEW n \in Node, NEW s PROVE ~ Coming(n, s)
<1>1. Range(<< >>) = {}
  BY DEF Range
<1> QED
  BY <1>1 DEF Quiet, Coming

LEMMA AwaitedNext ==
  ASSUME IInv, AllAwaited, [Next]_vars, Undisturbed'
  PROVE  AllAwaited'
<1>1. TypeOK /\ candidates \in Seq(Node)
  BY DEF IInv, TypeOK
<1>2. SUFFICES ASSUME pc' \in {"ping", "collect"}, NEW n \in Node,
                      pc' = "ping" => n < pinged'
               PROVE  n \in Range(candidates)' \/ Coming(n, 0)'
  BY DEF AllAwaited
<1>3. 0 \in Segments /\ n \in Nat /\ n < MAX_NODE_ID
  BY SizeType, NodeRange
<1>4. Range(candidates') = Range(candidates)'
  BY DEF Range
<1>5. CASE Begin
  <2>1. pc' = "ping" /\ pinged' = 0
    BY <1>5 DEF Begin
  <2> QED
    BY <1>2, <1>3, <2>1, SMT
<1>6. CASE Ping
  <2>1. /\ pc = "ping" /\ Sent(pinged, 0) /\ pinged' = pinged + 1
        /\ pc' = IF pinged' = MAX_NODE_ID THEN "collect" ELSE "ping"
        /\ candidates' = candidates /\ rxq' = rxq
    BY <1>6 DEF Ping
  <2>2. n < pinged + 1
    BY <1>2, <1>3, <2>1
  <2>3. n < pinged \/ n = pinged
    BY <1>1, <1>3, <2>2, SMT DEF TypeOK
  <2>4. CASE n < pinged
    BY <1>3, <1>4, <2>1, <2>4, ComingStays DEF AllAwaited
  <2>5. CASE n = pinged
    BY <1>1, <1>3, <2>1, <2>5, RequestComing
  <2> QED
    BY <2>3, <2>4, <2>5
<1>7. CASE Collect
  <2> DEFINE msg == Head(rxq)
  <2>1. /\ pc = "collect" /\ rxq # << >> /\ pc' = "collect"
        /\ \/ UNCHANGED candidates /\ ~ (Unpacks(msg) /\ IsSegment(msg) /\ PropertyIndex(msg.id) = 0)
           \/ candidates' = IF \E i \in DOMAIN candidates : candidates[i] = NodeOf(msg.id)
                            THEN candidates ELSE Append(candidates, NodeOf(msg.id))
    BY <1>2, <1>7 DEF Collect
  <2>2. msg \in Frames
    BY <2>1, HeadFrame
  <2> HIDE DEF msg
  <2>3. NodeOf(msg.id) \in Node =>
          Range(Append(candidates, NodeOf(msg.id))) = Range(candidates) \cup {NodeOf(msg.id)}
    BY <1>1, RangeOf
  <2>4. n \in Range(candidates) \/ Coming(n, 0)
    BY <2>1 DEF AllAwaited
  <2>5. CASE msg = SegmentOf(n, image[n], 0)
    <3>1. Unpacks(msg) /\ IsSegment(msg) /\ NodeOf(msg.id) = n /\ PropertyIndex(msg.id) = 0
      BY <1>3, <2>5, SegmentUnpacks
    <3>2. n \in Range(candidates')
      BY <2>1, <2>3, <3>1 DEF Range
    <3> QED
      BY <1>4, <3>2
  <2>6. CASE msg # SegmentOf(n, image[n], 0) /\ Coming(n, 0)
    BY <1>3, <2>6, ComingNext DEF msg
  <2>7. CASE n \in Range(candidates)
    <3>1. CASE UNCHANGED candidates
      BY <1>4, <2>7, <3>1
    <3>2. CASE candidates' = Append(candidates, NodeOf(msg.id))
      <4>1. /\ DOMAIN Append(candidates, NodeOf(msg.id)) = 1..(Len(candidates) + 1)
            /\ DOMAIN candidates = 1..Len(candidates)
            /\ \A i \in 1..Len(candidates) : Append(candidates, NodeOf(msg.id))[i] = candidates[i]
        BY <1>1, SMT
      <4>2. Len(candidates) \in Nat
        BY <1>1, LenProperties
      <4>3. \A i \in 1..Len(candidates) : i \in 1..(Len(candidates) + 1)
        BY <4>2, SMT
      <4> QED
        BY <1>4, <2>7, <3>2, <4>1, <4>3 DEF Range
    <3> QED
      BY <2>1, <3>1, <3>2
  <2> QED
    BY <2>4, <2>5, <2>6, <2>7
<1>8. CASE CollectTimeout \/ NextCandidate \/ Finish
  BY <1>2, <1>8 DEF CollectTimeout, NextCandidate, Finish
<1>9. CASE Parse \/ Send \/ Receive \/ Timeout
  BY <1>2, <1>9 DEF Parse, Send, Receive, Timeout, GoOn
<1>10. CASE Environment \/ UNCHANGED vars
  <2>1. UNCHANGED <<pc, pinged, candidates>>
    BY <1>10, EnvironmentKeeps DEF client
  <2> QED
    BY <1>2, <1>3, <1>4, <1>10, <2>1, ComingStays DEF AllAwaited
<1> QED
  BY <1>5, <1>6, <1>7, <1>8, <1>9, <1>10, NextCases

LEMMA SegmentComingNext ==
  ASSUME IInv, SegmentComing, [Next]_vars, Undisturbed'
  PROVE  SegmentComing'
<1>1. TypeOK /\ Len(envelope) \in Nat
  BY NextSegmentType DEF IInv
<1>2. SUFFICES ASSUME pc' \in {"run", "recv"}, sentAt' = Len(envelope'),
                      Len(envelope') # expected'
               PROVE  Coming(Current, NextSegment)'
  BY DEF SegmentComing
<1>3. pc \in {"run", "recv"} => Downloading /\ candidates # << >> /\ Current \in Node
  BY <1>1, CandidateFacts DEF IInv, DownloadOK, TypeOK
<1>4. ASSUME pc \in {"run", "recv"}, UNCHANGED <<candidates, envelope, expected, sentAt>>
      PROVE  /\ Coming(Current, NextSegment) /\ NextSegment \in Segments
             /\ Current' = Current /\ NextSegment' = NextSegment
  BY <1>2, <1>3, <1>4 DEF SegmentComing, Downloading, Current, NextSegment
<1>5. ASSUME pc \in {"run", "recv"}, UNCHANGED <<candidates, envelope, expected, sentAt>>,
             rxq' = rxq \/ Environment \/ UNCHANGED vars
      PROVE  Coming(Current, NextSegment)'
  <2>1. PICK n \in Node, s \in Segments : n = Current /\ s = NextSegment
    BY <1>3, <1>4, <1>5
  <2>2. Coming(n, s)'
    BY <1>4, <1>5, <2>1, ComingStays
  <2> QED
    BY <1>4, <1>5, <2>1, <2>2
<1>6. CASE NextCandidate
  <2>1. /\ sentAt' = -1 /\ candidates # << >>
        /\ envelope' = initial[Current] \/ envelope' = << >>
    BY <1>6 DEF NextCandidate
  <2>2. initial[Current] \in Seq(Byte)
    BY <1>1, <2>1, CandidateFacts DEF TypeOK
  <2>3. Len(envelope') \in Nat
    BY <2>1, <2>2, LenProperties, EmptySeq
  <2> QED
    BY <1>2, <2>1, <2>3, SMT
<1>7. CASE Send
  <2>1. /\ pc = "run" /\ UNCHANGED <<candidates, envelope, expected, rxq>>
        /\ \/ sentAt' = sentAt
           \/ /\ Sent(Current, NextSegment)
              /\ ClientCanMake(Current, READ_MANIFEST, NextSegment)
    BY <1>2, <1>7 DEF Send
  <2>2. CASE sentAt' = sentAt
    BY <1>5, <2>1, <2>2
  <2>3. CASE /\ Sent(Current, NextSegment)
             /\ ClientCanMake(Current, READ_MANIFEST, NextSegment)
    <3>1. PICK n \in Node, s \in Segments : n = Current /\ s = NextSegment
      BY <1>1, <1>3, <2>1, <2>3, NextSegmentType
    <3>2. Coming(n, s)'
      BY <1>1, <2>3, <3>1, RequestComing
    <3>3. Current' = Current /\ NextSegment' = NextSegment
      BY <2>1 DEF Current, NextSegment
    <3> QED
      BY <3>1, <3>2, <3>3
  <2> QED
    BY <2>1, <2>2, <2>3
<1>8. CASE Receive
  <2> DEFINE msg == Head(rxq)
  <2>1. /\ pc = "recv" /\ rxq # << >> /\ UNCHANGED <<candidates, expected, sentAt>>
        /\ \/ envelope' = envelope \o msg.data /\ msg.data # << >>
           \/ envelope' = envelope /\ ~ IsNextSegment(msg)
    BY <1>2, <1>8 DEF Receive, GoOn, Fits
  <2>2. msg.data \in Seq(Byte)
    BY <2>1, HeadFrame, FrameFacts
  <2> HIDE DEF msg
  <2>3. CASE envelope' = envelope \o msg.data /\ msg.data # << >>
    <3>1. Len(envelope') = Len(envelope) + Len(msg.data) /\ Len(msg.data) \in Nat \ {0}
      BY <1>1, <2>2, <2>3, ConcatProperties, EmptySeq DEF TypeOK
    <3>2. sentAt = Len(envelope)
      BY <1>3, <2>1 DEF Downloading
    <3>3. Len(envelope) + Len(msg.data) # Len(envelope)
      BY <1>1, <3>1, SMT
    <3> QED
      BY <1>2, <2>1, <3>1, <3>2, <3>3
  <2>4. CASE envelope' = envelope /\ ~ IsNextSegment(msg)
    <3>1. PICK n \in Node, s \in Segments : n = Current /\ s = NextSegment
      BY <1>3, <1>4, <2>1, <2>4
    <3>2. msg # SegmentOf(n, image[n], s)
      BY <2>4, <3>1, SegmentUnpacks DEF IsNextSegment
    <3>3. Coming(n, s)
      BY <1>4, <2>1, <2>4, <3>1
    <3>4. Coming(n, s)'
      BY <3>2, <3>3, ComingNext DEF msg
    <3> QED
      BY <1>4, <2>1, <2>4, <3>1, <3>4
  <2> QED
    BY <2>1, <2>3, <2>4
<1>9. CASE Begin \/ Ping \/ Collect \/ CollectTimeout \/ Finish \/ Parse \/ Timeout
  BY <1>2, <1>9 DEF Begin, Ping, Collect, CollectTimeout, Finish, Parse, Timeout, GoOn
<1>10. CASE Environment \/ UNCHANGED vars
  <2>1. UNCHANGED <<pc, candidates, envelope, expected, sentAt>>
    BY <1>10, EnvironmentKeeps DEF client
  <2> QED
    BY <1>2, <1>5, <1>10, <2>1
<1> QED
  BY <1>6, <1>7, <1>8, <1>9, <1>10, NextCases

-----------------------------------------------------------------------------
(* A download of what can be downloaded, from a device that keeps it.      *)

Progressing ==
  /\ Downloading /\ Current \in Node /\ candidates # << >>
  /\ Stable(Current) /\ Downloadable(image[Current])

LEMMA ProgressFacts ==
  ASSUME TypeOK, Progressing
  PROVE  /\ image[Current] \in Image /\ IsPartOf(envelope, image[Current])
         /\ expected = image[Current].size /\ envelope[1][1] = image[Current]
         /\ Len(envelope) # expected =>
              /\ Len(envelope) < image[Current].size
              /\ Len(envelope) = Offset(NextSegment)
              /\ NextSegment \in Segments
<1> DEFINE im == image[Current]
<1>1. /\ im \in Image /\ envelope[1][1] = im /\ IsPartOf(envelope, im)
      /\ expected = HEADER_LENGTH + im.claims
      /\ im.size = HEADER_LENGTH + im.claims
      /\ im.size <= Offset(MAX_PROPERTY_INDEX + 1)
      /\ Len(envelope) # expected => Len(envelope) = Offset(NextSegment)
  BY DEF Progressing, Downloading, Stable, TypeOK, LengthIn, Downloadable, Offset
<1> HIDE DEF im
<1>2. /\ im.size \in Nat /\ Len(envelope) \in Nat /\ NextSegment \in Nat
      /\ Len(envelope) <= im.size /\ MAX_PROPERTY_INDEX \in Nat
      /\ MAX_PROPERTY_INDEX + 1 \in Nat
  BY <1>1, EnvelopeFacts, NextSegmentType, SizeType, SMTT(60) DEF IsPartOf
<1>3. ASSUME Len(envelope) # expected
      PROVE  /\ Len(envelope) < im.size /\ Len(envelope) = Offset(NextSegment)
             /\ NextSegment \in Segments
  <2>1. Len(envelope) < im.size /\ Len(envelope) = Offset(NextSegment)
    BY <1>1, <1>2, <1>3, SMT
  <2>2. ~ (MAX_PROPERTY_INDEX + 1 <= NextSegment)
    <3>1. SUFFICES ASSUME MAX_PROPERTY_INDEX + 1 <= NextSegment PROVE FALSE
      OBVIOUS
    <3>2. Offset(MAX_PROPERTY_INDEX + 1) <= Offset(NextSegment)
      BY <1>2, <3>1, OffsetFacts
    <3>3. Offset(MAX_PROPERTY_INDEX + 1) \in Nat
      BY <1>2, OffsetFacts
    <3> QED
      BY <1>1, <1>2, <2>1, <3>2, <3>3, SMT
  <2>3. NextSegment \in Segments
    BY <1>2, <2>2, SMT DEF Segments
  <2> QED
    BY <2>1, <2>3
<1> QED
  BY <1>1, <1>3 DEF im

(* Complete, it parses.                                                    *)
LEMMA CompleteParses ==
  ASSUME TypeOK, Progressing, Len(envelope) = expected
  PROVE  Parses(envelope)
<1> DEFINE im == image[Current]
<1>1. /\ im \in Image /\ IsPartOf(envelope, im) /\ expected = im.size
      /\ envelope[1][1] = im /\ envelope \in Seq(Byte)
      /\ im.size = HEADER_LENGTH + im.claims /\ im.sound
  BY ProgressFacts DEF TypeOK, Progressing, Downloadable
<1> HIDE DEF im
<1>2. /\ Envelope(im) \in Seq(Byte) /\ Len(Envelope(im)) = im.size
      /\ \A i \in 1..im.size : Envelope(im)[i] = <<im, i>>
  BY <1>1, EnvelopeFacts
<1>3. Len(envelope) = im.size /\ \A i \in 1..im.size : envelope[i] = <<im, i>>
  BY <1>1 DEF IsPartOf
<1>4. \A i \in 1..Len(envelope) : envelope[i] = Envelope(im)[i]
  BY <1>2, <1>3
<1>5. envelope = Envelope(im)
  BY <1>1, <1>2, <1>3, <1>4, SeqEqual
<1> QED
  BY <1>1, <1>3, <1>5 DEF Parses

(* Its next request can be made.                                           *)
LEMMA NextIsAsked ==
  ASSUME TypeOK, Progressing, Len(envelope) # expected
  PROVE  ClientCanMake(Current, READ_MANIFEST, NextSegment)
<1>1. NextSegment \in Segments /\ Current \in NodeIds
  BY ProgressFacts, NodeRange DEF Progressing
<1>2. 0 <= NextSegment /\ NextSegment <= MAX_PROPERTY_INDEX
  BY <1>1, SizeType, SMT DEF Segments
<1> QED
  BY <1>1, <1>2, FieldRanges, SMT DEF ClientCanMake, IndexAllowed

(* The segment that answers it fits.                                       *)
LEMMA AnswerFits ==
  ASSUME IInv, Progressing, pc = "recv", NEW msg \in Frames, Unpacks(msg), IsNextSegment(msg)
  PROVE  Fits(msg.data)
<1> DEFINE im == image[Current]
           s == NextSegment
<1>1. TypeOK /\ Len(envelope) # expected /\ Len(envelope) \in Nat
  BY NextSegmentType DEF IInv, Progressing, Downloading
<1>2. /\ im \in Image /\ expected = im.size /\ Len(envelope) < im.size
      /\ Len(envelope) = Offset(s) /\ s \in Segments
  BY <1>1, ProgressFacts
<1>3. msg = SegmentOf(Current, im, s)
  <2>1. /\ NodeOf(msg.id) = Current /\ PropertyIndex(msg.id) = s /\ IsSegment(msg)
    BY DEF IsNextSegment
  <2>2. \E old \in had[Current] : msg = SegmentOf(Current, old, s)
    BY <1>1, <2>1, FrameFacts
  <2> QED
    BY <2>2 DEF Progressing, Stable
<1>4. msg.data = Segment(Envelope(im), s)
  BY <1>3 DEF SegmentOf, Message
<1>5. s \in Nat /\ im.size \in Nat /\ SEGMENT_SIZE \in Nat \ {0} /\ Offset(s) \in Nat
  <2>1. s \in Nat
    BY <1>2, SizeType, SMT DEF Segments
  <2> QED
    BY <1>2, <2>1, EnvelopeFacts, SizeType, OffsetFacts
<1> HIDE DEF im, s
<1>6. /\ Segment(Envelope(im), s) \in Seq(Byte)
      /\ Len(Segment(Envelope(im), s)) = IF im.size <= Offset(s) THEN 0
                                         ELSE Lesser(im.size - Offset(s), SEGMENT_SIZE)
  BY <1>2, <1>5, SegmentFacts
<1>7. ~ (im.size <= Offset(s))
  BY <1>2, <1>5, SMT
<1>8. Len(msg.data) = Lesser(im.size - Offset(s), SEGMENT_SIZE) /\ msg.data \in Seq(Byte)
  BY <1>4, <1>6, <1>7
<1>9. /\ Len(msg.data) # 0
      /\ Len(envelope) + Len(msg.data) <= expected
      /\ Len(envelope) + Len(msg.data) < expected => Len(msg.data) = SEGMENT_SIZE
  BY <1>2, <1>5, <1>7, <1>8, SMT DEF Lesser
<1>10. msg.data # << >>
  BY <1>8, <1>9, EmptySeq
<1> QED
  BY <1>9, <1>10 DEF Fits

LEMMA MissedNext ==
  ASSUME IInv, CompleteInv, [Next]_vars, Undisturbed'
  PROVE  NoneMissed'
<1>1. /\ TypeOK /\ \A n \in Node : Stable(n)
      /\ AllAwaited /\ NoneMissed /\ SegmentComing /\ image' = image
      /\ Undisturbed /\ ~ Fault("late")
  BY UndisturbedStep DEF IInv, CompleteInv
<1>2. SUFFICES ASSUME pc' \in {"next", "run", "recv", "done"}, NEW n \in Node,
                      Downloadable(image[n])
               PROVE  n \in Range(candidates') \cup Found'
  <2>1. Range(candidates') = Range(candidates)'
    BY DEF Range
  <2> QED
    BY <1>1, <1>2, <2>1 DEF NoneMissed, Downloadable
<1>3. pc \in {"next", "run", "recv", "done"} => n \in Range(candidates) \cup Found
  BY <1>1, <1>2 DEF NoneMissed
<1>4. ASSUME pc \in {"next", "run", "recv", "done"}, UNCHANGED <<candidates, found>>
      PROVE  n \in Range(candidates') \cup Found'
  BY <1>3, <1>4 DEF Found
<1>5. pc \in {"run", "recv"} =>
        /\ candidates # << >> /\ Current \in Node /\ Downloading
        /\ n = Current => Progressing
  BY <1>1, <1>2, CandidateFacts DEF IInv, DownloadOK, TypeOK, Progressing
<1>6. ASSUME pc \in {"run", "recv"}, candidates' = Tail(candidates), Found \subseteq Found',
             n = Current => Current \in Found'
      PROVE  n \in Range(candidates') \cup Found'
  <2>1. Range(candidates) = Range(Tail(candidates)) \cup {Current}
    BY <1>1, <1>5, <1>6, CandidateFacts
  <2> QED
    BY <1>3, <1>6, <2>1
<1>7. CASE CollectTimeout
  <2>1. pc = "collect" /\ Quiet /\ candidates' = candidates
    BY <1>1, <1>7 DEF CollectTimeout
  <2>2. n \in Range(candidates) \/ Coming(n, 0)
    BY <1>1, <2>1 DEF AllAwaited
  <2> QED
    BY <2>1, <2>2, QuietNothingComing
<1>8. CASE NextCandidate \/ Finish
  BY <1>4, <1>8 DEF NextCandidate, Finish
<1>9. CASE Parse
  <2>1. /\ pc = "run" /\ Len(envelope) = expected /\ candidates' = Tail(candidates)
        /\ found' = IF Parses(envelope)
                    THEN [m \in Found \cup {Current} |->
                            IF m = Current THEN envelope ELSE found[m]]
                    ELSE found
    BY <1>9 DEF Parse, GoOn
  <2>2. Found \subseteq Found' /\ (Parses(envelope) => Current \in Found')
    BY <2>1 DEF Found
  <2>3. n = Current => Parses(envelope)
    BY <1>1, <1>5, <2>1, CompleteParses
  <2> QED
    BY <1>6, <2>1, <2>2, <2>3
<1>10. CASE Send
  <2>1. /\ pc = "run" /\ Len(envelope) # expected /\ found' = found
        /\ \/ candidates' = candidates
           \/ /\ candidates' = Tail(candidates)
              /\ ~ ClientCanMake(Current, READ_MANIFEST, NextSegment)
    BY <1>10 DEF Send
  <2>2. n = Current => ClientCanMake(Current, READ_MANIFEST, NextSegment)
    BY <1>1, <1>5, <2>1, NextIsAsked
  <2> QED
    BY <1>4, <1>6, <2>1, <2>2 DEF Found
<1>11. CASE Receive
  <2>1. /\ pc = "recv" /\ rxq # << >> /\ found' = found
        /\ \/ candidates' = candidates
           \/ /\ candidates' = Tail(candidates)
              /\ Unpacks(Head(rxq)) => IsNextSegment(Head(rxq)) /\ ~ Fits(Head(rxq).data)
    BY <1>11 DEF Receive, GoOn
  <2>2. Head(rxq) \in Frames /\ Unpacks(Head(rxq))
    BY <1>1, <2>1, HeadFrame, FrameFacts DEF Undisturbed
  <2>3. n = Current /\ IsNextSegment(Head(rxq)) => Fits(Head(rxq).data)
    BY <1>5, <2>1, <2>2, AnswerFits
  <2> QED
    BY <1>4, <1>6, <2>1, <2>2, <2>3 DEF Found
<1>12. CASE Timeout
  <2>1. pc = "recv" /\ Quiet
    BY <1>1, <1>12 DEF Timeout
  <2>2. Coming(Current, NextSegment) /\ Current \in Node
    BY <1>1, <1>5, <2>1 DEF SegmentComing, Downloading
  <2> QED
    BY <2>1, <2>2, QuietNothingComing
<1>13. CASE Begin \/ Ping \/ Collect
  BY <1>2, <1>13 DEF Begin, Ping, Collect
<1>14. CASE Environment \/ UNCHANGED vars
  <2>1. UNCHANGED <<pc, candidates, found>>
    BY <1>14, EnvironmentKeeps DEF client
  <2> QED
    BY <1>2, <1>4, <2>1
<1> QED
  BY <1>7, <1>8, <1>9, <1>10, <1>11, <1>12, <1>13, <1>14, NextCases

LEMMA DoneNext == ASSUME DoneEmpty, [Next]_vars PROVE DoneEmpty'
<1>1. CASE Finish
  BY <1>1 DEF Finish, DoneEmpty
<1>2. CASE Begin \/ Ping \/ Collect \/ CollectTimeout \/ NextCandidate
  BY <1>2 DEF Begin, Ping, Collect, CollectTimeout, NextCandidate, DoneEmpty
<1>3. CASE Parse \/ Send \/ Receive \/ Timeout
  BY <1>3 DEF Parse, Send, Receive, Timeout, GoOn, DoneEmpty
<1>4. CASE Environment \/ UNCHANGED vars
  BY <1>4, EnvironmentKeeps DEF client, DoneEmpty
<1> QED
  BY <1>1, <1>2, <1>3, <1>4, NextCases

LEMMA CompleteInvariance == Spec => []CompleteInv
<1>1. Init => CompleteInv
  <2> SUFFICES ASSUME Init PROVE CompleteInv
    OBVIOUS
  <2>1. \A n \in Node : Stable(n)
    BY DEF Init, Stable
  <2> QED
    BY <2>1 DEF Init, CompleteInv, AllAwaited, NoneMissed, SegmentComing, DoneEmpty
<1>2. IInv /\ CompleteInv /\ [Next]_vars => CompleteInv'
  <2> SUFFICES ASSUME IInv, CompleteInv, [Next]_vars, Undisturbed' PROVE
         ((\A n \in Node : Stable(n)) /\ AllAwaited /\ NoneMissed /\ SegmentComing /\ DoneEmpty)'
    BY DEF CompleteInv
  <2>1. Undisturbed /\ UNCHANGED <<image, had>>
    BY UndisturbedStep
  <2>2. (\A n \in Node : Stable(n))'
    BY <2>1 DEF CompleteInv, Stable
  <2> QED
    BY <2>1, <2>2, AwaitedNext, MissedNext, SegmentComingNext, DoneNext DEF CompleteInv
<1> QED
  BY <1>1, <1>2, Invariance, PTL DEF Spec

(* enumerate_nodes finds every device with a sound manifest that has at    *)
(* least one full segment and at most as many as the protocol can number,  *)
(* and nothing else, when no frame is lost, foreign or late and no device  *)
(* changes its firmware; other clients may read manifests meanwhile.       *)
THEOREM ScansAreComplete == Spec => []ScanIsComplete
<1>1. IInv /\ CompleteInv => ScanIsComplete
  <2> SUFFICES ASSUME IInv, CompleteInv, pc = "done", seen \subseteq {"other"}
               PROVE  Found = {n \in Node : Downloadable(image[n])}
    BY DEF ScanIsComplete
  <2>1. /\ \A n \in Node : Stable(n)
        /\ \A n \in Node : Downloadable(image[n]) => n \in Range(candidates) \cup Found
        /\ candidates = << >>
    BY DEF CompleteInv, Undisturbed, NoneMissed, DoneEmpty
  <2>2. Range(candidates) = {}
    BY <2>1 DEF Range
  <2>3. Found \subseteq Node /\ \A n \in Found : \E im \in had[n] : Downloadable(im)
    BY DEF IInv, TypeOK, FoundOK
  <2>4. \A n \in Found : Downloadable(image[n])
    BY <2>1, <2>3 DEF Stable
  <2> QED
    BY <2>1, <2>2, <2>3, <2>4
<1> QED
  BY Invariance, CompleteInvariance, <1>1, PTL
==============================================================================
