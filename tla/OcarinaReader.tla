--------------------------- MODULE OcarinaReader ---------------------------
(***************************************************************************)
(* The Ocarina adapter (devprop-ocarina/): a USB interface that sends      *)
(* events over a serial port, a thread that takes them apart and puts      *)
(* them into a queue, and receive(), which takes frames out of it.         *)
(*                                                                         *)
(*    an event:  type (1 byte)  length (1 byte)  payload (length bytes)    *)
(*                                                                         *)
(* Nothing marks where an event begins but the end of the one before, and  *)
(* the end of the run of 0xAA with which the interface answers a reset.    *)
(* A byte is the event it belongs to and its place there; one that is read *)
(* as something else than it was sent for may have any value.              *)
(***************************************************************************)
EXTENDS Integers, Sequences

CONSTANTS
  SYNC_LENGTH,  \* 0xAA bytes in the answer to a reset; 24 in the code
  Old,          \* what the interface may still have to send before that
  MaxEvents,    \* bound: events sent
  MaxFaults,    \* bound: silences of more than two seconds, and unplugging
  MaxCalls      \* bound: calls of receive()

\* An old byte is TRUE if it is 0xAA.
ASSUME OcarinaAssumption ==
  /\ SYNC_LENGTH \in Nat \ {0}
  /\ Old \subseteq Seq(BOOLEAN)
  /\ MaxEvents \in Nat /\ MaxFaults \in Nat /\ MaxCalls \in Nat

\* Extended frames; the other events that are queued; heartbeats, which are
\* not; and types the program does not know.
Kind == {"ext", "other", "beat", "unknown"}

PayloadLength == [ext |-> 2, other |-> 1, beat |-> 0, unknown |-> 1]

\* Bytes of the payload without which parsing it raises: the time stamp and
\* the identifier of a frame, but none of its data.
Needed == [ext |-> 1, other |-> 1, beat |-> 0, unknown |-> 0]

VARIABLES
  sent,      \* the kinds of the events sent
  input,     \* the bytes to be read, wherever they are
  thread,    \* the reader: "sync" (no thread yet), "type", "length",
             \* "payload", "dead"; or "failed", if __init__ raised
  run,       \* 0xAA bytes seen in a row
  event,     \* what the reader knows of its event: kind and length
  queue,     \* eventQueue: n for the frame of event n, 0 for a frame that was
             \* never sent, -1 for an event that is no frame
  call,      \* receive(): "out", "check" (of the deadline) or "wait"
  timed,     \* it has a deadline
  passed,    \* and that has passed
  result,    \* how it ended: "frame", "timeout" or "Empty"
  got,       \* the frames it returned
  frames,    \* those of them that were sent, for Adapter: auxiliary
  nCalls, nFaults,
  reasons    \* what has gone wrong: "early" (the run of 0xAA was thought over
             \* too soon), "stall" (a silence inside an event), "unplugged"

reader == <<thread, run, event>>
caller == <<call, timed, passed, result, got, frames, nCalls>>
vars == <<sent, input, reader, queue, caller, nFaults, reasons>>

Byte(n, place) == [of |-> n, place |-> place]

Sync(isAA) == Byte(0, IF isAA THEN 1 ELSE 0)

IsAA(byte) == byte = Sync(TRUE)

Wire(n, kind) == [i \in 1..PayloadLength[kind] + 2 |-> Byte(n, i)]

Payload(n) == SubSeq(Wire(n, sent[n]), 3, PayloadLength[sent[n]] + 2)

NoEvent == [kind |-> "unknown", length |-> 0]

\* __init__ has written RESET; what was still to be sent comes before the
\* answer.
Init ==
  /\ sent = << >>
  /\ \E old \in Old :
       input = [i \in 1..Len(old) + SYNC_LENGTH |-> Sync(i > Len(old) \/ old[i])]
  /\ thread = "sync" /\ run = 0 /\ event = NoEvent
  /\ queue = << >>
  /\ call = "out" /\ timed = FALSE /\ passed = FALSE
  /\ result = "timeout" /\ got = << >> /\ frames = << >>
  /\ nCalls = 0 /\ nFaults = 0
  /\ reasons = {}

-----------------------------------------------------------------------------
(* The interface and the line.                                             *)

Transmit(kind) ==
  /\ Len(sent) < MaxEvents
  /\ sent' = Append(sent, kind)
  /\ input' = input \o Wire(Len(sent'), kind)
  /\ UNCHANGED <<reader, queue, caller, nFaults, reasons>>

Fault == nFaults < MaxFaults /\ nFaults' = nFaults + 1

Alive == thread \in {"type", "length", "payload"}

\* read() raises SerialException.
Unplug ==
  /\ Fault
  /\ Alive
  /\ thread' = "dead"
  /\ reasons' = reasons \cup {"unplugged"}
  /\ UNCHANGED <<sent, input, run, event, queue, caller>>

-----------------------------------------------------------------------------
(* The reader.                                                             *)

Drop(n) == input' = SubSeq(input, n + 1, Len(input))

\* Variant: one byte too many is waited for.
ReadSyncOneMore ==
  LET seen == IF IsAA(Head(input)) THEN run + 1 ELSE 0
  IN  /\ thread = "sync" /\ input # << >>
      /\ Drop(1)
      /\ run' = seen
      /\ thread' = IF seen > SYNC_LENGTH THEN "type" ELSE "sync"
      /\ UNCHANGED <<sent, event, queue, caller, nFaults, reasons>>

\* _connect: until the last bytes read are the answer.  The old bytes may end
\* like it begins.
ReadSync ==
  LET seen == IF IsAA(Head(input)) THEN run + 1 ELSE 0
      left == Tail(input)
  IN  /\ thread = "sync" /\ input # << >>
      /\ Drop(1)
      /\ run' = seen
      /\ thread' = IF seen = SYNC_LENGTH THEN "type" ELSE "sync"
      /\ reasons' = IF seen = SYNC_LENGTH /\ \E i \in DOMAIN left : IsAA(left[i])
                    THEN reasons \cup {"early"} ELSE reasons
      /\ UNCHANGED <<sent, event, queue, caller, nFaults>>

\* The byte at the head of the input, read as a type or as a length.
KindsOf(byte)   == IF byte.of > 0 /\ byte.place = 1 THEN {sent[byte.of]}
                   ELSE IF IsAA(byte) THEN {"unknown"} ELSE Kind
LengthsOf(byte) == IF byte.of > 0 /\ byte.place = 2
                   THEN {PayloadLength[sent[byte.of]]} ELSE 0..3

ReadType ==
  /\ thread = "type" /\ input # << >>
  /\ Drop(1)
  /\ \E kind \in KindsOf(Head(input)) : event' = [kind |-> kind, length |-> 0]
  /\ thread' = "length"
  /\ UNCHANGED <<sent, run, queue, caller, nFaults, reasons>>

ReadLength ==
  /\ thread = "length" /\ input # << >>
  /\ Drop(1)
  /\ \E length \in LengthsOf(Head(input)) : event' = [event EXCEPT !.length = length]
  /\ thread' = "payload"
  /\ UNCHANGED <<sent, run, queue, caller, nFaults, reasons>>

\* The event whose payload these bytes are, 0 if there is none.
Origin(bytes) ==
  LET n == IF bytes = << >> THEN 0 ELSE Head(bytes).of
  IN  IF n > 0 /\ sent[n] = "ext" /\ bytes = Payload(n) THEN n ELSE 0

\* The branches of _event_listener.  Too few bytes end the thread, and so may
\* bytes that make no sense where they are.
Parse(bytes) ==
  LET kind == event.kind
      sound == Len(bytes) >= Needed[kind]
      garbled == \E i \in DOMAIN bytes : bytes[i].of = 0 \/ bytes[i].place < 3
                                         \/ sent[bytes[i].of] # kind
  IN  \/ /\ sound
         /\ thread' = "type"
         /\ queue' = CASE kind = "ext" -> Append(queue, Origin(bytes))
                       [] kind = "other" -> Append(queue, -1)
                       [] OTHER -> queue
      \/ /\ ~ sound \/ (kind = "other" /\ garbled)
         /\ thread' = "dead"
         /\ UNCHANGED queue

\* Variant: an event of an unknown type is given up before its payload.
ReadPayloadUnlessUnknown ==
  LET n == IF event.kind = "unknown" THEN 0 ELSE event.length
  IN  /\ thread = "payload" /\ Len(input) >= n
      /\ Parse(SubSeq(input, 1, n))
      /\ Drop(n)
      /\ event' = NoEvent
      /\ UNCHANGED <<sent, run, caller, nFaults, reasons>>

ReadPayload ==
  /\ thread = "payload" /\ Len(input) >= event.length
  /\ Parse(SubSeq(input, 1, event.length))
  /\ Drop(event.length)
  /\ event' = NoEvent
  /\ UNCHANGED <<sent, run, caller, nFaults, reasons>>

\* Variant: no answer is taken for a type.
SilenceUnchecked ==
  /\ Fault
  /\ thread = "type"
  /\ thread' = "dead"
  /\ UNCHANGED <<sent, input, run, event, queue, caller, reasons>>

\* Two seconds without a byte, between events: a warning.  What is in the
\* input may be late.
Silence ==
  /\ Fault
  /\ thread = "type"
  /\ UNCHANGED <<sent, input, reader, queue, caller, reasons>>

\* And elsewhere: unpack() of no bytes raises; a payload is cut short; and
\* ord() of no bytes ends the constructor.
SilenceInside ==
  /\ Fault
  /\ \/ /\ thread = "sync"
        /\ thread' = "failed"
        /\ UNCHANGED <<input, event, queue, reasons>>
     \/ /\ thread = "length"
        /\ thread' = "dead"
        /\ reasons' = reasons \cup {"stall"}
        /\ UNCHANGED <<input, event, queue>>
     \/ /\ thread = "payload"
        /\ \E n \in 0..event.length - 1 :
             n <= Len(input) /\ Parse(SubSeq(input, 1, n)) /\ Drop(n)
        /\ event' = NoEvent
        /\ reasons' = reasons \cup {"stall"}
  /\ UNCHANGED <<sent, run, caller>>

Read == ReadSync \/ ReadType \/ ReadLength \/ ReadPayload

-----------------------------------------------------------------------------
(* receive().                                                              *)

Call ==
  /\ thread \notin {"sync", "failed"}
  /\ call = "out"
  /\ nCalls < MaxCalls
  /\ nCalls' = nCalls + 1
  /\ call' = "check"
  /\ timed' \in BOOLEAN
  /\ passed' = FALSE
  /\ UNCHANGED <<sent, input, reader, queue, result, got, frames, nFaults, reasons>>

Clock ==
  /\ call # "out" /\ timed
  /\ passed' = TRUE
  /\ UNCHANGED <<sent, input, reader, queue, call, timed, result, got, frames, nCalls,
                 nFaults, reasons>>

Return(how) ==
  call' = "out" /\ timed' = FALSE /\ passed' = FALSE /\ result' = how

Check ==
  /\ call = "check"
  /\ IF timed /\ passed
     THEN Return("timeout")
     ELSE call' = "wait" /\ UNCHANGED <<timed, passed, result>>
  /\ UNCHANGED <<sent, input, reader, queue, got, frames, nCalls, nFaults, reasons>>

\* read_event returns: an event that is no extended frame is passed over.
Get ==
  /\ call = "wait" /\ queue # << >>
  /\ queue' = Tail(queue)
  /\ IF Head(queue) >= 0
     THEN /\ Return("frame")
          /\ got' = Append(got, Head(queue))
          /\ frames' = IF Head(queue) > 0 THEN Append(frames, Head(queue)) ELSE frames
     ELSE call' = "check" /\ UNCHANGED <<timed, passed, result, got, frames>>
  /\ UNCHANGED <<sent, input, reader, nCalls, nFaults, reasons>>

\* Variant: get() has no timeout.
NoEmpty == FALSE /\ UNCHANGED vars

\* read_event raises queue.Empty, and so does receive().
Empty ==
  /\ call = "wait" /\ queue = << >>
  /\ timed /\ passed
  /\ Return("Empty")
  /\ UNCHANGED <<sent, input, reader, queue, got, frames, nCalls, nFaults, reasons>>

Next ==
  \/ \E kind \in Kind : Transmit(kind)
  \/ Unplug
  \/ Read \/ Silence \/ SilenceInside
  \/ Call \/ Clock \/ Check \/ Get \/ Empty

Spec == Init /\ [][Next]_vars

\* Threads run, and time passes.  Nothing need be sent, and
\* nobody need call.
FairSpec ==
  /\ Spec
  /\ WF_vars(Read)
  /\ WF_vars(Clock) /\ WF_vars(Check) /\ WF_vars(Get \/ Empty)

-----------------------------------------------------------------------------
(* Properties.                                                             *)

Received == got \o SelectSeq(queue, LAMBDA n : n >= 0)

(* Type correctness: the reader knows where it is, and the queue holds     *)
(* frames of events that were sent, things that were none, and no others.  *)
TypeOK ==
  /\ \A n \in DOMAIN sent : sent[n] \in Kind
  /\ thread \in {"sync", "type", "length", "payload", "dead", "failed"}
  /\ run \in 0..SYNC_LENGTH
  /\ event \in [kind : Kind, length : 0..3]
  /\ \A i \in DOMAIN queue : queue[i] \in -1..Len(sent)
  /\ call \in {"out", "check", "wait"} /\ timed \in BOOLEAN /\ passed \in BOOLEAN
  /\ result \in {"frame", "timeout", "Empty"}
  /\ nCalls \in 0..MaxCalls /\ nFaults \in 0..MaxFaults

(* The reader thread, whose end nobody notices, ends only when the         *)
(* interface is gone or its place in the bytes is lost (_event_listener).  *)
DiesForAReason == thread = "dead" => reasons # {}

(* Every frame that is sent can be received, unless the reader has lost    *)
(* its place or __init__ has raised.                                       *)
FramesArrive ==
  \A n \in 1..MaxEvents :
    (n \in DOMAIN sent /\ sent[n] = "ext") ~>
      \/ \E i \in DOMAIN Received : Received[i] = n
      \/ reasons # {} \/ thread = "failed"

(* A call with a deadline ends, whatever the reader does, and if it is     *)
(* dead (OcarinaAdapter.receive, Ocarina.read_event).                      *)
CallReturns == (call # "out" /\ timed) ~> call = "out"

(* "the output should be 'Found 0 nodes'" for devscan on a bus without     *)
(* devices, with Ocarina, too (INTEGRATION_GUIDE.md:57): a call that       *)
(* finds no frame ends with TimeoutError, which is what ends a scan.       *)
EndsWithTimeoutError == result # "Empty"

\* What the code above receive() may rely on: whatever other events, unknown
\* types and silences come between them, it returns the frames that were sent,
\* in order and each once.  This much is left of it when the reader has lost
\* its place: any frame may be missing then, and others that were never sent
\* come out (they are left aside here), but those that were sent are in order
\* and none comes twice.
FrameSet == {n \in DOMAIN sent : sent[n] = "ext"}

Adapter == INSTANCE BusAdapter WITH
  sent    <- FrameSet,
  damaged <- IF reasons = {} THEN {} ELSE FrameSet,
  calling <- call # "out",
  got     <- IF reasons = {} THEN got ELSE frames

ImplementsBusAdapter == Adapter!Spec
=============================================================================
