----------------------------- MODULE SerialWrap -----------------------------
(***************************************************************************)
(* CAN frames over a serial line: SerialWrappedCanAdapter                  *)
(* (devprop/can_bus/serial_wrapped_can_adapter.py).  A frame and its CRC   *)
(* are COBS-encoded, so that no byte of it is zero, and sent between two   *)
(* zeros.  receive() reads byte by byte, and what it has read of a frame   *)
(* when its deadline passes waits in the buffer for the next call.         *)
(*                                                                         *)
(* The other end sends frames 1, 2, 3, ...; a byte is the frame it was     *)
(* sent for, its place in it, and what it now is: a zero, the byte of the  *)
(* code that belongs there, or another one.  COBS and the CRC are external *)
(* and do what they are for: a chunk that is not a frame, whole and        *)
(* unchanged, does not pass.                                               *)
(***************************************************************************)
EXTENDS Integers, Sequences

CONSTANTS
  CODE_LENGTH,  \* bytes of an encoded frame; at least 7 in the code
  Strange,      \* the frames whose identifier is not devprop's
  MaxFrames,    \* bound: frames the other end sends
  MaxFaults     \* bound: bytes that are lost, changed or added on the line

ASSUME SerialAssumption ==
  /\ CODE_LENGTH \in Nat \ {0}
  /\ Strange \subseteq Nat
  /\ MaxFrames \in Nat /\ MaxFaults \in Nat

VARIABLES
  line,     \* the bytes on the line and in the driver
  buffer,   \* _buffer
  pc,       \* "out", or inside receive(): "read" a byte, or "parse" the buffer
  result,   \* how receive() ended: "frame", "timeout", "strange" (stringify
            \* raises) or "unpack" (struct.unpack raises)
  got,      \* the frames decoded, strange ones too
  sent,     \* frames sent
  hit,      \* the frames that had bytes lost, changed or added
  nFaults   \* such bytes

vars == <<line, buffer, pc, result, got, sent, hit, nFaults>>

Byte(frame, place, is) == [frame |-> frame, place |-> place, is |-> is]

Codes(frame) == [i \in 1..CODE_LENGTH |-> Byte(frame, i, "code")]

\* Variant: a byte too many between the zeros.
WireOneMore(frame) ==
  <<Byte(frame, 0, "zero")>> \o [i \in 1..CODE_LENGTH + 1 |-> Byte(frame, i, "code")]
    \o <<Byte(frame, CODE_LENGTH + 2, "zero")>>

\* send(): b"\x00" + frame + b"\x00"
Wire(frame) ==
  <<Byte(frame, 0, "zero")>> \o Codes(frame) \o <<Byte(frame, CODE_LENGTH + 1, "zero")>>

\* The port is opened in the middle of frame 0, or between frames.
Init ==
  /\ \E i \in 1..CODE_LENGTH + 3 : line = SubSeq(Wire(0), i, CODE_LENGTH + 2)
  /\ buffer = << >>
  /\ pc = "out"
  /\ result = "timeout"
  /\ got = << >>
  /\ sent = 0
  /\ hit = {0}
  /\ nFaults = 0

-----------------------------------------------------------------------------
(* The line.                                                               *)

Transmit ==
  /\ sent < MaxFrames
  /\ sent' = sent + 1
  /\ line' = line \o Wire(sent')
  /\ UNCHANGED <<buffer, pc, result, got, hit, nFaults>>

Fault ==
  /\ nFaults < MaxFaults
  /\ nFaults' = nFaults + 1
  /\ UNCHANGED <<buffer, pc, result, got, sent>>

Without(i) == SubSeq(line, 1, i - 1) \o SubSeq(line, i + 1, Len(line))

Lose(i) ==
  /\ Fault
  /\ line' = Without(i)
  /\ hit' = hit \cup {line[i].frame}

Damage(i) ==
  /\ Fault
  /\ \E is \in {"zero", "other"} \ {line[i].is} : line' = [line EXCEPT ![i].is = is]
  /\ hit' = hit \cup {line[i].frame}

\* A byte of noise in front of byte i, inside or outside of its frame.
Noise(i) ==
  LET frame == line[i].frame
  IN  /\ Fault
      /\ \E is \in {"zero", "other"} :
           line' = SubSeq(line, 1, i - 1) \o <<Byte(frame, 0, is)>> \o SubSeq(line, i, Len(line))
      /\ hit' = IF line[i].place = 0 THEN hit ELSE hit \cup {frame}

-----------------------------------------------------------------------------
(* receive()                                                               *)

Call ==
  /\ pc = "out"
  /\ pc' = "read"
  /\ UNCHANGED <<line, buffer, result, got, sent, hit, nFaults>>

\* Variant: two bytes at a time.
ReadTwo ==
  /\ pc = "read"
  /\ Len(line) > 1
  /\ buffer' = buffer \o SubSeq(line, 1, 2)
  /\ line' = SubSeq(line, 3, Len(line))
  /\ pc' = "parse"
  /\ UNCHANGED <<result, got, sent, hit, nFaults>>

Read ==
  /\ pc = "read"
  /\ line # << >>
  /\ buffer' = Append(buffer, Head(line))
  /\ line' = Tail(line)
  /\ pc' = "parse"
  /\ UNCHANGED <<result, got, sent, hit, nFaults>>

Delimiters == {i \in DOMAIN buffer : buffer[i].is = "zero"}

IsFrame(chunk) == Len(chunk) = CODE_LENGTH /\ chunk = Codes(chunk[1].frame)

End(how) == pc' = "out" /\ result' = how

\* What becomes of the bytes in front of a delimiter.  No frame and less
\* than two bytes once decoded: the CRC cannot be unpacked, unless COBS has
\* refused it.
Judge(chunk) ==
  \/ /\ IsFrame(chunk)
     /\ got' = Append(got, chunk[1].frame)
     /\ End(IF chunk[1].frame \in Strange THEN "strange" ELSE "frame")
  \/ /\ ~ IsFrame(chunk)
     /\ UNCHANGED <<pc, result, got>>
  \/ /\ ~ IsFrame(chunk)
     /\ Len(chunk) \in 1..2
     /\ End("unpack")
     /\ UNCHANGED got

\* Variant: a frame is returned before it is taken from the buffer.
ParseAgain ==
  /\ pc = "parse"
  /\ \/ \E i \in Delimiters :
          /\ Delimiters \cap 1..(i - 1) = {}
          /\ buffer' = IF IsFrame(SubSeq(buffer, 1, i - 1))
                       THEN buffer ELSE SubSeq(buffer, i + 1, Len(buffer))
          /\ Judge(SubSeq(buffer, 1, i - 1))
     \/ /\ Delimiters = {}
        /\ pc' = "read"
        /\ UNCHANGED <<buffer, result, got>>
  /\ UNCHANGED <<line, sent, hit, nFaults>>

Parse ==
  /\ pc = "parse"
  /\ \/ \E i \in Delimiters :
          /\ Delimiters \cap 1..(i - 1) = {}
          /\ buffer' = SubSeq(buffer, i + 1, Len(buffer))
          /\ Judge(SubSeq(buffer, 1, i - 1))
     \/ /\ Delimiters = {}
        /\ pc' = "read"
        /\ UNCHANGED <<buffer, result, got>>
  /\ UNCHANGED <<line, sent, hit, nFaults>>

\* Variant: a call starts with an empty buffer.
TimeoutAndClear ==
  /\ pc = "read"
  /\ End("timeout")
  /\ buffer' = << >>
  /\ UNCHANGED <<line, got, sent, hit, nFaults>>

\* The deadline has passed; read(1) returning nothing leads here, too.
Timeout ==
  /\ pc = "read"
  /\ End("timeout")
  /\ UNCHANGED <<line, buffer, got, sent, hit, nFaults>>

Next ==
  \/ Transmit \/ Call \/ Read \/ Parse \/ Timeout
  \/ \E i \in DOMAIN line : Lose(i) \/ Damage(i) \/ Noise(i)

Spec == Init /\ [][Next]_vars

-----------------------------------------------------------------------------
(* Properties.                                                             *)

AByte ==
  [frame : Nat, place : 0..CODE_LENGTH + 1, is : {"zero", "code", "other"}]

TypeOK ==
  /\ line \in Seq(AByte)
  /\ buffer \in Seq(AByte)
  /\ pc \in {"out", "read", "parse"}
  /\ result \in {"frame", "timeout", "strange", "unpack"}
  /\ got \in Seq(0..MaxFrames)
  /\ sent \in 0..MaxFrames
  /\ hit \subseteq 0..MaxFrames
  /\ nFaults \in 0..MaxFaults

\* A damaged frame costs that frame alone: every other one the line has
\* carried to its end has come out.
OnlyTheHitAreLost ==
  line = << >> /\ pc # "parse" =>
    \A frame \in (1..sent) \ hit : \E i \in DOMAIN got : got[i] = frame

\* receive() leaves no complete frame behind in the buffer, where it would
\* wait for the first byte of another frame.
NothingLeftBehind == pc # "parse" => Delimiters = {}

\* What the code above receive() may rely on, whatever happens to the bytes
\* between the frames and wherever calls time out: the adapter is a
\* BusAdapter, frames come out in order and none twice.  A call lasts from
\* receive() to its result, a damaged frame is one the line has hit.
Adapter == INSTANCE BusAdapter WITH
  sent    <- 0..sent,
  damaged <- hit,
  calling <- pc # "out",
  got     <- got

ImplementsBusAdapter == Adapter!Spec
=============================================================================
