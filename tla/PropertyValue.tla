--------------------------- MODULE PropertyValue ---------------------------
(***************************************************************************)
(* From what the user sees to what a device stores and back:               *)
(* validate_manifest (devprop/manifest.py), encode_value and decode_value  *)
(* (devprop/property.py), around one property of one device.               *)
(*                                                                         *)
(* The code computes with floats; here numbers are exact, in units small   *)
(* enough for offset, scale, limits and values to be whole.  The exchange  *)
(* with the device succeeds (PropertyAccess has the ways it may not).      *)
(***************************************************************************)
EXTENDS Integers, Sequences

CONSTANTS
  Base,         \* values of a byte; the code has 256
  TINY,         \* the least scale validate_manifest takes for other than
                \* zero; the code has 1e-5
  Properties,   \* the properties a manifest may describe
  Typed,        \* the values a user may type in
  Written       \* the raw values the device's application may write

UnsignedType == {"uint8", "uint16", "uint32"}
SignedType   == {"int8", "int16", "int32"}
PropertyType == UnsignedType \cup SignedType

PropertyRecord ==
  [type : PropertyType, offset : Int, scale : Int, min : Int, max : Int]

ASSUME ValueAssumption ==
  /\ Base \in Nat \ {0, 1}
  /\ TINY \in Nat \ {0}
  /\ Properties \subseteq PropertyRecord
  /\ Typed \subseteq Int
  /\ Written \subseteq Nat

-----------------------------------------------------------------------------
(* Types and the bytes of a raw value.                                     *)

Width(type) ==
  CASE type \in {"uint8", "int8"} -> 1
    [] type \in {"uint16", "int16"} -> 2
    [] type \in {"uint32", "int32"} -> 4

Span(width) ==
  CASE width = 1 -> Base
    [] width = 2 -> Base * Base
    [] width = 4 -> (Base * Base) * (Base * Base)

\* range_inclusive
Lowest(type) == IF type \in SignedType THEN - (Span(Width(type)) \div 2) ELSE 0

Highest(type) == Lowest(type) + Span(Width(type)) - 1

\* Variant: the most significant byte first.
ToBytesBig(raw, width) ==
  CASE width = 1 -> <<raw>>
    [] width = 2 -> <<raw \div Base, raw % Base>>
    [] width = 4 -> <<((raw \div Base) \div Base) \div Base, ((raw \div Base) \div Base) % Base,
                      (raw \div Base) % Base, raw % Base>>

\* int.to_bytes(width, byteorder="little", signed=False), once raw fits
ToBytes(raw, width) ==
  CASE width = 1 -> <<raw>>
    [] width = 2 -> <<raw % Base, raw \div Base>>
    [] width = 4 -> <<raw % Base, (raw \div Base) % Base, ((raw \div Base) \div Base) % Base,
                      ((raw \div Base) \div Base) \div Base>>

\* int.from_bytes(value, byteorder="little", signed=False)
FromBytes(value) ==
  CASE Len(value) = 1 -> value[1]
    [] Len(value) = 2 -> value[1] + Base * value[2]
    [] Len(value) = 4 -> value[1] + Base * (value[2] + Base * (value[3] + Base * value[4]))

-----------------------------------------------------------------------------
(* validate_manifest: what is wrong with a property.                       *)

Magnitude(n) == IF n < 0 THEN - n ELSE n

MinValue(p) == p.offset + Lowest(p.type) * p.scale
MaxValue(p) == p.offset + Highest(p.type) * p.scale

Complaint == {"scale", "minimum", "maximum", "empty"}

Holds(p, complaint) ==
  CASE complaint = "scale"   -> Magnitude(p.scale) < TINY
    [] complaint = "minimum" -> p.min < MinValue(p)
    [] complaint = "maximum" -> p.max > MaxValue(p)
    [] complaint = "empty"   -> p.min >= p.max

\* Variant: nobody looks at the lower end.
ErrorsNoMinimum(p) == {c \in Complaint \ {"minimum"} : Holds(p, c)}

Errors(p) == {c \in Complaint : Holds(p, c)}

-----------------------------------------------------------------------------
(* decode_value and encode_value.                                          *)

Physical(p, raw) == p.offset + raw * p.scale

\* Variant: nobody compares with the lower limit.
AtMostMax(p, v) == v <= p.max

InRange(p, v) == p.min <= v /\ v <= p.max

\* Variant: the fraction is cut off.
RoundedDown(n, d) == n \div d

\* round(n / d) for d > 0: to the nearest, and to the even one of two
Rounded(n, d) ==
  LET q == n \div d
      r == n % d
  IN  IF 2 * r < d \/ (2 * r = d /\ q % 2 = 0) THEN q ELSE q + 1

\* int(round((physical_value - offset) / scale))
Raw(p, v) ==
  IF p.scale > 0 THEN Rounded(v - p.offset, p.scale)
                 ELSE Rounded(p.offset - v, - p.scale)

\* Variant: one past the largest value of the type passes.
FitsTypeOrNext(p, raw) == raw \in 0..Span(Width(p.type))

FitsType(p, raw) == raw \in 0..Span(Width(p.type)) - 1

\* What encode_value raises, or "none".
Refusal(p, v) ==
  CASE ~ InRange(p, v) -> "range"
    [] InRange(p, v) /\ p.scale = 0 -> "zero"
    [] InRange(p, v) /\ p.scale # 0 /\ p.type \in SignedType -> "unsupported"
    [] InRange(p, v) /\ p.scale # 0 /\ p.type \in UnsignedType ->
         IF FitsType(p, Raw(p, v)) THEN "none" ELSE "overflow"

Encoded(p, v) == ToBytes(Raw(p, v), Width(p.type))

Decoded(p, value) == Physical(p, FromBytes(value))

-----------------------------------------------------------------------------
VARIABLES
  property,  \* what the manifest says of the property
  value,     \* what the device stores
  outcome,   \* how the last call ended: "none", or what it raised
  asked,     \* the value last written by a client, {} once the application
             \* has written another
  shown      \* the values calls have returned since, for the same value

vars == <<property, value, outcome, asked, shown>>

Init ==
  /\ property \in Properties
  /\ value = ToBytes(0, Width(property.type))
  /\ outcome = "none"
  /\ asked = {}
  /\ shown = {}

\* Client.set_property: encode, exchange, decode what the device answers.
SetProperty(v) ==
  /\ outcome' = Refusal(property, v)
  /\ IF outcome' = "none"
     THEN /\ value' = Encoded(property, v)
          /\ asked' = {v}
          /\ shown' = {Decoded(property, value')}
     ELSE UNCHANGED <<value, asked, shown>>
  /\ UNCHANGED property

\* Client.get_property
GetProperty ==
  /\ IF property.type \in UnsignedType
     THEN outcome' = "none" /\ shown' = shown \cup {Decoded(property, value)}
     ELSE outcome' = "unsupported" /\ UNCHANGED shown
  /\ UNCHANGED <<property, value, asked>>

\* The application writes its variable.
Change ==
  /\ \E raw \in Written :
       /\ raw < Span(Width(property.type))
       /\ value' = ToBytes(raw, Width(property.type))
  /\ asked' = {}
  /\ shown' = {}
  /\ UNCHANGED <<property, outcome>>

Next == GetProperty \/ Change \/ \E v \in Typed : SetProperty(v)

Spec == Init /\ [][Next]_vars

-----------------------------------------------------------------------------
(* Properties.                                                             *)

Byte == 0..Base - 1

TypeOK ==
  /\ property \in Properties
  /\ value \in [1..Width(property.type) -> Byte]
  /\ outcome \in {"none", "range", "zero", "unsupported", "overflow"}
  /\ asked \in SUBSET Typed
  /\ shown \in SUBSET Int

\* When validate_manifest has nothing to say about a property of a supported
\* type, encode_value encodes every value inside its limits: to_bytes does
\* not overflow, and nothing is divided by zero.  The limits are compared in
\* one place and the division done in another.
ValidIsEncodable ==
  Errors(property) = {} => outcome \notin {"zero", "overflow"}

\* What set_property returns, and any later get_property, is the value
\* asked for, to half a step of the scale.
SetIsClose ==
  \A v \in asked, w \in shown : 2 * Magnitude(w - v) <= Magnitude(property.scale)

\* What set_property returns is inside the limits as the value asked for was
\* (and a later get_property logs no warning, property.py:26), except that a
\* limit between two steps of the scale is rounded over: the range is checked
\* before the rounding.
OnAStep(p, limit) == (limit - p.offset) % Magnitude(p.scale) = 0

OnlyBetweenStepsIsOutside ==
  \A v \in asked, w \in shown :
    /\ OnAStep(property, property.min) => property.min <= w
    /\ OnAStep(property, property.max) => w <= property.max

\* Writing back what was read changes nothing, whatever the device stores:
\* reading and writing do not drift.
WriteBackIsNeutral ==
  LET p == property
  IN  p.type \in UnsignedType /\ Refusal(p, Decoded(p, value)) = "none" =>
        Encoded(p, Decoded(p, value)) = value
=============================================================================
