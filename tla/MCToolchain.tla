---------------------------- MODULE MCToolchain -----------------------------
(***************************************************************************)
(* Manifests for the Toolchain that differ in what the compiler, the C     *)
(* compiler or a client stumbles over, and two node ids.  A byte counts to *)
(* three here, so that properties have the indices 1 and 2, an envelope    *)
(* has three segments, and a table of three properties is one too long.    *)
(***************************************************************************)
EXTENDS Toolchain

MCUpper ==
  [w \in {"x", "X", "a", "A", "b", "_", "1"} |->
     CASE w = "x" -> "X" [] w = "a" -> "A" [] w = "b" -> "B" [] OTHER -> w]

MCHuge   == {"9"}
MCNumber == {"0", "1", "255"} \cup MCHuge

X  == <<"x">>
A  == <<"a">>
AB == <<"a", ".", "b">>

\* What the numbers are worth, and what encode_value and decode_value make of
\* them: a maximum that is none is not looked at below the minimum.
Worth == [w \in MCNumber |-> CASE w = "0" -> 0 [] w = "1" -> 1 [] w = "255" -> 255
                               [] OTHER -> 999]

Numeric(text) == \E w \in MCNumber : text = <<w>>

WorthOf(text) == Worth[text[1]]

MCAccepts(value, numbers) ==
  /\ \A k \in 1..4 : Numeric(numbers[k])
  /\ WorthOf(numbers[3]) <= value /\ value <= WorthOf(numbers[4])
  /\ WorthOf(numbers[2]) # 0

MCRawOf(value, numbers) == (value - WorthOf(numbers[1])) \div WorthOf(numbers[2])

MCDecodes(raw, numbers) ==
  /\ \A k \in 1..3 : Numeric(numbers[k])
  /\ \/ Numeric(numbers[4])
     \/ WorthOf(numbers[1]) + raw * WorthOf(numbers[2]) < WorthOf(numbers[3])

\* All values of a byte, and ranges with more above it or below.
Linear == <<"0", "1", "0", "255">>
Above  == <<"0", "1", "0", "9">>
Below  == <<"255", "1", "0", "9">>

Prop(name, attributes) ==
  [name |-> name, attributes |-> attributes, unit |-> << >>, numbers |-> Linear,
   implementation |-> "none"]

\* Manifests whose envelopes have two segments.
YamlFile(properties) ==
  [kind |-> "yaml", yaml |-> [device |-> X, properties |-> properties], compressed |-> 9]

\* A device as it should be, with types the tools handle and two operations,
\* and an envelope of as many segments as there may be.
Fine == [YamlFile(<<Prop(A, <<"uint8">>), Prop(AB, <<"uint16", "readonly">>)>>)
           EXCEPT !.compressed = 17]

\* Values that are in range and too large or too small for the type.
Narrow == YamlFile(<<[Prop(A, <<"uint8">>) EXCEPT !.numbers = Above],
                     [Prop(AB, <<"uint16">>) EXCEPT !.numbers = Below]>>)

\* One property more than there may be, one byte more, as many bytes as the
\* envelope can tell but a device cannot, and too many for both.
Crowded  == YamlFile(<<Prop(A, <<"uint8">>), Prop(AB, <<"uint8">>), Prop(<<"b">>, <<"uint8">>)>>)
Long     == [YamlFile(<<Prop(A, <<"uint16">>)>>) EXCEPT !.compressed = 18]
Wrapping == [YamlFile(<<Prop(A, <<"uint16">>)>>) EXCEPT !.compressed = 65535]
Enormous == [YamlFile(<<Prop(A, <<"uint16">>)>>) EXCEPT !.compressed = 65536]

\* Names that only differ in capitals and dots.
OtherCase == YamlFile(<<Prop(AB, <<"uint8">>), Prop(<<"A", "_", "b">>, <<"uint8">>)>>)

\* A unit with a comma, a line break and a property behind it.
UnitWithLine ==
  YamlFile(<<[Prop(A, <<"uint8">>) EXCEPT !.unit =
            <<"b", ",", "0", ",", "1", ",", "0", ",", "255", ",", "rw", "\n",
              "b", ",", "B", ",", "x">>]>>)

\* What a template raises for: a signed type, or a constant to be written.
Signed == YamlFile(<<[Prop(A, <<"int8">>) EXCEPT !.implementation = "const"]>>)

Constant ==
  YamlFile(<<[Prop(A, <<"uint8", "readonly">>) EXCEPT !.implementation = "const"],
         [Prop(AB, <<"uint32", "writeonly">>) EXCEPT !.numbers = Above]>>)

\* What parse_manifest_yaml raises for.
TwoAccesses == YamlFile(<<Prop(A, <<"uint8", "readonly", "writeonly">>)>>)

\* CSV: with empty lines and a maximum that is none, and with a minimum that
\* is none.
CsvLine(min, max) ==
  <<"a", ",", "H", ",", ",", "0", ",", "1", ",", min, ",", max, ",", "rw", "\n">>
CsvFile(text) == [kind |-> "csv", csv |-> text, compressed |-> 9]
NoMaximum == CsvFile(<<"x", "\n", "\n">> \o CsvLine("1", "b") \o <<"\n">>)
NoMinimum == CsvFile(<<"x", "\n">> \o CsvLine("b", "9"))

MCSource ==
  [fine |-> Fine, otherCase |-> OtherCase, unitWithLine |-> UnitWithLine,
   signed |-> Signed, constant |-> Constant, narrow |-> Narrow, crowded |-> Crowded,
   long |-> Long, wrapping |-> Wrapping, enormous |-> Enormous,
   twoAccesses |-> TwoAccesses, noMaximum |-> NoMaximum, noMinimum |-> NoMinimum]

MCNames == {X} \X {A, AB, <<"b">>}

Request(node, opcode, index, data) ==
  Message(MakeId(CLIENT_TO_DEVICE, node, opcode, index), data)

\* Requests of each kind to node 1, the reserved index among them, a write of
\* one byte, a response in its name, and two frames that are not for it.
MCFrames ==
  {Request(1, READ_PROPERTY, 1, << >>),
   Request(1, WRITE_PROPERTY, 0, <<0, 0>>), Request(1, WRITE_PROPERTY, 1, <<1>>),
   Request(1, READ_MANIFEST, 0, << >>), Request(1, READ_MANIFEST, 2, << >>),
   Request(1, ERROR, 1, << >>), Request(2, READ_MANIFEST, 0, << >>),
   Message(MakeId(DEVICE_TO_CLIENT, 1, READ_PROPERTY, 1), << >>),
   Message(MakeId(CLIENT_TO_DEVICE, 1, 3, 1), << >>), Message(291, << >>)}
=============================================================================
