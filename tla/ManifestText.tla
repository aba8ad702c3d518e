---------------------------- MODULE ManifestText ----------------------------
(***************************************************************************)
(* Manifests as text (devprop/manifest.py, devprop/model.py): what         *)
(* parse_manifest_yaml makes of a YAML manifest, what                      *)
(* serialize_manifest_draft_csv writes for the device, and what            *)
(* parse_manifest_draft_csv makes of that on the side of the client.       *)
(*                                                                         *)
(* A text is a sequence of words and of the marks the programs treat as    *)
(* special; a number is one word.  YAML itself is external.                *)
(***************************************************************************)
EXTENDS Integers, FiniteSets, SequencesExt

CONSTANTS
  Upper,   \* Upper[w]: the word w in capitals
  Number,  \* the words that are numbers
  Huge     \* those of them beyond what any property can express

COMMA == ","
EOL   == "\n"
DOT   == "."
ZERO  == "0"

ASSUME TextAssumption ==
  /\ {COMMA, EOL} \cap (DOMAIN Upper \cup Number) = {}
  /\ Huge \subseteq Number

\* The types and the letters they have in a manifest.
TypeCode == [uint8 |-> "B", uint16 |-> "H", uint32 |-> "I",
             int8  |-> "b", int16  |-> "h", int32  |-> "i"]

PropertyType == DOMAIN TypeCode

\* What texts are made of.
Word ==
  DOMAIN Upper \cup Number \cup {COMMA, EOL, DOT}
    \cup {TypeCode[type] : type \in PropertyType} \cup {"r", "w", "rw"}

\* p.readable, p.writable: a letter of operations_str.
Readable(p) == \E i \in DOMAIN p.operations : p.operations[i] \in {"r", "rw"}
Writable(p) == \E i \in DOMAIN p.operations : p.operations[i] \in {"w", "rw"}

-----------------------------------------------------------------------------
(* parse_manifest_yaml.  A property in YAML has a name, the words of its   *)
(* type, a unit, four numbers (offset, scale and the range), and may have  *)
(* an implementation, which is no matter of the manifest.                  *)

Access == {"readonly", "writeonly"}

\* Where there are types among the attributes.
Types(y) == {i \in DOMAIN y.attributes : y.attributes[i] \in PropertyType}

\* It raises for words that are no types, for two of Access, for no type at
\* all, and for numbers that are none or a range of other than two.
YamlPropertyRaises(y) ==
  \/ \E i \in DOMAIN y.attributes : y.attributes[i] \notin PropertyType \cup Access
  \/ Len(y.attributes) > Cardinality(Types(y)) + 1
  \/ Types(y) = {}
  \/ Len(y.numbers) # 4
  \/ \E i \in DOMAIN y.numbers : y.numbers[i] \notin Number
  \/ y.numbers[2] = ZERO

YamlRaises(yaml) == \E i \in DOMAIN yaml.properties : YamlPropertyRaises(yaml.properties[i])

Operations(attributes) ==
  IF Contains(attributes, "readonly") THEN <<"r">>
  ELSE IF Contains(attributes, "writeonly") THEN <<"w">> ELSE <<"rw">>

\* The last type counts.
ParsedYaml(yaml) ==
  [device |-> yaml.device,
   properties |-> [i \in DOMAIN yaml.properties |->
     LET y == yaml.properties[i]
     IN  [index |-> i, name |-> y.name, type |-> y.attributes[Max(Types(y))], unit |-> y.unit,
          numbers |-> [k \in 1..4 |-> <<y.numbers[k]>>], operations |-> Operations(y.attributes),
          implementation |-> y.implementation]]]

-----------------------------------------------------------------------------
(* serialize_manifest_draft_csv.                                           *)

Line(p) ==
  p.name \o <<COMMA, TypeCode[p.type], COMMA>> \o p.unit \o <<COMMA>>
    \o p.numbers[1] \o <<COMMA>> \o p.numbers[2] \o <<COMMA>>
    \o p.numbers[3] \o <<COMMA>> \o p.numbers[4] \o <<COMMA>> \o p.operations \o <<EOL>>

\* What is written after so many properties.
Written(manifest) ==
  LET text[i \in 0..Len(manifest.properties)] ==
        IF i = 0 THEN manifest.device \o <<EOL>>
        ELSE text[i - 1] \o Line(manifest.properties[i])
  IN  text

Serialized(manifest) == Written(manifest)[Len(manifest.properties)]

-----------------------------------------------------------------------------
(* parse_manifest_draft_csv.                                               *)

\* The number in a set of numbers that is above k others.
Nth(S, k) == CHOOSE i \in S : Cardinality({j \in S : j < i}) = k

\* What is between the marks of a text.
Cuts(text, mark) == {i \in DOMAIN text : text[i] = mark} \cup {0, Len(text) + 1}

Split(text, mark) ==
  LET cuts == Cuts(text, mark)
  IN  [k \in 1..Cardinality(cuts) - 1 |-> SubSeq(text, Nth(cuts, k - 1) + 1, Nth(cuts, k) - 1)]

\* The lines after the first, but for empty ones.
Rows(csv) ==
  LET lines == Tail(Split(csv, EOL))
      filled == {i \in DOMAIN lines : lines[i] # << >>}
  IN  [k \in 1..Cardinality(filled) |-> lines[Nth(filled, k - 1)]]

\* It raises for a line of other than eight columns, or of no known type.
CsvRaises(csv) ==
  \E i \in DOMAIN Rows(csv) :
    LET columns == Split(Rows(csv)[i], COMMA)
    IN  Len(columns) # 8 \/ \A type \in PropertyType : columns[2] # <<TypeCode[type]>>

TypeOf(code) == CHOOSE type \in PropertyType : <<TypeCode[type]>> = code

\* Variant: the index is counted from zero.
ParsedRowFromZero(i, columns) ==
  [index |-> i - 1, name |-> columns[1], type |-> TypeOf(columns[2]), unit |-> columns[3],
   numbers |-> SubSeq(columns, 4, 7), operations |-> columns[8], implementation |-> "absent"]

ParsedRow(i, columns) ==
  [index |-> i, name |-> columns[1], type |-> TypeOf(columns[2]), unit |-> columns[3],
   numbers |-> SubSeq(columns, 4, 7), operations |-> columns[8], implementation |-> "absent"]

ParsedCsv(csv) ==
  [device |-> Head(Split(csv, EOL)),
   properties |-> [i \in DOMAIN Rows(csv) |-> ParsedRow(i, Split(Rows(csv)[i], COMMA))]]

\* validate_manifest makes a complaint about the maximum with the minimum in
\* it, which is no number if that was the first complaint.  Only a CSV file
\* gets that far with such a property.
ValidationRaises(p) ==
  LET known(k) == \E word \in Number : p.numbers[k] = <<word>>
  IN  known(1) /\ known(2) /\ ~ known(3) /\ \E word \in Huge : p.numbers[4] = <<word>>
=============================================================================
