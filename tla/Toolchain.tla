----------------------------- MODULE Toolchain ------------------------------
(***************************************************************************)
(* From a manifest somebody writes to a value a command prints: the        *)
(* manifest compiler (devprop/manifest_compiler.py) and the files it       *)
(* leaves, the devices built from them and the test server that stands in  *)
(* for one (devprop/test_server.py), and getprop and setprop, which find   *)
(* a property by the names of the device and of the property.              *)
(*                                                                         *)
(* The scan in between loses nothing here: what becomes of one that does   *)
(* is in ManifestScan, whose node here is one whose envelope a client can  *)
(* fetch and read.  A device does what its table says (DeviceLib), and the *)
(* arithmetic of values is in PropertyValue.  zlib and the hash bring back *)
(* what was put in.                                                        *)
(***************************************************************************)
EXTENDS CodeGenerator, TestServer, FiniteSets

CONSTANTS
  Source,   \* Source[s]: what is in the manifest s, be it YAML or CSV, and
            \* how many bytes its payload has once it is compressed
  Names,    \* pairs of a device's and a property's name users ask for
  Ids,      \* the node ids in use
  Values,   \* the values users set
  Frames,   \* frames on the bus that are not those of the tools
  COUNT_VALUES,    \* the values of a uint8_t; the code has 256
  Accepts(_, _),   \* encode_value turns a value into an integer by the
                   \* numbers of a property: it raises if the value is out of
                   \* range or if there is no such integer
  RawOf(_, _),     \* the integer
  Decodes(_, _),   \* decode_value turns a raw value into a number by the
                   \* numbers of a property; it raises if these are none
  MaxRuns   \* bound: compilations, builds and servers started

HEADER_LENGTH == 7
LENGTH_VALUES == 65536        \* the values of a uint16_t

Byte  == 0..255
Short == 0..65535

YamlProperty ==
  [name : Seq(Word), attributes : Seq(STRING), unit : Seq(Word), numbers : Seq(Word),
   implementation : STRING]

ASSUME ToolchainAssumption ==
  /\ \A s \in DOMAIN Source :
    /\ Source[s].compressed \in Nat
    /\ \/ /\ Source[s].kind = "yaml"
          /\ Source[s].yaml \in [device : Seq(Word), properties : Seq(YamlProperty)]
       \/ Source[s].kind = "csv" /\ Source[s].csv \in Seq(Word)
  /\ Ids \subseteq 0..30
  /\ COUNT_VALUES \in Nat \ {0}
  /\ \A msg \in Frames : msg.id \in Nat /\ msg.data \in Seq(Byte)
  /\ MaxRuns \in Nat

VARIABLES
  files,   \* files[module]: the three C files of a module, once there are any
  nodes,   \* nodes[n]: the device with node id n, with the manifest it was
           \* made from and what this is to clients
  nRuns

vars == <<files, nodes, nRuns>>

-----------------------------------------------------------------------------
(* Manifests.                                                              *)

Yaml == {s \in DOMAIN Source : Source[s].kind = "yaml"}

\* What makes the compiler raise before it writes anything: the last is
\* add_envelope, whose header has sixteen bits for the length.
Raises(s) ==
  \/ IF s \in Yaml THEN YamlRaises(Source[s].yaml)
     ELSE \/ CsvRaises(Source[s].csv)
          \/ LET properties == ParsedCsv(Source[s].csv).properties
             IN  \E i \in DOMAIN properties : ValidationRaises(properties[i])
  \/ Source[s].compressed >= LENGTH_VALUES

EnvelopeLength(s) == HEADER_LENGTH + Source[s].compressed

ManifestOf(s) ==
  IF s \in Yaml THEN ParsedYaml(Source[s].yaml) ELSE ParsedCsv(Source[s].csv)

\* manifest_payload: what is in a CSV file goes into the envelope as it is.
PayloadOf(s) == IF s \in Yaml THEN Serialized(ManifestOf(s)) ELSE Source[s].csv

\* What a client gets from a payload; a node whose payload it cannot read is
\* not among those it knows.
Unreadable == [device |-> << >>, properties |-> << >>]

Shown(payload) == IF CsvRaises(payload) THEN Unreadable ELSE ParsedCsv(payload)

-----------------------------------------------------------------------------
(* The compiler.                                                           *)

\* A file is of a manifest and a node id, or not there, or empty.
Missing == [is |-> "missing"]
Empty   == [is |-> "empty"]
Output(s, id) == [is |-> "output", of |-> s, node |-> id]

NoNode  == [kind |-> "none"]

Init ==
  /\ files = << >>
  /\ nodes = [n \in Ids |-> NoNode]
  /\ nRuns = 0

Run ==
  /\ nRuns < MaxRuns
  /\ nRuns' = nRuns + 1

FilesOf(module) ==
  IF module \in DOMAIN files THEN files[module]
  ELSE [c |-> Missing, h |-> Missing, stubs |-> Missing]

Write(module, new) ==
  files' = [m \in DOMAIN files \cup {module} |-> IF m = module THEN new ELSE files[m]]

Generated(s, id) == [c |-> Output(s, id), h |-> Output(s, id), stubs |-> Output(s, id)]

\* Variant: the header is written first.
GenerateHeaderFirst(s, module, id, raises) ==
  Write(module, IF raises THEN [FilesOf(module) EXCEPT !.h = Output(s, id), !.c = Empty]
                ELSE Generated(s, id))

\* Codegen.generate.  A file is opened, and so emptied, before its template
\* is rendered; what raises in any template does so in the first.
Generate(s, module, id, raises) ==
  Write(module, IF raises THEN [FilesOf(module) EXCEPT !.c = Empty] ELSE Generated(s, id))

\* main of the compiler.  Complaints of validate_manifest are logged and
\* change nothing, and envelopes (-o) are kept: see StartServer.
Compile(s, id) ==
  /\ Run
  /\ ~ Raises(s)
  /\ LET manifest == ManifestOf(s)
     IN  Generate(s, Identifier(manifest.device), id, GenerationRaises(manifest))
  /\ UNCHANGED nodes

-----------------------------------------------------------------------------
(* Devices.                                                                *)

VariablesOf(manifest) ==
  {Identifier(manifest.properties[i].name) : i \in DOMAIN manifest.properties}

\* A firmware is built from the generated files and the application's
\* getters and setters, which keep one value for each identifier; it
\* replaces what had the node id before.  The device serves as many bytes of
\* the envelope as a uint16_t can tell (manifest_length).
Build(module) ==
  LET c == files[module].c
      h == files[module].h
  IN  /\ Run
      /\ c.is = "output" /\ h.is = "output"
      /\ CompilesAsC(ManifestOf(h.of))
      /\ LET manifest == ManifestOf(c.of)
         IN  nodes' = [nodes EXCEPT ![h.node] =
                         [kind |-> "c", manifest |-> manifest, table |-> Table(manifest),
                          shown |-> Shown(PayloadOf(c.of)),
                          size |-> EnvelopeLength(c.of) % LENGTH_VALUES,
                          values |-> [v \in VariablesOf(manifest) |-> 0]]]
      /\ UNCHANGED files

\* main of the test server: a YAML manifest, or the envelope the compiler has
\* made of one in CSV.
StartServer(s, id) ==
  /\ Run
  /\ ~ Raises(s)
  /\ LET payload == PayloadOf(s)
     IN  nodes' = [nodes EXCEPT ![id] =
                     [kind |-> "server", payload |-> payload, shown |-> Shown(payload),
                      size |-> EnvelopeLength(s), values |-> << >>]]
  /\ UNCHANGED files

IsServer(n) == nodes[n].kind = "server"

Taken(n, msg) == Take(nodes[n].payload, nodes[n].values, n, msg)

\* A frame from somebody else.
TakeFrame(n, msg) ==
  /\ IsServer(n)
  /\ \E outcome \in Taken(n, msg) :
       nodes' = [nodes EXCEPT ![n] = IF outcome.alive THEN [@ EXCEPT !.values = outcome.values]
                                     ELSE NoNode]
  /\ UNCHANGED <<files, nRuns>>

-----------------------------------------------------------------------------
(* The commands.                                                           *)

Width(type) == CASE type \in {"uint8", "int8"} -> 1
                 [] type \in {"uint16", "int16"} -> 2
                 [] type \in {"uint32", "int32"} -> 4

\* int.to_bytes and int.from_bytes, in little-endian order.
Weight == <<1, 256, 65536, 16777216>>

Bytes(raw, width) == [i \in 1..width |-> (raw \div Weight[i]) % 256]

Decoded(data) ==
  LET digit(i) == IF i <= Len(data) THEN data[i] * Weight[i] ELSE 0
  IN  digit(1) + digit(2) + digit(3) + digit(4)

\* to_bytes raises OverflowError for any other raw value.
OfWidth(raw, width) == raw \in Nat /\ raw \div Weight[width] < 256

\* A first segment of fewer bytes ends enumerate_nodes, and nothing is found.
ScanRaises == \E n \in Ids : nodes[n].kind # "none" /\ nodes[n].size < SEGMENT_SIZE

\* The envelope of n can be downloaded: make_frame_id takes the number of its
\* last segment.
Fetched(n) ==
  /\ ~ ScanRaises
  /\ ClientCanMake(n, READ_MANIFEST, (nodes[n].size - 1) \div SEGMENT_SIZE)

\* The nodes a scan finds that loses nothing, and what it knows of them.
Visible == {n \in Ids : nodes[n].kind # "none" /\ nodes[n].shown # Unreadable /\ Fetched(n)}

ManifestAt(n) == nodes[n].shown

NodesNamed(device) == {n \in Visible : ManifestAt(n).device = device}

\* The properties of the names, each with its node.
Meant(device, name) ==
  UNION {{<<n, ManifestAt(n).properties[i]>> :
            i \in {j \in DOMAIN ManifestAt(n).properties : ManifestAt(n).properties[j].name = name}} :
         n \in NodesNamed(device)}

\* Variant: the first one of the names is taken.
FoundOneOrMore(device, name) == Meant(device, name) # {}

OneIn(S) == \E x \in S : S = {x}

\* node, = [...]; property, = [...]: exactly one.
FoundOne(device, name) == OneIn(NodesNamed(device)) /\ OneIn(Meant(device, name))

NoAnswer == << >>

\* num_properties: what is left of the length of the table in a uint8_t.
Counted(dev) == Len(dev.table) % COUNT_VALUES

\* What a node makes of a request: its values afterwards, the data of the
\* response, and whether the application reported an error.  An error is no
\* answer to PropertyQuery.  An index may be one beyond those counted, and
\* just past its table a device does as it likes (DeviceLib).  Getters and
\* setters may fail unless they are generated, as those of constants are.
Answers(n, msg) ==
  LET opcode == OpcodeOf(msg.id)
      index == PropertyIndex(msg.id)
      dev == nodes[n]
      row == dev.table[index]
      variable == IF opcode = READ_PROPERTY THEN row.getter ELSE row.setter
      answered(values, data) == [values |-> values, data |-> data, failed |-> FALSE]
      refused == answered(dev.values, NoAnswer)
      failed == [values |-> dev.values, data |-> NoAnswer, failed |-> TRUE]
      stray == {answered(dev.values, Bytes(0, width)) : width \in {1, 2, 4}}
  IN  IF IsServer(n)
      THEN {answered(o.values,
                     IF OpcodeOf(o.out[1].id) = opcode THEN o.out[1].data ELSE NoAnswer) :
              o \in Taken(n, msg)}
      ELSE IF index \notin 1..Counted(dev) + 1 THEN {refused}
      ELSE IF index \notin DOMAIN dev.table THEN {refused} \cup stray
      ELSE IF variable = NULL THEN {refused}
      ELSE IF opcode = READ_PROPERTY
      THEN {answered(dev.values, Bytes(dev.values[variable], Width(row.type)))}
             \cup {f \in {failed} : dev.manifest.properties[index].implementation # "const"}
      ELSE IF Len(msg.data) # Width(row.type) THEN {refused}
      ELSE {answered([dev.values EXCEPT ![variable] = Decoded(msg.data)], msg.data), failed}

\* fault: a request or a response was lost, or the application failed.
Raised(fault) == [nodes |-> nodes, how |-> "raised", fault |-> fault]

\* decode_value asserts the width and has no signed types.
Decodable(data, p) ==
  /\ data # NoAnswer
  /\ p.type \in UnsignedType
  /\ Len(data) = Width(p.type)
  /\ Decodes(Decoded(data), p.numbers)

\* Variant: the None of a query that failed is decoded as zero.
EndedAsZero(n, p, answer, lost) ==
  [nodes |-> [nodes EXCEPT ![n].values = answer.values], how |-> "ok", fault |-> FALSE,
   value |-> IF lost \/ answer.data = NoAnswer THEN 0 ELSE Decoded(answer.data)]

\* The response of n to a request, decoded: what the command prints, or that
\* it raises.
Ended(n, p, answer, lost) ==
  LET then == [nodes EXCEPT ![n].values = answer.values]
  IN  IF lost \/ ~ Decodable(answer.data, p)
      THEN [Raised(lost \/ answer.failed) EXCEPT !.nodes = then]
      ELSE [nodes |-> then, how |-> "ok", fault |-> FALSE, value |-> Decoded(answer.data)]

\* A request for property p, unless its index is beyond what make_frame_id
\* takes.  Request and response may get lost.
Exchanged(n, p, opcode, data) ==
  IF ~ ClientCanMake(n, opcode, p.index) THEN {Raised(FALSE)}
  ELSE {Raised(TRUE)} \cup
       UNION {{Ended(n, p, answer, lost) : lost \in BOOLEAN} :
          answer \in Answers(n, Message(MakeId(CLIENT_TO_DEVICE, n, opcode, p.index), data))}

\* encode_value returns: there are no bytes for signed types, for what is out
\* of range, nor for a raw value that does not fit the type.
Encodable(value, p) ==
  /\ p.type \in UnsignedType
  /\ Accepts(value, p.numbers)
  /\ OfWidth(RawOf(value, p.numbers), Width(p.type))

\* main of getprop and of setprop, as the outcomes this may have.
Got(device, name) ==
  IF ~ FoundOne(device, name) THEN {Raised(FALSE)}
  ELSE UNION {Exchanged(x[1], x[2], READ_PROPERTY, << >>) : x \in Meant(device, name)}

Set(device, name, value) ==
  IF ~ FoundOne(device, name) THEN {Raised(FALSE)}
  ELSE UNION {IF ~ Encodable(value, x[2]) THEN {Raised(FALSE)}
              ELSE Exchanged(x[1], x[2], WRITE_PROPERTY,
                             Bytes(RawOf(value, x[2].numbers), Width(x[2].type))) :
                x \in Meant(device, name)}

Getprop(device, name) ==
  /\ \E outcome \in Got(device, name) : nodes' = outcome.nodes
  /\ UNCHANGED <<files, nRuns>>

Setprop(device, name, value) ==
  /\ \E outcome \in Set(device, name, value) : nodes' = outcome.nodes
  /\ UNCHANGED <<files, nRuns>>

-----------------------------------------------------------------------------
Next ==
  \/ \E s \in DOMAIN Source, id \in Ids : Compile(s, id)
  \/ \E module \in DOMAIN files : Build(module)
  \/ \E s \in DOMAIN Source, id \in Ids : StartServer(s, id)
  \/ \E n \in Ids, msg \in Frames : TakeFrame(n, msg)
  \/ \E names \in Names : Getprop(names[1], names[2])
  \/ \E names \in Names, value \in Values : Setprop(names[1], names[2], value)

Spec == Init /\ [][Next]_vars

-----------------------------------------------------------------------------
(* Properties.                                                             *)

Devices == {n \in Ids : nodes[n].kind = "c"}

File == {Missing, Empty} \cup {Output(s, id) : s \in DOMAIN Source, id \in Ids}

\* Types: among them, that the test server keeps values of sixteen bits and
\* an application one variable for each identifier of its table.
TypeOK ==
  /\ \A module \in DOMAIN files : files[module] \in [c : File, h : File, stubs : File]
  /\ \A n \in Ids :
       /\ nodes[n].kind \in {"none", "c", "server"}
       /\ IsServer(n) => \A i \in DOMAIN nodes[n].values :
                           i \in Indices /\ nodes[n].values[i] \in Short
       /\ n \in Devices => \A i \in DOMAIN nodes[n].table :
                             {nodes[n].table[i].getter, nodes[n].table[i].setter} \ {NULL}
                               \subseteq DOMAIN nodes[n].values
  /\ nRuns \in 0..MaxRuns

\* Whatever fails in between, the three files of a module are of the same
\* manifest and the same compilation, or the C file is empty, which no
\* linker takes: a header never goes with a table in another order.
\* (Codegen.generate, which overwrites files one after the other)
FilesAgree ==
  \A module \in DOMAIN files :
    /\ files[module].h = files[module].stubs
    /\ files[module].c \in {files[module].h, Empty}

PlainText(text) == {COMMA, EOL} \cap Range(text) = {}

PlainManifest(manifest) ==
  PlainText(manifest.device) /\
  \A i \in DOMAIN manifest.properties :
    PlainText(manifest.properties[i].name) /\ PlainText(manifest.properties[i].unit)

\* A client and the device agree on what each index is: unless a text has a
\* comma or a line break in it, which the compiler does not notice, a scan
\* finds the device if its envelope has no more segments than a client asks
\* for (and none on the bus is so long that its length wraps around), and the
\* manifest it was built from comes out of serialization and parsing as it
\* went in, row by row of the property table, with the operations there are
\* callbacks for.
\* (serialize_manifest_draft_csv against parse_manifest_draft_csv, and
\* devprop_user.c)
ClientSeesTheTable ==
  \A n \in Devices :
    PlainManifest(nodes[n].manifest) =>
      /\ Fetched(n) => n \in Visible
      /\ ManifestAt(n).device = nodes[n].manifest.device
      /\ DOMAIN ManifestAt(n).properties = DOMAIN nodes[n].table
      /\ \A i \in DOMAIN nodes[n].table :
           LET p == ManifestAt(n).properties[i]
               row == nodes[n].table[i]
               built == nodes[n].manifest.properties[i]
           IN  /\ p.index = i
               /\ p.type = row.type
               /\ <<p.name, p.unit, p.numbers>> = <<built.name, built.unit, built.numbers>>
               /\ row.getter = IF Readable(p) THEN Identifier(p.name) ELSE NULL
               /\ row.setter = IF Writable(p) THEN Identifier(p.name) ELSE NULL

\* The raw value a node has of a property.
ValueAt(node, p) ==
  IF node.kind = "server" THEN node.values[p.index] ELSE node.values[Identifier(p.name)]

Holds(node, p, value) ==
  /\ node.kind = "server" => Known(node.values, p.index)
  /\ ValueAt(node, p) = value

\* Nodes whose manifests mean to clients what they mean to the device.
Plain(n) == IsServer(n) \/ PlainManifest(nodes[n].manifest)

\* What a command prints is what every property of the names then has that a
\* user can mean, on whatever node: there is no second one to take it for.
\* (node, = ... and property, = ... of getprop and setprop)
PrintedIsTrue ==
  \A names \in Names :
    \A outcome \in Got(names[1], names[2])
                     \cup UNION {Set(names[1], names[2], value) : value \in Values} :
      outcome.how = "ok" =>
        \A x \in Meant(names[1], names[2]) :
          Plain(x[1]) => Holds(outcome.nodes[x[1]], x[2], outcome.value)

\* What a command takes once its property is found; after is the node when
\* the command is over.
Permitted(n, writes, p, value, after) ==
  /\ p.index <= MAX_PROPERTY_INDEX
  /\ IF IsServer(n) THEN p.type = "uint16"
     ELSE /\ p.index <= Counted(nodes[n]) + 1
          /\ IF writes THEN Writable(p) ELSE Readable(p)
  /\ writes => Encodable(value, p)
  /\ Decodes(ValueAt(after, p), p.numbers)

\* A command succeeds exactly when nothing is lost and no getter or setter
\* reports an error, its names are those of one property of one node that a
\* scan finds, the property has an index that a frame can carry and the
\* device lets through, a value to be written is in range and fits the type,
\* what the node then has can be decoded, and the device has the callback; on
\* the test server any such property of sixteen bits can be read and written.
\* In all other cases it raises: for what nobody answered no value is ever
\* made up.
\* (Client.get_property, which decodes the None of a failed query, and
\* Client.set_property)
SucceedsExactlyWhenPermitted ==
  \A names \in Names, writes \in BOOLEAN, value \in Values :
    \A outcome \in IF writes THEN Set(names[1], names[2], value) ELSE Got(names[1], names[2]) :
      (\A n \in NodesNamed(names[1]) : Plain(n)) =>
        (outcome.how = "ok" <=>
           /\ ~ outcome.fault
           /\ FoundOne(names[1], names[2])
           /\ \A x \in Meant(names[1], names[2]) :
                Permitted(x[1], writes, x[2], value, outcome.nodes[x[1]]))

IsRequestTo(msg, n) ==
  /\ IsDevprop(msg.id) /\ OpcodeOf(msg.id) \in Opcode
  /\ NodeOf(msg.id) = n /\ DirOf(msg.id) = CLIENT_TO_DEVICE

\* An outcome with one response, which a client takes for the answer to the
\* request or for an error about the same index.
IsAnswer(outcome, n, msg) ==
  /\ outcome.alive
  /\ Len(outcome.out) = 1
  /\ LET id == outcome.out[1].id
     IN  /\ IsDevprop(id) /\ DirOf(id) = DEVICE_TO_CLIENT
         /\ NodeOf(id) = n
         /\ PropertyIndex(id) = PropertyIndex(msg.id)
         /\ OpcodeOf(id) \in {OpcodeOf(msg.id), ERROR}

\* A request to the test server never ends it and is answered once, whatever
\* it asks for and whatever the server knows; a frame for others is not
\* answered.  (main of the test server, which catches everything while it
\* looks at the request and nothing before)
ServerAnswers ==
  \A n \in {m \in Ids : IsServer(m)}, msg \in Frames : \A outcome \in Taken(n, msg) :
    IF IsRequestTo(msg, n) THEN IsAnswer(outcome, n, msg) ELSE outcome.out = << >>
=============================================================================
