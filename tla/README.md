# A TLA+ model of devprop

devprop lets a client read a device's *manifest* (which properties it has, of
what type, unit, scale and limits) and then read and write those properties,
over CAN or anything that can carry CAN frames. This directory models the
protocol from both ends, checks the models with TLC and proves some of the
results with TLAPS.

Paths below are relative to the repository; `py/` is `devprop/`, `c:` is
`lang_c/devprop_can_ext_v1.c`.

## 1. The system

| Component | State | Operations | Talks to |
|---|---|---|---|
| Message format (`py/protocol_can_ext_v1/model.py`, `messages.py`; `c:`) | none | pack and unpack a 29-bit identifier, make requests and responses | all others |
| Device library (`lang_c/`) | a `dp_Node`: id, table, manifest; the application's variables behind getters and setters | `dp_node_init`, `dp_handle_message_ext` | the application (callbacks), the bus |
| Property access (`py/client.py`, `state_machines.py`, `can_bus/adapter.py`) | one `PropertyQuery` at a time; the adapter's receive queue outlives it | `query_properties`, `get_property`, `set_property` | an adapter |
| Bus scan (`py/client.py`, `state_machines.py`, `manifest.py`) | candidates, first segments, the envelope so far, `_request_sent_at` | `enumerate_nodes` with `ManifestDownload` | an adapter |
| python-can adapter (`py/can_bus/python_can_adapter.py`) | python-can's queue | `send`, `receive(deadline)` | the bus |
| Serial-wrapped adapter (`py/can_bus/serial_wrapped_can_adapter.py`) | `_buffer`, the bytes of an unfinished frame | `send`, `receive(deadline)` | a serial line |
| Ocarina adapter (`devprop-ocarina/`) | a reader thread, an event queue | `receive`, `send` | a CAN interface with its own serial protocol |
| Values (`py/property.py`, `manifest.py: validate_manifest`) | none | encode, decode, validate | client, manifest compiler |
| Manifest text (`py/manifest.py`) | none | YAML and CSV to a `Manifest` and back, envelope | compiler, scan |
| Manifest compiler and C generator (`py/manifest_compiler.py`, `py/lang_c/`) | the three C files of each module | a compilation | the build of a firmware |
| Explorer (`devprop_explorer/`) | tables, enabled buttons, worker threads | scan, get all, edit a value | one `Client` shared by all threads |
| Test server (`py/test_server.py`) | `property_values`, a dictionary | one request after another | an adapter |
| Command-line tools (`py/getprop.py`, `setprop.py`, `devscan.py`) | none | a scan, and a call by the names of a device and a property | one `Client` |

How they interact: a client *sends* one request and *receives* until a frame
fits or its deadline passes. A request is one CAN frame and so is its response;
the only link between the two is the identifier (direction, node, operation,
property index), there are no transaction numbers. CAN is a broadcast medium:
each client sees the requests and responses of all the others. A receive queue
belongs to the adapter and not to the call, so that what one call did not take
is there at the next.

What is hard:

- *Late answers.* A response that comes after its deadline is the first thing
  the next call finds.
- *Other members of the bus.* Requests and responses of other clients and
  frames of other protocols arrive in the middle of a call; `unpack_id` raises
  for the latter.
- *Partial results.* A manifest is put together from up to 256 responses, of
  which any may be lost, late, repeated for somebody else, or of newer firmware.
- *Failure.* Requests and responses get lost, devices restart.
- *Bytes.* On a serial line frames lose delimiters, and deadlines pass in the
  middle of a frame.
- *Threads.* The Explorer starts a worker before anything listens to it, lets the
  user go on meanwhile, and shows results when they come.
- *Texts that travel.* A manifest is written in YAML, compiled into a table and
  into a text, and taken apart again by clients; an index is a row number in all
  three. Compilations may raise half-way.
- *Numbers at their limits.* The index past the table, node 31, the last
  segment, limits against offset, scale and type.

What makes each correct: a device answers each request once and tells the truth;
a query takes no answer but its own; a scan finds exactly the devices with a
sound manifest and never makes one up; every call ends; an adapter loses no more
than the line did; a valid property can be encoded and comes back as it was
written. `PROJECT.json` lists the hazards one by one, each at its line and with
the properties that would catch it.

## 2. The modules

```
CanExtV1 -- DeviceLib -+- Device ....... implements DeviceContract
                       +- PropertyAccess   (clients + devices + bus)
                       +- ManifestScan     (one scanning client + devices + bus)
CanExtV1 -- TestServer -----------------+- Toolchain  (compiler, files, devices,
ManifestText -- CodeGenerator ----------+              test servers, commands)
SerialWrap    (one direction of a serial line) ................ implements BusAdapter
OcarinaReader (a USB interface, its reader thread, and receive)  implements BusAdapter
PropertyValue (validate, encode, exchange, decode)
Explorer      (the GUI thread and its workers)
```

The `MC*` modules hold the values of constants for TLC; the `*_proofs` modules
hold the theorems. A definition whose comment says *Variant* is a defect one
could have written in the definition it precedes; it is used only to see that
the properties notice.

**CanExtV1** is the identifier: fields as quotients and remainders, the values of
`Opcode`, `Direction` and `dp_ErrorCode`, what `make_frame_id` and `dpp_make_id`
assert (`IndexAllowed`, `ClientCanMake`, `DeviceCanMake`), and the requests.

**DeviceLib** is `dp_handle_message_ext` as a function from the device's values
and a frame to the set of outcomes: the values afterwards, the frame sent (or
none) and whether the device survives. `Handle` follows the code's branches:
`ReadManifest`, `ReadProperty`, `WriteProperty`, `SendError`; `Reply` flips the
direction bit, as `id ^ DIR_MASK` does. The callbacks are the application's and
nondeterministic: a setter keeps a value up to a limit and reports what it kept,
and both may fail with an error. What they give and take is of the C type of the
property (`OfType`), whatever the limit. `PastTheTable` is what the code does one past
its table, where it uses memory that is not a property: an error, any value, or
the end of the device. A failed `assert` ends it, too (`Aborted`): the Makefile
builds without `NDEBUG`.

**Device** puts one such device under every kind of frame, with `Change` (the
application) and `Restart`. **DeviceContract** is the specification a client
relies on: ignore what is no request, refuse without effect, or answer once and
truthfully. It refuses only what it may (`Refusable`): a read of the manifest with a
payload, and reads and writes that are not for a property with that callback, not of
its width, or when callbacks fail at all. It is let off where the code reaches behind
the table (`PastTable`: a read without a payload or a write, at the first index past it),
and, if it is node 31, where it has an error to send (`MayStop`).
`Device!ImplementsContract` is the refinement; the state is the same, so the
mapping is the identity, and the step it has to find is the one `last` names.

**PropertyAccess** is any number of clients and devices. `Start`, `Send`,
`Receive`, `Timeout` are the client's thread: `pc = "send"` is a new
`PropertyQuery`, `pc = "recv"` is `receive()` inside `execute_state_machine`.
`Receive` takes one frame from the queue and is the adapter's `receive`, the
`frame_received` it is handed to, and, when that finishes, the code of
`query_properties` or `set_property` up to the next query (`Answer`). Time is
abstract: the deadline may pass whenever nothing is on the way (`Timeout` is then
free), and while something is, at the price of a fault of the kind `"late"`.
`Respond` is a device handling one frame with `DeviceLib!Handle`, and its
response reaching all queues. `tag`, `req`, `held` and `sent` are history: they
exist to say what an answer should have been.

**ManifestScan** is `enumerate_nodes`: `Ping` for every node id, `Collect` until
the deadline, then for each candidate `NextCandidate`, and `Send`, `Receive`,
`Timeout`, `Parse` of the loop of `execute_state_machine` over a
`ManifestDownload`. A byte is a pair of the image it belongs to and its place, so
that mixing two images is visible; the header's first byte tells the length the
image claims. `"raised"` is an exception that left the scan.

**SerialWrap** is one direction of a serial line. A byte remembers the frame and
place it was sent for and what it is now; `Lose`, `Damage` and `Noise` are the
line's. `Read` is `read(1)`, `Parse` one turn of the inner loop, `Judge` what
happens to the bytes before a delimiter, `Timeout` the deadline. COBS and the
CRC are not modelled digit by digit: a chunk passes if it is a whole frame as
sent; anything else is dropped, or, when so little is left that `struct.unpack`
has nothing to unpack, raises.

**BusAdapter** is what the users of an adapter rely on: frames are sent, some are
damaged, and a call ends with the oldest undamaged one to come, with a damaged one
before it, or with no frame at all. A frame comes out at most once.
`SerialWrap!ImplementsBusAdapter` and `OcarinaReader!ImplementsBusAdapter` are the
refinements. A frame on its way is spread out there over the wire, `_buffer` and the event
queue, and a call over many steps. `PropertyAccess` and `ManifestScan` are built on
such a queue.

**OcarinaReader** is the other adapter with a protocol of its own. `ReadSync` is
`_connect`, which throws bytes away until it has seen the answer to its reset;
`ReadType`, `ReadLength`, `ReadPayload` are the three reads of `_event_listener` and
`Parse` its branches; `Silence` and `SilenceInside` are what a read does when two
seconds pass without a byte; `Call` to `Empty` are `receive()` and `read_event`. A
byte knows what it was sent for. One that is read as something else may have any
value, with lengths up to three: that is enough to lose the place in the bytes, for
which the format has no remedy. `reasons` records that it was lost, and why. The
run of 0xAA that answers a reset may be thought over too soon when what was sent
before ends with 0xAA (`ocarina.py:33` has it that no other answer looks like it,
which is true of whole answers). A frame that is not devprop's, for which
`stringify` raises, counts as returned. `frames`, on which no step depends, is `got` without
frames that were never sent; it is there for the mapping onto `BusAdapter`.

**PropertyValue** is `validate_manifest`, `encode_value` and `decode_value`
around one property. Numbers are exact integers in a unit small enough: what
floats add to the error is left out. `Refusal` is what `encode_value` raises.

**ManifestText** has the three texts of a manifest: what `parse_manifest_yaml` makes
of a YAML file or raises for, `Serialized`, and what `parse_manifest_draft_csv` makes
of that. A text is a sequence of words and marks (comma, line break, dot), so that a
comma inside a unit is a comma when rows are split. `Written` is the text after each
property, a recursive function, and `Split` takes what is between one mark and the next
(`Cuts`, `Nth`): the two directions of the text are defined independently of each other.

**CodeGenerator** is the templates: the rows of the property table, the enumerators, what
raises in between, and which of it a C compiler takes. **TestServer** is what the test
server does with one frame, as a set of outcomes like `DeviceLib!Handle`.

**Toolchain** puts them together. `Compile` is one run of the compiler: it may raise
before any file, or inside a template, when the file it was writing is empty.
`Build` makes a device from the `.c` and `.h` files that are there; its callbacks are
variables, one for each identifier. `StartServer`, `TakeFrame` are the test server.
`Getprop` and `Setprop` are the commands with the scan and the exchange inside them,
as `Got` and `Set`, the sets of ways in which they end; a lost frame is one, a value
that `encode_value` does not take another (`Encodable`: out of range, or too large or
negative for the type), then a request whose index `make_frame_id` does not take
(`Exchanged`), and an answer that `decode_value` does not take (`Ended`). What
`DeviceLib` does to one request is repeated here over the table of the manifest
(`Answers`), with its three errors as one, since the client looks at none of them, and
with the errors of callbacks. The limits of the formats are there: `add_envelope` raises
for more than sixteen bits of length, a device keeps sixteen bits of the length of its
envelope and eight of the length of its table (`Counted`), and a scan fetches as many
segments as there are numbers for (`Fetched`), and finds nothing at all while some node
has less than one segment (`ScanRaises`). How long a payload is when it is compressed is a
constant of each manifest, and what `encode_value` and `decode_value` compute (`Accepts`,
`RawOf`, `Decodes`, with `PropertyValue` for the details) are constants, too: the theorems
hold for any. The scan inside a command loses nothing; one that does is in `ManifestScan`.

**Explorer** is the window: its handlers run in the GUI thread, the bus work in
threads that `run_async` starts. `gui` is where the GUI thread stands inside a
handler: `thread.start()` comes before the cursor is set (`SetCursor`) and before
the promise is connected (`Connect`), and the worker's `Act`, `Emit` and `Restore`
go on in between. What a signal finds connected is `Connected`; a signal that
finds nothing is lost, otherwise it is an event for the GUI thread (`NextEvent` and
the handlers under it). Devices have several properties, and a query reads one after the
other (`Query`). What comes back is any result the modules above allow. In particular
another response of the same device may fit (`OtherFits`): one to the query of another
worker, or one nobody waits for any longer, for `late` has the devices of which a
response may still come once a query ended without its own. It may have another width,
for which `decode_value` raises inside `get_all_finished` and the rest of the answers is
not shown (`Decoded`). A write that was given up may be done later (`loose`,
`LateWrite`), and one that ended well may have been answered by the response to another.
Message boxes are modal: `Raised` opens one, with an event loop of its own in which
signals are handled but the user reaches nothing else (`AtWindow`), and what `catch` does
after it is done when the user closes it (`Dismiss`). `sure` and `source` are history:
who knows a property's value from the response to its own request, or from having written
it as typed, and whose value the table shows. Left out: the check boxes in the table, which
nothing reads, the log and the status bar. That `restoreOverrideCursor` is called from a worker, which Qt
does not support, is taken to work.

## 3. What is checked

| Run | Question | Bounds |
|---|---|---|
| `Device` | does a device implement its contract, answer all but the one index, and do quotients and remainders take an identifier apart as the masks and shifts do? | four properties of three widths and an unsupported type, a byte of two values, segments of two bytes, every operation at every index up to two past the table, payloads of 0 to 4 bytes; identifiers with boundary nodes and stray bits |
| `DeviceNonexistent` | does it keep `doc/SPEC.md:217` everywhere? (no) | the same |
| `Access` | whose answer does a query take, and what is it worth? | one client, two devices, three properties, two calls, two faults of any kind |
| `AccessShared` | do two clients disturb each other, and can a call hang? | two clients, one device with a property that cannot be written, two calls, one fault of any kind |
| `AccessLate` | is an answer the response to the request just sent (`doc/SPEC.md:297`)? (no) | one client, three calls, one late response |
| `Scan` | what does a scan find, download, raise, and does it end? | two scans, three node ids of which two have devices, segments of two bytes numbered 0 to 2, two faults of any kind, seven images: sound, one that fills all segments and one of a byte more, too short, cut, too long, bad |
| `Serial` | what does a damaged byte cost, and is this an adapter? | three frames of three bytes and two delimiters, one of them not devprop's, two faults; the port is opened anywhere in an earlier frame |
| `Ocarina` | what gets through the Ocarina's reader, does `receive()` end, and is this an adapter? | two events of any kind, two silences or unplugging, two calls, with deadline or without; up to two bytes before the answer to the reset, which has two |
| `OcarinaEmpty` | does `devscan` on a quiet bus find nothing (`INTEGRATION_GUIDE.md:57`)? (no) | one call |
| `Value` | does what is valid encode, come back, and stay inside its limits? | 580 properties: four types, scales of both signs and zero, limits inside, at and outside what the type can express, on and off the grid; bytes of four values |
| `Tools` | do files, tables, indices and names agree from the manifest to the command, and what becomes of a request to the test server? | three compilations, builds and servers in any order, any number of commands and frames; two node ids; thirteen manifests: names that collide, commas and line breaks in units, what a template, the parser or `validate_manifest` raises for, values in range and not of the type, and one that is at and one that is over each limit on envelopes and on the number of properties; a byte of an index or of a count has three values, so that three segments and two properties are the limits; texts of a few words |
| `Explorer` | do buttons and cursor come back, and is the table what the devices have? | one device with two properties, two values and one of another width; four actions of the user in the orders of `MCSession`, with two workers at a time: queries and an edit beside each other, edits of the same property, the device unchecked and checked, scans after scans and after a query that failed; edits of one property to one value |

Why the bounds are enough: each hazard listed needs at most two calls (a late
answer and the query it spoils; a write and what follows it), two devices or two
properties that can be confused, two clients, or two faults (one that delays and
one that loses). The second call starts from every state the first one may leave,
queues included. The variants listed under `mutants` in `PROJECT.json` show that
the bounds reach the cases: each property fails under the same configuration when
the defect is put in.

### Properties worth a word

- `AnswersAreCurrent`, `WriteIsInEffect`: while no call has been overtaken by its
  deadline and no foreign frame has ended one (`InStep`), the receive queue is in
  step with the requests and an answer is a value the property had during the
  query. Lost frames, restarts and error responses do not break this. Late answers
  do: see the findings. The condition is about a bus with one client. With two,
  one client's answer may be the other's, for the same operation on the same device
  but another property; `AnswerFromTheNode` says what remains true then.
- `AnswerFromTheNode` needs no condition: the comparison of direction, node and
  operation keeps that much apart whatever happens.
- `ScanIsComplete` is an equality: no device with a downloadable manifest is
  missed and no other is reported. It holds whoever else reads manifests at the same
  time: a response to somebody else with the right number carries the right bytes. In the
  run a device has an image that is too long only after an update, of which the property
  does not speak; that such an image is not found otherwise is the theorem's, and
  `SucceedsExactlyWhenPermitted`'s for the commands.
- `DownloadIsPrefix` has no condition on faults but that the device kept its
  firmware; `FoundIsGenuine` has none at all, it rests on the hash.
- `RaisedForAReason`: there are two ways for a scan to lose all it has found, a
  foreign frame while it collects and a device whose first segment is short.
- `OnlyTheHitAreLost`: once the line has been read, each frame none of whose bytes
  were touched has come out. A delimiter that is lost costs one frame only because
  each frame brings two.
- `DiesForAReason`, `ImplementsBusAdapter`: silences between events, unknown types and
  heartbeats are harmless; a silence inside an event is not, it costs the thread or
  all that follows.
- `WriteBackIsNeutral` holds for invalid properties, too.
- `OnlyBetweenStepsIsOutside`: `encode_value` compares with the limits and rounds
  afterwards; the one way to end up outside is a limit between two steps.
- `ImplementsBusAdapter` of the Ocarina holds as long as the reader has its place in the
  bytes; `reasons` is what the mapping asks.
- `FilesAgree`: the order in which the files are written, and that all that can raise
  does so in the first, are what keeps a header from going with the table of another
  compilation.
- `ClientSeesTheTable` has an exception, manifests with a comma or a line break in a
  text; there the compiler succeeds and the device is not found, or has other indices
  to a client than to itself (see the findings).
- `PrintedIsTrue`, `SucceedsExactlyWhenPermitted`: no value is made up for a query that
  failed, for a name that is not there or is there twice. The second lists all that a
  command needs, and is an equivalence: a loss or an error of the application (the setters
  of the generated stubs report one, `devprop_user_stubs.c:17`), a value out of range or
  not of the type, a node the scan cannot fetch and the rest are causes of failure, and
  there is no other. On the test server only properties of sixteen bits can be read,
  whatever its manifest says.
- `ButtonsComeBack` names the ways in which a button stays disabled, and
  shows that there is no other: a scan that raised (`main.py:136` only displays the
  exception), a query before the first scan (`main.py:166`), a worker that was
  through before its promise was connected, and an edit that raised, until the user closes
  the message box with the exception (`main.py:203`). For a query of no properties the
  race with the promise is a matter of who is faster.
- `CursorComesBack`: the same race at `main.py:76` is the only thing that leaves an
  hourglass behind.
- `TableIsCurrent`: at any time, what the table shows of a property is what its device
  has, if whoever it is from is sure of it, and nobody else wrote the property since. That is
  less than one would like, and no more is true: the buttons do not keep queries and edits
  apart (an edit may be started during a query, and `set_finished` enables a button the
  query has disabled), and a response that fits is taken for the answer
  (`state_machines.py:104`). What is stale or of another property is named one case at a
  time, for each property: an answer overtaken by a write before or after it was shown,
  an answer that may be another response, an edit not kept as typed. None of these lasts:
  after the next query with answers of its own the table is right again, whatever happened
  before.

### Fairness

`EveryCallReturns` and `ScanReturns` assume weak fairness of the client's steps
and of each device's `Respond`. The client is a thread that is not blocked: `send`
returns, `receive` has a deadline that the clock reaches, so that either a frame is
taken or `TimeoutError` raised. A device polls its receive buffer in its main loop.
Nothing makes a caller start, an application write or a fault happen. `Timeout` is
fair because time passes; the free form of it (nothing on the way) is what the code
comes to when a frame is lost.

`FramesArrive` assumes that the reader thread runs, `CallReturns` that time passes
and the caller's thread runs; no event need ever be sent.

`ButtonsComeBack` assumes that some thread that can go on does: a worker (its bus work
ends, as the two properties above show), the rest of `run_async`, or a handler of a
queued signal (the event loop, that of a message box as well). With a bounded number of
clicks and of steps for each that is enough for every thread to get its turn. The user
need not do anything: not click, and not close a message box (`Dismiss` is not fair). Nor
need a write be done that nobody waits for.

`CHECK_DEADLOCK FALSE` stands where the calls are bounded and everything ends when
they are used up. `Device`, `Serial`,
`Value` and `Tools` never stop.

### Findings

1. `c:86` (and `:108`) lets the index one past the table through; what follows the
   table is used as a property (`doc/SPEC.md:217`). Run `DeviceNonexistent`.
2. `state_machines.py:104` does not compare the property index, and nothing empties
   the queue: a late response answers the next query (`doc/SPEC.md:297`). Run
   `AccessLate`.
3. `ocarina_adapter.py:34` lets `queue.Empty` through where `enumerate_nodes` expects
   `TimeoutError` (`INTEGRATION_GUIDE.md:57`): no scan through an Ocarina ends well,
   unless its deadline passes between two events. Run `OcarinaEmpty`.

More that the passing runs contain, each as a case of its own:

- `c:195` asserts `node_id < 31` while `dp_node_init` accepts 31: such a node stops at
  the first error it has to report (`doc/SPEC.md:171` wants a
  response or an error from every device). The
  contract (`MayStop`) and `AnsweredInsideTheTable` leave it out.
- `devprop.h:42`: a table of 256 properties counts as empty, and with an envelope of 65529
  bytes of payload or more a device has less than one segment (`devprop.h:40`), which ends
  the scan of all. Nothing in the compiler stops either.
- A comma in a name or unit is not noticed by the compiler, and no client can read the
  manifest of that device; a line break may even add a row (`doc/SPEC.md:73` forbids
  both; `PlainManifest`).
- A manifest in CSV never gets through the C generator: `is_const` meets the
  `additional_attributes` that only YAML has (`PropertyRaises`), after the first file
  was emptied. And a complaint about a maximum prints the minimum (`manifest.py:193`),
  which raises when that is no number (`ValidationRaises`).
- The test server ends at a frame that is not devprop's or is a response with its own
  node id (`test_server.py:63`, `:68`): both are checked outside of the `try`.
- The header's seven bytes share the 2048 the segments hold (`messages.py:29`,
  `doc/SPEC.md:141`): `Downloadable` is what `ScanIsComplete` can promise.
- `serial_wrapped_can_adapter.py:77` raises for remains of less than two bytes
  (`"unpack"` in `Judge`). The frames after them are not lost.

## 4. What is proved

**PropertyAccess_proofs**, for any sets of clients, devices, properties and calls,
any table, any limits and any kinds and number of faults (assumptions
`FormatAssumption`, `DeviceAssumption`, `AccessAssumption`):

- `TypeCorrect`: `Spec => []TypeOK`.
- `AnswersFromTheNode`: `Spec => []AnswerFromTheNode`.
- `OnlyClientReadsTheTruth`: with one client, `AnswersAreCurrent`.
- `OneResponsePerRequest`: with one client and as long as nothing is late, what a
  query takes for its answer is the answer to the request it has just sent
  (`AnswerIsToTheRequest`; the run `AccessLate` shows what happens when it is late).
- `AcknowledgedWritesAreInEffect`: with one client, `WriteIsInEffect`.
- `QueriesAreAnswered`: if no call asks for what a device refuses, `QueriesSucceed`,
  for any number of clients.

The first invariant is `IInv`, which is `TypeOK /\ QueuesOK /\ AnswerFromTheNode`. The answers
alone are not inductive: what `Receive` takes was put into the queue by `Respond`
out of a packet put there by `Send`, long before and perhaps for a call that is
over. `QueuesOK` says what every packet in flight satisfies: a request in a
device's queue is one for that device, and a response in a client's queue carries
the fields of the request it answers and the width of the property that request
names. Lemmas at the head of the module supply what one call of `Handle` can send
(`HandleOutcome`) and that identifiers unpack to what was packed (`UnpackMake`).

One client (`OnlyClient`, the configuration of the run `Access`) needs `SoleInv`: as
long as it is in step there is, while a query waits, at most one packet on its way, its
request (`RequestOut`) or the response to that (`ResponseBack`), and between two queries
none at all. The response carries a value the property has had since the request
(`IsTrue`), and has still, unless the application changes it or the device has restarted.
Hence the answer is current when it is taken, and a write that was acknowledged is in
effect. That the invariant has to say "at most one" is why two clients, or a late
response, break these properties.

`QueriesAreAnswered` takes `NothingRefused`: the callbacks report no errors, and what is
read has a getter and a type the library has. It holds of the run `AccessShared`.
`SuccessInv` says that as long as nothing went wrong, the response to the read that is
waited for is to come (`Coming`: the request is in the queue of the device, or the
response in the client's), and that whatever is in the queue has a value where one belongs.

**ManifestScan_proofs**, for any nodes, images, updates and identifiers of other
traffic, any kinds and number of faults, any segment size and any length of the
header (assumptions `FormatAssumption`, `DeviceAssumption`, `ScanAssumption`), proves
all the invariants of the run `Scan`:

- `TypeCorrect`, `ManifestsAreGenuine` (`FoundIsGenuine`), `DownloadsArePrefixes`
  (`DownloadIsPrefix`), `RaisesOnlyForAReason` (`RaisedForAReason`).
- `ScansAreComplete` (`ScanIsComplete`).

For the first four, `IInv` says what the queues may hold (a device's, requests for one
of its segments; the client's, segments of images their sender has had, and foreign
traffic: `QueuesOK`), what the candidates' first segments are, and how far a download is
(`Downloading`): it goes on at the boundary of a segment, its length is the one its first
byte tells, and while the device has kept one image it is a prefix of that. `FoundOK`
says that what was found is an image the device has had, whole, of a length the protocol
has segments for; the checksum (`Parses`) sees to that when an update comes in between.

`ScanIsComplete` is of a bus on which nothing is lost, late, foreign or updated. Its
invariant, `CompleteInv`, follows each answer: until the deadline of the pings the
answer of a node is on its way or the node is a candidate (`AllAwaited`); nobody is
dropped from the candidates without being found (`NoneMissed`); the segment that is
awaited is requested or on its way (`SegmentComing`), if only because somebody else asked
for it; and a scan that is over has no candidates left.

**Device_proofs**, for any property table, manifest, initial values and set of 29-bit
identifiers and payloads, and any node id (assumptions `FormatAssumption`,
`DeviceAssumption`, `NodeAssumption`):

- `TypeCorrect`: `Spec => []TypeOK`. `NodeAssumption` has `SEGMENT_SIZE <= 8`, the
  payload of a CAN frame, without which a segment of the manifest would not fit one.
- `EachRequestAnswered`: `Spec => []AnsweredInsideTheTable`.
- `DeviceKeepsContract`: `Spec => ImplementsContract`. Initial states map to initial
  states, and each step of the device is one of the contract or a stutter.

The argument goes through `dp_handle_message_ext` once (`HandleCases`): an identifier
is put together again from its fields (`Repack`), so the response the code makes by
flipping one bit of the request is the one the contract builds from fields
(`AddressedFacts`); `send_error` refuses or, on node 31, stops; what is past the table
may do anything; and every outcome is then one of the contract's (`ErrorKeeps`,
`PastKeeps`, `ManifestKeeps`, `ReadKeeps`, `WriteKeeps`). `AnsweredInsideTheTable`
alone is enough of an invariant but for the types of the values, which `StateOK` adds:
what a setter keeps depends on them.

**PropertyValue_proofs**, for any base, any properties and any values (assumption
`ValueAssumption`):

- `ValueTypeCorrect`: `Spec => []TypeOK`.
- `ValidManifestsEncode`: a property `validate_manifest` accepts has no value inside
  its limits that does not encode. The step that is not obvious (`ValidScale`): the
  two comparisons with the ends of the type and the third of the limits with each
  other leave no room for a negative scale, for which the ends would be the wrong
  way round.
- `WritesReadBackClose`: what was written reads back to half a step. `SetIsClose`
  speaks of values already returned; the invariant adds `KeepsWhatWasAsked`, the
  same of the value still stored, and `StoresARawValue`, that the bytes stored are
  those of some raw value of the type.
- `LimitsSurviveRounding`: `OnlyBetweenStepsIsOutside`. A limit on a step is a whole
  number of steps away from any value a device can have, and half a step is not one
  (`LimitsHold`); the invariant adds `AskedIsInRange`, that the value asked for passed
  the check.
- `NoDrift`: writing back what was read changes nothing.

Under them are lemmas about division, `Rounded` and the bytes (`RoundedClose`,
`RoundedExact`, `RoundedBetween`, `BytesComeBack`).

**SerialWrap_proofs**, for any length of the code of a frame, any number of frames,
any number of bytes lost, changed or inserted anywhere, and any identifiers that are
not devprop's (assumption `SerialAssumption`), proves all that the run `Serial` checks:

- `TypeCorrect` (`TypeOK`), `NoFrameLeftBehind` (`NothingLeftBehind`),
  `DamageStaysLocal` (`OnlyTheHitAreLost`).
- `SerialIsABusAdapter`: `Spec => ImplementsBusAdapter`. `Transmit` is `Send`, a fault
  `Damage`, `Call` itself, `Parse` is `Deliver`, `Raise` or a stutter, `Timeout`
  `Raise`, and `Read` a stutter. With `AdaptersDeliver`, frames come out in order.

The properties speak of the end (an empty line, no call in the parser), so the
invariant is about what is still to come: `Stream`, the bytes in the buffer and behind
them those on the line, which `Read` does not change. In it frames follow each other
and so do the bytes of each (`Ordered`), nothing is left of the code of a frame that
was got (`Passed`), and every frame the line has not hit is in it, whole, or out
(`Whole`, `Out`). `NothingLeftBehind` is inductive only together with the position: a
delimiter can be nothing but the last byte of the buffer, because `Read` takes one byte
and `Parse` looks at once. The lemmas are about what taking out (`Removed`), changing or
inserting (`Inserted`) one byte does to such a sequence, and that a frame not hit
moves as one block (`BlockMoves`); and about the other end, that a
frame which is whole before `Parse` cuts off a chunk is that chunk or is whole behind it
(`CutWhole`), and that a chunk which is a frame is newer than those got, and all that
is older than it and not hit has come out (`ChunkFacts`).

The last theorem of the module, `AdaptersDeliver`, is about any variables of which
`BusAdapter`'s specification is true (`Any`): frames come out in the order in which they
went in, and only damaged ones are missing, for any frames and any number of calls. Both
adapters have this through their refinement, which is proved for each of them.

**OcarinaReader_proofs**, for any number of events of any kind in any order, any bytes
before the answer to the reset, any length of that answer, and any number of silences and
calls (assumption `OcarinaAssumption`), proves all the invariants of the run `Ocarina` and
its refinement:

- `TypeCorrect` (`TypeOK`), `EndsForAReason` (`DiesForAReason`).
- `OcarinaIsABusAdapter`: `Spec => ImplementsBusAdapter`. `Transmit` is `Send`; `Call` is
  itself; `Get` is `Deliver`, `Raise` for a frame never sent, or a stutter for an event that
  is none; `Empty` and a deadline that has passed are `Raise`. What the reader thread does
  is a stutter, or, where it loses its place, `Damage` to every frame.

Why the thread does not die is not to be seen from one step: `_event_listener` takes a byte for
a type because it took the right number of bytes before. The invariant has three parts.
`LineOK` says what the bytes not yet read are, whatever has happened: one unbroken run of
those sent (`Contiguous`), which ends with a whole event. `SyncOK` says that the reader which
waits for the answer to its reset will see it: all of it is to come or what has come is
counted in `run`. `InPlace`, which holds as long as `reasons` is empty, says which byte each
of the three reads will get (`PlaceKnown`) and where each frame sent is: returned, queued, or
with its last byte still to come (`NoneSkipped`). The refinement is not over when the place is
lost, for frames read by chance must still come out once and in order: `InOrder` and
`NewerToCome` (what is queued or out is older than every byte to be read) hold without
condition.

**Explorer_proofs**, for any devices, values and number of clicks (assumption
`ExplorerAssumption`), proves all the invariants of the run `Explorer`:

- `TypeCorrect` (`TypeOK`).
- `OneScanAtATime` (`ScansDoNotOverlap`). The button alone is not enough: that it is
  enabled again says that nothing of a scan is left only because a worker has one signal
  (`Events`: none is queued twice, and none that still runs) and all scans that are busy
  are one (`OneScan`).
- `CursorsComeBack` (`CursorComesBack`). The cursors on the stack are those of the
  workers that are not through, without the one whose `thread.start()` has returned and
  whose cursor is not set (`Active`), as long as none was through too early.
- `TablesAreCurrent` (`TableIsCurrent`). What is shown was an answer before, and before
  that a request, so `RowOK` has one part for each stage of a property: nobody is sure of
  it who has not begun (`NamesBegun`) or still has it to ask for (`NotYetKnown`), what a query has
  got and is sure of is what the device has (`AnswerIsCurrent`), what is shown of an
  edit not yet done is what is about to be written (`TypedIsShown`), and what is shown
  and sure is what the device has (`ShownIsCurrent`). A write, on time or late, breaks the
  last three for everybody else, and takes away their being sure (`WriteKeepsRow`).

**Toolchain_proofs**, for any manifests in YAML or CSV of any compressed lengths, node ids,
frames and values, any number of properties a device counts, and any arithmetic of
`encode_value` and `decode_value` (assumptions `FormatAssumption`, `TextAssumption`, `ToolchainAssumption`), proves all the
invariants of the run `Tools`:

- `TypeCorrect` (`TypeOK`), `FilesAlwaysAgree` (`FilesAgree`).
- `ClientsSeeTheTable` (`ClientSeesTheTable`): a client that takes the text of a device's
  manifest apart finds the names, types and indices the device's table has.
- `PrintedValuesAreTrue` (`PrintedIsTrue`), `CommandsSucceedWhenPermitted`
  (`SucceedsExactlyWhenPermitted`).
- `TestServerAnswers` (`ServerAnswers`), from a lemma on `Serve` that goes through what can
  be answered to each operation, and from the fields of a response unpacking to what
  `Respond` packs (`ResponseFields`).

`FilesAgree` is inductive because a compilation that raises changes nothing but the C file,
which it empties. The others need to know where a node comes from, perhaps many compilations
ago: `Inv` says that there is nothing at a node id, a device built from a manifest for which
nothing raised (`IsDeviceOf`, with the manifest, table and text of that one source), or a test
server (`IsServerOf`), and that headers are of such manifests (`Headers`).

What a client sees is then a matter of the text. `Joined` says that a text is parts with
marks in between. What is written is such a text, of lines (`SerializedIs`) and each line
of columns, and `Split` finds the parts of any such text unless a mark is within one
(`SplitJoined`); so the rows are the lines (`RowsAre`), and what comes back is what was
written (`RoundTrip`). These are facts about texts of any length, where one would use
induction over sequences. The library's induction theorems cannot be instantiated here, but
the least element of a set of numbers can be taken (`WFMin`): `Counting` says that a set
of numbers with 0 in it, and with each also the next, has them all, and is used with the
set of those lengths for which the claim is true. `PlainManifest` is what keeps marks out
of the parts. `PayloadIsShown` is the same of a manifest that came from CSV: the generator
takes one only if it has no properties, and then there is little to split.

For the commands, `MeantOfDevice` says that a name a client finds once is one row of the table
and the variables behind it, `DeviceAnswers` and `ServerTells` what the one request for it is
answered with, and `CommandIs` that all ways in which a command ends are those. A value read
must come back as what the device has: each variable of an application fits the type of its
property (`Kept`), which stays so because no two properties of a manifest that compiles share a
variable (`OwnVariable`), because bytes are decoded as a value of their width (`DecodedFits`),
and because bytes of a value that fits are decoded as the value (`DecodedBytes`).

Only model-checked, and why:

- liveness (`EveryCallReturns`, `ScanReturns`, `FramesArrive`, `CallReturns`,
  `ButtonsComeBack`): the prover has neither fairness nor `ENABLED`;
- the comparison of identifiers with the bitwise operators of the C code (`FieldsAreBits` in
  `MCDevice`, for identifiers with boundary values): the operators are recursive and cannot
  be used next to theorems;
- the three findings, each a counterexample that TLC finds.

Every invariant and action property of the passing runs, and every refinement, is a theorem.

## 5. What is not modelled, and the plan

- *Ocarina*: the commands, which write to the port and keep no state, and the
  contents of events that are no frames.
- *Command-line tools*: `devscan`, which prints what a scan returns; parsing of
  arguments and the choice of an adapter by its name.
- *Composition*: `PropertyAccess` and `ManifestScan` over `SerialWrap` or
  `OcarinaReader` are not composed; `BusAdapter` is what they have in common.
- *C text*: what of the generated files is not table, enumerator or callback (the
  manifest as an array of bytes, the stubs) is taken to be as the templates say.
- *Floats, NaN*: `PropertyValue` computes exactly. `float()` accepts NaN, and NaN
  passes every comparison of `validate_manifest`.

Order of the work that is left:

1. NaN among the attributes of a property, which would need a model of how floats
   compare.
2. `PropertyAccess` and `ManifestScan` over `BusAdapter` in place of their own queue.

## 6. How to run

```
tlc -config Access.cfg MCPropertyAccess.tla      # one run; see PROJECT.json for all
tlapm PropertyAccess_proofs.tla                  # the proofs of one module
```
