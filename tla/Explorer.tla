------------------------------ MODULE Explorer ------------------------------
(***************************************************************************)
(* The Explorer (devprop_explorer/): a window whose handlers run in the    *)
(* GUI thread, and worker threads that do the work on the bus.  run_async  *)
(* starts a worker, then sets the override cursor, then returns a promise, *)
(* to which the handler connects what is to happen at the end; the worker  *)
(* is on its way all that time.  A signal nobody is connected to is lost,  *)
(* one that is connected is an event for the GUI thread.                   *)
(*                                                                         *)
(* Workers share one client.  What comes of that, and of a deadline that   *)
(* has passed, is what PropertyAccess says: a response carries no name of  *)
(* a property, so that the one to another read of the same device may be   *)
(* taken for one's own, and a write may be done when nobody waits for it.  *)
(***************************************************************************)
EXTENDS Integers, Sequences, FiniteSets

CONSTANTS
  Device,    \* the devices on the bus
  NumProps,  \* the number of their properties
  Home,      \* Home[p]: the device that has property p
  Value,     \* what a property may be
  Default,   \* and what it is at first
  None,      \* no value, or nothing shown
  Misfit,    \* a value of another width than the property's
  MaxClicks, \* bound: what the user does, by number
  Session,   \* and by kind: sequences of kinds
  AtOnce,    \* bound: workers at the same time
  Typed      \* bound: the properties edited, and what is typed

\* In the order of the rows of the window: that of the devices' names, and of
\* their manifests.
Property == 1..NumProps

ASSUME ExplorerAssumption ==
  /\ NumProps \in Nat /\ MaxClicks \in Nat
  /\ Home \in [Property -> Device] /\ AtOnce \in Nat /\ Typed \subseteq Property \X Value
  /\ Default \in Value /\ {None, Misfit} \cap Value = {} /\ None # Misfit

VARIABLES
  gui,          \* the GUI thread: its event "loop", or inside run_async
                \* after thread.start() ("started"), or after that with
                \* nothing ("cursor") or "then" connected to the promise
  scanEnabled, getAllEnabled,   \* the two buttons
  scanned,      \* all_devices_by_name exists
  known,        \* and these are the devices in it
  unchecked,    \* the devices whose device_selected is False
  table,        \* PropertyTableModel.values
  events,       \* the workers whose signals wait for the GUI thread
  boxes,        \* the workers whose exceptions are displayed, the last one
                \* first: message boxes, each inside the event loop of the next
  work,         \* work[w]: what worker w does, see Job below
  cursor,       \* override cursors on Qt's stack
  vals,         \* vals[p]: property p of its device
  late,         \* the devices of which a response to a read may be on its way
                \* that nobody waits for
  loose,        \* and the properties of which a write may be
  nClicks,      \* what the user did, and the workers it started
  source,       \* history: the worker whose result or edit the table shows
  sure          \* history: sure[p] are the workers that read or wrote p and
                \* know what they got, since p was written for the last time

buttons == <<scanEnabled, getAllEnabled>>
window == <<scanned, known, unchecked, table, source>>
bus == <<vals, late, loose, sure>>
vars == <<gui, buttons, window, events, boxes, work, cursor, bus, nClicks>>

Worker == 1..MaxClicks

\* A job has devices still to do, what it got from others, and the signal it
\* ends with; "early" is a worker that was through before its cursor was set.
Job(kind, todo, typed) ==
  [kind |-> kind, phase |-> "run", todo |-> todo, typed |-> typed, got |-> << >>,
   signal |-> "then", lost |-> FALSE, early |-> FALSE]

\* What a job brought is no longer of interest, but for how a scan ended.
Shown(job) ==
  [job EXCEPT !.got = << >>, !.typed = None,
              !.signal = IF job.kind = "scan" THEN @ ELSE "then"]

\* What the user does starts no worker: get_all_properties before the first
\* scan ("failed", an AttributeError), or a click on a box ("check").
NoWork(kind) == [Job(kind, {}, None) EXCEPT !.phase = "over"]

Init ==
  /\ gui = "loop"
  /\ scanEnabled = TRUE /\ getAllEnabled = TRUE
  /\ scanned = FALSE /\ known = {} /\ unchecked = {}
  /\ table = [p \in Property |-> None] /\ source = [p \in Property |-> 0]
  /\ events = << >> /\ boxes = << >>
  /\ work = [w \in Worker |-> NoWork("none")]
  /\ cursor = 0
  /\ vals = [p \in Property |-> Default]
  /\ late = {} /\ loose = {} /\ sure = [p \in Property |-> {}]
  /\ nClicks = 0

\* device_selection_changed: the properties that are in the table.
Rows == {p \in Property : Home[p] \in known \ unchecked}

\* Worker w is at its job, or what came of it is still to be shown.
Busy(w) == work[w].phase = "run" \/ \E i \in DOMAIN events : events[i] = w

BusyWith(kind) == {w \in Worker : Busy(w) /\ work[w].kind = kind}

-----------------------------------------------------------------------------
(* The GUI thread: what the user does.  A message box lets nothing of that *)
(* through to the window, while the events are handled as ever.            *)

AtWindow == gui = "loop" /\ boxes = << >>

\* The next job may be of this kind.
Allowed(kind) ==
  /\ nClicks < MaxClicks
  /\ \E kinds \in Session : /\ nClicks < Len(kinds) /\ kinds[nClicks + 1] = kind
                            /\ \A w \in 1..nClicks : kinds[w] = work[w].kind
  /\ Cardinality({w \in Worker : work[w].phase # "over"}) < AtOnce

Click(job) ==
  /\ AtWindow
  /\ Allowed(job.kind)
  /\ nClicks' = nClicks + 1
  /\ work' = [work EXCEPT ![nClicks + 1] = job]
  /\ gui' = IF job.phase = "over" THEN "loop" ELSE "started"
  /\ UNCHANGED <<events, boxes, cursor, bus>>

\* Variant: the button stays enabled.
ScanBusAgain ==
  /\ scanEnabled
  /\ Click(Job("scan", Device, None))
  /\ UNCHANGED <<buttons, window>>

ScanBus ==
  /\ scanEnabled
  /\ scanEnabled' = FALSE
  /\ Click(Job("scan", Device, None))
  /\ UNCHANGED <<getAllEnabled, window>>

GetAllProperties ==
  /\ getAllEnabled
  /\ getAllEnabled' = FALSE
  /\ Click(IF scanned THEN Job("get", Rows, None) ELSE NoWork("failed"))
  /\ UNCHANGED <<scanEnabled, window>>

\* Variant: the typed value is not kept.
SetDataNotKept(p, v) ==
  /\ UNCHANGED table
  /\ source' = [source EXCEPT ![p] = nClicks + 1]

\* PropertyTableModel.setData: the table has what was typed.
SetData(p, v) ==
  /\ table' = [table EXCEPT ![p] = v]
  /\ source' = [source EXCEPT ![p] = nClicks + 1]

\* setData and property_value_changed.  Nothing keeps the user from editing
\* while a query is in progress.
Edit(p, v) ==
  /\ p \in Rows /\ <<p, v>> \in Typed
  /\ SetData(p, v)
  /\ getAllEnabled' = FALSE
  /\ Click(Job("set", {p}, v))
  /\ UNCHANGED <<scanEnabled, scanned, known, unchecked>>

\* A click on the box of a device.
Check(d) ==
  /\ d \in known
  /\ unchecked' = IF d \in unchecked THEN unchecked \ {d} ELSE unchecked \cup {d}
  /\ Click(NoWork("check"))
  /\ UNCHANGED <<buttons, scanned, known, table, source>>

\* The rest of run_async.
SetCursor ==
  /\ gui = "started"
  /\ gui' = "cursor"
  /\ cursor' = cursor + 1
  /\ UNCHANGED <<buttons, window, events, boxes, work, bus, nClicks>>

\* And of the handler that called it: promise.then.connect, then
\* promise.catch.connect.
Connect ==
  /\ gui \in {"cursor", "then"}
  /\ gui' = IF gui = "cursor" THEN "then" ELSE "loop"
  /\ UNCHANGED <<buttons, window, events, boxes, work, cursor, bus, nClicks>>

\* What is connected to the promise of worker w.
Connected(w) ==
  CASE w # nClicks \/ gui = "loop" -> {"then", "catch"}
    [] w = nClicks /\ gui = "then" -> {"then"}
    [] OTHER -> {}

-----------------------------------------------------------------------------
(* A worker thread.                                                        *)

Doing(w, kind) ==
  work[w].kind = kind /\ work[w].phase = "run" /\ work[w].todo # {}

\* enumerate_nodes
Scan(w) ==
  /\ Doing(w, "scan")
  /\ \/ work' = [work EXCEPT ![w].todo = {}, ![w].signal = "catch"]
     \/ \E found \in SUBSET Device :
          work' = [work EXCEPT ![w].todo = {}, ![w].got = [d \in found |-> None]]
  /\ UNCHANGED bus

\* The query has come to property p.
Asks(w, p) == p \in work[w].todo /\ \A q \in work[w].todo : p <= q

\* There may be another response of the same device that fits: one that comes
\* late, or one to another worker's query.
OtherFits(w, p) ==
  \/ Home[p] \in late
  \/ \E x \in Worker \ {w} : Doing(x, "get") /\ \E q \in work[x].todo : Asks(x, q) /\ Home[q] = Home[p]

\* The query goes on with an answer for p.
Answered(w, p, answer) ==
  work' = [work EXCEPT ![w].todo = @ \ {p},
                       ![w].got = [q \in DOMAIN @ \cup {p} |-> IF q = p THEN answer ELSE @[q]]]

\* query_properties: one property after the other.  A query fails with None or
\* ends with the response to its request, or to another one; in the first and
\* the last case, that to its own may still come.
Query(w) ==
  /\ Doing(w, "get")
  /\ \E p \in work[w].todo :
       /\ Asks(w, p)
       /\ \/ /\ Answered(w, p, vals[p])
             /\ sure' = [sure EXCEPT ![p] = @ \cup {w}]
             /\ UNCHANGED late
          \/ /\ \/ Answered(w, p, None)
                \/ OtherFits(w, p) /\ \E value \in Value \cup {Misfit} : Answered(w, p, value)
             /\ late' = late \cup {Home[p]}
             /\ UNCHANGED sure
  /\ UNCHANGED <<vals, loose>>

\* The device writes p, and workers know that it did as they wanted.
Write(p, kept, workers) ==
  /\ vals' = [vals EXCEPT ![p] = kept]
  /\ sure' = [sure EXCEPT ![p] = workers]

\* set_property: done, done otherwise than asked (the device has limits), or
\* not, or not yet.  That it ends well shows none of it: the response may be
\* that to another write of the device.
Set(w) ==
  /\ Doing(w, "set")
  /\ \E signal \in {"then", "catch"} :
       work' = [work EXCEPT ![w].todo = {}, ![w].typed = None, ![w].signal = signal]
  /\ \E p \in work[w].todo :
       \/ /\ \E kept \in Value : Write(p, kept, IF kept = work[w].typed THEN {w} ELSE {})
          /\ UNCHANGED loose
       \/ loose' = loose \cup {p} /\ UNCHANGED <<vals, sure>>
  /\ UNCHANGED late

Act(w) ==
  /\ Scan(w) \/ Query(w) \/ Set(w)
  /\ UNCHANGED <<gui, buttons, window, events, boxes, cursor, nClicks>>

\* Variant: the cursor is only restored after a result.
EmitNoFinally(w) ==
  LET job == work[w]
      heard == job.signal \in Connected(w)
  IN  /\ job.phase = "run" /\ job.todo = {}
      /\ work' = [work EXCEPT ![w].phase = IF job.signal = "then" THEN "finally" ELSE "over",
                              ![w].lost = ~ heard]
      /\ events' = IF heard THEN Append(events, w) ELSE events
      /\ UNCHANGED <<gui, buttons, window, boxes, cursor, bus, nClicks>>

\* resolve() or reject()
Emit(w) ==
  LET job == work[w]
      heard == job.signal \in Connected(w)
  IN  /\ job.phase = "run" /\ job.todo = {}
      /\ work' = [work EXCEPT ![w].phase = "finally", ![w].lost = ~ heard]
      /\ events' = IF heard THEN Append(events, w) ELSE events
      /\ UNCHANGED <<gui, buttons, window, boxes, cursor, bus, nClicks>>

\* restoreOverrideCursor; nothing happens when there is none.
Restore(w) ==
  /\ work[w].phase = "finally"
  /\ work' = [work EXCEPT ![w].phase = "over",
                          ![w].early = gui = "started" /\ w = nClicks]
  /\ cursor' = IF cursor > 0 THEN cursor - 1 ELSE 0
  /\ UNCHANGED <<gui, buttons, window, events, boxes, bus, nClicks>>

\* A write nobody waits for is done after all.
LateWrite(p) ==
  /\ p \in loose
  /\ loose' = loose \ {p}
  /\ \E kept \in Value : Write(p, kept, {})
  /\ UNCHANGED <<gui, buttons, window, events, boxes, work, cursor, late, nClicks>>

-----------------------------------------------------------------------------
(* The GUI thread: what workers have to say.                               *)

NextEvent(kind, signal) ==
  /\ gui = "loop"
  /\ events # << >>
  /\ work[Head(events)].kind = kind /\ work[Head(events)].signal = signal
  /\ events' = Tail(events)
  /\ work' = [work EXCEPT ![Head(events)] = Shown(@)]
  /\ UNCHANGED <<gui, cursor, bus, nClicks>>

Got == work[Head(events)].got

\* set_device_list: a device seen for the first time is checked, the others
\* are as they were.
SetDeviceList(found) == known' = found /\ UNCHANGED unchecked

BusScanFinished ==
  /\ NextEvent("scan", "then")
  /\ scanned' = TRUE
  /\ SetDeviceList(DOMAIN Got)
  /\ scanEnabled' = TRUE
  /\ UNCHANGED <<getAllEnabled, table, source, boxes>>

\* Variant: values of another width are shown as well.
DecodedAnyWidth(got) == DOMAIN got

\* The properties get_all_finished comes to: decode_value raises at the first
\* value of another width.
Decoded(got) == {p \in DOMAIN got : \A q \in DOMAIN got : q <= p => got[q] # Misfit}

GetAllFinished ==
  /\ NextEvent("get", "then")
  /\ getAllEnabled' = TRUE
  /\ LET shown == Decoded(Got)
     IN  /\ table' = [p \in Property |-> IF p \in shown THEN Got[p] ELSE table[p]]
         /\ source' = [p \in Property |-> IF p \in shown THEN Head(events) ELSE source[p]]
  /\ UNCHANGED <<scanEnabled, scanned, known, unchecked, boxes>>

\* set_finished; the table keeps what was typed.
SetFinished ==
  /\ NextEvent("set", "then")
  /\ getAllEnabled' = TRUE
  /\ UNCHANGED <<scanEnabled, window, boxes>>

\* display_exception: QMessageBox.warning has an event loop of its own, and
\* returns when the user is done with it.
Raised ==
  /\ NextEvent("scan", "catch") \/ NextEvent("set", "catch")
  /\ boxes' = <<Head(events)>> \o boxes
  /\ UNCHANGED <<buttons, window>>

\* Variant: the exception is displayed, and that is all.
DismissNoMore ==
  /\ gui = "loop" /\ boxes # << >>
  /\ boxes' = Tail(boxes)
  /\ UNCHANGED <<gui, buttons, window, events, work, cursor, bus, nClicks>>

\* The user is done with the box in front, and what catch does after it.
Dismiss ==
  /\ gui = "loop" /\ boxes # << >>
  /\ boxes' = Tail(boxes)
  /\ getAllEnabled' = (getAllEnabled \/ work[Head(boxes)].kind = "set")
  /\ UNCHANGED <<gui, scanEnabled, window, events, work, cursor, bus, nClicks>>

Handle == BusScanFinished \/ GetAllFinished \/ SetFinished \/ Raised

\* The two kinds of threads.
GuiStep == SetCursor \/ Connect \/ Handle

WorkerStep(w) == Act(w) \/ Emit(w) \/ Restore(w)

Next ==
  \/ ScanBus \/ GetAllProperties \/ Dismiss
  \/ \E d \in Device : Check(d)
  \/ \E p \in Property : LateWrite(p) \/ \E v \in Value : Edit(p, v)
  \/ GuiStep
  \/ \E w \in Worker : WorkerStep(w)

Spec == Init /\ [][Next]_vars

\* Some thread that can go on does: as there are only so many clicks, every
\* thread gets its turn that way.  Jobs on the bus have a deadline, and the
\* event loop (that of a message box as well) empties its queue.  The user
\* need not do anything, not even dismiss a message box, and no write that
\* nobody waits for need be done.
FairSpec ==
  /\ Spec
  /\ WF_vars(GuiStep \/ \E w \in Worker : WorkerStep(w))

-----------------------------------------------------------------------------
(* Type correctness: a job's phases and kinds, a cursor stack that is      *)
(* never popped when empty, and no value of another width in the table.    *)
TypeOK ==
  /\ gui \in {"loop", "started", "cursor", "then"}
  /\ scanEnabled \in BOOLEAN /\ getAllEnabled \in BOOLEAN /\ scanned \in BOOLEAN
  /\ known \subseteq Device /\ unchecked \subseteq Device
  /\ table \in [Property -> Value \cup {None}]
  /\ events \in Seq(Worker) /\ boxes \in Seq(Worker)
  /\ \A w \in Worker :
       /\ work[w].kind \in {"none", "failed", "check", "scan", "get", "set"}
       /\ work[w].phase \in {"run", "finally", "over"}
       /\ work[w].todo \subseteq Device \cup Property
  /\ cursor \in Nat
  /\ vals \in [Property -> Value] /\ late \subseteq Device /\ loose \subseteq Property
  /\ nClicks \in 0..MaxClicks
  /\ source \in [Property -> 0..MaxClicks] /\ sure \in [Property -> SUBSET Worker]

\* A scan never runs beside another one: they would take each other's
\* segments, both ask all nodes and would both set the device list.
ScansDoNotOverlap == Cardinality(BusyWith("scan")) <= 1

\* A disabled button is enabled again, except after a scan that raised,
\* after a query before the first scan, or when a worker was through before
\* anything was connected to its promise.  As long as the exception of an
\* edit is displayed, nothing enables it either but the end of another worker;
\* when the user is done with the message box, it is enabled.
ButtonsComeBack ==
  /\ ~ scanEnabled ~>
       \/ scanEnabled
       \/ \E w \in Worker : work[w].kind = "scan" /\ (work[w].signal = "catch" \/ work[w].lost)
  /\ ~ getAllEnabled ~>
       \/ getAllEnabled
       \/ \E i \in DOMAIN boxes : work[boxes[i]].kind = "set"
       \/ \E w \in Worker : work[w].kind = "failed"
       \/ \E w \in Worker : work[w].kind \in {"get", "set"} /\ work[w].lost

Quiet == gui = "loop" /\ \A w \in Worker : work[w].phase = "over" /\ ~ Busy(w)

\* The override cursor is gone when all workers are, except when one was
\* through before its cursor was set.
CursorComesBack ==
  Quiet /\ (\A w \in Worker : ~ work[w].early) => cursor = 0

\* At any time, whatever else is going on, the table shows of a property what
\* its device has, when what it shows was read without another response of
\* the device that fits, or typed and kept by the device as it was typed, and
\* the property was not written since it was read or written for that.  So
\* the table is only wrong after an answer that was overtaken by a write
\* before or after it was shown, after a late or another worker's response,
\* or after an edit that was not done as asked; and a query on its own puts
\* all of that right.
TableIsCurrent ==
  \A p \in Property : source[p] \in sure[p] => table[p] = vals[p]
=============================================================================
