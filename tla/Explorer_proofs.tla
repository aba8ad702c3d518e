-------------------------- MODULE Explorer_proofs --------------------------
(***************************************************************************)
(* The Explorer's window and its workers, for any devices, properties and  *)
(* values and any number of clicks: no two scans at a time, a cursor       *)
(* restored for each one set, and a table that shows what the devices have.*)
(***************************************************************************)
EXTENDS Explorer, FiniteSetTheorems, TLAPS

-----------------------------------------------------------------------------
(* The state.                                                              *)

Field == {"kind", "phase", "todo", "typed", "got", "signal", "lost", "early"}

Kind == {"none", "failed", "check", "scan", "get", "set"}

\* A job; one on a single property, if it is an edit; and what is still to do
\* is done before its signal is sent.
IsJob(job) ==
  /\ DOMAIN job = Field
  /\ job.kind \in Kind
  /\ job.phase \in {"run", "finally", "over"}
  /\ job.todo # {} => job.phase = "run"
  /\ job.early \in BOOLEAN /\ (job.early => job.phase = "over")
  /\ job.todo # {} => job.kind \in {"scan", "get", "set"}
  /\ job.kind = "scan" => job.todo \subseteq Device /\ DOMAIN job.got \subseteq Device
  /\ job.kind = "get" => /\ job.todo \subseteq Property /\ DOMAIN job.got \subseteq Property
                         /\ \A p \in DOMAIN job.got : job.got[p] \in Value \cup {None, Misfit}
  /\ job.kind = "set" => job.todo \subseteq Property /\ \A p, q \in job.todo : p = q

NoJob == NoWork("none")

Jobs ==
  /\ work = [w \in Worker |-> work[w]]
  /\ \A w \in Worker : IsJob(work[w])
  /\ \A w \in Worker : w > nClicks => work[w] = NoJob

Waiting(w) == \E i \in 1..Len(events) : events[i] = w

\* A worker has sent its signal, and only one.
Events ==
  /\ \A i \in 1..Len(events) : events[i] <= nClicks /\ work[events[i]].phase # "run"
  /\ \A i, j \in 1..Len(events) : events[i] = events[j] => i = j

Types ==
  /\ gui \in {"loop", "started", "cursor", "then"}
  /\ scanEnabled \in BOOLEAN /\ getAllEnabled \in BOOLEAN /\ scanned \in BOOLEAN
  /\ known \subseteq Device /\ unchecked \subseteq Device
  /\ table \in [Property -> Value \cup {None}] /\ source \in [Property -> 0..MaxClicks]
  /\ events \in Seq(Worker) /\ boxes \in Seq(Worker)
  /\ cursor \in Nat
  /\ vals \in [Property -> Value] /\ late \subseteq Device /\ loose \subseteq Property
  /\ sure \in [Property -> SUBSET Worker]
  /\ nClicks \in 0..MaxClicks

StateOK == Types /\ Jobs /\ Events

-----------------------------------------------------------------------------
(* One scan at a time.                                                     *)

Scanning(w) == Busy(w) /\ work[w].kind = "scan"

OneScan ==
  /\ scanEnabled => \A w \in Worker : ~ Scanning(w)
  /\ \A w, x \in Worker : Scanning(w) /\ Scanning(x) => w = x

-----------------------------------------------------------------------------
(* The cursor.                                                             *)

\* The workers whose cursor is set.
Active == {w \in Worker : work[w].phase # "over"} \ (IF gui = "started" THEN {nClicks} ELSE {})

NoneEarly == \A w \in Worker : ~ work[w].early

CursorsCounted ==
  /\ gui = "started" => nClicks \in Worker
  /\ NoneEarly => /\ cursor = Cardinality(Active)
                  /\ gui = "started" => work[nClicks].phase # "over"

-----------------------------------------------------------------------------
(* The table.                                                              *)

Querying(w) == Busy(w) /\ work[w].kind = "get"

ToSet(w, p) == work[w].kind = "set" /\ p \in work[w].todo

\* Those who know the property, and the one whose result or edit is shown,
\* have begun.
NamesBegun(p) ==
  \A w \in Worker : w \in sure[p] \/ source[p] = w => work[w].kind # "none"

\* What is shown is not the answer to a query still busy, and nobody knows a
\* property before having asked for it.
NotYetKnown(p) ==
  \A w \in Worker : Querying(w) => source[p] # w /\ (p \in work[w].todo => w \notin sure[p])

\* What is to be shown, and known, is what the device has.
AnswerIsCurrent(p) ==
  \A w \in Worker :
    Querying(w) /\ p \in DOMAIN work[w].got /\ w \in sure[p] => work[w].got[p] = vals[p]

\* What is shown from an edit is what is about to be set.
TypedIsShown(p) ==
  \A w \in Worker : ToSet(w, p) /\ source[p] = w => table[p] = work[w].typed

ShownIsCurrent(p) == source[p] \in sure[p] => table[p] = vals[p]

RowOK(p) ==
  NamesBegun(p) /\ NotYetKnown(p) /\ AnswerIsCurrent(p) /\ TypedIsShown(p) /\ ShownIsCurrent(p)

TableOK == \A p \in Property : RowOK(p)

IInv == StateOK /\ OneScan /\ CursorsCounted /\ TableOK

-----------------------------------------------------------------------------
(* Jobs and events.                                                        *)

LEMMA Constants ==
  /\ MaxClicks \in Nat /\ Worker \subseteq Nat \ {0}
  /\ \A w \in Worker : w <= MaxClicks
  /\ None \notin Value /\ Default \in Value /\ Home \in [Property -> Device]
BY ExplorerAssumption DEF Worker

\* A job as it is when it begins.
IsBegun(job, kind, todo, typed) ==
  /\ IsJob(job) /\ job.kind = kind /\ job.phase = "run" /\ job.early = FALSE
  /\ job.todo = todo /\ job.typed = typed /\ DOMAIN job.got = {}

LEMMA JobFacts ==
  ASSUME NEW kind \in {"scan", "get", "set"}, NEW todo, NEW typed,
         kind = "scan" => todo \subseteq Device,
         kind # "scan" => todo \subseteq Property,
         kind = "set" => \A p, q \in todo : p = q
  PROVE  IsBegun(Job(kind, todo, typed), kind, todo, typed)
<1>1. DOMAIN << >> = {}
  BY SMT
<1> DEFINE job == Job(kind, todo, typed)
<1>2. /\ DOMAIN job = Field /\ job.kind = kind /\ job.phase = "run" /\ job.todo = todo
      /\ job.typed = typed /\ job.got = << >> /\ job.early = FALSE
  BY DEF Job, Field
<1> HIDE DEF job
<1>3. IsJob(job)
  BY <1>1, <1>2 DEF IsJob, Kind
<1> QED
  BY <1>1, <1>2, <1>3 DEF IsBegun, job

\* What starts no worker.
IsIdle(job, kind) ==
  /\ IsJob(job) /\ job.kind = kind /\ job.phase = "over" /\ job.todo = {}
  /\ job.early = FALSE /\ DOMAIN job.got = {}

LEMMA NoWorkFacts ==
  ASSUME NEW kind \in {"none", "failed", "check"}
  PROVE  IsIdle(NoWork(kind), kind)
<1>1. DOMAIN << >> = {}
  BY SMT
<1> DEFINE job == NoWork(kind)
<1>2. /\ DOMAIN job = Field /\ job.kind = kind /\ job.phase = "over" /\ job.todo = {}
      /\ job.got = << >> /\ job.early = FALSE
  BY DEF NoWork, Job, Field
<1> HIDE DEF job
<1>3. IsJob(job)
  BY <1>1, <1>2 DEF IsJob, Kind
<1> QED
  BY <1>1, <1>2, <1>3 DEF IsIdle, job

LEMMA NoJobFacts ==
  /\ IsJob(NoJob) /\ NoJob.kind = "none" /\ NoJob.phase = "over" /\ NoJob.todo = {}
  /\ NoJob.early = FALSE
BY NoWorkFacts DEF NoJob, IsIdle

(* A job in the place of another.                                          *)
LEMMA Changed ==
  ASSUME Jobs, NEW w \in Worker, NEW job, work' = [work EXCEPT ![w] = job]
  PROVE  /\ work'[w] = job
         /\ \A x \in Worker : x # w => work'[x] = work[x]
         /\ work' = [x \in Worker |-> work'[x]]
BY DEF Jobs

LEMMA JobsKeep ==
  ASSUME Types, Jobs, NEW w \in Worker, NEW job, IsJob(job), work' = [work EXCEPT ![w] = job],
         nClicks' \in Nat, nClicks <= nClicks', w <= nClicks'
  PROVE  Jobs'
<1>1. /\ work'[w] = job
      /\ \A x \in Worker : x # w => work'[x] = work[x]
      /\ work' = [x \in Worker |-> work'[x]]
  BY Changed
<1>2. \A x \in Worker : IsJob(work'[x])
  BY <1>1 DEF Jobs
<1>3. \A x \in Worker : x > nClicks' => x # w /\ x > nClicks
  BY Constants DEF Types
<1> QED
  BY <1>1, <1>2, <1>3 DEF Jobs

\* A worker that has begun and is not idle is one of those started.
LEMMA Begun ==
  ASSUME StateOK, NEW w \in Worker, work[w].phase # "over"
  PROVE  w <= nClicks
<1>1. w \in Nat /\ nClicks \in Nat
  BY Constants DEF StateOK, Types
<1>2. w > nClicks => work[w] = NoJob
  BY DEF StateOK, Jobs
<1>3. ~ (w > nClicks)
  BY <1>2, NoJobFacts
<1> QED
  BY <1>1, <1>3

LEMMA BusyFacts ==
  ASSUME StateOK
  PROVE  /\ DOMAIN events = 1..Len(events) /\ Len(events) \in Nat
         /\ \A i \in 1..Len(events) : events[i] \in Worker
         /\ \A w \in Worker : Busy(w) <=> work[w].phase = "run" \/ Waiting(w)
         /\ \A w \in Worker : Waiting(w) => w <= nClicks /\ work[w].phase # "run"
BY DEF StateOK, Types, Events, Busy, Waiting

(* The first event is handled: its worker is not busy any more, all others *)
(* are as before.                                                          *)
LEMMA HandledFacts ==
  ASSUME StateOK, events # << >>, events' = Tail(events),
         work' = [work EXCEPT ![Head(events)] = Shown(@)],
         UNCHANGED <<gui, cursor, bus, nClicks>>
  PROVE  /\ Head(events) \in Worker /\ Busy(Head(events))
         /\ ~ (\E w \in Worker : w = Head(events) /\ Busy(w)')
         /\ \A w \in Worker : w # Head(events) => Busy(w)' = Busy(w)
         /\ work' = [work EXCEPT ![Head(events)] = Shown(work[Head(events)])]
         /\ Jobs' /\ Events' /\ events' \in Seq(Worker)
<1> DEFINE h == Head(events)
<1>1. /\ DOMAIN events = 1..Len(events) /\ Len(events) \in Nat \ {0}
      /\ h = events[1] /\ 1 \in 1..Len(events)
      /\ events' \in Seq(Worker) /\ Len(events') = Len(events) - 1
      /\ \A i \in 1..Len(events') : i + 1 \in 1..Len(events) /\ events'[i] = events[i + 1]
      /\ \A i \in 1..Len(events) : i # 1 => i - 1 \in 1..Len(events') /\ events[i] = events'[i - 1]
  BY SMT DEF StateOK, Types
<1>2. h \in Worker /\ h <= nClicks /\ work[h].phase # "run" /\ Waiting(h)
  BY <1>1, BusyFacts DEF Waiting
<1>3. work' = [work EXCEPT ![h] = Shown(work[h])]
  OBVIOUS
<1> HIDE DEF h
<1>4. IsJob(work[h]) /\ IsJob(Shown(work[h])) /\ Shown(work[h]).phase = work[h].phase
  <2>1. IsJob(work[h])
    BY <1>2 DEF StateOK, Jobs
  <2>2. DOMAIN << >> = {}
    BY SMT
  <2>3. work[h].todo = {}
    BY <1>2, <2>1 DEF IsJob
  <2>4. PICK job : job = work[h]
    OBVIOUS
  <2>5. /\ DOMAIN Shown(job) = Field /\ Shown(job).kind = job.kind
        /\ Shown(job).phase = job.phase /\ Shown(job).todo = job.todo /\ Shown(job).got = << >>
        /\ Shown(job).early = job.early
    BY <2>1, <2>4 DEF IsJob, Shown, Field
  <2>6. IsJob(Shown(job)) /\ Shown(job).phase = job.phase
    BY <2>1, <2>2, <2>3, <2>4, <2>5 DEF IsJob
  <2> QED
    BY <2>1, <2>4, <2>6
<1>5. Jobs'
  <2>1. nClicks' = nClicks /\ nClicks \in Nat /\ nClicks <= nClicks
    BY DEF StateOK, Types
  <2> QED
    BY <2>1, <1>2, <1>3, <1>4, JobsKeep DEF StateOK
<1>6. \A x \in Worker : work'[x].phase = work[x].phase
  BY <1>2, <1>3, <1>4, Changed DEF StateOK
<1>7. Events'
  <2>1. \A i \in 1..Len(events') : events'[i] <= nClicks' /\ work'[events'[i]].phase # "run"
    BY <1>1, <1>6, BusyFacts DEF StateOK, Events
  <2>2. ASSUME NEW i \in 1..Len(events'), NEW j \in 1..Len(events'), events'[i] = events'[j]
        PROVE  i = j
    <3>1. i + 1 \in 1..Len(events) /\ j + 1 \in 1..Len(events) /\ events[i + 1] = events[j + 1]
      BY <1>1, <2>2
    <3>2. i + 1 = j + 1
      BY <3>1 DEF StateOK, Events
    <3> QED
      BY <3>2, <1>1
  <2> QED
    BY <2>1, <2>2 DEF Events
<1>8. \A w \in Worker : w # h => (Waiting(w)' <=> Waiting(w))
  BY <1>1, ZenonT(60) DEF Waiting
<1>9. ~ \E i \in 1..Len(events') : events'[i] = h
  <2> SUFFICES ASSUME NEW i \in 1..Len(events'), events'[i] = h
               PROVE  FALSE
    OBVIOUS
  <2>1. i + 1 \in 1..Len(events) /\ events[i + 1] = events[1] /\ 1 \in 1..Len(events)
    BY <1>1 DEF h
  <2>2. i + 1 = 1
    BY <2>1 DEF StateOK, Events
  <2> QED
    BY <1>1, <2>2, SMT
<1>10. \A w \in Worker : Busy(w)' <=> work'[w].phase = "run" \/ Waiting(w)'
  <2>1. DOMAIN events' = 1..Len(events')
    BY <1>1
  <2> QED
    BY <2>1 DEF Busy, Waiting
<1>11. Busy(h) /\ ~ (\E w \in Worker : w = h /\ Busy(w)')
  <2>1. work'[h].phase # "run"
    BY <1>2, <1>6
  <2>2. \A w \in Worker : w = h => ~ Waiting(w)'
    BY <1>9 DEF Waiting
  <2> QED
    BY <1>2, <1>10, <2>1, <2>2, BusyFacts
<1>12. \A w \in Worker : w # h => Busy(w)' = Busy(w)
  <2> TAKE w \in Worker
  <2> HAVE w # h
  <2>1. Busy(w) <=> work[w].phase = "run" \/ Waiting(w)
    BY BusyFacts
  <2>2. Busy(w)' <=> work[w].phase = "run" \/ Waiting(w)
    BY <1>6, <1>8, <1>10
  <2>3. Busy(w) \in BOOLEAN /\ Busy(w)' \in BOOLEAN
    BY DEF Busy
  <2> QED
    BY <2>1, <2>2, <2>3
<1> QED
  BY <1>1, <1>2, <1>3, <1>5, <1>7, <1>11, <1>12 DEF h

(* A click: the next worker begins, and nobody else is disturbed.          *)
LEMMA ClickFacts ==
  ASSUME StateOK, NEW job, IsJob(job), Click(job)
  PROVE  /\ nClicks + 1 \in Worker /\ nClicks' = nClicks + 1 /\ nClicks' \in 0..MaxClicks
         /\ work' = [work EXCEPT ![nClicks + 1] = job]
         /\ work[nClicks + 1] = NoJob /\ ~ Busy(nClicks + 1)
         /\ \A w \in Worker : w # nClicks + 1 => Busy(w)' = Busy(w)
         /\ \A w \in Worker : w = nClicks + 1 => (Busy(w)' <=> job.phase = "run")
         /\ Jobs' /\ Events'
<1>1. /\ nClicks + 1 \in Worker /\ nClicks' = nClicks + 1 /\ nClicks' \in 0..MaxClicks
      /\ work' = [work EXCEPT ![nClicks + 1] = job] /\ events' = events
      /\ nClicks \in Nat /\ nClicks' \in Nat
  BY Constants DEF Click, Allowed, Worker, StateOK, Types
<1> DEFINE w == nClicks + 1
<1>2. w > nClicks /\ w \in Worker
  BY <1>1
<1> HIDE DEF w
<1>3. work[w] = NoJob /\ ~ Waiting(w)
  <2>1. ~ (w <= nClicks)
    BY <1>1, <1>2, Constants
  <2>2. ~ Waiting(w)
    BY <1>2, <2>1, BusyFacts
  <2> QED
    BY <1>2, <2>2 DEF StateOK, Jobs
<1>4. Jobs'
  <2>1. nClicks <= nClicks' /\ w <= nClicks' /\ work' = [work EXCEPT ![w] = job]
    BY <1>1, SMT DEF w
  <2> QED
    BY <1>1, <1>2, <2>1, JobsKeep DEF StateOK
<1>5. /\ work'[w] = job
      /\ \A x \in Worker : x # w => work'[x] = work[x]
  BY <1>1, <1>2, Changed DEF StateOK, w
<1>6. \A i \in 1..Len(events) : events[i] \in Worker /\ events[i] # w /\ events[i] <= nClicks
  <2>1. \A i \in 1..Len(events) : events[i] \in Worker /\ events[i] <= nClicks
    BY BusyFacts DEF StateOK, Events
  <2>2. \A x \in Worker : x <= nClicks => x # w /\ x <= nClicks'
    BY <1>1, Constants DEF w
  <2> QED
    BY <2>1, <2>2
<1>7. \A i \in 1..Len(events) : events[i] <= nClicks'
  <2>1. \A x \in Worker : x <= nClicks => x <= nClicks'
    BY <1>1, Constants
  <2> QED
    BY <1>6, <2>1
<1>8. Events'
  BY <1>1, <1>5, <1>6, <1>7 DEF Events, StateOK
<1>9. \A x \in Worker : Busy(x)' <=> work'[x].phase = "run" \/ Waiting(x)
  BY <1>1, BusyFacts DEF Busy, Waiting
<1>10. \A x \in Worker : x # w => Busy(x)' = Busy(x)
  <2> TAKE x \in Worker
  <2> HAVE x # w
  <2>1. Busy(x) <=> work[x].phase = "run" \/ Waiting(x)
    BY BusyFacts
  <2>2. Busy(x)' <=> work[x].phase = "run" \/ Waiting(x)
    BY <1>5, <1>9
  <2>3. Busy(x) \in BOOLEAN /\ Busy(x)' \in BOOLEAN
    BY DEF Busy
  <2> QED
    BY <2>1, <2>2, <2>3
<1>11. ~ Busy(w) /\ \A x \in Worker : x = w => (Busy(x)' <=> job.phase = "run")
  BY <1>2, <1>3, <1>5, <1>9, BusyFacts, NoJobFacts
<1> QED
  BY <1>1, <1>2, <1>3, <1>4, <1>8, <1>10, <1>11 DEF w

(* A worker goes on with its job.                                          *)
LEMMA JobGoesOn ==
  ASSUME StateOK, NEW w \in Worker, NEW job, IsJob(job), work' = [work EXCEPT ![w] = job],
         job.phase = work[w].phase, work[w].phase # "over", UNCHANGED <<events, nClicks>>
  PROVE  /\ Jobs' /\ Events'
         /\ \A x \in Worker : Busy(x)' = Busy(x)
<1>1. Jobs'
  <2>1. nClicks' = nClicks /\ nClicks \in Nat /\ nClicks <= nClicks /\ w <= nClicks
    BY Begun DEF StateOK, Types
  <2> QED
    BY <2>1, JobsKeep DEF StateOK
<1>2. \A x \in Worker : work'[x].phase = work[x].phase
  BY Changed DEF StateOK
<1>3. Events'
  BY <1>2, BusyFacts DEF StateOK, Events
<1> QED
  BY <1>1, <1>2, <1>3, BusyFacts DEF Busy

-----------------------------------------------------------------------------
(* Scans and cursors.                                                      *)

(* No scan begins and the button is not enabled.                           *)
LEMMA ScansAsBefore ==
  ASSUME OneScan, \A w \in Worker : Scanning(w)' => Scanning(w), scanEnabled' => scanEnabled
  PROVE  OneScan'
BY DEF OneScan

(* No worker begins or ends, and no cursor is set or restored.             *)
LEMMA CursorsAsBefore ==
  ASSUME StateOK, CursorsCounted, nClicks' = nClicks, cursor' = cursor,
         gui' = "started" <=> gui = "started",
         \A w \in Worker : /\ work'[w].phase = "over" <=> work[w].phase = "over"
                           /\ work'[w].early = work[w].early
  PROVE  CursorsCounted'
<1>1. NoneEarly' = NoneEarly
  BY DEF NoneEarly
<1>2. Active' = Active
  BY DEF Active
<1> QED
  BY <1>1, <1>2 DEF CursorsCounted

(* A click sets no cursor yet.                                             *)
LEMMA ClickKeepsCursors ==
  ASSUME StateOK, CursorsCounted, NEW job, IsJob(job), Click(job), job.early = FALSE,
         job.phase \in {"run", "over"}
  PROVE  CursorsCounted'
<1> DEFINE w == nClicks + 1
<1>1. /\ w \in Worker /\ nClicks' = w /\ work' = [work EXCEPT ![w] = job] /\ work[w] = NoJob
      /\ gui = "loop" /\ cursor' = cursor
      /\ gui' = IF job.phase = "over" THEN "loop" ELSE "started"
  <2>1. gui = "loop" /\ cursor' = cursor /\ gui' = IF job.phase = "over" THEN "loop" ELSE "started"
    BY DEF Click, AtWindow
  <2> QED
    BY <2>1, ClickFacts
<1> HIDE DEF w
<1>2. work'[w] = job /\ \A x \in Worker : x # w => work'[x] = work[x]
  BY <1>1, Changed DEF StateOK
<1>3. NoneEarly' = NoneEarly
  BY <1>1, <1>2, NoJobFacts DEF NoneEarly
<1>4. Active' = Active
  <2>1. Active = {x \in Worker : work[x].phase # "over"}
    BY <1>1 DEF Active
  <2>2. CASE job.phase = "over"
    BY <1>1, <1>2, <2>1, <2>2, NoJobFacts DEF Active
  <2>3. CASE job.phase # "over"
    <3>1. Active' = {x \in Worker : work'[x].phase # "over"} \ {w}
      BY <1>1, <2>3 DEF Active
    <3> QED
      BY <1>1, <1>2, <2>1, <3>1, NoJobFacts
  <2> QED
    BY <2>2, <2>3
<1>5. gui' = "started" => nClicks' \in Worker /\ work'[nClicks'].phase # "over"
  BY <1>1, <1>2
<1> QED
  BY <1>1, <1>3, <1>4, <1>5 DEF CursorsCounted

LEMMA ActiveIsFinite ==
  ASSUME NEW A, A = Active
  PROVE  IsFiniteSet(A)
<1>1. IsFiniteSet(1..MaxClicks)
  BY FS_Interval, Constants
<1>2. A \subseteq 1..MaxClicks
  BY DEF Active, Worker
<1> QED
  BY <1>1, <1>2, FS_Subset

LEMMA SetCursorKeepsCursors ==
  ASSUME StateOK, CursorsCounted, SetCursor
  PROVE  CursorsCounted'
<1>1. /\ gui = "started" /\ gui' = "cursor" /\ cursor' = cursor + 1
      /\ work' = work /\ nClicks' = nClicks /\ nClicks \in Worker
  BY DEF SetCursor, CursorsCounted
<1>2. NoneEarly' = NoneEarly
  BY <1>1 DEF NoneEarly
<1>3. ASSUME NoneEarly PROVE cursor' = Cardinality(Active')
  <2>1. cursor = Cardinality(Active) /\ work[nClicks].phase # "over"
    BY <1>1, <1>3 DEF CursorsCounted
  <2>2. Active' = Active \cup {nClicks} /\ nClicks \notin Active
    BY <1>1, <2>1 DEF Active
  <2>3. Cardinality(Active \cup {nClicks}) = Cardinality(Active) + 1
    BY <2>2, ActiveIsFinite, FS_AddElement
  <2> QED
    BY <1>1, <2>1, <2>2, <2>3
<1> QED
  BY <1>1, <1>2, <1>3 DEF CursorsCounted

LEMMA RestoreKeepsCursors ==
  ASSUME StateOK, CursorsCounted, NEW w \in Worker, Restore(w)
  PROVE  CursorsCounted'
<1> DEFINE job == [work[w] EXCEPT !.phase = "over", !.early = gui = "started" /\ w = nClicks]
<1>1. /\ work[w].phase = "finally" /\ gui' = gui /\ nClicks' = nClicks
      /\ cursor' = IF cursor > 0 THEN cursor - 1 ELSE 0
      /\ DOMAIN work[w] = Field
  BY DEF Restore, StateOK, Jobs, IsJob
<1>2. /\ DOMAIN job = Field /\ job.phase = "over"
      /\ job.early = (gui = "started" /\ w = nClicks)
  BY <1>1 DEF Field
<1>3. work' = [work EXCEPT ![w] = job]
  BY <1>1 DEF Restore, StateOK, Jobs, Field
<1> HIDE DEF job
<1>4. work'[w] = job /\ \A x \in Worker : x # w => work'[x] = work[x]
  BY <1>3, Changed DEF StateOK
<1>5. CASE gui = "started" /\ w = nClicks
  <2>1. ~ NoneEarly'
    BY <1>2, <1>4, <1>5 DEF NoneEarly
  <2> QED
    BY <1>1, <2>1 DEF CursorsCounted
<1>6. CASE ~ (gui = "started" /\ w = nClicks)
  <2>1. Active' = Active \ {w} /\ w \in Active
    BY <1>1, <1>2, <1>4, <1>6 DEF Active
  <2>2. gui' = "started" => nClicks' \in Worker
    BY <1>1 DEF CursorsCounted
  <2>3. NoneEarly' => NoneEarly
    <3>1. ~ work[w].early
      BY <1>1 DEF StateOK, Jobs, IsJob
    <3> QED
      BY <1>4, <3>1 DEF NoneEarly
  <2>4. ASSUME NoneEarly'
        PROVE  /\ cursor' = Cardinality(Active')
               /\ gui' = "started" => work'[nClicks'].phase # "over"
    <3>1. /\ cursor = Cardinality(Active)
          /\ gui = "started" => work[nClicks].phase # "over" /\ nClicks \in Worker
      BY <2>3, <2>4 DEF CursorsCounted
    <3>2. IsFiniteSet(Active)
      BY ActiveIsFinite
    <3>3. /\ Cardinality(Active \ {w}) = Cardinality(Active) - 1
          /\ Cardinality(Active) \in Nat /\ Cardinality(Active) # 0
      BY <2>1, <3>2, FS_RemoveElement, FS_CardinalityType, FS_EmptySet
    <3>4. cursor' = Cardinality(Active) - 1
      BY <1>1, <3>1, <3>3, SMT
    <3>5. gui' = "started" => work'[nClicks'].phase # "over"
      BY <1>1, <1>4, <1>6, <3>1
    <3> QED
      BY <2>1, <3>3, <3>4, <3>5
  <2> QED
    BY <2>2, <2>4 DEF CursorsCounted
<1> QED
  BY <1>5, <1>6

-----------------------------------------------------------------------------
(* What each step of a worker does to its job.                             *)

BusOK ==
  /\ vals \in [Property -> Value] /\ late \subseteq Device /\ loose \subseteq Property
  /\ sure \in [Property -> SUBSET Worker]

\* The job of a worker is replaced; its kind, and whether it runs, stay.
GoesOn(w, job) ==
  /\ work' = [work EXCEPT ![w] = job]
  /\ IsJob(job)
  /\ work[w].phase = "run" /\ job.phase = "run"
  /\ job.kind = work[w].kind /\ job.early = work[w].early

LEMMA ScanGoesOn ==
  ASSUME StateOK, NEW w \in Worker, Scan(w)
  PROVE  \E job : GoesOn(w, job) /\ job.kind = "scan" /\ bus' = bus
<1>1. /\ work[w].kind = "scan" /\ work[w].phase = "run" /\ bus' = bus
      /\ IsJob(work[w]) /\ DOMAIN work[w] = Field /\ work = [x \in Worker |-> work[x]]
  BY DEF Scan, Doing, StateOK, Jobs, IsJob
<1>2. CASE work' = [work EXCEPT ![w].todo = {}, ![w].signal = "catch"]
  <2> DEFINE job == [work[w] EXCEPT !.todo = {}, !.signal = "catch"]
  <2>1. work' = [work EXCEPT ![w] = job]
    BY <1>1, <1>2 DEF Field
  <2>2. /\ DOMAIN job = Field /\ job.kind = "scan" /\ job.phase = "run" /\ job.todo = {}
        /\ job.got = work[w].got /\ job.early = work[w].early
    BY <1>1 DEF Field
  <2> HIDE DEF job
  <2>3. IsJob(job)
    BY <1>1, <2>2 DEF IsJob
  <2> QED
    BY <1>1, <2>1, <2>2, <2>3 DEF GoesOn
<1>3. ASSUME NEW found \in SUBSET Device,
             work' = [work EXCEPT ![w].todo = {}, ![w].got = [d \in found |-> None]]
      PROVE  \E job : GoesOn(w, job) /\ job.kind = "scan"
  <2> DEFINE job == [work[w] EXCEPT !.todo = {}, !.got = [d \in found |-> None]]
  <2>1. work' = [work EXCEPT ![w] = job]
    BY <1>1, <1>3 DEF Field
  <2>2. /\ DOMAIN job = Field /\ job.kind = "scan" /\ job.phase = "run" /\ job.todo = {}
        /\ job.got = [d \in found |-> None] /\ job.early = work[w].early
    BY <1>1 DEF Field
  <2> HIDE DEF job
  <2>3. IsJob(job)
    BY <1>1, <2>2 DEF IsJob
  <2> QED
    BY <1>1, <2>1, <2>2, <2>3 DEF GoesOn
<1> QED
  BY <1>1, <1>2, <1>3 DEF Scan

\* A query's job after an answer for p.
HasAnswer(w, job, p, answer) ==
  /\ GoesOn(w, job) /\ job.kind = "get"
  /\ job.todo = work[w].todo \ {p}
  /\ DOMAIN job.got = DOMAIN work[w].got \cup {p} /\ job.got[p] = answer
  /\ \A q \in DOMAIN work[w].got : q # p => job.got[q] = work[w].got[q]

LEMMA AnsweredGoesOn ==
  ASSUME StateOK, NEW w \in Worker, Doing(w, "get"), NEW p \in work[w].todo,
         NEW answer \in Value \cup {None, Misfit}, Answered(w, p, answer)
  PROVE  p \in Property /\ \E job : HasAnswer(w, job, p, answer)
<1>1. /\ work[w].kind = "get" /\ work[w].phase = "run"
      /\ IsJob(work[w]) /\ DOMAIN work[w] = Field /\ work = [x \in Worker |-> work[x]]
      /\ work[w].todo \subseteq Property
  BY DEF Doing, StateOK, Jobs, IsJob
<1> DEFINE got == [q \in DOMAIN work[w].got \cup {p} |-> IF q = p THEN answer ELSE work[w].got[q]]
           job == [work[w] EXCEPT !.todo = work[w].todo \ {p}, !.got = got]
<1>2. work' = [work EXCEPT ![w] = job]
  BY <1>1 DEF Field, Answered
<1>3. /\ DOMAIN job = Field /\ job.kind = "get" /\ job.phase = "run"
      /\ job.todo = work[w].todo \ {p} /\ job.got = got /\ job.early = work[w].early
  BY <1>1 DEF Field
<1>4. /\ DOMAIN got = DOMAIN work[w].got \cup {p} /\ got[p] = answer
      /\ \A q \in DOMAIN work[w].got : q # p => got[q] = work[w].got[q]
  OBVIOUS
<1> HIDE DEF got, job
<1>5. IsJob(job)
  BY <1>1, <1>3, <1>4 DEF IsJob
<1>6. HasAnswer(w, job, p, answer)
  BY <1>1, <1>2, <1>3, <1>4, <1>5 DEF GoesOn, HasAnswer
<1> QED
  BY <1>1, <1>6

LEMMA SetGoesOn ==
  ASSUME StateOK, NEW w \in Worker, Doing(w, "set"), NEW signal,
         work' = [work EXCEPT ![w].todo = {}, ![w].typed = None, ![w].signal = signal]
  PROVE  \E job : GoesOn(w, job) /\ job.kind = "set" /\ job.todo = {}
<1>1. /\ work[w].kind = "set" /\ work[w].phase = "run"
      /\ IsJob(work[w]) /\ DOMAIN work[w] = Field /\ work = [x \in Worker |-> work[x]]
  BY DEF Doing, StateOK, Jobs, IsJob
<1> DEFINE job == [work[w] EXCEPT !.todo = {}, !.typed = None, !.signal = signal]
<1>2. work' = [work EXCEPT ![w] = job]
  BY <1>1 DEF Field
<1>3. /\ DOMAIN job = Field /\ job.kind = "set" /\ job.phase = "run"
      /\ job.todo = {} /\ job.got = work[w].got /\ job.early = work[w].early
  BY <1>1 DEF Field
<1> HIDE DEF job
<1>4. IsJob(job)
  BY <1>1, <1>3 DEF IsJob
<1> QED
  BY <1>1, <1>2, <1>3, <1>4 DEF GoesOn

(* A worker that goes on with its job is the only one to change, and is as *)
(* busy as before.                                                         *)
LEMMA GoesOnKeeps ==
  ASSUME StateOK, NEW w \in Worker, NEW job, GoesOn(w, job),
         UNCHANGED <<gui, buttons, window, events, boxes, cursor, nClicks>>, BusOK'
  PROVE  /\ StateOK'
         /\ \A x \in Worker : Busy(x)' = Busy(x)
         /\ work'[w] = job /\ \A x \in Worker : x # w => work'[x] = work[x]
         /\ OneScan => OneScan'
         /\ CursorsCounted => CursorsCounted'
<1>1. work[w].phase # "over" /\ job.phase = work[w].phase
  BY DEF GoesOn
<1>2. /\ Jobs' /\ Events'
      /\ \A x \in Worker : Busy(x)' = Busy(x)
  BY <1>1, JobGoesOn DEF GoesOn
<1>3. work'[w] = job /\ \A x \in Worker : x # w => work'[x] = work[x]
  BY Changed DEF StateOK, GoesOn
<1>4. Types'
  BY DEF StateOK, Types, buttons, window, BusOK
<1>5. \A x \in Worker : /\ work'[x].kind = work[x].kind /\ work'[x].phase = work[x].phase
                        /\ work'[x].early = work[x].early
  BY <1>1, <1>3 DEF GoesOn
<1>6. OneScan => OneScan'
  <2>1. \A x \in Worker : Scanning(x)' => Scanning(x)
    BY <1>2, <1>5 DEF Scanning
  <2> QED
    BY <2>1, ScansAsBefore DEF buttons
<1>7. CursorsCounted => CursorsCounted'
  BY <1>5, CursorsAsBefore
<1> QED
  BY <1>2, <1>3, <1>4, <1>6, <1>7 DEF StateOK

-----------------------------------------------------------------------------
(* The table.                                                              *)

\* A worker that has to do with neither query nor edit, or that is at the
\* same job as before or has ended it.
Calm(x) ==
  /\ work[x].kind # "none" => work'[x].kind # "none"
  /\ \/ work[x].kind \notin {"get", "set"} /\ work'[x].kind \notin {"get", "set"}
     \/ /\ work'[x].kind = work[x].kind
        /\ work'[x].todo = work[x].todo
        /\ work[x].todo # {} => work'[x].typed = work[x].typed
        /\ Busy(x)' => Busy(x) /\ work'[x].got = work[x].got

(* Where all are calm, a property that nobody touches is as it was.        *)
LEMMA CalmKeeps ==
  ASSUME NEW p \in Property, \A x \in Worker : Calm(x), RowOK(p),
         table'[p] = table[p], source'[p] = source[p],
         vals'[p] = vals[p], sure'[p] = sure[p]
  PROVE  RowOK(p)'
<1>1. \A x \in Worker : Querying(x)' => Querying(x) /\ work'[x].got = work[x].got
                                        /\ work'[x].todo = work[x].todo
  BY DEF Calm, Querying
<1>2. \A x \in Worker : ToSet(x, p)' => ToSet(x, p) /\ work'[x].typed = work[x].typed
  BY DEF Calm, ToSet
<1>3. \A x \in Worker : work[x].kind # "none" => work'[x].kind # "none"
  BY DEF Calm
<1>4. NamesBegun(p)'
  BY <1>3 DEF NamesBegun, RowOK
<1>5. NotYetKnown(p)'
  BY <1>1 DEF NotYetKnown, RowOK
<1>6. AnswerIsCurrent(p)'
  BY <1>1 DEF AnswerIsCurrent, RowOK
<1>7. TypedIsShown(p)'
  BY <1>2 DEF TypedIsShown, RowOK
<1>8. ShownIsCurrent(p)'
  BY DEF ShownIsCurrent, RowOK
<1> QED
  BY <1>4, <1>5, <1>6, <1>7, <1>8 DEF RowOK

LEMMA TableAsBefore ==
  ASSUME TableOK, \A x \in Worker : Calm(x), UNCHANGED <<table, source, vals, sure>>
  PROVE  TableOK'
BY CalmKeeps DEF TableOK

-----------------------------------------------------------------------------
(* The steps of a worker.                                                  *)

LEMMA BusIsOK == ASSUME StateOK PROVE BusOK
BY DEF BusOK, StateOK, Types

LEMMA ScanKeeps ==
  ASSUME IInv, NEW w \in Worker, Scan(w),
         UNCHANGED <<gui, buttons, window, events, boxes, cursor, nClicks>>
  PROVE  IInv'
<1>1. PICK job : GoesOn(w, job) /\ job.kind = "scan" /\ bus' = bus
  BY ScanGoesOn DEF IInv
<1>2. BusOK'
  BY <1>1, BusIsOK DEF IInv, BusOK, bus
<1>3. /\ StateOK' /\ OneScan' /\ CursorsCounted'
      /\ \A x \in Worker : Busy(x)' = Busy(x)
      /\ work'[w] = job /\ \A x \in Worker : x # w => work'[x] = work[x]
  BY <1>1, <1>2, GoesOnKeeps DEF IInv
<1>4. \A x \in Worker : Calm(x)
  BY <1>1, <1>3 DEF GoesOn, Calm
<1>5. TableOK'
  BY <1>1, <1>4, TableAsBefore DEF IInv, window, bus
<1> QED
  BY <1>3, <1>5 DEF IInv

(* A query with an answer for p: worker w knows p if it is p's value.      *)
LEMMA AnswerKeeps ==
  ASSUME IInv, NEW w \in Worker, Doing(w, "get"), NEW p \in work[w].todo,
         NEW answer \in Value \cup {None, Misfit}, Answered(w, p, answer),
         UNCHANGED <<gui, buttons, window, events, boxes, cursor, nClicks, vals, loose>>,
         late' \subseteq Device,
         \/ sure' = sure
         \/ sure' = [sure EXCEPT ![p] = @ \cup {w}] /\ answer = vals[p]
  PROVE  IInv'
<1>1. p \in Property /\ \E job : HasAnswer(w, job, p, answer)
  BY AnsweredGoesOn DEF IInv
<1>2. PICK job : HasAnswer(w, job, p, answer)
  BY <1>1
<1>3. /\ BusOK'
      /\ \A q \in Property : q # p => sure'[q] = sure[q]
      /\ \/ sure'[p] = sure[p]
         \/ sure'[p] = sure[p] \cup {w} /\ answer = vals[p]
  BY <1>1, BusIsOK DEF IInv, BusOK
<1>4. /\ StateOK' /\ OneScan' /\ CursorsCounted'
      /\ \A x \in Worker : Busy(x)' = Busy(x)
      /\ work'[w] = job /\ \A x \in Worker : x # w => work'[x] = work[x]
  BY <1>2, <1>3, GoesOnKeeps DEF IInv, HasAnswer
<1>5. /\ work[w].kind = "get" /\ work'[w].kind = "get" /\ work[w].phase = "run"
      /\ work'[w].todo = work[w].todo \ {p}
      /\ DOMAIN work'[w].got = DOMAIN work[w].got \cup {p} /\ work'[w].got[p] = answer
      /\ \A q \in DOMAIN work[w].got : q # p => work'[w].got[q] = work[w].got[q]
  BY <1>2, <1>4 DEF HasAnswer, Doing
<1>6. \A x \in Worker : (Querying(x)' <=> Querying(x)) /\ work'[x].kind = work[x].kind
  BY <1>4, <1>5 DEF Querying
<1>7. Querying(w)
  BY <1>5 DEF Querying, Busy
<1>8. ASSUME NEW q \in Property PROVE RowOK(q)'
  <2>1. RowOK(q)
    BY DEF IInv, TableOK
  <2>2. /\ table'[q] = table[q] /\ source'[q] = source[q] /\ vals'[q] = vals[q]
    BY DEF window
  <2>3. \A x \in Worker : x \in sure'[q] => x \in sure[q] \/ (x = w /\ q = p /\ answer = vals[p])
    BY <1>3
  <2>4. NamesBegun(q)'
    BY <1>5, <1>6, <2>1, <2>2, <2>3 DEF NamesBegun, RowOK
  <2>5. NotYetKnown(q)'
    BY <1>4, <1>5, <1>6, <2>1, <2>2, <2>3 DEF NotYetKnown, RowOK
  <2>6. AnswerIsCurrent(q)'
    <3> SUFFICES ASSUME NEW x \in Worker, Querying(x), q \in DOMAIN work'[x].got, x \in sure'[q]
                 PROVE  work'[x].got[q] = vals[q]
      BY <1>6, <2>2 DEF AnswerIsCurrent
    <3>1. CASE x # w
      BY <1>4, <2>1, <2>3, <3>1 DEF AnswerIsCurrent, RowOK
    <3>2. CASE x = w /\ q = p
      <4>1. w \notin sure[p]
        BY <1>7, <2>1, <3>2 DEF NotYetKnown, RowOK
      <4> QED
        BY <1>5, <2>3, <3>2, <4>1
    <3>3. CASE x = w /\ q # p
      BY <1>5, <2>1, <2>3, <3>3 DEF AnswerIsCurrent, RowOK
    <3> QED
      BY <3>1, <3>2, <3>3
  <2>7. \A x \in Worker : ToSet(x, q)' => ToSet(x, q) /\ work'[x].typed = work[x].typed
    BY <1>4, <1>5 DEF ToSet
  <2>8. TypedIsShown(q)'
    BY <2>1, <2>2, <2>7 DEF TypedIsShown, RowOK
  <2>9. ShownIsCurrent(q)'
    <3>1. source[q] \in sure'[q] => source[q] \in sure[q] \/ source[q] = w
      BY <1>3
    <3>2. source[q] # w
      BY <1>7, <2>1 DEF NotYetKnown, RowOK
    <3> QED
      BY <2>1, <2>2, <3>1, <3>2 DEF ShownIsCurrent, RowOK
  <2> QED
    BY <2>4, <2>5, <2>6, <2>8, <2>9 DEF RowOK
<1> QED
  BY <1>4, <1>8 DEF IInv, TableOK

LEMMA QueryKeeps ==
  ASSUME IInv, NEW w \in Worker, Query(w),
         UNCHANGED <<gui, buttons, window, events, boxes, cursor, nClicks>>
  PROVE  IInv'
<1>1. PICK p \in work[w].todo :
        \/ /\ Answered(w, p, vals[p]) /\ sure' = [sure EXCEPT ![p] = @ \cup {w}]
           /\ UNCHANGED late
        \/ /\ \E answer \in Value \cup {None, Misfit} : Answered(w, p, answer)
           /\ late' = late \cup {Home[p]} /\ UNCHANGED sure
  BY DEF Query
<1>2. Doing(w, "get") /\ UNCHANGED <<vals, loose>>
  BY DEF Query
<1>3. p \in Property /\ vals[p] \in Value /\ Home[p] \in Device /\ late \subseteq Device
  BY <1>2, Constants DEF Doing, IInv, StateOK, Types, Jobs, IsJob
<1> QED
  BY <1>1, <1>2, <1>3, AnswerKeeps

(* The device writes p: whoever is sure of it has set it as typed.         *)
LEMMA WriteKeepsRow ==
  ASSUME IInv, NEW p \in Property, NEW kept \in Value, NEW workers \in SUBSET Worker,
         Write(p, kept, workers), UNCHANGED <<table, source>>,
         \A x \in Worker : (Querying(x)' <=> Querying(x)) /\ work'[x].kind = work[x].kind,
         \A x \in Worker : ToSet(x, p)' => ToSet(x, p) /\ work'[x].typed = work[x].typed,
         \A x \in workers : ToSet(x, p) /\ kept = work[x].typed
  PROVE  RowOK(p)'
<1>1. vals'[p] = kept /\ sure'[p] = workers
  BY DEF Write, IInv, StateOK, Types
<1>2. RowOK(p)
  BY DEF IInv, TableOK
<1>3. \A x \in workers : x \in Worker /\ work[x].kind = "set" /\ work'[x].kind = "set"
                         /\ ~ Querying(x)
  BY DEF ToSet, Querying
<1>4. NamesBegun(p)'
  BY <1>1, <1>2, <1>3 DEF NamesBegun, RowOK
<1>5. NotYetKnown(p)'
  BY <1>1, <1>2, <1>3 DEF NotYetKnown, RowOK
<1>6. AnswerIsCurrent(p)'
  BY <1>1, <1>3 DEF AnswerIsCurrent
<1>7. TypedIsShown(p)'
  BY <1>2 DEF TypedIsShown, RowOK
<1>8. ShownIsCurrent(p)'
  BY <1>1, <1>2, <1>3 DEF ShownIsCurrent, TypedIsShown, RowOK
<1> QED
  BY <1>4, <1>5, <1>6, <1>7, <1>8 DEF RowOK

LEMMA WriteFacts ==
  ASSUME StateOK, NEW p \in Property, NEW kept \in Value, NEW workers \in SUBSET Worker,
         Write(p, kept, workers)
  PROVE  /\ vals' \in [Property -> Value] /\ sure' \in [Property -> SUBSET Worker]
         /\ \A q \in Property : q # p => vals'[q] = vals[q] /\ sure'[q] = sure[q]
BY DEF Write, StateOK, Types

LEMMA SetKeeps ==
  ASSUME IInv, NEW w \in Worker, Set(w),
         UNCHANGED <<gui, buttons, window, events, boxes, cursor, nClicks>>
  PROVE  IInv'
<1>1. PICK signal \in {"then", "catch"} :
        work' = [work EXCEPT ![w].todo = {}, ![w].typed = None, ![w].signal = signal]
  BY DEF Set
<1>2. PICK p \in work[w].todo :
        \/ \E kept \in Value :
             Write(p, kept, IF kept = work[w].typed THEN {w} ELSE {}) /\ UNCHANGED loose
        \/ loose' = loose \cup {p} /\ UNCHANGED <<vals, sure>>
  BY DEF Set
<1>3. Doing(w, "set") /\ UNCHANGED late
  BY DEF Set
<1>4. PICK job : GoesOn(w, job) /\ job.kind = "set" /\ job.todo = {}
  BY <1>1, <1>3, SetGoesOn DEF IInv
<1>5. /\ work[w].kind = "set" /\ work[w].phase = "run"
      /\ p \in Property /\ ToSet(w, p)
  BY <1>3 DEF Doing, ToSet, IInv, StateOK, Jobs, IsJob
<1>6. \/ \E kept \in Value, workers \in SUBSET {w} :
             Write(p, kept, workers) /\ UNCHANGED loose /\ (workers # {} => kept = work[w].typed)
      \/ loose' = loose \cup {p} /\ UNCHANGED <<vals, sure>>
  <2>1. CASE loose' = loose \cup {p} /\ UNCHANGED <<vals, sure>>
    BY <2>1
  <2>2. CASE \E kept \in Value :
               Write(p, kept, IF kept = work[w].typed THEN {w} ELSE {}) /\ UNCHANGED loose
    <3>1. PICK kept \in Value :
            Write(p, kept, IF kept = work[w].typed THEN {w} ELSE {}) /\ UNCHANGED loose
      BY <2>2
    <3>2. CASE kept = work[w].typed
      <4>1. Write(p, kept, {w})
        BY <3>1, <3>2
      <4> QED
        BY <3>1, <3>2, <4>1
    <3>3. CASE kept # work[w].typed
      <4>1. Write(p, kept, {})
        BY <3>1, <3>3
      <4> QED
        BY <3>1, <3>3, <4>1
    <3> QED
      BY <3>2, <3>3
  <2> QED
    BY <1>2, <2>1, <2>2
<1>7. BusOK'
  <2>1. CASE loose' = loose \cup {p} /\ UNCHANGED <<vals, sure>>
    BY <1>3, <1>5, <2>1, BusIsOK DEF BusOK, IInv
  <2>2. ASSUME NEW kept \in Value, NEW workers \in SUBSET {w}, Write(p, kept, workers),
               UNCHANGED loose
        PROVE  BusOK'
    BY <1>3, <1>5, <2>2, WriteFacts, BusIsOK DEF BusOK, IInv
  <2> QED
    BY <1>6, <2>1, <2>2
<1>8. /\ StateOK' /\ OneScan' /\ CursorsCounted'
      /\ \A x \in Worker : Busy(x)' = Busy(x)
      /\ work'[w] = job /\ \A x \in Worker : x # w => work'[x] = work[x]
  BY <1>4, <1>7, GoesOnKeeps DEF IInv
<1>9. /\ \A x \in Worker : (Querying(x)' <=> Querying(x)) /\ work'[x].kind = work[x].kind
      /\ \A x \in Worker, q \in Property :
           ToSet(x, q)' => ToSet(x, q) /\ work'[x].typed = work[x].typed
  BY <1>4, <1>5, <1>8 DEF Querying, ToSet
<1>10. ASSUME NEW q \in Property, vals'[q] = vals[q], sure'[q] = sure[q] PROVE RowOK(q)'
  <2>1. RowOK(q) /\ table'[q] = table[q] /\ source'[q] = source[q]
    BY DEF IInv, TableOK, window
  <2>2. NamesBegun(q)'
    BY <1>9, <1>10, <2>1 DEF NamesBegun, RowOK
  <2>3. \A x \in Worker : Querying(x) => x # w /\ work'[x] = work[x]
    BY <1>5, <1>8 DEF Querying
  <2>4. NotYetKnown(q)' /\ AnswerIsCurrent(q)'
    BY <1>9, <1>10, <2>1, <2>3 DEF NotYetKnown, AnswerIsCurrent, RowOK
  <2>5. TypedIsShown(q)' /\ ShownIsCurrent(q)'
    BY <1>9, <1>10, <2>1 DEF TypedIsShown, ShownIsCurrent, RowOK
  <2> QED
    BY <2>2, <2>4, <2>5 DEF RowOK
<1>11. ASSUME NEW kept \in Value, NEW workers \in SUBSET {w}, Write(p, kept, workers),
              workers # {} => kept = work[w].typed
       PROVE  TableOK'
  <2>1. RowOK(p)'
    BY <1>5, <1>9, <1>11, WriteKeepsRow DEF window
  <2>2. \A q \in Property : q # p => RowOK(q)'
    BY <1>5, <1>10, <1>11, WriteFacts DEF IInv
  <2> QED
    BY <2>1, <2>2 DEF TableOK
<1>12. ASSUME UNCHANGED <<vals, sure>> PROVE TableOK'
  BY <1>10, <1>12 DEF TableOK
<1>13. TableOK'
  BY <1>6, <1>11, <1>12
<1> QED
  BY <1>8, <1>13 DEF IInv

LEMMA LateWriteKeeps ==
  ASSUME IInv, NEW p \in Property, LateWrite(p)
  PROVE  IInv'
<1>1. PICK kept \in Value : Write(p, kept, {})
  BY DEF LateWrite
<1>2. /\ loose' \subseteq Property
      /\ UNCHANGED <<gui, buttons, window, events, boxes, work, cursor, late, nClicks>>
  BY DEF LateWrite, IInv, StateOK, Types
<1>3. /\ vals' \in [Property -> Value] /\ sure' \in [Property -> SUBSET Worker]
      /\ \A q \in Property : q # p => vals'[q] = vals[q] /\ sure'[q] = sure[q]
  BY <1>1, WriteFacts DEF IInv
<1>4. StateOK'
  BY <1>2, <1>3 DEF IInv, StateOK, Types, Jobs, Events, buttons, window
<1>5. \A x \in Worker : Calm(x) /\ (Scanning(x)' => Scanning(x))
  BY <1>2 DEF Calm, Busy, Scanning
<1>6. OneScan' /\ CursorsCounted'
  BY <1>2, <1>5, ScansAsBefore, CursorsAsBefore DEF IInv, buttons
<1>7. /\ \A x \in Worker : (Querying(x)' <=> Querying(x)) /\ work'[x].kind = work[x].kind
      /\ \A x \in Worker : ToSet(x, p)' => ToSet(x, p) /\ work'[x].typed = work[x].typed
  BY <1>2 DEF Querying, ToSet, Busy
<1>8. RowOK(p)'
  BY <1>1, <1>2, <1>7, WriteKeepsRow DEF window
<1>9. \A q \in Property : q # p => RowOK(q)'
  BY <1>2, <1>3, <1>5, CalmKeeps DEF IInv, TableOK, window
<1> QED
  BY <1>4, <1>6, <1>8, <1>9 DEF IInv, TableOK

LEMMA EmitKeeps ==
  ASSUME IInv, NEW w \in Worker, Emit(w)
  PROVE  IInv'
<1> DEFINE heard == work[w].signal \in Connected(w)
           job == [work[w] EXCEPT !.phase = "finally", !.lost = ~ heard]
<1>1. /\ work[w].phase = "run" /\ work[w].todo = {}
      /\ events' = IF heard THEN Append(events, w) ELSE events
      /\ work' = [work EXCEPT ![w].phase = "finally", ![w].lost = ~ heard]
      /\ UNCHANGED <<gui, buttons, window, boxes, cursor, bus, nClicks>>
  BY DEF Emit
<1>2. IsJob(work[w]) /\ DOMAIN work[w] = Field /\ work = [x \in Worker |-> work[x]]
  BY DEF IInv, StateOK, Jobs, IsJob
<1> HIDE DEF heard
<1>3. work' = [work EXCEPT ![w] = job]
  BY <1>1, <1>2 DEF Field
<1>4. /\ DOMAIN job = Field /\ job.kind = work[w].kind /\ job.phase = "finally"
      /\ job.todo = work[w].todo /\ job.typed = work[w].typed /\ job.got = work[w].got
      /\ job.early = work[w].early
  BY <1>2 DEF Field
<1> HIDE DEF job
<1>5. IsJob(job)
  BY <1>1, <1>2, <1>4 DEF IsJob
<1>6. work'[w] = job /\ \A x \in Worker : x # w => work'[x] = work[x]
  BY <1>3, Changed DEF IInv, StateOK
<1>7. /\ nClicks' = nClicks /\ nClicks \in Nat /\ nClicks <= nClicks /\ w <= nClicks
      /\ events \in Seq(Worker) /\ DOMAIN events = 1..Len(events) /\ Len(events) \in Nat
  BY <1>1, Begun, BusyFacts DEF IInv, StateOK, Types
<1>8. Jobs'
  BY <1>3, <1>5, <1>7, JobsKeep DEF IInv, StateOK
<1>9. /\ events' \in Seq(Worker) /\ DOMAIN events' = 1..Len(events')
      /\ \A i \in 1..Len(events') :
           \/ i \in 1..Len(events) /\ events'[i] = events[i]
           \/ i = Len(events) + 1 /\ events'[i] = w
  BY <1>1, <1>7
<1>10. ~ Waiting(w)
  BY <1>1, BusyFacts DEF IInv
<1>11. Events'
  <2>1. \A i \in 1..Len(events) : /\ events[i] \in Worker /\ events[i] # w
                                  /\ events[i] <= nClicks /\ work[events[i]].phase # "run"
    BY <1>10, BusyFacts DEF IInv, StateOK, Events, Waiting
  <2>2. \A i \in 1..Len(events') : events'[i] <= nClicks' /\ work'[events'[i]].phase # "run"
    BY <1>4, <1>6, <1>7, <1>9, <2>1
  <2>3. ASSUME NEW i \in 1..Len(events'), NEW j \in 1..Len(events'), events'[i] = events'[j]
        PROVE  i = j
    <3>1. CASE i \in 1..Len(events) /\ j \in 1..Len(events)
      <4>1. events[i] = events[j]
        BY <1>7, <1>9, <2>3, <3>1, SMT
      <4> QED
        BY <3>1, <4>1 DEF IInv, StateOK, Events
    <3>2. CASE i = Len(events) + 1 /\ j = Len(events) + 1
      BY <3>2
    <3>3. CASE i \in 1..Len(events) /\ j = Len(events) + 1
      BY <1>7, <1>9, <2>1, <2>3, <3>3, SMT
    <3>4. CASE i = Len(events) + 1 /\ j \in 1..Len(events)
      BY <1>7, <1>9, <2>1, <2>3, <3>4, SMT
    <3> QED
      BY <1>9, <3>1, <3>2, <3>3, <3>4
  <2> QED
    BY <2>2, <2>3 DEF Events
<1>12. Types'
  BY <1>1, <1>9 DEF IInv, StateOK, Types, buttons, window, bus
<1>13. \A x \in Worker : Busy(x)' => Busy(x)
  <2> SUFFICES ASSUME NEW x \in Worker, Busy(x)'
               PROVE  Busy(x)
    OBVIOUS
  <2>1. work'[x].phase = "run" \/ \E i \in 1..Len(events') : events'[i] = x
    BY <1>9 DEF Busy
  <2>2. work[x].phase = "run" \/ \E i \in 1..Len(events) : events[i] = x
    BY <1>1, <1>4, <1>6, <1>9, <2>1
  <2> QED
    BY <1>7, <2>2 DEF Busy
<1>14. OneScan'
  <2>1. \A x \in Worker : Scanning(x)' => Scanning(x)
    BY <1>4, <1>6, <1>13 DEF Scanning
  <2> QED
    BY <1>1, <2>1, ScansAsBefore DEF buttons, IInv
<1>15. CursorsCounted'
  <2>1. \A x \in Worker : /\ work'[x].phase = "over" <=> work[x].phase = "over"
                          /\ work'[x].early = work[x].early
    BY <1>1, <1>4, <1>6
  <2> QED
    BY <1>1, <2>1, CursorsAsBefore DEF IInv
<1>16. \A x \in Worker : Calm(x)
  BY <1>4, <1>6, <1>13 DEF Calm
<1>17. TableOK'
  BY <1>1, <1>16, TableAsBefore DEF IInv, window, bus
<1> QED
  BY <1>8, <1>11, <1>12, <1>14, <1>15, <1>17 DEF IInv, StateOK

LEMMA RestoreKeeps ==
  ASSUME IInv, NEW w \in Worker, Restore(w)
  PROVE  IInv'
<1> DEFINE early == gui = "started" /\ w = nClicks
           job == [work[w] EXCEPT !.phase = "over", !.early = early]
<1>1. /\ work[w].phase = "finally"
      /\ cursor' = IF cursor > 0 THEN cursor - 1 ELSE 0
      /\ work' = [work EXCEPT ![w].phase = "over", ![w].early = early]
      /\ UNCHANGED <<gui, buttons, window, events, boxes, bus, nClicks>>
  BY DEF Restore
<1>2. early \in BOOLEAN
  OBVIOUS
<1>3. IsJob(work[w]) /\ DOMAIN work[w] = Field /\ work = [x \in Worker |-> work[x]]
  BY DEF IInv, StateOK, Jobs, IsJob
<1> HIDE DEF early
<1>4. work' = [work EXCEPT ![w] = job]
  BY <1>1, <1>3 DEF Field
<1>5. /\ DOMAIN job = Field /\ job.kind = work[w].kind /\ job.phase = "over"
      /\ job.todo = work[w].todo /\ job.typed = work[w].typed /\ job.got = work[w].got
      /\ job.early = early
  BY <1>3 DEF Field
<1> HIDE DEF job
<1>6. IsJob(job)
  BY <1>1, <1>2, <1>3, <1>5 DEF IsJob
<1>7. work'[w] = job /\ \A x \in Worker : x # w => work'[x] = work[x]
  BY <1>4, Changed DEF IInv, StateOK
<1>8. Jobs'
  <2>1. nClicks' = nClicks /\ nClicks \in Nat /\ nClicks <= nClicks /\ w <= nClicks
    BY <1>1, Begun DEF IInv, StateOK, Types
  <2> QED
    BY <1>4, <1>6, <2>1, JobsKeep DEF IInv, StateOK
<1>9. \A x \in Worker : work'[x].phase = "run" <=> work[x].phase = "run"
  BY <1>1, <1>5, <1>7
<1>10. Events'
  <2>1. \A i \in 1..Len(events) : events[i] \in Worker
    BY BusyFacts DEF IInv
  <2> QED
    BY <1>1, <1>9, <2>1 DEF IInv, StateOK, Events
<1>11. Types'
  <2>1. cursor' \in Nat
    BY <1>1 DEF IInv, StateOK, Types
  <2> QED
    BY <1>1, <2>1 DEF IInv, StateOK, Types, buttons, window, bus
<1>12. \A x \in Worker : Busy(x)' => Busy(x)
  BY <1>1, <1>9 DEF Busy
<1>13. OneScan'
  <2>1. \A x \in Worker : Scanning(x)' => Scanning(x)
    BY <1>5, <1>7, <1>12 DEF Scanning
  <2> QED
    BY <1>1, <2>1, ScansAsBefore DEF buttons, IInv
<1>14. CursorsCounted'
  BY RestoreKeepsCursors DEF IInv
<1>15. \A x \in Worker : Calm(x)
  BY <1>5, <1>7, <1>12 DEF Calm
<1>16. TableOK'
  BY <1>1, <1>15, TableAsBefore DEF IInv, window, bus
<1> QED
  BY <1>8, <1>10, <1>11, <1>13, <1>14, <1>16 DEF IInv, StateOK

-----------------------------------------------------------------------------
(* The steps of the GUI thread.                                            *)

(* What a click leaves alone.                                              *)
LEMMA ClickKeepsState ==
  ASSUME StateOK, NEW job, IsJob(job), Click(job),
         scanEnabled' \in BOOLEAN, getAllEnabled' \in BOOLEAN,
         UNCHANGED <<scanned, known>>, unchecked' \subseteq Device,
         table' \in [Property -> Value \cup {None}], source' \in [Property -> 0..MaxClicks]
  PROVE  StateOK'
<1>1. Jobs' /\ Events' /\ nClicks' \in 0..MaxClicks
  BY ClickFacts
<1>2. /\ gui' \in {"loop", "started"}
      /\ UNCHANGED <<events, boxes, cursor, vals, late, loose, sure>>
  BY DEF Click, bus
<1>3. Types'
  BY <1>1, <1>2 DEF StateOK, Types
<1> QED
  BY <1>1, <1>3 DEF StateOK

(* A row after a click: as before, or what was typed.                      *)
LEMMA ClickKeepsRow ==
  ASSUME IInv, NEW job, IsJob(job), Click(job), job.kind # "none", DOMAIN job.got = {},
         NEW p \in Property,
         \/ table'[p] = table[p] /\ source'[p] = source[p]
         \/ source'[p] = nClicks + 1 /\ table'[p] = job.typed /\ job.kind = "set"
  PROVE  RowOK(p)'
<1> DEFINE w == nClicks + 1
<1>1. /\ w \in Worker /\ work' = [work EXCEPT ![w] = job] /\ work[w] = NoJob
      /\ \A x \in Worker : x # w => Busy(x)' = Busy(x)
      /\ vals'[p] = vals[p] /\ sure'[p] = sure[p]
  <2>1. vals'[p] = vals[p] /\ sure'[p] = sure[p]
    BY DEF Click, bus
  <2> QED
    BY <2>1, ClickFacts DEF IInv
<1>2. \/ table'[p] = table[p] /\ source'[p] = source[p]
      \/ source'[p] = w /\ table'[p] = job.typed /\ job.kind = "set"
  OBVIOUS
<1> HIDE DEF w
<1>3. work'[w] = job /\ \A x \in Worker : x # w => work'[x] = work[x]
  BY <1>1, Changed DEF IInv, StateOK
<1>4. RowOK(p)
  BY DEF IInv, TableOK
<1>5. w \notin sure[p] /\ source[p] # w
  BY <1>1, <1>4, NoJobFacts DEF NamesBegun, RowOK
<1>6. \A x \in Worker : x # w => /\ Querying(x)' <=> Querying(x)
                                 /\ ToSet(x, p)' <=> ToSet(x, p)
  BY <1>1, <1>3 DEF Querying, ToSet
<1>7. \A x \in Worker : x = w => /\ Querying(x)' => job.kind = "get"
                                 /\ work'[x].kind # "none"
  BY <1>3 DEF Querying
<1>8. NamesBegun(p)'
  BY <1>1, <1>2, <1>3, <1>4, <1>7 DEF NamesBegun, RowOK
<1>9. NotYetKnown(p)'
  BY <1>1, <1>2, <1>3, <1>4, <1>5, <1>6, <1>7 DEF NotYetKnown, RowOK
<1>10. AnswerIsCurrent(p)'
  BY <1>1, <1>3, <1>4, <1>5, <1>6 DEF AnswerIsCurrent, RowOK
<1>11. TypedIsShown(p)'
  <2> SUFFICES ASSUME NEW x \in Worker, ToSet(x, p)', source'[p] = x
               PROVE  table'[p] = work'[x].typed
    BY DEF TypedIsShown
  <2>1. CASE x = w
    BY <1>2, <1>3, <1>5, <2>1
  <2>2. CASE x # w
    BY <1>2, <1>3, <1>4, <1>6, <2>2 DEF TypedIsShown, RowOK
  <2> QED
    BY <2>1, <2>2
<1>12. ShownIsCurrent(p)'
  BY <1>1, <1>2, <1>4, <1>5 DEF ShownIsCurrent, RowOK
<1> QED
  BY <1>8, <1>9, <1>10, <1>11, <1>12 DEF RowOK

LEMMA ScanBusKeeps ==
  ASSUME IInv, ScanBus
  PROVE  IInv'
<1> DEFINE w == nClicks + 1
<1>1. PICK job : job = Job("scan", Device, None)
  OBVIOUS
<1>2. /\ IsJob(job) /\ job.kind = "scan" /\ job.phase = "run" /\ job.early = FALSE
      /\ DOMAIN job.got = {}
  <2>1. IsBegun(job, "scan", Device, None)
    BY <1>1, JobFacts
  <2> QED
    BY <2>1 DEF IsBegun
<1>3. /\ Click(job) /\ scanEnabled /\ scanEnabled' = FALSE
      /\ UNCHANGED <<getAllEnabled, window>>
  BY <1>1 DEF ScanBus, buttons
<1>4. /\ w \in Worker /\ work' = [work EXCEPT ![w] = job] /\ work[w] = NoJob
      /\ \A x \in Worker : x # w => Busy(x)' = Busy(x)
  BY <1>2, <1>3, ClickFacts DEF IInv
<1> HIDE DEF w
<1>5. work'[w] = job /\ \A x \in Worker : x # w => work'[x] = work[x]
  BY <1>4, Changed DEF IInv, StateOK
<1>6. StateOK'
  BY <1>2, <1>3, ClickKeepsState DEF IInv, StateOK, Types, window
<1>7. OneScan'
  <2>1. \A x \in Worker : ~ Scanning(x)
    BY <1>3 DEF IInv, OneScan
  <2>2. \A x \in Worker : x # w => ~ Scanning(x)'
    BY <1>4, <1>5, <2>1 DEF Scanning
  <2> QED
    BY <1>3, <2>2 DEF OneScan
<1>8. CursorsCounted'
  BY <1>2, <1>3, ClickKeepsCursors DEF IInv
<1>9. TableOK'
  BY <1>2, <1>3, ClickKeepsRow DEF IInv, TableOK, window
<1> QED
  BY <1>6, <1>7, <1>8, <1>9 DEF IInv

(* A click that has to do with no scan.                                    *)
LEMMA OtherClickKeepsScans ==
  ASSUME StateOK, OneScan, NEW job, IsJob(job), Click(job), job.kind # "scan",
         scanEnabled' = scanEnabled
  PROVE  OneScan'
<1> DEFINE w == nClicks + 1
<1>1. /\ w \in Worker /\ work' = [work EXCEPT ![w] = job]
      /\ \A x \in Worker : x # w => Busy(x)' = Busy(x)
  BY ClickFacts
<1> HIDE DEF w
<1>2. work'[w] = job /\ \A x \in Worker : x # w => work'[x] = work[x]
  BY <1>1, Changed DEF StateOK
<1>3. \A x \in Worker : Scanning(x)' => Scanning(x)
  BY <1>1, <1>2 DEF Scanning
<1> QED
  BY <1>3, ScansAsBefore

LEMMA IdleClickKeeps ==
  ASSUME IInv, NEW kind \in {"failed", "check"}, Click(NoWork(kind)),
         scanEnabled' = scanEnabled, getAllEnabled' \in BOOLEAN, unchecked' \subseteq Device,
         UNCHANGED <<scanned, known, table, source>>
  PROVE  IInv'
<1>1. PICK job : job = NoWork(kind)
  OBVIOUS
<1>2. /\ IsJob(job) /\ job.kind = kind /\ job.phase = "over" /\ job.early = FALSE
      /\ DOMAIN job.got = {}
  BY <1>1, NoWorkFacts DEF IsIdle
<1>3. Click(job)
  BY <1>1
<1>4. StateOK'
  BY <1>2, <1>3, ClickKeepsState DEF IInv, StateOK, Types
<1>5. OneScan'
  BY <1>2, <1>3, OtherClickKeepsScans DEF IInv
<1>6. CursorsCounted'
  BY <1>2, <1>3, ClickKeepsCursors DEF IInv
<1>7. TableOK'
  BY <1>2, <1>3, ClickKeepsRow DEF IInv, TableOK
<1> QED
  BY <1>4, <1>5, <1>6, <1>7 DEF IInv

LEMMA GetAllKeeps ==
  ASSUME IInv, GetAllProperties
  PROVE  IInv'
<1>1. /\ getAllEnabled' = FALSE /\ UNCHANGED <<scanEnabled, window>>
      /\ Click(IF scanned THEN Job("get", Rows, None) ELSE NoWork("failed"))
  BY DEF GetAllProperties
<1>2. CASE ~ scanned
  <2>1. Click(NoWork("failed"))
    BY <1>1, <1>2
  <2>2. unchecked' \subseteq Device /\ UNCHANGED <<scanned, known, table, source>>
    BY <1>1 DEF IInv, StateOK, Types, window
  <2> QED
    BY <1>1, <2>1, <2>2, IdleClickKeeps
<1>3. CASE scanned
  <2>1. PICK job : job = Job("get", Rows, None)
    OBVIOUS
  <2>2. /\ IsJob(job) /\ job.kind = "get" /\ job.phase = "run" /\ job.early = FALSE
        /\ DOMAIN job.got = {}
    <3>1. Rows \subseteq Property
      BY DEF Rows
    <3>2. IsBegun(job, "get", Rows, None)
      BY <2>1, <3>1, JobFacts
    <3> QED
      BY <3>2 DEF IsBegun
  <2>3. Click(job)
    BY <1>1, <1>3, <2>1
  <2>4. StateOK'
    BY <1>1, <2>2, <2>3, ClickKeepsState DEF IInv, StateOK, Types, window
  <2>5. OneScan'
    BY <1>1, <2>2, <2>3, OtherClickKeepsScans DEF IInv
  <2>6. CursorsCounted'
    BY <2>2, <2>3, ClickKeepsCursors DEF IInv
  <2>7. TableOK'
    BY <1>1, <2>2, <2>3, ClickKeepsRow DEF IInv, TableOK, window
  <2> QED
    BY <2>4, <2>5, <2>6, <2>7 DEF IInv
<1> QED
  BY <1>2, <1>3

LEMMA EditKeeps ==
  ASSUME IInv, NEW p \in Property, NEW v \in Value, Edit(p, v)
  PROVE  IInv'
<1>1. PICK job : job = Job("set", {p}, v)
  OBVIOUS
<1>2. /\ IsJob(job) /\ job.kind = "set" /\ job.phase = "run" /\ job.early = FALSE
      /\ job.typed = v /\ DOMAIN job.got = {}
  <2>1. {p} \subseteq Property /\ \A q, r \in {p} : q = r
    OBVIOUS
  <2>2. IsBegun(job, "set", {p}, v)
    BY <1>1, <2>1, JobFacts
  <2> QED
    BY <2>2 DEF IsBegun
<1>3. /\ Click(job) /\ getAllEnabled' = FALSE
      /\ table' = [table EXCEPT ![p] = v] /\ source' = [source EXCEPT ![p] = nClicks + 1]
      /\ UNCHANGED <<scanEnabled, scanned, known, unchecked>>
  BY <1>1 DEF Edit, SetData
<1>4. nClicks + 1 \in 0..MaxClicks
  BY <1>2, <1>3, ClickFacts DEF IInv
<1>5. /\ table' \in [Property -> Value \cup {None}] /\ source' \in [Property -> 0..MaxClicks]
      /\ table'[p] = v /\ source'[p] = nClicks + 1
      /\ \A q \in Property : q # p => table'[q] = table[q] /\ source'[q] = source[q]
  BY <1>3, <1>4 DEF IInv, StateOK, Types
<1>6. StateOK'
  BY <1>2, <1>3, <1>5, ClickKeepsState DEF IInv, StateOK, Types
<1>7. OneScan'
  BY <1>2, <1>3, OtherClickKeepsScans DEF IInv
<1>8. CursorsCounted'
  BY <1>2, <1>3, ClickKeepsCursors DEF IInv
<1>9. TableOK'
  <2> SUFFICES ASSUME NEW q \in Property PROVE RowOK(q)'
    BY DEF TableOK
  <2>1. \/ table'[q] = table[q] /\ source'[q] = source[q]
        \/ source'[q] = nClicks + 1 /\ table'[q] = job.typed /\ job.kind = "set"
    BY <1>2, <1>5
  <2> QED
    BY <1>2, <1>3, <2>1, ClickKeepsRow
<1> QED
  BY <1>6, <1>7, <1>8, <1>9 DEF IInv

LEMMA CheckKeeps ==
  ASSUME IInv, NEW d \in Device, Check(d)
  PROVE  IInv'
<1>1. /\ unchecked' \subseteq Device /\ Click(NoWork("check"))
      /\ scanEnabled' = scanEnabled /\ getAllEnabled' \in BOOLEAN
      /\ UNCHANGED <<scanned, known, table, source>>
  BY DEF Check, IInv, StateOK, Types, buttons
<1> QED
  BY <1>1, IdleClickKeeps

(* The user is done with a message box.                                    *)
LEMMA DismissKeeps ==
  ASSUME IInv, Dismiss
  PROVE  IInv'
<1>1. /\ boxes # << >> /\ boxes' = Tail(boxes) /\ scanEnabled' = scanEnabled
      /\ getAllEnabled' = (getAllEnabled \/ work[Head(boxes)].kind = "set")
      /\ UNCHANGED <<gui, window, events, work, cursor, bus, nClicks>>
  BY DEF Dismiss
<1>2. boxes' \in Seq(Worker) /\ getAllEnabled' \in BOOLEAN
  BY <1>1 DEF IInv, StateOK, Types
<1>3. StateOK'
  BY <1>1, <1>2 DEF IInv, StateOK, Types, Jobs, Events, window, bus
<1>4. \A x \in Worker : Calm(x) /\ (Scanning(x)' => Scanning(x))
  BY <1>1 DEF Calm, Busy, Scanning
<1>5. OneScan' /\ CursorsCounted' /\ TableOK'
  BY <1>1, <1>4, ScansAsBefore, CursorsAsBefore, TableAsBefore DEF IInv, window, bus
<1> QED
  BY <1>3, <1>5 DEF IInv

LEMMA RunAsyncKeeps ==
  ASSUME IInv, SetCursor \/ Connect
  PROVE  IInv'
<1>1. /\ gui' \in {"loop", "cursor", "then"} /\ cursor' \in Nat
      /\ UNCHANGED <<buttons, window, events, boxes, work, bus, nClicks>>
  BY DEF SetCursor, Connect, IInv, StateOK, Types
<1>2. StateOK'
  BY <1>1 DEF IInv, StateOK, Types, Jobs, Events, buttons, window, bus
<1>3. \A x \in Worker : Calm(x) /\ (Scanning(x)' => Scanning(x))
  BY <1>1 DEF Calm, Busy, Scanning
<1>4. OneScan' /\ TableOK'
  BY <1>1, <1>3, ScansAsBefore, TableAsBefore DEF IInv, buttons, window, bus
<1>5. CASE SetCursor
  BY <1>2, <1>4, <1>5, SetCursorKeepsCursors DEF IInv
<1>6. CASE Connect
  <2>1. cursor' = cursor /\ (gui' = "started" <=> gui = "started")
    BY <1>6 DEF Connect
  <2>2. CursorsCounted'
    BY <1>1, <2>1, CursorsAsBefore DEF IInv
  <2> QED
    BY <1>2, <1>4, <2>2 DEF IInv
<1> QED
  BY <1>5, <1>6

(* What is the same for all handlers of events: the worker whose signal it *)
(* was is not busy any more, and everybody else is as before.              *)
LEMMA EventFacts ==
  ASSUME IInv, NEW kind, NEW signal, NextEvent(kind, signal), NEW h, h = Head(events)
  PROVE  /\ h \in Worker /\ Busy(h) /\ ~ Busy(h)' /\ work[h].kind = kind /\ work[h].todo = {}
         /\ \A x \in Worker : Calm(x) /\ (Scanning(x)' => Scanning(x) /\ x # h)
         /\ Jobs' /\ Events' /\ events' \in Seq(Worker)
         /\ UNCHANGED <<gui, cursor, bus, nClicks>>
         /\ CursorsCounted'
<1>1. /\ events # << >> /\ events' = Tail(events) /\ work[h].kind = kind
      /\ work' = [work EXCEPT ![Head(events)] = Shown(@)]
      /\ UNCHANGED <<gui, cursor, bus, nClicks>>
  BY DEF NextEvent
<1>2. /\ h \in Worker /\ Busy(h) /\ ~ (\E w \in Worker : w = Head(events) /\ Busy(w)')
      /\ \A w \in Worker : w # h => Busy(w)' = Busy(w)
      /\ work' = [work EXCEPT ![h] = Shown(work[h])]
      /\ Jobs' /\ Events' /\ events' \in Seq(Worker)
  BY <1>1, HandledFacts DEF IInv
<1>3. ~ Busy(h)'
  BY <1>2
<1>4. work'[h] = Shown(work[h]) /\ \A x \in Worker : x # h => work'[x] = work[x]
  BY <1>2, Changed DEF IInv, StateOK
<1>5. /\ IsJob(work[h]) /\ work[h].phase # "run"
  <2>1. events \in Seq(Worker) /\ 1 \in 1..Len(events) /\ h = events[1]
    BY <1>1 DEF IInv, StateOK, Types
  <2>2. IsJob(work[h])
    BY <1>2 DEF IInv, StateOK, Jobs
  <2>3. work[events[1]].phase # "run"
    BY <2>1, ZenonT(60) DEF IInv, StateOK, Events
  <2> QED
    BY <2>1, <2>2, <2>3
<1>6. work[h].todo = {} /\ DOMAIN work[h] = Field
  BY <1>5 DEF IsJob
<1>7. /\ work'[h].kind = work[h].kind /\ work'[h].phase = work[h].phase
      /\ work'[h].todo = work[h].todo /\ work'[h].early = work[h].early
  BY <1>4, <1>6 DEF Shown, Field
<1>8. \A x \in Worker : Calm(x)
  BY <1>2, <1>3, <1>4, <1>6, <1>7 DEF Calm
<1>9. \A x \in Worker : Scanning(x)' => Scanning(x) /\ x # h
  BY <1>2, <1>3, <1>4 DEF Scanning
<1>10. CursorsCounted'
  <2>1. \A x \in Worker : /\ work'[x].phase = "over" <=> work[x].phase = "over"
                          /\ work'[x].early = work[x].early
    BY <1>4, <1>7
  <2> QED
    BY <1>1, <2>1, CursorsAsBefore DEF IInv
<1> QED
  BY <1>1, <1>2, <1>3, <1>6, <1>8, <1>9, <1>10

LEMMA BusScanFinishedKeeps ==
  ASSUME IInv, BusScanFinished
  PROVE  IInv'
<1> DEFINE h == Head(events)
<1>1. /\ NextEvent("scan", "then") /\ known' = DOMAIN work[h].got /\ unchecked' = unchecked
      /\ scanned' = TRUE /\ scanEnabled' = TRUE
      /\ UNCHANGED <<getAllEnabled, table, source, boxes>>
  BY DEF BusScanFinished, SetDeviceList, Got
<1> HIDE DEF h
<1>2. /\ h \in Worker /\ Busy(h) /\ work[h].kind = "scan"
      /\ \A x \in Worker : Calm(x) /\ (Scanning(x)' => Scanning(x) /\ x # h)
      /\ Jobs' /\ Events' /\ events' \in Seq(Worker)
      /\ UNCHANGED <<gui, cursor, bus, nClicks>>
      /\ CursorsCounted'
  BY <1>1, EventFacts DEF h
<1>3. known' \subseteq Device
  BY <1>1, <1>2 DEF IInv, StateOK, Jobs, IsJob
<1>4. StateOK'
  BY <1>1, <1>2, <1>3 DEF IInv, StateOK, Types, bus
<1>5. OneScan'
  <2>1. Scanning(h)
    BY <1>2 DEF Scanning
  <2>2. \A x \in Worker : ~ Scanning(x)'
    BY <1>2, <2>1 DEF IInv, OneScan
  <2> QED
    BY <2>2 DEF OneScan
<1>6. TableOK'
  BY <1>1, <1>2, TableAsBefore DEF IInv, bus
<1> QED
  BY <1>2, <1>4, <1>5, <1>6 DEF IInv

LEMMA GetAllFinishedKeeps ==
  ASSUME IInv, GetAllFinished
  PROVE  IInv'
<1> PICK h : h = Head(events)
  OBVIOUS
<1> DEFINE got == work[h].got
           shown == Decoded(got)
<1>1. /\ NextEvent("get", "then") /\ getAllEnabled' = TRUE
      /\ table' = [p \in Property |-> IF p \in shown THEN got[p] ELSE table[p]]
      /\ source' = [p \in Property |-> IF p \in shown THEN h ELSE source[p]]
      /\ UNCHANGED <<scanEnabled, scanned, known, unchecked, boxes>>
  BY DEF GetAllFinished, Got
<1>2. /\ h \in Worker /\ Busy(h) /\ ~ Busy(h)' /\ work[h].kind = "get" /\ work[h].todo = {}
      /\ \A x \in Worker : Calm(x) /\ (Scanning(x)' => Scanning(x) /\ x # h)
      /\ Jobs' /\ Events' /\ events' \in Seq(Worker)
      /\ UNCHANGED <<gui, cursor, bus, nClicks>>
      /\ CursorsCounted'
  BY <1>1, EventFacts
<1>3. \A p \in shown : p \in DOMAIN got /\ got[p] # Misfit
  <2> TAKE p \in shown
  <2>1. p \in DOMAIN got /\ \A q \in DOMAIN got : q <= p => got[q] # Misfit
    BY DEF Decoded
  <2>2. p \in 1..NumProps
    BY <1>2, <2>1 DEF IInv, StateOK, Jobs, IsJob, Property
  <2> QED
    BY <2>1, <2>2, SMT
<1>4. \A p \in shown : got[p] \in Value \cup {None}
  BY <1>2, <1>3 DEF IInv, StateOK, Jobs, IsJob
<1> HIDE DEF shown
<1>5. /\ table' \in [Property -> Value \cup {None}] /\ source' \in [Property -> 0..MaxClicks]
  <2>1. h \in 0..MaxClicks
    BY <1>2, Constants DEF Worker
  <2> QED
    BY <1>1, <1>4, <2>1 DEF IInv, StateOK, Types
<1>6. StateOK'
  BY <1>1, <1>2, <1>5 DEF IInv, StateOK, Types, bus
<1>7. OneScan'
  BY <1>1, <1>2, ScansAsBefore DEF IInv
<1>8. ASSUME NEW p \in Property
      PROVE  RowOK(p)'
  <2>1. RowOK(p) /\ vals'[p] = vals[p] /\ sure'[p] = sure[p]
    BY <1>2 DEF IInv, TableOK, bus
  <2>2. CASE p \notin shown
    <3>1. table'[p] = table[p] /\ source'[p] = source[p]
      BY <1>1, <2>2
    <3> QED
      BY <1>2, <2>1, <3>1, CalmKeeps
  <2>3. CASE p \in shown
    <3>1. table'[p] = got[p] /\ source'[p] = h
      BY <1>1, <2>3
    <3>2. Querying(h) /\ p \in DOMAIN got
      BY <1>2, <1>3, <2>3 DEF Querying
    <3>3. \A x \in Worker : Querying(x)' => /\ Querying(x) /\ work'[x].got = work[x].got
                                            /\ work'[x].todo = work[x].todo /\ x # h
      BY <1>2 DEF Calm, Querying
    <3>4. \A x \in Worker : work[x].kind # "none" => work'[x].kind # "none"
      BY <1>2 DEF Calm
    <3>5. ~ ToSet(h, p)'
      BY <1>2 DEF ToSet, Calm
    <3>6. NamesBegun(p)'
      BY <1>2, <2>1, <3>1, <3>4 DEF NamesBegun, RowOK
    <3>7. NotYetKnown(p)'
      BY <2>1, <3>1, <3>3 DEF NotYetKnown, RowOK
    <3>8. AnswerIsCurrent(p)'
      BY <2>1, <3>3 DEF AnswerIsCurrent, RowOK
    <3>9. TypedIsShown(p)'
      BY <3>1, <3>5 DEF TypedIsShown
    <3>10. ShownIsCurrent(p)'
      BY <1>2, <2>1, <3>1, <3>2 DEF ShownIsCurrent, AnswerIsCurrent, RowOK
    <3> QED
      BY <3>6, <3>7, <3>8, <3>9, <3>10 DEF RowOK
  <2> QED
    BY <2>2, <2>3
<1> QED
  BY <1>2, <1>6, <1>7, <1>8 DEF IInv, TableOK

LEMMA EndedKeeps ==
  ASSUME IInv, SetFinished \/ Raised
  PROVE  IInv'
<1> PICK h : h = Head(events)
  OBVIOUS
<1>1. PICK kind, signal : NextEvent(kind, signal)
  BY DEF SetFinished, Raised
<1>2. /\ scanEnabled' = scanEnabled /\ getAllEnabled' \in BOOLEAN /\ UNCHANGED window
      /\ boxes' = boxes \/ boxes' = <<h>> \o boxes
  BY DEF SetFinished, Raised, buttons, IInv, StateOK, Types
<1>3. /\ \A x \in Worker : Calm(x) /\ (Scanning(x)' => Scanning(x))
      /\ Jobs' /\ Events' /\ events' \in Seq(Worker) /\ h \in Worker
      /\ UNCHANGED <<gui, cursor, bus, nClicks>>
      /\ CursorsCounted'
  BY <1>1, EventFacts
<1>4. boxes' \in Seq(Worker)
  <2>1. boxes \in Seq(Worker) /\ <<h>> \in Seq(Worker)
    BY <1>3 DEF IInv, StateOK, Types
  <2>2. <<h>> \o boxes \in Seq(Worker)
    BY <2>1
  <2> QED
    BY <1>2, <2>1, <2>2
<1>5. StateOK'
  BY <1>2, <1>3, <1>4 DEF IInv, StateOK, Types, window, bus
<1>6. OneScan' /\ TableOK'
  BY <1>2, <1>3, ScansAsBefore, TableAsBefore DEF IInv, window, bus
<1> QED
  BY <1>3, <1>5, <1>6 DEF IInv

-----------------------------------------------------------------------------
(* All of it.                                                              *)

LEMMA InitIInv == Init => IInv
<1> SUFFICES ASSUME Init PROVE IInv
  OBVIOUS
<1>1. /\ \A w \in Worker : work[w] = NoJob
      /\ work = [w \in Worker |-> work[w]]
      /\ events = << >> /\ Len(events) = 0 /\ 1..Len(events) = {} /\ DOMAIN events = {}
      /\ nClicks = 0 /\ gui = "loop" /\ cursor = 0
  BY DEF Init, NoJob
<1>2. StateOK
  <2>1. Types
    <3>1. events \in Seq(Worker)
      BY <1>1
    <3>2. nClicks \in 0..MaxClicks /\ cursor \in Nat
      BY <1>1, Constants
    <3>3. table \in [Property -> Value \cup {None}] /\ vals \in [Property -> Value]
      BY Constants DEF Init
    <3>4. source \in [Property -> 0..MaxClicks] /\ sure \in [Property -> SUBSET Worker]
      BY Constants DEF Init
    <3>5. boxes \in Seq(Worker)
      BY DEF Init
    <3> QED
      BY <3>1, <3>2, <3>3, <3>4, <3>5 DEF Init, Types
  <2>2. Jobs
    BY <1>1, NoJobFacts DEF Jobs
  <2>3. Events
    BY <1>1 DEF Events
  <2> QED
    BY <2>1, <2>2, <2>3 DEF StateOK
<1>3. \A w \in Worker : ~ Busy(w) /\ work[w].kind = "none" /\ work[w].phase = "over"
                        /\ work[w].todo = {}
  BY <1>1, NoJobFacts DEF Busy
<1>4. OneScan
  BY <1>3 DEF OneScan, Scanning
<1>5. CursorsCounted
  <2>1. Active = {}
    BY <1>1, <1>3 DEF Active
  <2>2. Cardinality({}) = 0
    BY FS_EmptySet
  <2> QED
    BY <1>1, <2>1, <2>2 DEF CursorsCounted
<1>6. TableOK
  <2> SUFFICES ASSUME NEW p \in Property PROVE RowOK(p)
    BY DEF TableOK
  <2>1. source[p] = 0 /\ sure[p] = {} /\ 0 \notin Worker
    BY Constants DEF Init
  <2> QED
    BY <1>3, <2>1 DEF RowOK, NamesBegun, NotYetKnown, AnswerIsCurrent, TypedIsShown,
                      ShownIsCurrent, Querying, ToSet
<1> QED
  BY <1>2, <1>4, <1>5, <1>6 DEF IInv

LEMMA StutterIInv == ASSUME IInv, UNCHANGED vars PROVE IInv'
<1>1. UNCHANGED <<gui, buttons, window, events, boxes, work, cursor, bus, nClicks>>
  BY DEF vars
<1>2. StateOK'
  BY <1>1 DEF IInv, StateOK, Types, Jobs, Events, buttons, window, bus
<1>3. \A x \in Worker : Calm(x) /\ (Scanning(x)' => Scanning(x))
  BY <1>1 DEF Calm, Busy, Scanning
<1>4. OneScan' /\ CursorsCounted' /\ TableOK'
  BY <1>1, <1>3, ScansAsBefore, CursorsAsBefore, TableAsBefore DEF IInv, buttons, window, bus
<1> QED
  BY <1>2, <1>4 DEF IInv

LEMMA NextIInv == IInv /\ [Next]_vars => IInv'
<1> SUFFICES ASSUME IInv, [Next]_vars PROVE IInv'
  OBVIOUS
<1>1. CASE ScanBus
  BY <1>1, ScanBusKeeps
<1>2. CASE GetAllProperties \/ Dismiss
  BY <1>2, GetAllKeeps, DismissKeeps
<1>3. ASSUME NEW d \in Device, Check(d) PROVE IInv'
  BY <1>3, CheckKeeps
<1>4. ASSUME NEW p \in Property, LateWrite(p) \/ \E v \in Value : Edit(p, v) PROVE IInv'
  BY <1>4, LateWriteKeeps, EditKeeps
<1>5. CASE SetCursor \/ Connect
  BY <1>5, RunAsyncKeeps
<1>6. ASSUME NEW w \in Worker, Act(w) PROVE IInv'
  BY <1>6, ScanKeeps, QueryKeeps, SetKeeps DEF Act
<1>7. ASSUME NEW w \in Worker, Emit(w) \/ Restore(w) PROVE IInv'
  BY <1>7, EmitKeeps, RestoreKeeps
<1>8. CASE Handle
  BY <1>8, BusScanFinishedKeeps, GetAllFinishedKeeps, EndedKeeps DEF Handle
<1>9. CASE UNCHANGED vars
  BY <1>9, StutterIInv
<1> QED
  BY <1>1, <1>2, <1>3, <1>4, <1>5, <1>6, <1>7, <1>8, <1>9 DEF Next, GuiStep, WorkerStep

LEMMA Invariance == Spec => []IInv
  BY InitIInv, NextIInv, PTL DEF Spec

\* Jobs, events, message boxes and the cursor are what they should be, and no
\* value of another width is ever shown, for any devices, properties, values
\* and clicks.  (get_all_finished, which decodes before it shows)
THEOREM TypeCorrect == Spec => []TypeOK
<1>1. IInv => TypeOK
  BY DEF IInv, StateOK, Types, Jobs, IsJob, TypeOK, Kind
<1> QED
  BY <1>1, Invariance, PTL

\* However many clicks, and wherever workers are while the window goes on, no
\* second scan begins before all that came of the first has been shown.
\* (scan_bus disables the button, bus_scan_finished enables it)
THEOREM OneScanAtATime == Spec => []ScansDoNotOverlap
<1>1. IInv => ScansDoNotOverlap
  <2> SUFFICES ASSUME IInv PROVE ScansDoNotOverlap
    OBVIOUS
  <2> DEFINE S == BusyWith("scan")
  <2>1. \A w, x \in S : w = x
    BY DEF IInv, OneScan, Scanning, BusyWith
  <2>2. S = {} \/ \E w : S = {w}
    BY <2>1
  <2>3. Cardinality({}) = 0 /\ \A w : Cardinality({w}) = 1
    BY FS_EmptySet, FS_Singleton
  <2>4. Cardinality(S) \in {0, 1}
    BY <2>2, <2>3
  <2> QED
    BY <2>4 DEF ScansDoNotOverlap
<1> QED
  BY <1>1, Invariance, PTL

\* When all workers are through, as many override cursors were restored as
\* were set, unless one was through before its cursor was set.
\* (run_async, which starts the thread first, against the finally of run)
THEOREM CursorsComeBack == Spec => []CursorComesBack
<1>1. IInv => CursorComesBack
  <2> SUFFICES ASSUME IInv, Quiet, NoneEarly PROVE cursor = 0
    BY DEF CursorComesBack, NoneEarly
  <2>1. Active = {}
    BY DEF Active, Quiet
  <2>2. Cardinality({}) = 0
    BY FS_EmptySet
  <2> QED
    BY <2>1, <2>2 DEF IInv, CursorsCounted
<1> QED
  BY <1>1, Invariance, PTL

\* For any devices, properties, values and clicks: at any time a cell of the
\* table is what its device has, if what it shows was read without another
\* response of the device that fits, or kept by the device as it was typed,
\* and the property was not written since.  (get_all_finished and setData,
\* against the workers that read and write at the same time, and against
\* responses and writes nobody waits for any more)
THEOREM TablesAreCurrent == Spec => []TableIsCurrent
<1>1. IInv => TableIsCurrent
  BY DEF IInv, TableOK, RowOK, ShownIsCurrent, TableIsCurrent
<1> QED
  BY <1>1, Invariance, PTL
=============================================================================
