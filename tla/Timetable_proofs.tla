-------------------------- MODULE Timetable_proofs --------------------------
(***************************************************************************)
(* Proofs about Timetable for any number of timetables, classes, slots,    *)
(* resources, versions and concurrent requests.                            *)
(*                                                                         *)
(* The unique indexes carry OnePublished and VersionsDistinct.  The other  *)
(* two depend on what a request read some statements ago: a revision under *)
(* way points at a timetable that is published or archived for good        *)
(* (RevisionsUnderWay); a submission under way has read the entries as     *)
(* they are, unless they were edited since (ReadsFresh), and once it has   *)
(* passed the check, its draft counts as a booking for the checks of all   *)
(* others (PassedApart).                                                   *)
(***************************************************************************)
EXTENDS Timetable, TLAPS

(* The steps at which a request works on a timetable. *)
OnTable == {"entries", "bookings", "submit", "approve", "reject",
            "archive_published", "publish", "upsert", "clear", "copy", "drop"}

Known(r) ==
    /\ pc[r] \in OnTable => work[r].table \in Tables
    /\ pc[r] \in {"max", "insert"} => work[r].class \in Classes
    /\ pc[r] = "copy" => work[r].source \in Tables

Knows == \A r \in Requests : Known(r)

ClassKnown == \A t \in Tables : Exists(t) => class[t] \in Classes

Final == {"published", "archived"}

RevisionsUnderWay ==
    \A r \in Requests : work[r].parent # None =>
        /\ pc[r] \in {"max", "insert", "copy"}
        /\ work[r].source # None
        /\ pc[r] \in {"max", "insert"} =>
              /\ status[work[r].parent] \in Final
              /\ class[work[r].parent] = work[r].class
              /\ pc[r] = "insert" => version[work[r].parent] < work[r].version

ReadsFresh ==
    \A t \in Tables \ touched : \A r \in Submitters(t) :
        status[t] = "draft" => work[r].read = grid[t]

(* A timetable that was checked as it is: submitted, or about to be. *)
Passed(t) ==
    /\ t \notin touched
    /\ \/ status[t] \in Submitted
       \/ /\ status[t] = "draft"
          /\ \E r \in Requests : pc[r] = "submit" /\ work[r].table = t

PassedApart ==
    \A t, u \in Tables : t # u /\ Passed(t) /\ Passed(u) => Clash(grid[t], u) = {}

Rows == TypeOK /\ Knows /\ ClassKnown /\ OnePublished /\ VersionsDistinct

IInv ==
    /\ Rows
    /\ RevisionsUnderWay /\ RevisionFollowsParent
    /\ ReadsFresh /\ PassedApart

-----------------------------------------------------------------------------
(* Types *)

LEMMA InitTypeOK == Init => TypeOK
  <1> SUFFICES ASSUME Init PROVE TypeOK
    OBVIOUS
  <1>1. EmptyGrid \in Grid
    BY DEF EmptyGrid, Grid
  <1>2. NoWork \in Work
    BY <1>1, TimetableAssumption DEF NoWork, Work
  <1> QED
    BY <1>1, <1>2, TimetableAssumption DEF Init, TypeOK, Steps

(* What request r does to its own row of pc and work. *)
LEMMA GoToType ==
    ASSUME TypeOK, NEW r \in Requests, NEW s \in Steps, GoTo(r, s)
    PROVE  /\ pc' \in [Requests -> Steps]
           /\ pc'[r] = s
           /\ \A q \in Requests \ {r} : pc'[q] = pc[q]
  BY DEF TypeOK, GoTo

LEMMA WorkType ==
    ASSUME TypeOK, NEW r \in Requests, NEW w \in Work,
           work' = [work EXCEPT ![r] = w]
    PROVE  /\ work' \in [Requests -> Work]
           /\ work'[r] = w
           /\ \A q \in Requests \ {r} : work'[q] = work[q]
  BY DEF TypeOK

LEMMA DoneType ==
    ASSUME TypeOK, NEW r \in Requests, Done(r)
    PROVE  /\ pc' \in [Requests -> Steps] /\ pc'[r] = "idle"
           /\ work' \in [Requests -> Work] /\ work'[r] = NoWork
           /\ \A q \in Requests \ {r} : pc'[q] = pc[q] /\ work'[q] = work[q]
  <1>1. NoWork \in Work
    BY TimetableAssumption DEF NoWork, Work, EmptyGrid, Grid
  <1> QED
    BY <1>1 DEF TypeOK, Done, Steps

(* A step of request r: it leaves the others alone and knows what it       *)
(* works with.                                                             *)
StepOf(r) ==
    /\ pc' \in [Requests -> Steps] /\ work' \in [Requests -> Work]
    /\ \A q \in Requests \ {r} : pc'[q] = pc[q] /\ work'[q] = work[q]
    /\ Known(r)'

LEMMA DoneStep ==
    ASSUME TypeOK, NEW r \in Requests, Done(r) PROVE StepOf(r)
  BY DoneType DEF StepOf, Known, OnTable

LEMMA ReviewStep ==
    ASSUME TypeOK, Knows, NEW r \in Requests, Review(r)
    PROVE  StepOf(r)
  <1>0. work[r] \in Work /\ Known(r)
    BY DEF TypeOK, Knows
  <1>1. ASSUME NEW t \in Tables, NEW s \in {"entries", "approve", "reject"},
               GoTo(r, s), work' = [work EXCEPT ![r].table = t]
        PROVE  StepOf(r)
    <2>1. work' = [work EXCEPT ![r] = [work[r] EXCEPT !.table = t]]
      BY <1>1 DEF TypeOK
    <2>2. [work[r] EXCEPT !.table = t] \in Work /\ [work[r] EXCEPT !.table = t].table = t
      BY <1>0 DEF Work
    <2>3. s \in Steps
      BY DEF Steps
    <2> QED
      BY <1>1, <2>1, <2>2, <2>3, WorkType, GoToType DEF StepOf, Known
  <1>2. CASE ReadEntries(r)
    <2>1. grid[work[r].table] \in Grid /\ work[r].table \in Tables
      BY <1>0, <1>2 DEF ReadEntries, Known, OnTable, TypeOK
    <2> DEFINE w == [work[r] EXCEPT !.read = grid[work[r].table]]
    <2>2. w \in Work /\ w.table = work[r].table
      BY <1>0, <2>1 DEF Work
    <2>3. work' = [work EXCEPT ![r] = w]
      BY <1>2 DEF ReadEntries, TypeOK
    <2> HIDE DEF w
    <2> QED
      BY <1>2, <2>1, <2>2, <2>3, WorkType, GoToType DEF ReadEntries, StepOf, Known, Steps
  <1>3. CASE CheckBookings(r)
    BY <1>0, <1>3, DoneStep, GoToType DEF CheckBookings, StepOf, Known, Steps, OnTable, TypeOK
  <1>4. CASE Submit(r) \/ Approve(r) \/ Reject(r)
    BY <1>4, DoneStep DEF Submit, Approve, Reject, Move
  <1>5. ASSUME NEW t \in Tables, BeginPublish(r, t) PROVE StepOf(r)
    <2> DEFINE v == [work[r] EXCEPT !.table = t]
               w == [v EXCEPT !.class = class[t]]
    <2>1. v \in Work /\ v.table = t
      BY <1>0 DEF Work
    <2>2. w \in Work /\ w.table = t
      <3> HIDE DEF v
      <3> QED
        BY <2>1 DEF Work, TypeOK
    <2>3. work' = [work EXCEPT ![r] = w]
      BY <1>5 DEF BeginPublish, TypeOK
    <2> HIDE DEF w
    <2>4. /\ pc' \in [Requests -> Steps] /\ pc'[r] = "archive_published"
          /\ \A q \in Requests \ {r} : pc'[q] = pc[q]
      BY <1>5, GoToType DEF BeginPublish, Steps
    <2> QED
      BY <2>2, <2>3, <2>4, WorkType DEF StepOf, Known
  <1>6. CASE ArchivePublished(r)
    BY <1>0, <1>6, GoToType DEF ArchivePublished, StepOf, Known, Steps, OnTable, TypeOK
  <1>7. CASE Publish(r)
    BY <1>7, DoneStep DEF Publish, Move
  <1> QED
    BY <1>1, <1>2, <1>3, <1>4, <1>5, <1>6, <1>7 DEF Review, Begin

LEMMA EditStep ==
    ASSUME TypeOK, Knows, NEW r \in Requests, Edit(r)
    PROVE  StepOf(r)
  <1>0. work[r] \in Work /\ Known(r)
    BY DEF TypeOK, Knows
  <1>1. ASSUME NEW t \in Tables, NEW P \in SUBSET (Slots \X Resources), BeginSave(r, t, P)
        PROVE  StepOf(r)
    <2> DEFINE v == [work[r] EXCEPT !.table = t]
               w == [v EXCEPT !.plan = P]
    <2>1. v \in Work /\ v.table = t
      BY <1>0 DEF Work
    <2>2. w \in Work /\ w.table = t
      <3> HIDE DEF v
      <3> QED
        BY <2>1 DEF Work
    <2>3. work' = [work EXCEPT ![r] = w]
      BY <1>1 DEF BeginSave, TypeOK
    <2> HIDE DEF w
    <2>4. /\ pc' \in [Requests -> Steps] /\ pc'[r] = "upsert"
          /\ \A q \in Requests \ {r} : pc'[q] = pc[q]
      BY <1>1, GoToType DEF BeginSave, Steps
    <2> QED
      BY <2>2, <2>3, <2>4, WorkType DEF StepOf, Known
  <1>2. ASSUME NEW s \in Slots, NEW x \in Resources, Upsert(r, s, x) PROVE StepOf(r)
    <2> DEFINE rest == work[r].plan \ {<<s, x>>}
               w(P) == [work[r] EXCEPT !.plan = P]
    <2>1. work[r].table \in Tables /\ pc[r] = "upsert"
      BY <1>0, <1>2 DEF Upsert, Known, OnTable
    <2>2. rest \in SUBSET (Slots \X Resources)
      BY <1>0 DEF Work
    <2>3. \A P \in SUBSET (Slots \X Resources) : w(P) \in Work /\ w(P).table = work[r].table
      BY <1>0 DEF Work
    <2>4. CASE Done(r)
      BY <2>4, DoneStep
    <2>5. CASE UNCHANGED pc /\ work' = [work EXCEPT ![r].plan = rest]
      <3>1. work' = [work EXCEPT ![r] = w(rest)]
        BY <2>5 DEF TypeOK
      <3>2. w(rest) \in Work /\ w(rest).table = work[r].table
        BY <2>2, <2>3
      <3> HIDE DEF w, rest
      <3> QED
        BY <2>1, <2>5, <3>1, <3>2, WorkType DEF StepOf, Known, OnTable, TypeOK
    <2>6. CASE GoTo(r, "next") /\ work' = [work EXCEPT ![r].plan = {}]
      <3>1. work' = [work EXCEPT ![r] = w({})]
        BY <2>6 DEF TypeOK
      <3>2. w({}) \in Work
        BY <2>3
      <3> HIDE DEF w
      <3> QED
        BY <2>6, <3>1, <3>2, WorkType, GoToType DEF StepOf, Known, OnTable, Steps
    <2> QED
      BY <1>2, <2>4, <2>5, <2>6 DEF Upsert
  <1>3. ASSUME NEW t \in Tables, NEW s \in Slots, BeginClear(r, t, s) PROVE StepOf(r)
    <2> DEFINE v == [work[r] EXCEPT !.table = t]
               w == [v EXCEPT !.slot = {s}]
    <2>1. v \in Work /\ v.table = t
      BY <1>0 DEF Work
    <2>2. w \in Work /\ w.table = t
      <3> HIDE DEF v
      <3> QED
        BY <2>1 DEF Work
    <2>3. work' = [work EXCEPT ![r] = w]
      BY <1>3 DEF BeginClear, TypeOK
    <2> HIDE DEF w
    <2>4. /\ pc' \in [Requests -> Steps] /\ pc'[r] = "clear"
          /\ \A q \in Requests \ {r} : pc'[q] = pc[q]
      BY <1>3, GoToType DEF BeginClear, Steps
    <2> QED
      BY <2>2, <2>3, <2>4, WorkType DEF StepOf, Known
  <1>4. CASE ClearEntry(r)
    BY <1>4, DoneStep DEF ClearEntry
  <1> QED
    BY <1>1, <1>2, <1>3, <1>4 DEF Edit

LEMMA CreateStep ==
    ASSUME TypeOK, Knows, ClassKnown, NEW r \in Requests, Create(r)
    PROVE  StepOf(r)
  <1>0. work[r] \in Work /\ Known(r)
    BY DEF TypeOK, Knows
  <1>1. ASSUME NEW c \in Classes, NEW source \in Tables \union {None}, BeginCreate(r, c, source)
        PROVE  StepOf(r)
    <2> DEFINE v == [work[r] EXCEPT !.class = c]
               w == [v EXCEPT !.source = source]
    <2>1. v \in Work /\ v.class = c
      BY <1>0 DEF Work
    <2>2. w \in Work /\ w.class = c
      <3> HIDE DEF v
      <3> QED
        BY <2>1 DEF Work
    <2>3. work' = [work EXCEPT ![r] = w]
      BY <1>1 DEF BeginCreate, TypeOK
    <2> HIDE DEF w
    <2>4. /\ pc' \in [Requests -> Steps] /\ pc'[r] = "max"
          /\ \A q \in Requests \ {r} : pc'[q] = pc[q]
      BY <1>1, GoToType DEF BeginCreate, Steps
    <2> QED
      BY <2>2, <2>3, <2>4, WorkType DEF StepOf, Known, OnTable
  <1>2. ASSUME NEW t \in Tables, BeginRevise(r, t) PROVE StepOf(r)
    <2> DEFINE u == [work[r] EXCEPT !.class = class[t]]
               v == [u EXCEPT !.source = t]
               w == [v EXCEPT !.parent = t]
    <2>0. class[t] \in Classes
      BY <1>2 DEF BeginRevise, ClassKnown, Exists
    <2>1. u \in Work /\ u.class = class[t]
      BY <1>0, <2>0 DEF Work
    <2>2. v \in Work /\ v.class = class[t]
      <3> HIDE DEF u
      <3> QED
        BY <2>1 DEF Work
    <2>3. w \in Work /\ w.class = class[t]
      <3> HIDE DEF v
      <3> QED
        BY <2>2 DEF Work
    <2>4. work' = [work EXCEPT ![r] = w]
      BY <1>2 DEF BeginRevise, TypeOK
    <2> HIDE DEF w
    <2>5. /\ pc' \in [Requests -> Steps] /\ pc'[r] = "max"
          /\ \A q \in Requests \ {r} : pc'[q] = pc[q]
      BY <1>2, GoToType DEF BeginRevise, Steps
    <2> QED
      BY <2>0, <2>3, <2>4, <2>5, WorkType DEF StepOf, Known, OnTable
  <1>3. ASSUME NEW n \in 1..MaxVersion, ReadMax(r, n) PROVE StepOf(r)
    <2> DEFINE w == [work[r] EXCEPT !.version = n]
    <2>1. n \in 0..MaxVersion
      BY TimetableAssumption
    <2>2. w \in Work /\ w.class = work[r].class
      BY <1>0, <2>1 DEF Work
    <2>3. work' = [work EXCEPT ![r] = w]
      BY <1>3 DEF ReadMax, TypeOK
    <2> HIDE DEF w
    <2>4. /\ pc' \in [Requests -> Steps] /\ pc'[r] = "insert"
          /\ \A q \in Requests \ {r} : pc'[q] = pc[q]
      BY <1>3, GoToType DEF ReadMax, Steps
    <2>5. work[r].class \in Classes
      BY <1>0, <1>3 DEF ReadMax, Known
    <2> QED
      BY <2>2, <2>3, <2>4, <2>5, WorkType DEF StepOf, Known, OnTable
  <1>4. ASSUME NEW t \in Tables, InsertDraft(r, t) PROVE StepOf(r)
    <2> DEFINE w == [work[r] EXCEPT !.table = t]
    <2>1. w \in Work /\ w.table = t /\ w.source = work[r].source
      BY <1>0 DEF Work
    <2>2. CASE Done(r)
      BY <2>2, DoneStep
    <2>3. ASSUME NEW s \in {"copy", "upsert"}, s = "copy" => work[r].source # None,
                 GoTo(r, s), work' = [work EXCEPT ![r].table = t]
          PROVE  StepOf(r)
      <3>1. work' = [work EXCEPT ![r] = w]
        BY <2>3 DEF TypeOK
      <3>2. s = "copy" => w.source \in Tables
        BY <1>0, <2>1, <2>3 DEF Work
      <3>3. /\ pc' \in [Requests -> Steps] /\ pc'[r] = s
            /\ \A q \in Requests \ {r} : pc'[q] = pc[q]
        BY <2>3, GoToType DEF Steps
      <3> HIDE DEF w
      <3> QED
        BY <2>1, <3>1, <3>2, <3>3, WorkType DEF StepOf, Known
    <2> QED
      BY <1>4, <2>2, <2>3 DEF InsertDraft
  <1>5. CASE InsertRefused(r)
    BY <1>5, DoneStep DEF InsertRefused
  <1>6. CASE CopyEntries(r)
    BY <1>6, DoneStep DEF CopyEntries
  <1> QED
    BY <1>1, <1>2, <1>3, <1>4, <1>5, <1>6 DEF Create

LEMMA GenerateStep ==
    ASSUME TypeOK, Knows, NEW r \in Requests, Generate(r)
    PROVE  StepOf(r)
  <1>0. work[r] \in Work /\ Known(r)
    BY DEF TypeOK, Knows
  <1>1. ASSUME NEW C \in SUBSET Classes, BeginGenerate(r, C) PROVE StepOf(r)
    <2> DEFINE w == [work[r] EXCEPT !.scan = C]
    <2>1. w \in Work
      BY <1>0 DEF Work
    <2>2. work' = [work EXCEPT ![r] = w]
      BY <1>1 DEF BeginGenerate, TypeOK
    <2>3. /\ pc' \in [Requests -> Steps] /\ pc'[r] = "scan"
          /\ \A q \in Requests \ {r} : pc'[q] = pc[q]
      BY <1>1, GoToType DEF BeginGenerate, Steps
    <2> HIDE DEF w
    <2> QED
      BY <2>1, <2>2, <2>3, WorkType DEF StepOf, Known, OnTable
  <1>2. ASSUME NEW c \in Classes, ScanClass(r, c) PROVE StepOf(r)
    <2> DEFINE S == work[r].scan \ {c}
               F == work[r].found \union {c}
               v == [work[r] EXCEPT !.scan = S]
               w == [v EXCEPT !.found = F]
    <2>0. S \in SUBSET Classes /\ F \in SUBSET Classes
      BY <1>0 DEF Work
    <2>1. v \in Work
      <3> HIDE DEF S
      <3> QED
        BY <1>0, <2>0 DEF Work
    <2>2. w \in Work
      <3> HIDE DEF v, F
      <3> QED
        BY <2>0, <2>1 DEF Work
    <2>3. pc[r] = "scan"
      BY <1>2 DEF ScanClass
    <2>4. CASE UNCHANGED pc /\ work' \in {[work EXCEPT ![r] = v], [work EXCEPT ![r] = w]}
      <3> HIDE DEF v, w
      <3> QED
        BY <2>1, <2>2, <2>3, <2>4, WorkType DEF StepOf, Known, OnTable, TypeOK
    <2>5. ASSUME NEW t \in Tables, GoTo(r, "drop"),
                 work' = [work EXCEPT ![r] = [w EXCEPT !.table = t]]
          PROVE  StepOf(r)
      <3>1. [w EXCEPT !.table = t] \in Work /\ [w EXCEPT !.table = t].table = t
        <4> HIDE DEF w
        <4> QED
          BY <2>2 DEF Work
      <3> DEFINE x == [w EXCEPT !.table = t]
      <3>2. /\ pc' \in [Requests -> Steps] /\ pc'[r] = "drop"
            /\ \A q \in Requests \ {r} : pc'[q] = pc[q]
        BY <2>5, GoToType DEF Steps
      <3>3. work' = [work EXCEPT ![r] = x] /\ x \in Work /\ x.table = t
        BY <2>5, <3>1
      <3> HIDE DEF x
      <3> QED
        BY <3>2, <3>3, WorkType DEF StepOf, Known
    <2>6. \/ UNCHANGED pc /\ work' = [work EXCEPT ![r] = w]
          \/ UNCHANGED pc /\ work' = [work EXCEPT ![r] = v]
          \/ \E t \in Tables : GoTo(r, "drop") /\ work' = [work EXCEPT ![r] = [w EXCEPT !.table = t]]
      BY <1>2 DEF ScanClass, OfClass, TypeOK
    <2> QED
      BY <2>4, <2>5, <2>6
  <1>3. CASE DropDraft(r)
    <2> DEFINE w == [work[r] EXCEPT !.table = None]
    <2>1. w \in Work
      BY <1>0 DEF Work
    <2>2. work' = [work EXCEPT ![r] = w]
      BY <1>3 DEF DropDraft, TypeOK
    <2>3. /\ pc' \in [Requests -> Steps] /\ pc'[r] = "scan"
          /\ \A q \in Requests \ {r} : pc'[q] = pc[q]
      BY <1>3, GoToType DEF DropDraft, Steps
    <2> HIDE DEF w
    <2> QED
      BY <2>1, <2>2, <2>3, WorkType DEF StepOf, Known, OnTable
  <1>4. CASE EndScan(r)
    BY <1>0, <1>4, DoneStep, GoToType DEF EndScan, StepOf, Known, Steps, OnTable, TypeOK
  <1>5. ASSUME NEW J \in SUBSET (Classes \X Slots \X Resources), PlanGrids(r, J)
        PROVE  StepOf(r)
    <2>1. CASE Done(r)
      BY <2>1, DoneStep
    <2>2. CASE GoTo(r, "next") /\ work' = [work EXCEPT ![r].jobs = J, ![r].found = {}]
      <3> DEFINE v == [work[r] EXCEPT !.jobs = J]
                 w == [v EXCEPT !.found = {}]
      <3>1. v \in Work
        BY <1>0 DEF Work
      <3>2. w \in Work
        <4> HIDE DEF v
        <4> QED
          BY <3>1 DEF Work
      <3>3. work' = [work EXCEPT ![r] = w]
        BY <2>2 DEF TypeOK
      <3>4. /\ pc' \in [Requests -> Steps] /\ pc'[r] = "next"
            /\ \A q \in Requests \ {r} : pc'[q] = pc[q]
        BY <2>2, GoToType DEF Steps
      <3> HIDE DEF w
      <3> QED
        BY <3>2, <3>3, <3>4, WorkType DEF StepOf, Known, OnTable
    <2> QED
      BY <1>5, <2>1, <2>2 DEF PlanGrids
  <1>6. ASSUME NEW c \in Classes, NextClass(r, c) PROVE StepOf(r)
    <2> DEFINE J == {j \in work[r].jobs : j[1] = c}
               P == {<<j[2], j[3]>> : j \in J}
               rest == work[r].jobs \ J
               u == [work[r] EXCEPT !.class = c]
               v == [u EXCEPT !.jobs = rest]
               w == [v EXCEPT !.table = None]
               x == [w EXCEPT !.plan = P]
    <2>1. work[r].jobs \in SUBSET (Classes \X Slots \X Resources)
      BY <1>0 DEF Work
    <2>2. rest \in SUBSET (Classes \X Slots \X Resources) /\ P \in SUBSET (Slots \X Resources)
      BY <2>1
    <2>3. u \in Work /\ u.class = c
      BY <1>0 DEF Work
    <2>4. v \in Work /\ v.class = c
      <3> HIDE DEF u, rest
      <3> QED
        BY <2>2, <2>3 DEF Work
    <2>5. w \in Work /\ w.class = c
      <3> HIDE DEF v
      <3> QED
        BY <2>4 DEF Work
    <2>6. x \in Work /\ x.class = c
      <3> HIDE DEF w, P
      <3> QED
        BY <2>2, <2>5 DEF Work
    <2>7. work' = [work EXCEPT ![r] = x]
      BY <1>6 DEF NextClass, TypeOK
    <2>8. /\ pc' \in [Requests -> Steps] /\ pc'[r] = "max"
          /\ \A q \in Requests \ {r} : pc'[q] = pc[q]
      BY <1>6, GoToType DEF NextClass, Steps
    <2> HIDE DEF x
    <2> QED
      BY <2>6, <2>7, <2>8, WorkType DEF StepOf, Known, OnTable
  <1> QED
    BY <1>1, <1>2, <1>3, <1>4, <1>5, <1>6 DEF Generate

-----------------------------------------------------------------------------
(* What a step does to the rows of timetables *)

Moved(t, from, to) ==
    /\ status[t] = from
    /\ status' = [status EXCEPT ![t] = to]
    /\ UNCHANGED <<class, version, parent>>

Inserted(t, r) ==
    /\ ~VersionTaken(r) /\ Fresh(t) /\ pc[r] = "insert"
    /\ status' = [status EXCEPT ![t] = "draft"]
    /\ class' = [class EXCEPT ![t] = work[r].class]
    /\ version' = [version EXCEPT ![t] = work[r].version]
    /\ parent' = [parent EXCEPT ![t] = work[r].parent]

Deleted(t) ==
    /\ status[t] = "draft"
    /\ status' = [status EXCEPT ![t] = "absent"]
    /\ class' = [class EXCEPT ![t] = None]
    /\ version' = [version EXCEPT ![t] = 0]
    /\ parent' = [u \in Tables |-> IF u = t \/ parent[u] = t THEN None ELSE parent[u]]

ArchivedAll(S) ==
    /\ \A t \in S : Exists(t)
    /\ status' = [t \in Tables |-> IF t \in S THEN "archived" ELSE status[t]]
    /\ UNCHANGED <<class, version, parent>>

Advanced(t) ==
    \/ /\ Moved(t, "draft", "under_review")
       /\ \E r \in Requests : pc[r] = "submit" /\ work[r].table = t
    \/ Moved(t, "under_review", "approved")
    \/ Moved(t, "under_review", "rejected")
    \/ Moved(t, "approved", "published") /\ ~PublishConflict(t)

RowStep ==
    \/ UNCHANGED rows
    \/ \E t \in Tables : Advanced(t) \/ Deleted(t)
    \/ \E S \in SUBSET Tables : ArchivedAll(S)
    \/ \E t \in Tables, r \in Requests : Inserted(t, r)

LEMMA RowEffects ==
    ASSUME TypeOK, Knows, [Next]_vars
    PROVE  RowStep
  <1>1. ASSUME NEW r \in Requests, Review(r) PROVE RowStep
    <2>0. Known(r)
      BY DEF Knows
    <2>1. CASE (\E t \in Tables : \/ Begin(r, t, "draft", "entries")
                                  \/ Begin(r, t, "under_review", "approve")
                                  \/ Begin(r, t, "under_review", "reject")
                                  \/ BeginPublish(r, t))
               \/ ReadEntries(r) \/ CheckBookings(r)
      BY <2>1 DEF Begin, BeginPublish, ReadEntries, CheckBookings, RowStep, rows
    <2>2. CASE Submit(r)
      <3>1. UNCHANGED rows \/ Moved(work[r].table, "draft", "under_review")
        BY <2>2 DEF Submit, Move, Moved, rows
      <3> QED
        BY <2>0, <2>2, <3>1 DEF Submit, Known, OnTable, RowStep, Advanced
    <2>3. CASE Approve(r)
      <3>1. UNCHANGED rows \/ Moved(work[r].table, "under_review", "approved")
        BY <2>3 DEF Approve, Move, Moved, rows
      <3> QED
        BY <2>0, <2>3, <3>1 DEF Approve, Known, OnTable, RowStep, Advanced
    <2>4. CASE Reject(r)
      <3>1. UNCHANGED rows \/ Moved(work[r].table, "under_review", "rejected")
        BY <2>4 DEF Reject, Move, Moved, rows
      <3> QED
        BY <2>0, <2>4, <3>1 DEF Reject, Known, OnTable, RowStep, Advanced
    <2>5. CASE Publish(r)
      <3>1. \/ UNCHANGED rows
            \/ /\ Moved(work[r].table, "approved", "published")
               /\ ~PublishConflict(work[r].table)
        BY <2>5 DEF Publish, Move, Moved, rows
      <3> QED
        BY <2>0, <2>5, <3>1 DEF Publish, Known, OnTable, RowStep, Advanced
    <2>6. CASE ArchivePublished(r)
      <3> DEFINE S == {t \in Tables : status[t] = "published" /\ class[t] = work[r].class}
      <3>1. ArchivedAll(S)
        BY <2>6 DEF ArchivePublished, ArchivedAll, Exists
      <3> QED
        BY <3>1 DEF RowStep
    <2> QED
      BY <1>1, <2>1, <2>2, <2>3, <2>4, <2>5, <2>6 DEF Review
  <1>2. ASSUME NEW r \in Requests, Edit(r) PROVE RowStep
    BY <1>2 DEF Edit, BeginSave, Upsert, BeginClear, ClearEntry, RowStep, rows
  <1>3. ASSUME NEW r \in Requests, Create(r) PROVE RowStep
    <2>1. ASSUME NEW t \in Tables, InsertDraft(r, t) PROVE RowStep
      <3>1. Inserted(t, r)
        BY <2>1 DEF InsertDraft, Inserted
      <3> QED
        BY <3>1 DEF RowStep
    <2> QED
      BY <1>3, <2>1 DEF Create, BeginCreate, BeginRevise, ReadMax, InsertRefused,
         CopyEntries, RowStep, rows
  <1>4. ASSUME NEW r \in Requests, Generate(r) PROVE RowStep
    <2>1. CASE DropDraft(r)
      <3>1. work[r].table \in Tables
        BY <2>1 DEF DropDraft, Knows, Known, OnTable
      <3>2. UNCHANGED rows \/ Deleted(work[r].table)
        BY <2>1 DEF DropDraft, Delete, Deleted, rows
      <3> QED
        BY <3>1, <3>2 DEF RowStep
    <2> QED
      BY <1>4, <2>1 DEF Generate, BeginGenerate, ScanClass, NextClass, EndScan, PlanGrids,
         RowStep, rows
  <1>5. ASSUME NEW r \in Requests, Fail(r) PROVE RowStep
    BY <1>5 DEF Fail, RowStep, rows
  <1>6. ASSUME NEW t \in Tables, Archive(t) PROVE RowStep
    <2>1. ArchivedAll({t})
      BY <1>6 DEF Archive, ArchivedAll, TypeOK
    <2> QED
      BY <2>1 DEF RowStep
  <1>7. ASSUME NEW t \in Tables, DeleteDraft(t) PROVE RowStep
    <2>1. Deleted(t)
      BY <1>7 DEF DeleteDraft, Delete, Deleted
    <2> QED
      BY <2>1 DEF RowStep
  <1>8. CASE UNCHANGED vars
    BY <1>8 DEF vars, RowStep, rows
  <1> QED
    BY <1>1, <1>2, <1>3, <1>4, <1>5, <1>6, <1>7, <1>8 DEF Next

(* The unique indexes, and what the rows of a class are. *)
LEMMA RowsKeep ==
    ASSUME Rows, RowStep
    PROVE  /\ status' \in [Tables -> Statuses \union {"absent"}]
           /\ class' \in [Tables -> Classes \union {None}]
           /\ version' \in [Tables -> 0..MaxVersion]
           /\ parent' \in [Tables -> Tables \union {None}]
           /\ ClassKnown' /\ OnePublished' /\ VersionsDistinct'
  <1> USE DEF Rows
  <1>1. CASE UNCHANGED rows
    BY <1>1 DEF rows, TypeOK, ClassKnown, OnePublished, VersionsDistinct, Exists
  <1>2. ASSUME NEW t \in Tables, Advanced(t)
        PROVE  /\ status' \in [Tables -> Statuses \union {"absent"}]
               /\ UNCHANGED <<class, version, parent>>
               /\ ClassKnown' /\ OnePublished' /\ VersionsDistinct'
    BY <1>2 DEF Advanced, Moved, PublishConflict, OfClass, Exists, TypeOK, ClassKnown,
       OnePublished, VersionsDistinct, Statuses
  <1>3. ASSUME NEW t \in Tables, Deleted(t)
        PROVE  /\ status' \in [Tables -> Statuses \union {"absent"}]
               /\ class' \in [Tables -> Classes \union {None}]
               /\ version' \in [Tables -> 0..MaxVersion]
               /\ parent' \in [Tables -> Tables \union {None}]
               /\ ClassKnown' /\ OnePublished' /\ VersionsDistinct'
    BY <1>3, TimetableAssumption DEF Deleted, Exists, TypeOK, ClassKnown, OnePublished,
       VersionsDistinct, Statuses
  <1>4. ASSUME NEW S \in SUBSET Tables, ArchivedAll(S)
        PROVE  /\ status' \in [Tables -> Statuses \union {"absent"}]
               /\ UNCHANGED <<class, version, parent>>
               /\ ClassKnown' /\ OnePublished' /\ VersionsDistinct'
    BY <1>4 DEF ArchivedAll, Exists, TypeOK, ClassKnown, OnePublished, VersionsDistinct, Statuses
  <1>5. ASSUME NEW t \in Tables, NEW r \in Requests, Inserted(t, r)
        PROVE  /\ status' \in [Tables -> Statuses \union {"absent"}]
               /\ class' \in [Tables -> Classes \union {None}]
               /\ version' \in [Tables -> 0..MaxVersion]
               /\ parent' \in [Tables -> Tables \union {None}]
               /\ ClassKnown' /\ OnePublished' /\ VersionsDistinct'
    <2>1. work[r] \in Work /\ work[r].class \in Classes
      BY <1>5 DEF Inserted, TypeOK, Knows, Known
    <2>2. work[r].version \in 0..MaxVersion /\ work[r].parent \in Tables \union {None}
      BY <2>1 DEF Work
    <2>3. \A u \in Tables : Exists(u) /\ class[u] = work[r].class => version[u] # work[r].version
      BY <1>5 DEF Inserted, VersionTaken, OfClass
    <2>4. ~Exists(t)
      BY <1>5 DEF Inserted, Fresh
    <2> QED
      BY <1>5, <2>1, <2>2, <2>3, <2>4 DEF Inserted, Exists, TypeOK, ClassKnown, OnePublished,
         VersionsDistinct, Statuses
  <1> QED
    BY <1>1, <1>2, <1>3, <1>4, <1>5 DEF RowStep, TypeOK

(* Every change of a status is one of the moves. *)
LEMMA RowsMove ==
    ASSUME TypeOK, RowStep
    PROVE  \A t \in Tables : status'[t] # status[t] => <<status[t], status'[t]>> \in Moves
  BY DEF RowStep, rows, Advanced, Moved, Deleted, ArchivedAll, Inserted, Fresh, Exists,
     Moves, TypeOK

(* What is published or archived stays so, with its class and version. *)
LEMMA FinalStays ==
    ASSUME TypeOK, RowStep, NEW p \in Tables, status[p] \in Final
    PROVE  status'[p] \in Final /\ class'[p] = class[p] /\ version'[p] = version[p]
  BY DEF RowStep, rows, Advanced, Moved, Deleted, ArchivedAll, Inserted, Fresh, Exists,
     Final, TypeOK

-----------------------------------------------------------------------------
(* What a step does to the entries *)

Edited(t) ==
    /\ \E g \in Grid : grid' = [grid EXCEPT ![t] = g]
    /\ Touch(t)
    /\ UNCHANGED rows

Removed(t) ==
    /\ Deleted(t)
    /\ grid' = [grid EXCEPT ![t] = EmptyGrid]
    /\ touched' = touched \ {t}

GridStep ==
    \/ UNCHANGED <<grid, touched>>
    \/ \E t \in Tables : Edited(t) \/ Removed(t)

(* No submission gets further, though one may end. *)
NoneSubmits ==
    \A r \in Requests :
        pc'[r] \in {"bookings", "submit"} => pc'[r] = pc[r] /\ work'[r] = work[r]

LEMMA ReviewEffects ==
    ASSUME TypeOK, Knows, ClassKnown, NEW r \in Requests, Review(r),
           ~ReadEntries(r), ~CheckBookings(r)
    PROVE  GridStep /\ NoneSubmits
  <1>1. StepOf(r)
    BY ReviewStep
  <1>2. UNCHANGED <<grid, touched>>
    <2>1. CASE Publish(r)
      <3>1. work[r].table \in Tables
        BY <2>1 DEF Publish, Knows, Known, OnTable
      <3>2. status[work[r].table] = "approved" => class[work[r].table] \in Classes
        BY <3>1 DEF ClassKnown, Exists
      <3> QED
        BY <2>1, <3>2 DEF Publish, TypeOK
    <2>2. CASE ~Publish(r)
      BY <2>2 DEF Review, Begin, Submit, Approve, Reject, BeginPublish, ArchivePublished,
         TypeOK
    <2> QED
      BY <2>1, <2>2
  <1>3. pc'[r] \notin {"bookings", "submit"}
    BY GoToType, DoneType DEF Review, Begin, Submit, Approve, Reject, BeginPublish,
       ArchivePublished, Publish, Move, Steps
  <1> QED
    BY <1>1, <1>2, <1>3 DEF GridStep, NoneSubmits, StepOf

LEMMA EditEffects ==
    ASSUME TypeOK, Knows, NEW r \in Requests, Edit(r)
    PROVE  GridStep /\ NoneSubmits
  <1>1. StepOf(r)
    BY EditStep
  <1>2. pc'[r] \notin {"bookings", "submit"}
    BY GoToType, DoneType DEF Edit, BeginSave, Upsert, BeginClear, ClearEntry, Steps
  <1>3. GridStep
    <2>1. ASSUME NEW s \in Slots, NEW x \in Resources, Upsert(r, s, x)
          PROVE  GridStep
      <3> DEFINE t == work[r].table
                 g == [grid[t] EXCEPT ![s] = x]
      <3>1. t \in Tables
        BY <2>1 DEF Upsert, Knows, Known, OnTable
      <3>2. g \in Grid
        BY <3>1 DEF TypeOK, Grid
      <3>3. UNCHANGED <<grid, touched>> \/ Edited(t)
        <4>1. \/ UNCHANGED <<grid, touched>>
              \/ grid' = [grid EXCEPT ![t] = g] /\ Touch(t) /\ UNCHANGED rows
          BY <2>1 DEF Upsert, TypeOK
        <4> QED
          BY <3>2, <4>1 DEF Edited
      <3> QED
        BY <2>1, <3>1, <3>3 DEF Upsert, GridStep
    <2>2. CASE ClearEntry(r)
      <3> DEFINE t == work[r].table
                 g == [s \in Slots |-> IF s \in work[r].slot THEN None ELSE grid[t][s]]
      <3>1. t \in Tables
        BY <2>2 DEF ClearEntry, Knows, Known, OnTable
      <3>2. g \in Grid
        BY <3>1 DEF TypeOK, Grid
      <3>3. grid' = [grid EXCEPT ![t] = g]
        BY <2>2 DEF ClearEntry
      <3>4. Edited(t)
        BY <2>2, <3>2, <3>3 DEF ClearEntry, Edited
      <3> QED
        BY <2>2, <3>1, <3>4 DEF ClearEntry, GridStep
    <2> QED
      BY <2>1, <2>2 DEF Edit, BeginSave, BeginClear, GridStep
  <1> QED
    BY <1>1, <1>2, <1>3 DEF NoneSubmits, StepOf

LEMMA CreateEffects ==
    ASSUME TypeOK, Knows, ClassKnown, NEW r \in Requests, Create(r)
    PROVE  GridStep /\ NoneSubmits
  <1>1. StepOf(r)
    BY CreateStep
  <1>2. pc'[r] \notin {"bookings", "submit"}
    BY GoToType, DoneType DEF Create, BeginCreate, BeginRevise, ReadMax, InsertDraft,
       InsertRefused, CopyEntries, Steps
  <1>3. GridStep
    <2>1. CASE CopyEntries(r)
      <3> DEFINE t == work[r].table
                 h == grid[work[r].source]
                 booked == {s \in Slots : h[s] # None}
                 g == [s \in Slots |-> IF s \in booked THEN h[s] ELSE grid[t][s]]
      <3>1. t \in Tables /\ work[r].source \in Tables
        BY <2>1 DEF CopyEntries, Knows, Known, OnTable
      <3>2. g \in Grid
        BY <3>1 DEF TypeOK, Grid
      <3>3. UNCHANGED <<grid, touched>> \/ Edited(t)
        <4>1. \/ UNCHANGED <<grid, touched>>
              \/ grid' = [grid EXCEPT ![t] = g] /\ Touch(t) /\ UNCHANGED rows
          BY <2>1 DEF CopyEntries
        <4> QED
          BY <3>2, <4>1 DEF Edited
      <3> QED
        BY <2>1, <3>1, <3>3 DEF CopyEntries, GridStep
    <2> QED
      BY <2>1 DEF Create, BeginCreate, BeginRevise, ReadMax, InsertDraft, InsertRefused,
         GridStep
  <1> QED
    BY <1>1, <1>2, <1>3 DEF NoneSubmits, StepOf

LEMMA GenerateEffects ==
    ASSUME TypeOK, Knows, NEW r \in Requests, Generate(r)
    PROVE  GridStep /\ NoneSubmits
  <1>1. StepOf(r)
    BY GenerateStep
  <1>2. pc'[r] \notin {"bookings", "submit"}
    BY GoToType, DoneType DEF Generate, BeginGenerate, ScanClass, NextClass, DropDraft,
       EndScan, PlanGrids, Steps
  <1>3. GridStep
    <2>1. CASE DropDraft(r)
      <3>1. work[r].table \in Tables
        BY <2>1 DEF DropDraft, Knows, Known, OnTable
      <3>2. UNCHANGED <<grid, touched>> \/ Removed(work[r].table)
        BY <2>1 DEF DropDraft, Delete, Deleted, Removed
      <3> QED
        BY <2>1, <3>1, <3>2 DEF DropDraft, Delete, GridStep
    <2> QED
      BY <2>1 DEF Generate, BeginGenerate, ScanClass, NextClass, EndScan, PlanGrids,
         GridStep
  <1> QED
    BY <1>1, <1>2, <1>3 DEF NoneSubmits, StepOf

LEMMA OtherEffects ==
    ASSUME TypeOK,
           \/ \E r \in Requests : Fail(r)
           \/ \E t \in Tables : Archive(t) \/ DeleteDraft(t)
           \/ UNCHANGED vars
    PROVE  GridStep /\ NoneSubmits
  <1>1. ASSUME NEW r \in Requests, Fail(r)
        PROVE  GridStep /\ NoneSubmits
    BY <1>1, DoneType DEF Fail, GridStep, NoneSubmits, TypeOK
  <1>2. ASSUME NEW t \in Tables, Archive(t)
        PROVE  GridStep /\ NoneSubmits
    BY <1>2 DEF Archive, GridStep, NoneSubmits, TypeOK
  <1>3. ASSUME NEW t \in Tables, DeleteDraft(t)
        PROVE  GridStep /\ NoneSubmits
    BY <1>3 DEF DeleteDraft, Delete, Deleted, Removed, GridStep, NoneSubmits, TypeOK
  <1>4. CASE UNCHANGED vars
    BY <1>4 DEF vars, GridStep, NoneSubmits, TypeOK
  <1> QED
    BY <1>1, <1>2, <1>3, <1>4

(* Every step but the two of a submission that read. *)
LEMMA Effects ==
    ASSUME TypeOK, Knows, ClassKnown, [Next]_vars
    PROVE  \/ \E r \in Requests : ReadEntries(r) \/ CheckBookings(r)
           \/ GridStep /\ NoneSubmits
  <1>1. ASSUME NEW r \in Requests,
               Review(r) \/ Edit(r) \/ Create(r) \/ Generate(r) \/ Fail(r)
        PROVE  \/ ReadEntries(r) \/ CheckBookings(r)
               \/ GridStep /\ NoneSubmits
    BY <1>1, ReviewEffects, EditEffects, CreateEffects, GenerateEffects, OtherEffects
  <1> QED
    BY <1>1, OtherEffects DEF Next

LEMMA NextRows ==
    ASSUME Rows, [Next]_vars
    PROVE  Rows'
  <1> USE DEF Rows
  <1>1. RowStep
    BY RowEffects
  <1>2. /\ pc' \in [Requests -> Steps] /\ work' \in [Requests -> Work]
        /\ Knows'
    <2>1. ASSUME NEW r \in Requests,
                 Review(r) \/ Edit(r) \/ Create(r) \/ Generate(r) \/ Fail(r)
          PROVE  StepOf(r)
      BY <2>1, ReviewStep, EditStep, CreateStep, GenerateStep, DoneStep DEF Fail
    <2>2. ASSUME NEW r \in Requests, StepOf(r)
          PROVE  /\ pc' \in [Requests -> Steps] /\ work' \in [Requests -> Work]
                 /\ Knows'
      BY <2>2 DEF StepOf, Knows, Known
    <2>3. CASE UNCHANGED <<pc, work>>
      BY <2>3 DEF TypeOK, Knows, Known
    <2> QED
      BY <2>1, <2>2, <2>3 DEF Next, Archive, DeleteDraft, vars
  <1>3. /\ grid' \in [Tables -> Grid] /\ touched' \subseteq Tables
    <2>1. ASSUME NEW r \in Requests, ReadEntries(r) \/ CheckBookings(r)
          PROVE  grid' = grid /\ touched' \subseteq Tables
      BY <2>1 DEF ReadEntries, CheckBookings, TypeOK
    <2>2. ASSUME NEW t \in Tables, Edited(t)
          PROVE  grid' \in [Tables -> Grid] /\ touched' \subseteq Tables
      BY <2>2 DEF Edited, Touch, TypeOK
    <2>3. ASSUME NEW t \in Tables, Removed(t)
          PROVE  grid' \in [Tables -> Grid] /\ touched' \subseteq Tables
      BY <2>3 DEF Removed, EmptyGrid, Grid, TypeOK
    <2> QED
      BY <2>1, <2>2, <2>3, Effects DEF GridStep, TypeOK
  <1> QED
    BY <1>1, <1>2, <1>3, RowsKeep DEF TypeOK

-----------------------------------------------------------------------------
(* Revisions *)

(* Steps that start no revision and take none further.                     *)
LEMMA NoRevision ==
    ASSUME Rows, RevisionsUnderWay, NEW r \in Requests,
           Review(r) \/ Edit(r) \/ Generate(r) \/ Fail(r)
    PROVE  work'[r].parent = None
  <1> USE DEF Rows
  <1>0. /\ work[r] \in Work
        /\ pc[r] \notin {"max", "insert", "copy"} => work[r].parent = None
    BY DEF TypeOK, RevisionsUnderWay
  <1>1. CASE Done(r)
    BY <1>1, DoneType DEF NoWork
  <1>2. ASSUME NEW t, pc[r] \notin {"max", "insert", "copy"}, work' = [work EXCEPT ![r].table = t]
        PROVE  work'[r].parent = None
    BY <1>0, <1>2 DEF TypeOK, Work
  <1>3. CASE Review(r)
    <2>1. ASSUME NEW t, BeginPublish(r, t) PROVE work'[r].parent = None
      BY <1>0, <2>1 DEF BeginPublish, TypeOK, Work
    <2>2. CASE ReadEntries(r)
      BY <1>0, <2>2 DEF ReadEntries, TypeOK, Work
    <2>3. ASSUME pc[r] \notin {"max", "insert", "copy"}, UNCHANGED work
          PROVE  work'[r].parent = None
      BY <1>0, <2>3
    <2> QED
      BY <1>1, <1>2, <1>3, <2>1, <2>2, <2>3 DEF Review, Begin, CheckBookings, Submit, Approve,
         Reject, ArchivePublished, Publish, Move
  <1>4. CASE Edit(r)
    <2>1. ASSUME NEW s \in Slots, NEW x \in Resources, Upsert(r, s, x)
          PROVE  work'[r].parent = None
      <3> DEFINE rest == work[r].plan \ {<<s, x>>}
      <3>1. ASSUME NEW P, work' = [work EXCEPT ![r].plan = P]
            PROVE  work'[r].parent = work[r].parent
        BY <1>0, <3>1 DEF TypeOK, Work
      <3>2. pc[r] = "upsert" /\ (Done(r) \/ \E P : work' = [work EXCEPT ![r].plan = P])
        BY <2>1 DEF Upsert
      <3> QED
        BY <1>0, <1>1, <3>1, <3>2
    <2>2. ASSUME NEW t, NEW P, BeginSave(r, t, P) PROVE work'[r].parent = None
      BY <1>0, <2>2 DEF BeginSave, TypeOK, Work
    <2>3. ASSUME NEW t, NEW s, BeginClear(r, t, s) PROVE work'[r].parent = None
      BY <1>0, <2>3 DEF BeginClear, TypeOK, Work
    <2> QED
      BY <1>1, <1>4, <2>1, <2>2, <2>3 DEF Edit, ClearEntry
  <1>5. CASE Generate(r)
    <2>1. ASSUME NEW c \in Classes, ScanClass(r, c) PROVE work'[r].parent = None
      <3> DEFINE S == work[r].scan \ {c}
                 F == work[r].found \union {c}
      <3>1. pc[r] = "scan"
        BY <2>1 DEF ScanClass
      <3>2. CASE work' = [work EXCEPT ![r].scan = S]
        BY <1>0, <3>1, <3>2 DEF TypeOK, Work
      <3>3. CASE work' = [work EXCEPT ![r].scan = S, ![r].found = F]
        BY <1>0, <3>1, <3>3 DEF TypeOK, Work
      <3>4. ASSUME NEW t, work' = [work EXCEPT ![r].scan = S, ![r].found = F, ![r].table = t]
            PROVE  work'[r].parent = None
        BY <1>0, <3>1, <3>4 DEF TypeOK, Work
      <3> QED
        BY <2>1, <3>2, <3>3, <3>4 DEF ScanClass
    <2>2. ASSUME NEW c \in Classes, NextClass(r, c) PROVE work'[r].parent = None
      BY <1>0, <2>2 DEF NextClass, TypeOK, Work
    <2>3. CASE DropDraft(r)
      <3>1. pc[r] = "drop" /\ work' = [work EXCEPT ![r].table = None]
        BY <2>3 DEF DropDraft
      <3> QED
        BY <1>2, <3>1
    <2>4. CASE EndScan(r)
      BY <1>0, <1>1, <2>4 DEF EndScan
    <2>5. ASSUME NEW C, BeginGenerate(r, C) PROVE work'[r].parent = None
      BY <1>0, <2>5 DEF BeginGenerate, TypeOK, Work
    <2>6. ASSUME NEW J, PlanGrids(r, J) PROVE work'[r].parent = None
      <3>1. CASE pc[r] = "plan" /\ work' = [work EXCEPT ![r].jobs = J, ![r].found = {}]
        BY <1>0, <3>1 DEF TypeOK, Work
      <3> QED
        BY <1>1, <2>6, <3>1 DEF PlanGrids
    <2> QED
      BY <1>5, <2>1, <2>2, <2>3, <2>4, <2>5, <2>6 DEF Generate
  <1> QED
    BY <1>1, <1>3, <1>4, <1>5 DEF Fail

(* What a revision under way knows, for one request. *)
Underway(r) ==
    work[r].parent # None =>
        /\ pc[r] \in {"max", "insert", "copy"}
        /\ work[r].source # None
        /\ pc[r] \in {"max", "insert"} =>
              /\ status[work[r].parent] \in Final
              /\ class[work[r].parent] = work[r].class
              /\ pc[r] = "insert" => version[work[r].parent] < work[r].version

LEMMA RevisionStep ==
    ASSUME Rows, RevisionsUnderWay, RowStep, NEW r \in Requests, Create(r)
    PROVE  Underway(r)'
  <1> USE DEF Rows
  <1>0. work[r] \in Work /\ Underway(r)
    BY DEF TypeOK, RevisionsUnderWay, Underway
  <1>1. CASE Done(r)
    BY <1>1, DoneType DEF NoWork, Underway
  <1>2. ASSUME NEW c \in Classes, NEW source \in Tables \union {None}, BeginCreate(r, c, source)
        PROVE  Underway(r)'
    <2>1. work'[r].parent = None
      BY <1>0, <1>2 DEF BeginCreate, Underway, TypeOK, Work
    <2> QED
      BY <2>1 DEF Underway
  <1>3. ASSUME NEW t \in Tables, BeginRevise(r, t) PROVE Underway(r)'
    <2>1. /\ work'[r].parent = t /\ work'[r].source = t /\ work'[r].class = class[t]
          /\ pc'[r] = "max"
      BY <1>0, <1>3, GoToType DEF BeginRevise, TypeOK, Work, Steps
    <2>2. status'[t] \in Final /\ class'[t] = class[t] /\ t # None
      BY <1>3, FinalStays, TimetableAssumption DEF BeginRevise, Final
    <2> QED
      BY <2>1, <2>2 DEF Underway
  <1>4. ASSUME NEW n \in 1..MaxVersion, ReadMax(r, n) PROVE Underway(r)'
    <2> DEFINE p == work[r].parent
    <2>1. /\ work'[r].parent = p /\ work'[r].source = work[r].source
          /\ work'[r].class = work[r].class /\ work'[r].version = n
          /\ pc'[r] = "insert"
      BY <1>0, <1>4, GoToType DEF ReadMax, TypeOK, Work, Steps
    <2>2. ASSUME p # None
          PROVE  /\ work[r].source # None /\ status'[p] \in Final
                 /\ class'[p] = work[r].class /\ version'[p] < n
      <3>1. p \in Tables
        BY <1>0, <2>2 DEF Work
      <3>2. /\ work[r].source # None /\ status[p] \in Final /\ class[p] = work[r].class
        BY <1>0, <1>4, <2>2 DEF Underway, ReadMax
      <3>3. version[p] < n
        BY <1>4, <3>1, <3>2 DEF ReadMax, IsNextVersion, OfClass, Exists, Final
      <3> QED
        BY <3>1, <3>2, <3>3, FinalStays
    <2> QED
      BY <2>1, <2>2 DEF Underway
  <1>5. ASSUME NEW t \in Tables, InsertDraft(r, t), ~Done(r) PROVE Underway(r)'
    <2>1. /\ work'[r].parent = work[r].parent /\ work'[r].source = work[r].source
          /\ pc'[r] = IF work[r].source # None THEN "copy" ELSE "upsert"
      BY <1>0, <1>5, GoToType DEF InsertDraft, TypeOK, Work, Steps
    <2> QED
      BY <1>0, <2>1 DEF Underway
  <1> QED
    BY <1>1, <1>2, <1>3, <1>4, <1>5 DEF Create, InsertRefused, CopyEntries

LEMMA NextRevisions ==
    ASSUME Rows, RevisionsUnderWay, RevisionFollowsParent, [Next]_vars
    PROVE  RevisionsUnderWay' /\ RevisionFollowsParent'
  <1> USE DEF Rows
  <1>1. RowStep
    BY RowEffects
  <1>2. ASSUME NEW q \in Requests, work'[q] = work[q], pc'[q] = pc[q]
        PROVE  Underway(q)'
    <2>1. work[q].parent # None => work[q].parent \in Tables
      BY DEF TypeOK, Work
    <2> QED
      BY <1>1, <1>2, <2>1, FinalStays DEF RevisionsUnderWay, Underway
  <1>3. \A q \in Requests : Underway(q)'
    <2>1. ASSUME NEW r \in Requests,
                 Review(r) \/ Edit(r) \/ Create(r) \/ Generate(r) \/ Fail(r)
          PROVE  \A q \in Requests : Underway(q)'
      <3>1. StepOf(r)
        BY <2>1, ReviewStep, EditStep, CreateStep, GenerateStep, DoneStep DEF Fail
      <3>2. Underway(r)'
        BY <1>1, <2>1, NoRevision, RevisionStep DEF Underway
      <3> QED
        BY <1>2, <3>1, <3>2 DEF StepOf
    <2> QED
      BY <1>2, <2>1 DEF Next, Archive, DeleteDraft, vars
  <1>4. RevisionFollowsParent'
    <2>1. CASE UNCHANGED rows
      BY <2>1 DEF rows, RevisionFollowsParent
    <2>2. ASSUME NEW t \in Tables, Advanced(t) PROVE RevisionFollowsParent'
      BY <2>2 DEF Advanced, Moved, RevisionFollowsParent, TypeOK
    <2>3. ASSUME NEW t \in Tables, Deleted(t) PROVE RevisionFollowsParent'
      BY <2>3 DEF Deleted, RevisionFollowsParent, TypeOK
    <2>4. ASSUME NEW S \in SUBSET Tables, ArchivedAll(S) PROVE RevisionFollowsParent'
      BY <2>4 DEF ArchivedAll, RevisionFollowsParent, TypeOK
    <2>5. ASSUME NEW t \in Tables, NEW r \in Requests, Inserted(t, r)
          PROVE  RevisionFollowsParent'
      <3> DEFINE p == work[r].parent
      <3>1. p # None =>
              /\ p \in Tables /\ status[p] \in Final
              /\ class[p] = work[r].class /\ version[p] < work[r].version
        BY <2>5 DEF Inserted, RevisionsUnderWay, TypeOK, Work
      <3>2. status[t] = "absent" /\ \A u \in Tables : parent[u] # t
        BY <2>5, TimetableAssumption DEF Inserted, Fresh, Exists, RevisionFollowsParent
      <3> HIDE DEF p
      <3>3. /\ status' = [status EXCEPT ![t] = "draft"]
            /\ class' = [class EXCEPT ![t] = work[r].class]
            /\ version' = [version EXCEPT ![t] = work[r].version]
            /\ parent' = [parent EXCEPT ![t] = p]
        BY <2>5 DEF Inserted, p
      <3> QED
        BY <3>1, <3>2, <3>3 DEF RevisionFollowsParent, TypeOK, Final
    <2> QED
      BY <1>1, <2>1, <2>2, <2>3, <2>4, <2>5 DEF RowStep
  <1> QED
    BY <1>3, <1>4 DEF RevisionsUnderWay, Underway

-----------------------------------------------------------------------------
(* Bookings *)

LEMMA ClashSymmetric ==
    ASSUME NEW t \in Tables, NEW u \in Tables
    PROVE  Clash(grid[t], u) = {} <=> Clash(grid[u], t) = {}
  BY DEF Clash

(* A step in which no submission gets further. *)
LEMMA EditsKeepApart ==
    ASSUME Rows, ReadsFresh, PassedApart, RowStep, GridStep, NoneSubmits
    PROVE  ReadsFresh' /\ PassedApart'
  <1> USE DEF Rows
  <1>1. \A t \in Tables : Submitters(t)' \subseteq Submitters(t)
    BY DEF Submitters, NoneSubmits
  <1>2. ASSUME NEW t \in Tables, status'[t] = "draft", Submitters(t) # {}
        PROVE  status[t] = "draft"
    BY <1>2 DEF RowStep, rows, Advanced, Moved, Deleted, ArchivedAll, Inserted, Fresh,
       Submitters, TypeOK
  <1>3. ASSUME NEW t \in Tables, status'[t] \in Submitted
        PROVE  \/ status[t] \in Submitted
               \/ /\ status[t] = "draft"
                  /\ \E r \in Requests : pc[r] = "submit" /\ work[r].table = t
    BY <1>3 DEF RowStep, rows, Advanced, Moved, Deleted, ArchivedAll, Inserted,
       Submitted, TypeOK
  <1>4. ASSUME NEW t \in Tables, t \notin touched, Passed(t)'
        PROVE  Passed(t)
    <2>1. CASE status'[t] \in Submitted
      BY <1>3, <1>4, <2>1 DEF Passed
    <2>2. ASSUME NEW r \in Requests, status'[t] = "draft", pc'[r] = "submit", work'[r].table = t
          PROVE  Passed(t)
      <3>1. pc[r] = "submit" /\ work[r].table = t
        BY <2>2 DEF NoneSubmits
      <3>2. status[t] = "draft"
        BY <1>2, <2>2, <3>1 DEF Submitters
      <3> QED
        BY <1>4, <3>1, <3>2 DEF Passed
    <2> QED
      BY <1>4, <2>1, <2>2 DEF Passed
  (* A timetable that this step edited or deleted is neither read nor passed. *)
  <1>5. ASSUME NEW t \in Tables, t \notin touched',
               (status'[t] = "draft" /\ Submitters(t)' # {}) \/ Passed(t)'
        PROVE  grid'[t] = grid[t] /\ t \notin touched
    <2>1. ASSUME NEW e \in Tables, Edited(e) PROVE grid'[t] = grid[t] /\ t \notin touched
      <3>1. CASE t = e
        <4>1. status[t] = "draft" /\ Submitters(t) = {}
          BY <1>5, <2>1, <3>1 DEF Edited, Touch
        <4>2. Submitters(t)' = {} /\ status'[t] = "draft"
          BY <1>1, <2>1, <4>1 DEF Edited, rows
        <4>3. ~Passed(t)'
          BY <4>2 DEF Passed, Submitters, Submitted
        <4> QED
          BY <1>5, <4>2, <4>3
      <3>2. CASE t # e
        BY <1>5, <2>1, <3>2 DEF Edited, Touch, TypeOK
      <3> QED
        BY <3>1, <3>2
    <2>2. ASSUME NEW e \in Tables, Removed(e) PROVE grid'[t] = grid[t] /\ t \notin touched
      <3>1. t # e
        BY <1>5, <2>2 DEF Removed, Deleted, Passed, Submitted, TypeOK
      <3> QED
        BY <1>5, <2>2, <3>1 DEF Removed, TypeOK
    <2>3. CASE UNCHANGED <<grid, touched>>
      BY <1>5, <2>3
    <2> QED
      BY <2>1, <2>2, <2>3 DEF GridStep
  <1>6. ReadsFresh'
    <2> SUFFICES ASSUME NEW t \in Tables, t \notin touched', NEW r \in Submitters(t)',
                        status'[t] = "draft"
                 PROVE  work'[r].read = grid'[t]
      BY DEF ReadsFresh
    <2>1. grid'[t] = grid[t] /\ t \notin touched
      BY <1>5
    <2>2. r \in Submitters(t) /\ work'[r] = work[r]
      BY <1>1 DEF NoneSubmits, Submitters
    <2>3. status[t] = "draft"
      BY <1>2, <2>2
    <2> QED
      BY <2>1, <2>2, <2>3 DEF ReadsFresh
  <1>7. PassedApart'
    <2> SUFFICES ASSUME NEW t \in Tables, NEW u \in Tables, t # u, Passed(t)', Passed(u)'
                 PROVE  Clash(grid[t], u)' = {}
      BY DEF PassedApart
    <2>1. /\ grid'[t] = grid[t] /\ t \notin touched
          /\ grid'[u] = grid[u] /\ u \notin touched
      BY <1>5 DEF Passed
    <2>2. Passed(t) /\ Passed(u)
      BY <1>4, <2>1
    <2>3. Clash(grid[t], u) = {}
      BY <2>2 DEF PassedApart
    <2> QED
      BY <2>1, <2>3 DEF Clash
  <1> QED
    BY <1>6, <1>7

LEMMA ReadKeepsApart ==
    ASSUME Rows, ReadsFresh, PassedApart, NEW r \in Requests, ReadEntries(r)
    PROVE  ReadsFresh' /\ PassedApart'
  <1> USE DEF Rows
  <1> DEFINE t == work[r].table
  <1>1. t \in Tables
    BY DEF ReadEntries, Knows, Known, OnTable
  <1>2. /\ pc[r] = "entries" /\ pc'[r] = "bookings"
        /\ \A q \in Requests \ {r} : pc'[q] = pc[q] /\ work'[q] = work[q]
        /\ work'[r].read = grid[t] /\ work'[r].table = t
        /\ UNCHANGED <<status, grid>>
    BY DEF ReadEntries, GoTo, TypeOK, Work, rows
  <1>3. /\ \A u \in Tables \ {t} : u \in touched' <=> u \in touched
        /\ t \in touched /\ t \notin touched' => status[t] = "draft" /\ Submitters(t) = {}
        /\ touched' \subseteq touched
    BY DEF ReadEntries
  <1>4. /\ \A u \in Tables \ {t} : Submitters(u)' = Submitters(u)
        /\ Submitters(t)' = Submitters(t) \union {r}
    BY <1>2 DEF Submitters
  <1> HIDE DEF t
  <1>5. ReadsFresh'
    BY <1>1, <1>2, <1>3, <1>4 DEF ReadsFresh, Submitters
  <1>6. ASSUME NEW u \in Tables, Passed(u)' PROVE Passed(u)
    <2>1. \A q \in Requests : pc'[q] = "submit" => pc[q] = "submit" /\ work'[q] = work[q]
      BY <1>2
    <2>2. u \notin touched
      BY <1>2, <1>3, <1>6, <2>1 DEF Passed, Submitters, Submitted
    <2> QED
      BY <1>2, <1>6, <2>1, <2>2 DEF Passed
  <1>7. PassedApart'
    BY <1>2, <1>6 DEF PassedApart, Clash
  <1> QED
    BY <1>5, <1>7

LEMMA CheckKeepsApart ==
    ASSUME Rows, ReadsFresh, PassedApart, NEW r \in Requests, CheckBookings(r)
    PROVE  ReadsFresh' /\ PassedApart'
  <1> USE DEF Rows
  <1> DEFINE t == work[r].table
  <1>1. t \in Tables /\ pc[r] = "bookings"
    BY DEF CheckBookings, Knows, Known, OnTable
  <1>2. UNCHANGED <<status, grid, touched>>
    BY DEF CheckBookings, rows
  <1>3. CASE Done(r)
    <2>1. NoneSubmits /\ GridStep /\ RowStep
      BY <1>3, DoneType DEF CheckBookings, NoneSubmits, GridStep, RowStep
    <2> QED
      BY <2>1, EditsKeepApart
  <1>4. CASE ~DoubleBooked(t, work[r].read) /\ GoTo(r, "submit") /\ UNCHANGED work
    <2>1. /\ pc'[r] = "submit" /\ work' = work
          /\ \A q \in Requests \ {r} : pc'[q] = pc[q]
      BY <1>4 DEF GoTo, TypeOK
    <2>2. \A u \in Tables : Submitters(u)' = Submitters(u)
      BY <1>1, <2>1 DEF Submitters
    <2>3. ReadsFresh'
      BY <1>2, <2>1, <2>2 DEF ReadsFresh
    <2>4. ASSUME NEW u \in Tables, Passed(u)', ~Passed(u)
          PROVE  u = t /\ status[t] = "draft" /\ t \notin touched
      BY <1>2, <2>1, <2>4 DEF Passed
    <2>5. ASSUME status[t] = "draft", t \notin touched
          PROVE  work[r].read = grid[t]
      BY <1>1, <2>5 DEF ReadsFresh, Submitters
    <2>6. ASSUME NEW u \in Tables, u # t, Passed(u)', status[t] = "draft", t \notin touched
          PROVE  Clash(grid[t], u) = {}
      <3>1. status[u] \in Active
        BY <1>2, <2>6 DEF Passed, Active, Submitted
      <3> QED
        BY <1>4, <2>5, <2>6, <3>1 DEF DoubleBooked
    <2>7. ASSUME NEW u \in Tables, NEW v \in Tables, u # v, Passed(u)', Passed(v)'
          PROVE  Clash(grid[u], v) = {}
      BY <1>1, <2>4, <2>6, <2>7, ClashSymmetric DEF PassedApart
    <2> QED
      BY <1>2, <2>3, <2>7 DEF PassedApart, Clash
  <1> QED
    BY <1>3, <1>4 DEF CheckBookings

-----------------------------------------------------------------------------
LEMMA InitIInv == Init => IInv
  <1> SUFFICES ASSUME Init PROVE IInv
    OBVIOUS
  <1>1. TypeOK
    BY InitTypeOK
  <1> QED
    BY <1>1, TimetableAssumption DEF Init, IInv, Rows, Knows, Known, OnTable, ClassKnown,
       OnePublished, VersionsDistinct, RevisionsUnderWay, RevisionFollowsParent, ReadsFresh,
       PassedApart, Passed, Submitters, Submitted, Exists, NoWork

LEMMA NextIInv == IInv /\ [Next]_vars => IInv'
  <1> SUFFICES ASSUME IInv, [Next]_vars PROVE IInv'
    OBVIOUS
  <1>1. Rows' /\ RevisionsUnderWay' /\ RevisionFollowsParent'
    BY NextRows, NextRevisions DEF IInv
  <1>2. RowStep
    BY RowEffects DEF IInv, Rows
  <1>3. ReadsFresh' /\ PassedApart'
    BY <1>2, Effects, EditsKeepApart, ReadKeepsApart, CheckKeepsApart DEF IInv, Rows
  <1> QED
    BY <1>1, <1>3 DEF IInv

(* The inductive invariant holds in every reachable state. *)
THEOREM Inductive == Spec => []IInv
  BY InitIInv, NextIInv, PTL DEF Spec

(* TypeOK: every variable of the timetable module keeps its type.          *)
THEOREM TypeCorrect == Spec => []TypeOK
  <1>1. IInv => TypeOK
    BY DEF IInv, Rows
  <1> QED
    BY <1>1, Inductive, PTL

(* OnePublished: however publications overlap, a class has at most one     *)
(* published timetable.                                                    *)
THEOREM AtMostOnePublished == Spec => []OnePublished
  <1>1. IInv => OnePublished
    BY DEF IInv, Rows
  <1> QED
    BY <1>1, Inductive, PTL

(* VersionsDistinct: however creations overlap, the versions of a class    *)
(* stay apart.                                                             *)
THEOREM VersionsApart == Spec => []VersionsDistinct
  <1>1. IInv => VersionsDistinct
    BY DEF IInv, Rows
  <1> QED
    BY <1>1, Inductive, PTL

(* RevisionFollowsParent: a revision is chained to an older timetable of   *)
(* its class that was published.                                           *)
THEOREM RevisionsChained == Spec => []RevisionFollowsParent
  <1>1. IInv => RevisionFollowsParent
    BY DEF IInv
  <1> QED
    BY <1>1, Inductive, PTL

(* NoDoubleBooking: two timetables that were submitted and not edited once *)
(* their submission had begun never book the same resource.                *)
THEOREM BookingsApart == Spec => []NoDoubleBooking
  <1>1. IInv => NoDoubleBooking
    BY DEF IInv, PassedApart, Passed, NoDoubleBooking
  <1> QED
    BY <1>1, Inductive, PTL

(* StatusOrder: every change of a status is one of the moves of a          *)
(* timetable's life.                                                       *)
THEOREM StatusesInOrder == Spec => StatusOrder
  <1>1. IInv /\ [Next]_vars =>
           [\A t \in Tables : status'[t] # status[t] => <<status[t], status'[t]>> \in Moves]_vars
    BY RowEffects, RowsMove DEF IInv, Rows
  <1> QED
    BY <1>1, Inductive, PTL DEF Spec, StatusOrder

(* VersionsConsistent: the versions of a class are told apart, one of them *)
(* is published, and each revision follows a published one.                *)
THEOREM VersionsStayConsistent == Spec => []VersionsConsistent
  BY TypeCorrect, AtMostOnePublished, VersionsApart, RevisionsChained, PTL DEF VersionsConsistent

=============================================================================
