------------------------------ MODULE Timetable ------------------------------
(***************************************************************************)
(* The timetables of one academic year (modules/timetable): drafts are     *)
(* created, copied, revised or generated, edited cell by cell, validated   *)
(* and submitted, reviewed, published and archived.  Nothing here runs in  *)
(* a transaction: a request is a sequence of statements that commit one by *)
(* one, and any number of requests interleave between them.  What keeps    *)
(* the table in order are the WHERE clauses of the status updates and two  *)
(* unique indexes.                                                         *)
(*                                                                         *)
(* A slot is a day and a period; a resource is a teacher or a room, of     *)
(* which a cell holds one.  Option block periods are left out.             *)
(***************************************************************************)
EXTENDS Integers, FiniteSets

CONSTANTS
    Tables,      \* identities of timetables rows (a bound)
    Classes,     \* the classes of the year
    Slots,       \* (day_of_week, period_number) pairs
    Resources,   \* teachers and classrooms that a cell can book
    Requests,    \* requests in progress at once (a bound)
    MaxVersion,  \* a bound on versions
    None

ASSUME TimetableAssumption ==
    /\ MaxVersion \in Nat
    /\ None \notin Tables \union Classes \union Resources

VARIABLES
    status,   \* timetables.status, "absent" while there is no such row
    class,    \* timetables.class_id
    version,  \* timetables.version
    parent,   \* timetables.parent_timetable_id
    grid,     \* timetable_entries: what each slot of a timetable books
    pc,       \* where each request stands
    work,     \* the local variables of each request
    touched   \* history: timetables edited after their last Submit read them

rows == <<status, class, version, parent>>
vars == <<status, class, version, parent, grid, pc, work, touched>>

Statuses == {"draft", "under_review", "approved", "rejected", "published", "archived"}

(* The statuses whose entries count as bookings.                           *)
Active == {"draft", "under_review", "approved", "published"}
Submitted == {"under_review", "approved", "published"}

Steps == {"idle", "entries", "bookings", "submit", "approve", "reject",
          "archive_published", "publish", "upsert", "clear", "max",
          "insert", "copy", "scan", "drop", "plan", "next"}

Grid == [Slots -> Resources \union {None}]
EmptyGrid == [s \in Slots |-> None]

NoWork == [table |-> None, class |-> None, source |-> None, parent |-> None,
           version |-> 0, read |-> EmptyGrid, slot |-> {},
           plan |-> {}, scan |-> {}, found |-> {}, jobs |-> {}]

Work == [table : Tables \union {None}, class : Classes \union {None},
         source : Tables \union {None}, parent : Tables \union {None},
         version : 0..MaxVersion, read : Grid, slot : SUBSET Slots, plan : SUBSET (Slots \X Resources),
         scan : SUBSET Classes, found : SUBSET Classes,
         jobs : SUBSET (Classes \X Slots \X Resources)]

TypeOK ==
    /\ status \in [Tables -> Statuses \union {"absent"}]
    /\ class \in [Tables -> Classes \union {None}]
    /\ version \in [Tables -> 0..MaxVersion]
    /\ parent \in [Tables -> Tables \union {None}]
    /\ grid \in [Tables -> Grid]
    /\ pc \in [Requests -> Steps]
    /\ work \in [Requests -> Work]
    /\ touched \subseteq Tables

Init ==
    /\ status = [t \in Tables |-> "absent"]
    /\ class = [t \in Tables |-> None]
    /\ version = [t \in Tables |-> 0]
    /\ parent = [t \in Tables |-> None]
    /\ grid = [t \in Tables |-> EmptyGrid]
    /\ pc = [r \in Requests |-> "idle"]
    /\ work = [r \in Requests |-> NoWork]
    /\ touched = {}

-----------------------------------------------------------------------------
(* Helpers *)

Exists(t) == status[t] # "absent"
OfClass(c) == {t \in Tables : Exists(t) /\ class[t] = c}

(* A number that is larger than the version of every timetable of c by one *)
(* (COALESCE(MAX(version), 0) + 1).                                        *)
IsNextVersion(c, v) ==
    /\ \A t \in OfClass(c) : version[t] < v
    /\ v = 1 \/ \E t \in OfClass(c) : version[t] = v - 1

(* The booked cells that the entries of g share with timetable u.          *)
Clash(g, u) == {s \in Slots : g[s] # None /\ grid[u][s] = g[s]}

(* Mutant of DoubleBooked: drafts do not count. *)
DoubleBookedSubmitted(t, g) ==
    \E u \in Tables \ {t} : status[u] \in Submitted /\ Clash(g, u) # {}

(* crossBookings, against every other timetable of the year.               *)
DoubleBooked(t, g) ==
    \E u \in Tables \ {t} : status[u] \in Active /\ Clash(g, u) # {}

GoTo(r, step) == pc' = [pc EXCEPT ![r] = step]

Done(r) ==
    /\ pc' = [pc EXCEPT ![r] = "idle"]
    /\ work' = [work EXCEPT ![r] = NoWork]

(* A UUID that was never given away. *)
Fresh(t) ==
    /\ ~Exists(t)
    /\ \A q \in Requests : t \notin {work[q].table, work[q].source, work[q].parent}

(* The requests that have read t's entries to submit it. *)
Submitters(t) ==
    {q \in Requests : pc[q] \in {"bookings", "submit"} /\ work[q].table = t}

(* An edit of timetable t, noted when a submission has read t's entries or *)
(* gone through.                                                           *)
Touch(t) ==
    touched' = IF status[t] # "draft" \/ Submitters(t) # {}
               THEN touched \union {t} ELSE touched

(* The row is gone, and by ON DELETE CASCADE what hangs on it.             *)
Delete(t) ==
    /\ status' = [status EXCEPT ![t] = "absent"]
    /\ class' = [class EXCEPT ![t] = None]
    /\ version' = [version EXCEPT ![t] = 0]
    /\ parent' = [u \in Tables |-> IF u = t \/ parent[u] = t THEN None ELSE parent[u]]
    /\ grid' = [grid EXCEPT ![t] = EmptyGrid]
    /\ touched' = touched \ {t}

-----------------------------------------------------------------------------
(* Submit, Approve, Reject, Publish: the timetable is read and must be in  *)
(* the status the operation needs; a review also needs a reviewer of the   *)
(* grade.  The status is changed by a later, conditional UPDATE.           *)

Begin(r, t, from, step) ==
    /\ pc[r] = "idle"
    /\ status[t] = from
    /\ GoTo(r, step)
    /\ work' = [work EXCEPT ![r].table = t]
    /\ UNCHANGED <<rows, grid, touched>>

(* validate reads the entries of the timetable, ... An earlier edit of a   *)
(* draft no longer counts, unless an older submission is under way.        *)
ReadEntries(r) ==
    LET t == work[r].table IN
    /\ pc[r] = "entries"
    /\ GoTo(r, "bookings")
    /\ work' = [work EXCEPT ![r].read = grid[t]]
    /\ touched' = IF status[t] = "draft" /\ Submitters(t) = {} THEN touched \ {t}
                                                            ELSE touched
    /\ UNCHANGED <<rows, grid>>

(* ... then the bookings of the others.  A clash ends the request; so does *)
(* any other issue (an absence, a wrong teacher, missing periods, no       *)
(* reviewer), which is Fail.                                               *)
CheckBookings(r) ==
    /\ pc[r] = "bookings"
    /\ IF DoubleBooked(work[r].table, work[r].read)
       THEN Done(r)
       ELSE GoTo(r, "submit") /\ UNCHANGED work
    /\ UNCHANGED <<rows, grid, touched>>

(* Mutant of Move: UPDATE timetables SET status = to WHERE id = ... *)
MoveAnyway(r, from, to) ==
    /\ status' = [status EXCEPT ![work[r].table] = to]
    /\ Done(r)

(* UPDATE timetables SET status = to WHERE id = ... AND status = from; a   *)
(* row that does not match is left as it is, and the request ends.         *)
Move(r, from, to) ==
    LET t == work[r].table IN
    /\ status' = IF status[t] = from THEN [status EXCEPT ![t] = to] ELSE status
    /\ Done(r)

Submit(r) ==
    /\ pc[r] = "submit"
    /\ Move(r, "draft", "under_review")
    /\ UNCHANGED <<class, version, parent, grid, touched>>

Approve(r) ==
    /\ pc[r] = "approve"
    /\ Move(r, "under_review", "approved")
    /\ UNCHANGED <<class, version, parent, grid, touched>>

(* Mutant of Reject: a status the table does not know. *)
RejectAsReturned(r) ==
    /\ pc[r] = "reject"
    /\ Move(r, "under_review", "returned")
    /\ UNCHANGED <<class, version, parent, grid, touched>>

Reject(r) ==
    /\ pc[r] = "reject"
    /\ Move(r, "under_review", "rejected")
    /\ UNCHANGED <<class, version, parent, grid, touched>>

(* ArchivePublishedForClass. *)
ArchivePublished(r) ==
    /\ pc[r] = "archive_published"
    /\ status' = [t \in Tables |->
          IF status[t] = "published" /\ class[t] = work[r].class THEN "archived"
                                                                  ELSE status[t]]
    /\ GoTo(r, "publish")
    /\ UNCHANGED <<class, version, parent, grid, work, touched>>

(* Mutant of PublishConflict: the table has no such index. *)
NoPublishedIndex(t) == FALSE

(* idx_timetables_published_unique *)
PublishConflict(t) ==
    \E u \in OfClass(class[t]) : u # t /\ status[u] = "published"

Publish(r) ==
    LET t == work[r].table IN
    /\ pc[r] = "publish"
    /\ IF status[t] = "approved" /\ PublishConflict(t)
       THEN UNCHANGED status /\ Done(r)
       ELSE Move(r, "approved", "published")
    /\ UNCHANGED <<class, version, parent, grid, touched>>

(* Publish remembers the class it read with the timetable. *)
BeginPublish(r, t) ==
    /\ pc[r] = "idle"
    /\ status[t] = "approved"
    /\ GoTo(r, "archive_published")
    /\ work' = [work EXCEPT ![r].table = t, ![r].class = class[t]]
    /\ UNCHANGED <<rows, grid, touched>>

(* ArchiveTimetable and DeleteDraftTimetable are one statement each. *)
Archive(t) ==
    /\ Exists(t)
    /\ status' = [status EXCEPT ![t] = "archived"]
    /\ UNCHANGED <<class, version, parent, grid, pc, work, touched>>

DeleteDraft(t) ==
    /\ status[t] = "draft"
    /\ Delete(t)
    /\ UNCHANGED <<pc, work>>

-----------------------------------------------------------------------------
(* Entries: the status is read once, then the cells are written one by one *)

BeginSave(r, t, P) ==
    /\ pc[r] = "idle"
    /\ status[t] = "draft"
    /\ P # {}
    /\ GoTo(r, "upsert")
    /\ work' = [work EXCEPT ![r].table = t, ![r].plan = P]
    /\ UNCHANGED <<rows, grid, touched>>

(* UpsertTimetableEntry; a foreign key refuses the entry of a timetable    *)
(* that was deleted.                                                       *)
Upsert(r, s, x) ==
    LET t == work[r].table
        rest == work[r].plan \ {<<s, x>>} IN
    /\ pc[r] = "upsert"
    /\ <<s, x>> \in work[r].plan
    /\ IF Exists(t)
       THEN /\ grid' = [grid EXCEPT ![t][s] = x]
            /\ Touch(t)
            /\ IF rest # {}
               THEN UNCHANGED pc /\ work' = [work EXCEPT ![r].plan = rest]
               ELSE IF work[r].jobs # {}
               THEN GoTo(r, "next") /\ work' = [work EXCEPT ![r].plan = {}]
               ELSE Done(r)
       ELSE Done(r) /\ UNCHANGED <<grid, touched>>
    /\ UNCHANGED rows

BeginClear(r, t, s) ==
    /\ pc[r] = "idle"
    /\ status[t] = "draft"
    /\ GoTo(r, "clear")
    /\ work' = [work EXCEPT ![r].table = t, ![r].slot = {s}]
    /\ UNCHANGED <<rows, grid, touched>>

ClearEntry(r) ==
    LET t == work[r].table IN
    /\ pc[r] = "clear"
    /\ grid' = [grid EXCEPT ![t] = [s \in Slots |-> IF s \in work[r].slot THEN None ELSE @[s]]]
    /\ Touch(t)
    /\ Done(r)
    /\ UNCHANGED rows

-----------------------------------------------------------------------------
(* Create, Copy, Revise: a draft with the next version, then the entries   *)
(* of its source.                                                          *)

BeginCreate(r, c, source) ==
    /\ pc[r] = "idle"
    /\ source \in Tables => Exists(source)
    /\ GoTo(r, "max")
    /\ work' = [work EXCEPT ![r].class = c, ![r].source = source]
    /\ UNCHANGED <<rows, grid, touched>>

(* Mutant of BeginRevise: any timetable can be revised. *)
BeginReviseAny(r, t) ==
    /\ pc[r] = "idle"
    /\ Exists(t)
    /\ GoTo(r, "max")
    /\ work' = [work EXCEPT ![r].class = class[t], ![r].source = t, ![r].parent = t]
    /\ UNCHANGED <<rows, grid, touched>>

BeginRevise(r, t) ==
    /\ pc[r] = "idle"
    /\ status[t] = "published"
    /\ GoTo(r, "max")
    /\ work' = [work EXCEPT ![r].class = class[t], ![r].source = t, ![r].parent = t]
    /\ UNCHANGED <<rows, grid, touched>>

ReadMax(r, v) ==
    /\ pc[r] = "max"
    /\ v <= MaxVersion
    /\ IsNextVersion(work[r].class, v)
    /\ GoTo(r, "insert")
    /\ work' = [work EXCEPT ![r].version = v]
    /\ UNCHANGED <<rows, grid, touched>>

(* Mutant of VersionTaken: the table has no such constraint. *)
NoVersionKey(r) == FALSE

(* UNIQUE (class_id, academic_year_id, version) *)
VersionTaken(r) ==
    \E t \in OfClass(work[r].class) : version[t] = work[r].version

InsertDraft(r, t) ==
    /\ pc[r] = "insert"
    /\ ~VersionTaken(r)
    /\ Fresh(t)
    /\ status' = [status EXCEPT ![t] = "draft"]
    /\ class' = [class EXCEPT ![t] = work[r].class]
    /\ version' = [version EXCEPT ![t] = work[r].version]
    /\ parent' = [parent EXCEPT ![t] = work[r].parent]
    /\ IF work[r].source # None
       THEN GoTo(r, "copy") /\ work' = [work EXCEPT ![r].table = t]
       ELSE IF work[r].plan # {}
       THEN GoTo(r, "upsert") /\ work' = [work EXCEPT ![r].table = t]
       ELSE Done(r)
    /\ UNCHANGED <<grid, touched>>

InsertRefused(r) ==
    /\ pc[r] = "insert"
    /\ VersionTaken(r)
    /\ Done(r)
    /\ UNCHANGED <<rows, grid, touched>>

(* CopyTimetableEntries, one INSERT: it fails as a whole when the draft    *)
(* has got an entry in one of the slots, or is gone.                       *)
CopyEntries(r) ==
    LET t == work[r].table
        g == grid[work[r].source]
        booked == {s \in Slots : g[s] # None} IN
    /\ pc[r] = "copy"
    /\ IF Exists(t) /\ booked # {} /\ \A s \in booked : grid[t][s] = None
       THEN /\ grid' = [grid EXCEPT ![t] = [s \in Slots |-> IF s \in booked THEN g[s] ELSE @[s]]]
            /\ Touch(t)
       ELSE UNCHANGED <<grid, touched>>
    /\ Done(r)
    /\ UNCHANGED rows

-----------------------------------------------------------------------------
(* Generate, for the classes C of a grade section.                         *)

BeginGenerate(r, C) ==
    /\ pc[r] = "idle"
    /\ C # {}
    /\ GoTo(r, "scan")
    /\ work' = [work EXCEPT ![r].scan = C]
    /\ UNCHANGED <<rows, grid, touched>>

(* The latest timetable of a class decides: a draft is cleared, anything   *)
(* else skips the class.                                                   *)
ScanClass(r, c) ==
    LET Latest == {t \in OfClass(c) : \A u \in OfClass(c) : version[u] <= version[t]} IN
    /\ pc[r] = "scan"
    /\ c \in work[r].scan
    /\ \/ /\ Latest = {}
          /\ work' = [work EXCEPT ![r].scan = @ \ {c}, ![r].found = @ \union {c}]
          /\ UNCHANGED pc
       \/ /\ \E t \in Latest : status[t] # "draft"
          /\ work' = [work EXCEPT ![r].scan = @ \ {c}]
          /\ UNCHANGED pc
       \/ \E t \in Latest :
             /\ status[t] = "draft"
             /\ work' = [work EXCEPT ![r].scan = @ \ {c}, ![r].found = @ \union {c},
                                     ![r].table = t]
             /\ GoTo(r, "drop")
    /\ UNCHANGED <<rows, grid, touched>>

(* deleteDraft: nothing happens to a timetable that is no draft any more.  *)
DropDraft(r) ==
    LET t == work[r].table IN
    /\ pc[r] = "drop"
    /\ IF status[t] = "draft" THEN Delete(t) ELSE UNCHANGED <<rows, grid, touched>>
    /\ GoTo(r, "scan")
    /\ work' = [work EXCEPT ![r].table = None]

(* Every class is scanned; without one to generate the request is over.    *)
EndScan(r) ==
    /\ pc[r] = "scan"
    /\ work[r].scan = {}
    /\ IF work[r].found = {} THEN Done(r) ELSE GoTo(r, "plan") /\ UNCHANGED work
    /\ UNCHANGED <<rows, grid, touched>>

(* allBookings and the placement: J books resources that are free in the   *)
(* year, none of them twice, one for a slot of a class; what does not fit  *)
(* is a gap.  With nothing placed (no period grid, say) nothing is made.   *)
PlanGrids(r, J) ==
    /\ pc[r] = "plan"
    /\ J \subseteq work[r].found \X Slots \X Resources
    /\ \A j, k \in J : j # k => ~(j[2] = k[2] /\ (j[1] = k[1] \/ j[3] = k[3]))
    /\ \A j \in J, u \in Tables : status[u] \in Active => grid[u][j[2]] # j[3]
    /\ IF J = {}
       THEN Done(r)
       ELSE GoTo(r, "next") /\ work' = [work EXCEPT ![r].jobs = J, ![r].found = {}]
    /\ UNCHANGED <<rows, grid, touched>>

(* The draft of the next class, with the entries planned for it.           *)
NextClass(r, c) ==
    LET J == {j \in work[r].jobs : j[1] = c} IN
    /\ pc[r] = "next"
    /\ J # {}
    /\ GoTo(r, "max")
    /\ work' = [work EXCEPT ![r].class = c, ![r].jobs = @ \ J, ![r].table = None,
                            ![r].plan = {<<j[2], j[3]>> : j \in J}]
    /\ UNCHANGED <<rows, grid, touched>>

-----------------------------------------------------------------------------
(* A statement fails, a check refuses, the client goes away or the server  *)
(* stops: the request ends where it is, what it did before stays.          *)
Fail(r) ==
    /\ pc[r] # "idle"
    /\ Done(r)
    /\ UNCHANGED <<rows, grid, touched>>

Review(r) ==
    \/ \E t \in Tables : Begin(r, t, "draft", "entries")
    \/ ReadEntries(r)
    \/ CheckBookings(r)
    \/ Submit(r)
    \/ \E t \in Tables : Begin(r, t, "under_review", "approve")
    \/ Approve(r)
    \/ \E t \in Tables : Begin(r, t, "under_review", "reject")
    \/ Reject(r)
    \/ \E t \in Tables : BeginPublish(r, t)
    \/ ArchivePublished(r)
    \/ Publish(r)

Edit(r) ==
    \/ \E t \in Tables, P \in SUBSET (Slots \X Resources) : BeginSave(r, t, P)
    \/ \E s \in Slots, x \in Resources : Upsert(r, s, x)
    \/ \E t \in Tables, s \in Slots : BeginClear(r, t, s)
    \/ ClearEntry(r)

Create(r) ==
    \/ \E c \in Classes, source \in Tables \union {None} : BeginCreate(r, c, source)
    \/ \E t \in Tables : BeginRevise(r, t)
    \/ \E v \in 1..MaxVersion : ReadMax(r, v)
    \/ \E t \in Tables : InsertDraft(r, t)
    \/ InsertRefused(r)
    \/ CopyEntries(r)

Generate(r) ==
    \/ \E C \in SUBSET Classes : BeginGenerate(r, C)
    \/ \E c \in Classes : ScanClass(r, c) \/ NextClass(r, c)
    \/ DropDraft(r)
    \/ EndScan(r)
    \/ \E J \in SUBSET (Classes \X Slots \X Resources) : PlanGrids(r, J)

Next ==
    \/ \E r \in Requests : Review(r) \/ Edit(r) \/ Create(r) \/ Generate(r) \/ Fail(r)
    \/ \E t \in Tables : Archive(t) \/ DeleteDraft(t)

Spec == Init /\ [][Next]_vars
-----------------------------------------------------------------------------
(* Properties *)

(* "Only one version per class per year may be published at a time"        *)
(* (migration 000021), whichever publications overlap.                     *)
OnePublished ==
    \A t, u \in Tables :
        status[t] = "published" /\ status[u] = "published" /\ class[t] = class[u] => t = u

(* The versions of a class's timetables stay apart although each request   *)
(* reads the maximum before it inserts.                                    *)
VersionsDistinct ==
    \A t, u \in Tables :
        Exists(t) /\ Exists(u) /\ class[t] = class[u] /\ version[t] = version[u] => t = u

(* A revision is chained to an older timetable of its own class that was   *)
(* published, whatever became of it between the read and the insert.       *)
RevisionFollowsParent ==
    \A t \in Tables : parent[t] # None =>
        /\ class[parent[t]] = class[t]
        /\ version[parent[t]] < version[t]
        /\ status[parent[t]] \in {"published", "archived"}

(* Validate keeps double bookings out of what is under review or beyond:   *)
(* two timetables that were not edited once their submission had begun     *)
(* never book the same resource, although each was checked while the other *)
(* could still change.                                                     *)
NoDoubleBooking ==
    \A t, u \in Tables \ touched :
        t # u /\ status[t] \in Submitted /\ status[u] \in Submitted => Clash(grid[t], u) = {}

(* A timetable takes the steps of its life in their order and none twice,  *)
(* although every request acts on a status it read before.                 *)
Moves == {<<"absent", "draft">>, <<"draft", "absent">>, <<"draft", "under_review">>,
          <<"under_review", "approved">>, <<"under_review", "rejected">>,
          <<"approved", "published">>}
           \union {<<s, "archived">> : s \in Statuses}

StatusOrder ==
    [][\A t \in Tables : status'[t] # status[t] => <<status[t], status'[t]>> \in Moves]_vars

(* The versions of a class are told apart, one of them is published, and a  *)
(* revision follows an older one that was published.                        *)
VersionsConsistent ==
    /\ TypeOK
    /\ OnePublished
    /\ VersionsDistinct
    /\ RevisionFollowsParent

=============================================================================
