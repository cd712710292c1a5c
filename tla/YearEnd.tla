------------------------------ MODULE YearEnd ------------------------------
(***************************************************************************)
(* The students on their way into the next academic year: the workflows    *)
(* rollover, leavers, intake, student import and promotion (workflows/),   *)
(* their reverts, and the pages that change the same rows by hand          *)
(* (academics/classes.go, academics/promotion.go, people/students.go).     *)
(*                                                                         *)
(* There is the current year, of which only matters who has a class in it, *)
(* and the next one.  How the engine keeps its runs apart is the subject   *)
(* of WorkflowEngine: here a run is proposed, edited and applied or        *)
(* discarded, and a revert holds its run from the check whether later work *)
(* depends on it to the deletions.  The two read and write the tables one  *)
(* after the other, with other requests between.  An apply is one step.    *)
(* Rows are never given an old id again, index numbers may return.         *)
(***************************************************************************)
EXTENDS Naturals, FiniteSets

CONSTANTS
    Students,       \* ids of student_profiles rows (a bound)
    Enrolled,       \* those that have a class at first
    Number,         \* the index number of each
    Classes,        \* ids of classes rows of the next year (a bound)
    WorkflowRuns,   \* workflow_runs (a bound)
    AtFirst,        \* classes of the next year, if it exists at first
    MaxEdits,       \* changes by hand (a bound)
    Nowhere         \* no class, no run

ASSUME EnrolledAssumption ==
    /\ Enrolled \subseteq Students
    /\ \A s, t \in Enrolled : Number[s] = Number[t] => s = t
ASSUME NowhereAssumption == Nowhere \notin Classes \union WorkflowRuns
ASSUME EditsAssumption == MaxEdits \in Nat /\ AtFirst \in Nat

VARIABLES
    year,       \* academic_years, the next one: "unused", "open", "deleted"
    class,      \* classes of that year, likewise
    status,     \* student_profiles: "unused", "active", "left", "deleted"
    home,       \* class_students of the current year: who has a class
    seat,       \* class_students of the next year: the class of each student
    waiting,    \* student_intakes: who is to be placed next year
    account,    \* who has a login
    recorded,   \* who has attendance records, subject choices or marks of this year
    marked,     \* who has marks in the next year
    register,   \* classes with attendance sessions
    run,        \* the runs: kind, state, proposal, snapshot; gave is history
    closing,    \* classes that a deletion has counted and found empty
    handEdits,  \* changes by hand so far
    late,       \* history: students whose data was added while a check was pending
    handled,    \* history: students who lost a seat given by hand or by a later run
    did         \* history: the rows each applied run changed, before it and after it

tables == <<year, class, status, home, seat, waiting>>
laterWork == <<account, recorded, marked, register>>
yearEndVars == <<year, class, status, home, seat, waiting, account, recorded, marked, register,
                 run, closing, handEdits, late, handled, did>>

Kinds == {"rollover", "leavers", "intake", "import", "promotion"}
NoRun == [kind |-> Nowhere, state |-> "unused", listed |-> {}, ids |-> {}, previous |-> <<>>,
          assigned |-> {}, created |-> {}, intakes |-> {}, gave |-> <<>>]

Present == {s \in Students : status[s] \in {"active", "left"}}
Active == {s \in Students : status[s] = "active"}
Open == {c \in Classes : class[c] = "open"}
Seated(c) == {s \in Students : seat[s] = c}

(* The foreign keys hold, and nothing is left of a year that is gone. *)
YearEndTypeOK ==
    /\ year \in {"unused", "open", "deleted"}
    /\ class \in [Classes -> {"unused", "open", "deleted"}]
    /\ status \in [Students -> {"unused", "active", "left", "deleted"}]
    /\ seat \in [Students -> Open \union {Nowhere}]
    /\ {s \in Students : seat[s] # Nowhere} \subseteq Present
    /\ home \union waiting \union account \union recorded \union marked \subseteq Present
    /\ register \subseteq Open
    /\ year # "open" => Open = {} /\ waiting = {}
    /\ \A s, t \in Present : Number[s] = Number[t] => s = t
    /\ \A r \in WorkflowRuns :
          /\ run[r].kind \in Kinds \union {Nowhere}
          /\ run[r].state \in
                {"unused", "proposed", "discarded", "applied", "reverting", "reverted"}
          /\ run[r].ids \union run[r].listed \union run[r].intakes \subseteq Students
          /\ run[r].assigned \union run[r].created \subseteq Classes
    /\ closing \subseteq Classes
    /\ handEdits \in 0..MaxEdits
    /\ late \union handled \subseteq Students

(* The next year and its first classes may have been made by hand. *)
YearEndInit ==
    /\ year \in {"unused", "open"}
    /\ class \in [Classes -> {"unused", "open"}]
    /\ IF year = "open" THEN Cardinality(Open) = AtFirst ELSE Open = {}
    /\ status = [s \in Students |-> IF s \in Enrolled THEN "active" ELSE "unused"]
    /\ home = Enrolled
    /\ seat = [s \in Students |-> Nowhere]
    /\ waiting = {} /\ account = {} /\ recorded = {} /\ marked = {} /\ register = {}
    /\ run = [r \in WorkflowRuns |-> NoRun]
    /\ closing = {} /\ handEdits = 0
    /\ late = {} /\ handled = {}
    /\ did = [r \in WorkflowRuns |-> <<>>]

-----------------------------------------------------------------------------
(* Helpers. *)

(* Between a check and the statement that relies on it. *)
Pending == closing # {} \/ \E r \in WorkflowRuns : run[r].state = "reverting"
Added(new) == late' = IF Pending THEN late \union new ELSE late

(* What the tables have of a student. *)
Row(s) == [status |-> status[s], seat |-> seat[s],
           home |-> home \intersect {s}, waiting |-> waiting \intersect {s}]

Did(r, changed) ==
    did' = [did EXCEPT ![r] = [s \in changed |-> [was |-> Row(s), made |-> Row(s)']]]
Forget(r) == did' = [did EXCEPT ![r] = <<>>]

(* Deleting students takes all their rows along. *)
DropStudents(gone) ==
    /\ status' = [s \in Students |-> IF s \in gone THEN "deleted" ELSE status[s]]
    /\ home' = home \ gone
    /\ seat' = [s \in Students |-> IF s \in gone THEN Nowhere ELSE seat[s]]
    /\ waiting' = waiting \ gone
    /\ account' = account \ gone
    /\ recorded' = recorded \ gone
    /\ marked' = marked \ gone

(* Deleting classes takes the seats and sessions along. *)
DropClasses(gone, seats) ==
    /\ class' = [c \in Classes |-> IF c \in gone THEN "deleted" ELSE class[c]]
    /\ seat' = [s \in Students |-> IF seats[s] \in gone THEN Nowhere ELSE seats[s]]
    /\ register' = register \ gone

Edit ==
    /\ handEdits < MaxEdits
    /\ handEdits' = handEdits + 1
    /\ did' = did

-----------------------------------------------------------------------------
(* Changes by hand. *)

(* ON CONFLICT DO NOTHING: a student has one class a year. *)
Enroll(s, c) ==
    /\ Edit
    /\ s \in Present /\ c \in Open /\ seat[s] = Nowhere
    /\ seat' = [seat EXCEPT ![s] = c]
    /\ Added({s})
    /\ UNCHANGED <<year, class, status, home, waiting, laterWork, run, closing, handled>>

Unenroll(s) ==
    /\ Edit
    /\ seat[s] # Nowhere
    /\ seat' = [seat EXCEPT ![s] = Nowhere]
    /\ handled' = handled \union {s}
    /\ UNCHANGED <<year, class, status, home, waiting, laterWork, run, closing, late>>

(* The page for one-off moves does not look at student_intakes. *)
CommitAssignment(s, c) ==
    /\ Edit
    /\ s \in Present /\ c \in Open /\ seat[s] # c
    /\ seat' = [seat EXCEPT ![s] = c]
    /\ Added({s})
    /\ UNCHANGED <<year, class, status, home, waiting, laterWork, run, closing, handled>>

UpdateStatus(s) ==
    /\ Edit
    /\ s \in Present
    /\ status' = [status EXCEPT ![s] = IF @ = "active" THEN "left" ELSE "active"]
    /\ UNCHANGED <<year, class, home, seat, waiting, laterWork, run, closing, late, handled>>

DeleteStudent(s) ==
    /\ Edit
    /\ s \in Present
    /\ DropStudents({s})
    /\ UNCHANGED <<year, class, register, run, closing, late, handled>>

CreateClass(c) ==
    /\ Edit
    /\ year = "open" /\ class[c] = "unused"
    /\ class' = [class EXCEPT ![c] = "open"]
    /\ UNCHANGED <<year, status, home, seat, waiting, laterWork, run, closing, late, handled>>

CountClass(c) ==
    /\ handEdits < MaxEdits
    /\ c \in Open \ closing /\ Seated(c) = {}
    /\ closing' = closing \union {c}
    /\ UNCHANGED <<tables, laterWork, run, handEdits, late, handled, did>>

DeleteClass(c) ==
    /\ Edit
    /\ c \in closing
    /\ closing' = closing \ {c}
    /\ DropClasses({c} \intersect Open, seat)
    /\ handled' = handled \union Seated(c)
    /\ UNCHANGED <<year, status, home, waiting, account, recorded, marked, run, late>>

(* An account from the intake's AfterApply, an activation or an admin. *)
GiveAccount(s) ==
    /\ Edit
    /\ s \in Present \ account
    /\ account' = account \union {s}
    /\ Added({s})
    /\ UNCHANGED <<tables, recorded, marked, register, run, closing, handled>>

EnterMarks(s) ==
    /\ Edit
    /\ seat[s] # Nowhere /\ s \notin marked
    /\ marked' = marked \union {s}
    /\ Added({s})
    /\ UNCHANGED <<tables, account, recorded, register, run, closing, handled>>

TakeAttendance(c) ==
    /\ Edit
    /\ c \in Open /\ Seated(c) # {}
    /\ register' = register \union {c}
    /\ recorded' = recorded \union Seated(c)
    /\ Added(Seated(c))
    /\ UNCHANGED <<tables, account, marked, run, closing, handled>>

(* Attendance, marks of the current year, or choices for the next. *)
KeepRecord(s) ==
    /\ Edit
    /\ s \in Present \ recorded
    /\ recorded' = recorded \union {s}
    /\ Added({s})
    /\ UNCHANGED <<tables, account, marked, register, run, closing, handled>>

ByHand ==
    \/ \E s \in Students, c \in Classes : Enroll(s, c) \/ CommitAssignment(s, c)
    \/ \E s \in Students :
          Unenroll(s) \/ UpdateStatus(s) \/ DeleteStudent(s) \/ GiveAccount(s) \/ EnterMarks(s)
          \/ KeepRecord(s)
    \/ \E c \in Classes :
          CreateClass(c) \/ CountClass(c) \/ DeleteClass(c) \/ TakeAttendance(c)

-----------------------------------------------------------------------------
(* Proposals.  A proposal supersedes the open one of its scope. *)

(* The rows of a CSV that the proposal finds no fault with. *)
NewRows(rows) ==
    /\ rows # {}
    /\ \A s \in rows : status[s] = "unused" /\ \A t \in Present : Number[t] # Number[s]
    /\ \A s, t \in rows : Number[s] = Number[t] => s = t

(* The list of leavers has all grades, any of them may be ticked; that of a *)
(* promotion has the grades that move up (not the last one, nor one that    *)
(* graduates) and all who wait.                                             *)
Lists(kind, rows) ==
    \/ kind = "rollover" /\ year = "unused" /\ rows = {}
    \/ kind = "leavers" /\ rows = Active \intersect home /\ rows # {}
    \/ kind = "intake" /\ year = "open" /\ NewRows(rows)
    \/ kind = "import" /\ NewRows(rows)
    \/ /\ kind = "promotion" /\ Open # {}
       /\ Active \intersect waiting \subseteq rows
       /\ rows \subseteq Active \intersect (home \union waiting) /\ rows # {}

Propose(r, kind) ==
    /\ run[r] = NoRun
    /\ \E rows \in SUBSET Students :
          /\ Lists(kind, rows)
          /\ run' = [x \in WorkflowRuns |->
                CASE x = r -> [NoRun EXCEPT !.kind = kind, !.state = "proposed", !.listed = rows]
                  [] x # r /\ run[x].kind = kind /\ run[x].state = "proposed" ->
                        [run[x] EXCEPT !.state = "discarded", !.listed = {}]
                  [] OTHER -> run[x]]
    /\ UNCHANGED <<tables, laterWork, closing, handEdits, late, handled, did>>

Proposed(r, kind) == run[r].kind = kind /\ run[r].state = "proposed"

Discard(r) ==
    /\ run[r].state = "proposed"
    /\ run' = [run EXCEPT ![r] = [@ EXCEPT !.state = "discarded", !.listed = {}]]
    /\ UNCHANGED <<tables, laterWork, closing, handEdits, late, handled, did>>

-----------------------------------------------------------------------------
(* Apply: the admin has ticked and edited rows of the proposal. *)

Applied(r, snapshot) == run' = [run EXCEPT ![r] = snapshot]
Snapshot(r) == [run[r] EXCEPT !.state = "applied", !.listed = {}]

ApplyRollover(r) ==
    /\ Proposed(r, "rollover")
    /\ year = "unused"
    /\ year' = "open"
    /\ \E copied \in SUBSET {c \in Classes : class[c] = "unused"} :
          class' = [c \in Classes |-> IF c \in copied THEN "open" ELSE class[c]]
    /\ Applied(r, Snapshot(r))
    /\ UNCHANGED <<status, home, seat, waiting, laterWork, closing, handEdits, late, handled, did>>

(* The snapshot keeps every ticked id, the update takes the active ones. *)
ApplyLeavers(r) ==
    /\ Proposed(r, "leavers")
    /\ \E ticked \in SUBSET run[r].listed :
          /\ status' = [s \in Students |->
                          IF s \in ticked \intersect Active THEN "left" ELSE status[s]]
          /\ Applied(r, [Snapshot(r) EXCEPT !.ids = ticked])
          /\ UNCHANGED <<year, class, home, seat, waiting, laterWork>>
          /\ Did(r, ticked \intersect Active)
    /\ UNCHANGED <<closing, handEdits, late, handled>>

(* The unique index on index numbers makes the apply fail. *)
Create(rows) ==
    /\ \A s \in rows : status[s] = "unused" /\ \A t \in Present : Number[t] # Number[s]
    /\ status' = [s \in Students |-> IF s \in rows THEN "active" ELSE status[s]]

ApplyIntake(r) ==
    /\ Proposed(r, "intake")
    /\ year = "open"
    /\ \E rows \in SUBSET run[r].listed :
          /\ Create(rows)
          /\ waiting' = waiting \union rows
          /\ Applied(r, [Snapshot(r) EXCEPT !.ids = rows])
          /\ UNCHANGED <<year, class, home, seat, laterWork>>
          /\ Did(r, rows)
    /\ UNCHANGED <<closing, handEdits, late, handled>>

ApplyImport(r) ==
    /\ Proposed(r, "import")
    /\ \E rows \in SUBSET run[r].listed :
          /\ Create(rows)
          /\ home' = home \union rows
          /\ Applied(r, [Snapshot(r) EXCEPT !.ids = rows])
          /\ UNCHANGED <<year, class, seat, waiting, laterWork>>
          /\ Did(r, rows)
    /\ UNCHANGED <<closing, handEdits, late, handled>>

EveryListed(cleared, placed) == cleared

(* Whose rows of student_intakes a promotion removes. *)
Admitted(cleared, placed) == placed

(* The sections ticked are created, the students listed lose their class   *)
(* of the year and get the one chosen, if one is.  A class or a student    *)
(* that is gone violates a foreign key, and the apply fails.               *)
ApplyPromotion(r) ==
    /\ Proposed(r, "promotion")
    /\ Open # {}
    /\ \E new \in SUBSET {c \in Classes : class[c] = "unused"},
          chosen \in [run[r].listed -> Classes \union {Nowhere}] :
          LET cleared == run[r].listed
              placed == {s \in cleared : chosen[s] # Nowhere}
              gone == Admitted(cleared, placed) \intersect waiting
          IN  /\ \A s \in placed : s \in Present /\ chosen[s] \in Open \union new
              /\ class' = [c \in Classes |-> IF c \in new THEN "open" ELSE class[c]]
              /\ seat' = [s \in Students |-> IF s \in cleared THEN chosen[s] ELSE seat[s]]
              /\ waiting' = waiting \ gone
              /\ Applied(r, [Snapshot(r) EXCEPT
                    !.ids = cleared, !.previous = [s \in cleared |-> seat[s]],
                    !.assigned = {chosen[s] : s \in placed}, !.created = new,
                    !.intakes = placed \intersect waiting, !.gave = chosen])
              /\ Added(placed)
              /\ UNCHANGED <<year, status, home, laterWork>>
              /\ Did(r, cleared)
    /\ UNCHANGED <<closing, handEdits, handled>>

Apply(r) ==
    \/ ApplyRollover(r) \/ ApplyLeavers(r) \/ ApplyIntake(r)
    \/ ApplyImport(r) \/ ApplyPromotion(r)

-----------------------------------------------------------------------------
(* Revert: the check, and the writes. *)

SomeInUse(ids) ==
    \E s \in ids : s \in account \union marked \/ seat[s] # Nowhere

StudentsInUse(ids) ==
    \E s \in ids : s \in account \union recorded \union marked \/ seat[s] # Nowhere

YearHasActivity == register # {} \/ \E s \in Students : seat[s] # Nowhere

ClassesHaveRecords(classes, ids) == register \intersect classes # {} \/ marked \intersect ids # {}

(* An import removes its own class places before it asks. *)
InUse(x) ==
    \/ x.kind = "rollover" /\ YearHasActivity
    \/ x.kind = "intake" /\ (StudentsInUse(x.ids) \/ home \intersect x.ids # {})
    \/ x.kind = "import" /\ StudentsInUse(x.ids)
    \/ x.kind = "promotion" /\ ClassesHaveRecords(x.assigned \union x.created, x.ids)

RevertLeavers(r) ==
    /\ run[r].kind = "leavers" /\ run[r].state = "applied"
    /\ status' = [s \in Students |->
                    IF s \in run[r].ids /\ status[s] = "left" THEN "active" ELSE status[s]]
    /\ run' = [run EXCEPT ![r] = [NoRun EXCEPT !.kind = "leavers", !.state = "reverted"]]
    /\ Forget(r)
    /\ UNCHANGED <<year, class, home, seat, waiting, laterWork, closing, handEdits, late, handled>>

CheckRevert(r) ==
    /\ run[r].kind # "leavers" /\ run[r].state = "applied"
    /\ ~InUse(run[r])
    /\ run' = [run EXCEPT ![r].state = "reverting"]
    /\ UNCHANGED <<tables, laterWork, closing, handEdits, late, handled, did>>

Reverting(r, kind) == run[r].kind = kind /\ run[r].state = "reverting"
Reverted(r) ==
    /\ run' = [run EXCEPT ![r] = [NoRun EXCEPT !.kind = run[r].kind, !.state = "reverted"]]
    /\ Forget(r)

(* A seat that was given meanwhile goes with its class. *)
RevertRollover(r) ==
    /\ Reverting(r, "rollover")
    /\ year' = "deleted"
    /\ DropClasses(Open, seat)
    /\ waiting' = {}
    /\ handled' = handled \union {s \in Students : seat[s] # Nowhere}
    /\ Reverted(r)
    /\ UNCHANGED <<status, home, account, recorded, marked, closing, handEdits, late>>

RevertCreation(r) ==
    /\ Reverting(r, "intake") \/ Reverting(r, "import")
    /\ DropStudents(run[r].ids \intersect Present)
    /\ Reverted(r)
    /\ UNCHANGED <<year, class, register, closing, handEdits, late, handled>>

AllCreated(created, seats) == created \intersect Open

DeleteEmptyClasses(created, seats) ==
    {c \in created \intersect Open : \A s \in Students : seats[s] # c}

Unassigned(x) == [s \in Students |-> IF s \in x.ids THEN Nowhere ELSE seat[s]]

Reassigned(x) == [s \in Students |-> IF s \in x.ids THEN x.previous[s] ELSE seat[s]]

SeatsHold(x) ==
    \A s \in x.ids : x.previous[s] # Nowhere => s \in Present /\ x.previous[s] \in Open

(* The foreign keys of the rows that are put back. *)
SnapshotHolds(x) ==
    /\ \A s \in x.ids : x.previous[s] # Nowhere => s \in Present /\ x.previous[s] \in Open
    /\ x.intakes # {} => x.intakes \subseteq Present /\ year = "open"

(* Cleared students get the seat they had, and those admitted wait again.  *)
RevertPromotion(r) ==
    /\ Reverting(r, "promotion")
    /\ SnapshotHolds(run[r])
    /\ LET x == run[r]
           seats == Reassigned(x)
       IN  /\ DropClasses(DeleteEmptyClasses(x.created, seats), seats)
           /\ waiting' = waiting \union x.intakes
           /\ Added({s \in x.ids : seats[s] # Nowhere})
           /\ handled' = handled \union {s \in x.ids : seat[s] \notin {Nowhere, x.gave[s]}}
    /\ Reverted(r)
    /\ UNCHANGED <<year, status, home, account, recorded, marked, closing, handEdits>>

(* A statement fails and the transaction is rolled back. *)
RevertFails(r) ==
    /\ Reverting(r, "promotion")
    /\ ~SnapshotHolds(run[r])
    /\ run' = [run EXCEPT ![r].state = "applied"]
    /\ UNCHANGED <<tables, laterWork, closing, handEdits, late, handled, did>>

Revert(r) ==
    \/ RevertLeavers(r) \/ CheckRevert(r) \/ RevertRollover(r)
    \/ RevertCreation(r) \/ RevertPromotion(r) \/ RevertFails(r)

YearEndNext ==
    \/ ByHand
    \/ \E r \in WorkflowRuns : \/ \E kind \in Kinds : Propose(r, kind)
                       \/ Discard(r) \/ Apply(r) \/ Revert(r)

YearEndSpec == YearEndInit /\ [][YearEndNext]_yearEndVars

-----------------------------------------------------------------------------
(* Properties. *)

Finishes(r) == run[r].state \in {"applied", "reverting"} /\ run'[r].state = "reverted"

(* A revert never deletes a student on whom later work depends (a login, a *)
(* class, records, marks), except what was added after its check.          *)
InUseStays ==
    [][\A r \in WorkflowRuns, s \in Students :
         Finishes(r) /\ s \in Present /\ status'[s] = "deleted" =>
            \/ s \in late
            \/ s \notin account \union recorded \union marked /\ seat[s] = Nowhere]_yearEndVars

(* Deleting a class takes nobody's seat: a class goes when it was found    *)
(* empty, or with the revert of the promotion that seated its students.    *)
NobodyUnseated ==
    [][\A c \in Open : class'[c] = "deleted" =>
         \A s \in Seated(c) :
             s \in late \/ \E r \in WorkflowRuns : Finishes(r) /\ s \in run[r].ids]_yearEndVars

(* What was built on a workflow later is not taken away with it: InUseStays *)
(* and NobodyUnseated.                                                     *)
LaterWorkStays == InUseStays /\ NobodyUnseated

Admissions ==
    UNION {run[r].ids :
           r \in {x \in WorkflowRuns : run[x].kind = "intake" /\ run[x].state = "applied"}}

(* Whatever is proposed, applied and reverted, a student who was admitted  *)
(* waits for a class of the next year or has one, unless somebody took it  *)
(* away by hand or the year itself was reverted.                           *)
AdmittedNotLost ==
    year # "deleted" =>
        \A s \in Admissions \intersect Active : s \in waiting \union handled \/ seat[s] # Nowhere

(* A row that was created is gone for good. *)
Undone(was, is) == is = was \/ (was = "unused" /\ is = "deleted")

(* What the run made of a row, and nobody has changed, is as it was before. *)
GivesBack(s, was, made) ==
    /\ status[s] = made.status => Undone(was.status, status'[s])
    /\ seat[s] = made.seat => seat'[s] = was.seat
    /\ home \intersect {s} = made.home => home' \intersect {s} = was.home
    /\ waiting \intersect {s} = made.waiting => waiting' \intersect {s} = was.waiting

(* The classes a promotion created go unless somebody else sits in them;    *)
(* with a rollover all classes of its year go.                              *)
ClassesOnlyOf(r) ==
    \A c \in Open :
        class'[c] = "deleted" <=>
            \/ run[r].kind = "rollover"
            \/ /\ run[r].kind = "promotion"
               /\ c \in run[r].created /\ Seated(c) \subseteq run[r].ids

(* Whatever other runs and people did between an apply and its revert, the  *)
(* revert undoes what the run changed of a student and nobody has changed   *)
(* since, and touches no other student and no other class.                  *)
RevertRestores ==
    [][\A r \in WorkflowRuns : Finishes(r) =>
         /\ \A s \in DOMAIN did[r] : GivesBack(s, did[r][s].was, did[r][s].made)
         /\ run[r].kind # "rollover" => \A s \in Students \ run[r].ids : Row(s)' = Row(s)
         /\ ClassesOnlyOf(r)]_yearEndVars

(* Students, classes and runs keep their types, and whoever was admitted    *)
(* waits for a class or has one, unless it was taken away by hand.          *)
SeatsConsistent ==
    /\ YearEndTypeOK
    /\ AdmittedNotLost

=============================================================================
