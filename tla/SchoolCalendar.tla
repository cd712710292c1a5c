--------------------------- MODULE SchoolCalendar ---------------------------
(***************************************************************************)
(* The academic years and terms, which of them are current, and what moves *)
(* the school from one year to the next: the admin's own calls             *)
(* (modules/school), the go-live workflow and the revert of a year         *)
(* rollover (modules/workflows/golive.go and rollover.go).                 *)
(*                                                                         *)
(* Requests overlap, each a sequence of statements at READ COMMITTED.  An  *)
(* UPDATE finds its rows when it starts, waits until none of them is       *)
(* locked, and looks at each of them again before it writes.  What a       *)
(* transaction has written is known from the rows it has locked: among     *)
(* them the one it wants becomes current, the others stop being current.   *)
(*                                                                         *)
(* A term is the pair of its year and its sort order.  Of the classes of a *)
(* year only their presence is kept, and of what hangs on them whether a   *)
(* student is placed.  A rollover is one step: its transaction only        *)
(* inserts rows nobody else can see before its commit.                     *)
(***************************************************************************)
EXTENDS Integers, FiniteSets

CONSTANTS
    Years,      \* identities available to academic_years rows (a bound)
    Orders,     \* sort orders available to the terms of a year (a bound)
    GoLives,    \* workflow runs of go_live (a bound)
    Rollovers,  \* workflow runs of year_rollover (a bound)
    Requests,   \* HTTP requests in progress at the same time (a bound)
    None        \* no year, no term, no run, no lock holder

Runs == GoLives \union Rollovers
Terms == Years \X Orders

ASSUME RowsAssumption == Years \intersect Terms = {}
ASSUME NoneAssumption == None \notin Years \union Terms \union Runs \union Requests
ASSUME OrdersAssumption == Orders \subseteq Nat /\ IsFiniteSet(Orders)
ASSUME KindsAssumption == GoLives \intersect Rollovers = {}

VARIABLES
    year,         \* academic_years: which rows exist; ids are never reused
    currentYear,  \* the rows with is_current
    term,         \* terms: which rows exist
    currentTerm,  \* the rows with is_current
    classes,      \* the years that have a class
    placed,       \* the years with a student in one of their classes
    lock,         \* the request whose transaction holds the lock of a row
    state,        \* workflow_runs.state, "open" before the run is applied
    made,         \* the year a run made current or created
    prevYear,     \* the snapshot of a go-live
    prevTerm,
    pc,           \* where each request stands
    op,           \* what it performs
    run,          \* the run it works on, whose row it holds
    goal,         \* the year it wants current, or deletes
    goalTerm,     \* the term it wants current
    found,        \* the rows its UPDATE matched when it started
    snapYear,     \* what a go-live remembers for its revert
    snapTerm,
    late          \* history: years placed after a revert had found them empty

calendar == <<year, currentYear, term, currentTerm, classes, placed, late>>
runs == <<state, made, prevYear, prevTerm>>
request == <<pc, op, run, goal, goalTerm, found, snapYear, snapTerm>>
vars == <<year, currentYear, term, currentTerm, classes, placed, lock, state, made,
          prevYear, prevTerm, pc, op, run, goal, goalTerm, found, snapYear,
          snapTerm, late>>

Existence == {"unused", "live", "deleted"}
Operations == {"none", "set_year", "set_term", "go_live", "revert_go_live",
               "revert_rollover"}
Steps == {"idle", "snapshot", "match_year", "set_year", "pick_term",
          "match_term", "set_term", "commit", "check", "delete"}

TypeOK ==
    /\ year \in [Years -> Existence]
    /\ currentYear \subseteq Years
    /\ term \in [Terms -> Existence]
    /\ currentTerm \subseteq Terms
    /\ classes \subseteq Years
    /\ placed \subseteq Years
    /\ lock \in [Years \union Terms -> Requests \union {None}]
    /\ state \in [Runs -> {"open", "applied", "reverted"}]
    /\ made \in [Runs -> Years \union {None}]
    /\ prevYear \in [Runs -> Years \union {None}]
    /\ prevTerm \in [Runs -> Terms \union {None}]
    /\ pc \in [Requests -> Steps]
    /\ op \in [Requests -> Operations]
    /\ run \in [Requests -> Runs \union {None}]
    /\ goal \in [Requests -> Years \union {None}]
    /\ goalTerm \in [Requests -> Terms \union {None}]
    /\ found \in [Requests -> SUBSET (Years \union Terms)]
    /\ snapYear \in [Requests -> Years \union {None}]
    /\ snapTerm \in [Requests -> Terms \union {None}]
    /\ late \subseteq Years

(* The empty tables of a new school. *)
Init ==
    /\ year = [y \in Years |-> "unused"]
    /\ currentYear = {}
    /\ term = [t \in Terms |-> "unused"]
    /\ currentTerm = {}
    /\ classes = {}
    /\ placed = {}
    /\ lock = [w \in Years \union Terms |-> None]
    /\ state = [x \in Runs |-> "open"]
    /\ made = [x \in Runs |-> None]
    /\ prevYear = [x \in Runs |-> None]
    /\ prevTerm = [x \in Runs |-> None]
    /\ pc = [r \in Requests |-> "idle"]
    /\ op = [r \in Requests |-> "none"]
    /\ run = [r \in Requests |-> None]
    /\ goal = [r \in Requests |-> None]
    /\ goalTerm = [r \in Requests |-> None]
    /\ found = [r \in Requests |-> {}]
    /\ snapYear = [r \in Requests |-> None]
    /\ snapTerm = [r \in Requests |-> None]
    /\ late = {}

-----------------------------------------------------------------------------
(* Helpers *)

Live(y) == year[y] = "live"
LiveTerm(t) == term[t] = "live"
TermsOf(y) == {t \in Terms : t[1] = y /\ LiveTerm(t)}

(* The one element of a set with at most one, or None: LIMIT 1. *)
TheOne(S) == IF S = {} THEN None ELSE CHOOSE s \in S : TRUE

(* terms[0] of WfListTerms. *)
FirstTerm(y) ==
    TheOne({t \in TermsOf(y) : \A u \in TermsOf(y) : t[2] <= u[2]})

HeldBy(r) == {w \in Years \union Terms : lock[w] = r}
Free(S) == \A w \in S : lock[w] = None

(* The row lock of a run, and the one open proposal of a scope: nobody     *)
(* else works on this run, or makes the same year current.                 *)
RunFree(x) == \A q \in Requests : run[q] # x
ScopeFree(y) == \A q \in Requests : ~(op[q] = "go_live" /\ goal[q] = y)

(* The is_current rows once the transaction of r commits. *)
YearsAfter(r) == (currentYear \ HeldBy(r)) \union ({goal[r]} \intersect HeldBy(r))
TermsAfter(r) == (currentTerm \ HeldBy(r)) \union ({goalTerm[r]} \intersect HeldBy(r))

(* Mutant of TwoCurrent: the tables have no such constraints. *)
NoConstraint(r) == FALSE

(* academic_years_one_current and terms_one_current, deferred to commit. *)
TwoCurrent(r) ==
    \/ \E y, z \in YearsAfter(r) : y # z
    \/ \E t, u \in TermsAfter(r) : t # u

End(r) ==
    /\ lock' = [w \in Years \union Terms |-> IF lock[w] = r THEN None ELSE lock[w]]
    /\ pc' = [pc EXCEPT ![r] = "idle"]
    /\ op' = [op EXCEPT ![r] = "none"]
    /\ run' = [run EXCEPT ![r] = None]
    /\ goal' = [goal EXCEPT ![r] = None]
    /\ goalTerm' = [goalTerm EXCEPT ![r] = None]
    /\ found' = [found EXCEPT ![r] = {}]
    /\ snapYear' = [snapYear EXCEPT ![r] = None]
    /\ snapTerm' = [snapTerm EXCEPT ![r] = None]

Start(r, o, x, y, t, step) ==
    /\ pc[r] = "idle"
    /\ pc' = [pc EXCEPT ![r] = step]
    /\ op' = [op EXCEPT ![r] = o]
    /\ run' = [run EXCEPT ![r] = x]
    /\ goal' = [goal EXCEPT ![r] = y]
    /\ goalTerm' = [goalTerm EXCEPT ![r] = t]
    /\ UNCHANGED <<lock, found, snapYear, snapTerm>>

Goto(r, step) == pc' = [pc EXCEPT ![r] = step]

-----------------------------------------------------------------------------
(* Single statements of the admin.  A row that is locked is waited for.    *)

CreateYear(y) ==
    /\ year[y] = "unused"
    /\ year' = [year EXCEPT ![y] = "live"]
    /\ UNCHANGED <<currentYear, term, currentTerm, classes, placed, late, lock,
                   runs, request>>

(* Mutant of DropYear: the terms stay. *)
DropYearOnly(y) ==
    /\ Free({y})
    /\ year' = [year EXCEPT ![y] = "deleted"]
    /\ currentYear' = currentYear \ {y}
    /\ UNCHANGED <<term, currentTerm>>

(* DeleteAcademicYear asks only that no class is left; the terms cascade. *)
DropYear(y) ==
    /\ Free({y} \union TermsOf(y))
    /\ year' = [year EXCEPT ![y] = "deleted"]
    /\ currentYear' = currentYear \ {y}
    /\ term' = [t \in Terms |-> IF t \in TermsOf(y) THEN "deleted" ELSE term[t]]
    /\ currentTerm' = currentTerm \ TermsOf(y)

DeleteYear(y) ==
    /\ Live(y) /\ y \notin classes
    /\ DropYear(y)
    /\ UNCHANGED <<classes, placed, late, lock, runs, request>>

CreateTerm(t) ==
    /\ term[t] = "unused" /\ Live(t[1])
    /\ term' = [term EXCEPT ![t] = "live"]
    /\ UNCHANGED <<year, currentYear, currentTerm, classes, placed, late, lock,
                   runs, request>>

(* A term with marks is kept; marks are not modelled. *)
DeleteTerm(t) ==
    /\ LiveTerm(t) /\ Free({t})
    /\ term' = [term EXCEPT ![t] = "deleted"]
    /\ currentTerm' = currentTerm \ {t}
    /\ UNCHANGED <<year, currentYear, classes, placed, late, lock, runs, request>>

CreateClass(y) ==
    /\ Live(y)
    /\ classes' = classes \union {y}
    /\ UNCHANGED <<year, currentYear, term, currentTerm, placed, late, lock, runs,
                   request>>

(* The last class of a year; one with students is kept. *)
DeleteClass(y) ==
    /\ y \in classes \ placed
    /\ classes' = classes \ {y}
    /\ UNCHANGED <<year, currentYear, term, currentTerm, placed, late, lock, runs,
                   request>>

(* A student enters a class of the year, or the last one leaves. *)
Place(y) ==
    /\ y \in classes
    /\ placed' = placed \union {y}
    /\ late' = IF \E q \in Requests : pc[q] = "delete" /\ goal[q] = y
               THEN late \union {y} ELSE late
    /\ UNCHANGED <<year, currentYear, term, currentTerm, classes, lock, runs, request>>

Unplace(y) ==
    /\ placed' = placed \ {y}
    /\ late' = late \ {y}
    /\ UNCHANGED <<year, currentYear, term, currentTerm, classes, lock, runs, request>>

(* The rollover run x creates a year with the terms and classes that were  *)
(* ticked, from a year that has classes, in one transaction.               *)
ApplyRollover(x, y, S, withClasses) ==
    /\ state[x] = "open" /\ RunFree(x)
    /\ classes # {}
    /\ year[y] = "unused"
    /\ year' = [year EXCEPT ![y] = "live"]
    /\ term' = [t \in Terms |-> IF t[1] = y /\ t[2] \in S THEN "live" ELSE term[t]]
    /\ classes' = IF withClasses THEN classes \union {y} ELSE classes
    /\ state' = [state EXCEPT ![x] = "applied"]
    /\ made' = [made EXCEPT ![x] = y]
    /\ UNCHANGED <<currentYear, currentTerm, placed, late, lock, prevYear, prevTerm,
                   request>>

-----------------------------------------------------------------------------
(* Requests of several statements.  setCurrent looks whether the row is    *)
(* there before it updates; a year that is created as current is not       *)
(* looked for again.                                                       *)

SetYear(r, y) ==
    /\ Live(y)
    /\ Start(r, "set_year", None, y, None, "match_year")
    /\ UNCHANGED <<calendar, runs>>

CreateCurrentYear(r, y) ==
    /\ year[y] = "unused"
    /\ year' = [year EXCEPT ![y] = "live"]
    /\ Start(r, "set_year", None, y, None, "match_year")
    /\ UNCHANGED <<currentYear, term, currentTerm, classes, placed, late, runs>>

SetTerm(r, t) ==
    /\ LiveTerm(t)
    /\ Start(r, "set_term", None, None, t, "match_term")
    /\ UNCHANGED <<calendar, runs>>

(* The blocking checks of a go-live, made before its transaction. *)
GoLive(r, x, y) ==
    /\ state[x] = "open" /\ RunFree(x) /\ ScopeFree(y)
    /\ Live(y) /\ y \notin currentYear /\ y \in classes
    /\ Start(r, "go_live", x, y, None, "snapshot")
    /\ UNCHANGED <<calendar, runs>>

(* What its revert will need, and the target, which must still exist.      *)
Snapshot(r) ==
    /\ pc[r] = "snapshot"
    /\ Live(goal[r])
    /\ snapYear' = [snapYear EXCEPT ![r] = TheOne(currentYear)]
    /\ snapTerm' = [snapTerm EXCEPT ![r] = TheOne(currentTerm)]
    /\ Goto(r, "match_year")
    /\ UNCHANGED <<calendar, runs, lock, op, run, goal, goalTerm, found>>

AfterYear(r) ==
    CASE op[r] = "go_live" -> "pick_term"
      [] op[r] = "revert_go_live" /\ goalTerm[r] # None -> "match_term"
      [] OTHER -> "commit"

(* WHERE id = $1 OR is_current = TRUE. *)
Matches(r, w) ==
    IF w \in Years THEN Live(w) /\ (w = goal[r] \/ w \in currentYear)
                   ELSE LiveTerm(w) /\ (w = goalTerm[r] \/ w \in currentTerm)

(* An UPDATE of the rows S, as far as they match by now; or it has to wait *)
(* for one of them, and looks again at those it found, and at no other.    *)
Update(r, S, next) ==
    /\ Free(S)
    /\ lock' = [w \in Years \union Terms |->
                    IF w \in S /\ Matches(r, w) THEN r ELSE lock[w]]
    /\ found' = [found EXCEPT ![r] = {}]
    /\ Goto(r, next)

Wait(r, S, step) ==
    /\ ~Free(S)
    /\ found' = [found EXCEPT ![r] = S]
    /\ Goto(r, step)
    /\ UNCHANGED lock

YearRows(r) == {y \in Years : Matches(r, y)}
TermRows(r) == {t \in Terms : Matches(r, t)}

(* Mutant of MatchYear: locked rows are skipped. *)
MatchYearSkipLocked(r) ==
    /\ pc[r] = "match_year"
    /\ Update(r, {y \in YearRows(r) : Free({y})}, AfterYear(r))
    /\ UNCHANGED <<calendar, runs, op, run, goal, goalTerm, snapYear, snapTerm>>

(* WfSetCurrentYear, SetCurrentAcademicYear. *)
MatchYear(r) ==
    /\ pc[r] = "match_year"
    /\ Update(r, YearRows(r), AfterYear(r)) \/ Wait(r, YearRows(r), "set_year")
    /\ UNCHANGED <<calendar, runs, op, run, goal, goalTerm, snapYear, snapTerm>>

UpdateYear(r) ==
    /\ pc[r] = "set_year"
    /\ Update(r, found[r], AfterYear(r))
    /\ UNCHANGED <<calendar, runs, op, run, goal, goalTerm, snapYear, snapTerm>>

(* The first term of the new year, if it has one. *)
PickTerm(r) ==
    /\ pc[r] = "pick_term"
    /\ goalTerm' = [goalTerm EXCEPT ![r] = FirstTerm(goal[r])]
    /\ Goto(r, IF TermsOf(goal[r]) = {} THEN "commit" ELSE "match_term")
    /\ UNCHANGED <<calendar, runs, lock, op, run, goal, found, snapYear, snapTerm>>

(* WfSetCurrentTerm, SetCurrentTerm. *)
MatchTerm(r) ==
    /\ pc[r] = "match_term"
    /\ Update(r, TermRows(r), "commit") \/ Wait(r, TermRows(r), "set_term")
    /\ UNCHANGED <<calendar, runs, op, run, goal, goalTerm, snapYear, snapTerm>>

UpdateTerm(r) ==
    /\ pc[r] = "set_term"
    /\ Update(r, found[r], "commit")
    /\ UNCHANGED <<calendar, runs, op, run, goal, goalTerm, snapYear, snapTerm>>

(* The commit makes the writes visible, and with them the new state and    *)
(* the snapshot of the run.                                                *)
Commit(r) ==
    /\ pc[r] = "commit"
    /\ ~TwoCurrent(r)
    /\ currentYear' = YearsAfter(r)
    /\ currentTerm' = TermsAfter(r)
    /\ state' = CASE op[r] = "go_live" -> [state EXCEPT ![run[r]] = "applied"]
                  [] op[r] = "revert_go_live" -> [state EXCEPT ![run[r]] = "reverted"]
                  [] OTHER -> state
    /\ IF op[r] = "go_live"
       THEN /\ made' = [made EXCEPT ![run[r]] = goal[r]]
            /\ prevYear' = [prevYear EXCEPT ![run[r]] = snapYear[r]]
            /\ prevTerm' = [prevTerm EXCEPT ![run[r]] = snapTerm[r]]
       ELSE UNCHANGED <<made, prevYear, prevTerm>>
    /\ End(r)
    /\ UNCHANGED <<year, term, classes, placed, late>>

(* A second current row: the commit fails and everything is rolled back. *)
CommitRefused(r) ==
    /\ pc[r] = "commit"
    /\ TwoCurrent(r)
    /\ End(r)
    /\ UNCHANGED <<calendar, runs>>

(* Mutant of RevertGoLive: with a term to go back to the year is forgotten. *)
RevertGoLiveTermOnly(r, x) ==
    /\ state[x] = "applied" /\ RunFree(x)
    /\ Start(r, "revert_go_live", x, prevYear[x], prevTerm[x],
             CASE prevTerm[x] # None -> "match_term"
               [] prevTerm[x] = None /\ prevYear[x] # None -> "match_year"
               [] OTHER -> "commit")
    /\ UNCHANGED <<calendar, runs>>

(* GoLive.Revert: back to the year and the term of the snapshot, each only *)
(* if there was one.                                                       *)
RevertGoLive(r, x) ==
    /\ state[x] = "applied" /\ RunFree(x)
    /\ Start(r, "revert_go_live", x, prevYear[x], prevTerm[x],
             CASE prevYear[x] # None -> "match_year"
               [] prevYear[x] = None /\ prevTerm[x] # None -> "match_term"
               [] OTHER -> "commit")
    /\ UNCHANGED <<calendar, runs>>

(* YearRollover.Revert: refused once students are placed, then the classes *)
(* (with whoever is in them by now) and the year are deleted.              *)
RevertRollover(r, x) ==
    /\ state[x] = "applied" /\ RunFree(x)
    /\ Start(r, "revert_rollover", x, made[x], None, "check")
    /\ UNCHANGED <<calendar, runs>>

(* Mutant of FindUnused: nobody asks whether the year is used. *)
FindAnyUse(r) ==
    /\ pc[r] = "check"
    /\ Goto(r, "delete")
    /\ UNCHANGED <<calendar, runs, lock, op, run, goal, goalTerm, found, snapYear,
                   snapTerm>>

FindUnused(r) ==
    /\ pc[r] = "check"
    /\ goal[r] \notin placed
    /\ Goto(r, "delete")
    /\ UNCHANGED <<calendar, runs, lock, op, run, goal, goalTerm, found, snapYear,
                   snapTerm>>

(* Mutant of DeleteRolledOver: a state the engine never writes. *)
DeleteRolledOverFailed(r) ==
    /\ pc[r] = "delete"
    /\ IF Live(goal[r]) THEN DropYear(goal[r])
       ELSE UNCHANGED <<year, currentYear, term, currentTerm>>
    /\ classes' = classes \ {goal[r]}
    /\ placed' = placed \ {goal[r]}
    /\ late' = late \ {goal[r]}
    /\ state' = [state EXCEPT ![run[r]] = "failed"]
    /\ End(r)
    /\ UNCHANGED <<made, prevYear, prevTerm>>

DeleteRolledOver(r) ==
    /\ pc[r] = "delete"
    /\ IF Live(goal[r]) THEN DropYear(goal[r])
       ELSE UNCHANGED <<year, currentYear, term, currentTerm>>
    /\ classes' = classes \ {goal[r]}
    /\ placed' = placed \ {goal[r]}
    /\ late' = late \ {goal[r]}
    /\ state' = [state EXCEPT ![run[r]] = "reverted"]
    /\ End(r)
    /\ UNCHANGED <<made, prevYear, prevTerm>>

(* A request fails: a refused check, a database error, a client that goes  *)
(* away, a server that stops.  Its transaction is rolled back.             *)
Fail(r) ==
    /\ pc[r] # "idle"
    /\ End(r)
    /\ UNCHANGED <<calendar, runs>>

-----------------------------------------------------------------------------
Admin ==
    \/ \E y \in Years :
          \/ CreateYear(y)
          \/ DeleteYear(y)
          \/ CreateClass(y)
          \/ DeleteClass(y)
          \/ Place(y)
          \/ Unplace(y)
    \/ \E t \in Terms : CreateTerm(t) \/ DeleteTerm(t)
    \/ \E x \in Rollovers, y \in Years, S \in SUBSET Orders, b \in BOOLEAN :
          ApplyRollover(x, y, S, b)

Receive(r) ==
    \/ \E y \in Years : SetYear(r, y) \/ CreateCurrentYear(r, y)
    \/ \E t \in Terms : SetTerm(r, t)
    \/ \E x \in GoLives, y \in Years : GoLive(r, x, y)
    \/ \E x \in GoLives : RevertGoLive(r, x)
    \/ \E x \in Rollovers : RevertRollover(r, x)

Proceed(r) ==
    \/ Snapshot(r)
    \/ MatchYear(r)
    \/ UpdateYear(r)
    \/ PickTerm(r)
    \/ MatchTerm(r)
    \/ UpdateTerm(r)
    \/ Commit(r)
    \/ CommitRefused(r)
    \/ FindUnused(r)
    \/ DeleteRolledOver(r)
    \/ Fail(r)

Next ==
    \/ Admin
    \/ \E r \in Requests : Receive(r) \/ Proceed(r)

Spec == Init /\ [][Next]_vars

-----------------------------------------------------------------------------
(* Properties *)

(* However switches overlap, at most one year and one term are current.    *)
(* Two UPDATEs that started from the same year each leave the other's new  *)
(* year alone; only the deferred constraints stop the second commit.       *)
OneCurrent ==
    /\ \A y, z \in currentYear : y = z
    /\ \A t, u \in currentTerm : t = u

(* What is current, and what hangs on a year, exists: a year or a term     *)
(* that is deleted while a switch to it is under way does not come back as *)
(* current.                                                                *)
NothingDangling ==
    /\ \A y \in currentYear \union classes \union placed : Live(y)
    /\ \A t \in currentTerm : LiveTerm(t)
    /\ \A t \in Terms : LiveTerm(t) => Live(t[1])

(* When a go-live says it is applied, the year it names is the current one *)
(* unless that year was deleted meanwhile (GoLive.Apply).                  *)
GoLiveSwitches ==
    [][\A x \in GoLives : state[x] = "open" /\ state'[x] = "applied" /\ Live(made'[x])
           => currentYear' = {made'[x]}]_vars

(* A go-live that is reverted gives back the year of its snapshot, if it   *)
(* has one that still exists, whoever else switches meanwhile              *)
(* (GoLive.Revert).                                                        *)
GoLiveUndone ==
    [][\A x \in GoLives :
           /\ state[x] = "applied" /\ state'[x] = "reverted"
           /\ prevYear[x] # None
           /\ Live(prevYear[x])
           => currentYear' = {prevYear[x]}]_vars

(* No year is deleted with students in its classes, except with those who  *)
(* were placed after a revert had found it empty (WfYearHasActivity).      *)
RecordedStays ==
    [][\A y \in Years : Live(y) /\ year'[y] = "deleted" => y \notin placed \ late]_vars

(* One year and one term are current at most, and neither they nor a class  *)
(* hang on something that was deleted.                                      *)
CalendarConsistent ==
    /\ TypeOK
    /\ OneCurrent
    /\ NothingDangling

(* A go-live that answers that it is applied has made its year the current  *)
(* one, and its revert makes the year of its snapshot current again.        *)
GoLivesHold ==
    /\ GoLiveSwitches
    /\ GoLiveUndone

=============================================================================
