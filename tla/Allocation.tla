----------------------------- MODULE Allocation -----------------------------
(***************************************************************************)
(* Teacher allocation for next year (workflows/allocation.go and           *)
(* workflows/teacher_allocation.go): a proposal gives every subject of     *)
(* every class a qualified teacher and every class a form teacher, one     *)
(* after the other; it may be edited, is applied, and may be reverted,     *)
(* while teachers are assigned by hand, leave, and timetables are          *)
(* submitted.                                                              *)
(*                                                                         *)
(* A post is a subject of a class, or its form teacher.  Classes are       *)
(* numbered in the order of their grades and names.  What the code settles *)
(* by the names of subjects or the ids of teachers is left open.  The      *)
(* proposal is computed from what was read at its start, so nothing else   *)
(* happens while it is computed; Apply and Revert each look first and      *)
(* write later, in one transaction that does not hold others off, also not *)
(* each other.  One revert is under way at a time.                         *)
(***************************************************************************)
EXTENDS Naturals, Sequences, FiniteSets

CONSTANTS
    Teachers, Classes, Subjects,
    Grade,      \* of each class
    Form,       \* the subject that stands for the form teacher
    Nobody,     \* no teacher
    Plans       \* schools and requests to go through, in families

Posts == Classes \X (Subjects \union {Form})

ASSUME ClassesAssumption == Classes \subseteq Nat /\ Grade \in [Classes -> Nat]
ASSUME TeachersAssumption == Nobody \notin Teachers /\ Form \notin Subjects
ASSUME FiniteAssumption ==
    IsFiniteSet(Teachers) /\ IsFiniteSet(Classes) /\ IsFiniteSet(Subjects)

(* hours: weekly periods of a subject in a grade, 0 when it is not taught. *)
(* last: who held the post in the class the students come from.            *)
(* runs and changes bound the runs and what others do.                     *)
Plan == [qualified: [Teachers -> SUBSET Subjects],
         hours: [{Grade[c] : c \in Classes} -> [Subjects -> Nat]],
         limit: Nat \ {0}, last: [Posts -> Teachers \union {Nobody}],
         suggest: BOOLEAN, runs: Nat, changes: Nat]

Holders == [Posts -> Teachers \union {Nobody}]

ASSUME PlansAssumption ==
    \A family \in Plans : family \subseteq [plan: Plan, holder: Holders]

VARIABLES
    plan,
    holder,     \* class_subject_teachers and classes.form_teacher_id of next year
    active,     \* the teachers in employment
    submitted,  \* the classes with a timetable that is not a draft
    stage,      \* of the open run
    seen,       \* the holders and active teachers the proposal was computed from
    todo,       \* posts the proposal has not decided yet
    offer,      \* the proposal
    had,        \* the holders Apply read
    since,      \* the posts others wrote since then
    history,    \* the applied runs with their snapshots
    reverting,  \* the run being reverted, 0 when there is none
    looked,     \* the classes that were submitted when that revert looked
    changes     \* what others have done

allocationVars == <<plan, holder, active, submitted, stage, seen, todo, offer, had, since,
                    history, reverting, looked, changes>>

Empty == [p \in Posts |-> Nobody]

(* touched, previous and classes are the snapshot.  before and changed are *)
(* for the properties: the holders when the run wrote, and the posts that  *)
(* others wrote since it had read them.                                    *)
Applied == [touched: SUBSET Posts, previous: Holders, classes: SUBSET Classes,
            reverted: BOOLEAN, before: Holders, changed: SUBSET Posts]

AllocationTypeOK ==
    /\ plan \in Plan
    /\ {holder, offer, had, seen.holder} \subseteq Holders
    /\ active \subseteq Teachers /\ seen.active \subseteq Teachers
    /\ {submitted, looked} \subseteq SUBSET Classes
    /\ stage \in {"none", "open", "edited", "applying"}
    /\ {todo, since} \subseteq SUBSET Posts
    /\ stage # "open" => todo = {}
    /\ history \in Seq(Applied) /\ Len(history) <= plan.runs
    /\ reverting \in 0..Len(history)
    /\ changes \in 0..plan.changes

AllocationInit ==
    /\ \E family \in Plans : \E in \in family : plan = in.plan /\ holder = in.holder
    /\ active = Teachers /\ submitted = {}
    /\ stage = "none" /\ todo = {} /\ offer = Empty
    /\ seen = [holder |-> Empty, active |-> {}]
    /\ had = Empty /\ since = {}
    /\ history = <<>> /\ reverting = 0 /\ looked = {}
    /\ changes = 0

-----------------------------------------------------------------------------
(* Reading for a proposal. *)

Hours(p) == IF p[2] = Form THEN 0 ELSE plan.hours[Grade[p[1]]][p[2]]
Needs == {p \in Posts : Hours(p) > 0}

(* Assignments of teachers who left are not kept. *)
Kept(p) == p \in Needs /\ seen.holder[p] \in seen.active

FormsWanted(h) == {p \in Posts : p[2] = Form /\ plan.suggest /\ h[p] = Nobody}

(* The conditions that block a proposal, and its Apply. *)
Ready == Needs # {} /\ \E t \in active : plan.qualified[t] # {}

Propose ==
    /\ stage = "none" /\ Len(history) < plan.runs /\ Ready
    /\ stage' = "open"
    /\ seen' = [holder |-> holder, active |-> active]
    /\ offer' = [p \in Posts |-> IF p \in Needs /\ holder[p] \in active THEN holder[p] ELSE Nobody]
    /\ todo' = {p \in Needs : offer'[p] = Nobody} \union FormsWanted(holder)
    /\ UNCHANGED <<plan, holder, active, submitted, had, since, history, reverting, looked, changes>>

-----------------------------------------------------------------------------
(* Subject teachers: the scarcest subjects first. *)

Given(t) == {p \in Needs : offer[p] = t}
HoursOf(ps) == Cardinality(UNION {{p} \X (1..Hours(p)) : p \in ps})
Load(t) == HoursOf(Given(t))

Qualified(p) == {t \in seen.active : p[2] \in plan.qualified[t]}
Scarcity(p) == Cardinality(Qualified(p))

SoonerByHours(q, p) ==
    Hours(q) > Hours(p) \/ (Hours(q) = Hours(p) /\ q[1] < p[1])

Sooner(q, p) ==
    \/ Scarcity(q) < Scarcity(p)
    \/ /\ Scarcity(q) = Scarcity(p)
       /\ Hours(q) > Hours(p) \/ (Hours(q) = Hours(p) /\ q[1] < p[1])

FitsWhileBelow(t, p) == Load(t) < plan.limit

Fits(t, p) == Load(t) + Hours(p) <= plan.limit

InTeam(t, p) == \E q \in Given(t) : Grade[q[1]] = Grade[p[1]] /\ q[2] = p[2]

LighterByTeam(t, u, p) == InTeam(t, p) /\ ~InTeam(u, p)

Lighter(t, u, p) ==
    \/ Load(t) < Load(u)
    \/ Load(t) = Load(u) /\ InTeam(t, p) /\ ~InTeam(u, p)

Fitting(p) == {t \in Qualified(p) : Fits(t, p)}
Lightest(p) == {t \in Fitting(p) : \A u \in Fitting(p) : ~Lighter(u, t, p)}

Offer(p, t) ==
    /\ offer' = [offer EXCEPT ![p] = t]
    /\ todo' = todo \ {p}
    /\ UNCHANGED <<plan, holder, active, submitted, stage, seen, had, since, history, reverting,
                   looked, changes>>

Due(p) == p \in todo /\ p[2] # Form /\ \A q \in todo : q[2] # Form => ~Sooner(q, p)

Continue(p) == Due(p) /\ plan.last[p] \in Fitting(p) /\ Offer(p, plan.last[p])

Choose(p) ==
    /\ Due(p) /\ plan.last[p] \notin Fitting(p)
    /\ \E t \in Lightest(p) : Offer(p, t)

LeaveEmpty(p) == Due(p) /\ Fitting(p) = {} /\ Offer(p, Nobody)

-----------------------------------------------------------------------------
(* Form teachers: in the order of the classes, each teacher once. *)

TakenBefore == {seen.holder[p] : p \in {q \in Posts : q[2] = Form}}

Taken == {IF offer[p] = Nobody THEN seen.holder[p] ELSE offer[p] : p \in {q \in Posts : q[2] = Form}}

InClass(t, c) == HoursOf({p \in Given(t) : p[1] = c})

MostInClass(c) ==
    {t \in Teachers \ Taken : /\ InClass(t, c) > 0
                              /\ \A u \in Teachers \ Taken : InClass(u, c) <= InClass(t, c)}

SuggestForm(p) ==
    /\ p \in todo /\ p[2] = Form
    /\ \A q \in todo : q[2] = Form /\ p[1] <= q[1]
    /\ IF plan.last[p] \in seen.active \ Taken THEN Offer(p, plan.last[p])
       ELSE IF MostInClass(p[1]) = {} THEN Offer(p, Nobody)
       ELSE \E t \in MostInClass(p[1]) : Offer(p, t)

-----------------------------------------------------------------------------
(* The open run is edited, then applied. *)

Options(p) == IF p[2] = Form \/ Qualified(p) = {} THEN seen.active ELSE Qualified(p)

Change == todo = {} /\ changes < plan.changes /\ changes' = changes + 1

Edit(p, t) ==
    /\ Change /\ stage \in {"open", "edited"}
    /\ p \in Needs \union FormsWanted(seen.holder) /\ t \in Options(p) \union {Nobody}
    /\ offer' = [offer EXCEPT ![p] = t]
    /\ stage' = "edited"
    /\ UNCHANGED <<plan, holder, active, submitted, seen, todo, had, since, history, reverting, looked>>

BeginApply ==
    /\ stage \in {"open", "edited"} /\ todo = {} /\ Ready
    /\ stage' = "applying"
    /\ had' = holder /\ since' = {}
    /\ UNCHANGED <<plan, holder, active, submitted, seen, todo, offer, history, reverting, looked, changes>>

(* What Apply writes: the subjects that differ from what it read, and every *)
(* form teacher of the proposal.                                            *)
Touched == {p \in Posts : IF p[2] = Form THEN offer[p] # Nobody ELSE p \in Needs /\ offer[p] # had[p]}

(* Other runs' snapshots go stale. *)
Stale(ps) == [r \in DOMAIN history |-> [history[r] EXCEPT !.changed = @ \union ps]]

WrittenMeanwhile(ps) == IF stage = "applying" THEN since \union ps ELSE since

TouchedSubjects(ps) == {p[1] : p \in {q \in ps : q[2] # Form}}

SnapshotClasses(ps) == {p[1] : p \in ps}

FinishApply ==
    /\ stage = "applying"
    /\ holder' = [p \in Posts |-> IF p \in Touched THEN offer[p] ELSE holder[p]]
    /\ history' = Append(Stale(Touched),
           [touched |-> Touched,
            previous |-> [p \in Posts |-> CASE p \notin Touched -> Nobody
                                            [] p \in Touched /\ p[2] = Form -> holder[p]
                                            [] p \in Touched /\ p[2] # Form -> had[p]],
            classes |-> SnapshotClasses(Touched), reverted |-> FALSE,
            before |-> holder, changed |-> since])
    /\ stage' = "none" /\ offer' = Empty /\ seen' = [holder |-> Empty, active |-> {}]
    /\ had' = Empty /\ since' = {}
    /\ UNCHANGED <<plan, active, submitted, todo, reverting, looked, changes>>

-----------------------------------------------------------------------------
(* A run is reverted unless one of its classes has a submitted timetable. *)

RevertLook(r) ==
    /\ reverting = 0 /\ todo = {}
    /\ ~history[r].reverted
    /\ history[r].classes \intersect submitted = {}
    /\ reverting' = r
    /\ looked' = submitted
    /\ UNCHANGED <<plan, holder, active, submitted, stage, seen, todo, offer, had, since, history, changes>>

RevertWrite ==
    /\ reverting # 0
    /\ LET run == history[reverting] IN
       /\ holder' = [p \in Posts |-> IF p \in run.touched THEN run.previous[p] ELSE holder[p]]
       /\ history' = [Stale(run.touched) EXCEPT ![reverting].reverted = TRUE]
       /\ since' = WrittenMeanwhile(run.touched)
    /\ reverting' = 0 /\ looked' = {}
    /\ UNCHANGED <<plan, active, submitted, stage, seen, todo, offer, had, changes>>

-----------------------------------------------------------------------------
(* Meanwhile. *)

(* Written by hand; only a qualified teacher is given a subject.  Subjects  *)
(* without hours concern no run.                                            *)
Assign(p, t) ==
    /\ Change
    /\ p[2] = Form \/ (p \in Needs /\ p[2] \in plan.qualified[t])
    /\ holder' = [holder EXCEPT ![p] = t]
    /\ history' = Stale({p})
    /\ since' = WrittenMeanwhile({p})
    /\ UNCHANGED <<plan, active, submitted, stage, seen, todo, offer, had, reverting, looked>>

Resign(t) ==
    /\ Change
    /\ t \in active
    /\ active' = active \ {t}
    /\ UNCHANGED <<plan, holder, submitted, stage, seen, todo, offer, had, since, history, reverting, looked>>

(* A timetable is submitted, or returned to be a draft again. *)
SubmitOrReturn(c) ==
    /\ Change
    /\ submitted' = IF c \in submitted THEN submitted \ {c} ELSE submitted \union {c}
    /\ UNCHANGED <<plan, holder, active, stage, seen, todo, offer, had, since, history, reverting, looked>>

AllocationNext ==
    \/ Propose
    \/ \E p \in todo : Continue(p) \/ Choose(p) \/ LeaveEmpty(p) \/ SuggestForm(p)
    \/ \E p \in Posts, t \in Teachers \union {Nobody} : Edit(p, t)
    \/ BeginApply
    \/ FinishApply
    \/ \E r \in DOMAIN history : RevertLook(r)
    \/ RevertWrite
    \/ \E p \in Posts, t \in Teachers : Assign(p, t)
    \/ \E t \in Teachers : Resign(t)
    \/ \E c \in Classes : SubmitOrReturn(c)

AllocationSpec == AllocationInit /\ [][AllocationNext]_allocationVars

-----------------------------------------------------------------------------
(* Properties. *)

(* Nobody is taken past the limit: who is over it got nothing new. *)
LimitKept ==
    \A t \in Teachers : Load(t) > plan.limit => \A p \in Given(t) : Kept(p)

Decided(p) == p \notin todo

(* A subject is left without a teacher only when the assignments made       *)
(* before and the subjects that are as scarce fill the week of every        *)
(* qualified teacher: none of them was lost to a subject others could teach. *)
ScarceFirst ==
    \A p \in Needs : Decided(p) /\ offer[p] = Nobody =>
        \A t \in Qualified(p) :
            Hours(p) + HoursOf({q \in Given(t) : Kept(q) \/ Scarcity(q) <= Scarcity(p)}) > plan.limit

(* Last year's teacher is passed over only for want of room. *)
ContinuityFirst ==
    \A p \in Needs : Decided(p) /\ ~Kept(p) /\ plan.last[p] \in Qualified(p) \ {offer[p]} =>
        ~Fits(plan.last[p], p)

(* Where teachers and subjects are alike, the weeks are too. *)
EvenLoads ==
    /\ \A t \in Teachers : t \in seen.active /\ plan.qualified[t] = Subjects
    /\ \A p, q \in Needs : Hours(p) = Hours(q) /\ plan.last[p] = Nobody /\ ~Kept(p)
    => \A t, u \in Teachers, p \in Needs : Load(t) <= Load(u) + Hours(p)

(* Nobody is form teacher of two classes by the proposal's doing, and a     *)
(* class without a suggestion is taught by nobody who would be free.        *)
FormTeacherOnce ==
    \A p, q \in Posts : p[2] = Form /\ q[2] = Form /\ Decided(p) =>
        /\ offer[p] # Nobody /\ p # q => offer[p] \notin {offer[q], seen.holder[q]}
        /\ offer[p] = Nobody /\ p \in FormsWanted(seen.holder) =>
               \A s \in Needs : s[1] = p[1] => offer[s] \in Taken \union {Nobody}

(* A proposal that nobody has edited yet. *)
AllocationSound ==
    /\ AllocationTypeOK
    /\ stage = "open" =>
        LimitKept /\ ScarceFirst /\ ContinuityFirst /\ EvenLoads /\ FormTeacherOnce

(* A revert gives every post back as it was before the run, but for those   *)
(* that others wrote since the run read them, and changes nothing for a     *)
(* class whose timetable was submitted when it looked.                      *)
AllocationReverts ==
    [][\A r \in DOMAIN history :
          ~history[r].reverted /\ history'[r].reverted =>
              /\ \A p \in Posts \ history[r].changed : holder'[p] = history[r].before[p]
              /\ \A p \in Posts : p[1] \in looked => holder'[p] = holder[p]
      ]_allocationVars

=============================================================================
