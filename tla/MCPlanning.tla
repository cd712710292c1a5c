----------------------------- MODULE MCPlanning -----------------------------
(* The two planning engines of next year, one or the other: the calls of   *)
(* Placement, one family per rule, and the requests of Allocation.         *)
EXTENDS Placement, Allocation
Newcomer == [section |-> 0, medium |-> Unset, stream |-> Unset, group |-> Unset,
             choice |-> Unset, gender |-> CHOOSE g \in Genders : TRUE]

Open(section, capacity) ==
    [section |-> section, medium |-> Unset, stream |-> Unset, group |-> Unset,
     capacity |-> capacity, occupied |-> 0, new |-> FALSE]

Sizes(capacities) == [c \in DOMAIN capacities |-> Open(c, capacities[c])]

Call(rule, byMarks, list, sections) ==
    [policy |-> rule, spread |-> byMarks, students |-> list, classes |-> sections]

(* Reshuffled by size and gender, or by marks. *)
ByGender ==
    LET lists == {[i \in 1..6 |-> [Newcomer EXCEPT !.gender = f[i]]] : f \in [1..6 -> Genders]}
        grades == {Sizes(k) : k \in {<<3, 3>>, <<2, 2>>, <<2, 2, 2>>, <<2, 4>>, <<3, 1, 2>>, <<4>>}}
                    \union {[Sizes(<<3, 3>>) EXCEPT ![1].occupied = o] : o \in {1, 4}}
    IN  {Call("balanced_reshuffle", m, l, g) : m \in BOOLEAN, l \in lists, g \in grades}

(* Some genders are not recorded. *)
ByUnknownGender ==
    LET lists == {[i \in 1..4 |-> [Newcomer EXCEPT !.gender = f[i]]] :
                    f \in [1..4 -> Genders \union {Unset}]}
    IN  {Call("balanced_reshuffle", FALSE, l, Sizes(<<2, 2>>)) : l \in lists}

MediumSets == Mediums \union {Unset}

TwoClasses(mediums) ==
    {[c \in 1..2 |-> [Open(c, k[c]) EXCEPT !.medium = m[c]]] :
        k \in [1..2 -> 1..2], m \in [1..2 -> mediums]}

(* Classes and students of several mediums. *)
ByMedium ==
    LET lists == {[i \in 1..4 |-> [Newcomer EXCEPT !.medium = f[i]]] : f \in [1..4 -> MediumSets]}
    IN  {Call("balanced_reshuffle", m, l, g) : m \in BOOLEAN, l \in lists, g \in TwoClasses(MediumSets)}

(* Returning students and admissions. *)
BySection ==
    LET mediums == {Unset, CHOOSE m \in Mediums : TRUE}
        kinds == (0..3) \X mediums
        lists == {[i \in 1..3 |-> [Newcomer EXCEPT !.section = f[i][1], !.medium = f[i][2]]] :
                    f \in [1..3 -> kinds]}
        longer == {[i \in 1..5 |-> [Newcomer EXCEPT !.section = f[i]]] : f \in [1..5 -> 0..2]}
    IN  {Call("keep_section", m, l, g) : m \in BOOLEAN, l \in lists, g \in TwoClasses(mediums)}
          \union {Call("keep_section", m, l, Sizes(k)) :
                    m \in BOOLEAN, l \in longer, k \in {<<1, 2>>, <<2, 1>>, <<2, 2>>, <<1, 1, 2>>}}

(* Combinations of subjects. *)
ByChoice ==
    LET lists == {[i \in 1..6 |-> [Newcomer EXCEPT !.choice = f[i]]] :
                    f \in [1..6 -> Combinations \union {Unset}]}
        grades == {Sizes(k) : k \in {<<3, 3>>, <<2, 4>>, <<4, 1>>, <<2, 2>>, <<1, 2, 3>>}}
                    \union {[Sizes(<<3, 3>>) EXCEPT ![1].occupied = 1], <<>>}
    IN  {Call("by_subject_choice", FALSE, l, g) : l \in lists, g \in grades}

(* Streams, their groups and a medium. *)
ByStream ==
    LET groups == Groups \union {Unset}
        kinds == {[Newcomer EXCEPT !.stream = s, !.group = g] :
                    s \in Streams \union {Unset}, g \in groups}
        grades == {[c \in 1..2 |-> [Open(c, k[c]) EXCEPT !.stream = s[c], !.group = g[c]]] :
                    k \in [1..2 -> 1..2], s \in [1..2 -> Streams], g \in [1..2 -> groups]}
    IN  {Call("by_stream", FALSE, l, g) : l \in [1..3 -> kinds], g \in grades}

Families == {ByGender, ByUnknownGender, ByMedium, BySection, ByChoice, ByStream}

-----------------------------------------------------------------------------
(* Three classes, the first two of one grade. *)
GradeOf == <<1, 1, 2>>

Both(f) == [g \in {1, 2} |-> f]

Quiet == [qualified |-> [t \in Teachers |-> Subjects], hours |-> Both([s \in Subjects |-> 1]),
          limit |-> 2, last |-> Empty, suggest |-> FALSE, runs |-> 1, changes |-> 0]

Request(p, h) == [plan |-> p, holder |-> h]

Hold(f) == [p \in Posts |-> IF p \in DOMAIN f THEN f[p] ELSE Nobody]

(* Any qualifications and hours. *)
ByQualification ==
    {Request([Quiet EXCEPT !.qualified = q, !.hours[1] = h, !.limit = l], Empty) :
        q \in [Teachers -> SUBSET Subjects], h \in [Subjects -> 1..2], l \in 2..3}

SomeTeacher == CHOOSE t \in Teachers : TRUE
SomeSubject == CHOOSE s \in Subjects : TRUE
FirstTwo == {1, 2} \X Subjects
FirstGrade(subjects) == <<[s \in Subjects |-> IF s \in subjects THEN 1 ELSE 0], [s \in Subjects |-> 0]>>

(* Any teachers last year, one of them assigned again already. *)
ByContinuity ==
    {Request([Quiet EXCEPT !.hours = FirstGrade(Subjects), !.last = Hold(f), !.limit = l,
                           !.qualified[SomeTeacher] = q],
             Hold([p \in {<<1, SomeSubject>>} |-> h])) :
        f \in [FirstTwo -> Teachers \union {Nobody}], l \in 1..2, h \in {SomeTeacher, Nobody},
        q \in {{}, Subjects}}

(* Form teachers of this year and last year. *)
ByForm ==
    LET forms == [{1, 2} \X {Form} -> Teachers \union {Nobody}]
    IN  {Request([Quiet EXCEPT !.suggest = TRUE, !.last = Hold(f)], Hold(h)) :
            f \in forms, h \in forms}

(* A small school in which others do as much as one run or two allow. *)
Small(r, n) ==
    {Request([Quiet EXCEPT !.hours = FirstGrade({SomeSubject}), !.suggest = TRUE,
                           !.runs = r, !.changes = n],
             Hold([p \in {<<1, SomeSubject>>, <<2, Form>>, <<3, Form>>} |->
                      IF p[1] = 1 THEN h ELSE SomeTeacher])) :
        h \in Teachers \union {Nobody}}

ByHistory == Small(1, 2) \union Small(2, 1)

Requests == {ByQualification, ByContinuity, ByForm, ByHistory}

-----------------------------------------------------------------------------
(* While one engine works, the other has nothing to do. *)
PlacementIdle ==
    /\ policy = "keep_section" /\ spread = FALSE
    /\ students = <<>> /\ grade = <<>> /\ place = <<>>

AllocationIdle ==
    /\ plan = [Quiet EXCEPT !.runs = 0] /\ holder = Empty
    /\ active = Teachers /\ submitted = {}
    /\ stage = "none" /\ todo = {} /\ offer = Empty
    /\ seen = [holder |-> Empty, active |-> {}]
    /\ had = Empty /\ since = {}
    /\ history = <<>> /\ reverting = 0 /\ looked = {}
    /\ changes = 0

PlanningInit ==
    \/ PlacementInit /\ AllocationIdle
    \/ PlacementIdle /\ AllocationInit

PlanningNext ==
    \/ PlacementNext /\ UNCHANGED allocationVars
    \/ AllocationNext /\ UNCHANGED placementVars

PlanningSpec == PlanningInit /\ [][PlanningNext]_<<placementVars, allocationVars>>

=============================================================================
