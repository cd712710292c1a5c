----------------------------- MODULE Generation -----------------------------
(***************************************************************************)
(* The timetable generator (timetable/generation.go, generation_blocks.go) *)
(* for the classes of one grade section.  Option blocks go first: each     *)
(* needs a period in which all its classes and teachers are free.  Then    *)
(* the lessons, class by class and subject by subject, double periods      *)
(* before single ones.  At last the repair pass tries to fit a lesson that *)
(* found no period by moving another lesson of its teacher.                *)
(*                                                                         *)
(* The periods of a class and subject are tried in a shuffled order, which *)
(* is modelled as any order; so are the candidates of a repair.  The maps  *)
(* classBusy, teacherBusy and classroomBusy are one set of resources and   *)
(* periods.  Reading the data and writing the drafts is in Timetable.      *)
(***************************************************************************)
EXTENDS Naturals, FiniteSets, Sequences

CONSTANTS
    Classes,   \* the classes of the section: positive numbers, in their order
    Others,    \* classes of other sections
    Teachers,
    Rooms,
    Subjects,
    Days,      \* school days
    Rows,      \* the section's day: a sequence of "period" and "interval"
    Schools,   \* the situations to generate from
    None

ASSUME RowsAssumption == Rows \in Seq({"period", "interval"})

Slots == [day : Days, row : {k \in DOMAIN Rows : Rows[k] = "period"}]

\* Mutant: the next period of the day, whatever lies between.
DoublesAcross ==
    {p \in SUBSET Slots : \E s, t \in Slots :
        /\ p = {s, t} /\ s.day = t.day /\ s.row < t.row
        /\ \A k \in DOMAIN Rows : s.row < k /\ k < t.row => Rows[k] = "interval"}

\* Two periods that follow each other without an interval between them.
Doubles ==
    {p \in SUBSET Slots : \E s, t \in Slots :
        p = {s, t} /\ s.day = t.day /\ t.row = s.row + 1}

\* What upsert of subject_period_requirement lets through.
Requirements ==
    {r \in [subject : Subjects, periods : Nat, labs : Nat, doubles : Nat] :
        r.labs <= r.periods /\ 2 * r.doubles <= r.periods}

Blocks == [classes : SUBSET (Classes \cup Others), subjects : SUBSET Subjects, periods : Nat]

School == [
    classes  : SUBSET Classes,                 \* those without a submitted timetable
    needs    : [Classes -> Seq(Requirements)], \* what the grade of a class requires
    teacher  : [Classes -> [Subjects -> Teachers \cup {None}]],
    form     : [Classes -> Teachers \cup {None}],
    home     : [Classes -> Rooms \cup {None}],
    labs     : [Subjects -> Seq(Rooms)],
    blocks   : Seq(Blocks),
    bookings : SUBSET [user : Teachers \cup Rooms, slot : Slots],
    away     : SUBSET (Teachers \X Slots)]     \* teacher_availability

ASSUME SchoolsAssumption == Schools \subseteq School
ASSUME ClassesAssumption == Classes \subseteq Nat \ {0}
ASSUME NoneAssumption == None \notin Rooms \cup Teachers
\* So that one set of resources stands for the three maps.
ASSUME DisjointAssumption ==
    /\ Teachers \cap (Classes \cup Others \cup Rooms) = {}
    /\ Rooms \cap (Classes \cup Others) = {}

VARIABLES
    school,    \* what was read; nothing changes it
    todo,      \* the items not tried yet
    at,        \* at[i]: the periods and the room of item i, none if not placed
    busy,      \* the periods in which a class, teacher or room is taken
    unplaced,  \* lessons that found no period in their turn
    gaps,      \* what is reported as not placed
    freed      \* history: what was taken in a period that a repair vacated

vars == <<school, todo, at, busy, unplaced, gaps, freed>>

-----------------------------------------------------------------------------
(* Items: one period of an option block (class = 0, row = the block), or a *)
(* lesson (row = the requirement of the class).                            *)

Complete(b) == b.classes \subseteq school.classes

\* A subject that a block covers for a class is no lesson of that class.
Covered(c, s) ==
    \E k \in DOMAIN school.blocks :
        /\ Complete(school.blocks[k])
        /\ c \in school.blocks[k].classes /\ s \in school.blocks[k].subjects

\* class_subject_teachers, else the form teacher, else None.
TeacherOf(c, s) ==
    IF school.teacher[c][s] # None THEN school.teacher[c][s] ELSE school.form[c]

\* Double periods, then single ones for the rest.
Pieces(r) == 1 .. (r.periods - r.doubles)

BlockItems ==
    UNION {[class : {0}, row : {k}, nth : 1..school.blocks[k].periods] :
               k \in {k \in DOMAIN school.blocks : Complete(school.blocks[k])}}

\* A requirement without a teacher is reported and has no items.
LessonsOf(c) ==
    LET needs == school.needs[c] IN
    UNION {[class : {c}, row : {k}, nth : Pieces(needs[k])] :
               k \in {k \in DOMAIN needs : /\ ~Covered(c, needs[k].subject)
                                           /\ TeacherOf(c, needs[k].subject) # None}}

Items == BlockItems \cup UNION {LessonsOf(c) : c \in school.classes}

\* The order of the loops.
Before(i, j) ==
    \/ i.class < j.class
    \/ i.class = j.class /\ i.row < j.row
    \/ i.class = j.class /\ i.row = j.row /\ i.nth < j.nth

First(i, set) == i \in set /\ \A j \in set : ~Before(j, i)

IsLesson(i) == i.class # 0
Need(i) == school.needs[i.class][i.row]
Block(i) == school.blocks[i.row]
Double(i) == IsLesson(i) /\ i.nth <= Need(i).doubles

\* Mutant: the periods of the doubles before it are not counted.
LabByPiece(i) == IsLesson(i) /\ i.nth <= Need(i).labs

\* The first labs of a requirement's periods are in a lab; a double counts two.
Lab(i) ==
    /\ IsLesson(i)
    /\ IF Double(i) THEN 2 * (i.nth - 1) < Need(i).labs
                    ELSE Need(i).doubles + i.nth <= Need(i).labs

ClassesOf(i) == IF IsLesson(i) THEN {i.class} ELSE Block(i).classes

\* For a block: the assigned teachers of its subjects in all its classes.
TeachersOf(i) ==
    IF IsLesson(i) THEN {TeacherOf(i.class, Need(i).subject)}
    ELSE {school.teacher[c][s] : c \in Block(i).classes, s \in Block(i).subjects} \ {None}

\* Mutant: a lesson without a room takes "no room".
UsedWithNone(i, room) == ClassesOf(i) \cup TeachersOf(i) \cup {room}

\* What item i occupies when it is held in this room.
Used(i, room) == ClassesOf(i) \cup TeachersOf(i) \cup ({room} \ {None})

-----------------------------------------------------------------------------
NotPlaced == [slots |-> {}, room |-> None]

TypeOK ==
    /\ school \in Schools
    /\ todo \subseteq Items
    /\ at \in [Items -> [slots : SUBSET Slots, room : Rooms \cup {None}]]
    /\ busy \subseteq (Classes \cup Teachers \cup Rooms) \X Slots
    /\ unplaced \subseteq Items
    /\ gaps \subseteq Items
    /\ freed \subseteq (Classes \cup Teachers \cup Rooms) \X Slots

Init ==
    /\ school \in Schools
    /\ todo = Items
    /\ at = [i \in Items |-> NotPlaced]
    /\ busy = {<<b.user, b.slot>> : b \in school.bookings}
    /\ unplaced = {}
    /\ gaps = {}
    /\ freed = {}

Free(users, slots) == \A u \in users, s \in slots : <<u, s>> \notin busy

\* Mutant: the teachers of a block are not asked.
ThereForLessons(i, slots) ==
    IsLesson(i) => \A t \in TeachersOf(i), s \in slots : <<t, s>> \notin school.away

There(i, slots) == \A t \in TeachersOf(i), s \in slots : <<t, s>> \notin school.away

\* The first lab of the subject that is free in this period, or the home room.
RoomFor(i, room, s) ==
    IF Lab(i)
    THEN LET labs == school.labs[Need(i).subject] IN
         \E k \in DOMAIN labs : /\ labs[k] = room /\ Free({room}, {s})
                                /\ \A j \in 1..(k - 1) : ~Free({labs[j]}, {s})
    ELSE room = IF IsLesson(i) THEN school.home[i.class] ELSE None

Shapes(i) == IF Double(i) THEN Doubles ELSE {{s} : s \in Slots}

\* okSlot and free: where the item fits.  Both periods of a double need one room.
Options(i) ==
    {o \in [slots : Shapes(i), room : Rooms \cup {None}] :
        /\ \A s \in o.slots : RoomFor(i, o.room, s)
        /\ Free(Used(i, o.room), o.slots)
        /\ There(i, o.slots)}

Siblings(i) == {j \in DOMAIN at : j.class = i.class /\ j.row = i.row}

\* No lesson of the subject on that day yet.
OnNewDay(i, o) ==
    \A j \in Siblings(i) : \A s \in o.slots, t \in at[j].slots : s.day # t.day

Choices(i) ==
    LET fresh == {o \in Options(i) : OnNewDay(i, o)}
    IN  IF fresh # {} THEN fresh ELSE Options(i)

-----------------------------------------------------------------------------
Place(i) ==
    /\ First(i, todo)
    /\ todo' = todo \ {i}
    /\ \E o \in Choices(i) :
        /\ at' = [at EXCEPT ![i] = o]
        /\ busy' = busy \cup Used(i, o.room) \X o.slots
    /\ UNCHANGED <<school, unplaced, gaps, freed>>

\* No period for an item of a block: reported at once.
SkipBlock(i) ==
    /\ First(i, todo) /\ ~IsLesson(i) /\ Options(i) = {}
    /\ todo' = todo \ {i}
    /\ gaps' = gaps \cup {i}
    /\ UNCHANGED <<school, at, busy, unplaced, freed>>

\* Mutant: only days without a lesson of the subject are tried.
SkipLessonOnNewDay(i) ==
    /\ First(i, todo) /\ IsLesson(i) /\ {o \in Options(i) : OnNewDay(i, o)} = {}
    /\ todo' = todo \ {i}
    /\ unplaced' = unplaced \cup {i}
    /\ UNCHANGED <<school, at, busy, gaps, freed>>

\* No period for a lesson: it waits for the repair pass.
SkipLesson(i) ==
    /\ First(i, todo) /\ IsLesson(i) /\ Options(i) = {}
    /\ todo' = todo \ {i}
    /\ unplaced' = unplaced \cup {i}
    /\ UNCHANGED <<school, at, busy, gaps, freed>>

\* Mutant: the class of the lesson that moves is not asked.
MovableForTeacher(i, j, s, t) ==
    /\ ~Double(i) /\ ~Lab(i)
    /\ Free({i.class}, {s}) /\ There(i, {s})
    /\ IsLesson(j) /\ TeachersOf(j) = TeachersOf(i) /\ at[j].slots = {s}
    /\ t # s /\ Free(TeachersOf(j), {t}) /\ There(i, {t})
    /\ \/ school.home[i.class] \in {None, at[j].room}
       \/ Free({school.home[i.class]}, {s})

\* Lesson i may take period s if lesson j of the same teacher moves to t.
Movable(i, j, s, t) ==
    /\ ~Double(i) /\ ~Lab(i)
    /\ Free({i.class}, {s}) /\ There(i, {s})
    /\ IsLesson(j) /\ TeachersOf(j) = TeachersOf(i) /\ at[j].slots = {s}
    /\ t # s /\ Free(Used(j, at[j].room), {t}) /\ There(i, {t})
    /\ \/ school.home[i.class] \in {None, at[j].room}
       \/ Free({school.home[i.class]}, {s})

\* Mutant: the room that becomes free is not given back, nor is the new one
\* taken.
SwapTeacherOnly(i, j, s, t) ==
    (busy \ (ClassesOf(j) \X {s})) \cup
        ((ClassesOf(j) \cup TeachersOf(j)) \X {t}) \cup ({i.class} \X {s})

\* The periods in use after the move.
Swap(i, j, s, t) ==
    (busy \ (Used(j, at[j].room) \X {s})) \cup
        (Used(j, at[j].room) \X {t}) \cup (Used(i, school.home[i.class]) \X {s})

\* Mutant: the moved lesson is held in the other class's room.
MoveIntoHome(i, j, s, t) ==
    [at EXCEPT ![j] = [slots |-> {t}, room |-> school.home[i.class]],
               ![i] = [slots |-> {s}, room |-> school.home[i.class]]]

Moved(i, j, s, t) ==
    [at EXCEPT ![j] = [slots |-> {t}, room |-> at[j].room],
               ![i] = [slots |-> {s}, room |-> school.home[i.class]]]

Repair(i) ==
    /\ todo = {} /\ First(i, unplaced)
    /\ \E j \in DOMAIN at, s, t \in Slots :
        /\ Movable(i, j, s, t)
        /\ at' = Moved(i, j, s, t)
        /\ busy' = Swap(i, j, s, t)
        /\ freed' = freed \cup Used(j, at[j].room) \X {s}
    /\ unplaced' = unplaced \ {i}
    /\ UNCHANGED <<school, todo, gaps>>

\* Mutant: nothing is reported.
GiveUpQuietly(i) ==
    /\ todo = {} /\ First(i, unplaced)
    /\ ~\E j \in DOMAIN at, s, t \in Slots : Movable(i, j, s, t)
    /\ unplaced' = unplaced \ {i}
    /\ UNCHANGED <<school, todo, at, busy, gaps, freed>>

GiveUp(i) ==
    /\ todo = {} /\ First(i, unplaced)
    /\ ~\E j \in DOMAIN at, s, t \in Slots : Movable(i, j, s, t)
    /\ unplaced' = unplaced \ {i}
    /\ gaps' = gaps \cup {i}
    /\ UNCHANGED <<school, todo, at, busy, freed>>

\* generate returns: the drafts are written.
Finished == todo = {} /\ unplaced = {} /\ UNCHANGED vars

Next ==
    \/ \E i \in DOMAIN at :
           \/ Place(i) \/ SkipBlock(i) \/ SkipLesson(i)
           \/ Repair(i) \/ GiveUp(i)
    \/ Finished

Spec == Init /\ [][Next]_vars

-----------------------------------------------------------------------------
(* Properties.                                                             *)

Placed(i) == at[i].slots # {}

\* No class, teacher or room is in two places at once: neither two items of
\* this run nor an item and a booking of another timetable, however many
\* lessons the repair pass has moved.
NoClash ==
    /\ \A i, j \in DOMAIN at :
           i # j /\ at[i].slots \cap at[j].slots # {}
               => Used(i, at[i].room) \cap Used(j, at[j].room) = {}
    /\ \A i \in DOMAIN at, b \in school.bookings :
           b.slot \in at[i].slots => b.user \notin Used(i, at[i].room)

\* The bookings of other timetables and the items placed by this run.
Taken ==
    {<<b.user, b.slot>> : b \in school.bookings} \cup
        UNION {Used(i, at[i].room) \X at[i].slots : i \in DOMAIN at}

\* The busy maps say exactly what is taken, also after a repair has moved a
\* lesson: a period that was left behind can be used again.
BusyIsTaken == busy = Taken

\* Nobody teaches when they said they are away, block teachers and moved
\* lessons included.
AwayRespected ==
    \A i \in DOMAIN at : \A t \in TeachersOf(i), s \in at[i].slots : <<t, s>> \notin school.away

\* Every item is in one place of the result: to do, placed, waiting for the
\* repair pass, or reported.
Accounted ==
    LET placed == {i \in DOMAIN at : Placed(i)} IN
    /\ todo \cup placed \cup unplaced \cup gaps = DOMAIN at
    /\ todo \cap (placed \cup unplaced \cup gaps) = {}
    /\ placed \cap (unplaced \cup gaps) = {}
    /\ unplaced \cap gaps = {}

\* A lesson that is placed is where such a lesson can be: a double in two
\* periods without an interval between them, a lab lesson in a lab of its
\* subject, any other in the home room, wherever a repair has moved it.
WellPlaced ==
    \A i \in DOMAIN at : Placed(i) =>
        /\ IsLesson(i) => Cardinality(at[i].slots) = IF Double(i) THEN 2 ELSE 1
        /\ \A s, t \in at[i].slots :
               /\ s.day = t.day
               /\ \A k \in DOMAIN Rows : s.row < k /\ k <= t.row => Rows[k] = "period"
        /\ IF Lab(i) THEN \E k \in DOMAIN school.labs[Need(i).subject] :
                              at[i].room = school.labs[Need(i).subject][k]
           ELSE at[i].room = IF IsLesson(i) THEN school.home[i.class] ELSE None

\* The lab lessons of a requirement make up its lab periods: as many, or one
\* more when the last of them is half of a double.
LabHours ==
    \A c \in school.classes : \A k \in DOMAIN school.needs[c] :
        LET r == school.needs[c][k]
            labs == {i \in DOMAIN at : i.class = c /\ i.row = k /\ Lab(i)}
            hours == Cardinality(labs) + Cardinality({i \in labs : Double(i)})
        IN  \/ Covered(c, r.subject) \/ TeacherOf(c, r.subject) = None
            \/ hours = r.labs
            \/ hours = r.labs + 1 /\ \A i \in labs : Double(i)

\* Where a lesson could be held, by what is taken and not by the busy maps.
HasPlace(i, taken) ==
    \E slots \in Shapes(i), room \in Rooms \cup {None} :
        /\ IF Lab(i) THEN \E k \in DOMAIN school.labs[Need(i).subject] :
                              room = school.labs[Need(i).subject][k]
           ELSE room = IF IsLesson(i) THEN school.home[i.class] ELSE None
        /\ There(i, slots)
        /\ \A u \in Used(i, room), s \in slots : <<u, s>> \notin taken

\* "The week is fully booked for this class/teacher": what is reported as not
\* placed fits nowhere in the week that came out, however many repairs there
\* were, except where it needs a class, teacher or room in a period that a
\* repair vacated later.  A double lab lesson only tries the first lab that is
\* free.
GapsAreReal ==
    \A i \in gaps \cup unplaced :
        ~(Lab(i) /\ Double(i)) => ~HasPlace(i, Taken \cup freed)

\* The repair pass loses nothing: a lesson that is placed stays placed, with
\* as many periods and in its room.
NoLessonLost ==
    [][\A i \in DOMAIN at : Placed(i) =>
           /\ at'[i].room = at[i].room
           /\ Cardinality(at'[i].slots) = Cardinality(at[i].slots)]_vars

(* The grid and the busy maps agree, nobody and no room is in two places or *)
(* away, and every required period is placed, waiting or reported.          *)
GridConsistent ==
    /\ TypeOK
    /\ NoClash
    /\ BusyIsTaken
    /\ AwayRespected
    /\ Accounted

(* A double takes two periods without an interval between them, a practical *)
(* lesson is in a laboratory and has its hours, any other in the home room. *)
LessonsFit ==
    /\ WellPlaced
    /\ LabHours

=============================================================================
