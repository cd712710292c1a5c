---------------------------- MODULE MCGeneration ----------------------------
(***************************************************************************)
(* Small schools for the generator: two classes with a week of two days    *)
(* and an interval, and teachers who are away or booked elsewhere.         *)
(***************************************************************************)
EXTENDS Generation

CONSTANTS maths, science, music,   \* subjects
          mia, sam, lee,           \* teachers
          hall, lab1, lab2         \* rooms

MCRows == <<"period", "period", "interval", "period">>
MCClasses == {1, 2}
MCSubjects == {maths, science, music}
MCTeachers == {mia, sam, lee}
MCRooms == {hall, lab1, lab2}

Req(subject, periods, labs, doubles) ==
    [subject |-> subject, periods |-> periods, labs |-> labs, doubles |-> doubles]

Teaching(first, second, third) ==
    [c \in MCClasses |-> [s \in MCSubjects |->
        IF s = maths THEN first[c] ELSE IF s = science THEN second[c] ELSE third[c]]]

Quiet == [classes |-> {1, 2}, needs |-> [c \in MCClasses |-> <<>>],
          teacher |-> Teaching(<<mia, mia>>, <<sam, sam>>, <<lee, lee>>),
          form |-> [c \in MCClasses |-> None],
          home |-> [c \in MCClasses |-> None],
          labs |-> [s \in MCSubjects |-> <<>>], blocks |-> <<>>,
          bookings |-> {}, away |-> {}]

Sets(n) == {x \in SUBSET Slots : Cardinality(x) = n}
Monday == {s \in Slots : s.day = 1}

\* One teacher for both classes and little time: repairs are needed.
Crowded ==
    {[Quiet EXCEPT
        !.needs = [c \in MCClasses |-> <<Req(maths, 2, 0, 0), Req(science, n, 0, 0)>>],
        !.home = [c \in MCClasses |-> IF c = 1 THEN room ELSE None],
        !.away = ({mia} \X a) \cup ({sam} \X (b \cup {s \in Monday : s.row < 3}))] :
            n \in {1, 2}, room \in {None, hall}, a \in Sets(2), b \in Sets(1)}

\* Option blocks, with a class that is not generated or belongs to another
\* section, and subjects without a teacher, some taught by a form teacher.
Optional ==
    {[Quiet EXCEPT
        !.classes = classes,
        !.needs = [c \in MCClasses |-> <<Req(music, 1, 0, 0), Req(maths, 3, 0, 1)>>],
        !.teacher = Teaching(<<mia, None>>, <<sam, sam>>, <<lee, other>>),
        !.form = [c \in MCClasses |-> form],
        !.blocks = <<[classes |-> shared, subjects |-> {music}, periods |-> 2]>>,
        !.bookings = [user : {mia}, slot : {[day |-> 2, row |-> 1]}],
        !.away = {lee} \X (Slots \ a)] :
            classes \in {{1}, {1, 2}}, shared \in {{1}, {1, 2}, {1, 9}},
            other \in {None, sam}, form \in {None, mia}, a \in Sets(1) \cup Sets(2)}

\* Lessons in labs, which are booked for some periods, and double periods.
Practical ==
    {[Quiet EXCEPT
        !.needs = [c \in MCClasses |-> <<Req(science, 2 + c, l, 1)>>],
        !.teacher = Teaching(<<mia, mia>>, <<sam, mia>>, <<lee, lee>>),
        !.home = [c \in MCClasses |-> hall],
        !.labs = [s \in MCSubjects |-> <<lab1, lab2>>],
        !.bookings = [user : {lab1}, slot : a] \cup [user : {hall}, slot : Monday]] :
            l \in 1..3, a \in Sets(2)}

MCSchools == Crowded \cup Optional \cup Practical
=============================================================================
