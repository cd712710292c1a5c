-------------------------- MODULE Generation_proofs -------------------------
(***************************************************************************)
(* Proofs about Generation, for every school, week and set of classes: no  *)
(* class, teacher or room is in two places at once, the busy maps say what *)
(* is taken, nobody teaches when away, and the repair pass loses nothing.  *)
(*                                                                         *)
(* That a repair keeps the timetable free of clashes rests on the busy     *)
(* maps being exact: the period that the moved lesson leaves is free for   *)
(* the other one because nothing else of the teacher was there, which is   *)
(* NoClash of the state before, and the period it moves to is free because *)
(* everything that is taken is in the maps.                                *)
(*                                                                         *)
(* What is reported as not placed fits nowhere: when it was tried it had   *)
(* no option, and the maps together with what repairs vacated only grow.   *)
(* Where a lesson is held suits it because every option does, and a repair *)
(* moves only single lessons that need no lab.  The hours of the lab       *)
(* lessons are counted once and for all: they do not depend on the state.  *)
(***************************************************************************)
EXTENDS Generation, FiniteSetTheorems, TLAPS

(* Only lessons wait for the repair pass. *)
LessonsWait == \A i \in unplaced : IsLesson(i)

IInv ==
    /\ TypeOK /\ Accounted /\ LessonsWait
    /\ BusyIsTaken /\ NoClash /\ AwayRespected

-----------------------------------------------------------------------------
(* Nothing that is said of an item depends on more than what was read.     *)

LEMMA SameTeachers ==
    ASSUME school' = school
    PROVE  \A i : TeachersOf(i)' = TeachersOf(i)
  BY DEF TeachersOf, TeacherOf, Need, Block, IsLesson

LEMMA SameUsed ==
    ASSUME school' = school
    PROVE  \A i, room : Used(i, room)' = Used(i, room)
  BY SameTeachers DEF Used, ClassesOf, Block, IsLesson

LEMMA SameItems ==
    ASSUME school' = school
    PROVE  Items' = Items
  <1>1. \A c, s : Covered(c, s)' = Covered(c, s) /\ TeacherOf(c, s)' = TeacherOf(c, s)
    BY DEF Covered, Complete, TeacherOf
  <1>2. BlockItems' = BlockItems
    BY DEF BlockItems, Complete
  <1>3. \A c : LessonsOf(c)' = LessonsOf(c)
    BY <1>1 DEF LessonsOf
  <1>4. QED
    BY <1>2, <1>3 DEF Items

LEMMA SameLessons ==
    ASSUME school' = school
    PROVE  \A i : IsLesson(i)' = IsLesson(i)
  BY DEF IsLesson

-----------------------------------------------------------------------------
(* What an item is, and what it occupies.                                  *)

LEMMA SchoolType == ASSUME school \in Schools PROVE school \in School
  BY SchoolsAssumption

LEMMA ItemParts ==
    ASSUME school \in Schools, NEW i \in Items
    PROVE  \/ /\ i.class = 0 /\ i.row \in DOMAIN school.blocks
              /\ Complete(Block(i))
           \/ /\ i.class # 0 /\ i.class \in Classes
              /\ TeacherOf(i.class, Need(i).subject) \in Teachers
  <1>1. school \in School
    BY SchoolType
  <1>2. CASE i \in BlockItems
    BY <1>2 DEF BlockItems, Block
  <1>3. CASE \E c \in school.classes : i \in LessonsOf(c)
    <2>1. PICK c \in school.classes : i \in LessonsOf(c)
      BY <1>3
    <2>2. c \in Classes /\ c # 0
      BY <1>1, ClassesAssumption DEF School
    <2>3. PICK k \in DOMAIN school.needs[c] :
              /\ TeacherOf(c, school.needs[c][k].subject) # None
              /\ i \in [class : {c}, row : {k}, nth : Pieces(school.needs[c][k])]
      BY <2>1 DEF LessonsOf
    <2>4. i.class = c /\ i.row = k
      BY <2>3
    <2>5. school.needs[c] \in Seq(Requirements) /\ school.needs[c][k] \in Requirements
      BY <1>1, <2>2, <2>3 DEF School
    <2>6. school.needs[c][k].subject \in Subjects
      BY <2>5 DEF Requirements
    <2>7. school.teacher[c][school.needs[c][k].subject] \in Teachers \cup {None}
      BY <1>1, <2>2, <2>6 DEF School
    <2>8. school.form[c] \in Teachers \cup {None}
      BY <1>1, <2>2 DEF School
    <2>9. TeacherOf(c, school.needs[c][k].subject) \in Teachers
      BY <2>3, <2>7, <2>8 DEF TeacherOf
    <2>10. QED
      BY <2>2, <2>4, <2>9 DEF Need
  <1>4. QED
    BY <1>2, <1>3 DEF Items

LEMMA UsedType ==
    ASSUME school \in Schools, NEW i \in Items, NEW room \in Rooms \cup {None}
    PROVE  Used(i, room) \subseteq Classes \cup Teachers \cup Rooms
  <1>1. school \in School
    BY SchoolType
  <1>2. CASE IsLesson(i)
    BY <1>2, ItemParts DEF IsLesson, Used, ClassesOf, TeachersOf
  <1>3. CASE ~IsLesson(i)
    <2>1. i.row \in DOMAIN school.blocks /\ Block(i).classes \subseteq school.classes
      BY <1>3, ItemParts DEF IsLesson, Complete
    <2>2. school.classes \subseteq Classes
      BY <1>1 DEF School
    <2>3. Block(i) \in Blocks
      BY <1>1, <2>1 DEF School, Block
    <2>4. Block(i).subjects \subseteq Subjects
      BY <2>3 DEF Blocks
    <2>5. \A c \in Classes, s \in Subjects : school.teacher[c][s] \in Teachers \cup {None}
      BY <1>1 DEF School
    <2>6. TeachersOf(i) \subseteq Teachers
      BY <1>3, <2>1, <2>2, <2>4, <2>5 DEF TeachersOf
    <2>7. ClassesOf(i) \subseteq Classes
      BY <1>3, <2>1, <2>2 DEF ClassesOf
    <2>8. QED
      BY <2>6, <2>7 DEF Used
  <1>4. QED
    BY <1>2, <1>3

LEMMA HomeType ==
    ASSUME school \in Schools, NEW i \in Items, IsLesson(i)
    PROVE  school.home[i.class] \in Rooms \cup {None}
  <1>1. school \in School /\ i.class \in Classes
    BY SchoolType, ItemParts DEF IsLesson
  <1>2. QED
    BY <1>1 DEF School

LEMMA ShapeType ==
    ASSUME NEW i, NEW p \in Shapes(i)
    PROVE  p \subseteq Slots /\ p # {}
  BY DEF Shapes, Doubles

LEMMA ChoiceType ==
    ASSUME NEW i, NEW o \in Choices(i)
    PROVE  /\ o \in [slots : SUBSET Slots, room : Rooms \cup {None}]
           /\ o.slots # {}
           /\ Free(Used(i, o.room), o.slots) /\ There(i, o.slots)
  <1>1. o \in Options(i)
    BY DEF Choices
  <1>2. o \in [slots : Shapes(i), room : Rooms \cup {None}]
    BY <1>1 DEF Options
  <1>3. o.slots \in Shapes(i)
    BY <1>2
  <1>4. o.slots \subseteq Slots /\ o.slots # {}
    BY <1>3, ShapeType
  <1>5. QED
    BY <1>1, <1>2, <1>4 DEF Options

-----------------------------------------------------------------------------
LEMMA InitInv == Init => IInv
  <1> SUFFICES ASSUME Init PROVE IInv
    OBVIOUS
  <1>1. school \in School
    BY SchoolType DEF Init
  <1>2. school.bookings \subseteq [user : Teachers \cup Rooms, slot : Slots]
    BY <1>1 DEF School
  <1>3. busy \subseteq (Classes \cup Teachers \cup Rooms) \X Slots
    BY <1>2 DEF Init
  <1>4. at \in [Items -> [slots : SUBSET Slots, room : Rooms \cup {None}]]
    BY DEF Init, NotPlaced
  <1>5. TypeOK
    BY <1>3, <1>4 DEF Init, TypeOK
  <1>6. \A i \in DOMAIN at : at[i].slots = {} /\ i \in todo
    BY DEF Init, NotPlaced
  <1>7. Accounted
    BY <1>6 DEF Init, Accounted, Placed
  <1>8. BusyIsTaken
    BY <1>6 DEF Init, BusyIsTaken, Taken
  <1>9. NoClash /\ AwayRespected /\ LessonsWait
    BY <1>6 DEF Init, NoClash, AwayRespected, LessonsWait
  <1>10. QED
    BY <1>5, <1>7, <1>8, <1>9 DEF IInv

-----------------------------------------------------------------------------
(* The steps.  What is taken after a step is said point by point.          *)

LEMMA TakenAt ==
    \A u, s : <<u, s>> \in Taken <=>
        \/ \E b \in school.bookings : b.user = u /\ b.slot = s
        \/ \E i \in DOMAIN at : u \in Used(i, at[i].room) /\ s \in at[i].slots
  BY DEF Taken

LEMMA TakenNext ==
    ASSUME school' = school, DOMAIN at' = DOMAIN at
    PROVE  /\ \A u, s : <<u, s>> \in Taken' <=>
                  \/ \E b \in school.bookings : b.user = u /\ b.slot = s
                  \/ \E i \in DOMAIN at : u \in Used(i, at'[i].room) /\ s \in at'[i].slots
           /\ \A p \in Taken' : p = <<p[1], p[2]>>
  BY SameUsed DEF Taken

LEMMA SamePairs ==
    ASSUME school' = school, DOMAIN at' = DOMAIN at, TypeOK',
           \A u, s : <<u, s>> \in busy' <=> <<u, s>> \in Taken'
    PROVE  BusyIsTaken'
  <1>1. \A p \in busy' : p = <<p[1], p[2]>>
    BY DEF TypeOK
  <1>2. \A p \in Taken' : p = <<p[1], p[2]>>
    BY TakenNext
  <1>3. \A p : p \in busy' <=> p \in Taken'
    BY <1>1, <1>2
  <1>4. QED
    BY <1>3 DEF BusyIsTaken

LEMMA TypeFacts ==
    ASSUME TypeOK
    PROVE  /\ DOMAIN at = Items
           /\ \A i \in Items : /\ at[i] \in [slots : SUBSET Slots, room : Rooms \cup {None}]
                               /\ at[i].slots \subseteq Slots
                               /\ at[i].room \in Rooms \cup {None}
  BY DEF TypeOK

LEMMA PlaceInv ==
    ASSUME IInv, NEW i \in DOMAIN at, Place(i)
    PROVE  IInv'
  <1>1. PICK o \in Choices(i) :
            /\ at' = [at EXCEPT ![i] = o]
            /\ busy' = busy \cup Used(i, o.room) \X o.slots
    BY DEF Place
  <1>2. /\ i \in todo /\ todo' = todo \ {i}
        /\ school' = school /\ unplaced' = unplaced /\ gaps' = gaps /\ freed' = freed
    BY DEF Place, First
  <1>3. TypeOK /\ DOMAIN at = Items /\ i \in Items
    BY TypeFacts DEF IInv
  <1>4. /\ o \in [slots : SUBSET Slots, room : Rooms \cup {None}]
        /\ o.slots # {}
        /\ Free(Used(i, o.room), o.slots) /\ There(i, o.slots)
    BY ChoiceType
  <1>5. at[i].slots = {}
    BY <1>2, <1>3 DEF IInv, Accounted, Placed
  <1>6. /\ Items' = Items
        /\ \A k, room : Used(k, room)' = Used(k, room)
        /\ \A k : TeachersOf(k)' = TeachersOf(k) /\ IsLesson(k)' = IsLesson(k)
    BY <1>2, SameItems, SameUsed, SameTeachers, SameLessons
  <1>7. DOMAIN at' = DOMAIN at /\ at'[i] = o /\ \A k \in DOMAIN at : k # i => at'[k] = at[k]
    BY <1>1, <1>3 DEF TypeOK
  <1>8. TypeOK'
    <2>1. Used(i, o.room) \subseteq Classes \cup Teachers \cup Rooms
      BY <1>3, <1>4, UsedType DEF TypeOK
    <2>2. busy' \subseteq (Classes \cup Teachers \cup Rooms) \X Slots
      BY <2>1, <1>1, <1>3, <1>4 DEF TypeOK
    <2>3. at' \in [Items -> [slots : SUBSET Slots, room : Rooms \cup {None}]]
      BY <1>1, <1>3, <1>4 DEF TypeOK
    <2>4. QED
      BY <2>2, <2>3, <1>2, <1>3, <1>6 DEF TypeOK
  <1>9. Accounted'
    <2>1. {k \in DOMAIN at : Placed(k)}' = {k \in DOMAIN at : Placed(k)} \cup {i}
      BY <1>4, <1>7 DEF Placed
    <2>2. QED
      BY <2>1, <1>2, <1>7 DEF IInv, Accounted
  <1>10. LessonsWait'
    BY <1>2, <1>6 DEF IInv, LessonsWait
  <1>11. BusyIsTaken'
    <2>1. ASSUME NEW u, NEW s
          PROVE  <<u, s>> \in busy' <=>
                     \/ <<u, s>> \in Taken
                     \/ u \in Used(i, o.room) /\ s \in o.slots
      BY <1>1 DEF IInv, BusyIsTaken
    <2>2. ASSUME NEW u, NEW s
          PROVE  (\E k \in DOMAIN at : u \in Used(k, at'[k].room) /\ s \in at'[k].slots) <=>
                     \/ \E k \in DOMAIN at : u \in Used(k, at[k].room) /\ s \in at[k].slots
                     \/ u \in Used(i, o.room) /\ s \in o.slots
      BY <1>5, <1>7
    <2>3. \A u, s : <<u, s>> \in busy' <=> <<u, s>> \in Taken'
      BY <2>1, <2>2, <1>2, <1>7, TakenAt, TakenNext
    <2>4. QED
      BY <2>3, <1>2, <1>7, <1>8, SamePairs
  <1>12. NoClash'
    <2>1. ASSUME NEW k \in DOMAIN at, k # i, at[k].slots \cap o.slots # {}
          PROVE  Used(k, at[k].room) \cap Used(i, o.room) = {}
      BY <2>1, <1>4, TakenAt DEF IInv, BusyIsTaken, Free
    <2>2. ASSUME NEW b \in school.bookings, b.slot \in o.slots
          PROVE  b.user \notin Used(i, o.room)
      BY <2>2, <1>4, TakenAt DEF IInv, BusyIsTaken, Free
    <2>3. QED
      BY <2>1, <2>2, <1>2, <1>6, <1>7 DEF IInv, NoClash
  <1>13. AwayRespected'
    BY <1>2, <1>4, <1>6, <1>7 DEF IInv, AwayRespected, There
  <1>14. QED
    BY <1>8, <1>9, <1>10, <1>11, <1>12, <1>13 DEF IInv

(* A step that places nothing. *)
LEMMA SameTimetable ==
    ASSUME IInv, UNCHANGED <<school, at, busy, freed>>,
           todo' \subseteq Items, unplaced' \subseteq Items, gaps' \subseteq Items,
           Accounted', LessonsWait'
    PROVE  IInv'
  <1>1. /\ Items' = Items
        /\ \A k, room : Used(k, room)' = Used(k, room)
        /\ \A k : TeachersOf(k)' = TeachersOf(k)
    BY SameItems, SameUsed, SameTeachers
  <1>2. TypeOK'
    BY <1>1 DEF IInv, TypeOK
  <1>3. \A u, s : <<u, s>> \in busy' <=> <<u, s>> \in Taken'
    BY TakenAt, TakenNext DEF IInv, BusyIsTaken
  <1>4. BusyIsTaken'
    BY <1>2, <1>3, SamePairs
  <1>5. NoClash' /\ AwayRespected'
    BY <1>1 DEF IInv, NoClash, AwayRespected
  <1>6. QED
    BY <1>2, <1>4, <1>5 DEF IInv

LEMMA SkipInv ==
    ASSUME IInv, NEW i \in DOMAIN at, SkipBlock(i) \/ SkipLesson(i) \/ GiveUp(i)
    PROVE  IInv'
  <1>1. UNCHANGED <<school, at, busy, freed>>
    BY DEF SkipBlock, SkipLesson, GiveUp
  <1>2. {k \in DOMAIN at : Placed(k)}' = {k \in DOMAIN at : Placed(k)}
    BY <1>1 DEF Placed
  <1>3. Accounted' /\ LessonsWait'
    <2>1. CASE SkipBlock(i)
      BY <2>1, <1>1, <1>2 DEF IInv, SkipBlock, First, Accounted, LessonsWait, IsLesson
    <2>2. CASE SkipLesson(i)
      BY <2>2, <1>1, <1>2 DEF IInv, SkipLesson, First, Accounted, LessonsWait, IsLesson
    <2>3. CASE GiveUp(i)
      BY <2>3, <1>1, <1>2 DEF IInv, GiveUp, First, Accounted, LessonsWait, IsLesson
    <2>4. QED
      BY <2>1, <2>2, <2>3
  <1>4. i \in Items /\ todo \subseteq Items /\ unplaced \subseteq Items /\ gaps \subseteq Items
    BY TypeFacts DEF IInv, TypeOK
  <1>5. todo' \subseteq Items /\ unplaced' \subseteq Items /\ gaps' \subseteq Items
    BY <1>4 DEF SkipBlock, SkipLesson, GiveUp
  <1>6. QED
    BY <1>1, <1>3, <1>4, <1>5, SameTimetable

-----------------------------------------------------------------------------
(* A repair: lesson j leaves period s, where lesson i comes, and goes to t. *)

LEMMA RepairFacts ==
    ASSUME IInv, NEW i \in unplaced, NEW j \in DOMAIN at,
           NEW s \in Slots, NEW t \in Slots, Movable(i, j, s, t)
    PROVE  /\ i \in DOMAIN at /\ i # j /\ t # s
           /\ at[i] \in [slots : SUBSET Slots, room : Rooms \cup {None}]
           /\ at[i].slots = {} /\ at[j].slots = {s}
           /\ IsLesson(i) /\ IsLesson(j)
           /\ TeachersOf(i) = TeachersOf(j)
           /\ school.home[i.class] \in Rooms \cup {None}
           /\ at[j].room \in Rooms \cup {None}
           /\ \A u \in Used(j, at[j].room) : <<u, t>> \notin busy
           /\ \A u \in Used(i, school.home[i.class]) :
                  <<u, s>> \notin busy \/ u \in Used(j, at[j].room)
           /\ \A x \in TeachersOf(i) : <<x, s>> \notin school.away /\ <<x, t>> \notin school.away
  <1>1. i \in Items /\ i \in DOMAIN at /\ IsLesson(i) /\ school \in Schools
    BY TypeFacts DEF IInv, TypeOK, LessonsWait
  <1>2. /\ at[i] \in [slots : SUBSET Slots, room : Rooms \cup {None}]
        /\ at[j].room \in Rooms \cup {None}
    BY <1>1, TypeFacts DEF IInv
  <1>3. at[i].slots = {}
    BY <1>1 DEF IInv, Accounted, Placed
  <1>4. at[j].slots = {s} /\ t # s /\ IsLesson(j) /\ TeachersOf(j) = TeachersOf(i)
    BY DEF Movable
  <1>5. i # j
    BY <1>3, <1>4
  <1>6. school.home[i.class] \in Rooms \cup {None}
    BY <1>1, HomeType
  <1>7. \A u \in Used(j, at[j].room) : <<u, t>> \notin busy
    BY DEF Movable, Free
  <1>8. ASSUME NEW u \in Used(i, school.home[i.class])
        PROVE  <<u, s>> \notin busy \/ u \in Used(j, at[j].room)
    <2>1. CASE u = i.class
      BY <2>1 DEF Movable, Free
    <2>2. CASE u \in TeachersOf(i)
      BY <2>2, <1>4 DEF Used
    <2>3. CASE u = school.home[i.class] /\ u # None
      BY <2>3 DEF Movable, Free, Used
    <2>4. QED
      BY <2>1, <2>2, <2>3, <1>1 DEF Used, ClassesOf
  <1>9. \A x \in TeachersOf(i) : <<x, s>> \notin school.away /\ <<x, t>> \notin school.away
    BY DEF Movable, There
  <1>10. QED
    BY <1>1, <1>2, <1>3, <1>4, <1>5, <1>6, <1>7, <1>8, <1>9

LEMMA RepairInv ==
    ASSUME IInv, NEW i \in DOMAIN at, Repair(i)
    PROVE  IInv'
  <1>1. PICK j \in DOMAIN at, s \in Slots, t \in Slots :
            /\ Movable(i, j, s, t) /\ at' = Moved(i, j, s, t) /\ busy' = Swap(i, j, s, t)
            /\ freed' = freed \cup Used(j, at[j].room) \X {s}
    BY DEF Repair
  <1>2. /\ i \in unplaced /\ unplaced' = unplaced \ {i}
        /\ school' = school /\ todo' = todo /\ gaps' = gaps
    BY DEF Repair, First
  <1>3. PICK home \in Rooms \cup {None} : home = school.home[i.class]
    BY <1>1, <1>2, RepairFacts
  <1>4. PICK room \in Rooms \cup {None} : room = at[j].room
    BY <1>1, <1>2, RepairFacts
  <1>5. /\ i # j /\ t # s /\ at[i].slots = {} /\ at[j].slots = {s}
        /\ IsLesson(i) /\ IsLesson(j) /\ TeachersOf(i) = TeachersOf(j)
        /\ \A u \in Used(j, room) : <<u, t>> \notin busy
        /\ \A u \in Used(i, home) : <<u, s>> \notin busy \/ u \in Used(j, room)
        /\ \A x \in TeachersOf(i) : <<x, s>> \notin school.away /\ <<x, t>> \notin school.away
    BY <1>1, <1>2, <1>3, <1>4, RepairFacts
  <1>6. TypeOK /\ DOMAIN at = Items
    BY TypeFacts DEF IInv
  <1>7. /\ Items' = Items
        /\ \A k, r : Used(k, r)' = Used(k, r)
        /\ \A k : TeachersOf(k)' = TeachersOf(k) /\ IsLesson(k)' = IsLesson(k)
    BY <1>2, SameItems, SameUsed, SameTeachers, SameLessons
  <1>8. /\ DOMAIN at' = DOMAIN at
        /\ at'[i] = [slots |-> {s}, room |-> home]
        /\ at'[j] = [slots |-> {t}, room |-> room]
        /\ \A k \in DOMAIN at : k # i /\ k # j => at'[k] = at[k]
    BY <1>1, <1>3, <1>4, <1>5, <1>6 DEF Moved, TypeOK
  <1>9. busy' = (busy \ (Used(j, room) \X {s})) \cup
                    (Used(j, room) \X {t}) \cup (Used(i, home) \X {s})
    BY <1>1, <1>3, <1>4 DEF Swap
  <1>10. TypeOK'
    <2>1. Used(i, home) \cup Used(j, room) \subseteq Classes \cup Teachers \cup Rooms
      BY <1>6, UsedType DEF TypeOK
    <2>2. busy' \subseteq (Classes \cup Teachers \cup Rooms) \X Slots
      BY <2>1, <1>6, <1>9 DEF TypeOK
    <2>3. at' \in [Items -> [slots : SUBSET Slots, room : Rooms \cup {None}]]
      BY <1>1, <1>3, <1>4, <1>6 DEF TypeOK, Moved
    <2>4. freed' \subseteq (Classes \cup Teachers \cup Rooms) \X Slots
      BY <2>1, <1>1, <1>4, <1>6 DEF TypeOK
    <2>5. QED
      BY <2>2, <2>3, <2>4, <1>2, <1>6, <1>7 DEF TypeOK
  <1>11. Accounted'
    <2>1. {k \in DOMAIN at : Placed(k)}' = {k \in DOMAIN at : Placed(k)} \cup {i}
      BY <1>5, <1>8 DEF Placed
    <2>2. QED
      BY <2>1, <1>2, <1>8 DEF IInv, Accounted
  <1>12. LessonsWait'
    BY <1>2, <1>7 DEF IInv, LessonsWait
  <1>13. \A k \in DOMAIN at : k # j /\ s \in at[k].slots
             => Used(k, at[k].room) \cap Used(j, room) = {}
    BY <1>4, <1>5 DEF IInv, NoClash
  <1>14. \A b \in school.bookings : b.slot = s => b.user \notin Used(j, room)
    BY <1>4, <1>5 DEF IInv, NoClash
  <1>15. BusyIsTaken'
    <2>1. ASSUME NEW u, NEW x
          PROVE  <<u, x>> \in busy' <=>
                     \/ <<u, x>> \in Taken /\ ~(u \in Used(j, room) /\ x = s)
                     \/ u \in Used(j, room) /\ x = t
                     \/ u \in Used(i, home) /\ x = s
      BY <1>9 DEF IInv, BusyIsTaken
    <2>2. ASSUME NEW u, NEW x
          PROVE  (\E k \in DOMAIN at : u \in Used(k, at'[k].room) /\ x \in at'[k].slots) <=>
                     \/ \E k \in DOMAIN at \ {i, j} : u \in Used(k, at[k].room) /\ x \in at[k].slots
                     \/ u \in Used(j, room) /\ x = t
                     \/ u \in Used(i, home) /\ x = s
      BY <1>2, <1>6, <1>8
    <2>3. ASSUME NEW u, NEW x
          PROVE  <<u, x>> \in Taken /\ ~(u \in Used(j, room) /\ x = s) <=>
                     \/ \E b \in school.bookings : b.user = u /\ b.slot = x
                     \/ \E k \in DOMAIN at \ {i, j} : u \in Used(k, at[k].room) /\ x \in at[k].slots
      BY <1>4, <1>5, <1>13, <1>14, TakenAt
    <2>4. \A u, x : <<u, x>> \in busy' <=> <<u, x>> \in Taken'
      <3> SUFFICES ASSUME NEW u, NEW x
                   PROVE  <<u, x>> \in busy' <=> <<u, x>> \in Taken'
        OBVIOUS
      <3>1. <<u, x>> \in Taken' <=>
                \/ \E b \in school.bookings : b.user = u /\ b.slot = x
                \/ \E k \in DOMAIN at : u \in Used(k, at'[k].room) /\ x \in at'[k].slots
        BY <1>2, <1>8, TakenNext
      <3>2. QED
        BY <3>1, <2>1, <2>2, <2>3
    <2>5. QED
      BY <2>4, <1>2, <1>8, <1>10, SamePairs
  <1>16. NoClash'
    <2>1. ASSUME NEW k \in DOMAIN at, k # i, k # j, t \in at[k].slots
          PROVE  Used(k, at[k].room) \cap Used(j, room) = {}
      BY <2>1, <1>5, TakenAt DEF IInv, BusyIsTaken
    <2>2. ASSUME NEW k \in DOMAIN at, k # i, k # j, s \in at[k].slots
          PROVE  Used(k, at[k].room) \cap Used(i, home) = {}
      BY <2>2, <1>5, <1>13, TakenAt DEF IInv, BusyIsTaken
    <2>3. ASSUME NEW b \in school.bookings
          PROVE  /\ b.slot = t => b.user \notin Used(j, room)
                 /\ b.slot = s => b.user \notin Used(i, home)
      BY <2>3, <1>5, <1>14, TakenAt DEF IInv, BusyIsTaken
    <2>4. \A k, l \in DOMAIN at :
              k # l /\ at'[k].slots \cap at'[l].slots # {}
                  => Used(k, at'[k].room) \cap Used(l, at'[l].room) = {}
      <3> SUFFICES ASSUME NEW k \in DOMAIN at, NEW l \in DOMAIN at,
                          k # l, at'[k].slots \cap at'[l].slots # {}
                   PROVE  Used(k, at'[k].room) \cap Used(l, at'[l].room) = {}
        OBVIOUS
      <3>1. CASE k \notin {i, j} /\ l \notin {i, j}
        BY <3>1, <1>8 DEF IInv, NoClash
      <3>2. CASE k \in {i, j} /\ l \notin {i, j}
        BY <3>2, <2>1, <2>2, <1>5, <1>8
      <3>3. CASE k \notin {i, j} /\ l \in {i, j}
        BY <3>3, <2>1, <2>2, <1>5, <1>8
      <3>4. CASE k \in {i, j} /\ l \in {i, j}
        BY <3>4, <1>5, <1>8
      <3>5. QED
        BY <3>1, <3>2, <3>3, <3>4
    <2>5. \A k \in DOMAIN at, b \in school.bookings :
              b.slot \in at'[k].slots => b.user \notin Used(k, at'[k].room)
      BY <2>3, <1>5, <1>8 DEF IInv, NoClash
    <2>6. QED
      BY <2>4, <2>5, <1>2, <1>7, <1>8 DEF NoClash
  <1>17. AwayRespected'
    <2>1. \A k \in DOMAIN at : \A x \in TeachersOf(k), p \in at'[k].slots :
              <<x, p>> \notin school.away
      <3> SUFFICES ASSUME NEW k \in DOMAIN at, NEW x \in TeachersOf(k), NEW p \in at'[k].slots
                   PROVE  <<x, p>> \notin school.away
        OBVIOUS
      <3>1. CASE k = i
        <4>1. p = s
          BY <3>1, <1>8
        <4>2. QED
          BY <3>1, <4>1, <1>5
      <3>2. CASE k = j
        <4>1. p = t
          BY <3>2, <1>8
        <4>2. QED
          BY <3>2, <4>1, <1>5
      <3>3. CASE k # i /\ k # j
        BY <3>3, <1>8 DEF IInv, AwayRespected
      <3>4. QED
        BY <3>1, <3>2, <3>3
    <2>2. QED
      BY <2>1, <1>2, <1>7, <1>8 DEF AwayRespected
  <1>18. QED
    BY <1>10, <1>11, <1>12, <1>15, <1>16, <1>17 DEF IInv

-----------------------------------------------------------------------------
LEMMA InductiveInv == Spec => []IInv
  <1>1. IInv /\ [Next]_vars => IInv'
    <2> SUFFICES ASSUME IInv, [Next]_vars PROVE IInv'
      OBVIOUS
    <2>1. CASE \E i \in DOMAIN at : Place(i)
      BY <2>1, PlaceInv
    <2>2. CASE \E i \in DOMAIN at : SkipBlock(i) \/ SkipLesson(i) \/ GiveUp(i)
      BY <2>2, SkipInv
    <2>3. CASE \E i \in DOMAIN at : Repair(i)
      BY <2>3, RepairInv
    <2>4. CASE UNCHANGED vars
      <3>1. UNCHANGED <<school, todo, at, busy, unplaced, gaps, freed>>
        BY <2>4 DEF vars
      <3>2. {k \in DOMAIN at : Placed(k)}' = {k \in DOMAIN at : Placed(k)}
        BY <3>1 DEF Placed
      <3>3. Accounted' /\ LessonsWait'
        BY <3>1, <3>2 DEF IInv, Accounted, LessonsWait, IsLesson
      <3>4. todo \subseteq Items /\ unplaced \subseteq Items /\ gaps \subseteq Items
        BY DEF IInv, TypeOK
      <3>5. QED
        BY <3>1, <3>3, <3>4, SameTimetable
    <2>5. QED
      BY <2>1, <2>2, <2>3, <2>4 DEF Next, Finished
  <1>2. QED
    BY InitInv, <1>1, PTL DEF Spec

(* Every variable of the generator keeps its type, whatever the school. *)
THEOREM TypeCorrect == Spec => []TypeOK
  <1>1. IInv => TypeOK
    BY DEF IInv
  <1>2. QED
    BY InductiveInv, <1>1, PTL

(* No class, teacher or room is ever in two places at once, also after any *)
(* number of repairs, and never where another timetable has booked it.     *)
THEOREM NeverTwoPlaces == Spec => []NoClash
  <1>1. IInv => NoClash
    BY DEF IInv
  <1>2. QED
    BY InductiveInv, <1>1, PTL

(* The busy maps of generate and repair hold exactly what is taken: repair *)
(* deletes and marks the right entries.                                    *)
THEOREM BusyIsExact == Spec => []BusyIsTaken
  <1>1. IInv => BusyIsTaken
    BY DEF IInv
  <1>2. QED
    BY InductiveInv, <1>1, PTL

(* Nobody is given a period they said they are away in, by the first pass, *)
(* in an option block or by a repair.                                      *)
THEOREM NobodyAway == Spec => []AwayRespected
  <1>1. IInv => AwayRespected
    BY DEF IInv
  <1>2. QED
    BY InductiveInv, <1>1, PTL

(* Every required period is to do, placed, waiting or reported, and only   *)
(* one of these.                                                           *)
THEOREM NothingForgotten == Spec => []Accounted
  <1>1. IInv => Accounted
    BY DEF IInv
  <1>2. QED
    BY InductiveInv, <1>1, PTL

(* Once placed a lesson keeps its room and its number of periods; repairs  *)
(* only change the period.                                                 *)
THEOREM RepairLosesNothing == Spec => NoLessonLost
  <1> DEFINE Kept == \A i \in DOMAIN at : Placed(i) =>
                         /\ at'[i].room = at[i].room
                         /\ Cardinality(at'[i].slots) = Cardinality(at[i].slots)
  <1>1. IInv /\ [Next]_vars => [Kept]_vars
    <2> SUFFICES ASSUME IInv, Next PROVE Kept
      BY DEF NoLessonLost
    <2>1. CASE \E i \in DOMAIN at : Place(i)
      <3>1. PICK i \in DOMAIN at : Place(i)
        BY <2>1
      <3>2. PICK o : at' = [at EXCEPT ![i] = o]
        BY <3>1 DEF Place
      <3>3. ~Placed(i)
        BY <3>1 DEF IInv, Accounted, Place, First
      <3>4. QED
        BY <3>2, <3>3
    <2>2. CASE \E i \in DOMAIN at : SkipBlock(i) \/ SkipLesson(i) \/ GiveUp(i)
      BY <2>2 DEF SkipBlock, SkipLesson, GiveUp
    <2>3. CASE \E i \in DOMAIN at : Repair(i)
      <3>1. PICK i \in DOMAIN at : Repair(i)
        BY <2>3
      <3>2. PICK j \in DOMAIN at, s \in Slots, t \in Slots :
                Movable(i, j, s, t) /\ at' = Moved(i, j, s, t)
        BY <3>1 DEF Repair
      <3>3. i \in unplaced
        BY <3>1 DEF Repair, First
      <3>4. i # j /\ at[i].slots = {} /\ at[j].slots = {s} /\ DOMAIN at = Items
        BY <3>2, <3>3, RepairFacts, TypeFacts DEF IInv
      <3>5. at'[j] = [slots |-> {t}, room |-> at[j].room]
            /\ \A k \in DOMAIN at : k # i /\ k # j => at'[k] = at[k]
        BY <3>2, <3>4 DEF Moved, IInv, TypeOK
      <3>6. Cardinality({s}) = 1 /\ Cardinality({t}) = 1
        BY FS_Singleton
      <3>7. QED
        BY <3>4, <3>5, <3>6 DEF Placed
    <2>4. CASE UNCHANGED vars
      BY <2>4 DEF vars
    <2>5. QED
      BY <2>1, <2>2, <2>3, <2>4 DEF Next, Finished
  <1>2. QED
    BY InductiveInv, <1>1, PTL DEF Spec, NoLessonLost

(* GridConsistent: through every placement and repair the grid has no      *)
(* clash, the busy marks agree with it, and no lesson is forgotten.        *)
THEOREM GridStaysConsistent == Spec => []GridConsistent
  BY TypeCorrect, NeverTwoPlaces, BusyIsExact, NobodyAway, NothingForgotten, PTL DEF GridConsistent

-----------------------------------------------------------------------------
(* The requirement a lesson comes from, and its place in it. *)
LEMMA LessonNeed ==
    ASSUME school \in Schools, NEW i \in Items, IsLesson(i)
    PROVE  /\ i.class \in school.classes /\ i.row \in DOMAIN school.needs[i.class]
           /\ Need(i) \in Requirements
           /\ i.nth \in Pieces(Need(i))
  <1>1. school \in School
    BY SchoolType
  <1>2. i \notin BlockItems
    BY DEF BlockItems, IsLesson
  <1>3. PICK c \in school.classes : i \in LessonsOf(c)
    BY <1>2 DEF Items
  <1>4. PICK k \in DOMAIN school.needs[c] :
            i \in [class : {c}, row : {k}, nth : Pieces(school.needs[c][k])]
    BY <1>3 DEF LessonsOf
  <1>5. c \in Classes
    BY <1>1 DEF School
  <1>6. school.needs[c] \in Seq(Requirements)
    BY <1>1, <1>5 DEF School
  <1>7. QED
    BY <1>4, <1>6 DEF Need

-----------------------------------------------------------------------------
(* The smallest of a set of numbers: the initial segments that end in the   *)
(* set are finite, and strict inclusion of finite sets is well founded.     *)
LEMMA SmallestExists ==
    ASSUME NEW S \in SUBSET Nat, S # {}
    PROVE  \E m \in S : \A n \in S : m <= n
  <1> DEFINE segments == {0..k : k \in S}
  <1>1. segments \subseteq FiniteSubsetsOf(Nat) /\ segments # {}
    <2>1. \A k \in S : 0..k \in SUBSET Nat /\ IsFiniteSet(0..k)
      BY FS_Interval
    <2>2. QED
      BY <2>1 DEF FiniteSubsetsOf
  <1>2. PICK p \in segments : \A q \in segments :
                                  <<q, p>> \notin StrictSubsetOrdering(Nat)
    BY <1>1, FS_StrictSubsetOrderingWellFounded, WFMin
  <1>3. PICK m \in S : p = 0..m
    BY <1>2
  <1>4. ASSUME NEW n \in S, n < m PROVE FALSE
    <2>1. 0..n \in segments /\ 0..n \in SUBSET Nat /\ 0..m \in SUBSET Nat
      OBVIOUS
    <2>2. 0..n \subseteq 0..m /\ m \in 0..m /\ m \notin 0..n
      BY <1>4
    <2>3. <<0..n, 0..m>> \in StrictSubsetOrdering(Nat)
      BY <2>1, <2>2 DEF StrictSubsetOrdering
    <2>4. QED
      BY <1>2, <1>3, <2>1, <2>3
  <1>5. QED
    BY <1>4

-----------------------------------------------------------------------------
(* What is reported fits nowhere.                                           *)

(* What was taken when an item found no place: it is taken still, or a     *)
(* repair has vacated it.                                                  *)
EverTaken == busy \cup freed

(* What GapsAreReal says, by the busy maps. *)
GapsHold ==
    \A i \in gaps \cup unplaced :
        ~(Lab(i) /\ Double(i)) => ~HasPlace(i, EverTaken)

LEMMA SamePlaces ==
    ASSUME school' = school
    PROVE  \A i, set : /\ HasPlace(i, set)' = HasPlace(i, set)
                       /\ Lab(i)' = Lab(i) /\ Double(i)' = Double(i)
  <1>1. \A i : Lab(i)' = Lab(i) /\ Double(i)' = Double(i) /\ IsLesson(i)' = IsLesson(i)
    BY DEF Lab, Double, IsLesson, Need
  <1>2. \A i : Shapes(i)' = Shapes(i) /\ Need(i)' = Need(i)
    BY <1>1 DEF Shapes, Need
  <1>3. \A i, slots : There(i, slots)' = There(i, slots)
    BY SameTeachers DEF There
  <1>4. QED
    BY <1>1, <1>2, <1>3, SameUsed DEF HasPlace

(* An item that has a place by the busy maps has an option: of the labs     *)
(* that are free the first one is tried.                                    *)
LEMMA PlaceIsAnOption ==
    ASSUME TypeOK, NEW i \in Items, ~(Lab(i) /\ Double(i)), HasPlace(i, busy)
    PROVE  Options(i) # {}
  <1>1. PICK slots \in Shapes(i), room \in Rooms \cup {None} :
            /\ IF Lab(i) THEN \E k \in DOMAIN school.labs[Need(i).subject] :
                                  room = school.labs[Need(i).subject][k]
               ELSE room = IF IsLesson(i) THEN school.home[i.class] ELSE None
            /\ There(i, slots)
            /\ \A u \in Used(i, room), s \in slots : <<u, s>> \notin busy
    BY DEF HasPlace
  <1>2. CASE ~Lab(i)
    <2>1. \A s \in slots : RoomFor(i, room, s)
      BY <1>1, <1>2 DEF RoomFor
    <2>2. PICK o : o = [slots |-> slots, room |-> room]
      OBVIOUS
    <2>3. o \in [slots : Shapes(i), room : Rooms \cup {None}]
      BY <1>1, <2>2
    <2>4. o.slots = slots /\ o.room = room
      BY <2>2
    <2>5. o \in Options(i)
      BY <1>1, <2>1, <2>3, <2>4 DEF Options, Free
    <2>6. QED
      BY <2>5
  <1>3. CASE Lab(i)
    <2>1. ~Double(i) /\ IsLesson(i)
      BY <1>3 DEF Lab
    <2>2. PICK s \in Slots : slots = {s}
      BY <1>1, <2>1 DEF Shapes
    <2>3. PICK labs : labs = school.labs[Need(i).subject]
      OBVIOUS
    <2>4. labs \in Seq(Rooms)
      <3>1. school \in School /\ i.class \in Classes
        BY <2>1, SchoolType, ItemParts DEF IsLesson, TypeOK
      <3>2. Need(i).subject \in Subjects
        BY <2>1, LessonNeed DEF TypeOK, Requirements
      <3>3. QED
        BY <2>3, <3>1, <3>2 DEF School
    <2>5. PICK k \in DOMAIN labs : room = labs[k]
      BY <1>1, <1>3, <2>3
    <2>6. room \in Rooms /\ room # None
      BY <2>4, <2>5, NoneAssumption
    <2>7. PICK open : open = {m \in DOMAIN labs : Free({labs[m]}, {s})}
      OBVIOUS
    <2>8. PICK n \in open : \A m \in open : n <= m
      <3>1. open \in SUBSET Nat
        BY <2>4, <2>7
      <3>2. k \in open
        BY <1>1, <2>2, <2>5, <2>6, <2>7 DEF Free, Used
      <3>3. QED
        BY <3>1, <3>2, SmallestExists
    <2>9. labs[n] \in Rooms /\ Free({labs[n]}, {s}) /\ n \in DOMAIN labs
      BY <2>4, <2>7, <2>8
    <2>10. RoomFor(i, labs[n], s)
      <3>1. ASSUME NEW j \in 1..(n - 1) PROVE ~Free({labs[j]}, {s})
        <4>1. DOMAIN labs = 1..Len(labs) /\ Len(labs) \in Nat
          BY <2>4
        <4>2. j \in DOMAIN labs /\ j < n
          BY <4>1, <2>9
        <4>3. n \in Nat /\ j \in Nat
          BY <4>1, <2>9
        <4>4. j \notin open
          BY <4>2, <4>3, <2>8
        <4>5. QED
          BY <4>2, <4>4, <2>7
      <3>2. QED
        BY <1>3, <2>3, <2>9, <3>1 DEF RoomFor
    <2>11. Free(Used(i, labs[n]), {s})
      BY <1>1, <2>2, <2>9 DEF Free, Used
    <2>12. PICK o : o = [slots |-> {s}, room |-> labs[n]]
      OBVIOUS
    <2>13. o \in [slots : Shapes(i), room : Rooms \cup {None}]
      BY <1>1, <2>2, <2>9, <2>12
    <2>14. o.slots = {s} /\ o.room = labs[n]
      BY <2>12
    <2>15. o \in Options(i)
      BY <1>1, <2>2, <2>10, <2>11, <2>13, <2>14 DEF Options
    <2>16. QED
      BY <2>15
  <1>4. QED
    BY <1>2, <1>3

(* Where more is taken, an item has no place that it did not have before.  *)
LEMMA FewerPlaces ==
    ASSUME NEW less, NEW more, less \subseteq more
    PROVE  \A i : HasPlace(i, more) => HasPlace(i, less)
  BY DEF HasPlace

(* Nothing that was taken is forgotten: a repair moves it to freed. *)
LEMMA TakenGrows ==
    ASSUME [Next]_vars
    PROVE  EverTaken \subseteq EverTaken'
  <1>1. CASE UNCHANGED vars
    BY <1>1 DEF vars, EverTaken
  <1>2. ASSUME NEW i \in DOMAIN at, Place(i) PROVE EverTaken \subseteq EverTaken'
    BY <1>2 DEF Place, EverTaken
  <1>3. ASSUME NEW i \in DOMAIN at, SkipBlock(i) \/ SkipLesson(i) \/ GiveUp(i)
        PROVE  EverTaken \subseteq EverTaken'
    BY <1>3 DEF SkipBlock, SkipLesson, GiveUp, EverTaken
  <1>4. ASSUME NEW i \in DOMAIN at, Repair(i) PROVE EverTaken \subseteq EverTaken'
    <2>1. PICK j \in DOMAIN at, s \in Slots, t \in Slots :
              /\ busy' = Swap(i, j, s, t)
              /\ freed' = freed \cup Used(j, at[j].room) \X {s}
      BY <1>4 DEF Repair
    <2>2. PICK vacated : vacated = Used(j, at[j].room) \X {s}
      OBVIOUS
    <2>3. busy \ vacated \subseteq busy' /\ freed' = freed \cup vacated
      BY <2>1, <2>2 DEF Swap
    <2>4. QED
      BY <2>3 DEF EverTaken
  <1>5. QED
    BY <1>1, <1>2, <1>3, <1>4 DEF Next, Finished

(* What begins to wait, or is reported at once, had no option. *)
LEMMA NewGaps ==
    ASSUME [Next]_vars
    PROVE  /\ school' = school
           /\ \A i \in (gaps \cup unplaced)' :
                  i \in gaps \cup unplaced \/ (i \in DOMAIN at /\ Options(i) = {})
  <1>1. CASE UNCHANGED vars
    BY <1>1 DEF vars
  <1>2. ASSUME NEW i \in DOMAIN at, Place(i)
        PROVE  UNCHANGED <<school, gaps, unplaced>>
    BY <1>2 DEF Place
  <1>3. ASSUME NEW i \in DOMAIN at, SkipBlock(i) \/ SkipLesson(i)
        PROVE  /\ school' = school /\ Options(i) = {}
               /\ (gaps \cup unplaced)' = gaps \cup unplaced \cup {i}
    BY <1>3 DEF SkipBlock, SkipLesson
  <1>4. ASSUME NEW i \in DOMAIN at, Repair(i) \/ GiveUp(i)
        PROVE  school' = school /\ (gaps \cup unplaced)' \subseteq gaps \cup unplaced
    BY <1>4 DEF Repair, GiveUp, First
  <1>5. QED
    BY <1>1, <1>2, <1>3, <1>4 DEF Next, Finished, vars

LEMMA GapsInv ==
    ASSUME IInv, GapsHold, [Next]_vars
    PROVE  GapsHold'
  <1>1. PICK taken : taken = EverTaken'
    OBVIOUS
  <1>2. EverTaken \subseteq taken /\ busy \subseteq taken
    BY <1>1, TakenGrows DEF EverTaken
  <1>3. \A i : HasPlace(i, taken) => HasPlace(i, EverTaken) /\ HasPlace(i, busy)
    BY <1>2, FewerPlaces
  <1>4. school' = school
    BY NewGaps
  <1>5. \A i : /\ HasPlace(i, taken)' = HasPlace(i, taken)
               /\ Lab(i)' = Lab(i) /\ Double(i)' = Double(i)
    BY <1>4, SamePlaces
  <1>6. ASSUME NEW i \in (gaps \cup unplaced)', ~(Lab(i) /\ Double(i))
        PROVE  ~HasPlace(i, taken)
    <2>1. CASE i \in gaps \cup unplaced
      BY <2>1, <1>3, <1>6 DEF GapsHold
    <2>2. CASE i \in DOMAIN at /\ Options(i) = {}
      <3>1. i \in Items /\ TypeOK
        BY <2>2, TypeFacts DEF IInv
      <3>2. QED
        BY <2>2, <3>1, <1>3, <1>6, PlaceIsAnOption
    <2>3. QED
      BY <2>1, <2>2, NewGaps
  <1>7. QED
    BY <1>1, <1>5, <1>6 DEF GapsHold

(* GapsAreReal: what waits or is reported as not placed fits nowhere in the *)
(* week, whatever repairs came before or after, except in a place that a    *)
(* repair vacated.                                                          *)
THEOREM GapsStayReal == Spec => []GapsAreReal
  <1>1. Init => GapsHold
    BY DEF Init, GapsHold
  <1>2. IInv /\ GapsHold => GapsAreReal
    BY DEF IInv, BusyIsTaken, GapsHold, GapsAreReal, EverTaken
  <1>3. QED
    BY <1>1, <1>2, GapsInv, InductiveInv, PTL DEF Spec

-----------------------------------------------------------------------------
(* A lesson that is placed is where such a lesson can be.                   *)

LEMMA RowsAreNumbers ==
    ASSUME NEW s \in Slots
    PROVE  s.row \in Nat /\ Rows[s.row] = "period"
  BY RowsAssumption DEF Slots

LEMMA OnePeriod ==
    ASSUME NEW s \in Slots
    PROVE  /\ Cardinality({s}) = 1
           /\ \A p, q \in {s} :
                 /\ p.day = q.day
                 /\ \A k \in DOMAIN Rows : p.row < k /\ k <= q.row => Rows[k] = "period"
  <1>1. s.row \in Nat /\ DOMAIN Rows \subseteq Nat
    BY RowsAreNumbers, RowsAssumption
  <1>2. QED
    BY <1>1, FS_Singleton

LEMMA TwoPeriods ==
    ASSUME NEW p \in Doubles
    PROVE  /\ Cardinality(p) = 2
           /\ \A s, t \in p :
                 /\ s.day = t.day
                 /\ \A k \in DOMAIN Rows : s.row < k /\ k <= t.row => Rows[k] = "period"
  <1>1. PICK s \in Slots, t \in Slots :
            p = {s, t} /\ s.day = t.day /\ t.row = s.row + 1
    BY DEF Doubles
  <1>2. /\ s.row \in Nat /\ t.row \in Nat /\ DOMAIN Rows \subseteq Nat
        /\ Rows[t.row] = "period"
    BY RowsAreNumbers, RowsAssumption
  <1>3. s # t
    BY <1>1, <1>2
  <1>4. Cardinality({s} \cup {t}) = 2
    <2>1. IsFiniteSet({s}) /\ Cardinality({s}) = 1 /\ t \notin {s}
      BY <1>3, FS_Singleton
    <2>2. QED
      BY <2>1, FS_AddElement
  <1>5. {s} \cup {t} = p
    BY <1>1
  <1>6. ASSUME NEW x \in p, NEW y \in p, NEW k \in DOMAIN Rows, x.row < k, k <= y.row
        PROVE  Rows[k] = "period"
    <2>1. x = s /\ y = t
      BY <1>1, <1>2, <1>6
    <2>2. k = t.row
      BY <1>1, <1>2, <1>6, <2>1
    <2>3. QED
      BY <1>2, <2>2
  <1>7. QED
    BY <1>1, <1>4, <1>5, <1>6

(* Where an item can be held, as WellPlaced has it for the item at o. *)
Suits(i, o) ==
    /\ IsLesson(i) => Cardinality(o.slots) = IF Double(i) THEN 2 ELSE 1
    /\ \A s, t \in o.slots :
           /\ s.day = t.day
           /\ \A k \in DOMAIN Rows : s.row < k /\ k <= t.row => Rows[k] = "period"
    /\ IF Lab(i) THEN \E k \in DOMAIN school.labs[Need(i).subject] :
                          o.room = school.labs[Need(i).subject][k]
       ELSE o.room = IF IsLesson(i) THEN school.home[i.class] ELSE None

LEMMA ChoiceSuits ==
    ASSUME NEW i, NEW o \in Choices(i)
    PROVE  Suits(i, o)
  <1>1. o \in Options(i)
    BY DEF Choices
  <1>2. o.slots \in Shapes(i) /\ \A s \in o.slots : RoomFor(i, o.room, s)
    BY <1>1 DEF Options
  <1>3. PICK s : s \in o.slots
    BY <1>2, ShapeType
  <1>4. RoomFor(i, o.room, s)
    BY <1>2, <1>3
  <1>5. IF Lab(i) THEN \E k \in DOMAIN school.labs[Need(i).subject] :
                          o.room = school.labs[Need(i).subject][k]
        ELSE o.room = IF IsLesson(i) THEN school.home[i.class] ELSE None
    BY <1>4 DEF RoomFor
  <1>6. CASE Double(i)
    <2>1. o.slots \in Doubles
      BY <1>2, <1>6 DEF Shapes
    <2>2. QED
      BY <1>5, <1>6, <2>1, TwoPeriods DEF Suits
  <1>7. CASE ~Double(i)
    <2>1. PICK p \in Slots : o.slots = {p}
      BY <1>2, <1>7 DEF Shapes
    <2>2. QED
      BY <1>5, <1>7, <2>1, OnePeriod DEF Suits
  <1>8. QED
    BY <1>6, <1>7

LEMMA SameSuits ==
    ASSUME school' = school
    PROVE  \A i, o : Suits(i, o)' = Suits(i, o)
  <1>1. \A i : Lab(i)' = Lab(i) /\ Double(i)' = Double(i) /\ IsLesson(i)' = IsLesson(i)
    BY DEF Lab, Double, IsLesson, Need
  <1>2. \A i : Need(i)' = Need(i)
    BY DEF Need
  <1>3. QED
    BY <1>1, <1>2 DEF Suits

AllSuit == \A i \in DOMAIN at : Placed(i) => Suits(i, at[i])

LEMMA SuitsInv ==
    ASSUME IInv, AllSuit, [Next]_vars
    PROVE  AllSuit'
  <1>0. school' = school
    BY DEF Next, Place, SkipBlock, SkipLesson, GiveUp, Repair, Finished, vars
  <1>1. ASSUME DOMAIN at' = DOMAIN at,
               \A k \in DOMAIN at : at'[k].slots # {} => Suits(k, at'[k])
        PROVE  AllSuit'
    BY <1>0, <1>1, SameSuits DEF AllSuit, Placed
  <1>2. CASE at' = at
    BY <1>1, <1>2 DEF AllSuit, Placed
  <1>3. ASSUME NEW i \in DOMAIN at, Place(i) PROVE AllSuit'
    <2>1. PICK o \in Choices(i) : at' = [at EXCEPT ![i] = o]
      BY <1>3 DEF Place
    <2>2. Suits(i, o)
      BY ChoiceSuits
    <2>3. at'[i] = o /\ DOMAIN at' = DOMAIN at
             /\ \A k \in DOMAIN at : k # i => at'[k] = at[k]
      BY <2>1
    <2>4. QED
      BY <1>1, <2>2, <2>3 DEF AllSuit, Placed
  <1>4. ASSUME NEW i \in DOMAIN at, Repair(i) PROVE AllSuit'
    <2>1. PICK j \in DOMAIN at, s \in Slots, t \in Slots :
              Movable(i, j, s, t) /\ at' = Moved(i, j, s, t)
      BY <1>4 DEF Repair
    <2>2. i \in unplaced
      BY <1>4 DEF Repair, First
    <2>3. /\ i # j /\ at[i].slots = {} /\ at[j].slots = {s} /\ DOMAIN at = Items
          /\ IsLesson(i) /\ IsLesson(j)
      BY <2>1, <2>2, RepairFacts, TypeFacts DEF IInv
    <2>4. PICK oi, oj : /\ oi = [slots |-> {s}, room |-> school.home[i.class]]
                        /\ oj = [slots |-> {t}, room |-> at[j].room]
      OBVIOUS
    <2>5. /\ DOMAIN at' = DOMAIN at /\ at'[i] = oi /\ at'[j] = oj
          /\ \A k \in DOMAIN at : k # i /\ k # j => at'[k] = at[k]
      BY <2>1, <2>3, <2>4 DEF Moved, IInv, TypeOK
    <2>6. Suits(i, oi)
      <3>1. ~Double(i) /\ ~Lab(i)
        BY <2>1 DEF Movable
      <3>2. oi.slots = {s} /\ oi.room = school.home[i.class]
        BY <2>4
      <3>3. QED
        BY <2>3, <3>1, <3>2, OnePeriod DEF Suits
    <2>7. Suits(j, oj)
      <3>1. Suits(j, at[j])
        BY <2>3 DEF AllSuit, Placed
      <3>2. oj.slots = {t} /\ oj.room = at[j].room
        BY <2>4
      <3>3. ~Double(j)
        <4>1. Cardinality({s}) = 1
          BY OnePeriod
        <4>2. QED
          BY <2>3, <3>1, <4>1 DEF Suits
      <3>4. QED
        BY <2>3, <3>1, <3>2, <3>3, OnePeriod DEF Suits
    <2>8. QED
      BY <1>1, <2>5, <2>6, <2>7 DEF AllSuit, Placed
  <1>5. ASSUME NEW i \in DOMAIN at, SkipBlock(i) \/ SkipLesson(i) \/ GiveUp(i)
        PROVE  at' = at
    BY <1>5 DEF SkipBlock, SkipLesson, GiveUp
  <1>6. QED
    BY <1>2, <1>3, <1>4, <1>5 DEF Next, Finished, vars

(* WellPlaced, through every placement and repair. *)
THEOREM LessonsAreWellPlaced == Spec => []WellPlaced
  <1>1. Init => AllSuit
    BY DEF Init, AllSuit, Placed, NotPlaced
  <1>2. AllSuit => WellPlaced
    BY DEF AllSuit, WellPlaced, Suits
  <1>3. QED
    BY <1>1, <1>2, SuitsInv, InductiveInv, PTL DEF Spec

-----------------------------------------------------------------------------
(* The lab lessons of a requirement make up its lab periods.                *)

(* The pieces that are in a lab, and the doubles among them. *)
LabPieces(r) ==
    {n \in Pieces(r) : IF n <= r.doubles THEN 2 * (n - 1) < r.labs
                                         ELSE r.doubles + n <= r.labs}

LabDoubles(r) == {n \in LabPieces(r) : n <= r.doubles}

(* Either all doubles are in a lab and single periods make up the rest, or  *)
(* doubles alone do, and the last of them may be one period too many.       *)
LEMMA PiecesInLabs ==
    ASSUME NEW r \in Requirements
    PROVE  \E a, b \in Nat :
               /\ LabPieces(r) = 1..a /\ LabDoubles(r) = 1..b
               /\ \/ a + b = r.labs
                  \/ a + b = r.labs + 1 /\ LabDoubles(r) = LabPieces(r)
  <1>1. /\ r.periods \in Nat /\ r.labs \in Nat /\ r.doubles \in Nat
        /\ r.labs <= r.periods /\ 2 * r.doubles <= r.periods
    BY DEF Requirements
  <1>2. CASE 2 * r.doubles <= r.labs
    <2>1. \A n \in Int : n \in LabPieces(r) <=> n \in 1..(r.labs - r.doubles)
      BY <1>1, <1>2 DEF LabPieces, Pieces
    <2>2. LabPieces(r) \subseteq Int /\ 1..(r.labs - r.doubles) \subseteq Int
      BY <1>1 DEF LabPieces, Pieces
    <2>3. LabPieces(r) = 1..(r.labs - r.doubles)
      BY <2>1, <2>2
    <2>4. LabDoubles(r) = 1..r.doubles
      <3>1. \A n \in Int : n \in LabDoubles(r) <=> n \in 1..r.doubles
        BY <1>1, <1>2, <2>3 DEF LabDoubles
      <3>2. LabDoubles(r) \subseteq Int /\ 1..r.doubles \subseteq Int
        BY <1>1, <2>2 DEF LabDoubles
      <3>3. QED
        BY <3>1, <3>2
    <2>5. /\ r.labs - r.doubles \in Nat
          /\ (r.labs - r.doubles) + r.doubles = r.labs
      BY <1>1, <1>2
    <2>6. QED
      BY <1>1, <2>3, <2>4, <2>5
  <1>3. CASE 2 * r.doubles > r.labs
    <2>1. PICK h \in Nat : 2 * h = r.labs \/ 2 * h = r.labs + 1
      <3>1. PICK set : set = {h \in Nat : r.labs <= 2 * h}
        OBVIOUS
      <3>2. r.labs \in set /\ set \in SUBSET Nat
        BY <1>1, <3>1
      <3>3. PICK h \in set : \A n \in set : h <= n
        BY <3>2, SmallestExists
      <3>4. h \in Nat /\ r.labs <= 2 * h
        BY <3>1, <3>3
      <3>5. CASE h = 0
        BY <1>1, <3>4, <3>5
      <3>6. CASE h # 0
        <4>1. h - 1 \in Nat /\ h - 1 \notin set
          BY <3>3, <3>4, <3>6
        <4>2. ~(r.labs <= 2 * (h - 1))
          BY <3>1, <4>1
        <4>3. QED
          BY <1>1, <3>4, <4>2
      <3>7. QED
        BY <3>5, <3>6
    <2>2. h <= r.doubles /\ h <= r.periods - r.doubles
      BY <1>1, <1>3, <2>1
    <2>3. \A n \in Int : /\ n \in LabPieces(r) <=> n \in 1..h
                         /\ n \in LabPieces(r) => n <= r.doubles
      BY <1>1, <1>3, <2>1, <2>2 DEF LabPieces, Pieces
    <2>4. LabPieces(r) \subseteq Int /\ 1..h \subseteq Int
      BY <1>1 DEF LabPieces, Pieces
    <2>5. LabPieces(r) = 1..h
      BY <2>3, <2>4
    <2>6. LabDoubles(r) = LabPieces(r)
      BY <2>3, <2>4 DEF LabDoubles
    <2>7. h + h = r.labs \/ h + h = r.labs + 1
      BY <1>1, <2>1
    <2>8. QED
      BY <2>5, <2>6, <2>7
  <1>4. QED
    BY <1>1, <1>2, <1>3

(* The items of one requirement, by the number of the piece. *)
LEMMA ItemsByPiece ==
    ASSUME NEW c, NEW k, NEW n \in Nat, NEW S,
           \A m \in 1..n : [class |-> c, row |-> k, nth |-> m] \in S,
           \A x \in S : \E m \in 1..n : x = [class |-> c, row |-> k, nth |-> m]
    PROVE  Cardinality(S) = n
  <1> DEFINE f == [m \in 1..n |-> [class |-> c, row |-> k, nth |-> m]]
  <1>1. f \in [1..n -> S]
    OBVIOUS
  <1>2. \A m, l \in 1..n : f[m] = f[l] => m = l
    <2>1. \A m \in 1..n : f[m].nth = m
      OBVIOUS
    <2>2. QED
      BY <2>1
  <1>3. \A x \in S : \E m \in 1..n : f[m] = x
    OBVIOUS
  <1>4. f \in Bijection(1..n, S)
    BY <1>1, <1>2, <1>3 DEF Bijection, Injection, Surjection, IsInjective
  <1>5. ExistsBijection(1..n, S)
    BY <1>4 DEF ExistsBijection
  <1>6. QED
    BY <1>5, FS_CountingElements

MakeHours(labs, r) ==
    LET hours == Cardinality(labs) + Cardinality({i \in labs : Double(i)})
    IN  \/ hours = r.labs
        \/ hours = r.labs + 1 /\ \A i \in labs : Double(i)

LEMMA LabHoursHold ==
    ASSUME TypeOK
    PROVE  LabHours
  <1> SUFFICES ASSUME NEW c \in school.classes, NEW k \in DOMAIN school.needs[c],
                      ~Covered(c, school.needs[c][k].subject),
                      TeacherOf(c, school.needs[c][k].subject) # None
               PROVE  MakeHours({i \in DOMAIN at : i.class = c /\ i.row = k /\ Lab(i)},
                                school.needs[c][k])
    BY DEF LabHours, MakeHours
  <1>1. school \in School /\ DOMAIN at = Items
    BY SchoolType, TypeFacts DEF TypeOK
  <1>2. c \in Classes /\ c # 0
    BY <1>1, ClassesAssumption DEF School
  <1>3. PICK r \in Requirements : r = school.needs[c][k]
    BY <1>1, <1>2 DEF School
  <1>4. \A n : [class |-> c, row |-> k, nth |-> n] \in Items <=> n \in Pieces(r)
    <2>1. ASSUME NEW n \in Pieces(r) PROVE [class |-> c, row |-> k, nth |-> n] \in Items
      <3>1. [class |-> c, row |-> k, nth |-> n] \in LessonsOf(c)
        BY <1>3, <2>1 DEF LessonsOf
      <3>2. QED
        BY <3>1 DEF Items
    <2>2. ASSUME NEW n, [class |-> c, row |-> k, nth |-> n] \in Items PROVE n \in Pieces(r)
      <3>1. PICK i \in Items : i = [class |-> c, row |-> k, nth |-> n]
        BY <2>2
      <3>2. i.class = c /\ i.row = k /\ i.nth = n
        BY <3>1
      <3>3. IsLesson(i) /\ Need(i) = r
        BY <1>2, <1>3, <3>2 DEF IsLesson, Need
      <3>4. QED
        BY <3>2, <3>3, LessonNeed DEF TypeOK
    <2>3. QED
      BY <2>1, <2>2
  <1>5. \A i \in Items : i.class = c /\ i.row = k =>
            i = [class |-> c, row |-> k, nth |-> i.nth]
    <2>1. \A i \in Items : i = [class |-> i.class, row |-> i.row, nth |-> i.nth]
      BY DEF Items, BlockItems, LessonsOf
    <2>2. QED
      BY <2>1
  <1>6. ASSUME NEW n \in Pieces(r), NEW i, i = [class |-> c, row |-> k, nth |-> n]
        PROVE  /\ Lab(i) <=> n \in LabPieces(r)
               /\ Double(i) <=> n <= r.doubles
    <2>1. i.class = c /\ i.row = k /\ i.nth = n
      BY <1>6
    <2>2. IsLesson(i) /\ Need(i) = r
      BY <1>2, <1>3, <2>1 DEF IsLesson, Need
    <2>3. QED
      BY <2>1, <2>2 DEF Lab, Double, LabPieces
  <1>7. PICK labs : labs = {i \in DOMAIN at : i.class = c /\ i.row = k /\ Lab(i)}
    OBVIOUS
  <1>8. labs = {[class |-> c, row |-> k, nth |-> n] : n \in LabPieces(r)}
    <2>1. ASSUME NEW i \in labs
          PROVE  \E n \in LabPieces(r) : i = [class |-> c, row |-> k, nth |-> n]
      <3>1. i \in Items /\ i.class = c /\ i.row = k /\ Lab(i)
        BY <1>1, <1>7
      <3>2. i = [class |-> c, row |-> k, nth |-> i.nth]
        BY <1>5, <3>1
      <3>3. i.nth \in Pieces(r)
        BY <1>4, <3>1, <3>2
      <3>4. i.nth \in LabPieces(r)
        BY <1>6, <3>1, <3>2, <3>3
      <3>5. QED
        BY <3>2, <3>4
    <2>2. ASSUME NEW n \in LabPieces(r), NEW i, i = [class |-> c, row |-> k, nth |-> n]
          PROVE  i \in labs
      <3>1. n \in Pieces(r)
        BY <2>2 DEF LabPieces
      <3>2. i \in Items /\ Lab(i)
        BY <1>4, <1>6, <2>2, <3>1
      <3>3. i.class = c /\ i.row = k
        BY <2>2
      <3>4. QED
        BY <1>1, <1>7, <3>2, <3>3
    <2>3. QED
      BY <2>1, <2>2
  <1>9. PICK doubles : doubles = {i \in labs : Double(i)}
    OBVIOUS
  <1>10. doubles = {[class |-> c, row |-> k, nth |-> n] : n \in LabDoubles(r)}
    <2>1. \A n \in LabPieces(r) : n \in Pieces(r)
      BY DEF LabPieces
    <2>2. \A n \in LabPieces(r) :
              Double([class |-> c, row |-> k, nth |-> n]) <=> n \in LabDoubles(r)
      BY <1>6, <2>1 DEF LabDoubles
    <2>3. LabDoubles(r) \subseteq LabPieces(r)
      BY DEF LabDoubles
    <2>4. QED
      BY <1>8, <1>9, <2>2, <2>3
  <1>11. PICK a \in Nat, b \in Nat :
            /\ LabPieces(r) = 1..a /\ LabDoubles(r) = 1..b
            /\ \/ a + b = r.labs
               \/ a + b = r.labs + 1 /\ LabDoubles(r) = LabPieces(r)
    BY PiecesInLabs
  <1>12. Cardinality(labs) = a /\ Cardinality(doubles) = b
    <2>1. /\ \A m \in 1..a : [class |-> c, row |-> k, nth |-> m] \in labs
          /\ \A x \in labs : \E m \in 1..a : x = [class |-> c, row |-> k, nth |-> m]
      BY <1>8, <1>11
    <2>2. /\ \A m \in 1..b : [class |-> c, row |-> k, nth |-> m] \in doubles
          /\ \A x \in doubles : \E m \in 1..b : x = [class |-> c, row |-> k, nth |-> m]
      BY <1>10, <1>11
    <2>3. Cardinality(labs) = a
      BY <2>1, ItemsByPiece
    <2>4. Cardinality(doubles) = b
      BY <2>2, ItemsByPiece
    <2>5. QED
      BY <2>3, <2>4
  <1>13. LabDoubles(r) = LabPieces(r) => \A i \in labs : Double(i)
    BY <1>8, <1>9, <1>10
  <1>14. \/ Cardinality(labs) + Cardinality(doubles) = r.labs
         \/ /\ Cardinality(labs) + Cardinality(doubles) = r.labs + 1
            /\ \A i \in labs : Double(i)
    BY <1>11, <1>12, <1>13
  <1>15. MakeHours(labs, r)
    BY <1>9, <1>14 DEF MakeHours
  <1>16. QED
    BY <1>3, <1>7, <1>15

(* LessonsFit: a double has its two periods together, a practical lesson is *)
(* in a laboratory of its subject, and the lab periods of every requirement *)
(* are covered.                                                             *)
THEOREM LessonsAlwaysFit == Spec => []LessonsFit
  <1>1. TypeOK => LabHours
    BY LabHoursHold
  <1>2. QED
    BY <1>1, TypeCorrect, LessonsAreWellPlaced, PTL DEF LessonsFit

=============================================================================
