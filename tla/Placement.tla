----------------------------- MODULE Placement -----------------------------
(***************************************************************************)
(* The placement engine of the promotion workflow                          *)
(* (workflows/placement.go): the students who move into one grade are put  *)
(* one after the other into its classes under the grade's rule, and a      *)
(* section is added when the classes that match are full.                  *)
(*                                                                         *)
(* The students are numbered in the order in which they are placed.  That  *)
(* order depends on a hash of their ids or on their marks, so every order  *)
(* the rule allows is one some school can meet.  Classes are numbered in   *)
(* the order of their names and a class added by the engine comes last.    *)
(* Equally loaded classes are told apart by the gender of their students;  *)
(* the choice that then depends on houses and on names is left open.       *)
(***************************************************************************)
EXTENDS Naturals, Sequences, FiniteSets

CONSTANTS
    Inputs,     \* the calls of Place that are considered, in families
    Mediums, Streams, Groups, Combinations,
    Genders,    \* that the schema lets a student have
    DefaultCapacity,  \* of an added section
    Unset       \* no medium, stream, stream group, subject choice, gender

Policies == {"keep_section", "balanced_reshuffle", "by_subject_choice", "by_stream"}

(* section: the letter of the current class, 0 for a new admission. *)
Student == [section: Nat, medium: Mediums \union {Unset}, stream: Streams \union {Unset},
            group: Groups \union {Unset}, choice: Combinations \union {Unset},
            gender: Genders \union {Unset}]

Class == [section: Nat, medium: Mediums \union {Unset}, stream: Streams \union {Unset},
          group: Groups \union {Unset}, capacity: Nat, occupied: Nat, new: BOOLEAN]

Existing == {c \in Class : ~c.new}

(* A student with class 0 is left for a person to place. *)
Decision == [class: Nat, warned: BOOLEAN]

ASSUME InputsAssumption ==
    \A family \in Inputs :
        family \subseteq [policy: Policies, spread: BOOLEAN, students: Seq(Student),
                          classes: Seq(Existing)]
ASSUME CapacityAssumption == DefaultCapacity \in Nat \ {0}
ASSUME GendersAssumption == \A f, g, h \in Genders : f = g \/ g = h \/ f = h
ASSUME UnsetAssumption ==
    Unset \notin Mediums \union Streams \union Groups \union Combinations \union Genders

VARIABLES
    policy,     \* the rule of the grade
    spread,     \* the run's option to spread by marks
    students,   \* in the order of orderStudents
    grade,      \* the classes of the grade, those that were added last
    place       \* the decisions so far

placementVars == <<policy, spread, students, grade, place>>

PlacementTypeOK ==
    /\ policy \in Policies
    /\ spread \in BOOLEAN
    /\ students \in Seq(Student)
    /\ grade \in Seq(Class)
    /\ place \in Seq(Decision)
    /\ Len(place) <= Len(students)
    /\ \A i \in DOMAIN place : place[i].class \in 0..Len(grade)

-----------------------------------------------------------------------------
(* The order in which students are placed. *)

GroupKey(p, s) ==
    IF p = "by_stream" THEN <<s.stream, s.group, s.medium, s.choice>> ELSE <<s.medium, s.choice>>

(* Students who choose alike follow each other, larger groups first. *)
ByGroup(p, list) ==
    LET Alike(i) == {j \in DOMAIN list : GroupKey(p, list[j]) = GroupKey(p, list[i])}
    IN  \A i, j \in DOMAIN list : i < j =>
            /\ Cardinality(Alike(i)) >= Cardinality(Alike(j))
            /\ j \in Alike(i) => i..j \subseteq Alike(i)

OrderAnyhow(p, byMarks, list) ==
    \/ p \in {"by_subject_choice", "by_stream"} /\ ByGroup(p, list)
    \/ p \in {"keep_section", "balanced_reshuffle"}

(* Students with marks come before those without, and the hash orders the
   rest: by marks and by hash every order is possible.  keep_section puts the
   students who have a section first. *)
OrderStudents(p, byMarks, list) ==
    \/ p \in {"by_subject_choice", "by_stream"} /\ ByGroup(p, list)
    \/ p \in {"keep_section", "balanced_reshuffle"} /\ byMarks
    \/ /\ p = "keep_section" /\ ~byMarks
       /\ \A i, j \in DOMAIN list : i < j /\ list[i].section = 0 => list[j].section = 0
    \/ p = "balanced_reshuffle" /\ ~byMarks

PlacementInit ==
    \E family \in Inputs : \E in \in family :
        /\ OrderStudents(in.policy, in.spread, in.students)
        /\ policy = in.policy
        /\ spread = in.spread
        /\ students = in.students
        /\ grade = in.classes
        /\ place = <<>>

-----------------------------------------------------------------------------
(* What the engine has counted so far. *)

Members(c) == {i \in DOMAIN place : place[i].class = c}
Count(c) == grade[c].occupied + Cardinality(Members(c))
Gender(c, g) == Cardinality({i \in Members(c) : students[i].gender = g})
Same(c, s) == Cardinality({i \in Members(c) : students[i].choice = s.choice})

HasRoomLoosely(c) == Count(c) <= grade[c].capacity

HasRoom(c) == Count(c) < grade[c].capacity

-----------------------------------------------------------------------------
(* The classes a student may go to. *)

OfStream(s) ==
    {c \in DOMAIN grade : policy = "by_stream" =>
        /\ grade[c].stream = s.stream
        /\ grade[c].group \in {Unset, s.group}}
SameMedium(s) == {c \in OfStream(s) : s.medium # Unset /\ grade[c].medium = s.medium}
General(s) == {c \in OfStream(s) : grade[c].medium = Unset}

Compatible(s) == IF SameMedium(s) # {} THEN SameMedium(s) ELSE General(s)

(* No class is set for the medium, and a general one will do. *)
Fallback(s) == s.medium # Unset /\ SameMedium(s) = {} /\ General(s) # {}

Unplaceable(s) == policy = "by_stream" /\ (s.stream = Unset \/ Compatible(s) = {})

Candidates(s) == IF Compatible(s) = {} THEN DOMAIN grade ELSE Compatible(s)

-----------------------------------------------------------------------------
(* The class the rule chooses among the candidates that have room; none    *)
(* means that a section has to be added.                                   *)

WithRoom(cs) == {c \in cs : HasRoom(c)}
First(cs) == {c \in cs : \A d \in cs : c <= d}

BetterBySize(c, d, s) == Count(c) * grade[d].capacity < Count(d) * grade[c].capacity

Better(c, d, s) ==
    LET load(a, b) == Count(a) * grade[b].capacity
    IN  \/ load(c, d) < load(d, c)
        \/ load(c, d) = load(d, c) /\ Gender(c, s.gender) < Gender(d, s.gender)

LeastLoaded(cs, s) == {c \in WithRoom(cs) : \A d \in WithRoom(cs) : ~Better(d, c, s)}

Smallest(c, d, s) == Count(c) < Count(d) \/ (Count(c) = Count(d) /\ c < d)

(* The class that holds most of the combination; while none does, the smallest. *)
Gathers(c, d, s) ==
    \/ Same(c, s) > Same(d, s)
    \/ /\ Same(c, s) = 0 /\ Same(d, s) = 0
       /\ Count(c) < Count(d) \/ (Count(c) = Count(d) /\ c < d)
    \/ Same(c, s) = Same(d, s) /\ Same(c, s) > 0 /\ c < d

WithMostSameChoice(cs, s) == {c \in WithRoom(cs) : \A d \in WithRoom(cs) \ {c} : Gathers(c, d, s)}

Position(cs, c) == Cardinality({d \in cs : d < c})

TurnRound(n, rank) == rank % n

(* The position whose turn it is: A B C C B A ... *)
Turn(n, rank) == IF (rank \div n) % 2 = 0 THEN rank % n ELSE n - 1 - (rank % n)

Distance(cs, c, rank) ==
    LET n == Cardinality(cs) IN (n + Position(cs, c) - Turn(n, rank)) % n

SnakeStrictly(cs, rank) == {c \in WithRoom(cs) : Distance(cs, c, rank) = 0}

Snake(cs, rank) ==
    {c \in WithRoom(cs) : \A d \in WithRoom(cs) : Distance(cs, c, rank) <= Distance(cs, d, rank)}

SameSection(s) == First({c \in WithRoom(Candidates(s)) : grade[c].section = s.section})

KeepSection(s) ==
    IF s.section # 0 /\ SameSection(s) # {} THEN SameSection(s) ELSE LeastLoaded(Candidates(s), s)

Chosen(s) ==
    CASE policy = "keep_section" -> KeepSection(s)
      [] policy \in {"by_subject_choice", "by_stream"} -> WithMostSameChoice(Candidates(s), s)
      [] policy = "balanced_reshuffle" /\ spread -> Snake(Candidates(s), Len(place))
      [] policy = "balanced_reshuffle" /\ ~spread -> LeastLoaded(Candidates(s), s)

-----------------------------------------------------------------------------
(* One step of the loop of Place: the next student. *)

NextSection == IF grade = <<>> THEN 1 ELSE 1 + grade[Len(grade)].section

AddClassOfNoStream(s) ==
    [section |-> NextSection, medium |-> s.medium, stream |-> Unset, group |-> Unset,
     capacity |-> DefaultCapacity, occupied |-> 0, new |-> TRUE]

AddClass(s) ==
    [section |-> NextSection, medium |-> s.medium,
     stream |-> IF policy = "by_stream" THEN s.stream ELSE Unset,
     group |-> IF policy = "by_stream" THEN s.group ELSE Unset,
     capacity |-> DefaultCapacity, occupied |-> 0, new |-> TRUE]

Decide(c, warned) == place' = Append(place, [class |-> c, warned |-> warned])

LeaveUnplaced(s) ==
    /\ Unplaceable(s)
    /\ Decide(0, TRUE)
    /\ UNCHANGED <<policy, spread, students, grade>>

SeatQuietly(s) ==
    /\ ~Unplaceable(s)
    /\ \E c \in Chosen(s) : Decide(c, FALSE)
    /\ UNCHANGED <<policy, spread, students, grade>>

Seat(s) ==
    /\ ~Unplaceable(s)
    /\ \E c \in Chosen(s) :
          Decide(c, Fallback(s) \/ (policy = "by_subject_choice" /\ s.choice = Unset))
    /\ UNCHANGED <<policy, spread, students, grade>>

OpenUnlisted(s) ==
    /\ ~Unplaceable(s)
    /\ Chosen(s) = {}
    /\ Decide(Len(grade) + 1, TRUE)
    /\ UNCHANGED <<policy, spread, students, grade>>

OpenSection(s) ==
    /\ ~Unplaceable(s)
    /\ Chosen(s) = {}
    /\ grade' = Append(grade, AddClass(s))
    /\ Decide(Len(grade) + 1, TRUE)
    /\ UNCHANGED <<policy, spread, students>>

PlacementNext ==
    /\ Len(place) < Len(students)
    /\ LET s == students[Len(place) + 1]
       IN  LeaveUnplaced(s) \/ Seat(s) \/ OpenSection(s)

PlacementSpec == PlacementInit /\ [][PlacementNext]_placementVars

-----------------------------------------------------------------------------
(* Properties. *)

(* No class is filled beyond its capacity by the engine, the sections it   *)
(* adds included; a class that was overfull before gets nobody.            *)
CapacityKept == \A c \in DOMAIN grade : Members(c) = {} \/ Count(c) <= grade[c].capacity

(* The classes that existed when class c was added and that suit student i: *)
(* of the stream, and of the medium or, when none is, of no medium.        *)
Suits(d, i, c) ==
    LET s == students[i]
        own == {e \in OfStream(s) : e < c /\ s.medium # Unset /\ grade[e].medium = s.medium}
    IN  d < c /\ (d \in own \/ (own = {} /\ d \in General(s)))

(* A section is added for a student only when every class that suits the   *)
(* student is full.                                                        *)
NoIdleSection ==
    \A c \in DOMAIN grade : grade[c].new =>
        \A i \in Members(c) : (\A j \in Members(c) : i <= j) =>
            \A d \in DOMAIN grade : Suits(d, i, c) => Count(d) >= grade[d].capacity

(* All classes are alike and were empty. *)
Uniform ==
    \A c, d \in DOMAIN grade :
        /\ grade[c].occupied = 0 /\ ~grade[c].new
        /\ grade[c].medium = grade[d].medium /\ grade[c].capacity = grade[d].capacity

(* "Reshuffle to balance classes": alike classes end up with the same      *)
(* number of students, give or take one, and of boys and girls unless the  *)
(* gender of some is not known.                                            *)
EvenClasses ==
    policy = "balanced_reshuffle" /\ ~spread /\ Uniform =>
        \A c, d \in DOMAIN grade :
            /\ Count(c) <= Count(d) + 1
            /\ (\A i \in DOMAIN students : students[i].gender # Unset) =>
                   \A g \in Genders : Gender(c, g) <= Gender(d, g) + 1

(* Spreading by marks gives every class one student of each round, and in  *)
(* the way back the classes are served in the opposite order, so the ranks *)
(* of two rounds add up to the same in every class.                        *)
SpreadEvenly ==
    policy = "balanced_reshuffle" /\ spread /\ Uniform =>
        LET n == Len(grade)
            round(i) == (i - 1) \div n
        IN  \A i, j \in DOMAIN place :
                /\ i # j /\ round(i) = round(j) => place[i].class # place[j].class
                /\ (i - 1) \div (2 * n) = (j - 1) \div (2 * n)
                        /\ ((i - 1) % (2 * n)) + ((j - 1) % (2 * n)) = 2 * n - 1
                      => place[i].class = place[j].class

(* A returning student who does not get a class of the section is not      *)
(* displaced from it by a new admission.                                   *)
Displaced(i, c) ==
    /\ students[i].section # 0
    /\ place[i].class \notin {0, c} /\ grade[place[i].class].section # students[i].section
    /\ ~grade[c].new /\ grade[c].section = students[i].section
    /\ c \in Candidates(students[i])

NotForAdmissions ==
    \A i \in DOMAIN place, c \in DOMAIN grade : Displaced(i, c) =>
        \A j \in Members(c) : students[j].section # 0

AdmissionsWait == policy = "keep_section" /\ ~spread => NotForAdmissions

(* A student who is put into a class without a medium because no class has *)
(* theirs is flagged for the person who reviews the proposal.              *)
MediumFlagged ==
    \A i \in DOMAIN place :
        /\ place[i].class # 0 /\ students[i].medium # Unset
        /\ grade[place[i].class].medium = Unset
      => place[i].warned

(* By stream, a student is in a class of the stream and of the stream      *)
(* group or of none, and whoever is left unplaced is flagged.              *)
StreamKept ==
    policy = "by_stream" =>
        \A i \in DOMAIN place :
            IF place[i].class = 0 THEN place[i].warned
            ELSE place[i].class \in OfStream(students[i])

(* Students of the same choice are split only when their class is full: of *)
(* the classes that hold some of them at most one has room.                *)
ChoiceTogether ==
    policy \in {"by_subject_choice", "by_stream"} =>
        \A i, j \in DOMAIN place :
            /\ GroupKey(policy, students[i]) = GroupKey(policy, students[j])
            /\ 0 \notin {place[i].class, place[j].class}
            /\ HasRoom(place[i].class) /\ HasRoom(place[j].class)
          => place[i].class = place[j].class

(* Sections are added only for want of room, and no class is overfilled.    *)
SectionsWhenFull ==
    /\ PlacementTypeOK
    /\ CapacityKept
    /\ NoIdleSection

(* Reshuffled classes are alike in numbers and gender, or in marks.         *)
BalancedClasses ==
    /\ EvenClasses
    /\ SpreadEvenly

(* The other rules are kept as far as there is room, and a student for whom *)
(* one could not be kept is flagged.                                        *)
RulesKept ==
    /\ AdmissionsWait
    /\ StreamKept
    /\ ChoiceTogether
    /\ MediumFlagged

=============================================================================
