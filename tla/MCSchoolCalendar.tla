-------------------------- MODULE MCSchoolCalendar --------------------------
(* Small instances of SchoolCalendar. *)
EXTENDS SchoolCalendar, TLC

Symmetry ==
    Permutations(Years) \union Permutations(Requests) \union Permutations(GoLives)

(* The snapshot of a run that was reverted is read by nobody. *)
Kept(f) == [x \in Runs |-> IF state[x] = "applied" THEN f[x] ELSE None]
Relevant == <<calendar, lock, state, Kept(made), Kept(prevYear), Kept(prevTerm), request>>

(* At most one row is deleted, and one year has students, at a time. *)
Calm ==
    /\ Cardinality({y \in Years : year[y] = "deleted"})
         + Cardinality({t \in Terms : term[t] = "deleted"}) <= 1
    /\ Cardinality(placed) <= 1

OneOrder == {1}
=============================================================================
