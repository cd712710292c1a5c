---------------------------- MODULE MCTimetable ----------------------------
EXTENDS Timetable, TLC

(* All sets are interchangeable; sound for state and step properties. *)
Symmetry == Permutations(Tables) \union Permutations(Classes)
              \union Permutations(Slots) \union Permutations(Resources)
              \union Permutations(Requests)
=============================================================================
