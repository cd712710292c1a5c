----------------------------- MODULE MCYearEnd -----------------------------
(* Small instances of YearEnd. *)
EXTENDS YearEnd, TLC

CONSTANTS first, second, third   \* students

(* The last two rows have the same index number. *)
MCStudents == {first, second, third}
MCEnrolled == {first}
Numbers == [s \in MCStudents |-> IF s = first THEN 1 ELSE 2]

Symmetry ==
    Permutations(WorkflowRuns) \union Permutations(Classes) \union Permutations({second, third})
=============================================================================
