--------------------------- MODULE CleanupPromise ---------------------------
(***************************************************************************)
(* What the erasure of a student promises about the sign-in that hung on   *)
(* the profile: once the profile is anonymised the cleanup of its user is  *)
(* due, and it stays due until the local row is scrubbed and the provider  *)
(* account is deleted.  It may be lost, and found again by another         *)
(* erasure, only after the database, a deadline or the server failed.      *)
(***************************************************************************)
CONSTANT Users

VARIABLES
    status,  \* where the cleanup of each user stands
    faulty   \* the database, a deadline or the server has failed

vars == <<status, faulty>>

Init ==
    /\ status = [u \in Users |-> "kept"]
    /\ faulty = FALSE

(* A user may have been removed by hand before its cleanup is due. *)
Begin(u) ==
    /\ status[u] \in {"kept", "lost"}
    /\ \E to \in {"due", "done"} : status' = [status EXCEPT ![u] = to]
    /\ UNCHANGED faulty

Finish(u) ==
    /\ status[u] \in {"due", "lost"}
    /\ status' = [status EXCEPT ![u] = "done"]
    /\ UNCHANGED faulty

(* A failure, which may lose what was under way. *)
Lose(S) ==
    /\ S \subseteq {u \in Users : status[u] = "due"}
    /\ status' = [u \in Users |-> IF u \in S THEN "lost" ELSE status[u]]
    /\ faulty' = TRUE

Next ==
    \/ \E u \in Users : Begin(u) \/ Finish(u)
    \/ \E S \in SUBSET Users : Lose(S)

Spec == Init /\ [][Next]_vars
=============================================================================
