------------------------------ MODULE MCErasure ------------------------------
(* Small instances of Erasure: one student, whom two requests and both     *)
(* agents may work on at the same time.                                    *)
EXTENDS Erasure, TLC
=============================================================================
