---------------------------- MODULE MCActivation ----------------------------
EXTENDS Activation, TLC

(* All sets are interchangeable, except for students and guardians. *)
Symmetry == Permutations(Codes) \union Permutations(Batches)
              \union Permutations(Tokens) \union Permutations(Emails)
              \union Permutations(Users) \union Permutations(People)
              \union Permutations(Admins) \union Permutations(Students)
              \union Permutations(Records \ Students)

(* At most one code or link runs out in a behaviour. *)
OneExpiry ==
    Cardinality({k \in Codes : code[k].expired}) + Cardinality({t \in Tokens : token[t].expired}) <= 1

(* No code or link runs out, and the roles are switched on once. *)
Calm ==
    /\ \A k \in Codes : ~code[k].expired /\ ~code[k].locked
    /\ \A t \in Tokens : ~token[t].expired
    /\ window
=============================================================================
