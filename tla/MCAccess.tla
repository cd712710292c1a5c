------------------------------ MODULE MCAccess ------------------------------
(* Who gets in and how far: the passwords of Credentials or the positions  *)
(* of Leadership, which have no state in common.                           *)
EXTENDS Credentials, Leadership, TLC

VARIABLE side

Free == [kind |-> "unused", teacher |-> Nobody, whole |-> FALSE]
Holds(kind, t, whole) == [kind |-> kind, teacher |-> t, whole |-> whole]

Ann == CHOOSE t \in Teachers : TRUE
Ben == CHOOSE t \in Teachers \ {Ann} : TRUE
SomeGrade == CHOOSE g \in Grades : TRUE

(* Ann is Vice Principal and in charge of the societies, Ben heads a grade *)
(* and may be Principal.                                                   *)
Staffed ==
    {[position |-> [i \in Rows |-> IF i = 1 THEN Holds("vice_principal", Ann, whole)
                                   ELSE IF i \in row THEN Holds("principal", Ben, FALSE)
                                   ELSE Free],
      scopes |-> IF whole THEN {} ELSE {<<1, SomeGrade>>},
      heads |-> [g \in Grades |-> IF g = SomeGrade THEN Ben ELSE Nobody],
      teaches |-> {},
      charge |-> [s \in Societies |-> Ann]] :
        whole \in BOOLEAN, row \in {{}, {2}}}

NoStaff ==
    /\ position = [i \in Rows |-> Free] /\ scopes = {} /\ teaches = {}
    /\ heads = [g \in Grades |-> Nobody] /\ charge = [s \in Societies |-> Nobody]
    /\ call = [r \in Calls |-> NoCall] /\ seen = [r \in Calls |-> Nothing]
    /\ changed = 0

AccessInit ==
    /\ Init
    /\ \/ side = "passwords" /\ NoStaff
       \/ side = "positions" /\ LeadershipInit

AccessNext ==
    /\ UNCHANGED side
    /\ \/ side = "passwords" /\ Next /\ UNCHANGED leadershipVars
       \/ side = "positions" /\ LeadershipNext /\ UNCHANGED vars

AccessSpec == AccessInit /\ [][AccessNext]_<<side, vars, leadershipVars>>

(* A call that has ended is not read again, except for what it appointed. *)
Relevant ==
    <<side, vars, staffTables, changed,
      [r \in Calls |-> IF call[r].pc \in Ended \ {"done"} THEN <<Grounded(r)>>
                       ELSE <<call[r], seen[r]>>]>>

Symmetry == Permutations(Calls) \union Permutations(Requests) \union Permutations(Users)
=============================================================================
