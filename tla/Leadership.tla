----------------------------- MODULE Leadership -----------------------------
(***************************************************************************)
(* Who leads and teaches what, and what it lets them reach: the Principal, *)
(* the Vice Principals and their scopes, the section heads and class       *)
(* teachers (leadership/service.go and access.go), and the teachers in     *)
(* charge of societies (studentleadership/service.go).                     *)
(*                                                                         *)
(* No operation runs in a transaction.  To appoint takes several           *)
(* statements, and so does to decide what a teacher may reach, while       *)
(* others appoint and dismiss.  A statement may fail; the call then ends   *)
(* and undoes nothing.  One academic year; a grade has one class, and      *)
(* whole-grade heads only, since a stream's head reaches nothing.          *)
(***************************************************************************)
EXTENDS Integers, FiniteSets

CONSTANTS
    Teachers, Grades, Societies,
    Rows,         \* ids of teacher_positions, taken in order and once
    Calls,        \* calls of several statements in progress at a time
    Nobody,
    Tables,       \* the appointments to begin with
    MaxChanges    \* bound: calls that change appointments

ASSUME RowsAreNumbered == Rows \subseteq Nat /\ Nobody \notin Teachers \union Rows \union Calls
ASSUME ChangesAreBounded == MaxChanges \in Nat

VARIABLES
    position,   \* teacher_positions
    scopes,     \* vice_principal_grade_scopes
    heads,      \* section_heads, Nobody when there is none
    teaches,    \* form_teacher_id and class_subject_teachers
    charge,     \* societies.teacher_in_charge_id, Nobody when deleted
    call,       \* what each call does, and what it has read
    seen,       \* history: what held in the meantime
    changed     \* calls so far that change appointments

staffTables == <<position, scopes, heads, teaches, charge>>
leadershipVars == <<position, scopes, heads, teaches, charge, call, seen, changed>>

Ended == {"idle", "granted", "denied", "done", "failed"}
CallSteps == {"swap", "demote", "appoint", "clear", "grant",
              "assigned", "principal", "position", "scopes", "heads", "headed",
              "authorize", "roster"}

(* grades: those asked for; left: those of them still to be granted.       *)
Call == [pc: Ended \union CallSteps, teacher: Teachers \union {Nobody}, whole: BOOLEAN,
         grades: SUBSET Grades, left: SUBSET Grades, row: Rows \union {Nobody},
         societies: SUBSET Societies]

NoCall == [pc |-> "idle", teacher |-> Nobody, whole |-> FALSE, grades |-> {}, left |-> {},
           row |-> Nobody, societies |-> {}]

Kinds == {"principal", "vice_principal"}

Position == [kind: Kinds \union {"unused", "deleted"}, teacher: Teachers \union {Nobody},
             whole: BOOLEAN]

(* The unique indices and foreign keys; a Principal's row keeps the default  *)
(* of notify_whole_school.                                                   *)
Constraints(rows, granted) ==
    /\ \A i \in Rows : rows[i].kind \in Kinds <=> rows[i].teacher \in Teachers
    /\ \A i \in Rows : rows[i].kind = "principal" => ~rows[i].whole
    /\ \A i, j \in Rows :
           /\ rows[i].kind = rows[j].kind
           /\ \/ rows[i].kind = "principal"
              \/ rows[i].kind = "vice_principal" /\ rows[i].teacher = rows[j].teacher
           => i = j
    /\ \A s \in granted : rows[s[1]].kind = "vice_principal"

ASSUME TablesAreSound ==
    \A now \in Tables :
        /\ now.position \in [Rows -> Position] /\ now.scopes \subseteq Rows \X Grades
        /\ now.heads \in [Grades -> Teachers \union {Nobody}]
        /\ now.teaches \subseteq Teachers \X Grades
        /\ now.charge \in [Societies -> Teachers \union {Nobody}]
        /\ Constraints(now.position, now.scopes)

Grounds == {"teaches", "principal", "whole school", "scope", "head", "in charge"}

(* ever and always: the grounds that held at some moment and at all moments *)
(* of the call; held: the positions its teacher had; disturbed: others      *)
(* changed what the call appoints.                                          *)
History == [ever: SUBSET Grounds, always: SUBSET Grounds, held: SUBSET Kinds, disturbed: BOOLEAN]

Nothing == [ever |-> {}, always |-> Grounds, held |-> {}, disturbed |-> FALSE]

RowsOf(kind) == {i \in Rows : position[i].kind = kind}
PositionsOf(t) == {i \in Rows : position[i].teacher = t}
ViceRow(t) == PositionsOf(t) \intersect RowsOf("vice_principal")

LeadershipInit ==
    /\ \E now \in Tables :
           /\ position = now.position /\ scopes = now.scopes
           /\ heads = now.heads /\ teaches = now.teaches /\ charge = now.charge
    /\ call = [r \in Calls |-> NoCall]
    /\ seen = [r \in Calls |-> Nothing]
    /\ changed = 0

-----------------------------------------------------------------------------
(* History. *)

GroundsOf ==
    [t \in Teachers |-> [g \in Grades |->
        {"teaches" : x \in teaches \intersect {<<t, g>>}}
        \union {"head" : x \in {heads[g]} \intersect {t}}
        \union {"principal" : i \in PositionsOf(t) \intersect RowsOf("principal")}
        \union {"whole school" : i \in {j \in PositionsOf(t) : position[j].whole}}
        \union {"scope" : i \in {j \in PositionsOf(t) : ~position[j].whole /\ <<j, g>> \in scopes}}]]

InCharge ==
    [t \in Teachers |-> [s \in Societies |-> {"in charge" : x \in {charge[s]} \intersect {t}}]]

Held == [t \in Teachers |-> {position[i].kind : i \in PositionsOf(t)}]

(* What a Vice Principal was given. *)
Appointment ==
    [t \in Teachers |->
        {[whole |-> position[i].whole, grades |-> {g \in Grades : <<i, g>> \in scopes}] :
            i \in ViceRow(t)}]

(* What was seen of q, from its first step to its end, and what is now. *)
Observed(q) ==
    LET c == call'[q]
        now == UNION ({GroundsOf'[c.teacher][g] : g \in c.grades}
                       \union {InCharge'[c.teacher][s] : s \in c.societies})
        before == IF call[q].pc \in Ended THEN Nothing ELSE seen[q]
    IN  IF call[q].pc \in Ended /\ c.pc \in Ended THEN seen[q]
        ELSE IF c.teacher = Nobody THEN Nothing
        ELSE [before EXCEPT !.ever = @ \union now, !.always = @ \intersect now,
                            !.held = @ \union Held'[c.teacher]]

(* A step of the call r, or of somebody else's. *)
Witness(r) ==
    seen' = [q \in Calls |->
        [Observed(q) EXCEPT !.disturbed =
            \/ @
            \/ /\ q # r /\ call'[q].teacher # Nobody
               /\ Appointment'[call'[q].teacher] # Appointment[call'[q].teacher]]]

-----------------------------------------------------------------------------
(* Calls of several statements. *)

Change == changed < MaxChanges /\ changed' = changed + 1

Begin(r, c) ==
    /\ call[r].pc \in Ended
    /\ call' = [call EXCEPT ![r] = c]
    /\ UNCHANGED staffTables

Go(r, pc) == call' = [call EXCEPT ![r].pc = pc]

Choose(i, j) == IF i # {} THEN i ELSE j

FreeRow == {i \in RowsOf("unused") : \A j \in RowsOf("unused") : i <= j}

Gone == [kind |-> "deleted", teacher |-> Nobody, whole |-> FALSE]

(* Deletes rows, and with them their scopes. *)
Remove(rows) ==
    /\ position' = [i \in Rows |-> IF i \in rows THEN Gone ELSE position[i]]
    /\ scopes' = {s \in scopes : s[1] \notin rows}

(* AssignPrincipal: there is one row, which changes hands; who gets it is a *)
(* Vice Principal no longer.                                                *)
BeginPrincipal(r, t) == Change /\ Begin(r, [NoCall EXCEPT !.pc = "swap", !.teacher = t])

MakePrincipal(r, rows) ==
    /\ call[r].pc = "swap"
    /\ \E i \in rows :
           position' = [position EXCEPT ![i] = [kind |-> "principal", teacher |-> call[r].teacher,
                                                whole |-> FALSE]]
    /\ Go(r, "demote")
    /\ UNCHANGED <<scopes, heads, teaches, charge>>

(* Mutant of Swap: the INSERT without the ON CONFLICT. *)
SwapAdds(r) == MakePrincipal(r, FreeRow)

Swap(r) == MakePrincipal(r, Choose(RowsOf("principal"), FreeRow))

(* Mutant of Demote: the position goes, its scopes stay. *)
DemoteRowOnly(r) ==
    /\ call[r].pc = "demote"
    /\ position' = [i \in Rows |-> IF i \in ViceRow(call[r].teacher) THEN Gone ELSE position[i]]
    /\ Go(r, "done")
    /\ UNCHANGED <<scopes, heads, teaches, charge>>

Demote(r) ==
    /\ call[r].pc = "demote"
    /\ Remove(ViceRow(call[r].teacher))
    /\ Go(r, "done")
    /\ UNCHANGED <<heads, teaches, charge>>

(* AssignVicePrincipal; grades are ignored for the whole school. *)
BeginVice(r, t, whole, grades) ==
    LET asked == IF whole THEN {} ELSE grades
    IN  /\ Change
        /\ Begin(r, [NoCall EXCEPT !.pc = "appoint", !.teacher = t, !.whole = whole,
                                   !.grades = asked, !.left = asked])

Appoint(r) ==
    /\ call[r].pc = "appoint"
    /\ \E i \in Choose(ViceRow(call[r].teacher), FreeRow) :
           /\ position' = [position EXCEPT ![i] = [kind |-> "vice_principal",
                               teacher |-> call[r].teacher, whole |-> call[r].whole]]
           /\ call' = [call EXCEPT ![r].pc = "clear", ![r].row = i]
    /\ UNCHANGED <<scopes, heads, teaches, charge>>

(* replaceVicePrincipalScopes *)
AfterScope(left) == IF left = {} THEN "done" ELSE "grant"

(* Mutant of ClearScopes: the new scopes are added to the old ones. *)
KeepScopes(r) ==
    /\ call[r].pc = "clear"
    /\ Go(r, AfterScope(call[r].left))
    /\ UNCHANGED staffTables

ClearScopes(r) ==
    /\ call[r].pc = "clear"
    /\ scopes' = {s \in scopes : s[1] # call[r].row}
    /\ Go(r, AfterScope(call[r].left))
    /\ UNCHANGED <<position, heads, teaches, charge>>

(* The foreign key wants the position to exist. *)
GrantScope(r) ==
    /\ call[r].pc = "grant"
    /\ call[r].row \in RowsOf("vice_principal")
    /\ \E g \in call[r].left :
           /\ scopes' = scopes \union {<<call[r].row, g>>}
           /\ call' = [call EXCEPT ![r].left = @ \ {g}, ![r].pc = AfterScope(call[r].left \ {g})]
    /\ UNCHANGED <<position, heads, teaches, charge>>

-----------------------------------------------------------------------------
(* CanAccessClass, for the class of a grade. *)

BeginAccess(r, t, g) ==
    /\ Begin(r, [NoCall EXCEPT !.pc = "assigned", !.teacher = t, !.grades = {g}])
    /\ UNCHANGED changed

(* One read of the tables, which leads to pc. *)
Read(r, at, pc) ==
    /\ call[r].pc = at
    /\ Go(r, pc)
    /\ UNCHANGED staffTables

(* TeacherClassAccess *)
ReadAssigned(r) ==
    Read(r, "assigned", IF {call[r].teacher} \X call[r].grades \subseteq teaches THEN "granted"
                        ELSE "principal")

(* Mutant of ReadPrincipal: a Principal has no rank of his own. *)
SkipPrincipal(r) == Read(r, "principal", "position")

(* RankForTeacher: isPrincipal *)
ReadPrincipal(r) ==
    Read(r, "principal", IF PositionsOf(call[r].teacher) \intersect RowsOf("principal") # {}
                         THEN "granted" ELSE "position")

(* Mutant of ReadPosition: every Vice Principal reaches the whole school. *)
ReadAnyPosition(r) ==
    Read(r, "position", IF ViceRow(call[r].teacher) # {} THEN "granted" ELSE "heads")

(* getPositionForTeacher, which returns any one row of the teacher's. *)
ReadPosition(r) ==
    LET held == PositionsOf(call[r].teacher)
    IN  \/ /\ held = {} \/ held \intersect RowsOf("principal") # {}
           /\ Read(r, "position", "heads")
        \/ \E i \in held \intersect RowsOf("vice_principal") :
               /\ call[r].pc = "position"
               /\ call' = [call EXCEPT ![r].row = i,
                              ![r].pc = IF position[i].whole THEN "granted" ELSE "scopes"]
               /\ UNCHANGED staffTables

(* listVicePrincipalScopeGrades *)
ReadScopes(r) ==
    Read(r, "scopes", IF {call[r].row} \X call[r].grades \subseteq scopes THEN "granted" ELSE "denied")

(* RankForTeacher: listGradeIDsHeadedByTeacher; no lower rank reaches anything. *)
ReadHeads(r) ==
    Read(r, "heads", IF \E g \in Grades : heads[g] = call[r].teacher THEN "headed" ELSE "denied")

(* LeadershipScope: the same query again. *)
ReadHeaded(r) ==
    Read(r, "headed", IF \A g \in call[r].grades : heads[g] = call[r].teacher THEN "granted"
                      ELSE "denied")

-----------------------------------------------------------------------------
(* AssignSocietyMember and RemoveSocietyMember by a teacher. *)

BeginRoster(r, t, s) ==
    /\ Begin(r, [NoCall EXCEPT !.pc = "authorize", !.teacher = t, !.societies = {s}])
    /\ UNCHANGED changed

(* Mutant of Authorize: it is enough that the society is there. *)
AuthorizeAnyone(r) ==
    Read(r, "authorize", IF \E s \in call[r].societies : charge[s] # Nobody THEN "roster"
                         ELSE "denied")

(* authorizeTeacherInCharge *)
Authorize(r) ==
    Read(r, "authorize", IF \E s \in call[r].societies : charge[s] = call[r].teacher THEN "roster"
                         ELSE "denied")

(* The write, which nothing here reads; a membership needs its society. *)
WriteRoster(r) ==
    Read(r, "roster", IF \A s \in call[r].societies : charge[s] # Nobody THEN "granted" ELSE "failed")

(* Any statement may fail; what was written stays. *)
LeadershipFails(r) ==
    /\ call[r].pc \notin Ended
    /\ call' = [call EXCEPT ![r] = [NoCall EXCEPT !.pc = "failed"]]
    /\ UNCHANGED staffTables

-----------------------------------------------------------------------------
(* Calls of one statement. *)

Single == Change /\ UNCHANGED call

(* DeletePosition; the id was listed before. *)
DeletePosition(i) ==
    /\ Single
    /\ position[i].kind \in Kinds
    /\ Remove({i})
    /\ UNCHANGED <<heads, teaches, charge>>

(* AssignSectionHead, DeleteSectionHead *)
SetHead(g, t) ==
    /\ Single
    /\ heads' = [heads EXCEPT ![g] = t]
    /\ UNCHANGED <<position, scopes, teaches, charge>>

(* A class gets or loses a teacher. *)
Reassign(t, g) ==
    /\ Single
    /\ teaches' = IF <<t, g>> \in teaches THEN teaches \ {<<t, g>>} ELSE teaches \union {<<t, g>>}
    /\ UNCHANGED <<position, scopes, heads, charge>>

(* UpdateSociety, DeleteSociety *)
SetCharge(s, t) ==
    /\ Single
    /\ charge[s] # Nobody
    /\ charge' = [charge EXCEPT ![s] = t]
    /\ UNCHANGED <<position, scopes, heads, teaches>>

-----------------------------------------------------------------------------

Begins(r) ==
    \E t \in Teachers :
        \/ BeginPrincipal(r, t)
        \/ \E whole \in BOOLEAN, grades \in SUBSET Grades : BeginVice(r, t, whole, grades)
        \/ \E g \in Grades : BeginAccess(r, t, g)
        \/ \E s \in Societies : BeginRoster(r, t, s)

Proceeds(r) ==
    \/ Swap(r) \/ Demote(r)
    \/ Appoint(r) \/ ClearScopes(r) \/ GrantScope(r)
    \/ ReadAssigned(r) \/ ReadPrincipal(r) \/ ReadPosition(r)
    \/ ReadScopes(r) \/ ReadHeads(r) \/ ReadHeaded(r)
    \/ Authorize(r) \/ WriteRoster(r)
    \/ LeadershipFails(r)

Changes ==
    \/ \E i \in Rows : DeletePosition(i)
    \/ \E g \in Grades, t \in Teachers \union {Nobody} : SetHead(g, t)
    \/ \E t \in Teachers, g \in Grades : Reassign(t, g)
    \/ \E s \in Societies, t \in Teachers \union {Nobody} : SetCharge(s, t)

LeadershipNext ==
    \/ \E r \in Calls : Begins(r) /\ Witness(r)
    \/ \E r \in Calls : Proceeds(r) /\ Witness(r) /\ UNCHANGED changed
    \/ Changes /\ Witness(Nobody)

LeadershipSpec == LeadershipInit /\ [][LeadershipNext]_leadershipVars

-----------------------------------------------------------------------------
(* Properties. *)

LeadershipTypeOK ==
    /\ position \in [Rows -> Position]
    /\ scopes \subseteq Rows \X Grades
    /\ heads \in [Grades -> Teachers \union {Nobody}]
    /\ teaches \subseteq Teachers \X Grades
    /\ charge \in [Societies -> Teachers \union {Nobody}]
    /\ call \in [Calls -> Call]
    /\ seen \in [Calls -> History]
    /\ changed \in 0..MaxChanges

(* There is one Principal, a teacher is Vice Principal once, and every scope *)
(* belongs to a Vice Principal in office.                                    *)
OneOfEach ==
    /\ Cardinality(RowsOf("principal")) <= 1
    /\ \A t \in Teachers : Cardinality(ViceRow(t)) <= 1
    /\ \A s \in scopes : s[1] \in RowsOf("vice_principal")

(* An appointment of a Vice Principal that nobody else changed gives what it *)
(* asked for, whatever earlier ones had left behind.                         *)
GivesWhatWasAsked ==
    \A r \in Calls :
        call[r].pc = "done" /\ call[r].row # Nobody /\ ~seen[r].disturbed =>
            Appointment[call[r].teacher] = {[whole |-> call[r].whole, grades |-> call[r].grades]}

(* The appointments are sound: OneOfEach and GivesWhatWasAsked, although     *)
(* calls overlap and stop half-way.                                          *)
AppointmentsKept == LeadershipTypeOK /\ OneOfEach /\ GivesWhatWasAsked

(* Which grounds the rank of a teacher hides: a Vice Principal does not look *)
(* at the grades he heads, and one who is or was Principal meanwhile may not *)
(* be seen as Vice Principal.                                                *)
Hidden(held) ==
    (IF "vice_principal" \in held THEN {"head"} ELSE {})
    \union (IF "principal" \in held THEN {"whole school", "scope"} ELSE {})

Grounded(r) ==
    /\ call[r].pc = "granted" => seen[r].ever # {}
    /\ call[r].pc = "denied" => seen[r].always \subseteq Hidden(seen[r].held)

(* CanAccessClass and the roster of a society, decided by reads at different *)
(* moments while appointments change: nobody gets in who at no moment of the *)
(* call had a reason, and nobody is turned away who had one all along.       *)
AccessHasGround == \A r \in Calls : Grounded(r)
=============================================================================
