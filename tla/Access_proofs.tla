---------------------------- MODULE Access_proofs ----------------------------
(***************************************************************************)
(* Proofs about who gets in and how far: the appointments and decisions of *)
(* Leadership, the passwords and reset links of Credentials, for any       *)
(* number of teachers, rows, users, links and requests in progress.        *)
(*                                                                         *)
(* Leadership.  A step does one of five things to the rows of positions    *)
(* and scopes (RowsChange), and each keeps the constraints of the schema.  *)
(* Given says how far an undisturbed appointment has come.  An access is   *)
(* decided by reads at different moments: UpToDate says that what was seen *)
(* of the call includes this moment, and Knows what each read has ruled    *)
(* out for the whole of the call, which later steps of others cannot undo, *)
(* because a row of a Vice Principal never becomes anybody else's.         *)
(*                                                                         *)
(* Credentials.  LinksOnce: the request that presents a link has consumed  *)
(* it, alone.  FlagsTrue: a flag is cleared only behind a new password.    *)
(***************************************************************************)
EXTENDS Credentials, Leadership, FiniteSetTheorems, TLAPS

-----------------------------------------------------------------------------
(* Leadership. *)

AccessSteps == {"assigned", "principal", "position", "scopes", "heads", "headed"}
RosterSteps == {"authorize", "roster"}
AppointSteps == {"appoint", "clear", "grant"}

(* What a call in progress knows of what it was asked. *)
WellPosed(c) ==
    /\ c.pc \in CallSteps \union {"done"} => c.teacher \in Teachers
    /\ c.pc \in {"swap", "demote"} => c.row = Nobody
    /\ c.pc \in {"appoint", "clear"} => c.left = c.grades
    /\ c.pc \in {"clear", "grant", "scopes"} => c.row \in Rows
    /\ c.pc = "grant" => c.left \subseteq c.grades
    /\ c.pc \in AccessSteps => c.societies = {} /\ \E g \in Grades : c.grades = {g}
    /\ c.pc \in RosterSteps => c.grades = {} /\ \E s \in Societies : c.societies = {s}

CallsWellPosed == \A q \in Calls : WellPosed(call[q])

RowsSound == Constraints(position, scopes)

GradesOf(i) == {g \in Grades : <<i, g>> \in scopes}

(* What an appointment has done so far is there until somebody else changes *)
(* it.                                                                      *)
Undisturbed(c) ==
    /\ position[c.row] = [kind |-> "vice_principal", teacher |-> c.teacher, whole |-> c.whole]
    /\ c.pc = "grant" => GradesOf(c.row) = c.grades \ c.left
    /\ c.pc = "done" => GradesOf(c.row) = c.grades

Given ==
    \A q \in Calls :
        call[q].pc \in {"clear", "grant", "done"} /\ call[q].row # Nobody /\ ~seen[q].disturbed
            => Undisturbed(call[q])

(* The grounds that hold now for what c asks. *)
GroundsNow(c) ==
    UNION ({GroundsOf[c.teacher][g] : g \in c.grades}
           \union {InCharge[c.teacher][s] : s \in c.societies})

(* What the history of a call in progress says of this moment. *)
UpToDate ==
    \A q \in Calls :
        call[q].pc \in AccessSteps \union RosterSteps =>
            /\ seen[q].always \subseteq GroundsNow(call[q])
            /\ GroundsNow(call[q]) \subseteq seen[q].ever
            /\ Held[call[q].teacher] \subseteq seen[q].held

(* What the row of the Vice Principal it has read says of the call s: ranks *)
(* stay with their rows, and a deleted row leaves no scope behind.          *)
RowRead(rows, c, s) ==
    /\ "whole school" \notin s.always /\ "vice_principal" \in s.held
    /\ rows[c.row].kind \in {"vice_principal", "deleted"}
    /\ rows[c.row].kind = "vice_principal" => rows[c.row].teacher = c.teacher
    /\ rows[c.row].kind = "deleted" => "scope" \notin s.always

(* What the reads of a call have ruled out, and what it was decided on. *)
Knows(rows, c, s) ==
    /\ c.pc \in AccessSteps \ {"assigned"} => "teaches" \notin s.always
    /\ c.pc \in {"position", "scopes", "heads", "headed"} => "principal" \notin s.always
    /\ c.pc = "scopes" => RowRead(rows, c, s)
    /\ c.pc \in {"heads", "headed"} =>
           s.always \intersect {"whole school", "scope"} \subseteq Hidden(s.held)
    /\ c.pc \in {"roster", "granted"} => s.ever # {}
    /\ c.pc = "denied" => s.always \subseteq Hidden(s.held)

CallsKnow == \A q \in Calls : Knows(position, call[q], seen[q])

-----------------------------------------------------------------------------
(* What the steps do to the rows. *)

AppointsRow(t, whole, i) ==
    /\ i \in Choose(ViceRow(t), FreeRow)
    /\ position' = [position EXCEPT ![i] = [kind |-> "vice_principal", teacher |-> t,
                                            whole |-> whole]]
    /\ scopes' = scopes

GivesAway(t) ==
    /\ \E i \in Choose(RowsOf("principal"), FreeRow) :
           position' = [position EXCEPT ![i] = [kind |-> "principal", teacher |-> t,
                                                whole |-> FALSE]]
    /\ scopes' = scopes

ClearsRow(i) == position' = position /\ scopes' = {s \in scopes : s[1] # i}

GrantsRow(i, g) ==
    /\ i \in RowsOf("vice_principal")
    /\ position' = position /\ scopes' = scopes \union {<<i, g>>}

RowsChange ==
    \/ \E t \in Teachers : GivesAway(t)
    \/ \E t \in Teachers, whole \in BOOLEAN, i \in Rows : AppointsRow(t, whole, i)
    \/ \E rows \in SUBSET Rows : Remove(rows)
    \/ \E i \in Rows : ClearsRow(i)
    \/ \E i \in Rows, g \in Grades : GrantsRow(i, g)

RowsStay == position' = position /\ scopes' = scopes

LEMMA RecordsTyped == NoCall \in Call /\ Nothing \in History /\ Gone \in Position
  BY DEF NoCall, Call, Ended, Nothing, History, Gone, Position, Grounds

LEMMA ProceedsOnRows ==
  ASSUME LeadershipTypeOK, CallsWellPosed, NEW r \in Calls, Proceeds(r)
  PROVE  RowsChange \/ RowsStay
<1>1. call[r] \in Call /\ WellPosed(call[r])
  BY DEF LeadershipTypeOK, CallsWellPosed
<1>2. ASSUME Swap(r) PROVE RowsChange
  <2>1. call[r].teacher \in Teachers
    BY <1>1, <1>2 DEF Swap, MakePrincipal, WellPosed, CallSteps
  <2>2. GivesAway(call[r].teacher)
    BY <1>2 DEF Swap, MakePrincipal, GivesAway
  <2> QED BY <2>1, <2>2 DEF RowsChange
<1>3. ASSUME Demote(r) PROVE RowsChange
  <2>1. ViceRow(call[r].teacher) \in SUBSET Rows
    BY DEF ViceRow, PositionsOf
  <2> QED BY <1>3, <2>1 DEF Demote, RowsChange
<1>4. ASSUME Appoint(r) PROVE RowsChange
  <2>1. call[r].teacher \in Teachers /\ call[r].whole \in BOOLEAN
    BY <1>1, <1>4 DEF Appoint, WellPosed, CallSteps, Call
  <2>2. PICK i \in Choose(ViceRow(call[r].teacher), FreeRow) :
            position' = [position EXCEPT ![i] = [kind |-> "vice_principal",
                             teacher |-> call[r].teacher, whole |-> call[r].whole]]
    BY <1>4 DEF Appoint
  <2>3. i \in Rows
    BY <2>2 DEF Choose, ViceRow, PositionsOf, FreeRow, RowsOf
  <2>4. AppointsRow(call[r].teacher, call[r].whole, i)
    BY <1>4, <2>2 DEF AppointsRow, Appoint
  <2> QED BY <2>1, <2>3, <2>4 DEF RowsChange
<1>5. ASSUME ClearScopes(r) PROVE RowsChange
  <2>1. call[r].row \in Rows
    BY <1>1, <1>5 DEF ClearScopes, WellPosed
  <2>2. ClearsRow(call[r].row)
    BY <1>5 DEF ClearScopes, ClearsRow
  <2> QED BY <2>1, <2>2 DEF RowsChange
<1>6. ASSUME GrantScope(r) PROVE RowsChange
  <2>1. PICK g \in call[r].left : scopes' = scopes \union {<<call[r].row, g>>}
    BY <1>6 DEF GrantScope
  <2>2. g \in Grades /\ call[r].row \in Rows
    BY <1>1, <1>6 DEF GrantScope, Call, RowsOf
  <2>3. GrantsRow(call[r].row, g)
    BY <1>6, <2>1 DEF GrantScope, GrantsRow
  <2> QED BY <2>2, <2>3 DEF RowsChange
<1>7. ASSUME \/ ReadAssigned(r) \/ ReadPrincipal(r) \/ ReadPosition(r)
             \/ ReadScopes(r) \/ ReadHeads(r) \/ ReadHeaded(r)
             \/ Authorize(r) \/ WriteRoster(r) \/ LeadershipFails(r)
      PROVE  RowsStay
  BY <1>7 DEF ReadAssigned, ReadPrincipal, ReadPosition, ReadScopes, ReadHeads, ReadHeaded,
              Authorize, WriteRoster, LeadershipFails, Read, staffTables, RowsStay
<1> QED BY <1>2, <1>3, <1>4, <1>5, <1>6, <1>7 DEF Proceeds

LEMMA BeginsOnRows ==
  ASSUME NEW r \in Calls, Begins(r)
  PROVE  RowsStay
BY DEF Begins, BeginPrincipal, BeginVice, BeginAccess, BeginRoster, Begin, staffTables, RowsStay

LEMMA ChangesOnRows ==
  ASSUME LeadershipTypeOK, Changes
  PROVE  RowsChange \/ RowsStay
<1>1. ASSUME NEW i \in Rows, DeletePosition(i) PROVE RowsChange
  <2>1. {i} \in SUBSET Rows
    OBVIOUS
  <2> QED BY <1>1, <2>1 DEF DeletePosition, RowsChange
<1>2. ASSUME NEW g \in Grades, NEW t \in Teachers \union {Nobody}, SetHead(g, t) PROVE RowsStay
  BY <1>2 DEF SetHead, RowsStay
<1>3. ASSUME NEW g \in Grades, NEW t \in Teachers, Reassign(t, g) PROVE RowsStay
  BY <1>3 DEF Reassign, RowsStay
<1>4. ASSUME NEW s \in Societies, NEW t \in Teachers \union {Nobody}, SetCharge(s, t)
      PROVE RowsStay
  BY <1>4 DEF SetCharge, RowsStay
<1> QED BY <1>1, <1>2, <1>3, <1>4 DEF Changes

(* Whatever a step does, the constraints of the schema hold: an id is taken *)
(* by one row, a free one is taken when there is no Principal, or the       *)
(* teacher is not Vice Principal yet, and a scope is granted to a row that  *)
(* is there.                                                                *)
LEMMA ConstraintsKept ==
  ASSUME position \in [Rows -> Position], scopes \subseteq Rows \X Grades, RowsSound,
         RowsChange \/ RowsStay
  PROVE  position' \in [Rows -> Position] /\ scopes' \subseteq Rows \X Grades /\ RowsSound'
<1>1. ASSUME RowsStay
      PROVE  position' \in [Rows -> Position] /\ scopes' \subseteq Rows \X Grades /\ RowsSound'
  BY <1>1 DEF RowsStay, RowsSound, Constraints
<1>2. ASSUME NEW t \in Teachers, GivesAway(t)
      PROVE  position' \in [Rows -> Position] /\ scopes' \subseteq Rows \X Grades /\ RowsSound'
  <2> DEFINE new == [kind |-> "principal", teacher |-> t, whole |-> FALSE]
  <2>1. PICK i \in Choose(RowsOf("principal"), FreeRow) : position' = [position EXCEPT ![i] = new]
    BY <1>2 DEF GivesAway
  <2>2. i \in Rows /\ new \in Position
    BY <2>1 DEF Choose, RowsOf, FreeRow, Position, Kinds
  <2>3. position[i].kind \in {"principal", "unused"}
    BY <2>1 DEF Choose, RowsOf, FreeRow
  <2>4. \A j \in Rows : position[j].kind = "principal" => j = i
    <3>1. CASE RowsOf("principal") = {}
      BY <3>1 DEF RowsOf
    <3>2. CASE RowsOf("principal") # {}
      <4>1. position[i].kind = "principal"
        BY <2>1, <3>2 DEF Choose, RowsOf
      <4> QED BY <4>1, <2>2 DEF RowsSound, Constraints
    <3> QED BY <3>1, <3>2
  <2>5. position' \in [Rows -> Position] /\ scopes' = scopes
    BY <1>2, <2>1, <2>2 DEF GivesAway
  <2>6. position'[i] = new /\ \A j \in Rows \ {i} : position'[j] = position[j]
    BY <2>1, <2>2
  <2>7. new.kind = "principal" /\ new.teacher \in Teachers /\ ~new.whole
    OBVIOUS
  <2> HIDE DEF new
  <2>8. ASSUME NEW s \in scopes PROVE position'[s[1]].kind = "vice_principal"
    <3>1. s[1] \in Rows /\ position[s[1]].kind = "vice_principal"
      BY <2>8 DEF RowsSound, Constraints
    <3> QED BY <3>1, <2>3, <2>6
  <2>9. \A j \in Rows : position'[j].kind \in Kinds <=> position'[j].teacher \in Teachers
    BY <2>6, <2>7 DEF RowsSound, Constraints, Kinds
  <2>10. \A j \in Rows : position'[j].kind = "principal" => ~position'[j].whole /\ j = i
    BY <2>4, <2>6, <2>7
  <2>11. ASSUME NEW j \in Rows, NEW k \in Rows, position'[j].kind = "vice_principal",
                position'[k].kind = "vice_principal", position'[j].teacher = position'[k].teacher
         PROVE  j = k
    BY <2>6, <2>7, <2>11 DEF RowsSound, Constraints
  <2> QED BY <2>5, <2>8, <2>9, <2>10, <2>11 DEF RowsSound, Constraints
<1>3. ASSUME NEW t \in Teachers, NEW whole \in BOOLEAN, NEW i \in Rows, AppointsRow(t, whole, i)
      PROVE  position' \in [Rows -> Position] /\ scopes' \subseteq Rows \X Grades /\ RowsSound'
  <2> DEFINE new == [kind |-> "vice_principal", teacher |-> t, whole |-> whole]
  <2>1. position' = [position EXCEPT ![i] = new] /\ new \in Position
    BY <1>3 DEF AppointsRow, Position, Kinds
  <2>3. position[i].kind \in {"vice_principal", "unused"}
    BY <1>3 DEF AppointsRow, Choose, RowsOf, FreeRow, ViceRow
  <2>4. \A j \in Rows : position[j].kind = "vice_principal" /\ position[j].teacher = t => j = i
    <3>1. CASE ViceRow(t) = {}
      BY <3>1 DEF ViceRow, RowsOf, PositionsOf
    <3>2. CASE ViceRow(t) # {}
      <4>1. position[i].kind = "vice_principal" /\ position[i].teacher = t
        BY <1>3, <3>2 DEF AppointsRow, Choose, RowsOf, ViceRow, PositionsOf
      <4> QED BY <4>1 DEF RowsSound, Constraints
    <3> QED BY <3>1, <3>2
  <2>5. position' \in [Rows -> Position] /\ scopes' = scopes
    BY <1>3, <2>1 DEF AppointsRow
  <2>6. position'[i] = new /\ \A j \in Rows \ {i} : position'[j] = position[j]
    BY <2>1
  <2>7. new.kind = "vice_principal" /\ new.teacher = t
    OBVIOUS
  <2> HIDE DEF new
  <2>8. ASSUME NEW s \in scopes PROVE position'[s[1]].kind = "vice_principal"
    <3>1. s[1] \in Rows /\ position[s[1]].kind = "vice_principal"
      BY <2>8 DEF RowsSound, Constraints
    <3> QED BY <3>1, <2>6, <2>7
  <2>9. \A j \in Rows : position'[j].kind \in Kinds <=> position'[j].teacher \in Teachers
    BY <2>6, <2>7 DEF RowsSound, Constraints, Kinds
  <2>10. \A j \in Rows : position'[j].kind = "principal" => ~position'[j].whole
    BY <2>6, <2>7 DEF RowsSound, Constraints
  <2>11. ASSUME NEW j \in Rows, NEW k \in Rows, position'[j].kind = "vice_principal",
                position'[k].kind = "vice_principal", position'[j].teacher = position'[k].teacher
         PROVE  j = k
    BY <2>4, <2>6, <2>7, <2>11 DEF RowsSound, Constraints
  <2>12. ASSUME NEW j \in Rows, NEW k \in Rows, position'[j].kind = "principal",
                position'[k].kind = "principal"
         PROVE  j = k
    BY <2>6, <2>7, <2>12 DEF RowsSound, Constraints
  <2> QED BY <2>5, <2>8, <2>9, <2>10, <2>11, <2>12 DEF RowsSound, Constraints
<1>4. ASSUME NEW rows \in SUBSET Rows, Remove(rows)
      PROVE  position' \in [Rows -> Position] /\ scopes' \subseteq Rows \X Grades /\ RowsSound'
  <2>1. position' \in [Rows -> Position] /\ scopes' \subseteq scopes
    BY <1>4, RecordsTyped DEF Remove
  <2>2. /\ \A i \in rows : position'[i].kind = "deleted" /\ position'[i].teacher \notin Teachers
                            /\ ~position'[i].whole
        /\ \A i \in Rows \ rows : position'[i] = position[i]
        /\ \A s \in scopes' : s[1] \in Rows \ rows
    BY <1>4, RowsAreNumbered DEF Remove, Gone
  <2>3. \A i \in Rows : position'[i].kind \in Kinds <=> position'[i].teacher \in Teachers
    BY <2>2 DEF RowsSound, Constraints, Kinds
  <2>4. \A i \in Rows : position'[i].kind = "principal" => ~position'[i].whole
    BY <2>2 DEF RowsSound, Constraints
  <2>5. \A s \in scopes' : position'[s[1]].kind = "vice_principal"
    BY <2>1, <2>2 DEF RowsSound, Constraints
  <2>6. ASSUME NEW i \in Rows, NEW j \in Rows, position'[i].kind = position'[j].kind,
               \/ position'[i].kind = "principal"
               \/ position'[i].kind = "vice_principal" /\ position'[i].teacher = position'[j].teacher
        PROVE  i = j
    BY <2>2, <2>6 DEF RowsSound, Constraints
  <2> QED BY <2>1, <2>3, <2>4, <2>5, <2>6 DEF RowsSound, Constraints
<1>5. ASSUME NEW i \in Rows, ClearsRow(i)
      PROVE  position' \in [Rows -> Position] /\ scopes' \subseteq Rows \X Grades /\ RowsSound'
  BY <1>5 DEF ClearsRow, RowsSound, Constraints
<1>6. ASSUME NEW i \in Rows, NEW g \in Grades, GrantsRow(i, g)
      PROVE  position' \in [Rows -> Position] /\ scopes' \subseteq Rows \X Grades /\ RowsSound'
  <2>1. position' = position /\ scopes' \subseteq Rows \X Grades
    BY <1>6 DEF GrantsRow
  <2>2. \A s \in scopes' : position'[s[1]].kind = "vice_principal"
    BY <1>6 DEF GrantsRow, RowsOf, RowsSound, Constraints
  <2> QED BY <2>1, <2>2 DEF RowsSound, Constraints
<1> QED BY <1>1, <1>2, <1>3, <1>4, <1>5, <1>6 DEF RowsChange

-----------------------------------------------------------------------------
(* What the steps do to the calls. *)

Opening(c) ==
    /\ c \in Call /\ WellPosed(c)
    /\ c.pc \in {"swap", "appoint", "assigned", "authorize"}

(* The end of a call by a failure, or its next statement. *)
Follows(c, d) ==
    \/ d = [NoCall EXCEPT !.pc = "failed"]
    \/ /\ d.teacher = c.teacher /\ d.grades = c.grades /\ d.societies = c.societies
       /\ d.whole = c.whole /\ d.pc \notin {"idle", "swap", "appoint", "assigned", "authorize"}

LEMMA BeginsOnCall ==
  ASSUME LeadershipTypeOK, NEW r \in Calls, Begins(r)
  PROVE  /\ call[r].pc \in Ended
         /\ \E c \in Call : Opening(c) /\ call' = [call EXCEPT ![r] = c]
         /\ UNCHANGED staffTables
<1> USE RecordsTyped
<1>1. PICK t \in Teachers :
          \/ BeginPrincipal(r, t)
          \/ \E whole \in BOOLEAN, grades \in SUBSET Grades : BeginVice(r, t, whole, grades)
          \/ \E g \in Grades : BeginAccess(r, t, g)
          \/ \E s \in Societies : BeginRoster(r, t, s)
  BY DEF Begins
<1>2. CASE BeginPrincipal(r, t)
  <2> DEFINE c == [NoCall EXCEPT !.pc = "swap", !.teacher = t]
  <2>1. c \in Call /\ c.pc = "swap" /\ c.teacher = t /\ c.row = Nobody
    BY DEF Call, NoCall, CallSteps
  <2>2. Begin(r, c)
    BY <1>2 DEF BeginPrincipal
  <2> HIDE DEF c
  <2>3. Opening(c)
    BY <2>1 DEF Opening, WellPosed, AccessSteps, RosterSteps
  <2> QED BY <2>1, <2>2, <2>3 DEF Begin
<1>3. ASSUME NEW whole \in BOOLEAN, NEW grades \in SUBSET Grades, BeginVice(r, t, whole, grades)
      PROVE  /\ call[r].pc \in Ended
             /\ \E c \in Call : Opening(c) /\ call' = [call EXCEPT ![r] = c]
             /\ UNCHANGED staffTables
  <2> DEFINE asked == IF whole THEN {} ELSE grades
  <2> DEFINE c == [NoCall EXCEPT !.pc = "appoint", !.teacher = t, !.whole = whole,
                                 !.grades = asked, !.left = asked]
  <2>1. c \in Call /\ c.pc = "appoint" /\ c.teacher = t /\ c.left = c.grades
    <3>1. asked \in SUBSET Grades
      OBVIOUS
    <3> HIDE DEF asked
    <3> QED BY <3>1 DEF Call, NoCall, CallSteps
  <2>2. Begin(r, c)
    BY <1>3 DEF BeginVice
  <2> HIDE DEF c
  <2>3. Opening(c)
    BY <2>1 DEF Opening, WellPosed, AccessSteps, RosterSteps
  <2> QED BY <2>1, <2>2, <2>3 DEF Begin
<1>4. ASSUME NEW g \in Grades, BeginAccess(r, t, g)
      PROVE  /\ call[r].pc \in Ended
             /\ \E c \in Call : Opening(c) /\ call' = [call EXCEPT ![r] = c]
             /\ UNCHANGED staffTables
  <2> DEFINE c == [NoCall EXCEPT !.pc = "assigned", !.teacher = t, !.grades = {g}]
  <2>1. c \in Call /\ c.pc = "assigned" /\ c.teacher = t /\ c.societies = {} /\ c.grades = {g}
    BY DEF Call, NoCall, CallSteps
  <2>2. Begin(r, c)
    BY <1>4 DEF BeginAccess
  <2> HIDE DEF c
  <2>3. Opening(c)
    BY <2>1 DEF Opening, WellPosed, AccessSteps, RosterSteps
  <2> QED BY <2>1, <2>2, <2>3 DEF Begin
<1>5. ASSUME NEW s \in Societies, BeginRoster(r, t, s)
      PROVE  /\ call[r].pc \in Ended
             /\ \E c \in Call : Opening(c) /\ call' = [call EXCEPT ![r] = c]
             /\ UNCHANGED staffTables
  <2> DEFINE c == [NoCall EXCEPT !.pc = "authorize", !.teacher = t, !.societies = {s}]
  <2>1. c \in Call /\ c.pc = "authorize" /\ c.teacher = t /\ c.societies = {s} /\ c.grades = {}
    BY DEF Call, NoCall, CallSteps
  <2>2. Begin(r, c)
    BY <1>5 DEF BeginRoster
  <2> HIDE DEF c
  <2>3. Opening(c)
    BY <2>1 DEF Opening, WellPosed, AccessSteps, RosterSteps
  <2> QED BY <2>1, <2>2, <2>3 DEF Begin
<1> QED BY <1>1, <1>2, <1>3, <1>4, <1>5

(* A step to pc that changes nothing else of the call. *)
LEMMA GoesOn ==
  ASSUME LeadershipTypeOK, CallsWellPosed, NEW r \in Calls, NEW to, Go(r, to),
         call[r].pc \in CallSteps,
         \/ to \in {"demote", "done", "granted", "denied", "failed", "principal", "position",
                    "heads", "headed", "roster"}
         \/ to = "grant" /\ call[r].row \in Rows /\ call[r].left \subseteq call[r].grades,
         to = "demote" => call[r].row = Nobody,
         to \in AccessSteps => call[r].pc \in AccessSteps,
         to \in RosterSteps => call[r].pc \in RosterSteps
  PROVE  \E d \in Call : /\ WellPosed(d) /\ Follows(call[r], d) /\ d.pc = to
                         /\ d.row = call[r].row /\ d.left = call[r].left
                         /\ call' = [call EXCEPT ![r] = d]
<1> DEFINE d == [call[r] EXCEPT !.pc = to]
<1>1. call[r] \in Call /\ WellPosed(call[r]) /\ call \in [Calls -> Call]
  BY DEF LeadershipTypeOK, CallsWellPosed
<1>2. /\ d \in Call /\ d.pc = to /\ d.row = call[r].row /\ d.left = call[r].left
      /\ d.teacher = call[r].teacher /\ d.grades = call[r].grades
      /\ d.societies = call[r].societies /\ d.whole = call[r].whole
  BY <1>1 DEF Call, Ended, CallSteps
<1>3. call' = [call EXCEPT ![r] = d]
  BY <1>1 DEF Go
<1> HIDE DEF d
<1>4. WellPosed(d)
  BY <1>1, <1>2 DEF WellPosed, AccessSteps, RosterSteps
<1>5. Follows(call[r], d)
  BY <1>2 DEF Follows
<1> QED BY <1>2, <1>3, <1>4, <1>5

LEMMA ProceedsOnCall ==
  ASSUME LeadershipTypeOK, CallsWellPosed, NEW r \in Calls, Proceeds(r)
  PROVE  /\ call[r].pc \in CallSteps
         /\ \E d \in Call : WellPosed(d) /\ Follows(call[r], d) /\ call' = [call EXCEPT ![r] = d]
<1> DEFINE Goal == /\ call[r].pc \in CallSteps
                   /\ \E d \in Call : /\ WellPosed(d) /\ Follows(call[r], d)
                                      /\ call' = [call EXCEPT ![r] = d]
<1>1. call[r] \in Call /\ WellPosed(call[r]) /\ call \in [Calls -> Call]
  BY DEF LeadershipTypeOK, CallsWellPosed
<1>2. ASSUME Swap(r) PROVE Goal
  <2>1. call[r].pc = "swap" /\ Go(r, "demote")
    BY <1>2 DEF Swap, MakePrincipal
  <2>2. call[r].row = Nobody
    BY <1>1, <2>1 DEF WellPosed
  <2> QED BY <2>1, <2>2, GoesOn DEF CallSteps, AccessSteps, RosterSteps
<1>3. ASSUME Demote(r) PROVE Goal
  BY <1>3, GoesOn DEF Demote, CallSteps, AccessSteps, RosterSteps
<1>4. ASSUME Appoint(r) PROVE Goal
  <2>1. PICK i \in Choose(ViceRow(call[r].teacher), FreeRow) :
            call' = [call EXCEPT ![r].pc = "clear", ![r].row = i]
    BY <1>4 DEF Appoint
  <2>2. i \in Rows /\ call[r].pc = "appoint"
    BY <1>4, <2>1 DEF Choose, ViceRow, PositionsOf, FreeRow, RowsOf, Appoint
  <2> DEFINE d == [call[r] EXCEPT !.pc = "clear", !.row = i]
  <2>3. /\ d \in Call /\ d.pc = "clear" /\ d.row = i /\ d.left = call[r].left
        /\ d.teacher = call[r].teacher /\ d.grades = call[r].grades
        /\ d.societies = call[r].societies /\ d.whole = call[r].whole
    BY <1>1, <2>2 DEF Call, Ended, CallSteps
  <2>4. call' = [call EXCEPT ![r] = d]
    BY <1>1, <2>1
  <2> HIDE DEF d
  <2>5. WellPosed(d) /\ Follows(call[r], d)
    BY <1>1, <2>2, <2>3 DEF WellPosed, AccessSteps, RosterSteps, Follows, CallSteps
  <2> QED BY <2>2, <2>3, <2>4, <2>5 DEF CallSteps
<1>5. ASSUME ClearScopes(r) PROVE Goal
  <2>1. call[r].pc = "clear" /\ Go(r, AfterScope(call[r].left))
    BY <1>5 DEF ClearScopes
  <2>2. call[r].row \in Rows /\ call[r].left \subseteq call[r].grades
    BY <1>1, <2>1 DEF WellPosed
  <2> QED BY <2>1, <2>2, GoesOn DEF CallSteps, AccessSteps, RosterSteps, AfterScope
<1>6. ASSUME GrantScope(r) PROVE Goal
  <2>1. call[r].pc = "grant" /\ call[r].row \in Rows
    BY <1>6 DEF GrantScope, RowsOf
  <2>2. PICK g \in call[r].left :
            call' = [call EXCEPT ![r].left = @ \ {g}, ![r].pc = AfterScope(call[r].left \ {g})]
    BY <1>6 DEF GrantScope
  <2>3. PICK to : to = AfterScope(call[r].left \ {g})
    OBVIOUS
  <2>4. to \in {"done", "grant"}
    BY <2>3 DEF AfterScope
  <2> DEFINE d == [call[r] EXCEPT !.left = @ \ {g}, !.pc = to]
  <2>5. /\ d \in Call /\ d.pc = to /\ d.row = call[r].row /\ d.left = call[r].left \ {g}
        /\ d.teacher = call[r].teacher /\ d.grades = call[r].grades
        /\ d.societies = call[r].societies /\ d.whole = call[r].whole
    BY <1>1, <2>4 DEF Call, Ended, CallSteps
  <2>6. call' = [call EXCEPT ![r] = d]
    BY <1>1, <2>2, <2>3
  <2> HIDE DEF d
  <2>7. WellPosed(d) /\ Follows(call[r], d)
    BY <1>1, <2>1, <2>4, <2>5 DEF WellPosed, AccessSteps, RosterSteps, Follows, CallSteps
  <2> QED BY <2>1, <2>5, <2>6, <2>7 DEF CallSteps
<1>7. ASSUME ReadAssigned(r) PROVE Goal
  BY <1>7, GoesOn DEF ReadAssigned, Read, CallSteps, AccessSteps, RosterSteps
<1>8. ASSUME ReadPrincipal(r) PROVE Goal
  BY <1>8, GoesOn DEF ReadPrincipal, Read, CallSteps, AccessSteps, RosterSteps
<1>9. ASSUME ReadPosition(r) PROVE Goal
  <2>1. CASE Read(r, "position", "heads")
    BY <2>1, GoesOn DEF Read, CallSteps, AccessSteps, RosterSteps
  <2>2. ASSUME NEW i \in PositionsOf(call[r].teacher), call[r].pc = "position",
               call' = [call EXCEPT ![r].row = i,
                              ![r].pc = IF position[i].whole THEN "granted" ELSE "scopes"]
        PROVE  Goal
    <3>1. i \in Rows
      BY <2>2 DEF PositionsOf
    <3>2. PICK to : to = IF position[i].whole THEN "granted" ELSE "scopes"
      OBVIOUS
    <3>3. to \in {"granted", "scopes"}
      BY <3>2
    <3> DEFINE d == [call[r] EXCEPT !.row = i, !.pc = to]
    <3>5. /\ d \in Call /\ d.pc = to /\ d.row = i
          /\ d.teacher = call[r].teacher /\ d.grades = call[r].grades
          /\ d.societies = call[r].societies /\ d.whole = call[r].whole
      BY <1>1, <3>1, <3>3 DEF Call, Ended, CallSteps
    <3>6. call' = [call EXCEPT ![r] = d]
      BY <1>1, <2>2, <3>2
    <3> HIDE DEF d
    <3>7. WellPosed(d) /\ Follows(call[r], d)
      BY <1>1, <2>2, <3>1, <3>3, <3>5 DEF WellPosed, AccessSteps, RosterSteps, Follows, CallSteps
    <3> QED BY <2>2, <3>5, <3>6, <3>7 DEF CallSteps
  <2> QED BY <1>9, <2>1, <2>2 DEF ReadPosition
<1>10. ASSUME ReadScopes(r) PROVE Goal
  BY <1>10, GoesOn DEF ReadScopes, Read, CallSteps, AccessSteps, RosterSteps
<1>11. ASSUME ReadHeads(r) PROVE Goal
  BY <1>11, GoesOn DEF ReadHeads, Read, CallSteps, AccessSteps, RosterSteps
<1>12. ASSUME ReadHeaded(r) PROVE Goal
  BY <1>12, GoesOn DEF ReadHeaded, Read, CallSteps, AccessSteps, RosterSteps
<1>13. ASSUME Authorize(r) PROVE Goal
  BY <1>13, GoesOn DEF Authorize, Read, CallSteps, AccessSteps, RosterSteps
<1>14. ASSUME WriteRoster(r) PROVE Goal
  BY <1>14, GoesOn DEF WriteRoster, Read, CallSteps, AccessSteps, RosterSteps
<1>15. ASSUME LeadershipFails(r) PROVE Goal
  <2> DEFINE d == [NoCall EXCEPT !.pc = "failed"]
  <2>1. d \in Call /\ d.pc = "failed" /\ call' = [call EXCEPT ![r] = d]
    BY <1>15, RecordsTyped DEF LeadershipFails, Call, Ended
  <2>2. Follows(call[r], d)
    BY DEF Follows
  <2>3. call[r].pc \in CallSteps
    BY <1>1, <1>15 DEF LeadershipFails, Call
  <2> HIDE DEF d
  <2>4. WellPosed(d)
    BY <2>1 DEF WellPosed, CallSteps, AccessSteps, RosterSteps
  <2> QED BY <2>1, <2>2, <2>3, <2>4
<1> QED BY <1>2, <1>3, <1>4, <1>5, <1>6, <1>7, <1>8, <1>9, <1>10, <1>11, <1>12, <1>13, <1>14,
           <1>15 DEF Proceeds

-----------------------------------------------------------------------------
(* Types, calls and rows are as they should be after every step. *)

Acts(r) ==
    \/ /\ r = Nobody /\ call' = call /\ Changes
    \/ /\ r \in Calls /\ call[r].pc \in Ended /\ UNCHANGED staffTables
       /\ \E c \in Call : Opening(c) /\ call' = [call EXCEPT ![r] = c]
    \/ /\ r \in Calls /\ call[r].pc \in CallSteps /\ Proceeds(r)
       /\ \E d \in Call : /\ WellPosed(d) /\ Follows(call[r], d)
                          /\ call' = [call EXCEPT ![r] = d]

LEMMA SomebodyActs ==
  ASSUME LeadershipTypeOK, CallsWellPosed, LeadershipNext
  PROVE  /\ \E r \in Calls \union {Nobody} : Acts(r) /\ Witness(r)
         /\ RowsChange \/ RowsStay
<1>1. ASSUME NEW r \in Calls, Begins(r), Witness(r)
      PROVE  Acts(r) /\ RowsStay
  BY <1>1, BeginsOnCall, BeginsOnRows DEF Acts
<1>2. ASSUME NEW r \in Calls, Proceeds(r), Witness(r)
      PROVE  Acts(r) /\ (RowsChange \/ RowsStay)
  BY <1>2, ProceedsOnCall, ProceedsOnRows DEF Acts
<1>3. ASSUME Changes, Witness(Nobody)
      PROVE  Acts(Nobody) /\ (RowsChange \/ RowsStay)
  <2>1. call' = call
    BY <1>3 DEF Changes, DeletePosition, SetHead, Reassign, SetCharge, Single
  <2> QED BY <1>3, <2>1, ChangesOnRows DEF Acts
<1> QED BY <1>1, <1>2, <1>3 DEF LeadershipNext

LEMMA CallsKept ==
  ASSUME LeadershipTypeOK, CallsWellPosed, NEW r \in Calls \union {Nobody}, Acts(r)
  PROVE  /\ call' \in [Calls -> Call] /\ CallsWellPosed'
         /\ \A q \in Calls \ {r} : call'[q] = call[q]
<1>1. call \in [Calls -> Call]
  BY DEF LeadershipTypeOK
<1>2. CASE r = Nobody
  <2>1. call' = call
    BY <1>2, RowsAreNumbered DEF Acts
  <2> QED BY <1>1, <2>1 DEF CallsWellPosed
<1>3. CASE r \in Calls
  <2>1. PICK d \in Call : WellPosed(d) /\ call' = [call EXCEPT ![r] = d]
    BY <1>3, RowsAreNumbered DEF Acts, Opening
  <2> QED BY <1>1, <1>3, <2>1 DEF CallsWellPosed
<1> QED BY <1>2, <1>3

LEMMA ObservedTyped ==
  ASSUME LeadershipTypeOK, call' \in [Calls -> Call], position' \in [Rows -> Position],
         RowsSound', NEW q \in Calls
  PROVE  Observed(q) \in History
<1> DEFINE c == call'[q]
           now == UNION ({GroundsOf'[c.teacher][g] : g \in c.grades}
                         \union {InCharge'[c.teacher][s] : s \in c.societies})
           before == IF call[q].pc \in Ended THEN Nothing ELSE seen[q]
<1>1. c \in Call /\ seen[q] \in History /\ before \in History
  BY RecordsTyped DEF LeadershipTypeOK
<1>2. CASE c.teacher = Nobody
  BY <1>1, <1>2, RecordsTyped DEF Observed
<1>3. CASE c.teacher # Nobody
  <2>1. c.teacher \in Teachers /\ c.grades \subseteq Grades /\ c.societies \subseteq Societies
    BY <1>1, <1>3 DEF Call
  <2>2. \A g \in c.grades : GroundsOf'[c.teacher][g] \subseteq Grounds
    BY <2>1 DEF GroundsOf, Grounds
  <2>3. \A s \in c.societies : InCharge'[c.teacher][s] \subseteq Grounds
    BY <2>1 DEF InCharge, Grounds
  <2>4. now \subseteq Grounds
    BY <2>2, <2>3
  <2>5. Held'[c.teacher] \subseteq Kinds
    BY <2>1 DEF Held, PositionsOf, RowsSound, Constraints
  <2> DEFINE after == [before EXCEPT !.ever = @ \union now, !.always = @ \intersect now,
                                     !.held = @ \union Held'[c.teacher]]
  <2>6. after \in History
    <3> HIDE DEF now, before
    <3> QED BY <1>1, <2>4, <2>5 DEF History
  <2>7. Observed(q) = seen[q] \/ Observed(q) = after
    BY <1>3 DEF Observed
  <2> QED BY <1>1, <2>6, <2>7
<1> QED BY <1>2, <1>3

LEMMA WitnessTyped ==
  ASSUME LeadershipTypeOK, call' \in [Calls -> Call], position' \in [Rows -> Position],
         RowsSound', NEW r, Witness(r)
  PROVE  seen' \in [Calls -> History]
<1>1. ASSUME NEW q \in Calls PROVE seen'[q] \in History
  <2>1. PICK was \in History : was = Observed(q)
    BY ObservedTyped
  <2>2. PICK b \in BOOLEAN : seen'[q] = [Observed(q) EXCEPT !.disturbed = b]
    <3>1. was.disturbed \in BOOLEAN
      BY <2>1 DEF History
    <3> QED BY <2>1, <3>1 DEF Witness
  <2>3. [was EXCEPT !.disturbed = b] \in History
    BY <2>2 DEF History
  <2> QED BY <2>1, <2>2, <2>3
<1> QED BY <1>1 DEF Witness

LEMMA OtherTablesKept ==
  ASSUME LeadershipTypeOK, LeadershipNext
  PROVE  /\ heads' \in [Grades -> Teachers \union {Nobody}]
         /\ teaches' \subseteq Teachers \X Grades
         /\ charge' \in [Societies -> Teachers \union {Nobody}]
         /\ changed' \in 0..MaxChanges
<1> DEFINE Goal == /\ heads' \in [Grades -> Teachers \union {Nobody}]
                   /\ teaches' \subseteq Teachers \X Grades
                   /\ charge' \in [Societies -> Teachers \union {Nobody}]
           Same == UNCHANGED <<heads, teaches, charge>>
           Counted == changed' \in 0..MaxChanges
<1>0. /\ heads \in [Grades -> Teachers \union {Nobody}]
      /\ teaches \subseteq Teachers \X Grades
      /\ charge \in [Societies -> Teachers \union {Nobody}]
      /\ changed \in 0..MaxChanges /\ MaxChanges \in Nat
  BY ChangesAreBounded DEF LeadershipTypeOK
<1>1. ASSUME Change PROVE Counted
  BY <1>0, <1>1 DEF Change
<1>2. ASSUME NEW r \in Calls, Begins(r) PROVE Same /\ Counted
  BY <1>0, <1>1, <1>2 DEF Begins, BeginPrincipal, BeginVice, BeginAccess, BeginRoster, Begin,
                          staffTables
<1>3. ASSUME NEW r \in Calls, Proceeds(r) PROVE Same
  BY <1>3 DEF Proceeds, Swap, MakePrincipal, Demote, Appoint, ClearScopes, GrantScope,
              ReadAssigned, ReadPrincipal, ReadPosition, ReadScopes, ReadHeads, ReadHeaded,
              Authorize, WriteRoster, LeadershipFails, Read, staffTables
<1>4. ASSUME Changes PROVE Goal /\ Counted
  <2>1. Change
    BY <1>4 DEF Changes, DeletePosition, SetHead, Reassign, SetCharge, Single
  <2>2. ASSUME NEW i \in Rows, DeletePosition(i) PROVE Same
    BY <2>2 DEF DeletePosition
  <2>3. ASSUME NEW g \in Grades, NEW t \in Teachers \union {Nobody}, SetHead(g, t) PROVE Goal
    BY <1>0, <2>3 DEF SetHead
  <2>4. ASSUME NEW g \in Grades, NEW t \in Teachers, Reassign(t, g) PROVE Goal
    <3>1. <<t, g>> \in Teachers \X Grades
      OBVIOUS
    <3>2. teaches' \subseteq Teachers \X Grades
      BY <1>0, <2>4, <3>1 DEF Reassign
    <3> QED BY <1>0, <2>4, <3>2 DEF Reassign
  <2>5. ASSUME NEW s \in Societies, NEW t \in Teachers \union {Nobody}, SetCharge(s, t) PROVE Goal
    BY <1>0, <2>5 DEF SetCharge
  <2>6. Goal
    BY <1>0, <1>4, <2>2, <2>3, <2>4, <2>5 DEF Changes
  <2> QED BY <1>1, <2>1, <2>6
<1> QED BY <1>0, <1>2, <1>3, <1>4 DEF LeadershipNext

StaffOK == LeadershipTypeOK /\ CallsWellPosed /\ RowsSound

LEMMA StaffOKInit == LeadershipInit => StaffOK
<1> SUFFICES ASSUME LeadershipInit PROVE StaffOK
  OBVIOUS
<1>1. PICK now \in Tables :
          /\ position = now.position /\ scopes = now.scopes
          /\ heads = now.heads /\ teaches = now.teaches /\ charge = now.charge
  BY DEF LeadershipInit
<1>2. /\ position \in [Rows -> Position] /\ scopes \subseteq Rows \X Grades
      /\ heads \in [Grades -> Teachers \union {Nobody}]
      /\ teaches \subseteq Teachers \X Grades
      /\ charge \in [Societies -> Teachers \union {Nobody}]
      /\ RowsSound
  BY <1>1, TablesAreSound DEF RowsSound
<1>3. /\ call = [r \in Calls |-> NoCall] /\ seen = [r \in Calls |-> Nothing]
      /\ changed \in 0..MaxChanges
  BY ChangesAreBounded DEF LeadershipInit
<1>4. WellPosed(NoCall)
  BY DEF WellPosed, NoCall, CallSteps, AccessSteps, RosterSteps
<1> QED BY <1>2, <1>3, <1>4, RecordsTyped DEF StaffOK, LeadershipTypeOK, CallsWellPosed

LEMMA StaffOKStep == StaffOK /\ LeadershipNext => StaffOK'
<1> SUFFICES ASSUME StaffOK, LeadershipNext PROVE StaffOK'
  OBVIOUS
<1>1. LeadershipTypeOK /\ CallsWellPosed /\ RowsSound
  BY DEF StaffOK
<1>2. PICK r \in Calls \union {Nobody} : Acts(r) /\ Witness(r)
  BY <1>1, SomebodyActs
<1>3. position' \in [Rows -> Position] /\ scopes' \subseteq Rows \X Grades /\ RowsSound'
  BY <1>1, SomebodyActs, ConstraintsKept DEF LeadershipTypeOK
<1>4. call' \in [Calls -> Call] /\ CallsWellPosed'
  BY <1>1, <1>2, CallsKept
<1>5. seen' \in [Calls -> History]
  BY <1>1, <1>2, <1>3, <1>4, WitnessTyped
<1> QED BY <1>1, <1>3, <1>4, <1>5, OtherTablesKept DEF StaffOK, LeadershipTypeOK

LEMMA StaffStaysOK == LeadershipSpec => []StaffOK
<1>1. StaffOK /\ UNCHANGED leadershipVars => StaffOK'
  BY DEF StaffOK, LeadershipTypeOK, CallsWellPosed, RowsSound, leadershipVars
<1> QED BY <1>1, StaffOKInit, StaffOKStep, PTL DEF LeadershipSpec

-----------------------------------------------------------------------------
(* Appointments. *)

AppointmentIn(rows, granted, t) ==
    {[whole |-> rows[i].whole, grades |-> {g \in Grades : <<i, g>> \in granted}] :
        i \in {j \in Rows : rows[j].teacher = t /\ rows[j].kind = "vice_principal"}}

LEMMA AppointmentIsIn ==
  ASSUME NEW t \in Teachers
  PROVE  /\ Appointment[t] = AppointmentIn(position, scopes, t)
         /\ Appointment'[t] = AppointmentIn(position', scopes', t)
<1>1. ViceRow(t) = {j \in Rows : position[j].teacher = t /\ position[j].kind = "vice_principal"}
  BY DEF ViceRow, PositionsOf, RowsOf
<1>2. ViceRow(t)' = {j \in Rows : position'[j].teacher = t /\ position'[j].kind = "vice_principal"}
  BY DEF ViceRow, PositionsOf, RowsOf
<1> QED BY <1>1, <1>2 DEF Appointment, AppointmentIn

LEMMA OneAppointment ==
  ASSUME NEW rows, NEW granted, Constraints(rows, granted), NEW i \in Rows,
         rows[i].kind = "vice_principal"
  PROVE  AppointmentIn(rows, granted, rows[i].teacher) =
             {[whole |-> rows[i].whole, grades |-> {g \in Grades : <<i, g>> \in granted}]}
<1>1. {j \in Rows : rows[j].teacher = rows[i].teacher /\ rows[j].kind = "vice_principal"} = {i}
  BY DEF Constraints
<1> QED BY <1>1 DEF AppointmentIn

(* A Vice Principal who still has an appointment has it in the same row. *)
LEMMA RowIsKept ==
  ASSUME StaffOK, RowsChange \/ RowsStay, NEW i \in Rows, NEW t \in Teachers,
         position[i].kind = "vice_principal", position[i].teacher = t,
         AppointmentIn(position', scopes', t) # {}
  PROVE  position'[i].kind = "vice_principal" /\ position'[i].teacher = t
<1>0. position \in [Rows -> Position] /\ Constraints(position, scopes)
  BY DEF StaffOK, LeadershipTypeOK, RowsSound
<1>1. PICK j \in Rows : position'[j].teacher = t /\ position'[j].kind = "vice_principal"
  BY DEF AppointmentIn
<1>2. CASE RowsStay \/ \E k \in Rows : ClearsRow(k) \/ \E g \in Grades : GrantsRow(k, g)
  BY <1>2 DEF RowsStay, ClearsRow, GrantsRow
<1>3. ASSUME NEW u \in Teachers, GivesAway(u)
      PROVE  position'[i] = position[i]
  <2>1. PICK k \in Choose(RowsOf("principal"), FreeRow) :
            position' = [position EXCEPT ![k] = [kind |-> "principal", teacher |-> u,
                                                 whole |-> FALSE]]
    BY <1>3 DEF GivesAway
  <2>2. position[k].kind \in {"principal", "unused"}
    BY <2>1 DEF Choose, RowsOf, FreeRow
  <2> QED BY <1>0, <2>1, <2>2
<1>4. ASSUME NEW u \in Teachers, NEW whole \in BOOLEAN, NEW k \in Rows, AppointsRow(u, whole, k)
      PROVE  position'[i].kind = "vice_principal" /\ position'[i].teacher = t
  <2>1. CASE k = i
    <3>1. u = t
      <4>1. k \in ViceRow(u)
        BY <1>4, <2>1 DEF AppointsRow, Choose, FreeRow, RowsOf
      <4> QED BY <2>1, <4>1 DEF ViceRow, PositionsOf
    <3>2. position' = [position EXCEPT ![i] = [kind |-> "vice_principal", teacher |-> t,
                                               whole |-> whole]]
      BY <1>4, <2>1, <3>1 DEF AppointsRow
    <3> QED BY <1>0, <3>2
  <2>2. CASE k # i
    BY <1>0, <1>4, <2>2 DEF AppointsRow
  <2> QED BY <2>1, <2>2
<1>5. ASSUME NEW rows \in SUBSET Rows, Remove(rows)
      PROVE  position'[i] = position[i]
  <2>1. j \notin rows
    BY <1>1, <1>5 DEF Remove, Gone
  <2>2. position'[j] = position[j]
    BY <1>5, <2>1 DEF Remove
  <2>3. j = i
    BY <1>0, <1>1, <2>2 DEF Constraints
  <2> QED BY <2>2, <2>3
<1> QED BY <1>2, <1>3, <1>4, <1>5 DEF RowsChange

LEMMA StillUndisturbed ==
  ASSUME StaffOK, NEW q \in Calls, NEW r, Witness(r), ~seen'[q].disturbed,
         call[q].pc \notin Ended \/ call'[q].pc \in Ended, call'[q].teacher \in Teachers
  PROVE  /\ ~seen[q].disturbed
         /\ q # r => Appointment'[call'[q].teacher] = Appointment[call'[q].teacher]
<1> DEFINE t == call'[q].teacher
<1>1. seen[q] \in History /\ t # Nobody
  BY RowsAreNumbered DEF StaffOK, LeadershipTypeOK
<1>2. PICK was : was = Observed(q)
  OBVIOUS
<1>3. was \in [ever : {was.ever}, always : {was.always}, held : {was.held},
               disturbed : {was.disturbed}] /\ was.disturbed = seen[q].disturbed
  <2>1. CASE call[q].pc \in Ended
    BY <1>1, <1>2, <2>1 DEF Observed, History
  <2>2. CASE call[q].pc \notin Ended
    <3>1. PICK ever, always, held :
              was = [seen[q] EXCEPT !.ever = ever, !.always = always, !.held = held]
      BY <1>1, <1>2, <2>2 DEF Observed
    <3> QED BY <1>1, <3>1 DEF History
  <2> QED BY <2>1, <2>2
<1>4. seen'[q] = [was EXCEPT !.disturbed =
            \/ @
            \/ q # r /\ t # Nobody /\ Appointment'[t] # Appointment[t]]
  BY <1>2 DEF Witness
<1>5. seen'[q].disturbed = (\/ was.disturbed
                            \/ q # r /\ t # Nobody /\ Appointment'[t] # Appointment[t])
  BY <1>3, <1>4
<1> QED BY <1>1, <1>3, <1>5

LEMMA GivenByOthers ==
  ASSUME StaffOK, StaffOK', Given, RowsChange \/ RowsStay, NEW r \in Calls \union {Nobody},
         Acts(r), Witness(r), NEW q \in Calls \ {r},
         call'[q].pc \in {"clear", "grant", "done"}, call'[q].row # Nobody, ~seen'[q].disturbed
  PROVE  Undisturbed(call[q])'
<1> DEFINE c == call[q]
           i == c.row
           t == c.teacher
<1>1. call'[q] = c
  BY CallsKept DEF StaffOK
<1>2. c \in Call /\ WellPosed(c)
  BY DEF StaffOK, LeadershipTypeOK, CallsWellPosed
<1>3. t \in Teachers /\ i \in Rows
  BY <1>1, <1>2 DEF WellPosed, CallSteps, Call
<1>4. ~seen[q].disturbed /\ Appointment'[t] = Appointment[t]
  BY <1>1, <1>3, StillUndisturbed DEF Ended
<1>5. Undisturbed(c)
  BY <1>1, <1>4 DEF Given
<1>6. position[i].kind = "vice_principal" /\ position[i].teacher = t /\ position[i].whole = c.whole
  BY <1>5 DEF Undisturbed
<1>7. AppointmentIn(position, scopes, t) = {[whole |-> c.whole, grades |-> GradesOf(i)]}
  BY <1>3, <1>6, OneAppointment DEF StaffOK, RowsSound, GradesOf
<1>8. AppointmentIn(position', scopes', t) = {[whole |-> c.whole, grades |-> GradesOf(i)]}
  BY <1>3, <1>4, <1>7, AppointmentIsIn
<1>9. position'[i].kind = "vice_principal" /\ position'[i].teacher = t
  BY <1>3, <1>6, <1>8, RowIsKept
<1>10. Constraints(position', scopes')
  BY DEF StaffOK, RowsSound
<1>11. AppointmentIn(position', scopes', t) =
           {[whole |-> position'[i].whole, grades |-> {g \in Grades : <<i, g>> \in scopes'}]}
  BY <1>3, <1>9, <1>10, OneAppointment
<1>12. position'[i].whole = c.whole /\ {g \in Grades : <<i, g>> \in scopes'} = GradesOf(i)
  <2>1. [whole |-> position'[i].whole, grades |-> {g \in Grades : <<i, g>> \in scopes'}] =
            [whole |-> c.whole, grades |-> GradesOf(i)]
    BY <1>8, <1>11
  <2> HIDE DEF i, c
  <2> QED BY <2>1
<1>13. position'[i] \in Position
  BY <1>3 DEF StaffOK, LeadershipTypeOK
<1>14. position'[i] = [kind |-> "vice_principal", teacher |-> t, whole |-> c.whole]
  BY <1>9, <1>12, <1>13 DEF Position
<1> QED BY <1>1, <1>5, <1>12, <1>14 DEF Undisturbed, GradesOf

LEMMA GivenByItself ==
  ASSUME StaffOK, StaffOK', Given, NEW q \in Calls, Acts(q), Witness(q),
         call'[q].pc \in {"clear", "grant", "done"}, call'[q].row # Nobody, ~seen'[q].disturbed
  PROVE  Undisturbed(call[q])'
<1> DEFINE c == call[q]
           i == c.row
<1>1. c \in Call /\ WellPosed(c) /\ call'[q] \in Call /\ WellPosed(call'[q])
      /\ call \in [Calls -> Call] /\ position \in [Rows -> Position]
  BY DEF StaffOK, LeadershipTypeOK, CallsWellPosed
<1>2. c.pc \in CallSteps /\ Proceeds(q)
  <2>1. q # Nobody
    BY RowsAreNumbered
  <2>2. ~ \E d \in Call : Opening(d) /\ call' = [call EXCEPT ![q] = d]
    BY <1>1 DEF Opening
  <2> QED BY <2>1, <2>2 DEF Acts
<1>3. c.pc \notin Ended
  BY <1>2 DEF CallSteps, Ended
<1>4. call'[q].teacher \in Teachers
  BY <1>1 DEF WellPosed, CallSteps
<1>5. ~seen[q].disturbed
  BY <1>3, <1>4, StillUndisturbed
<1>6. CASE Appoint(q)
  <2>1. PICK k \in Choose(ViceRow(c.teacher), FreeRow) :
            /\ position' = [position EXCEPT ![k] = [kind |-> "vice_principal",
                               teacher |-> c.teacher, whole |-> c.whole]]
            /\ call' = [call EXCEPT ![q].pc = "clear", ![q].row = k]
    BY <1>6 DEF Appoint
  <2>2. k \in Rows
    BY <2>1 DEF Choose, ViceRow, PositionsOf, FreeRow, RowsOf
  <2>3. call'[q].row = k /\ call'[q].pc = "clear" /\ call'[q].teacher = c.teacher
        /\ call'[q].whole = c.whole
    BY <1>1, <2>1 DEF Call
  <2>4. position'[k] = [kind |-> "vice_principal", teacher |-> c.teacher, whole |-> c.whole]
    BY <1>1, <2>1, <2>2
  <2> QED BY <2>3, <2>4 DEF Undisturbed
<1>7. CASE ClearScopes(q)
  <2>1. /\ c.pc = "clear" /\ position' = position /\ scopes' = {s \in scopes : s[1] # i}
        /\ call' = [call EXCEPT ![q].pc = AfterScope(c.left)]
    BY <1>7 DEF ClearScopes, Go
  <2>2. /\ call'[q].row = i /\ call'[q].pc = AfterScope(c.left) /\ call'[q].teacher = c.teacher
        /\ call'[q].whole = c.whole /\ call'[q].grades = c.grades /\ call'[q].left = c.left
    BY <1>1, <2>1 DEF Call
  <2>3. Undisturbed(c)
    BY <1>5, <2>1, <2>2 DEF Given
  <2>4. GradesOf(i)' = {}
    BY <2>1, <2>2 DEF GradesOf
  <2>5. c.left = c.grades
    BY <1>1, <2>1 DEF WellPosed
  <2>6. call'[q].pc = "done" => c.grades = {}
    BY <2>2, <2>5 DEF AfterScope
  <2>7. position'[i] = [kind |-> "vice_principal", teacher |-> c.teacher, whole |-> c.whole]
    BY <2>1, <2>3 DEF Undisturbed
  <2>8. {g \in Grades : <<i, g>> \in scopes'} = {}
    BY <2>1
  <2> QED BY <2>2, <2>5, <2>6, <2>7, <2>8 DEF Undisturbed, GradesOf
<1>8. CASE GrantScope(q)
  <2>1. PICK g \in c.left : /\ scopes' = scopes \union {<<i, g>>}
                            /\ call' = [call EXCEPT ![q].left = @ \ {g},
                                                    ![q].pc = AfterScope(c.left \ {g})]
    BY <1>8 DEF GrantScope
  <2>2. /\ call'[q].row = i /\ call'[q].pc = AfterScope(c.left \ {g})
        /\ call'[q].teacher = c.teacher /\ call'[q].whole = c.whole
        /\ call'[q].grades = c.grades /\ call'[q].left = c.left \ {g}
    BY <1>1, <2>1 DEF Call
  <2>3. c.pc = "grant" /\ position' = position
    BY <1>8 DEF GrantScope
  <2>4. Undisturbed(c)
    BY <1>5, <2>2, <2>3 DEF Given
  <2>5. c.left \subseteq c.grades /\ c.grades \subseteq Grades
    BY <1>1, <2>3 DEF WellPosed, Call
  <2>6. {h \in Grades : <<i, h>> \in scopes} = c.grades \ c.left
    BY <2>3, <2>4 DEF Undisturbed, GradesOf
  <2>7. {h \in Grades : <<i, h>> \in scopes'} = c.grades \ (c.left \ {g})
    <3>1. \A h \in Grades : <<i, h>> \in scopes' <=> <<i, h>> \in scopes \/ h = g
      BY <2>1
    <3> QED BY <2>1, <2>5, <2>6, <3>1
  <2>8. call'[q].pc = "done" => c.left \ {g} = {}
    BY <2>2 DEF AfterScope
  <2>9. position'[i] = [kind |-> "vice_principal", teacher |-> c.teacher, whole |-> c.whole]
    BY <2>3, <2>4 DEF Undisturbed
  <2> QED BY <2>2, <2>7, <2>8, <2>9 DEF Undisturbed, GradesOf
<1>9. CASE Demote(q)
  <2>1. call'[q].row = c.row
    BY <1>1, <1>9 DEF Demote, Go, Call
  <2> QED BY <1>1, <1>9, <2>1 DEF WellPosed, Demote
<1>10. CASE \/ Swap(q) \/ ReadAssigned(q) \/ ReadPrincipal(q) \/ ReadPosition(q)
            \/ ReadScopes(q) \/ ReadHeads(q) \/ ReadHeaded(q)
            \/ Authorize(q) \/ WriteRoster(q) \/ LeadershipFails(q)
  <2>1. call'[q].pc \in {"demote", "granted", "principal", "position", "heads", "scopes",
                         "denied", "headed", "roster", "failed"}
    <3>1. ASSUME NEW to, Go(q, to) PROVE call'[q].pc = to
      BY <1>1, <3>1 DEF Go, Call
    <3>2. CASE LeadershipFails(q)
      BY <1>1, <3>2 DEF LeadershipFails, NoCall
    <3>3. ASSUME NEW k \in Rows, NEW to \in {"granted", "scopes"},
                 call' = [call EXCEPT ![q].row = k, ![q].pc = to]
          PROVE  call'[q].pc = to
      BY <1>1, <3>3 DEF Call
    <3>4. CASE ReadPosition(q)
      BY <1>1, <3>1, <3>3, <3>4 DEF ReadPosition, Read, PositionsOf
    <3>5. CASE Swap(q)
      BY <3>1, <3>5 DEF Swap, MakePrincipal
    <3>6. CASE \/ ReadAssigned(q) \/ ReadPrincipal(q) \/ ReadScopes(q) \/ ReadHeads(q)
               \/ ReadHeaded(q) \/ Authorize(q) \/ WriteRoster(q)
      BY <3>1, <3>6 DEF ReadAssigned, ReadPrincipal, ReadScopes, ReadHeads, ReadHeaded,
                        Authorize, WriteRoster, Read
    <3> QED BY <1>10, <3>2, <3>4, <3>5, <3>6
  <2> QED BY <2>1
<1> QED BY <1>2, <1>6, <1>7, <1>8, <1>9, <1>10 DEF Proceeds

AppointInv == StaffOK /\ Given

LEMMA AppointInvInit == LeadershipInit => AppointInv
<1> SUFFICES ASSUME LeadershipInit PROVE AppointInv
  OBVIOUS
<1>1. \A q \in Calls : call[q].pc = "idle"
  BY DEF LeadershipInit, NoCall
<1> QED BY <1>1, StaffOKInit DEF AppointInv, Given

LEMMA AppointInvStep == AppointInv /\ LeadershipNext => AppointInv'
<1> SUFFICES ASSUME AppointInv, LeadershipNext PROVE AppointInv'
  OBVIOUS
<1>1. StaffOK /\ StaffOK' /\ Given
  BY StaffOKStep DEF AppointInv
<1>2. PICK r \in Calls \union {Nobody} : Acts(r) /\ Witness(r)
  BY <1>1, SomebodyActs DEF StaffOK
<1>3. RowsChange \/ RowsStay
  BY <1>1, SomebodyActs DEF StaffOK
<1>4. ASSUME NEW q \in Calls, call'[q].pc \in {"clear", "grant", "done"}, call'[q].row # Nobody,
             ~seen'[q].disturbed
      PROVE  Undisturbed(call[q])'
  <2>1. CASE q = r
    BY <1>1, <1>2, <1>4, <2>1, GivenByItself
  <2>2. CASE q # r
    BY <1>1, <1>2, <1>3, <1>4, <2>2, GivenByOthers
  <2> QED BY <2>1, <2>2
<1>5. Given'
  BY <1>4 DEF Given
<1> QED BY <1>1, <1>5 DEF AppointInv

LEMMA AtMostOne ==
  ASSUME NEW S, \A x, y \in S : x = y
  PROVE  Cardinality(S) <= 1
<1>1. CASE S = {}
  BY <1>1, FS_EmptySet
<1>2. ASSUME NEW x \in S PROVE Cardinality(S) <= 1
  <2>1. S = {x}
    OBVIOUS
  <2> QED BY <2>1, FS_Singleton
<1> QED BY <1>1, <1>2

LEMMA AppointInvKept == AppointInv => AppointmentsKept
<1> SUFFICES ASSUME AppointInv PROVE AppointmentsKept
  OBVIOUS
<1>1. StaffOK /\ Given /\ Constraints(position, scopes) /\ LeadershipTypeOK /\ CallsWellPosed
  BY DEF AppointInv, StaffOK, RowsSound
<1>2. Cardinality(RowsOf("principal")) <= 1
  <2>1. \A i, j \in RowsOf("principal") : i = j
    BY <1>1 DEF RowsOf, Constraints
  <2> QED BY <2>1, AtMostOne
<1>3. ASSUME NEW t \in Teachers PROVE Cardinality(ViceRow(t)) <= 1
  <2>1. \A i, j \in ViceRow(t) : i = j
    BY <1>1 DEF ViceRow, RowsOf, PositionsOf, Constraints
  <2> QED BY <2>1, AtMostOne
<1>4. \A s \in scopes : s[1] \in RowsOf("vice_principal")
  BY <1>1 DEF LeadershipTypeOK, Constraints, RowsOf
<1>5. ASSUME NEW r \in Calls, call[r].pc = "done", call[r].row # Nobody, ~seen[r].disturbed
      PROVE  Appointment[call[r].teacher] = {[whole |-> call[r].whole, grades |-> call[r].grades]}
  <2>1. call[r].teacher \in Teachers /\ call[r].row \in Rows
    BY <1>1, <1>5 DEF LeadershipTypeOK, Call, CallsWellPosed, WellPosed
  <2>2. Undisturbed(call[r])
    BY <1>1, <1>5 DEF Given
  <2>3. AppointmentIn(position, scopes, call[r].teacher) =
            {[whole |-> call[r].whole, grades |-> GradesOf(call[r].row)]}
    BY <1>1, <2>1, <2>2, OneAppointment DEF Undisturbed, GradesOf
  <2>4. GradesOf(call[r].row) = call[r].grades
    BY <1>5, <2>2 DEF Undisturbed
  <2> QED BY <2>1, <2>3, <2>4, AppointmentIsIn
<1> QED BY <1>1, <1>2, <1>3, <1>4, <1>5 DEF AppointmentsKept, OneOfEach, GivesWhatWasAsked

(* There is one Principal, a teacher is Vice Principal once, scopes belong  *)
(* to Vice Principals in office, and an appointment that nobody else       *)
(* changed gives exactly what it asked for, with any number of calls that  *)
(* overlap, fail and stop half-way.                                        *)
THEOREM AppointmentsStayKept == LeadershipSpec => []AppointmentsKept
<1>1. AppointInv /\ UNCHANGED leadershipVars => AppointInv'
  BY DEF AppointInv, StaffOK, LeadershipTypeOK, CallsWellPosed, RowsSound, Given, Undisturbed,
         GradesOf, leadershipVars
<1> QED BY <1>1, AppointInvInit, AppointInvStep, AppointInvKept, PTL DEF LeadershipSpec

-----------------------------------------------------------------------------
(* Decisions. *)

LEMMA GroundsAre ==
  ASSUME NEW t \in Teachers, NEW g \in Grades
  PROVE  /\ GroundsOf[t][g] \subseteq Grounds \ {"in charge"}
         /\ "teaches" \in GroundsOf[t][g] <=> <<t, g>> \in teaches
         /\ "head" \in GroundsOf[t][g] <=> heads[g] = t
         /\ "principal" \in GroundsOf[t][g] <=>
                \E i \in Rows : position[i].teacher = t /\ position[i].kind = "principal"
         /\ "whole school" \in GroundsOf[t][g] <=>
                \E i \in Rows : position[i].teacher = t /\ position[i].whole
         /\ "scope" \in GroundsOf[t][g] <=>
                \E i \in Rows : position[i].teacher = t /\ ~position[i].whole /\ <<i, g>> \in scopes
         /\ \A i \in Rows : position[i].teacher = t => position[i].kind \in Held[t]
<1> DEFINE B == {"head" : x \in {heads[g]} \intersect {t}}
           A == {"teaches" : x \in teaches \intersect {<<t, g>>}}
           C == {"principal" : i \in PositionsOf(t) \intersect RowsOf("principal")}
           D == {"whole school" : i \in {j \in PositionsOf(t) : position[j].whole}}
           E == {"scope" : i \in {j \in PositionsOf(t) : ~position[j].whole /\ <<j, g>> \in scopes}}
<1>1. GroundsOf[t][g] = A \union B \union C \union D \union E
  BY DEF GroundsOf
<1>2. A \subseteq {"teaches"} /\ ("teaches" \in A <=> <<t, g>> \in teaches)
  OBVIOUS
<1>3. B \subseteq {"head"} /\ ("head" \in B <=> heads[g] = t)
  OBVIOUS
<1>4. /\ C \subseteq {"principal"}
      /\ "principal" \in C <=>
             \E i \in Rows : position[i].teacher = t /\ position[i].kind = "principal"
  BY DEF PositionsOf, RowsOf
<1>5. /\ D \subseteq {"whole school"}
      /\ "whole school" \in D <=> \E i \in Rows : position[i].teacher = t /\ position[i].whole
  BY DEF PositionsOf
<1>6. /\ E \subseteq {"scope"}
      /\ "scope" \in E <=>
             \E i \in Rows : position[i].teacher = t /\ ~position[i].whole /\ <<i, g>> \in scopes
  BY DEF PositionsOf
<1>7. \A i \in Rows : position[i].teacher = t => position[i].kind \in Held[t]
  BY DEF Held, PositionsOf
<1> HIDE DEF A, B, C, D, E
<1>8. \A x \in Grounds : x \in A => x = "teaches"
  BY <1>2
<1> QED BY <1>1, <1>2, <1>3, <1>4, <1>5, <1>6, <1>7 DEF Grounds

LEMMA GroundsOfOne ==
  ASSUME NEW c
  PROVE  /\ \A g : c.grades = {g} /\ c.societies = {} => GroundsNow(c) = GroundsOf[c.teacher][g]
         /\ \A s : c.grades = {} /\ c.societies = {s} => GroundsNow(c) = InCharge[c.teacher][s]
<1>1. ASSUME NEW g, c.grades = {g}, c.societies = {}
      PROVE  GroundsNow(c) = GroundsOf[c.teacher][g]
  <2>1. {GroundsOf[c.teacher][h] : h \in c.grades} \union {InCharge[c.teacher][s] : s \in c.societies}
            = {GroundsOf[c.teacher][g]}
    BY <1>1
  <2> QED BY <2>1 DEF GroundsNow
<1>2. ASSUME NEW s, c.grades = {}, c.societies = {s}
      PROVE  GroundsNow(c) = InCharge[c.teacher][s]
  <2>1. {GroundsOf[c.teacher][h] : h \in c.grades} \union {InCharge[c.teacher][u] : u \in c.societies}
            = {InCharge[c.teacher][s]}
    BY <1>2
  <2> QED BY <2>1 DEF GroundsNow
<1> QED BY <1>1, <1>2

(* How a step adds to what was seen of a call. *)
LEMMA SeenSoFar ==
  ASSUME StaffOK, NEW q \in Calls, NEW r, Witness(r)
  PROVE  /\ call[q].pc \in Ended /\ call'[q].pc \in Ended =>
                /\ seen'[q].ever = seen[q].ever /\ seen'[q].always = seen[q].always
                /\ seen'[q].held = seen[q].held
         /\ call[q].pc \notin Ended /\ call'[q].teacher \in Teachers =>
                /\ seen[q].ever \subseteq seen'[q].ever /\ seen'[q].always \subseteq seen[q].always
                /\ seen[q].held \subseteq seen'[q].held
         /\ (call[q].pc \notin Ended \/ call'[q].pc \notin Ended) /\ call'[q].teacher \in Teachers =>
                /\ seen'[q].always \subseteq GroundsNow(call[q])'
                /\ GroundsNow(call[q])' \subseteq seen'[q].ever
                /\ Held'[call'[q].teacher] \subseteq seen'[q].held
<1> DEFINE now == GroundsNow(call[q])'
           before == IF call[q].pc \in Ended THEN Nothing ELSE seen[q]
           then == Held'[call'[q].teacher]
<1>1. PICK was : was = Observed(q)
  OBVIOUS
<1>2. PICK b : seen'[q] = [was EXCEPT !.disturbed = b]
  BY <1>1 DEF Witness
<1>3. seen[q] \in History /\ before \in History
  BY RecordsTyped DEF StaffOK, LeadershipTypeOK
<1>4. ASSUME NEW x, x = was, NEW e, NEW a, NEW h, NEW o,
             x = [ever |-> e, always |-> a, held |-> h, disturbed |-> o]
      PROVE  seen'[q].ever = e /\ seen'[q].always = a /\ seen'[q].held = h
  BY <1>2, <1>4
<1>5. ASSUME call[q].pc \in Ended, call'[q].pc \in Ended
      PROVE  /\ seen'[q].ever = seen[q].ever /\ seen'[q].always = seen[q].always
             /\ seen'[q].held = seen[q].held
  <2>1. was = seen[q]
    BY <1>1, <1>5 DEF Observed
  <2>2. seen[q] = [ever |-> seen[q].ever, always |-> seen[q].always, held |-> seen[q].held,
                   disturbed |-> seen[q].disturbed]
    BY <1>3 DEF History
  <2> QED BY <1>4, <2>1, <2>2
<1>6. ASSUME call[q].pc \notin Ended \/ call'[q].pc \notin Ended, call'[q].teacher \in Teachers
      PROVE  /\ seen'[q].ever = before.ever \union now
             /\ seen'[q].always = before.always \intersect now
             /\ seen'[q].held = before.held \union then
  <2>1. was = [before EXCEPT !.ever = @ \union now, !.always = @ \intersect now,
                             !.held = @ \union then]
    BY <1>1, <1>6, RowsAreNumbered DEF Observed, GroundsNow
  <2> HIDE DEF before, now, then
  <2>2. was = [ever |-> before.ever \union now, always |-> before.always \intersect now,
               held |-> before.held \union then, disturbed |-> before.disturbed]
    BY <1>3, <2>1 DEF History
  <2> QED BY <1>4, <2>2
<1> QED BY <1>5, <1>6

LEMMA KnowsLater ==
  ASSUME NEW rows, NEW after, NEW c, NEW s, NEW z, Knows(rows, c, s),
         s.ever \subseteq z.ever, z.always \subseteq s.always, s.held \subseteq z.held,
         c.pc = "scopes" => RowRead(after, c, z)
  PROVE  Knows(after, c, z)
<1>1. Hidden(s.held) \subseteq Hidden(z.held)
  BY DEF Hidden
<1> QED BY <1>1 DEF Knows

(* Nobody turns the row of a Vice Principal into anybody else's. *)
LEMMA RowReadLater ==
  ASSUME StaffOK, StaffOK', RowsChange \/ RowsStay, NEW c \in Call, c.row \in Rows,
         c.teacher \in Teachers, NEW g \in Grades, NEW s, NEW z, RowRead(position, c, s),
         z.always \subseteq s.always, s.held \subseteq z.held,
         z.always \subseteq GroundsOf'[c.teacher][g]
  PROVE  RowRead(position', c, z)
<1> DEFINE i == c.row
           t == c.teacher
<1>0. /\ position \in [Rows -> Position] /\ Constraints(position, scopes)
      /\ Constraints(position', scopes')
  BY DEF StaffOK, LeadershipTypeOK, RowsSound
<1>1. CASE position[i].kind = "deleted"
  <2>1. position'[i].kind = "deleted"
    <3>1. CASE RowsStay \/ \E k \in Rows : ClearsRow(k) \/ \E h \in Grades : GrantsRow(k, h)
      BY <1>1, <3>1 DEF RowsStay, ClearsRow, GrantsRow
    <3>2. CASE \E u \in Teachers : GivesAway(u)
      BY <1>0, <1>1, <3>2 DEF GivesAway, Choose, RowsOf, FreeRow
    <3>3. CASE \E u \in Teachers, whole \in BOOLEAN, k \in Rows : AppointsRow(u, whole, k)
      BY <1>0, <1>1, <3>3 DEF AppointsRow, Choose, RowsOf, FreeRow, ViceRow
    <3>4. CASE \E removed \in SUBSET Rows : Remove(removed)
      BY <1>1, <3>4 DEF Remove, Gone
    <3> QED BY <3>1, <3>2, <3>3, <3>4 DEF RowsChange
  <2> QED BY <1>1, <2>1 DEF RowRead
<1>2. CASE position[i].kind = "vice_principal"
  <2>1. position[i].teacher = t
    BY <1>2 DEF RowRead
  <2>2. CASE AppointmentIn(position', scopes', t) # {}
    <3>1. position'[i].kind = "vice_principal" /\ position'[i].teacher = t
      BY <1>2, <2>1, <2>2, RowIsKept
    <3> QED BY <3>1 DEF RowRead
  <2>3. CASE AppointmentIn(position', scopes', t) = {}
    <3>1. \A j \in Rows : ~(position'[j].teacher = t /\ position'[j].kind = "vice_principal")
      BY <2>3 DEF AppointmentIn
    <3>2. "scope" \notin GroundsOf'[t][g]
      <4>1. {j \in PositionsOf(t)' : ~position'[j].whole /\ <<j, g>> \in scopes'} = {}
        BY <1>0, <3>1 DEF PositionsOf, Constraints
      <4> QED BY <4>1 DEF GroundsOf
    <3>3. position'[i].kind = "deleted"
      <4>1. CASE RowsStay \/ \E k \in Rows : ClearsRow(k) \/ \E h \in Grades : GrantsRow(k, h)
        BY <1>2, <2>1, <3>1, <4>1 DEF RowsStay, ClearsRow, GrantsRow
      <4>2. ASSUME NEW u \in Teachers, GivesAway(u) PROVE FALSE
        <5>1. PICK k \in Choose(RowsOf("principal"), FreeRow) :
                  position' = [position EXCEPT ![k] = [kind |-> "principal", teacher |-> u,
                                                       whole |-> FALSE]]
          BY <4>2 DEF GivesAway
        <5>2. position[k].kind \in {"principal", "unused"}
          BY <5>1 DEF Choose, RowsOf, FreeRow
        <5>3. position'[i] = position[i]
          BY <1>0, <1>2, <5>1, <5>2
        <5> QED BY <1>2, <2>1, <3>1, <5>3
      <4>3. ASSUME NEW u \in Teachers, NEW whole \in BOOLEAN, NEW k \in Rows,
                   AppointsRow(u, whole, k)
            PROVE  FALSE
        <5>1. position'[k].kind = "vice_principal" /\ position'[k].teacher = u
              /\ \A j \in Rows \ {k} : position'[j] = position[j]
          BY <1>0, <4>3 DEF AppointsRow
        <5>2. k = i
          BY <1>2, <2>1, <3>1, <5>1
        <5>3. k \in ViceRow(u)
          BY <1>2, <4>3, <5>2 DEF AppointsRow, Choose, FreeRow, RowsOf
        <5>4. u = t
          BY <2>1, <5>2, <5>3 DEF ViceRow, PositionsOf
        <5> QED BY <3>1, <5>1, <5>4
      <4>4. CASE \E removed \in SUBSET Rows : Remove(removed)
        BY <1>2, <2>1, <3>1, <4>4 DEF Remove, Gone
      <4> QED BY <4>1, <4>2, <4>3, <4>4 DEF RowsChange
    <3> QED BY <3>2, <3>3 DEF RowRead
  <2> QED BY <2>2, <2>3
<1> QED BY <1>1, <1>2 DEF RowRead

AccessInv == StaffOK /\ UpToDate /\ CallsKnow

(* What a call knows after a read follows from the read and from what it    *)
(* knew.                                                                    *)
LEMMA ReadsDecide ==
  ASSUME AccessInv, NEW q \in Calls, Proceeds(q), call'[q] \in Call
  PROVE  Knows(position, call'[q], seen[q])
<1> DEFINE c == call[q]
           t == c.teacher
           s == seen[q]
           d == call'[q]
<1>1. /\ c \in Call /\ WellPosed(c) /\ call \in [Calls -> Call]
      /\ Constraints(position, scopes) /\ position \in [Rows -> Position]
  BY DEF AccessInv, StaffOK, LeadershipTypeOK, CallsWellPosed, RowsSound
<1>2. Knows(position, c, s) /\ s \in History
  BY DEF AccessInv, CallsKnow, StaffOK, LeadershipTypeOK
<1>3. ASSUME NEW to, Go(q, to)
      PROVE  d.pc = to /\ d.row = c.row /\ d.teacher = t
  BY <1>1, <1>3 DEF Go, Call
<1>4. ASSUME d.pc \in {"demote", "clear", "grant", "done", "failed"}
      PROVE  Knows(position, d, s)
  BY <1>4 DEF Knows, AccessSteps
<1>5. CASE \/ Swap(q) \/ Demote(q) \/ Appoint(q) \/ ClearScopes(q) \/ GrantScope(q)
           \/ LeadershipFails(q)
  <2>1. d.pc \in {"demote", "clear", "grant", "done", "failed"}
    <3>1. CASE Swap(q)
      BY <1>3, <3>1 DEF Swap, MakePrincipal
    <3>2. CASE Demote(q)
      BY <1>3, <3>2 DEF Demote
    <3>3. CASE Appoint(q)
      BY <1>1, <3>3 DEF Appoint, Call
    <3>4. CASE ClearScopes(q)
      BY <1>3, <3>4 DEF ClearScopes, AfterScope
    <3>5. CASE GrantScope(q)
      <4>1. PICK g \in call[q].left :
               call' = [call EXCEPT ![q].left = @ \ {g}, ![q].pc = AfterScope(call[q].left \ {g})]
        BY <3>5 DEF GrantScope
      <4>2. d.pc = AfterScope(call[q].left \ {g})
        BY <1>1, <4>1 DEF Call
      <4> QED
        BY <4>2 DEF AfterScope
    <3>6. CASE LeadershipFails(q)
      BY <1>1, <3>6 DEF LeadershipFails, NoCall
    <3> QED BY <1>5, <3>1, <3>2, <3>3, <3>4, <3>5, <3>6
  <2> QED BY <1>4, <2>1
<1>6. ASSUME c.pc \in AccessSteps
      PROVE  \E g \in Grades : /\ c.grades = {g} /\ s.always \subseteq GroundsOf[t][g]
                               /\ GroundsOf[t][g] \subseteq s.ever
                               /\ t \in Teachers /\ Held[t] \subseteq s.held
  <2>1. PICK g \in Grades : c.grades = {g} /\ c.societies = {}
    BY <1>1, <1>6 DEF WellPosed
  <2>2. t \in Teachers
    BY <1>1, <1>6 DEF WellPosed, AccessSteps, CallSteps
  <2>3. GroundsNow(c) = GroundsOf[t][g]
    BY <2>1, GroundsOfOne
  <2>4. s.always \subseteq GroundsNow(c) /\ GroundsNow(c) \subseteq s.ever /\ Held[t] \subseteq s.held
    BY <1>6 DEF AccessInv, UpToDate
  <2> QED BY <2>1, <2>2, <2>3, <2>4
<1>7. CASE ReadAssigned(q)
  <2>1. PICK to : /\ to = IF {t} \X c.grades \subseteq teaches THEN "granted" ELSE "principal"
                  /\ Go(q, to) /\ c.pc = "assigned"
    BY <1>7 DEF ReadAssigned, Read
  <2>2. PICK g \in Grades : /\ c.grades = {g} /\ s.always \subseteq GroundsOf[t][g]
                            /\ GroundsOf[t][g] \subseteq s.ever /\ t \in Teachers
    BY <1>6, <2>1 DEF AccessSteps
  <2>3. "teaches" \in GroundsOf[t][g] <=> <<t, g>> \in teaches
    BY <2>2, GroundsAre
  <2>4. \/ to = "granted" /\ s.ever # {}
        \/ to = "principal" /\ "teaches" \notin s.always
    <3>1. CASE <<t, g>> \in teaches
      BY <2>1, <2>2, <2>3, <3>1
    <3>2. CASE <<t, g>> \notin teaches
      BY <2>1, <2>2, <2>3, <3>2
    <3> QED BY <3>1, <3>2
  <2>5. d.pc = to
    BY <1>3, <2>1
  <2> QED BY <2>4, <2>5 DEF Knows, AccessSteps
<1>8. CASE ReadPrincipal(q)
  <2>1. PICK to : /\ to = IF PositionsOf(t) \intersect RowsOf("principal") # {} THEN "granted"
                          ELSE "position"
                  /\ Go(q, to) /\ c.pc = "principal"
    BY <1>8 DEF ReadPrincipal, Read
  <2>2. PICK g \in Grades : /\ c.grades = {g} /\ s.always \subseteq GroundsOf[t][g]
                            /\ GroundsOf[t][g] \subseteq s.ever /\ t \in Teachers
    BY <1>6, <2>1 DEF AccessSteps
  <2>3. "principal" \in GroundsOf[t][g] <=> PositionsOf(t) \intersect RowsOf("principal") # {}
    BY <2>2, GroundsAre DEF PositionsOf, RowsOf
  <2>4. "teaches" \notin s.always
    BY <1>2, <2>1 DEF Knows, AccessSteps
  <2>5. d.pc = to
    BY <1>3, <2>1
  <2>6. CASE to = "granted"
    BY <2>1, <2>2, <2>3, <2>5, <2>6 DEF Knows, AccessSteps
  <2>7. CASE to = "position"
    BY <2>1, <2>2, <2>3, <2>4, <2>5, <2>7 DEF Knows, AccessSteps
  <2> QED BY <2>1, <2>6, <2>7
<1>9. CASE ReadPosition(q)
  <2>0. c.pc = "position"
    BY <1>9 DEF ReadPosition, Read
  <2>1. "teaches" \notin s.always /\ "principal" \notin s.always
    BY <1>2, <2>0 DEF Knows, AccessSteps
  <2>2. PICK g \in Grades : /\ c.grades = {g} /\ s.always \subseteq GroundsOf[t][g]
                            /\ GroundsOf[t][g] \subseteq s.ever
                            /\ t \in Teachers /\ Held[t] \subseteq s.held
    BY <1>6, <2>0 DEF AccessSteps
  <2>5. /\ "whole school" \in GroundsOf[t][g] <=>
               \E i \in Rows : position[i].teacher = t /\ position[i].whole
        /\ "scope" \in GroundsOf[t][g] <=>
               \E i \in Rows : position[i].teacher = t /\ ~position[i].whole /\ <<i, g>> \in scopes
        /\ \A i \in Rows : position[i].teacher = t => position[i].kind \in Held[t]
    BY <2>2, GroundsAre
  <2> HIDE DEF c, s, d, t
  <2>3. ASSUME PositionsOf(t) = {} \/ PositionsOf(t) \intersect RowsOf("principal") # {},
               Read(q, "position", "heads")
        PROVE  Knows(position, d, s)
    <3>1. d.pc = "heads"
      BY <1>3, <2>3 DEF Read
    <3>2. CASE PositionsOf(t) = {}
      <4>1. "whole school" \notin GroundsOf[t][g] /\ "scope" \notin GroundsOf[t][g]
        BY <2>5, <3>2 DEF PositionsOf
      <4> QED BY <2>1, <2>2, <3>1, <4>1 DEF Knows
    <3>3. CASE PositionsOf(t) \intersect RowsOf("principal") # {}
      <4>1. "principal" \in Held[t]
        BY <2>5, <3>3 DEF PositionsOf, RowsOf
      <4>2. {"whole school", "scope"} \subseteq Hidden(s.held)
        BY <2>2, <4>1 DEF Hidden
      <4> QED BY <2>1, <3>1, <4>2 DEF Knows
    <3> QED BY <2>3, <3>2, <3>3
  <2>4. ASSUME NEW i \in PositionsOf(t) \intersect RowsOf("vice_principal"),
               call' = [call EXCEPT ![q].row = i,
                              ![q].pc = IF position[i].whole THEN "granted" ELSE "scopes"]
        PROVE  Knows(position, d, s)
    <3>1. i \in Rows /\ position[i].teacher = t /\ position[i].kind = "vice_principal"
          /\ position[i].whole \in BOOLEAN
      BY <1>1, <2>4 DEF PositionsOf, RowsOf, Position
    <3>2. PICK to : to = IF position[i].whole THEN "granted" ELSE "scopes"
      OBVIOUS
    <3>3. d.row = i /\ d.pc = to /\ d.teacher = t
      BY <1>1, <2>4, <3>2 DEF Call, c, d, t
    <3>4. CASE to = "granted"
      <4>1. "whole school" \in GroundsOf[t][g]
        BY <2>5, <3>1, <3>2, <3>4
      <4> QED BY <2>2, <3>3, <3>4, <4>1 DEF Knows, AccessSteps
    <3>5. CASE to = "scopes"
      <4>1. ~position[i].whole
        BY <3>2, <3>5
      <4>2. \A j \in Rows : position[j].teacher = t => ~position[j].whole
        <5>1. ASSUME NEW j \in Rows, position[j].teacher = t PROVE ~position[j].whole
          <6>1. position[j].kind \in Kinds
            BY <1>1, <2>2, <5>1 DEF Constraints
          <6>2. CASE position[j].kind = "principal"
            BY <1>1, <6>2 DEF Constraints
          <6>3. CASE position[j].kind = "vice_principal"
            BY <1>1, <3>1, <4>1, <5>1, <6>3 DEF Constraints
          <6> QED BY <6>1, <6>2, <6>3 DEF Kinds
        <5> QED BY <5>1
      <4>3. "whole school" \notin GroundsOf[t][g]
        BY <2>5, <4>2
      <4>4. "vice_principal" \in Held[t]
        BY <2>5, <3>1
      <4>5. RowRead(position, d, s)
        BY <2>2, <3>1, <3>3, <4>3, <4>4 DEF RowRead
      <4> QED BY <2>1, <3>3, <3>5, <4>5 DEF Knows, AccessSteps
    <3> QED BY <3>2, <3>4, <3>5
  <2> QED BY <1>9, <2>3, <2>4 DEF ReadPosition, c, d, s, t
<1>10. CASE ReadScopes(q)
  <2>1. PICK to : /\ to = IF {c.row} \X c.grades \subseteq scopes THEN "granted" ELSE "denied"
                  /\ Go(q, to) /\ c.pc = "scopes"
    BY <1>10 DEF ReadScopes, Read
  <2>2. PICK g \in Grades : /\ c.grades = {g} /\ s.always \subseteq GroundsOf[t][g]
                            /\ GroundsOf[t][g] \subseteq s.ever
                            /\ t \in Teachers /\ Held[t] \subseteq s.held
    BY <1>6, <2>1 DEF AccessSteps
  <2>3. RowRead(position, c, s) /\ c.row \in Rows
        /\ "teaches" \notin s.always /\ "principal" \notin s.always
    BY <1>1, <1>2, <2>1 DEF Knows, WellPosed, AccessSteps
  <2>4. d.pc = to
    BY <1>3, <2>1
  <2>5. CASE <<c.row, g>> \in scopes
    <3>1. position[c.row].kind = "vice_principal"
      BY <1>1, <2>5 DEF Constraints
    <3>2. position[c.row].teacher = t
      BY <2>3, <3>1 DEF RowRead
    <3>3. "whole school" \in GroundsOf[t][g] \/ "scope" \in GroundsOf[t][g]
      BY <2>2, <2>3, <2>5, <3>2, GroundsAre
    <3>4. to = "granted"
      BY <2>1, <2>2, <2>5
    <3> QED BY <2>2, <2>4, <3>3, <3>4 DEF Knows, AccessSteps
  <2>6. CASE <<c.row, g>> \notin scopes
    <3>1. to = "denied"
      BY <2>1, <2>2, <2>6
    <3>2. "scope" \notin s.always
      <4>1. CASE position[c.row].kind = "deleted"
        BY <2>3, <4>1 DEF RowRead
      <4>2. CASE position[c.row].kind = "vice_principal"
        <5>1. position[c.row].teacher = t
          BY <2>3, <4>2 DEF RowRead
        <5>2. ASSUME NEW j \in Rows, position[j].teacher = t, <<j, g>> \in scopes PROVE FALSE
          <6>1. position[j].kind = "vice_principal"
            BY <1>1, <5>2 DEF Constraints
          <6>2. j = c.row
            BY <1>1, <2>3, <4>2, <5>1, <5>2, <6>1 DEF Constraints
          <6> QED BY <2>6, <5>2, <6>2
        <5>3. "scope" \notin GroundsOf[t][g]
          BY <2>2, <5>2, GroundsAre
        <5> QED BY <2>2, <5>3
      <4> QED BY <2>3, <4>1, <4>2 DEF RowRead
    <3>3. s.always \subseteq Grounds \ {"in charge", "teaches", "principal", "whole school", "scope"}
      <4>1. GroundsOf[t][g] \subseteq Grounds \ {"in charge"}
        BY <2>2, GroundsAre
      <4>2. "whole school" \notin s.always
        BY <2>3 DEF RowRead
      <4> QED BY <2>2, <2>3, <3>2, <4>1, <4>2
    <3>4. {"head"} \subseteq Hidden(s.held)
      BY <2>3 DEF RowRead, Hidden
    <3>5. s.always \subseteq Hidden(s.held)
      BY <3>3, <3>4 DEF Grounds
    <3> QED BY <2>4, <3>1, <3>5 DEF Knows, AccessSteps
  <2> QED BY <2>5, <2>6
<1>11. ASSUME c.pc \in {"heads", "headed"}, NEW g \in Grades, s.always \subseteq GroundsOf[t][g],
              heads[g] # t, t \in Teachers
       PROVE  s.always \subseteq Hidden(s.held)
  <2>1. "head" \notin s.always /\ s.always \subseteq Grounds \ {"in charge"}
    BY <1>11, GroundsAre
  <2>2. /\ s.always \intersect {"whole school", "scope"} \subseteq Hidden(s.held)
        /\ "teaches" \notin s.always /\ "principal" \notin s.always
    BY <1>2, <1>11 DEF Knows, AccessSteps
  <2> QED BY <2>1, <2>2 DEF Grounds
<1>12. CASE ReadHeads(q)
  <2>1. PICK to : /\ to = IF \E g \in Grades : heads[g] = t THEN "headed" ELSE "denied"
                  /\ Go(q, to) /\ c.pc = "heads"
    BY <1>12 DEF ReadHeads, Read
  <2>2. PICK g \in Grades : s.always \subseteq GroundsOf[t][g] /\ t \in Teachers
    BY <1>6, <2>1 DEF AccessSteps
  <2>3. d.pc = to
    BY <1>3, <2>1
  <2>4. CASE to = "headed"
    BY <1>2, <2>1, <2>3, <2>4 DEF Knows, AccessSteps
  <2>5. CASE to = "denied"
    <3>1. heads[g] # t
      BY <2>1, <2>5
    <3>2. s.always \subseteq Hidden(s.held)
      BY <1>11, <2>1, <2>2, <3>1
    <3> QED BY <2>3, <2>5, <3>2 DEF Knows, AccessSteps
  <2> QED BY <2>1, <2>4, <2>5
<1>13. CASE ReadHeaded(q)
  <2>1. PICK to : /\ to = IF \A g \in c.grades : heads[g] = t THEN "granted" ELSE "denied"
                  /\ Go(q, to) /\ c.pc = "headed"
    BY <1>13 DEF ReadHeaded, Read
  <2>2. PICK g \in Grades : /\ c.grades = {g} /\ s.always \subseteq GroundsOf[t][g]
                            /\ GroundsOf[t][g] \subseteq s.ever /\ t \in Teachers
    BY <1>6, <2>1 DEF AccessSteps
  <2>3. d.pc = to
    BY <1>3, <2>1
  <2>4. CASE heads[g] = t
    <3>1. "head" \in GroundsOf[t][g] /\ to = "granted"
      BY <2>1, <2>2, <2>4, GroundsAre
    <3> QED BY <2>2, <2>3, <3>1 DEF Knows, AccessSteps
  <2>5. CASE heads[g] # t
    <3>1. to = "denied" /\ s.always \subseteq Hidden(s.held)
      BY <1>11, <2>1, <2>2, <2>5
    <3> QED BY <2>3, <3>1 DEF Knows, AccessSteps
  <2> QED BY <2>4, <2>5
<1>14. ASSUME c.pc \in RosterSteps
       PROVE  \E u \in Societies : /\ c.societies = {u} /\ s.always \subseteq InCharge[t][u]
                                   /\ InCharge[t][u] \subseteq s.ever /\ t \in Teachers
  <2>1. PICK u \in Societies : c.grades = {} /\ c.societies = {u}
    BY <1>1, <1>14 DEF WellPosed
  <2>2. t \in Teachers
    BY <1>1, <1>14 DEF WellPosed, RosterSteps, CallSteps
  <2>3. GroundsNow(c) = InCharge[t][u]
    BY <2>1, GroundsOfOne
  <2>4. s.always \subseteq GroundsNow(c) /\ GroundsNow(c) \subseteq s.ever
    BY <1>14 DEF AccessInv, UpToDate
  <2> QED BY <2>1, <2>2, <2>3, <2>4
<1>15. CASE Authorize(q)
  <2>1. PICK to : /\ to = IF \E u \in c.societies : charge[u] = t THEN "roster" ELSE "denied"
                  /\ Go(q, to) /\ c.pc = "authorize"
    BY <1>15 DEF Authorize, Read
  <2>2. PICK u \in Societies : /\ c.societies = {u} /\ s.always \subseteq InCharge[t][u]
                               /\ InCharge[t][u] \subseteq s.ever /\ t \in Teachers
    BY <1>14, <2>1 DEF RosterSteps
  <2>3. InCharge[t][u] = {"in charge" : x \in {charge[u]} \intersect {t}}
    BY <2>2 DEF InCharge
  <2>4. d.pc = to
    BY <1>3, <2>1
  <2>5. CASE charge[u] = t
    BY <2>1, <2>2, <2>3, <2>4, <2>5 DEF Knows, AccessSteps
  <2>6. CASE charge[u] # t
    <3>1. to = "denied" /\ s.always = {}
      BY <2>1, <2>2, <2>3, <2>6
    <3> QED BY <2>4, <3>1 DEF Knows, AccessSteps
  <2> QED BY <2>5, <2>6
<1>16. CASE WriteRoster(q)
  <2>1. PICK to : to \in {"granted", "failed"} /\ Go(q, to) /\ c.pc = "roster"
    BY <1>16 DEF WriteRoster, Read
  <2>2. d.pc = to /\ s.ever # {}
    BY <1>2, <1>3, <2>1 DEF Knows
  <2> QED BY <2>1, <2>2 DEF Knows, AccessSteps
<1> QED BY <1>5, <1>7, <1>8, <1>9, <1>10, <1>12, <1>13, <1>15, <1>16 DEF Proceeds

LEMMA UpToDateStep ==
  ASSUME AccessInv, StaffOK', NEW r \in Calls \union {Nobody}, Acts(r), Witness(r)
  PROVE  UpToDate'
<1> SUFFICES ASSUME NEW q \in Calls, call'[q].pc \in AccessSteps \union RosterSteps
             PROVE  /\ seen'[q].always \subseteq GroundsNow(call[q])'
                    /\ GroundsNow(call[q])' \subseteq seen'[q].ever
                    /\ Held'[call'[q].teacher] \subseteq seen'[q].held
  BY DEF UpToDate
<1>1. call'[q].pc \notin Ended /\ call'[q].pc \in CallSteps
  BY DEF AccessSteps, RosterSteps, Ended, CallSteps
<1>2. call'[q].teacher \in Teachers
  BY <1>1 DEF StaffOK, CallsWellPosed, WellPosed
<1> QED BY <1>1, <1>2, SeenSoFar DEF AccessInv

LEMMA CallsKnowStep ==
  ASSUME AccessInv, StaffOK', UpToDate', NEW r \in Calls \union {Nobody}, Acts(r), Witness(r),
         RowsChange \/ RowsStay
  PROVE  CallsKnow'
<1> SUFFICES ASSUME NEW q \in Calls
             PROVE  Knows(position', call'[q], seen'[q])
  BY DEF CallsKnow
<1>1. /\ StaffOK /\ LeadershipTypeOK /\ CallsWellPosed
      /\ call[q] \in Call /\ call'[q] \in Call /\ WellPosed(call[q]) /\ WellPosed(call'[q])
  BY DEF AccessInv, StaffOK, LeadershipTypeOK, CallsWellPosed
<1>2. Knows(position, call[q], seen[q])
  BY DEF AccessInv, CallsKnow
<1>3. CASE q # r
  <2>1. call'[q] = call[q]
    BY <1>1, <1>3, CallsKept
  <2>2. CASE call[q].pc \in Ended
    <3>1. /\ seen'[q].ever = seen[q].ever /\ seen'[q].always = seen[q].always
          /\ seen'[q].held = seen[q].held
      BY <1>1, <2>1, <2>2, SeenSoFar
    <3>2. call[q].pc # "scopes"
      BY <2>2 DEF Ended
    <3> QED BY <1>2, <2>1, <3>1, <3>2, KnowsLater
  <2>3. CASE call[q].pc \notin Ended
    <3>1. call[q].teacher \in Teachers
      BY <1>1, <2>3 DEF Call, WellPosed
    <3>2. /\ seen[q].ever \subseteq seen'[q].ever /\ seen'[q].always \subseteq seen[q].always
          /\ seen[q].held \subseteq seen'[q].held
          /\ seen'[q].always \subseteq GroundsNow(call[q])'
      BY <1>1, <2>1, <2>3, <3>1, SeenSoFar
    <3>3. ASSUME call[q].pc = "scopes" PROVE RowRead(position', call[q], seen'[q])
      <4>1. PICK g \in Grades : call[q].grades = {g} /\ call[q].societies = {}
        BY <1>1, <3>3 DEF WellPosed, AccessSteps
      <4>2. GroundsNow(call[q])' = GroundsOf'[call[q].teacher][g]
        <5>1. {GroundsOf'[call[q].teacher][h] : h \in call[q].grades}
                  \union {InCharge'[call[q].teacher][s] : s \in call[q].societies}
                = {GroundsOf'[call[q].teacher][g]}
          BY <4>1
        <5> QED BY <2>1, <5>1 DEF GroundsNow
      <4>3. call[q].row \in Rows /\ RowRead(position, call[q], seen[q])
        BY <1>1, <1>2, <3>3 DEF WellPosed, Knows
      <4> QED BY <1>1, <3>1, <3>2, <4>2, <4>3, RowReadLater
    <3> QED BY <1>2, <2>1, <3>2, <3>3, KnowsLater
  <2> QED BY <2>2, <2>3
<1>4. CASE q = r
  <2>1. q # Nobody
    BY RowsAreNumbered
  <2>2. CASE \E c \in Call : Opening(c) /\ call' = [call EXCEPT ![q] = c]
    <3>1. call'[q].pc \in {"swap", "appoint", "assigned", "authorize"}
      BY <1>1, <2>2 DEF Opening, LeadershipTypeOK
    <3> QED BY <3>1 DEF Knows, AccessSteps
  <2>3. CASE call[q].pc \in CallSteps /\ Proceeds(q)
    <3>1. Knows(position, call'[q], seen[q])
      BY <1>1, <2>3, ReadsDecide
    <3>2. CASE call'[q].teacher \notin Teachers
      <4>1. call'[q].pc \notin CallSteps \union {"granted", "denied"}
        <5>1. PICK d \in Call : Follows(call[q], d) /\ call' = [call EXCEPT ![q] = d]
          BY <1>1, <2>3, ProceedsOnCall
        <5>2. call'[q] = d
          BY <1>1, <5>1 DEF LeadershipTypeOK
        <5>3. call[q].teacher \in Teachers
          BY <1>1, <2>3 DEF WellPosed
        <5>4. d.pc = "failed"
          BY <3>2, <5>1, <5>2, <5>3 DEF Follows, NoCall
        <5> QED BY <5>2, <5>4 DEF CallSteps
      <4> QED BY <4>1 DEF Knows, CallSteps, AccessSteps
    <3>3. CASE call'[q].teacher \in Teachers
      <4>1. call[q].pc \notin Ended
        BY <2>3 DEF CallSteps, Ended
      <4>2. /\ seen[q].ever \subseteq seen'[q].ever /\ seen'[q].always \subseteq seen[q].always
            /\ seen[q].held \subseteq seen'[q].held
        BY <1>1, <3>3, <4>1, SeenSoFar
      <4>3. ASSUME call'[q].pc = "scopes" PROVE RowRead(position', call'[q], seen'[q])
        <5>1. RowRead(position, call'[q], seen[q])
          BY <3>1, <4>3 DEF Knows
        <5>2. call'[q].row \in Rows
          BY <1>1, <4>3 DEF WellPosed
        <5>3. PICK g \in Grades : call'[q].grades = {g} /\ call'[q].societies = {}
          BY <1>1, <4>3 DEF WellPosed, AccessSteps
        <5>4. seen'[q].always \subseteq GroundsNow(call[q])'
          BY <4>3 DEF UpToDate, AccessSteps
        <5>5. GroundsNow(call[q])' = GroundsOf'[call'[q].teacher][g]
          <6>1. {GroundsOf'[call'[q].teacher][h] : h \in call'[q].grades}
                    \union {InCharge'[call'[q].teacher][s] : s \in call'[q].societies}
                  = {GroundsOf'[call'[q].teacher][g]}
            BY <5>3
          <6> QED BY <6>1 DEF GroundsNow
        <5> QED BY <1>1, <3>3, <4>2, <5>1, <5>2, <5>4, <5>5, RowReadLater
      <4> QED BY <3>1, <4>2, <4>3, KnowsLater
    <3> QED BY <3>2, <3>3
  <2> QED BY <1>4, <2>1, <2>2, <2>3 DEF Acts
<1> QED BY <1>3, <1>4

LEMMA AccessInvInit == LeadershipInit => AccessInv
<1> SUFFICES ASSUME LeadershipInit PROVE AccessInv
  OBVIOUS
<1>1. \A q \in Calls : call[q].pc = "idle"
  BY DEF LeadershipInit, NoCall
<1>2. UpToDate
  BY <1>1 DEF UpToDate, AccessSteps, RosterSteps
<1>3. CallsKnow
  BY <1>1 DEF CallsKnow, Knows, AccessSteps
<1> QED BY <1>2, <1>3, StaffOKInit DEF AccessInv

LEMMA AccessInvStep == AccessInv /\ LeadershipNext => AccessInv'
<1> SUFFICES ASSUME AccessInv, LeadershipNext PROVE AccessInv'
  OBVIOUS
<1>1. StaffOK /\ StaffOK'
  BY StaffOKStep DEF AccessInv
<1>2. PICK r \in Calls \union {Nobody} : Acts(r) /\ Witness(r)
  BY <1>1, SomebodyActs DEF StaffOK
<1>3. RowsChange \/ RowsStay
  BY <1>1, SomebodyActs DEF StaffOK
<1>4. UpToDate'
  BY <1>1, <1>2, UpToDateStep
<1>5. CallsKnow'
  BY <1>1, <1>2, <1>3, <1>4, CallsKnowStep
<1> QED BY <1>1, <1>4, <1>5 DEF AccessInv

(* Nobody gets in who at no moment of the call had a reason, and nobody is  *)
(* turned away who had one all along that his ranks do not hide, however    *)
(* appointments change between the reads of the call.                       *)
THEOREM AccessIsGrounded == LeadershipSpec => []AccessHasGround
<1>1. AccessInv /\ UNCHANGED leadershipVars => AccessInv'
  <2> SUFFICES ASSUME AccessInv, UNCHANGED leadershipVars PROVE AccessInv'
    OBVIOUS
  <2>1. StaffOK'
    BY DEF AccessInv, StaffOK, LeadershipTypeOK, CallsWellPosed, RowsSound, leadershipVars
  <2>2. GroundsOf' = GroundsOf /\ InCharge' = InCharge /\ Held' = Held
    BY DEF GroundsOf, InCharge, Held, PositionsOf, RowsOf, leadershipVars
  <2>3. UpToDate'
    BY <2>2 DEF AccessInv, UpToDate, GroundsNow, leadershipVars
  <2>4. CallsKnow'
    BY DEF AccessInv, CallsKnow, leadershipVars
  <2> QED BY <2>1, <2>3, <2>4 DEF AccessInv
<1>2. AccessInv => AccessHasGround
  BY DEF AccessInv, CallsKnow, Knows, AccessHasGround, Grounded
<1> QED BY <1>1, <1>2, AccessInvInit, AccessInvStep, PTL DEF LeadershipSpec
-----------------------------------------------------------------------------
(* Credentials. *)

(* A request past its reads knows its user, or the token it is to send. *)
RequestsKnown ==
    /\ \A r \in Requests :
           /\ request[r].pc = "mail" => request[r].token \in Tokens
           /\ request[r].pc \in {"check", "provider", "clear", "keep"} => request[r].user \in Users
    /\ \A t \in Tokens : token[t].state = "live" => token[t].user \in Users

Presents(r, t) == request[r].pc \in {"check", "provider"} /\ request[r].token = t

(* A link is consumed by the request that presents it, and has changed      *)
(* nothing before.                                                          *)
LinksOnce ==
    /\ \A t \in Tokens : grants[t] <= 1 /\ (token[t].state # "used" => grants[t] = 0)
    /\ \A r \in Requests, t \in Tokens :
           Presents(r, t) => token[t].state = "used" /\ grants[t] = 0
    /\ \A r, q \in Requests, t \in Tokens : Presents(r, t) /\ Presents(q, t) => r = q

(* Who has the initial password is flagged; the flags are cleared for a new *)
(* password; who was told of a new one is not about to keep the old one.    *)
FlagsTrue ==
    /\ \A u \in Users : initial[u] => must[u] \/ kept[u]
    /\ \A r \in Requests : request[r].pc = "clear" => ~initial[request[r].user]
    /\ \A u \in told \ crossed :
           /\ ~must[u] /\ ~kept[u]
           /\ \A r \in Requests : ~(request[r].pc = "keep" /\ request[r].user = u)

PasswordsInv == TypeOK /\ RequestsKnown /\ LinksOnce /\ FlagsTrue

LEMMA WorkTyped ==
  ASSUME NEW x \in {"idle", "mail", "check", "provider", "clear", "keep"},
         NEW u \in Users \cup {None}, NEW t \in Tokens \cup {None}
  PROVE  [pc |-> x, user |-> u, token |-> t] \in Work /\ Idle \in Work
BY DEF Work, Idle

(* What a step makes of the request it belongs to. *)
LEMMA RequestsMove ==
  ASSUME TypeOK, NEW r \in Requests
  PROVE  /\ \A x \in {"idle", "mail", "check", "provider", "clear", "keep"},
               u \in Users \cup {None}, t \in Tokens \cup {None} :
                Goto(r, x, u, t) =>
                    /\ request' \in [Requests -> Work]
                    /\ request'[r] = [pc |-> x, user |-> u, token |-> t]
                    /\ \A q \in Requests \ {r} : request'[q] = request[q]
         /\ \A x \in {"idle", "mail", "check", "provider", "clear", "keep"} :
                Step(r, x) =>
                    /\ request' \in [Requests -> Work] /\ request'[r].pc = x
                    /\ request'[r].user = request[r].user /\ request'[r].token = request[r].token
                    /\ \A q \in Requests \ {r} : request'[q] = request[q]
         /\ Return(r) =>
                /\ request' \in [Requests -> Work]
                /\ request'[r].pc = "idle"
                /\ \A q \in Requests \ {r} : request'[q] = request[q]
<1>0. request \in [Requests -> Work]
  BY DEF TypeOK
<1>1. ASSUME NEW w \in Work, request' = [request EXCEPT ![r] = w]
      PROVE  /\ request' \in [Requests -> Work] /\ request'[r] = w
             /\ \A q \in Requests \ {r} : request'[q] = request[q]
  BY <1>0, <1>1
<1>2. ASSUME NEW x \in {"idle", "mail", "check", "provider", "clear", "keep"},
             NEW u \in Users \cup {None}, NEW t \in Tokens \cup {None}, Goto(r, x, u, t)
      PROVE  /\ request' \in [Requests -> Work]
             /\ request'[r] = [pc |-> x, user |-> u, token |-> t]
             /\ \A q \in Requests \ {r} : request'[q] = request[q]
  <2>1. PICK w \in Work : w = [pc |-> x, user |-> u, token |-> t]
    BY WorkTyped
  <2>2. request' = [request EXCEPT ![r] = w]
    BY <1>2, <2>1 DEF Goto
  <2> QED BY <1>1, <2>1, <2>2
<1>3. ASSUME NEW x \in {"idle", "mail", "check", "provider", "clear", "keep"}, Step(r, x)
      PROVE  /\ request' \in [Requests -> Work] /\ request'[r].pc = x
             /\ request'[r].user = request[r].user /\ request'[r].token = request[r].token
             /\ \A q \in Requests \ {r} : request'[q] = request[q]
  <2> DEFINE w == [request[r] EXCEPT !.pc = x]
  <2>1. w \in Work /\ w.pc = x /\ w.user = request[r].user /\ w.token = request[r].token
    BY <1>0 DEF Work
  <2>2. request' = [request EXCEPT ![r] = w]
    BY <1>0, <1>3 DEF Step
  <2> HIDE DEF w
  <2> QED BY <1>1, <2>1, <2>2
<1>4. ASSUME Return(r)
      PROVE  /\ request' \in [Requests -> Work] /\ request'[r].pc = "idle"
             /\ \A q \in Requests \ {r} : request'[q] = request[q]
  <2>1. PICK w \in Work : w = Idle
    BY DEF Work, Idle
  <2>2. request' = [request EXCEPT ![r] = w]
    BY <1>4, <2>1 DEF Return
  <2> QED BY <1>1, <2>1, <2>2 DEF Idle
<1> QED BY <1>2, <1>3, <1>4

LEMMA PasswordsInvInit == Init => PasswordsInv
<1> SUFFICES ASSUME Init PROVE PasswordsInv
  OBVIOUS
<1>0. Idle \in Work /\ Idle.pc = "idle" /\ MaxFaults \in Nat
  BY FaultsAssumption DEF Work, Idle
<1>1. TypeOK
  BY <1>0 DEF Init, TypeOK
<1>2. RequestsKnown
  BY <1>0 DEF Init, RequestsKnown
<1>3. LinksOnce
  BY <1>0 DEF Init, LinksOnce, Presents
<1>4. FlagsTrue
  BY <1>0 DEF Init, FlagsTrue
<1> QED BY <1>1, <1>2, <1>3, <1>4 DEF PasswordsInv

(* What a step makes of a token. *)
LEMMA TokenTyped ==
  ASSUME TypeOK, NEW t \in Tokens
  PROVE  /\ \A s \in {"used", "expired"} :
                token' = [token EXCEPT ![t].state = s] =>
                    /\ token' \in [Tokens -> [state : {"unissued", "live", "used", "expired"},
                                              user : Users \cup {None}]]
                    /\ token'[t].state = s /\ \A x \in Tokens \ {t} : token'[x] = token[x]
         /\ \A u \in Users :
                token' = [token EXCEPT ![t] = [state |-> "live", user |-> u]] =>
                    /\ token' \in [Tokens -> [state : {"unissued", "live", "used", "expired"},
                                              user : Users \cup {None}]]
                    /\ token'[t].state = "live" /\ token'[t].user = u
                    /\ \A x \in Tokens \ {t} : token'[x] = token[x]
<1> DEFINE Row == [state : {"unissued", "live", "used", "expired"}, user : Users \cup {None}]
<1>0. token \in [Tokens -> Row]
  BY DEF TypeOK
<1>1. ASSUME NEW row \in Row, token' = [token EXCEPT ![t] = row]
      PROVE  /\ token' \in [Tokens -> Row] /\ token'[t] = row
             /\ \A x \in Tokens \ {t} : token'[x] = token[x]
  BY <1>0, <1>1
<1>2. ASSUME NEW s \in {"used", "expired"}, token' = [token EXCEPT ![t].state = s]
      PROVE  /\ token' \in [Tokens -> Row] /\ token'[t].state = s
             /\ \A x \in Tokens \ {t} : token'[x] = token[x]
  <2>1. PICK row : row = [token[t] EXCEPT !.state = s]
    OBVIOUS
  <2>2. row \in Row /\ row.state = s
    BY <1>0, <2>1
  <2>3. token' = [token EXCEPT ![t] = row]
    BY <1>0, <1>2, <2>1
  <2> HIDE DEF Row
  <2> QED BY <1>1, <2>2, <2>3
<1>3. ASSUME NEW u \in Users, token' = [token EXCEPT ![t] = [state |-> "live", user |-> u]]
      PROVE  /\ token' \in [Tokens -> Row] /\ token'[t].state = "live" /\ token'[t].user = u
             /\ \A x \in Tokens \ {t} : token'[x] = token[x]
  <2>1. PICK row : row = [state |-> "live", user |-> u]
    OBVIOUS
  <2>2. row \in Row /\ row.state = "live" /\ row.user = u
    BY <2>1
  <2>3. token' = [token EXCEPT ![t] = row]
    BY <1>3, <2>1
  <2> HIDE DEF Row
  <2> QED BY <1>1, <2>2, <2>3
<1> QED BY <1>2, <1>3

(* Steps that at most move requests into a state that presents no link and  *)
(* is not about to write a flag, or take tokens and time away.              *)
LEMMA QuietStep ==
  ASSUME PasswordsInv, request' \in [Requests -> Work],
         \A r \in Requests :
             \/ request'[r] = request[r]
             \/ request'[r].pc = "idle"
             \/ request'[r].pc = "mail" /\ request'[r].token \in Tokens
             \/ /\ request'[r].pc = "provider" /\ request[r].pc = "check"
                /\ request'[r].user = request[r].user /\ request'[r].token = request[r].token
             \/ request'[r].pc = "check" /\ request'[r].user \in Users /\ request'[r].token = None
             \/ /\ request'[r].pc = "keep" /\ request'[r].user \in Users
                /\ must[request'[r].user],
         UNCHANGED <<must, kept, initial, grants, told, crossed>>,
         young' \in [Users -> BOOLEAN], mailed' \subseteq Tokens, faults' \in 0..MaxFaults,
         token' \in [Tokens -> [state : {"unissued", "live", "used", "expired"},
                                user : Users \cup {None}]],
         \A t \in Tokens : \/ token'[t] = token[t]
                           \/ /\ token[t].state # "used"
                              /\ token'[t].state \notin {"live", "used"}
                           \/ /\ token[t].state = "unissued" /\ token'[t].state = "live"
                              /\ token'[t].user \in Users
  PROVE  PasswordsInv'
<1>0. None \notin Users \cup Tokens
  BY NoneAssumption
<1>1. TypeOK'
  BY DEF PasswordsInv, TypeOK
<1>2. RequestsKnown'
  BY DEF PasswordsInv, RequestsKnown
<1>3. \A r \in Requests, t \in Tokens : Presents(r, t)' => Presents(r, t)
  BY <1>0 DEF Presents
<1>4. \A t \in Tokens : token[t].state = "used" => token'[t].state = "used"
  OBVIOUS
<1>5. \A t \in Tokens : token'[t].state = "used" => token[t].state = "used"
  OBVIOUS
<1>6. LinksOnce'
  BY <1>3, <1>4, <1>5 DEF PasswordsInv, LinksOnce
<1>7. FlagsTrue'
  <2>1. \A u \in Users : initial'[u] => must'[u] \/ kept'[u]
    BY DEF PasswordsInv, FlagsTrue
  <2>2. \A r \in Requests : request'[r].pc = "clear" => ~initial'[request'[r].user]
    BY DEF PasswordsInv, FlagsTrue
  <2>3. ASSUME NEW u \in told' \ crossed'
        PROVE  /\ ~must'[u] /\ ~kept'[u]
               /\ \A r \in Requests : ~(request'[r].pc = "keep" /\ request'[r].user = u)
    BY <2>3 DEF PasswordsInv, FlagsTrue
  <2> QED BY <2>1, <2>2, <2>3 DEF FlagsTrue
<1> QED BY <1>1, <1>2, <1>6, <1>7 DEF PasswordsInv

LEMMA CredentialSteps == PasswordsInv /\ Next => PasswordsInv'
<1> SUFFICES ASSUME PasswordsInv, Next PROVE PasswordsInv'
  OBVIOUS
<1> DEFINE Rows0 == [state : {"unissued", "live", "used", "expired"}, user : Users \cup {None}]
<1>0. /\ TypeOK /\ RequestsKnown /\ LinksOnce /\ FlagsTrue
      /\ request \in [Requests -> Work] /\ token \in [Tokens -> Rows0]
      /\ mailed \subseteq Tokens /\ faults \in 0..MaxFaults /\ young \in [Users -> BOOLEAN]
      /\ None \notin Users \cup Tokens /\ MaxFaults \in Nat
  BY NoneAssumption, FaultsAssumption DEF PasswordsInv, TypeOK
<1>f. Fault => faults' \in 0..MaxFaults
  BY <1>0 DEF Fault
<1>1. ASSUME NEW r \in Requests, NEW u \in Users, ForgotPassword(r, u) PROVE PasswordsInv'
  <2>1. PICK t \in Tokens : /\ token[t].state = "unissued"
                            /\ token' = [token EXCEPT ![t] = [state |-> "live", user |-> u]]
                            /\ Goto(r, "mail", u, t)
    BY <1>1 DEF ForgotPassword
  <2>2. /\ request' \in [Requests -> Work] /\ request'[r] = [pc |-> "mail", user |-> u, token |-> t]
        /\ \A q \in Requests \ {r} : request'[q] = request[q]
    BY <1>0, <2>1, RequestsMove
  <2>3. request'[r].pc = "mail" /\ request'[r].token \in Tokens
    BY <2>2
  <2>4. token' \in [Tokens -> Rows0] /\ token'[t].state = "live" /\ token'[t].user \in Users
        /\ \A x \in Tokens \ {t} : token'[x] = token[x]
    BY <1>0, <2>1, TokenTyped
  <2>5. UNCHANGED <<must, kept, young, initial, mailed, grants, told, crossed, faults>>
    BY <1>1 DEF ForgotPassword, accounts, history
  <2> QED BY <1>0, <2>1, <2>2, <2>3, <2>4, <2>5, QuietStep
<1>2. ASSUME NEW r \in Requests, NEW u \in Users, ChangePassword(r, u) PROVE PasswordsInv'
  <2>1. Goto(r, "check", u, None)
    BY <1>2 DEF ChangePassword
  <2>2. /\ request' \in [Requests -> Work]
        /\ request'[r] = [pc |-> "check", user |-> u, token |-> None]
        /\ \A q \in Requests \ {r} : request'[q] = request[q]
    BY <1>0, <2>1, RequestsMove
  <2>3. request'[r].pc = "check" /\ request'[r].user \in Users /\ request'[r].token = None
    BY <2>2
  <2>4. UNCHANGED <<must, kept, young, initial, mailed, grants, told, crossed, faults, token>>
    BY <1>2 DEF ChangePassword, accounts, history
  <2> QED BY <1>0, <2>2, <2>3, <2>4, QuietStep
<1>3. ASSUME NEW r \in Requests, NEW u \in Users, KeepDefaultPassword(r, u) PROVE PasswordsInv'
  <2>1. Goto(r, "keep", u, None) /\ must[u]
    BY <1>3 DEF KeepDefaultPassword
  <2>2. /\ request' \in [Requests -> Work]
        /\ request'[r] = [pc |-> "keep", user |-> u, token |-> None]
        /\ \A q \in Requests \ {r} : request'[q] = request[q]
    BY <1>0, <2>1, RequestsMove
  <2>3. request'[r].pc = "keep" /\ request'[r].user \in Users /\ must[request'[r].user]
    BY <2>1, <2>2
  <2>4. UNCHANGED <<must, kept, young, initial, mailed, grants, told, crossed, faults, token>>
    BY <1>3 DEF KeepDefaultPassword, accounts, history
  <2> QED BY <1>0, <2>2, <2>3, <2>4, QuietStep
<1>4. ASSUME NEW r \in Requests, NEW t \in Tokens, ResetPassword(r, t) PROVE PasswordsInv'
  <2>1. /\ token[t].state = "live" /\ token' = [token EXCEPT ![t].state = "used"]
        /\ Goto(r, "check", token[t].user, t)
        /\ UNCHANGED <<must, kept, young, initial, mailed, grants, told, crossed, faults>>
    BY <1>4 DEF ResetPassword, accounts, history
  <2>2. token[t].user \in Users
    BY <1>0, <2>1 DEF RequestsKnown
  <2>3. /\ request' \in [Requests -> Work]
        /\ request'[r] = [pc |-> "check", user |-> token[t].user, token |-> t]
        /\ \A q \in Requests \ {r} : request'[q] = request[q]
    BY <1>0, <2>1, <2>2, RequestsMove
  <2>4. request'[r].pc = "check" /\ request'[r].user \in Users /\ request'[r].token = t
    BY <2>2, <2>3
  <2>5. token' \in [Tokens -> Rows0] /\ token'[t].state = "used"
        /\ \A x \in Tokens \ {t} : token'[x] = token[x]
    BY <1>0, <2>1, TokenTyped
  <2>6. TypeOK'
    BY <1>0, <2>1, <2>3, <2>5 DEF TypeOK
  <2>7. RequestsKnown'
    BY <1>0, <2>3, <2>4, <2>5 DEF RequestsKnown
  <2>8. LinksOnce'
    <3>1. \A q \in Requests, x \in Tokens :
              Presents(q, x)' => \/ q = r /\ x = t
                                 \/ x # t /\ Presents(q, x)
      <4>1. ASSUME NEW q \in Requests, NEW x \in Tokens, Presents(q, x)', q # r
            PROVE  x # t /\ Presents(q, x)
        <5>1. Presents(q, x)
          BY <2>3, <4>1 DEF Presents
        <5>2. token[x].state = "used"
          BY <1>0, <5>1 DEF LinksOnce
        <5> QED BY <2>1, <5>1, <5>2
      <4>2. ASSUME NEW x \in Tokens, Presents(r, x)' PROVE x = t
        BY <2>4, <4>2 DEF Presents
      <4> QED BY <4>1, <4>2
    <3>2. grants[t] = 0
      BY <1>0, <2>1 DEF LinksOnce
    <3>3. \A x \in Tokens : grants'[x] <= 1 /\ (token'[x].state # "used" => grants'[x] = 0)
      BY <1>0, <2>1, <2>5 DEF LinksOnce
    <3>4. ASSUME NEW q \in Requests, NEW x \in Tokens, Presents(q, x)'
          PROVE  token'[x].state = "used" /\ grants'[x] = 0
      <4>1. CASE x = t
        BY <2>1, <2>5, <3>2, <4>1
      <4>2. CASE x # t
        BY <1>0, <2>1, <2>5, <3>1, <3>4, <4>2 DEF LinksOnce
      <4> QED BY <4>1, <4>2
    <3>5. ASSUME NEW q \in Requests, NEW p \in Requests, NEW x \in Tokens,
                 Presents(q, x)', Presents(p, x)'
          PROVE  q = p
      BY <1>0, <3>1, <3>5 DEF LinksOnce
    <3> QED BY <3>3, <3>4, <3>5 DEF LinksOnce
  <2>9. FlagsTrue'
    BY <1>0, <2>1, <2>3, <2>4 DEF FlagsTrue
  <2> QED BY <2>6, <2>7, <2>8, <2>9 DEF PasswordsInv
<1>5. ASSUME NEW r \in Requests, EmailLink(r) PROVE PasswordsInv'
  <2>1. request[r].token \in Tokens
    BY <1>0, <1>5 DEF EmailLink, RequestsKnown
  <2>2. mailed' \subseteq Tokens /\ Return(r)
        /\ UNCHANGED <<must, kept, young, initial, grants, told, crossed, faults, token>>
    BY <1>0, <1>5, <2>1 DEF EmailLink, accounts, history
  <2>3. /\ request' \in [Requests -> Work] /\ request'[r].pc = "idle"
        /\ \A q \in Requests \ {r} : request'[q] = request[q]
    BY <1>0, <2>2, RequestsMove
  <2> QED BY <1>0, <2>2, <2>3, QuietStep
<1>6. ASSUME NEW r \in Requests, CheckPassword(r) PROVE PasswordsInv'
  <2>1. /\ request[r].pc = "check"
        /\ Step(r, "provider") \/ Return(r)
        /\ UNCHANGED <<must, kept, young, initial, mailed, grants, told, crossed, faults, token>>
    BY <1>6 DEF CheckPassword, accounts, history
  <2>2. CASE Step(r, "provider")
    <3>1. /\ request' \in [Requests -> Work] /\ request'[r].pc = "provider"
          /\ request'[r].user = request[r].user /\ request'[r].token = request[r].token
          /\ \A q \in Requests \ {r} : request'[q] = request[q]
      BY <1>0, <2>2, RequestsMove
    <3>2. request[r].pc = "check"
      BY <1>6 DEF CheckPassword
    <3> QED BY <1>0, <2>1, <3>1, <3>2, QuietStep
  <2>3. CASE Return(r)
    <3>1. /\ request' \in [Requests -> Work] /\ request'[r].pc = "idle"
          /\ \A q \in Requests \ {r} : request'[q] = request[q]
      BY <1>0, <2>3, RequestsMove
    <3> QED BY <1>0, <2>1, <3>1, QuietStep
  <2> QED BY <1>6, <2>2, <2>3 DEF CheckPassword
<1>7. ASSUME NEW r \in Requests, request[r].pc = "provider",
             initial' = [initial EXCEPT ![request[r].user] = FALSE], Granted(r),
             UNCHANGED <<must, kept, young, token, mailed, told, crossed, faults>>,
             request' \in [Requests -> Work],
             request'[r].pc = "idle" \/ /\ request'[r].pc = "clear"
                                        /\ request'[r].user = request[r].user,
             \A q \in Requests \ {r} : request'[q] = request[q]
      PROVE  PasswordsInv'
  <2> DEFINE t == request[r].token
  <2>1. request[r] \in Work /\ request[r].user \in Users
    BY <1>0, <1>7 DEF RequestsKnown
  <2>2. initial' \in [Users -> BOOLEAN] /\ ~initial'[request[r].user]
        /\ \A u \in Users : initial'[u] => initial[u]
    BY <1>0, <1>7, <2>1 DEF TypeOK
  <2>3. grants \in [Tokens -> Nat]
    BY <1>0 DEF TypeOK
  <2>4. ASSUME t \in Tokens
        PROVE  /\ token[t].state = "used" /\ grants[t] = 0
               /\ \A q \in Requests \ {r} : ~Presents(q, t)
    <3>1. Presents(r, t)
      BY <1>7 DEF Presents
    <3> QED BY <1>0, <2>4, <3>1 DEF LinksOnce
  <2>5. /\ grants' \in [Tokens -> Nat]
        /\ \A x \in Tokens \ {t} : grants'[x] = grants[x]
        /\ t \in Tokens => grants'[t] = 1
    <3>1. CASE t = None
      BY <1>0, <1>7, <2>3, <3>1 DEF Granted
    <3>2. CASE t \in Tokens
      <4>1. grants' = [grants EXCEPT ![t] = @ + 1]
        BY <1>0, <1>7, <3>2 DEF Granted
      <4>2. grants[t] = 0
        BY <2>4, <3>2
      <4> HIDE DEF t
      <4> QED BY <2>3, <3>2, <4>1, <4>2
    <3>3. t \in Tokens \cup {None}
      BY <2>1 DEF Work
    <3> QED BY <3>1, <3>2, <3>3
  <2>6. TypeOK'
    BY <1>0, <1>7, <2>2, <2>5 DEF TypeOK
  <2>7. RequestsKnown'
    BY <1>0, <1>7, <2>1 DEF RequestsKnown
  <2>8. LinksOnce'
    <3>1. \A q \in Requests, x \in Tokens : Presents(q, x)' => q # r /\ x # t /\ Presents(q, x)
      <4>1. ASSUME NEW q \in Requests, NEW x \in Tokens, Presents(q, x)'
            PROVE  q # r /\ x # t /\ Presents(q, x)
        <5>1. q # r
          BY <1>7, <4>1 DEF Presents
        <5>2. Presents(q, x)
          BY <1>7, <4>1, <5>1 DEF Presents
        <5> QED BY <2>4, <5>1, <5>2
      <4> QED BY <4>1
    <3>2. ASSUME NEW x \in Tokens
          PROVE  grants'[x] <= 1 /\ (token'[x].state # "used" => grants'[x] = 0)
      <4>1. CASE x = t
        BY <1>7, <2>4, <2>5, <4>1
      <4>2. CASE x # t
        BY <1>0, <1>7, <2>5, <4>2 DEF LinksOnce
      <4> QED BY <4>1, <4>2
    <3>3. \A q \in Requests, x \in Tokens :
              Presents(q, x)' => token'[x].state = "used" /\ grants'[x] = 0
      BY <1>0, <1>7, <2>5, <3>1 DEF LinksOnce
    <3>4. \A q, p \in Requests, x \in Tokens : Presents(q, x)' /\ Presents(p, x)' => q = p
      BY <1>0, <3>1 DEF LinksOnce
    <3> QED BY <3>2, <3>3, <3>4 DEF LinksOnce
  <2>9. FlagsTrue'
    <3>1. \A u \in Users : initial'[u] => must'[u] \/ kept'[u]
      BY <1>0, <1>7, <2>2 DEF FlagsTrue
    <3>2. ASSUME NEW q \in Requests, request'[q].pc = "clear" PROVE ~initial'[request'[q].user]
      <4>1. CASE q = r
        BY <1>7, <2>2, <3>2, <4>1
      <4>2. CASE q # r
        <5>1. request'[q] = request[q] /\ request[q].pc = "clear"
          BY <1>7, <3>2, <4>2
        <5>2. request[q].user \in Users /\ ~initial[request[q].user]
          BY <1>0, <5>1 DEF RequestsKnown, FlagsTrue
        <5> QED BY <2>2, <5>1, <5>2
      <4> QED BY <4>1, <4>2
    <3>3. ASSUME NEW u \in told' \ crossed'
          PROVE  /\ ~must'[u] /\ ~kept'[u]
                 /\ \A q \in Requests : ~(request'[q].pc = "keep" /\ request'[q].user = u)
      BY <1>0, <1>7, <3>3 DEF FlagsTrue
    <3> QED BY <3>1, <3>2, <3>3 DEF FlagsTrue
  <2> QED BY <2>6, <2>7, <2>8, <2>9 DEF PasswordsInv
<1>8. ASSUME NEW r \in Requests, UpdatePassword(r) PROVE PasswordsInv'
  <2>1. Step(r, "clear")
    BY <1>8 DEF UpdatePassword
  <2>2. /\ request' \in [Requests -> Work] /\ request'[r].pc = "clear"
        /\ request'[r].user = request[r].user
        /\ \A q \in Requests \ {r} : request'[q] = request[q]
    BY <1>0, <2>1, RequestsMove
  <2> QED BY <1>7, <1>8, <2>2 DEF UpdatePassword
<1>9. ASSUME NEW r \in Requests, UpdatePasswordFails(r) PROVE PasswordsInv'
  <2>1. Return(r) /\ request[r].pc = "provider"
        /\ UNCHANGED <<must, kept, young, token, mailed, told, crossed, faults>>
    BY <1>9 DEF UpdatePasswordFails
  <2>2. /\ request' \in [Requests -> Work] /\ request'[r].pc = "idle"
        /\ \A q \in Requests \ {r} : request'[q] = request[q]
    BY <1>0, <2>1, RequestsMove
  <2>3. CASE UNCHANGED <<initial, grants>>
    BY <1>0, <2>1, <2>2, <2>3, QuietStep
  <2>4. CASE initial' = [initial EXCEPT ![request[r].user] = FALSE] /\ Granted(r)
    BY <1>7, <2>1, <2>2, <2>4
  <2> QED BY <1>9, <2>3, <2>4 DEF UpdatePasswordFails
<1>10. ASSUME NEW r \in Requests, NEW b \in BOOLEAN, NEW u \in Users, Clear(u, b),
              b \/ ~initial[u], Return(r),
              UNCHANGED <<young, initial, token, mailed, grants, faults>>,
              told' \subseteq Users /\ crossed' \subseteq told',
              \A v \in told' \ crossed' :
                  \/ v \in told \ crossed /\ v # u
                  \/ ~b /\ v = u /\ \A q \in Requests : ~(request[q].pc = "keep" /\ request[q].user = v)
       PROVE  PasswordsInv'
  <2>1. /\ request' \in [Requests -> Work] /\ request'[r].pc = "idle"
        /\ \A q \in Requests \ {r} : request'[q] = request[q]
    BY <1>0, <1>10, RequestsMove
  <2>2. /\ must' \in [Users -> BOOLEAN] /\ kept' \in [Users -> BOOLEAN]
        /\ must'[u] = FALSE /\ kept'[u] = b
        /\ \A v \in Users \ {u} : must'[v] = must[v] /\ kept'[v] = kept[v]
    BY <1>0, <1>10 DEF Clear, TypeOK
  <2>3. TypeOK'
    BY <1>0, <1>10, <2>1, <2>2 DEF TypeOK
  <2>4. RequestsKnown'
    BY <1>0, <1>10, <2>1 DEF RequestsKnown
  <2>5. LinksOnce'
    <3>1. \A q \in Requests, x \in Tokens : Presents(q, x)' => Presents(q, x)
      BY <2>1 DEF Presents
    <3> QED BY <1>0, <1>10, <3>1 DEF LinksOnce
  <2>6. FlagsTrue'
    <3>1. \A v \in Users : initial'[v] => must'[v] \/ kept'[v]
      BY <1>0, <1>10, <2>2 DEF FlagsTrue
    <3>2. \A q \in Requests : request'[q].pc = "clear" => ~initial'[request'[q].user]
      BY <1>0, <1>10, <2>1 DEF FlagsTrue
    <3>3. ASSUME NEW v \in told' \ crossed'
          PROVE  /\ ~must'[v] /\ ~kept'[v]
                 /\ \A q \in Requests : ~(request'[q].pc = "keep" /\ request'[q].user = v)
      <4>1. v \in Users
        BY <1>10, <3>3
      <4>2. CASE v = u
        BY <1>10, <2>1, <2>2, <4>2
      <4>3. CASE v # u
        <5>1. v \in told \ crossed
          BY <1>10, <4>3
        <5> QED BY <1>0, <2>1, <2>2, <4>1, <4>3, <5>1 DEF FlagsTrue
      <4> QED BY <4>2, <4>3
    <3> QED BY <3>1, <3>2, <3>3 DEF FlagsTrue
  <2> QED BY <2>3, <2>4, <2>5, <2>6 DEF PasswordsInv
<1>11. ASSUME NEW r \in Requests, PasswordChanged(r) PROVE PasswordsInv'
  <2> DEFINE u == request[r].user
  <2>1. request[r].pc = "clear" /\ Clear(u, FALSE) /\ Return(r) /\ told' = told \cup {u}
        /\ UNCHANGED <<young, initial, token, mailed, grants, faults>>
    BY <1>11 DEF PasswordChanged
  <2>2. u \in Users /\ ~initial[u]
    BY <1>0, <2>1 DEF RequestsKnown, FlagsTrue
  <2>3. crossed' = IF \E q \in Requests : request[q].pc = "keep" /\ request[q].user = u
                   THEN crossed \cup {u} ELSE crossed \ {u}
    BY <1>11 DEF PasswordChanged
  <2>4. told \subseteq Users /\ crossed \subseteq told
    BY <1>0 DEF TypeOK
  <2> HIDE DEF u
  <2>5. told' \subseteq Users /\ crossed' \subseteq told'
    BY <2>1, <2>2, <2>3, <2>4
  <2>6. ASSUME NEW v \in told' \ crossed'
        PROVE  \/ v \in told \ crossed /\ v # u
               \/ v = u /\ \A q \in Requests : ~(request[q].pc = "keep" /\ request[q].user = v)
    BY <2>1, <2>3, <2>6
  <2> QED BY <1>10, <2>1, <2>2, <2>5, <2>6
<1>12. ASSUME NEW r \in Requests, KeepRecorded(r) PROVE PasswordsInv'
  <2> DEFINE u == request[r].user
  <2>1. request[r].pc = "keep" /\ Clear(u, TRUE) /\ Return(r)
        /\ UNCHANGED <<young, initial, token, mailed, grants, told, crossed, faults>>
    BY <1>12 DEF KeepRecorded, history
  <2>2. u \in Users /\ u \notin told \ crossed
    BY <1>0, <2>1 DEF RequestsKnown, FlagsTrue
  <2>3. told \subseteq Users /\ crossed \subseteq told
    BY <1>0 DEF TypeOK
  <2> HIDE DEF u
  <2> QED BY <1>10, <2>1, <2>2, <2>3
<1>13. ASSUME NEW r \in Requests, ClearFails(r) PROVE PasswordsInv'
  <2>1. Return(r) /\ faults' \in 0..MaxFaults
        /\ UNCHANGED <<must, kept, young, initial, mailed, grants, told, crossed, token>>
    BY <1>f, <1>13 DEF ClearFails, accounts, history
  <2>2. /\ request' \in [Requests -> Work] /\ request'[r].pc = "idle"
        /\ \A q \in Requests \ {r} : request'[q] = request[q]
    BY <1>0, <2>1, RequestsMove
  <2> QED BY <1>0, <2>1, <2>2, QuietStep
<1>14. ASSUME Restart PROVE PasswordsInv'
  <2>1. request' = [r \in Requests |-> Idle] /\ faults' \in 0..MaxFaults
        /\ UNCHANGED <<must, kept, young, initial, mailed, grants, told, crossed, token>>
    BY <1>f, <1>14 DEF Restart, accounts, history
  <2>2. Idle \in Work /\ Idle.pc = "idle"
    BY DEF Idle, Work
  <2> QED BY <1>0, <2>1, <2>2, QuietStep
<1>15. ASSUME NEW u \in Users, WeekPasses(u) PROVE PasswordsInv'
  <2>1. young' \in [Users -> BOOLEAN]
        /\ UNCHANGED <<must, kept, initial, mailed, grants, told, crossed, token, faults, request>>
    BY <1>0, <1>15 DEF WeekPasses, history
  <2> QED BY <1>0, <2>1, QuietStep
<1>16. ASSUME NEW t \in Tokens, TokenExpires(t) PROVE PasswordsInv'
  <2>1. token[t].state = "live" /\ token' = [token EXCEPT ![t].state = "expired"]
        /\ UNCHANGED <<must, kept, young, initial, mailed, grants, told, crossed, faults, request>>
    BY <1>16 DEF TokenExpires, accounts, history
  <2>2. token' \in [Tokens -> Rows0] /\ token'[t].state = "expired"
        /\ \A x \in Tokens \ {t} : token'[x] = token[x]
    BY <1>0, <2>1, TokenTyped
  <2> QED BY <1>0, <2>1, <2>2, QuietStep
<1> QED BY <1>1, <1>2, <1>3, <1>4, <1>5, <1>6, <1>8, <1>9, <1>11, <1>12, <1>13, <1>14, <1>15, <1>16
        DEF Next, Progress

LEMMA PasswordsStayOK == Spec => []PasswordsInv
<1>1. PasswordsInv /\ UNCHANGED vars => PasswordsInv'
  BY DEF PasswordsInv, TypeOK, RequestsKnown, LinksOnce, Presents, FlagsTrue, vars
<1> QED BY <1>1, PasswordsInvInit, CredentialSteps, PTL DEF Spec

(* A reset link changes one password at most, however many requests present *)
(* it and whatever fails.                                                   *)
THEOREM LinksWorkOnce == Spec => []LinksConsistent
<1>1. PasswordsInv => LinksConsistent
  BY DEF PasswordsInv, LinksOnce, LinksConsistent, OneChangePerLink
<1> QED BY <1>1, PasswordsStayOK, PTL

(* /me asks whoever still has the initial password after its week, and no   *)
(* longer asks who was told of a new one, unless a request to keep the old  *)
(* one overlapped the change.                                               *)
THEOREM DefaultsStayHandled == Spec => []DefaultsHandled
<1>1. PasswordsInv => DefaultsHandled
  <2> SUFFICES ASSUME PasswordsInv PROVE DefaultsHandled
    OBVIOUS
  <2>1. DefaultExpires
    BY DEF PasswordsInv, FlagsTrue, DefaultExpires, MustChangePassword, DefaultPasswordExpired
  <2>2. ChangedIsNotAsked
    BY DEF PasswordsInv, FlagsTrue, ChangedIsNotAsked
  <2> QED BY <2>1, <2>2 DEF DefaultsHandled
<1> QED BY <1>1, PasswordsStayOK, PTL

=============================================================================
