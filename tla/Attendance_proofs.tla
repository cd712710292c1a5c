-------------------------- MODULE Attendance_proofs --------------------------
(***************************************************************************)
(* Proofs about Notifications, for any callers of SendDirect, and about    *)
(* Attendance, one such caller, for any number of requests and faults.     *)
(*                                                                         *)
(* A note is delivered by the one request that made it sent, and that      *)
(* request carries the recipients it still has to add: together with those *)
(* who have the note they are exactly the users that were checked          *)
(* (Delivering).  Attendance changes the state of Notifications only in    *)
(* ways Notifications allows its environment (AttendanceIsACaller), so     *)
(* what holds of the one holds of the composition.                         *)
(*                                                                         *)
(* The registers are proved about frame by frame (Faithful): what a        *)
(* request still has to tell and to audit, with what it has told and       *)
(* audited, is what its write changed, as long as the records it read were *)
(* those it overwrote; a write by another request marks it as crossed.     *)
(***************************************************************************)
EXTENDS Attendance, TLAPS

(* A note that was never sent has no readers and is not acknowledged. *)
Unsent ==
    \A n \in Notes : note[n].status # "sent" => box[n] = {} /\ n \notin acked

Delivering ==
    \A r \in Requests : call[r].at = "deliver" =>
        /\ call[r].note \in Notes
        /\ note[call[r].note].status = "sent"
        /\ call[r].to \subseteq granted[call[r].note]
        /\ granted[call[r].note] \subseteq box[call[r].note] \cup call[r].to

Aimed ==
    \A r \in Requests : call[r].at \in {"update", "mark", "delete"} =>
        call[r].note \in Notes

IInv ==
    /\ NotesTypeOK /\ Unsent /\ Delivering /\ Aimed
    /\ NobodyUnauthorised /\ AckedIsDelivered /\ OneSender

-----------------------------------------------------------------------------
LEMMA IdleType ==
    /\ Idle \in Calls
    /\ NoNote \in [status : {"unused", "draft", "sent", "deleted"},
                   rules : SUBSET Audiences, author : Users \cup {None}]
  BY DEF Idle, Calls, NoNote

LEMMA ResolveType == \A rules \in SUBSET Audiences : Resolve(rules) \subseteq Users
  BY MembersAssumption DEF Resolve

LEMMA NotesInitInv == NotesInit => IInv
  <1> SUFFICES ASSUME NotesInit PROVE IInv
    OBVIOUS
  <1>1. NotesTypeOK
    BY IdleType, DutiesAssumption, FaultsAssumption DEF NotesInit, NotesTypeOK
  <1>2. Unsent /\ Delivering /\ Aimed
    BY DEF NotesInit, Unsent, Delivering, Aimed, NoNote, Idle
  <1>3. NobodyUnauthorised /\ AckedIsDelivered /\ OneSender
    BY DEF NotesInit, NobodyUnauthorised, AckedIsDelivered, OneSender, Idle
  <1>4. QED
    BY <1>1, <1>2, <1>3 DEF IInv

(* A request that stops delivering, or never did, disturbs nothing. *)
LEMMA QuietStep ==
    ASSUME IInv, NEW r \in Requests, NEW c \in Calls,
           c.at # "deliver",
           c.at \in {"update", "mark", "delete"} => c.note \in Notes,
           call' = [call EXCEPT ![r] = c],
           UNCHANGED <<note, box, reach, granted, acked>>,
           faults' \in 0..MaxFaults
    PROVE  IInv'
  <1>1. /\ call' \in [Requests -> Calls] /\ call'[r] = c
        /\ \A q \in Requests \ {r} : call'[q] = call[q]
    BY DEF IInv, NotesTypeOK
  <1>2. NotesTypeOK'
    BY <1>1 DEF IInv, NotesTypeOK
  <1>3. Unsent' /\ NobodyUnauthorised' /\ AckedIsDelivered'
    BY DEF IInv, Unsent, NobodyUnauthorised, AckedIsDelivered
  <1>4. Delivering' /\ Aimed' /\ OneSender'
    BY <1>1 DEF IInv, Delivering, Aimed, OneSender
  <1>5. QED
    BY <1>2, <1>3, <1>4 DEF IInv

LEMMA BeginInv ==
    ASSUME IInv, NEW r \in Requests, NEW c \in Calls, Begin(r, c),
           c.at # "deliver",
           c.at \in {"update", "mark", "delete"} => c.note \in Notes
    PROVE  IInv'
  <1>1. faults' \in 0..MaxFaults
    BY DEF Begin, IInv, NotesTypeOK
  <1>2. QED
    BY <1>1, QuietStep DEF Begin

LEMMA ComposerInv ==
    ASSUME IInv, NEW r \in Requests, Composer(r)
    PROVE  IInv'
  <1> PICK u \in Senders :
        \/ \E rules \in RuleSets, draft \in BOOLEAN : Compose(r, u, rules, draft)
        \/ \E n \in Notes : \/ \E rules \in RuleSets : UpdateDraft(r, u, n, rules)
                            \/ SendDraft(r, u, n)
                            \/ DeleteDraft(r, u, n)
    BY DEF Composer
  <1> u \in Users
    BY PeopleAssumption DEF Senders
  <1> RuleSets \subseteq SUBSET Audiences
    BY RulesAssumption
  <1>1. ASSUME NEW rules \in RuleSets, NEW draft \in BOOLEAN,
               Compose(r, u, rules, draft)
        PROVE  IInv'
    <2>1. PICK c : /\ c = [Idle EXCEPT !.at = IF draft THEN "save" ELSE "insert",
                             !.by = u, !.rules = rules,
                             !.to = IF draft THEN {} ELSE Resolve(rules)]
                   /\ Begin(r, c)
      BY <1>1 DEF Compose
    <2>2. c \in Calls /\ c.at \in {"save", "insert"}
      BY <2>1, ResolveType DEF Idle, Calls
    <2>3. QED
      BY <2>1, <2>2, BeginInv
  <1>2. ASSUME NEW n \in Notes, NEW rules \in RuleSets,
               UpdateDraft(r, u, n, rules)
        PROVE  IInv'
    <2>1. PICK c : /\ c = [Idle EXCEPT !.at = "update", !.note = n, !.rules = rules]
                   /\ Begin(r, c)
      BY <1>2 DEF UpdateDraft
    <2>2. c \in Calls /\ c.at = "update" /\ c.note = n
      BY <2>1 DEF Idle, Calls
    <2>3. QED
      BY <2>1, <2>2, BeginInv
  <1>3. ASSUME NEW n \in Notes, SendDraft(r, u, n)
        PROVE  IInv'
    <2>1. PICK c : /\ c = [Idle EXCEPT !.at = "mark", !.note = n,
                             !.to = Resolve(note[n].rules)]
                   /\ Begin(r, c)
      BY <1>3 DEF SendDraft
    <2>2. Resolve(note[n].rules) \subseteq Users
      BY ResolveType DEF IInv, NotesTypeOK
    <2>3. c \in Calls /\ c.at = "mark" /\ c.note = n
      BY <2>1, <2>2 DEF Idle, Calls
    <2>4. QED
      BY <2>1, <2>3, BeginInv
  <1>4. ASSUME NEW n \in Notes, DeleteDraft(r, u, n)
        PROVE  IInv'
    <2>1. PICK c : /\ c = [Idle EXCEPT !.at = "delete", !.note = n]
                   /\ Begin(r, c)
      BY <1>4 DEF DeleteDraft
    <2>2. c \in Calls /\ c.at = "delete" /\ c.note = n
      BY <2>1 DEF Idle, Calls
    <2>3. QED
      BY <2>1, <2>2, BeginInv
  <1>5. QED
    BY <1>1, <1>2, <1>3, <1>4

-----------------------------------------------------------------------------
(* The statements, one lemma each where a note or a box changes. *)

LEMMA SaveInv ==
    ASSUME IInv, NEW r \in Requests, NEW n \in Notes, Save(r, n)
    PROVE  IInv'
  <1>1. /\ call' \in [Requests -> Calls] /\ call'[r] = Idle
        /\ \A q \in Requests \ {r} : call'[q] = call[q]
    BY IdleType DEF IInv, NotesTypeOK, Save
  <1>2. /\ note'[n].status = "draft" /\ note[n].status = "unused"
        /\ \A m \in Notes \ {n} : note'[m] = note[m]
        /\ note' \in [Notes -> [status : {"unused", "draft", "sent", "deleted"},
                           rules : SUBSET Audiences,
                           author : Users \cup {None}]]
    BY DEF IInv, NotesTypeOK, Save, NoNote, Calls
  <1>3. NotesTypeOK'
    BY <1>1, <1>2 DEF IInv, NotesTypeOK, Save
  <1>4. Unsent' /\ NobodyUnauthorised' /\ AckedIsDelivered'
    BY <1>2 DEF IInv, Unsent, NobodyUnauthorised, AckedIsDelivered, Save
  <1>5. Delivering' /\ Aimed' /\ OneSender'
    BY <1>1, <1>2 DEF IInv, Delivering, Aimed, OneSender, Save, Idle
  <1>6. QED
    BY <1>3, <1>4, <1>5 DEF IInv

(* A note becomes sent: r delivers it, and nobody else does. *)
LEMMA BecomesSent ==
    ASSUME IInv, NEW r \in Requests, NEW n \in Notes,
           note[n].status # "sent",
           note'[n].status = "sent",
           \A m \in Notes \ {n} : note'[m] = note[m],
           note' \in [Notes -> [status : {"unused", "draft", "sent", "deleted"},
                           rules : SUBSET Audiences,
                           author : Users \cup {None}]],
           granted' = [granted EXCEPT ![n] = call[r].to],
           call' \in [Requests -> Calls],
           call'[r].at = "deliver", call'[r].note = n, call'[r].to = call[r].to,
           \A q \in Requests \ {r} : call'[q] = call[q],
           UNCHANGED <<box, reach, acked, faults>>
    PROVE  IInv'
  <1>1. call[r].to \subseteq Users
    BY DEF IInv, NotesTypeOK, Calls
  <1>2. /\ granted' \in [Notes -> SUBSET Users] /\ granted'[n] = call[r].to
        /\ \A m \in Notes \ {n} : granted'[m] = granted[m]
    BY <1>1 DEF IInv, NotesTypeOK
  <1>3. NotesTypeOK'
    BY <1>2 DEF IInv, NotesTypeOK
  <1>4. box[n] = {} /\ n \notin acked
    BY DEF IInv, Unsent
  <1>5. Unsent' /\ NobodyUnauthorised' /\ AckedIsDelivered'
    BY <1>2, <1>4 DEF IInv, Unsent, NobodyUnauthorised, AckedIsDelivered, NotesTypeOK
  <1>6. \A q \in Requests \ {r} : call[q].at = "deliver" => call[q].note # n
    BY DEF IInv, Delivering
  <1>7. Delivering'
    BY <1>2, <1>6 DEF IInv, Delivering
  <1>8. Aimed' /\ OneSender'
    BY <1>6 DEF IInv, Aimed, OneSender
  <1>9. QED
    BY <1>3, <1>5, <1>7, <1>8 DEF IInv

LEMMA InsertInv ==
    ASSUME IInv, NEW r \in Requests, NEW n \in Notes, Insert(r, n)
    PROVE  IInv'
  <1>1. PICK c : /\ c = [Idle EXCEPT !.at = "deliver", !.note = n,
                                     !.to = call[r].to,
                                     !.direct = call[r].direct]
                 /\ call' = [call EXCEPT ![r] = c]
    BY DEF Insert
  <1>2. c \in Calls /\ c.at = "deliver" /\ c.note = n /\ c.to = call[r].to
    BY <1>1 DEF Idle, Calls, IInv, NotesTypeOK
  <1>3. /\ call' \in [Requests -> Calls] /\ call'[r] = c
        /\ \A q \in Requests \ {r} : call'[q] = call[q]
    BY <1>1, <1>2 DEF IInv, NotesTypeOK
  <1>4. /\ note[n].status = "unused" /\ note'[n].status = "sent"
        /\ \A m \in Notes \ {n} : note'[m] = note[m]
        /\ note' \in [Notes -> [status : {"unused", "draft", "sent", "deleted"},
                           rules : SUBSET Audiences,
                           author : Users \cup {None}]]
    BY DEF IInv, NotesTypeOK, Insert, NoNote, Calls
  <1>5. /\ call'[r].at = "deliver" /\ call'[r].note = n
        /\ call'[r].to = call[r].to /\ note[n].status # "sent"
    BY <1>2, <1>3, <1>4
  <1>6. /\ granted' = [granted EXCEPT ![n] = call[r].to]
        /\ UNCHANGED <<box, reach, acked, faults>>
    BY DEF Insert
  <1>7. QED
    BY <1>3, <1>4, <1>5, <1>6, BecomesSent

LEMMA MarkSentInv ==
    ASSUME IInv, NEW r \in Requests, MarkSent(r)
    PROVE  IInv'
  <1>1. PICK n \in Notes : n = call[r].note
    BY DEF IInv, Aimed, MarkSent
  <1>2. /\ call' \in [Requests -> Calls] /\ call'[r].at = "deliver"
        /\ call'[r].note = n /\ call'[r].to = call[r].to
        /\ \A q \in Requests \ {r} : call'[q] = call[q]
    <2> DEFINE v == [call[r] EXCEPT !.at = "deliver"]
               w == [v EXCEPT !.to = call[r].to]
    <2>1. call \in [Requests -> Calls] /\ call[r] \in Calls
      BY DEF IInv, NotesTypeOK
    <2>2. v \in Calls /\ v.at = "deliver" /\ v.note = call[r].note /\ call[r].to \in SUBSET Users
      BY <2>1 DEF Calls
    <2>3. w \in Calls /\ w.at = "deliver" /\ w.note = call[r].note /\ w.to = call[r].to
      <3> HIDE DEF v
      <3> QED
        BY <2>2 DEF Calls
    <2>4. call' = [call EXCEPT ![r] = w]
      BY <2>1 DEF MarkSent, Recipients
    <2> HIDE DEF w
    <2> QED
      BY <1>1, <2>1, <2>3, <2>4
  <1>3. /\ note[n].status = "draft" /\ note'[n].status = "sent"
        /\ \A m \in Notes \ {n} : note'[m] = note[m]
        /\ note' \in [Notes -> [status : {"unused", "draft", "sent", "deleted"},
                           rules : SUBSET Audiences,
                           author : Users \cup {None}]]
    BY <1>1 DEF IInv, NotesTypeOK, MarkSent, StillDraft
  <1>4. /\ granted' = [granted EXCEPT ![n] = call[r].to]
        /\ UNCHANGED <<box, reach, acked, faults>>
    BY <1>1 DEF MarkSent
  <1>5. QED
    BY <1>2, <1>3, <1>4, BecomesSent

(* A draft changes, or goes: nobody delivers it, nobody has it. *)
LEMMA DraftChanges ==
    ASSUME IInv, NEW r \in Requests, NEW n \in Notes,
           note[n].status = "draft", note'[n].status # "sent",
           \A m \in Notes \ {n} : note'[m] = note[m],
           note' \in [Notes -> [status : {"unused", "draft", "sent", "deleted"},
                           rules : SUBSET Audiences,
                           author : Users \cup {None}]],
           call' = [call EXCEPT ![r] = Idle],
           UNCHANGED <<box, reach, granted, acked, faults>>
    PROVE  IInv'
  <1>1. /\ call' \in [Requests -> Calls] /\ call'[r] = Idle
        /\ \A q \in Requests \ {r} : call'[q] = call[q]
    BY IdleType DEF IInv, NotesTypeOK
  <1>2. NotesTypeOK'
    BY <1>1 DEF IInv, NotesTypeOK
  <1>3. Unsent' /\ NobodyUnauthorised' /\ AckedIsDelivered'
    BY DEF IInv, Unsent, NobodyUnauthorised, AckedIsDelivered
  <1>4. Delivering' /\ Aimed' /\ OneSender'
    BY <1>1 DEF IInv, Delivering, Aimed, OneSender, Idle
  <1>5. QED
    BY <1>2, <1>3, <1>4 DEF IInv

LEMMA ToIdleInv ==
    ASSUME IInv, NEW r \in Requests, call' = [call EXCEPT ![r] = Idle],
           UNCHANGED <<note, box, reach, granted, acked>>,
           faults' \in 0..MaxFaults
    PROVE  IInv'
  <1>1. Idle \in Calls /\ Idle.at = "idle"
    BY IdleType DEF Idle
  <1>2. QED
    BY <1>1, QuietStep

LEMMA UpdateInv ==
    ASSUME IInv, NEW r \in Requests, Update(r)
    PROVE  IInv'
  <1>1. PICK n \in Notes : n = call[r].note
    BY DEF IInv, Aimed, Update
  <1>2. CASE StillDraft(n)
    <2>1. /\ note[n].status = "draft" /\ note'[n].status = "draft"
          /\ \A m \in Notes \ {n} : note'[m] = note[m]
          /\ note' \in [Notes -> [status : {"unused", "draft", "sent", "deleted"},
                           rules : SUBSET Audiences,
                           author : Users \cup {None}]]
      <3>1. call[r].rules \in SUBSET Audiences
        BY DEF IInv, NotesTypeOK, Calls
      <3>2. note' = [note EXCEPT ![n].rules = call[r].rules]
        BY <1>1, <1>2 DEF Update
      <3>3. QED
        BY <1>2, <3>1, <3>2 DEF IInv, NotesTypeOK, StillDraft
    <2>2. QED
      BY <2>1, DraftChanges DEF Update
  <1>3. CASE ~StillDraft(n)
    <2>1. note' = note /\ faults' \in 0..MaxFaults
      BY <1>1, <1>3 DEF Update, IInv, NotesTypeOK
    <2>2. QED
      BY <2>1, ToIdleInv DEF Update
  <1>4. QED
    BY <1>2, <1>3

LEMMA DeleteInv ==
    ASSUME IInv, NEW r \in Requests, Delete(r)
    PROVE  IInv'
  <1>1. PICK n \in Notes : n = call[r].note
    BY DEF IInv, Aimed, Delete
  <1>2. CASE Deletable(n)
    <2>1. /\ note[n].status = "draft" /\ note'[n].status = "deleted"
          /\ \A m \in Notes \ {n} : note'[m] = note[m]
          /\ note' \in [Notes -> [status : {"unused", "draft", "sent", "deleted"},
                           rules : SUBSET Audiences,
                           author : Users \cup {None}]]
      BY <1>1, <1>2 DEF IInv, NotesTypeOK, Delete, Deletable, NoNote
    <2>2. box[n] = {}
      BY <2>1 DEF IInv, Unsent
    <2>3. box' = box
      BY <1>1, <1>2, <2>2 DEF Delete, IInv, NotesTypeOK
    <2>4. QED
      BY <2>1, <2>3, DraftChanges DEF Delete
  <1>3. CASE ~Deletable(n)
    <2>1. note' = note /\ box' = box /\ faults' \in 0..MaxFaults
      BY <1>1, <1>3 DEF Delete, IInv, NotesTypeOK
    <2>2. QED
      BY <2>1, ToIdleInv DEF Delete
  <1>4. QED
    BY <1>2, <1>3

LEMMA AddRecipientInv ==
    ASSUME IInv, NEW r \in Requests, NEW u \in Users, AddRecipient(r, u)
    PROVE  IInv'
  <1>1. PICK n \in Notes : n = call[r].note /\ note[n].status = "sent"
    BY DEF IInv, Delivering, AddRecipient
  <1>2. /\ call' \in [Requests -> Calls] /\ call'[r].at = "deliver"
        /\ call'[r].note = n /\ call'[r].to = call[r].to \ {u}
        /\ \A q \in Requests \ {r} : call'[q] = call[q]
    BY <1>1 DEF IInv, NotesTypeOK, AddRecipient, Calls
  <1>3. /\ box' \in [Notes -> SUBSET Users] /\ box'[n] = box[n] \cup {u}
        /\ \A m \in Notes \ {n} : box'[m] = box[m]
    BY <1>1 DEF IInv, NotesTypeOK, AddRecipient
  <1>4. NotesTypeOK'
    BY <1>2, <1>3 DEF IInv, NotesTypeOK, AddRecipient
  <1>5. u \in granted[n]
    BY <1>1 DEF IInv, Delivering, AddRecipient
  <1>6. Unsent' /\ NobodyUnauthorised' /\ AckedIsDelivered'
    BY <1>1, <1>3, <1>5 DEF IInv, Unsent, NobodyUnauthorised, AckedIsDelivered,
                           AddRecipient, NotesTypeOK
  <1>7. Delivering'
    <2> SUFFICES ASSUME NEW q \in Requests, call'[q].at = "deliver"
                 PROVE  /\ call'[q].note \in Notes
                        /\ note'[call'[q].note].status = "sent"
                        /\ call'[q].to \subseteq granted'[call'[q].note]
                        /\ granted'[call'[q].note]
                              \subseteq box'[call'[q].note] \cup call'[q].to
      BY DEF Delivering
    <2>1. CASE q = r
      BY <1>1, <1>2, <1>3, <2>1 DEF IInv, Delivering, AddRecipient
    <2>2. CASE q # r
      BY <1>1, <1>2, <1>3, <2>2 DEF IInv, Delivering, AddRecipient
    <2>3. QED
      BY <2>1, <2>2
  <1>8. Aimed' /\ OneSender'
    BY <1>1, <1>2 DEF IInv, Aimed, OneSender, AddRecipient
  <1>9. QED
    BY <1>4, <1>6, <1>7, <1>8 DEF IInv

LEMMA DeliveredInv ==
    ASSUME IInv, NEW r \in Requests, Delivered(r)
    PROVE  IInv'
  <1>1. PICK n \in Notes : n = call[r].note /\ note[n].status = "sent"
                           /\ granted[n] \subseteq box[n]
    BY DEF IInv, Delivering, Delivered
  <1>2. PICK c : /\ c = IF call[r].direct
                        THEN [Idle EXCEPT !.at = "returned", !.note = n]
                        ELSE Idle
                 /\ call' = [call EXCEPT ![r] = c]
    BY <1>1 DEF Delivered
  <1>3. c \in Calls /\ c.at \in {"idle", "returned"}
    BY <1>2 DEF Idle, Calls
  <1>4. /\ call' \in [Requests -> Calls] /\ call'[r] = c
        /\ \A q \in Requests \ {r} : call'[q] = call[q]
    BY <1>2, <1>3 DEF IInv, NotesTypeOK
  <1>5. acked' = acked \cup {n}
    BY <1>1 DEF Delivered
  <1>6. NotesTypeOK'
    BY <1>4, <1>5 DEF IInv, NotesTypeOK, Delivered
  <1>7. Unsent' /\ NobodyUnauthorised' /\ AckedIsDelivered'
    BY <1>1, <1>5 DEF IInv, Unsent, NobodyUnauthorised, AckedIsDelivered, Delivered
  <1>8. Delivering' /\ Aimed' /\ OneSender'
    BY <1>3, <1>4 DEF IInv, Delivering, Aimed, OneSender, Delivered
  <1>9. QED
    BY <1>6, <1>7, <1>8 DEF IInv

LEMMA FailInv ==
    ASSUME IInv, NEW r \in Requests, Fail(r)
    PROVE  IInv'
  <1>1. PICK c : /\ c = IF call[r].direct THEN [Idle EXCEPT !.at = "returned"]
                        ELSE Idle
                 /\ call' = [call EXCEPT ![r] = c]
    BY DEF Fail
  <1>2. c \in Calls /\ c.at \in {"idle", "returned"}
    BY <1>1 DEF Idle, Calls
  <1>3. faults' \in 0..MaxFaults
    BY FaultsAssumption DEF Fail, IInv, NotesTypeOK
  <1>4. QED
    BY <1>1, <1>2, <1>3, QuietStep DEF Fail

LEMMA RestInv ==
    ASSUME IInv, NEW r \in Requests, Rest(r)
    PROVE  IInv'
  <1>1. CASE MarkSentTooLate(r)
    <2>1. faults' \in 0..MaxFaults
      BY <1>1 DEF MarkSentTooLate, IInv, NotesTypeOK
    <2>2. QED
      BY <1>1, <2>1, ToIdleInv DEF MarkSentTooLate
  <1>2. QED
    BY <1>1, SaveInv, InsertInv, UpdateInv, MarkSentInv, DeleteInv,
       AddRecipientInv, DeliveredInv, FailInv DEF Rest

LEMMA NotesStepInv == IInv /\ [NotesNext]_notesVars => IInv'
  <1> SUFFICES ASSUME IInv, [NotesNext]_notesVars PROVE IInv'
    OBVIOUS
  <1>1. ASSUME NEW r \in Requests, Return(r) \/ Stop(r) PROVE IInv'
    <2>1. faults' \in 0..MaxFaults
      BY <1>1, FaultsAssumption DEF Return, Stop, IInv, NotesTypeOK
    <2>2. QED
      BY <1>1, <2>1, ToIdleInv DEF Return, Stop
  <1>2. ASSUME NEW r \in Requests, NEW to \in SUBSET Users, SendDirect(r, to)
        PROVE  IInv'
    <2>1. PICK c : /\ c = [Idle EXCEPT !.at = "insert", !.to = to, !.direct = TRUE]
                   /\ Begin(r, c)
      BY <1>2 DEF SendDirect
    <2>2. c \in Calls /\ c.at = "insert"
      BY <2>1 DEF Idle, Calls
    <2>3. QED
      BY <2>1, <2>2, BeginInv
  <1>3. CASE Appointments
    <2>1. PICK u \in Teachers, rules \in Duties : Reassign(u, rules)
      BY <1>3 DEF Appointments
    <2>2. reach' \in [Teachers -> Duties]
      BY <2>1 DEF Reassign, IInv, NotesTypeOK
    <2>3. QED
      BY <2>1, <2>2 DEF Reassign, IInv, NotesTypeOK, Unsent, Delivering, Aimed,
                        NobodyUnauthorised, AckedIsDelivered, OneSender
  <1>4. CASE Trouble
    <2>1. faults' \in 0..MaxFaults
      BY <1>4, FaultsAssumption DEF Trouble, IInv, NotesTypeOK
    <2>2. QED
      BY <1>4, <2>1 DEF Trouble, IInv, NotesTypeOK, Unsent, Delivering, Aimed,
                        NobodyUnauthorised, AckedIsDelivered, OneSender
  <1>5. CASE UNCHANGED notesVars
    BY <1>5 DEF notesVars, IInv, NotesTypeOK, Unsent, Delivering, Aimed,
                NobodyUnauthorised, AckedIsDelivered, OneSender
  <1>6. QED
    BY <1>1, <1>2, <1>3, <1>4, <1>5, ComposerInv, RestInv DEF NotesNext

(* Whoever calls SendDirect, the invariant of Notifications holds. *)
THEOREM NotificationsKeepInvariant == NotesSpec => []IInv
  BY NotesInitInv, NotesStepInv, PTL DEF NotesSpec

(* A sent note never changes: every statement that changes a note looks for *)
(* a draft, and Save and Insert take an unused one.                         *)
LEMMA SentStays ==
    ASSUME IInv, [NotesNext]_notesVars,
           NEW n \in Notes, note[n].status = "sent"
    PROVE  note'[n] = note[n]
  <1>1. ASSUME NEW r \in Requests, Composer(r) PROVE note' = note
    BY <1>1 DEF Composer, Compose, UpdateDraft, SendDraft, DeleteDraft, Begin
  <1>2. ASSUME NEW r \in Requests, NEW m \in Notes, Save(r, m) \/ Insert(r, m)
        PROVE  note'[n] = note[n]
    <2>1. note[m].status = "unused"
      BY <1>2 DEF Save, Insert, NoNote
    <2>2. m # n
      BY <2>1
    <2>3. QED
      BY <1>2, <2>2 DEF Save, Insert, IInv, NotesTypeOK
  <1>3. ASSUME NEW r \in Requests, Update(r) \/ MarkSent(r) \/ Delete(r)
        PROVE  note'[n] = note[n]
    BY <1>3 DEF Update, MarkSent, Delete, StillDraft, Deletable, IInv, NotesTypeOK
  <1>4. ASSUME NEW r \in Requests,
               \/ MarkSentTooLate(r) \/ \E u \in Users : AddRecipient(r, u)
               \/ Delivered(r) \/ Fail(r) \/ Return(r) \/ Stop(r)
               \/ \E to \in SUBSET Users : SendDirect(r, to)
        PROVE  note' = note
    BY <1>4 DEF MarkSentTooLate, AddRecipient, Delivered, Fail, Return, Stop,
                SendDirect, Begin
  <1>5. CASE Appointments \/ Trouble \/ UNCHANGED notesVars
    BY <1>5 DEF Appointments, Reassign, Trouble, notesVars
  <1>6. QED
    BY <1>1, <1>2, <1>3, <1>4, <1>5 DEF NotesNext, Rest

-----------------------------------------------------------------------------
(* Attendance is one of the callers Notifications allows for.               *)

LEMMA RestIsANotesStep ==
    ASSUME NEW r \in Requests, Composer(r) \/ Rest(r) \/ Return(r) \/ Stop(r)
    PROVE  NotesNext
  BY DEF NotesNext

LEMMA SendIsANotesStep ==
    ASSUME NEW r \in Requests, NEW to \in SUBSET Users, SendDirect(r, to)
    PROVE  NotesNext
  BY DEF NotesNext

(* A request works on a register, and notifies about a student. *)
Addressed ==
    \A r \in Requests :
        /\ mark[r].at \in {"load", "write"} => mark[r].register \in Registers
        /\ mark[r].at \in {"notify", "wait"} => mark[r].student \in Students

RollType ==
    /\ register \in [Registers -> [status : {"unused", "open", "deleted"},
                                   class : Classes \cup {None},
                                   day : Days \cup {None}, old : BOOLEAN]]
    /\ record \in [Registers -> [Students -> Status]]
    /\ mark \in [Requests -> Marks]

RollInv == RollType /\ Addressed

LEMMA AwayType ==
    /\ Unmarked \in [Students -> Status]
    /\ Away \in Marks /\ Away.at = "idle"
    /\ NoRegister \in [status : {"unused", "open", "deleted"},
                       class : Classes \cup {None},
                       day : Days \cup {None}, old : BOOLEAN]
  BY DEF Unmarked, Status, Away, Marks, NoRegister

(* The frame with which a marking starts. *)
Loading(x, locked, batch, cleared) ==
    [Away EXCEPT !.at = "load", !.register = x, !.locked = locked,
                 !.batch = batch, !.cleared = cleared]

LEMMA LoadsMarks ==
    ASSUME NEW x \in Registers, NEW locked \in BOOLEAN, NEW batch \in [Students -> Status],
           NEW cleared \in SUBSET Students
    PROVE  /\ Loading(x, locked, batch, cleared) \in Marks
           /\ Loading(x, locked, batch, cleared).at = "load"
           /\ Loading(x, locked, batch, cleared).register = x
           /\ Loading(x, locked, batch, cleared).told = {}
  <1> DEFINE u == [Away EXCEPT !.at = "load", !.register = x]
             v == [u EXCEPT !.locked = locked, !.batch = batch]
             w == [v EXCEPT !.cleared = cleared]
  <1>1. Loading(x, locked, batch, cleared) = w
    BY DEF Loading, Away
  <1>2. u \in Marks /\ u.at = "load" /\ u.register = x /\ u.told = {}
    <2>1. Away \in Marks /\ Away.told = {}
      BY AwayType DEF Away
    <2> QED
      BY <2>1 DEF Marks
  <1> HIDE DEF u
  <1>3. v \in Marks /\ v.at = "load" /\ v.register = x /\ v.told = {}
    BY <1>2 DEF Marks
  <1> HIDE DEF v
  <1>4. w \in Marks /\ w.at = "load" /\ w.register = x /\ w.told = {}
    BY <1>3 DEF Marks
  <1>5. QED
    BY <1>1, <1>4

(* Only the frame of r changes, and to a well-formed one. *)
LEMMA FrameStep ==
    ASSUME RollInv, NEW r \in Requests, NEW m \in Marks,
           m.at \in {"load", "write"} => m.register \in Registers,
           m.at \in {"notify", "wait"} => m.student \in Students,
           mark' = [mark EXCEPT ![r] = m],
           UNCHANGED <<register, record>>
    PROVE  RollInv'
  <1>1. /\ mark' \in [Requests -> Marks] /\ mark'[r] = m
        /\ \A q \in Requests \ {r} : mark'[q] = mark[q]
    BY DEF RollInv, RollType
  <1>2. QED
    BY <1>1 DEF RollInv, RollType, Addressed

LEMMA LeaveStep ==
    ASSUME RollInv, NEW r \in Requests, mark' = [mark EXCEPT ![r] = Away],
           UNCHANGED <<register, record>>
    PROVE  RollInv'
  BY AwayType, FrameStep

LEMMA CrossingType ==
    ASSUME RollInv, NEW r \in Requests, NEW x
    PROVE  /\ Crossing(r, x) \in [Requests -> Marks]
           /\ Crossing(r, x)[r] = mark[r]
           /\ \A q \in Requests : /\ Crossing(r, x)[q].at = mark[q].at
                                  /\ Crossing(r, x)[q].register = mark[q].register
                                  /\ Crossing(r, x)[q].student = mark[q].student
  <1>1. \A m \in Marks : /\ [m EXCEPT !.crossed = TRUE] \in Marks
                        /\ [m EXCEPT !.crossed = TRUE].at = m.at
                        /\ [m EXCEPT !.crossed = TRUE].register = m.register
                        /\ [m EXCEPT !.crossed = TRUE].student = m.student
    BY DEF Marks
  <1>2. QED
    BY <1>1 DEF Crossing, RollInv, RollType

LEMMA RegisterInv ==
    ASSUME RollInv, NEW r \in Requests, Register(r)
    PROVE  RollInv'
  <1> PICK u \in Senders :
        \/ \E c \in Classes, d \in Days : CreateSession(r, u, c, d)
        \/ \E x \in Registers :
               \/ DeleteSession(r, u, x)
               \/ \E batch \in Batches, cleared \in SUBSET Students :
                      MarkAttendance(r, u, x, batch, cleared)
    BY DEF Register
  <1>1. ASSUME NEW c \in Classes, NEW d \in Days, CreateSession(r, u, c, d)
        PROVE  RollInv'
    <2>1. PICK m : /\ m = [Away EXCEPT !.at = "create", !.class = c, !.day = d]
                   /\ Enter(r, m)
      BY <1>1 DEF CreateSession
    <2>2. m \in Marks /\ m.at = "create"
      BY <2>1, AwayType DEF Away, Marks
    <2>3. QED
      BY <2>1, <2>2, FrameStep DEF Enter
  <1>2. ASSUME NEW x \in Registers, DeleteSession(r, u, x)
        PROVE  RollInv'
    <2>1. PICK m : /\ m = [Away EXCEPT !.at = "drop", !.register = x,
                                       !.locked = register[x].old]
                   /\ Enter(r, m)
      BY <1>2 DEF DeleteSession
    <2>2. register[x].old \in BOOLEAN
      BY DEF RollInv, RollType
    <2>3. m \in Marks /\ m.at = "drop"
      BY <2>1, <2>2, AwayType DEF Away, Marks
    <2>4. QED
      BY <2>1, <2>3, FrameStep DEF Enter
  <1>3. ASSUME NEW x \in Registers, NEW batch \in Batches,
               NEW cleared \in SUBSET Students,
               MarkAttendance(r, u, x, batch, cleared)
        PROVE  RollInv'
    <2>1. PICK m : m = Loading(x, register[x].old, batch, cleared) /\ Enter(r, m)
      BY <1>3 DEF MarkAttendance, Loading
    <2>2. register[x].old \in BOOLEAN /\ batch \in [Students -> Status]
      BY DEF RollInv, RollType, Batches
    <2>3. m \in Marks /\ m.at = "load" /\ m.register = x
      BY <2>1, <2>2, LoadsMarks
    <2>4. QED
      BY <2>1, <2>3, FrameStep DEF Enter
  <1>4. QED
    BY <1>1, <1>2, <1>3

LEMMA InsertSessionInv ==
    ASSUME RollInv, NEW r \in Requests, NEW x \in Registers, InsertSession(r, x)
    PROVE  RollInv'
  <1>1. /\ mark[r].class \in Classes \cup {None}
        /\ mark[r].day \in Days \cup {None}
    BY DEF RollInv, RollType, Marks
  <1>2. PICK row : /\ row = [status |-> "open", old |-> FALSE,
                             class |-> mark[r].class, day |-> mark[r].day]
                   /\ register' = [register EXCEPT ![x] = row]
    BY DEF InsertSession
  <1>3. register' \in [Registers -> [status : {"unused", "open", "deleted"},
                                   class : Classes \cup {None},
                                   day : Days \cup {None}, old : BOOLEAN]]
    BY <1>1, <1>2 DEF RollInv, RollType
  <1>4. /\ mark' \in [Requests -> Marks] /\ mark'[r] = Away
        /\ \A q \in Requests \ {r} : mark'[q] = mark[q]
    BY AwayType DEF InsertSession, RollInv, RollType
  <1>5. QED
    BY <1>3, <1>4, AwayType DEF InsertSession, RollInv, RollType, Addressed

LEMMA DropSessionInv ==
    ASSUME RollInv, NEW r \in Requests, DropSession(r)
    PROVE  RollInv'
  <1>1. PICK x : /\ x = mark[r].register
                 /\ register' = [register EXCEPT ![x] = [NoRegister EXCEPT
                                                         !.status = "deleted"]]
                 /\ record' = [record EXCEPT ![x] = Unmarked]
                 /\ mark' = [Crossing(r, x) EXCEPT ![r] = Away]
    BY DEF DropSession
  <1>2. [NoRegister EXCEPT !.status = "deleted"] \in
            [status : {"unused", "open", "deleted"}, class : Classes \cup {None},
             day : Days \cup {None}, old : BOOLEAN]
    BY DEF NoRegister
  <1>3. register' \in [Registers -> [status : {"unused", "open", "deleted"},
                                   class : Classes \cup {None},
                                   day : Days \cup {None}, old : BOOLEAN]]
    BY <1>1, <1>2 DEF RollInv, RollType
  <1>4. record' \in [Registers -> [Students -> Status]]
    BY <1>1, AwayType DEF RollInv, RollType
  <1>5. /\ mark' \in [Requests -> Marks] /\ mark'[r] = Away
        /\ \A q \in Requests \ {r} : mark'[q] = Crossing(r, x)[q]
    BY <1>1, AwayType, CrossingType
  <1>6. Addressed'
    BY <1>5, AwayType, CrossingType DEF RollInv, Addressed
  <1>7. QED
    BY <1>3, <1>4, <1>5, <1>6 DEF RollInv, RollType

LEMMA LoadInv ==
    ASSUME RollInv, NEW r \in Requests, Load(r)
    PROVE  RollInv'
  <1>1. record[mark[r].register] \in [Students -> Status]
    BY DEF Load, RollInv, RollType, Addressed
  <1>2. PICK m : m = [mark[r] EXCEPT !.at = "write",
                                     !.seen = record[mark[r].register]]
    OBVIOUS
  <1>3. m \in Marks /\ m.at = "write" /\ m.register = mark[r].register
    <2>1. mark[r] \in Marks
      BY DEF RollInv, RollType
    <2>2. QED
      BY <1>1, <1>2, <2>1 DEF Marks
  <1>4. mark' = [mark EXCEPT ![r] = m]
    BY <1>2 DEF Load, RollInv, RollType, Marks
  <1>5. m.register \in Registers
    BY <1>3 DEF Load, RollInv, Addressed
  <1>6. QED
    BY <1>3, <1>4, <1>5, FrameStep DEF Load

LEMMA WriteBatchInv ==
    ASSUME RollInv, NEW r \in Requests, WriteBatch(r)
    PROVE  RollInv'
  <1>1. PICK x \in Registers : x = mark[r].register
    BY DEF WriteBatch, RollInv, Addressed
  <1>2. PICK m \in Marks : m = mark[r]
    BY DEF RollInv, RollType
  <1>3. PICK after : after = After(m, record[x])
    OBVIOUS
  <1>4. PICK changed, missing :
           /\ changed = Logs(m, {s \in Students : record[x][s] # after[s]})
           /\ missing = {s \in Students : /\ Guardians[s] # {}
                                          /\ record[x][s] # "absent"
                                          /\ after[s] = "absent"}
    OBVIOUS
  <1>5. after \in [Students -> Status]
    BY <1>1, <1>2, <1>3 DEF After, Marked, Status, RollInv, RollType, Marks
  <1>6. /\ Marked(m) \in SUBSET Students /\ NewlyAbsent(m) \in SUBSET Students
        /\ Cleared(m) \in SUBSET Students
        /\ changed \in SUBSET Students /\ missing \in SUBSET Students
    BY <1>4 DEF Marked, NewlyAbsent, Cleared, Logs, Marks
  <1>7. PICK new : new = [m EXCEPT !.at = "tell", !.todo = Marked(m),
              !.telling = NewlyAbsent(m), !.cleared = Cleared(m),
              !.seen = Unmarked, !.batch = Unmarked,
              !.changed = changed, !.missing = missing]
    OBVIOUS
  <1>8. new \in Marks /\ new.at = "tell"
    BY <1>6, <1>7, AwayType DEF Marks
  <1>9. mark' = [Crossing(r, x) EXCEPT ![r] = new]
    <2>1. mark' = [Crossing(r, x) EXCEPT
              ![r].at = "tell", ![r].todo = Marked(m),
              ![r].telling = NewlyAbsent(m), ![r].cleared = Cleared(m),
              ![r].seen = Unmarked, ![r].batch = Unmarked,
              ![r].changed = changed, ![r].missing = missing]
      BY <1>1, <1>2, <1>3, <1>4 DEF WriteBatch
    <2>2. Crossing(r, x)[r] = m /\ r \in DOMAIN Crossing(r, x)
      BY <1>2, CrossingType
    <2>3. QED
      BY <1>7, <2>1, <2>2
  <1>10. /\ mark' \in [Requests -> Marks] /\ mark'[r] = new
         /\ \A q \in Requests \ {r} : mark'[q] = Crossing(r, x)[q]
    BY <1>8, <1>9, CrossingType
  <1>11. Addressed'
    BY <1>8, <1>10, CrossingType DEF RollInv, Addressed
  <1>12. record' \in [Registers -> [Students -> Status]] /\ register' = register
    BY <1>1, <1>2, <1>3, <1>5 DEF WriteBatch, RollInv, RollType
  <1>13. QED
    BY <1>10, <1>11, <1>12 DEF RollInv, RollType

LEMMA TellInv ==
    ASSUME RollInv, NEW r \in Requests,
           \/ \E s \in Students, failed \in BOOLEAN : HandleEntry(r, s, failed)
           \/ Notify(r) \/ NotifyFails(r) \/ NotifyReturns(r)
           \/ \E failed \in BOOLEAN : LogCleared(r, failed)
    PROVE  RollInv'
  <1>0. mark[r] \in Marks
    BY DEF RollInv, RollType
  <1>1. ASSUME NEW s \in Students, NEW failed \in BOOLEAN, HandleEntry(r, s, failed)
        PROVE  RollInv'
    <2>1. PICK at, logged :
            /\ at = IF s \in mark[r].telling /\ Guardians[s] # {} THEN "notify"
                                                                 ELSE "tell"
            /\ logged = IF failed THEN mark[r].logged
                        ELSE mark[r].logged \cup Logs(mark[r], {s})
      OBVIOUS
    <2>2. PICK m : m = [mark[r] EXCEPT !.todo = mark[r].todo \ {s}, !.student = s,
                                       !.at = at, !.logged = logged]
      OBVIOUS
    <2>3. at \in {"notify", "tell"} /\ logged \in SUBSET Students
      BY <1>0, <2>1 DEF Marks, Logs
    <2>4. m \in Marks /\ m.at = at /\ m.student = s
      BY <1>0, <2>2, <2>3 DEF Marks
    <2>5. mark' = [mark EXCEPT ![r] = m] /\ UNCHANGED <<register, record>>
      BY <1>0, <1>1, <2>1, <2>2 DEF HandleEntry, Marks, RollInv, RollType
    <2>6. QED
      BY <2>3, <2>4, <2>5, FrameStep
  <1>2. CASE Notify(r) \/ NotifyFails(r)
    <2>1. PICK at \in {"wait", "tell"} :
             mark' = [mark EXCEPT ![r].at = at] /\ UNCHANGED <<register, record>>
      BY <1>2 DEF Notify, NotifyFails
    <2>2. PICK m : m = [mark[r] EXCEPT !.at = at]
      OBVIOUS
    <2>3. m \in Marks /\ m.at = at /\ m.student \in Students
      BY <1>0, <1>2, <2>2 DEF Marks, Notify, NotifyFails, RollInv, Addressed
    <2>4. mark' = [mark EXCEPT ![r] = m]
      BY <2>1, <2>2
    <2>5. QED
      BY <2>1, <2>3, <2>4, FrameStep
  <1>3. CASE NotifyReturns(r)
    <2>1. PICK told : told = IF call[r].note \in acked
                             THEN mark[r].told \cup {mark[r].student}
                             ELSE mark[r].told
      OBVIOUS
    <2>2. PICK m : m = [mark[r] EXCEPT !.at = "tell", !.told = told]
      OBVIOUS
    <2>3. mark[r].student \in Students
      BY <1>3 DEF NotifyReturns, RollInv, Addressed
    <2>4. m \in Marks /\ m.at = "tell"
      BY <1>0, <2>1, <2>2, <2>3 DEF Marks
    <2>5. mark' = [mark EXCEPT ![r] = m] /\ UNCHANGED <<register, record>>
      BY <1>0, <1>3, <2>1, <2>2 DEF NotifyReturns, Marks, RollInv, RollType
    <2>6. QED
      BY <2>4, <2>5, FrameStep
  <1>4. ASSUME NEW failed \in BOOLEAN, LogCleared(r, failed) PROVE RollInv'
    <2>1. PICK logged : logged = IF failed THEN mark[r].logged
                        ELSE mark[r].logged \cup Logs(mark[r], mark[r].cleared)
      OBVIOUS
    <2>2. PICK m : m = [mark[r] EXCEPT !.at = "answer", !.logged = logged]
      OBVIOUS
    <2>3. m \in Marks /\ m.at = "answer"
      BY <1>0, <2>1, <2>2 DEF Marks, Logs
    <2>4. mark' = [mark EXCEPT ![r] = m] /\ UNCHANGED <<register, record>>
      BY <1>0, <1>4, <2>1, <2>2 DEF LogCleared, Marks, RollInv, RollType
    <2>5. QED
      BY <2>3, <2>4, FrameStep
  <1>5. QED
    BY <1>1, <1>2, <1>3, <1>4

LEMMA RollInitInv == Init => RollInv
  <1> SUFFICES ASSUME Init PROVE RollInv
    OBVIOUS
  <1>1. RollType
    BY AwayType DEF Init, RollType
  <1>2. Addressed
    BY AwayType DEF Init, Addressed, Away
  <1>3. QED
    BY <1>1, <1>2 DEF RollInv

LEMMA RollStepInv == RollInv /\ [Next]_vars => RollInv'
  <1> SUFFICES ASSUME RollInv, [Next]_vars PROVE RollInv'
    OBVIOUS
  <1>1. ASSUME NEW r \in Requests,
               \/ InsertSessionRefused(r) \/ WriteBatchFails(r)
               \/ Answer(r) \/ Interrupted(r)
        PROVE  RollInv'
    BY <1>1, LeaveStep DEF InsertSessionRefused, WriteBatchFails, Answer, Interrupted
  <1>2. ASSUME NEW r \in Requests, Proceed(r) PROVE RollInv'
    BY <1>1, <1>2, InsertSessionInv, DropSessionInv, LoadInv, WriteBatchInv,
       TellInv DEF Proceed
  <1>3. ASSUME NEW x \in Registers, LockWindowPasses(x) PROVE RollInv'
    BY <1>3 DEF LockWindowPasses, RollInv, RollType, Addressed
  <1>4. CASE UNCHANGED rollVars
    BY <1>4 DEF rollVars, RollInv, RollType, Addressed
  <1>5. CASE UNCHANGED vars
    BY <1>5 DEF vars, RollInv, RollType, Addressed
  <1>6. QED
    BY <1>2, <1>3, <1>4, <1>5, RegisterInv DEF Next

(* Every step of Attendance is one Notifications allows, or none of its. *)
LEMMA CallerStep == RollInv /\ [Next]_vars => [NotesNext]_notesVars
  <1> SUFFICES ASSUME RollInv, [Next]_vars PROVE [NotesNext]_notesVars
    OBVIOUS
  <1>1. ASSUME NEW r \in Requests, Register(r) PROVE UNCHANGED notesVars
    BY <1>1 DEF Register, CreateSession, DeleteSession, MarkAttendance, Enter
  <1>2. ASSUME NEW r \in Requests,
               \/ \E x \in Registers : InsertSession(r, x)
               \/ InsertSessionRefused(r) \/ DropSession(r)
               \/ Load(r) \/ WriteBatch(r) \/ WriteBatchFails(r) \/ Answer(r)
        PROVE  UNCHANGED notesVars
    BY <1>2 DEF InsertSession, InsertSessionRefused, DropSession, Load,
                WriteBatch, WriteBatchFails, Answer
  <1>3. ASSUME NEW r \in Requests,
               \/ \E s \in Students, failed \in BOOLEAN : HandleEntry(r, s, failed)
               \/ \E failed \in BOOLEAN : LogCleared(r, failed)
               \/ NotifyFails(r)
        PROVE  Trouble \/ UNCHANGED notesVars
    BY <1>3 DEF HandleEntry, LogCleared, NotifyFails, Ignored
  <1>4. ASSUME NEW r \in Requests, Notify(r) PROVE NotesNext
    <2>1. PICK to : to = Guardians[mark[r].student]
      OBVIOUS
    <2>2. to \in SUBSET Users /\ SendDirect(r, to)
      BY <1>4, <2>1, GuardiansAssumption DEF Notify, RollInv, Addressed
    <2>3. QED
      BY <2>2, SendIsANotesStep
  <1>5. ASSUME NEW r \in Requests, NotifyReturns(r) \/ Interrupted(r)
        PROVE  NotesNext
    BY <1>5, RestIsANotesStep DEF NotifyReturns, Interrupted
  <1>6. ASSUME NEW r \in Requests, Composer(r) \/ Rest(r) PROVE NotesNext
    BY <1>6, RestIsANotesStep
  <1>7. ASSUME NEW x \in Registers, LockWindowPasses(x) PROVE UNCHANGED notesVars
    BY <1>7 DEF LockWindowPasses
  <1>8. Appointments \/ Trouble => NotesNext
    BY DEF NotesNext
  <1>9. UNCHANGED vars => UNCHANGED notesVars
    BY DEF vars, notesVars
  <1>10. QED
    BY <1>1, <1>2, <1>3, <1>4, <1>5, <1>6, <1>7, <1>8, <1>9 DEF Next, Proceed

(* Attendance, with the composer beside it, implements Notifications: it is *)
(* one of the callers SendDirect was specified for.                         *)
THEOREM AttendanceIsACaller == Spec => NotesSpec
  <1>1. Init => NotesInit
    BY DEF Init
  <1>2. QED
    BY <1>1, RollInitInv, RollStepInv, CallerStep, PTL DEF Spec, NotesSpec

(* The types of Attendance and of Notifications under it. *)
THEOREM TypeCorrect == Spec => []TypeOK
  <1>1. IInv /\ RollInv => TypeOK
    BY DEF IInv, RollInv, RollType, TypeOK
  <1>2. Spec => []RollInv
    BY RollInitInv, RollStepInv, PTL DEF Spec
  <1>3. QED
    BY <1>1, <1>2, AttendanceIsACaller, NotificationsKeepInvariant, PTL

(* No note reaches anyone its sender was not allowed to address. *)
THEOREM OnlyTheChecked == Spec => []NobodyUnauthorised
  <1>1. IInv => NobodyUnauthorised
    BY DEF IInv
  <1>2. QED
    BY <1>1, AttendanceIsACaller, NotificationsKeepInvariant, PTL

(* A note reported as sent has reached everyone it was meant for. *)
THEOREM SentMeansDelivered == Spec => []AckedIsDelivered
  <1>1. IInv => AckedIsDelivered
    BY DEF IInv
  <1>2. QED
    BY <1>1, AttendanceIsACaller, NotificationsKeepInvariant, PTL

(* Two requests never deliver the same note. *)
THEOREM DeliveredOnce == Spec => []OneSender
  <1>1. IInv => OneSender
    BY DEF IInv
  <1>2. QED
    BY <1>1, AttendanceIsACaller, NotificationsKeepInvariant, PTL

(* A sent note is never edited, unsent or deleted. *)
THEOREM SentForGood == Spec => SentIsFinal
  <1>1. IInv /\ [NotesNext]_notesVars =>
           [\A n \in Notes : note[n].status = "sent" => note'[n] = note[n]]_notesVars
    BY SentStays
  <1>2. QED
    BY <1>1, AttendanceIsACaller, NotificationsKeepInvariant, PTL
        DEF SentIsFinal, NotesSpec

(* NoticesConsistent: a notice goes to all those its sender was checked    *)
(* for and to nobody else, from one request.                               *)
THEOREM NoticesStayConsistent == Spec => []NoticesConsistent
  BY OnlyTheChecked, SentMeansDelivered, DeliveredOnce, PTL DEF NoticesConsistent

-----------------------------------------------------------------------------
(* What a request still has to tell, and to audit, follows from its frame.  *)

Due(m) ==
    {s \in m.todo \cap m.telling : Guardians[s] # {}}
        \cup (IF m.at \in {"notify", "wait"} THEN {m.student} ELSE {})

Owed(m) == IF m.at = "answer" THEN {} ELSE Logs(m, m.todo \cup m.cleared)

(* The students it made absent are those it has told or is due to tell, and *)
(* the changes of a locked register are logged or will be.                  *)
Tracks(m) ==
    m.at \in {"tell", "notify", "wait", "answer"} =>
        /\ m.missing = m.told \cup Due(m)
        /\ m.changed \subseteq m.logged \cup Owed(m)
        /\ m.at = "answer" => m.todo = {}

Fresh(m) == m.at \in {"load", "write"} => m.told = {}

AsRead(r) ==
    mark[r].at = "write" /\ ~mark[r].crossed =>
        mark[r].seen = record[mark[r].register]

Faithful ==
    \A r \in Requests :
        /\ AsRead(r)
        /\ Fresh(mark[r])
        /\ faults = 0 /\ ~mark[r].crossed => Tracks(mark[r])

(* SendDirect returns a note that was sent, unless a statement failed. *)
ReturnedAcked ==
    \A r \in Requests :
        faults = 0 /\ call[r].at = "returned" => call[r].note \in acked


LEMMA OnlyOneFrame ==
    ASSUME RollInv, NEW r \in Requests, NEW m \in Marks,
           mark' = [mark EXCEPT ![r] = m]
    PROVE  /\ mark'[r] = m
           /\ \A q \in Requests \ {r} : mark'[q] = mark[q]
  BY DEF RollInv, RollType

(* Only the frame of r changes, and to one that is in order. *)
LEMMA FaithfulFrame ==
    ASSUME RollInv, Faithful, NEW r \in Requests, NEW m \in Marks,
           m.at = "write" /\ ~m.crossed => m.seen = record[m.register],
           Fresh(m),
           faults' = 0 /\ ~m.crossed => Tracks(m),
           faults' = 0 => faults = 0,
           mark' = [mark EXCEPT ![r] = m],
           record' = record
    PROVE  Faithful'
  <1>1. /\ mark'[r] = m
        /\ \A q \in Requests \ {r} : mark'[q] = mark[q]
    BY OnlyOneFrame
  <1>2. AsRead(r)' /\ Fresh(mark'[r]) /\ (faults' = 0 /\ ~mark'[r].crossed => Tracks(mark'[r]))
    BY <1>1 DEF AsRead
  <1>3. ASSUME NEW q \in Requests \ {r}
        PROVE  AsRead(q)' /\ Fresh(mark'[q])
                  /\ (faults' = 0 /\ ~mark'[q].crossed => Tracks(mark'[q]))
    <2>1. AsRead(q) /\ Fresh(mark[q])
                  /\ (faults = 0 /\ ~mark[q].crossed => Tracks(mark[q]))
      BY DEF Faithful
    <2>2. AsRead(q)'
      BY <1>1, <2>1 DEF AsRead
    <2>3. mark'[q] = mark[q]
      BY <1>1
    <2>4. QED
      BY <2>1, <2>2, <2>3
  <1>4. QED
    BY <1>2, <1>3 DEF Faithful

LEMMA QuietFrame ==
    ASSUME NEW m \in Marks, m.at \in {"idle", "create", "drop"}
    PROVE  Fresh(m) /\ Tracks(m) /\ m.at # "write"
  BY DEF Fresh, Tracks

LEMMA FaithfulLeave ==
    ASSUME RollInv, Faithful, NEW r \in Requests,
           mark' = [mark EXCEPT ![r] = Away], record' = record,
           faults' = 0 => faults = 0
    PROVE  Faithful'
  BY AwayType, QuietFrame, FaithfulFrame

(* A request that starts has told nobody and owes nothing. *)
LEMMA FaithfulRegister ==
    ASSUME RollInv, Faithful, NEW r \in Requests, Register(r)
    PROVE  Faithful'
  <1> PICK u \in Senders :
        \/ \E c \in Classes, d \in Days : CreateSession(r, u, c, d)
        \/ \E x \in Registers :
               \/ DeleteSession(r, u, x)
               \/ \E batch \in Batches, cleared \in SUBSET Students :
                      MarkAttendance(r, u, x, batch, cleared)
    BY DEF Register
  <1>1. ASSUME NEW c \in Classes, NEW d \in Days, CreateSession(r, u, c, d)
        PROVE  Faithful'
    <2>1. PICK m : /\ m = [Away EXCEPT !.at = "create", !.class = c, !.day = d]
                   /\ Enter(r, m)
      BY <1>1 DEF CreateSession
    <2>2. m \in Marks /\ m.at = "create"
      BY <2>1, AwayType DEF Away, Marks
    <2>3. mark' = [mark EXCEPT ![r] = m] /\ record' = record /\ faults' = faults
      BY <2>1 DEF Enter, notesVars
    <2>4. QED
      BY <2>2, <2>3, QuietFrame, FaithfulFrame
  <1>2. ASSUME NEW x \in Registers, DeleteSession(r, u, x)
        PROVE  Faithful'
    <2>1. PICK m : /\ m = [Away EXCEPT !.at = "drop", !.register = x,
                                       !.locked = register[x].old]
                   /\ Enter(r, m)
      BY <1>2 DEF DeleteSession
    <2>2. register[x].old \in BOOLEAN
      BY DEF RollInv, RollType
    <2>3. m \in Marks /\ m.at = "drop"
      BY <2>1, <2>2, AwayType DEF Away, Marks
    <2>4. mark' = [mark EXCEPT ![r] = m] /\ record' = record /\ faults' = faults
      BY <2>1 DEF Enter, notesVars
    <2>5. QED
      BY <2>3, <2>4, QuietFrame, FaithfulFrame
  <1>3. ASSUME NEW x \in Registers, NEW batch \in Batches,
               NEW cleared \in SUBSET Students,
               MarkAttendance(r, u, x, batch, cleared)
        PROVE  Faithful'
    <2>1. PICK m : m = Loading(x, register[x].old, batch, cleared) /\ Enter(r, m)
      BY <1>3 DEF MarkAttendance, Loading
    <2>2. register[x].old \in BOOLEAN /\ batch \in [Students -> Status]
      BY DEF RollInv, RollType, Batches
    <2>3. m \in Marks /\ m.at = "load" /\ m.told = {}
      BY <2>1, <2>2, LoadsMarks
    <2>4. Fresh(m) /\ Tracks(m)
      BY <2>3 DEF Fresh, Tracks
    <2>5. mark' = [mark EXCEPT ![r] = m] /\ record' = record /\ faults' = faults
      BY <2>1 DEF Enter, notesVars
    <2>6. QED
      BY <2>3, <2>4, <2>5, FaithfulFrame
  <1>4. QED
    BY <1>1, <1>2, <1>3

LEMMA FaithfulLoad ==
    ASSUME RollInv, Faithful, NEW r \in Requests, Load(r)
    PROVE  Faithful'
  <1>1. record[mark[r].register] \in [Students -> Status]
    BY DEF Load, RollInv, RollType, Addressed
  <1>2. PICK m : m = [mark[r] EXCEPT !.at = "write",
                                     !.seen = record[mark[r].register]]
    OBVIOUS
  <1>3. mark[r] \in Marks
    BY DEF RollInv, RollType
  <1>4. /\ m \in Marks /\ m.at = "write" /\ m.register = mark[r].register
        /\ m.told = mark[r].told /\ m.seen = record[m.register]
    BY <1>1, <1>2, <1>3 DEF Marks
  <1>5. mark' = [mark EXCEPT ![r] = m] /\ record' = record /\ faults' = faults
    BY <1>2 DEF Load, RollInv, RollType, Marks, notesVars
  <1>6. Fresh(m) /\ Tracks(m)
    BY <1>4 DEF Fresh, Tracks, Faithful, Load
  <1>7. QED
    BY <1>4, <1>5, <1>6, FaithfulFrame

(* Whoever read the records that r writes is crossed by it. *)
LEMMA FaithfulCrossing ==
    ASSUME RollInv, Faithful, NEW r \in Requests, NEW x, NEW rows,
           NEW m \in Marks,
           m.at # "write", Fresh(m),
           faults = 0 /\ ~m.crossed => Tracks(m),
           mark' = [Crossing(r, x) EXCEPT ![r] = m],
           record' = [record EXCEPT ![x] = rows],
           faults' = faults
    PROVE  Faithful'
  <1>1. /\ Crossing(r, x) \in [Requests -> Marks]
        /\ mark'[r] = m
        /\ \A q \in Requests \ {r} : mark'[q] = Crossing(r, x)[q]
    BY CrossingType
  <1>2. ASSUME NEW q \in Requests \ {r}
        PROVE  /\ AsRead(q)' /\ Fresh(mark'[q])
               /\ faults' = 0 /\ ~mark'[q].crossed => Tracks(mark'[q])
    <2>0. mark[q] \in Marks /\ mark'[q] = Crossing(r, x)[q]
      BY <1>1 DEF RollInv, RollType
    <2>1. AsRead(q) /\ Fresh(mark[q])
                  /\ (faults = 0 /\ ~mark[q].crossed => Tracks(mark[q]))
      BY DEF Faithful
    <2>2. CASE mark[q].register = x /\ mark[q].at = "write"
      <3>1. mark'[q] = [mark[q] EXCEPT !.crossed = TRUE]
        BY <2>0, <2>2 DEF Crossing
      <3>2. /\ mark'[q].crossed /\ mark'[q].at = mark[q].at
            /\ mark'[q].told = mark[q].told
        BY <2>0, <3>1 DEF Marks
      <3>3. QED
        BY <2>1, <3>2 DEF AsRead, Fresh
    <2>3. CASE ~(mark[q].register = x /\ mark[q].at = "write")
      <3>1. mark'[q] = mark[q]
        BY <2>0, <2>3 DEF Crossing
      <3>2. mark[q].at = "write" => record'[mark[q].register] = record[mark[q].register]
        BY <2>3 DEF RollInv, Addressed, RollType
      <3>3. AsRead(q)'
        BY <2>1, <3>1, <3>2 DEF AsRead
      <3>4. QED
        BY <2>1, <3>1, <3>3
    <2>4. QED
      BY <2>2, <2>3
  <1>3. AsRead(r)' /\ Fresh(mark'[r])
           /\ (faults' = 0 /\ ~mark'[r].crossed => Tracks(mark'[r]))
    BY <1>1 DEF AsRead
  <1>4. QED
    BY <1>2, <1>3 DEF Faithful


(* The students made absent, by what was read, are those the write made     *)
(* absent, and a record it changed was marked or is cleared.                *)
LEMMA WriteTracks ==
    ASSUME NEW m \in Marks, NEW before \in [Students -> Status],
           m.seen = before,
           NEW after, after = After(m, before)
    PROVE  /\ {s \in Students : Guardians[s] # {} /\ before[s] # "absent"
                                /\ after[s] = "absent"}
                  = {s \in Marked(m) \cap NewlyAbsent(m) : Guardians[s] # {}}
           /\ {s \in Students : before[s] # after[s]} \subseteq Marked(m) \cup Cleared(m)
  <1>1. \A s \in Students :
           after[s] = IF s \in Marked(m) THEN m.batch[s]
                      ELSE IF s \in m.cleared THEN "none" ELSE before[s]
    BY DEF After
  <1>2. \A s \in Students : /\ after[s] = "absent" /\ before[s] # "absent"
                                  <=> s \in Marked(m) \cap NewlyAbsent(m)
                            /\ before[s] # after[s] => s \in Marked(m) \cup Cleared(m)
    BY <1>1 DEF NewlyAbsent, Cleared
  <1>3. Marked(m) \subseteq Students
    BY DEF Marked
  <1>4. QED
    BY <1>2, <1>3

LEMMA FaithfulWriteBatch ==
    ASSUME RollInv, Faithful, NEW r \in Requests, WriteBatch(r)
    PROVE  Faithful'
  <1>1. PICK x \in Registers : x = mark[r].register
    BY DEF WriteBatch, RollInv, Addressed
  <1>2. PICK m \in Marks : m = mark[r]
    BY DEF RollInv, RollType
  <1>3. PICK before \in [Students -> Status] : before = record[x]
    BY DEF RollInv, RollType
  <1>4. PICK after : after = After(m, before)
    OBVIOUS
  <1>5. PICK changed, missing :
           /\ changed = Logs(m, {s \in Students : before[s] # after[s]})
           /\ missing = {s \in Students : /\ Guardians[s] # {}
                                          /\ before[s] # "absent"
                                          /\ after[s] = "absent"}
    OBVIOUS
  <1>6. /\ Marked(m) \in SUBSET Students /\ NewlyAbsent(m) \in SUBSET Students
        /\ Cleared(m) \in SUBSET Students
        /\ changed \in SUBSET Students /\ missing \in SUBSET Students
    BY <1>5 DEF Marked, NewlyAbsent, Cleared, Logs, Marks
  <1>7. PICK new : new = [m EXCEPT !.at = "tell", !.todo = Marked(m),
              !.telling = NewlyAbsent(m), !.cleared = Cleared(m),
              !.seen = Unmarked, !.batch = Unmarked,
              !.changed = changed, !.missing = missing]
    OBVIOUS
  <1>8. /\ new \in Marks /\ new.at = "tell" /\ new.todo = Marked(m)
        /\ new.telling = NewlyAbsent(m) /\ new.cleared = Cleared(m)
        /\ new.changed = changed /\ new.missing = missing
        /\ new.told = m.told /\ new.logged = m.logged
        /\ new.locked = m.locked /\ new.crossed = m.crossed
    BY <1>6, <1>7, AwayType DEF Marks
  <1>9. mark' = [Crossing(r, x) EXCEPT ![r] = new]
    <2>1. mark' = [Crossing(r, x) EXCEPT
              ![r].at = "tell", ![r].todo = Marked(m),
              ![r].telling = NewlyAbsent(m), ![r].cleared = Cleared(m),
              ![r].seen = Unmarked, ![r].batch = Unmarked,
              ![r].changed = changed, ![r].missing = missing]
      BY <1>1, <1>2, <1>3, <1>4, <1>5 DEF WriteBatch
    <2>2. Crossing(r, x)[r] = m /\ r \in DOMAIN Crossing(r, x)
      BY <1>2, CrossingType
    <2>3. QED
      BY <1>7, <2>1, <2>2
  <1>10. record' = [record EXCEPT ![x] = after] /\ faults' = faults
    BY <1>1, <1>2, <1>3, <1>4 DEF WriteBatch, notesVars
  <1>11. m.at = "write" /\ m.told = {} /\ (~m.crossed => m.seen = before)
    BY <1>1, <1>2, <1>3 DEF WriteBatch, Faithful, Fresh, AsRead
  <1>12. ASSUME ~new.crossed PROVE Tracks(new)
    <2>1. m.seen = before
      BY <1>8, <1>11, <1>12
    <2>2. missing = {s \in Marked(m) \cap NewlyAbsent(m) : Guardians[s] # {}}
      BY <1>4, <1>5, <2>1, WriteTracks
    <2>3. new.missing = new.told \cup Due(new)
      BY <1>8, <1>11, <2>2 DEF Due
    <2>4. {s \in Students : before[s] # after[s]} \subseteq Marked(m) \cup Cleared(m)
      BY <1>4, <2>1, WriteTracks
    <2>5. changed \subseteq Owed(new)
      BY <1>5, <1>8, <2>4 DEF Owed, Logs
    <2>6. QED
      BY <1>8, <2>3, <2>5 DEF Tracks
  <1>13. Fresh(new)
    BY <1>8 DEF Fresh
  <1>14. QED
    BY <1>8, <1>9, <1>10, <1>12, <1>13, FaithfulCrossing

LEMMA FaithfulDrop ==
    ASSUME RollInv, Faithful, NEW r \in Requests, DropSession(r)
    PROVE  Faithful'
  <1>1. PICK x : x = mark[r].register
    OBVIOUS
  <1>2. /\ record' = [record EXCEPT ![x] = Unmarked]
        /\ mark' = [Crossing(r, x) EXCEPT ![r] = Away]
        /\ faults' = faults
    BY <1>1 DEF DropSession, notesVars
  <1>3. QED
    BY <1>2, AwayType, QuietFrame, FaithfulCrossing

LEMMA CalmBefore ==
    ASSUME faults \in Nat, Trouble \/ UNCHANGED notesVars, faults' = 0
    PROVE  faults = 0 /\ UNCHANGED notesVars
  BY DEF Trouble, notesVars

LEMMA FaithfulEntry ==
    ASSUME RollInv, Faithful, faults \in Nat, NEW r \in Requests,
           NEW s \in Students, NEW failed \in BOOLEAN, HandleEntry(r, s, failed)
    PROVE  Faithful'
  <1>0. PICK old \in Marks : old = mark[r]
    BY DEF RollInv, RollType
  <1>1. PICK at, logged :
          /\ at = IF s \in old.telling /\ Guardians[s] # {} THEN "notify" ELSE "tell"
          /\ logged = IF failed THEN old.logged ELSE old.logged \cup Logs(old, {s})
    OBVIOUS
  <1>2. PICK m : m = [old EXCEPT !.todo = old.todo \ {s}, !.student = s,
                                 !.at = at, !.logged = logged]
    OBVIOUS
  <1>3. at \in {"notify", "tell"} /\ logged \in SUBSET Students
    BY <1>1 DEF Marks, Logs
  <1>4. /\ m \in Marks /\ m.at = at /\ m.student = s /\ m.todo = old.todo \ {s}
        /\ m.logged = logged /\ m.telling = old.telling /\ m.told = old.told
        /\ m.cleared = old.cleared /\ m.locked = old.locked
        /\ m.missing = old.missing /\ m.changed = old.changed
        /\ m.crossed = old.crossed
    BY <1>2, <1>3 DEF Marks
  <1>5. mark' = [mark EXCEPT ![r] = m] /\ record' = record
    BY <1>0, <1>1, <1>2 DEF HandleEntry, Marks, RollInv, RollType
  <1>6. old.at = "tell" /\ s \in old.todo /\ Ignored(failed)
    BY <1>0 DEF HandleEntry
  <1>7. faults' = 0 => faults = 0 /\ ~failed
    BY <1>6, CalmBefore DEF Ignored, Trouble
  <1>8. ASSUME faults' = 0, ~m.crossed PROVE Tracks(m)
    <2>1. /\ old.missing = old.told \cup Due(old)
          /\ old.changed \subseteq old.logged \cup Logs(old, old.todo \cup old.cleared)
      BY <1>0, <1>4, <1>6, <1>7, <1>8 DEF Faithful, Tracks, Owed
    <2>2. Due(m) = Due(old)
      BY <1>1, <1>4, <1>6 DEF Due
    <2>3. m.missing = m.told \cup Due(m)
      BY <1>4, <2>1, <2>2
    <2>4. m.logged = old.logged \cup Logs(old, {s})
      BY <1>1, <1>4, <1>7, <1>8
    <2>5. m.changed \subseteq m.logged \cup Owed(m)
      BY <1>3, <1>4, <2>1, <2>4 DEF Owed, Logs
    <2>6. QED
      BY <1>3, <1>4, <2>3, <2>5 DEF Tracks
  <1>9. Fresh(m) /\ m.at # "write"
    BY <1>3, <1>4 DEF Fresh
  <1>10. QED
    BY <1>4, <1>5, <1>7, <1>8, <1>9, FaithfulFrame

LEMMA FaithfulNotify ==
    ASSUME RollInv, Faithful, faults \in Nat, NEW r \in Requests,
           Notify(r) \/ NotifyFails(r)
    PROVE  Faithful'
  <1>0. PICK old \in Marks : old = mark[r]
    BY DEF RollInv, RollType
  <1>1. PICK at \in {"wait", "tell"} :
           /\ mark' = [mark EXCEPT ![r].at = at] /\ record' = record
           /\ at = "wait" => faults' = faults
           /\ at = "tell" => faults' = faults + 1
    BY DEF Notify, NotifyFails, Trouble, SendDirect, Begin
  <1>2. PICK m : m = [old EXCEPT !.at = at]
    OBVIOUS
  <1>3. /\ m \in Marks /\ m.at = at
        /\ m.todo = old.todo /\ m.telling = old.telling /\ m.student = old.student
        /\ m.missing = old.missing /\ m.told = old.told
        /\ m.changed = old.changed /\ m.logged = old.logged
        /\ m.cleared = old.cleared /\ m.locked = old.locked
        /\ m.crossed = old.crossed
    BY <1>2 DEF Marks
  <1>4. mark' = [mark EXCEPT ![r] = m]
    BY <1>0, <1>1, <1>2
  <1>5. faults' = 0 => faults = 0 /\ at = "wait"
    BY <1>1
  <1>6. old.at = "notify"
    BY <1>0 DEF Notify, NotifyFails
  <1>7. ASSUME faults' = 0, ~m.crossed PROVE Tracks(m)
    <2>1. Tracks(old)
      BY <1>0, <1>3, <1>5, <1>7 DEF Faithful
    <2>2. Due(m) = Due(old) /\ Owed(m) = Owed(old)
      BY <1>3, <1>5, <1>6, <1>7 DEF Due, Owed, Logs
    <2>3. QED
      BY <1>3, <1>5, <1>6, <1>7, <2>1, <2>2 DEF Tracks
  <1>8. Fresh(m) /\ m.at # "write"
    BY <1>3 DEF Fresh
  <1>9. QED
    BY <1>1, <1>3, <1>4, <1>5, <1>7, <1>8, FaithfulFrame

LEMMA FaithfulReturn ==
    ASSUME RollInv, Faithful, ReturnedAcked, NEW r \in Requests, NotifyReturns(r)
    PROVE  Faithful'
  <1>0. PICK old \in Marks : old = mark[r]
    BY DEF RollInv, RollType
  <1>1. PICK told : told = IF call[r].note \in acked THEN old.told \cup {old.student}
                                                     ELSE old.told
    OBVIOUS
  <1>2. PICK m : m = [old EXCEPT !.at = "tell", !.told = told]
    OBVIOUS
  <1>3. old.student \in Students /\ old.at = "wait"
    BY <1>0 DEF NotifyReturns, RollInv, Addressed
  <1>4. /\ m \in Marks /\ m.at = "tell" /\ m.told = told
        /\ m.todo = old.todo /\ m.telling = old.telling
        /\ m.missing = old.missing
        /\ m.changed = old.changed /\ m.logged = old.logged
        /\ m.cleared = old.cleared /\ m.locked = old.locked
        /\ m.crossed = old.crossed
    BY <1>1, <1>2, <1>3 DEF Marks
  <1>5. /\ mark' = [mark EXCEPT ![r] = m] /\ record' = record /\ faults' = faults
        /\ call[r].at = "returned"
    BY <1>0, <1>1, <1>2 DEF NotifyReturns, Return, RollInv, RollType, Marks
  <1>6. ASSUME faults = 0, ~m.crossed PROVE Tracks(m)
    <2>1. Tracks(old)
      BY <1>0, <1>4, <1>6 DEF Faithful
    <2>2. told = old.told \cup {old.student}
      BY <1>1, <1>5, <1>6 DEF ReturnedAcked
    <2>3. m.missing = m.told \cup Due(m)
      BY <1>3, <1>4, <2>1, <2>2 DEF Tracks, Due
    <2>4. m.changed \subseteq m.logged \cup Owed(m)
      BY <1>3, <1>4, <2>1 DEF Tracks, Owed, Logs
    <2>5. QED
      BY <1>4, <2>3, <2>4 DEF Tracks
  <1>7. Fresh(m)
    BY <1>4 DEF Fresh
  <1>8. QED
    BY <1>4, <1>5, <1>6, <1>7, FaithfulFrame

LEMMA FaithfulLogCleared ==
    ASSUME RollInv, Faithful, faults \in Nat, NEW r \in Requests,
           NEW failed \in BOOLEAN, LogCleared(r, failed)
    PROVE  Faithful'
  <1>0. PICK old \in Marks : old = mark[r]
    BY DEF RollInv, RollType
  <1>1. PICK logged : logged = IF failed THEN old.logged
                               ELSE old.logged \cup Logs(old, old.cleared)
    OBVIOUS
  <1>2. PICK m : m = [old EXCEPT !.at = "answer", !.logged = logged]
    OBVIOUS
  <1>3. /\ m \in Marks /\ m.at = "answer" /\ m.logged = logged
        /\ m.todo = old.todo /\ m.telling = old.telling
        /\ m.missing = old.missing /\ m.told = old.told
        /\ m.changed = old.changed /\ m.crossed = old.crossed
    BY <1>1, <1>2 DEF Marks, Logs
  <1>4. mark' = [mark EXCEPT ![r] = m] /\ record' = record
    BY <1>0, <1>1, <1>2 DEF LogCleared, Marks, RollInv, RollType
  <1>5. old.at = "tell" /\ old.todo = {} /\ Ignored(failed)
    BY <1>0 DEF LogCleared
  <1>6. faults' = 0 => faults = 0 /\ ~failed
    BY <1>5, CalmBefore DEF Ignored, Trouble
  <1>7. ASSUME faults' = 0, ~m.crossed PROVE Tracks(m)
    <2>1. Tracks(old)
      BY <1>0, <1>3, <1>6, <1>7 DEF Faithful
    <2>2. logged = old.logged \cup Logs(old, old.cleared)
      BY <1>1, <1>6, <1>7
    <2>3. m.missing = m.told \cup Due(m)
      BY <1>3, <1>5, <2>1 DEF Tracks, Due
    <2>4. m.changed \subseteq m.logged \cup Owed(m)
      BY <1>3, <1>5, <2>1, <2>2 DEF Tracks, Owed, Logs
    <2>5. QED
      BY <1>3, <1>5, <2>3, <2>4 DEF Tracks
  <1>8. Fresh(m)
    BY <1>3 DEF Fresh
  <1>9. QED
    BY <1>3, <1>4, <1>6, <1>7, <1>8, FaithfulFrame

(* A failure is never forgotten. *)
LEMMA FaultsStay ==
    ASSUME faults \in Nat, [NotesNext]_notesVars, faults' = 0
    PROVE  faults = 0
  <1>1. CASE UNCHANGED notesVars
    BY <1>1 DEF notesVars
  <1>2. CASE Appointments \/ Trouble
    BY <1>2 DEF Appointments, Reassign, Trouble
  <1>3. ASSUME NEW r \in Requests, Composer(r) PROVE faults' = faults
    BY <1>3 DEF Composer, Compose, UpdateDraft, SendDraft, DeleteDraft, Begin
  <1>4. ASSUME NEW r \in Requests, Rest(r) \/ Return(r) \/ Stop(r)
        PROVE  faults' = faults \/ faults' = faults + 1
    <2>1. (\E n \in Notes : Save(r, n) \/ Insert(r, n)) \/ Update(r) => faults' = faults
      BY DEF Save, Insert, Update
    <2>2. MarkSent(r) \/ MarkSentTooLate(r) \/ Delete(r) => faults' = faults
      BY DEF MarkSent, MarkSentTooLate, Delete
    <2>3. (\E u \in Users : AddRecipient(r, u)) \/ Delivered(r) \/ Return(r)
             => faults' = faults
      BY DEF AddRecipient, Delivered, Return
    <2>4. Fail(r) \/ Stop(r) => faults' = faults + 1
      BY DEF Fail, Stop
    <2>5. QED
      BY <1>4, <2>1, <2>2, <2>3, <2>4 DEF Rest
  <1>5. ASSUME NEW r \in Requests, NEW to \in SUBSET Users, SendDirect(r, to)
        PROVE  faults' = faults
    BY <1>5 DEF SendDirect, Begin
  <1>6. QED
    BY <1>1, <1>2, <1>3, <1>4, <1>5 DEF NotesNext

LEMMA ReturnedInv ==
    ASSUME NotesTypeOK, ReturnedAcked, [NotesNext]_notesVars
    PROVE  ReturnedAcked'
  <1>0. faults \in Nat /\ call \in [Requests -> Calls] /\ acked \subseteq Notes
    BY FaultsAssumption DEF NotesTypeOK
  <1>1. SUFFICES ASSUME NEW q \in Requests, faults' = 0, call'[q].at = "returned"
                 PROVE  call'[q].note \in acked'
    BY DEF ReturnedAcked
  <1>2. faults = 0
    BY <1>0, <1>1, FaultsStay
  <1>3. call[q].at = "returned" => call[q].note \in acked
    BY <1>2 DEF ReturnedAcked
  <1>4. ASSUME acked' = acked, call'[q] = call[q] PROVE call'[q].note \in acked'
    BY <1>1, <1>3, <1>4
  <1>5. CASE UNCHANGED notesVars \/ Appointments \/ Trouble
    BY <1>4, <1>5 DEF notesVars, Appointments, Reassign, Trouble
  <1>6. ASSUME NEW r \in Requests, NEW c, call' = [call EXCEPT ![r] = c],
               c.at # "returned", acked' = acked
        PROVE  call'[q].note \in acked'
    BY <1>0, <1>1, <1>4, <1>6
  <1>7. Idle.at = "idle"
    BY DEF Idle
  <1>8. ASSUME NEW r \in Requests, Composer(r) \/ \E to \in SUBSET Users : SendDirect(r, to)
        PROVE  call'[q].note \in acked'
    <2>1. PICK c : /\ c.at \in {"save", "insert", "update", "mark", "delete"}
                   /\ Begin(r, c)
      <3>1. ASSUME NEW u, NEW rules, NEW draft \in BOOLEAN, Compose(r, u, rules, draft)
            PROVE  \E c : c.at \in {"save", "insert"} /\ Begin(r, c)
        <4>1. PICK at, to : /\ at = IF draft THEN "save" ELSE "insert"
                            /\ to = IF draft THEN {} ELSE Resolve(rules)
          OBVIOUS
        <4>2. PICK c : c = [Idle EXCEPT !.at = at, !.by = u, !.rules = rules, !.to = to]
          OBVIOUS
        <4>3. Begin(r, c)
          BY <3>1, <4>1, <4>2 DEF Compose
        <4>4. c.at = at /\ at \in {"save", "insert"}
          BY <4>1, <4>2 DEF Idle
        <4>5. QED
          BY <4>3, <4>4
      <3>2. \A u, n, rules : UpdateDraft(r, u, n, rules) =>
               \E c : c.at = "update" /\ Begin(r, c)
        BY DEF UpdateDraft, Idle
      <3>3. \A u, n : SendDraft(r, u, n) => \E c : c.at = "mark" /\ Begin(r, c)
        BY DEF SendDraft, Idle
      <3>4. \A u, n : DeleteDraft(r, u, n) => \E c : c.at = "delete" /\ Begin(r, c)
        BY DEF DeleteDraft, Idle
      <3>5. \A to : SendDirect(r, to) => \E c : c.at = "insert" /\ Begin(r, c)
        BY DEF SendDirect, Idle
      <3>6. QED
        BY <1>8, <3>1, <3>2, <3>3, <3>4, <3>5 DEF Composer
    <2>2. QED
      BY <1>6, <2>1 DEF Begin
  <1>9. ASSUME NEW r \in Requests, NEW n \in Notes, Save(r, n) \/ Insert(r, n)
        PROVE  call'[q].note \in acked'
    <2>1. PICK c : c.at \in {"idle", "deliver"} /\ call' = [call EXCEPT ![r] = c]
      <3>1. Save(r, n) => \E c : c.at = "idle" /\ call' = [call EXCEPT ![r] = c]
        BY <1>7 DEF Save
      <3>2. Insert(r, n) => \E c : c.at = "deliver" /\ call' = [call EXCEPT ![r] = c]
        BY DEF Insert, Idle
      <3>3. QED
        BY <1>9, <3>1, <3>2
    <2>2. QED
      BY <1>6, <1>9, <2>1 DEF Save, Insert
  <1>10. ASSUME NEW r \in Requests,
                Update(r) \/ MarkSentTooLate(r) \/ Delete(r) \/ Return(r) \/ Stop(r)
        PROVE  call'[q].note \in acked'
    BY <1>6, <1>7, <1>10 DEF Update, MarkSentTooLate, Delete, Return, Stop
  <1>11. ASSUME NEW r \in Requests, MarkSent(r) \/ \E u \in Users : AddRecipient(r, u)
        PROVE  call'[q].note \in acked'
    <2>1. call[r].at # "returned" /\ call[r] \in Calls
      BY <1>0, <1>11 DEF MarkSent, AddRecipient
    <2>2. call'[r].at # "returned"
      <3>1. CASE MarkSent(r)
        <4>1. PICK c : c = [call[r] EXCEPT !.at = "deliver", !.to = Recipients(r)]
          OBVIOUS
        <4>2. c.at = "deliver"
          BY <2>1, <4>1 DEF Calls
        <4>3. call'[r] = c
          BY <1>0, <3>1, <4>1 DEF MarkSent, Calls
        <4>4. QED
          BY <4>2, <4>3
      <3>2. ASSUME NEW u \in Users, AddRecipient(r, u) PROVE call'[r].at # "returned"
        <4>1. PICK c : c = [call[r] EXCEPT !.to = call[r].to \ {u}]
          OBVIOUS
        <4>2. c.at = call[r].at
          BY <2>1, <4>1 DEF Calls
        <4>3. call'[r] = c
          BY <1>0, <3>2, <4>1 DEF AddRecipient, Calls
        <4>4. QED
          BY <2>1, <4>2, <4>3
      <3>3. QED
        BY <1>11, <3>1, <3>2
    <2>3. acked' = acked /\ \A p \in Requests \ {r} : call'[p] = call[p]
      BY <1>0, <1>11 DEF MarkSent, AddRecipient
    <2>4. QED
      BY <1>1, <1>4, <2>2, <2>3
  <1>12. ASSUME NEW r \in Requests, Delivered(r) PROVE call'[q].note \in acked'
    <2>1. CASE q # r
      BY <1>0, <1>1, <1>3, <1>12, <2>1 DEF Delivered
    <2>2. CASE q = r
      <3>1. PICK c : c = [Idle EXCEPT !.at = "returned", !.note = call[r].note]
        OBVIOUS
      <3>2. c.note = call[r].note
        BY <3>1 DEF Idle
      <3>3. call'[r] = c
        BY <1>0, <1>1, <1>7, <1>12, <2>2, <3>1 DEF Delivered
      <3>4. QED
        BY <1>12, <2>2, <3>2, <3>3 DEF Delivered
    <2>3. QED
      BY <2>1, <2>2
  <1>13. ASSUME NEW r \in Requests, Fail(r) PROVE FALSE
    BY <1>0, <1>1, <1>2, <1>13 DEF Fail
  <1>14. QED
    BY <1>5, <1>8, <1>9, <1>10, <1>11, <1>12, <1>13 DEF NotesNext, Rest

(* A register takes its records with it, and a batch that comes later finds *)
(* nothing to write to.                                                     *)
LEMMA OrphanStep ==
    ASSUME RollInv, NoOrphanMarks, [Next]_vars
    PROVE  NoOrphanMarks'
  <1>0. /\ \A x \in Registers : register[x] \in
                [status : {"unused", "open", "deleted"}, class : Classes \cup {None},
                 day : Days \cup {None}, old : BOOLEAN]
        /\ record \in [Registers -> [Students -> Status]]
    BY DEF RollInv, RollType
  <1>1. CASE UNCHANGED <<register, record>>
    BY <1>1 DEF NoOrphanMarks, Live
  <1>2. ASSUME NEW r \in Requests, NEW x \in Registers, InsertSession(r, x)
        PROVE  NoOrphanMarks'
    <2>1. PICK row : row.status = "open" /\ register' = [register EXCEPT ![x] = row]
      BY <1>2 DEF InsertSession
    <2>2. QED
      BY <1>2, <2>1 DEF InsertSession, NoOrphanMarks, Live, RollInv, RollType
  <1>3. ASSUME NEW r \in Requests, DropSession(r) PROVE NoOrphanMarks'
    BY <1>3 DEF DropSession, NoOrphanMarks, Live, RollInv, RollType
  <1>4. ASSUME NEW r \in Requests, WriteBatch(r) PROVE NoOrphanMarks'
    <2>1. PICK x \in Registers : x = mark[r].register
      BY <1>4 DEF WriteBatch, RollInv, Addressed
    <2>2. PICK m : m = mark[r]
      OBVIOUS
    <2>3. /\ Live(x) \/ Marked(m) = {}
          /\ record' = [record EXCEPT ![x] = After(m, record[x])]
          /\ register' = register
      BY <1>4, <2>1, <2>2 DEF WriteBatch, HasRegister
    <2>4. Marked(m) = {} /\ record[x] = Unmarked => After(m, record[x]) = Unmarked
      BY DEF After, Unmarked
    <2>5. QED
      BY <1>0, <2>1, <2>3, <2>4 DEF NoOrphanMarks, Live
  <1>5. ASSUME NEW x \in Registers, LockWindowPasses(x) PROVE NoOrphanMarks'
    BY <1>0, <1>5 DEF LockWindowPasses, NoOrphanMarks, Live, RollInv, RollType
  <1>6. ASSUME NEW r \in Requests, Register(r) PROVE UNCHANGED <<register, record>>
    BY <1>6 DEF Register, CreateSession, DeleteSession, MarkAttendance, Enter
  <1>7. ASSUME NEW r \in Requests, Proceed(r),
               ~\E x \in Registers : InsertSession(r, x),
               ~DropSession(r), ~WriteBatch(r)
        PROVE  UNCHANGED <<register, record>>
    BY <1>7 DEF Proceed, InsertSessionRefused, Load, WriteBatchFails, HandleEntry,
                Notify, NotifyFails, NotifyReturns, LogCleared, Answer, Interrupted
  <1>8. QED
    BY <1>1, <1>2, <1>3, <1>4, <1>5, <1>6, <1>7 DEF Next, rollVars, vars

LEMMA FaithfulStep ==
    ASSUME RollInv, NotesTypeOK, ReturnedAcked, Faithful, [Next]_vars
    PROVE  Faithful'
  <1>0. faults \in Nat /\ (faults' = 0 => faults = 0)
    <2>1. faults \in Nat
      BY FaultsAssumption DEF NotesTypeOK
    <2>2. QED
      BY <2>1, CallerStep, FaultsStay
  <1>1. CASE mark' = mark /\ record' = record
    BY <1>0, <1>1 DEF Faithful, AsRead
  <1>2. ASSUME NEW r \in Requests, NEW x \in Registers, InsertSession(r, x)
        PROVE  Faithful'
    BY <1>0, <1>2, FaithfulLeave DEF InsertSession
  <1>3. ASSUME NEW r \in Requests,
               \/ InsertSessionRefused(r) \/ WriteBatchFails(r)
               \/ Answer(r) \/ Interrupted(r)
        PROVE  Faithful'
    BY <1>0, <1>3, FaithfulLeave DEF InsertSessionRefused, WriteBatchFails,
                                     Answer, Interrupted
  <1>4. ASSUME NEW r \in Requests, Proceed(r) PROVE Faithful'
    BY <1>0, <1>2, <1>3, <1>4, FaithfulDrop, FaithfulLoad, FaithfulWriteBatch,
       FaithfulEntry, FaithfulNotify, FaithfulReturn, FaithfulLogCleared DEF Proceed
  <1>5. ASSUME NEW x \in Registers, LockWindowPasses(x)
        PROVE  mark' = mark /\ record' = record
    BY <1>5 DEF LockWindowPasses
  <1>6. UNCHANGED rollVars \/ UNCHANGED vars => mark' = mark /\ record' = record
    BY DEF rollVars, vars
  <1>7. QED
    BY <1>1, <1>4, <1>5, <1>6, FaithfulRegister DEF Next

LEMMA RollInitFaithful == Init => Faithful /\ ReturnedAcked /\ NoOrphanMarks
  <1>1. Init => Faithful
    <2>1. Away \in Marks /\ Away.at = "idle" /\ Fresh(Away) /\ Tracks(Away)
      BY AwayType, QuietFrame
    <2>2. QED
      BY <2>1 DEF Init, Faithful, AsRead
  <1>2. Init => ReturnedAcked
    BY DEF Init, NotesInit, ReturnedAcked, Idle
  <1>3. Init => NoOrphanMarks
    BY DEF Init, NoOrphanMarks
  <1>4. QED
    BY <1>1, <1>2, <1>3

(* The frames of all requests stay in order under every step. *)
THEOREM RegistersKeepTrack == Spec => [](RollInv /\ Faithful /\ NoOrphanMarks)
  <1>1. Spec => []RollInv
    BY RollInitInv, RollStepInv, PTL DEF Spec
  <1>2. Spec => []NotesTypeOK
    <2>1. IInv => NotesTypeOK
      BY DEF IInv
    <2>2. QED
      BY <2>1, AttendanceIsACaller, NotificationsKeepInvariant, PTL
  <1>3. RollInv /\ NotesTypeOK /\ ReturnedAcked /\ [Next]_vars => ReturnedAcked'
    BY CallerStep, ReturnedInv
  <1>4. RollInv /\ NotesTypeOK /\ ReturnedAcked /\ Faithful /\ [Next]_vars => Faithful'
    BY FaithfulStep
  <1>5. RollInv /\ NoOrphanMarks /\ [Next]_vars => NoOrphanMarks'
    BY OrphanStep
  <1>6. QED
    BY <1>1, <1>2, <1>3, <1>4, <1>5, RollInitFaithful, PTL DEF Spec

(* AbsencesTold: the guardians of exactly the students a request made       *)
(* absent have been notified when it answers.                               *)
THEOREM GuardiansAreTold == Spec => []AbsencesTold
  <1>1. Faithful => AbsencesTold
    BY DEF Faithful, AbsencesTold, Undisturbed, Tracks, Due
  <1>2. QED
    BY <1>1, RegistersKeepTrack, PTL

(* RegistersConsistent: no record outlives its register, and what a request *)
(* changed in a locked register is audited when it answers.                 *)
THEOREM RegistersStayConsistent == Spec => []RegistersConsistent
  <1>1. Faithful => LockedChangesLogged
    BY DEF Faithful, LockedChangesLogged, Undisturbed, Tracks, Owed
  <1>2. QED
    BY <1>1, RegistersKeepTrack, TypeCorrect, PTL DEF RegistersConsistent

=============================================================================
