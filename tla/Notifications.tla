--------------------------- MODULE Notifications ---------------------------
(***************************************************************************)
(* The notification composer (notifications/service.go): a teacher or an   *)
(* administrator saves a draft or sends at once; a draft is edited, sent   *)
(* or deleted; other modules send directly.  Requests overlap: a draft is  *)
(* read and checked by the service, then changed by one statement whose    *)
(* WHERE clause has the last word, and the recipients of a sent note are   *)
(* added one by one, with no transaction around them.                      *)
(*                                                                         *)
(* A recipient rule is an element of Audiences and stands for the users it *)
(* resolves to; what a teacher may address (classes, grades, subjects)     *)
(* follows assignments that change at any time.  Title, message, category, *)
(* priority and the recipients' read and archived marks are left out.      *)
(***************************************************************************)
EXTENDS Naturals

CONSTANTS
    Users,      \* everyone with an account
    Admins,     \* the users with role admin; a principal has the same reach
    Teachers,   \* the users with role teacher
    Audiences,  \* recipient rules
    Members,    \* Members[a]: the users rule a resolves to
    Notes,      \* notifications that can be created (a bound)
    Duties,     \* what the assignments of a teacher can come to (a bound)
    RuleSets,   \* the rule sets of a request, none empty
    Requests,   \* requests in progress at the same time (a bound)
    MaxFaults,  \* failed statements and stops (a bound)
    None        \* no user, no note

ASSUME PeopleAssumption == Admins \subseteq Users /\ Teachers \subseteq Users
ASSUME MembersAssumption == Members \in [Audiences -> SUBSET Users]
ASSUME RulesAssumption == RuleSets \subseteq (SUBSET Audiences) \ {{}}
ASSUME DutiesAssumption == {} \in Duties /\ Duties \subseteq SUBSET Audiences
ASSUME NoneAssumption == None \notin Users \cup Notes
ASSUME FaultsAssumption == MaxFaults \in Nat

VARIABLES
    note,    \* the notifications rows: status, recipient_rules, created_by
    box,     \* box[n]: the users with a notification_recipients row of n
    reach,   \* reach[u]: the rules teacher u may address now
    call,    \* what each request is doing in this module
    granted, \* history: the users the sending request was allowed to address
    acked,   \* history: notes whose sender was told that they were sent
    faults   \* failures so far

notesVars == <<note, box, reach, call, granted, acked, faults>>

NoNote == [status |-> "unused", rules |-> {}, author |-> None]
Idle == [at |-> "idle", by |-> None, note |-> None, rules |-> {}, to |-> {},
         direct |-> FALSE]
Calls == [at : {"idle", "save", "insert", "update", "mark", "delete",
                "deliver", "returned"},
          by : Users \cup {None}, note : Notes \cup {None},
          rules : SUBSET Audiences, to : SUBSET Users, direct : BOOLEAN]

NotesTypeOK ==
    /\ note \in [Notes -> [status : {"unused", "draft", "sent", "deleted"},
                           rules : SUBSET Audiences,
                           author : Users \cup {None}]]
    /\ box \in [Notes -> SUBSET Users]
    /\ reach \in [Teachers -> Duties]
    /\ call \in [Requests -> Calls]
    /\ granted \in [Notes -> SUBSET Users]
    /\ acked \subseteq Notes
    /\ faults \in 0..MaxFaults

NotesInit ==
    /\ note = [n \in Notes |-> NoNote]
    /\ box = [n \in Notes |-> {}]
    /\ reach = [u \in Teachers |-> {}]
    /\ call = [r \in Requests |-> Idle]
    /\ granted = [n \in Notes |-> {}]
    /\ acked = {}
    /\ faults = 0

-----------------------------------------------------------------------------
(* Who may address whom, and whom a set of rules resolves to.               *)

MayAddress(u, rules) ==
    u \in Admins \/ (u \in Teachers /\ rules \subseteq reach[u])

\* Mutant: the missing account of a guardian is not left out.
ResolveNull(rules) == UNION {Members[a] : a \in rules} \cup {None}

Resolve(rules) == UNION {Members[a] : a \in rules}

\* Only its author and administrators work on a draft.
MayEdit(u, n) == note[n].author = u \/ u \in Admins

\* Mutant: the statement trusts the check of the service.
StillThere(n) == note[n].status \in {"draft", "sent"}

\* The WHERE clause of UpdateNotificationDraft and MarkNotificationSent.
StillDraft(n) == note[n].status = "draft"

\* Mutant: any note of the author can be deleted.
Existing(n) == note[n].status \in {"draft", "sent"}

\* The WHERE clause of DeleteDraftNotification.
Deletable(n) == note[n].status = "draft"

\* A class or subject is given to a teacher or taken away.
Reassign(u, rules) ==
    /\ reach[u] # rules
    /\ reach' = [reach EXCEPT ![u] = rules]
    /\ UNCHANGED <<note, box, call, granted, acked, faults>>

-----------------------------------------------------------------------------
(* The handlers up to their statement.                                      *)

Begin(r, c) ==
    /\ call[r].at = "idle"
    /\ call' = [call EXCEPT ![r] = c]
    /\ UNCHANGED <<note, box, reach, granted, acked, faults>>

Compose(r, u, rules, draft) ==
    /\ MayAddress(u, rules)
    /\ Begin(r, [Idle EXCEPT !.at = IF draft THEN "save" ELSE "insert",
                             !.by = u, !.rules = rules,
                             !.to = IF draft THEN {} ELSE Resolve(rules)])

UpdateDraft(r, u, n, rules) ==
    /\ note[n].status = "draft" /\ MayEdit(u, n) /\ MayAddress(u, rules)
    /\ Begin(r, [Idle EXCEPT !.at = "update", !.note = n, !.rules = rules])

\* The rules are read here, and the sender must be allowed to address them.
SendDraft(r, u, n) ==
    /\ note[n].status = "draft" /\ MayEdit(u, n)
    /\ MayAddress(u, note[n].rules)
    /\ Begin(r, [Idle EXCEPT !.at = "mark", !.note = n,
                             !.to = Resolve(note[n].rules)])

\* DeleteDraft does not look at the status before its statement.
DeleteDraft(r, u, n) ==
    /\ note[n].status \in {"draft", "sent"} /\ MayEdit(u, n)
    /\ Begin(r, [Idle EXCEPT !.at = "delete", !.note = n])

\* SendDirect: the caller names the recipients, nobody is asked.  The author
\* is left out: the note is never a draft.
SendDirect(r, to) ==
    /\ to # {}
    /\ Begin(r, [Idle EXCEPT !.at = "insert", !.to = to, !.direct = TRUE])

-----------------------------------------------------------------------------
(* The statements.                                                          *)

\* CreateNotification with status draft.
Save(r, n) ==
    /\ call[r].at = "save" /\ note[n] = NoNote
    /\ note' = [note EXCEPT ![n] = [status |-> "draft", author |-> call[r].by,
                                    rules |-> call[r].rules]]
    /\ call' = [call EXCEPT ![r] = Idle]
    /\ UNCHANGED <<box, reach, granted, acked, faults>>

\* CreateNotification with status sent; the recipients follow.
Insert(r, n) ==
    /\ call[r].at = "insert" /\ note[n] = NoNote
    /\ note' = [note EXCEPT ![n] = [status |-> "sent", author |-> call[r].by,
                                    rules |-> call[r].rules]]
    /\ granted' = [granted EXCEPT ![n] = call[r].to]
    /\ call' = [call EXCEPT ![r] = [Idle EXCEPT !.at = "deliver", !.note = n,
                                                !.to = call[r].to,
                                                !.direct = call[r].direct]]
    /\ UNCHANGED <<box, reach, acked, faults>>

\* No row means that the note was sent or deleted meanwhile: an error.
Update(r) ==
    /\ call[r].at = "update"
    /\ note' = IF StillDraft(call[r].note)
               THEN [note EXCEPT ![call[r].note].rules = call[r].rules]
               ELSE note
    /\ call' = [call EXCEPT ![r] = Idle]
    /\ UNCHANGED <<box, reach, granted, acked, faults>>

\* Mutant: the rules of the row MarkSent returns.
RecipientsNow(r) == Resolve(note[call[r].note].rules)

\* The recipients are those of the rules SendDraft read and checked, not
\* those of the row MarkSent returns.
Recipients(r) == call[r].to

MarkSent(r) ==
    LET n == call[r].note IN
    /\ call[r].at = "mark" /\ StillDraft(n)
    /\ note' = [note EXCEPT ![n].status = "sent"]
    /\ granted' = [granted EXCEPT ![n] = call[r].to]
    /\ call' = [call EXCEPT ![r].at = "deliver", ![r].to = Recipients(r)]
    /\ UNCHANGED <<box, reach, acked, faults>>

MarkSentTooLate(r) ==
    /\ call[r].at = "mark" /\ ~StillDraft(call[r].note)
    /\ call' = [call EXCEPT ![r] = Idle]
    /\ UNCHANGED <<note, box, reach, granted, acked, faults>>

\* The recipients of a deleted note go with it; a note that is no draft stays.
Delete(r) ==
    LET n == call[r].note
        goes == Deletable(n)
    IN  /\ call[r].at = "delete"
        /\ note' = IF goes THEN [note EXCEPT ![n] = [NoNote EXCEPT
                                                     !.status = "deleted"]]
                           ELSE note
        /\ box' = IF goes THEN [box EXCEPT ![n] = {}] ELSE box
        /\ call' = [call EXCEPT ![r] = Idle]
        /\ UNCHANGED <<reach, granted, acked, faults>>

\* AddRecipient: one INSERT ... ON CONFLICT DO NOTHING per user.
AddRecipient(r, u) ==
    /\ call[r].at = "deliver" /\ u \in call[r].to
    /\ note[call[r].note].status # "deleted"
    /\ box' = [box EXCEPT ![call[r].note] = @ \cup {u}]
    /\ call' = [call EXCEPT ![r].to = @ \ {u}]
    /\ UNCHANGED <<note, reach, granted, acked, faults>>

\* The sender is answered; SendDirect returns to the module that called it.
Delivered(r) ==
    /\ call[r].at = "deliver" /\ call[r].to = {}
    /\ acked' = acked \cup {call[r].note}
    /\ call' = [call EXCEPT ![r] = IF call[r].direct
                                   THEN [Idle EXCEPT !.at = "returned",
                                                     !.note = call[r].note]
                                   ELSE Idle]
    /\ UNCHANGED <<note, box, reach, granted, faults>>

\* Mutant: an error of AddRecipient ends the loop, not the request.
FailQuietly(r) ==
    /\ faults < MaxFaults
    /\ call[r].at \notin {"idle", "returned"}
    /\ faults' = faults + 1
    /\ call' = [call EXCEPT ![r] = IF call[r].at = "deliver"
                                   THEN [call[r] EXCEPT !.to = {}]
                                   ELSE Idle]
    /\ UNCHANGED <<note, box, reach, granted, acked>>

\* A statement fails, and the request with it; what was written stays.
Fail(r) ==
    /\ faults < MaxFaults
    /\ call[r].at \notin {"idle", "returned"}
    /\ faults' = faults + 1
    /\ call' = [call EXCEPT ![r] = IF call[r].direct
                                   THEN [Idle EXCEPT !.at = "returned"]
                                   ELSE Idle]
    /\ UNCHANGED <<note, box, reach, granted, acked>>

\* A failure spoils no request of this module.
Trouble ==
    /\ faults < MaxFaults
    /\ faults' = faults + 1
    /\ UNCHANGED <<note, box, reach, call, granted, acked>>

\* The server stops, or the caller of SendDirect is cancelled.
Stop(r) ==
    /\ faults < MaxFaults
    /\ faults' = faults + 1
    /\ call' = [call EXCEPT ![r] = Idle]
    /\ UNCHANGED <<note, box, reach, granted, acked>>

\* The caller of SendDirect goes on, whatever came of it.
Return(r) ==
    /\ call[r].at = "returned"
    /\ call' = [call EXCEPT ![r] = Idle]
    /\ UNCHANGED <<note, box, reach, granted, acked, faults>>

-----------------------------------------------------------------------------
Senders == Admins \cup Teachers

\* A request to the composer's routes.
Composer(r) ==
    \E u \in Senders :
        \/ \E rules \in RuleSets, draft \in BOOLEAN : Compose(r, u, rules, draft)
        \/ \E n \in Notes : \/ \E rules \in RuleSets : UpdateDraft(r, u, n, rules)
                            \/ SendDraft(r, u, n)
                            \/ DeleteDraft(r, u, n)

\* The rest of a request, once it has begun.
Rest(r) ==
    \/ \E n \in Notes : Save(r, n) \/ Insert(r, n)
    \/ Update(r) \/ MarkSent(r) \/ MarkSentTooLate(r) \/ Delete(r)
    \/ \E u \in Users : AddRecipient(r, u)
    \/ Delivered(r) \/ Fail(r)

Appointments == \E u \in Teachers, rules \in Duties : Reassign(u, rules)

NotesNext ==
    \/ \E r \in Requests :
           \/ Composer(r) \/ Rest(r) \/ Return(r) \/ Stop(r)
           \/ \E to \in SUBSET Users : SendDirect(r, to)
    \/ Appointments \/ Trouble

NotesSpec == NotesInit /\ [][NotesNext]_notesVars

-----------------------------------------------------------------------------
(* Properties.                                                              *)

\* Nobody receives a note whose sender was not allowed to address them when
\* the note was checked: a draft that is edited between the check and the
\* switch to sent does not widen the audience that was checked.
NobodyUnauthorised == \A n \in Notes : box[n] \subseteq granted[n]

\* When the sender is told that a note was sent, everyone the checked rules
\* resolved to has it: a failure halfway through is answered as a failure.
AckedIsDelivered == \A n \in acked : granted[n] \subseteq box[n]

\* Two requests never deliver the same note, however many send the draft.
OneSender ==
    \A r, q \in Requests :
        call[r].at = "deliver" /\ call[q].at = "deliver" /\ r # q
            => call[r].note # call[q].note

\* A note that was sent keeps its rules and its place in the history, also
\* when an edit or a deletion checked it while it was still a draft.
SentIsFinal ==
    [][\A n \in Notes : note[n].status = "sent" => note'[n] = note[n]]_notesVars
=============================================================================
