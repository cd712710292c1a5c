----------------------------- MODULE Activation -----------------------------
(***************************************************************************)
(* Self-service account activation (modules/activation, ADR 0008): the     *)
(* school issues one-time codes for its student and guardian records; a    *)
(* person starts with a code, proves an email through a link, and          *)
(* completes by creating a login: an account at the identity provider, a   *)
(* row in users, and the link from the record to it.  No transaction spans *)
(* these, so Complete claims the code first and undoes its steps one by    *)
(* one when a later one fails.  Admins issue and cancel codes and delete   *)
(* orphaned provider accounts (identity/reconciliation.go) meanwhile.      *)
(*                                                                         *)
(* Each action is one statement or one call of the provider; any number of *)
(* requests interleave between them.  Adjacent reads that no statement of  *)
(* the same request separates are one action.                              *)
(***************************************************************************)
EXTENDS Integers, FiniteSets

CONSTANTS
    Records,     \* student profiles and guardians without a login at first
    Students,    \* the records that are student profiles
    Codes,       \* identities of activation_codes rows (a bound)
    Batches,     \* identities of generated batches (a bound)
    Tokens,      \* identities of activation_email_tokens rows (a bound)
    Emails,      \* addresses people give
    Users,       \* identities the provider gives to new accounts (a bound)
    People,      \* public requests (Start, Complete) in progress at once
    Admins,      \* admin requests in progress at once
    MaxFailures, \* wrong identifiers that lock a code (five)
    MaxFaults,   \* failures of undo calls, lost answers and stops (a bound)
    LostReplies, \* whether a call may take effect and yet report a failure
    None

ASSUME ActivationAssumption ==
    /\ Students \subseteq Records
    /\ MaxFailures \in Nat \ {0}
    /\ MaxFaults \in Nat /\ LostReplies \in BOOLEAN
    /\ None \notin Records \union Codes \union Batches \union Tokens
                     \union Emails \union Users \union People \union Admins

VARIABLES
    enabled,   \* activation_settings: the roles switched on
    window,    \* activation_settings: now is between opens_at and closes_at
    code,      \* activation_codes, by identity
    token,     \* activation_email_tokens, by identity
    login,     \* student_profiles.user_id and guardians.user_id
    users,     \* users.email of the local rows activation created, else None
    account,   \* provider accounts: their email, record, and whether they have the role
    pc,        \* where each request stands
    work,      \* the local variables of each request
    faults     \* how many of these there were

tables == <<code, token, login, users>>
settings == <<enabled, window>>
vars == <<enabled, window, code, token, login, users, account, pc, work,
          faults>>

Role(p) == IF p \in Students THEN "student" ELSE "parent"
Roles == {Role(p) : p \in Records}

NoCode == [rec |-> None, batch |-> None, used |-> FALSE, revoked |-> FALSE,
           expired |-> FALSE, failures |-> 0, locked |-> FALSE]
NoToken == [code |-> None, email |-> None, used |-> FALSE, expired |-> FALSE]
NoAccount == [email |-> None, rec |-> None, role |-> FALSE]
NoWork == [code |-> None, token |-> None, email |-> None, user |-> None,
           targets |-> {}]

Requests == People \union Admins

(* Start: miss, reset, token.  Complete: consume, claim, email, create,    *)
(* row, role, link; when one of them fails, the undo calls that are due    *)
(* and release.  Admins: issue, delete_account.                            *)
Steps == {"idle", "miss", "reset", "token", "consume", "claim", "email", "create",
          "row", "role", "link", "undo_created", "undo_account", "undo_row",
          "release", "issue", "delete_account"}

(* The steps at which a request has claimed the code it works with. *)
Claimed == {"email", "create", "row", "role", "link", "undo_created",
            "undo_account", "undo_row", "release"}

(* The steps at which it still owns the provider account, and the row of   *)
(* users, that it made.                                                    *)
OwnsAccount == {"row", "role", "link", "undo_created", "undo_account"}
OwnsRow == {"role", "link", "undo_account", "undo_row"}

CodeRow == [rec : Records \union {None}, batch : Batches \union {None},
            used : BOOLEAN, revoked : BOOLEAN, expired : BOOLEAN,
            failures : 0..MaxFailures, locked : BOOLEAN]
TokenRow == [code : Codes \union {None}, email : Emails \union {None},
             used : BOOLEAN, expired : BOOLEAN]
Account == [email : Emails \union {None}, rec : Records \union {None},
            role : BOOLEAN]
Work == [code : Codes \union {None}, token : Tokens \union {None},
         email : Emails \union {None}, user : Users \union {None},
         targets : SUBSET Records]

TypeOK ==
    /\ enabled \subseteq Roles
    /\ window \in BOOLEAN
    /\ code \in [Codes -> CodeRow]
    /\ token \in [Tokens -> TokenRow]
    /\ login \in [Records -> Users \union {None}]
    /\ users \in [Users -> Emails \union {None}]
    /\ account \in [Users -> Account]
    /\ pc \in [Requests -> Steps]
    /\ work \in [Requests -> Work]
    /\ faults \in 0..MaxFaults

Init ==
    /\ enabled = {}
    /\ window = TRUE
    /\ code = [k \in Codes |-> NoCode]
    /\ token = [t \in Tokens |-> NoToken]
    /\ login = [p \in Records |-> None]
    /\ users = [u \in Users |-> None]
    /\ account = [u \in Users |-> NoAccount]
    /\ pc = [r \in Requests |-> "idle"]
    /\ work = [r \in Requests |-> NoWork]
    /\ faults = 0

-----------------------------------------------------------------------------
(* Helpers *)

(* Settings.openFor *)
OpenFor(role) == role \in enabled /\ window

Issued(k) == code[k].rec # None

(* used_at IS NULL AND revoked_at IS NULL: what the unique indexes range   *)
(* over and what a revocation matches.                                     *)
Live(k) == Issued(k) /\ ~code[k].used /\ ~code[k].revoked

(* GetUsableActivationCode and ...ByID. *)
Usable(k) == Live(k) /\ ~code[k].expired

Valid(t) == token[t].code # None /\ ~token[t].used /\ ~token[t].expired

HasLogin(k) == login[code[k].rec] # None

EmailTaken(e) == \E u \in Users : users[u] = e

(* The provider refuses a second account with an email or a username; a    *)
(* student's username is the record's index number, a parent's the email.  *)
Duplicate(p, e) ==
    \E u \in Users : \/ account[u].email = e
                     \/ p \in Students /\ account[u].rec = p

Fault == faults < MaxFaults /\ faults' = faults + 1

GoTo(r, step) == pc' = [pc EXCEPT ![r] = step]

Done(r) ==
    /\ pc' = [pc EXCEPT ![r] = "idle"]
    /\ work' = [work EXCEPT ![r] = NoWork]

-----------------------------------------------------------------------------
(* Start *)

(* The reads of Start: the settings, then the code.  A code that is        *)
(* unknown, locked, of a closed role or already activated ends the request *)
(* without a change, which is no step here.                                *)
StartMismatch(r, k) ==
    /\ pc[r] = "idle"
    /\ \E role \in Roles : OpenFor(role)
    /\ Usable(k) /\ ~code[k].locked
    /\ GoTo(r, "miss")
    /\ work' = [work EXCEPT ![r].code = k]
    /\ UNCHANGED <<settings, tables, account, faults>>

StartMatch(r, k, e) ==
    /\ pc[r] = "idle"
    /\ Usable(k) /\ ~code[k].locked
    /\ OpenFor(Role(code[k].rec))
    /\ ~HasLogin(k)
    /\ GoTo(r, "reset")
    /\ work' = [work EXCEPT ![r].code = k, ![r].email = e]
    /\ UNCHANGED <<settings, tables, account, faults>>

(* Mutant of RecordFailure: it counts on beyond the miss that locks. *)
RecordFailureUncapped(r) ==
    LET k == work[r].code
        n == code[k].failures + 1 IN
    /\ pc[r] = "miss"
    /\ code' = [code EXCEPT ![k].failures = n,
                            ![k].locked = @ \/ n >= MaxFailures]
    /\ Done(r)
    /\ UNCHANGED <<settings, token, login, users, account, faults>>

(* RecordActivationFailure.  failures is capped at MaxFailures, from where *)
(* every further miss locks the code again.                                *)
RecordFailure(r) ==
    LET k == work[r].code
        n == IF code[k].failures < MaxFailures THEN code[k].failures + 1
                                               ELSE MaxFailures IN
    /\ pc[r] = "miss"
    /\ code' = [code EXCEPT ![k].failures = n,
                            ![k].locked = @ \/ n >= MaxFailures]
    /\ Done(r)
    /\ UNCHANGED <<settings, token, login, users, account, faults>>

ResetFailures(r) ==
    LET k == work[r].code IN
    /\ pc[r] = "reset"
    /\ code' = [code EXCEPT ![k].failures = 0, ![k].locked = FALSE]
    /\ GoTo(r, "token")
    /\ UNCHANGED <<settings, token, login, users, account, work, faults>>

(* The address has an account: the person is told by mail, nothing more.   *)
EmailInUse(r) ==
    /\ pc[r] = "token"
    /\ EmailTaken(work[r].email)
    /\ Done(r)
    /\ UNCHANGED <<settings, tables, account, faults>>

(* The token is stored, then mailed; a mail that is lost leaves a token    *)
(* nobody will present.                                                    *)
CreateEmailToken(r, t) ==
    /\ pc[r] = "token"
    /\ ~EmailTaken(work[r].email)
    /\ token[t] = NoToken
    /\ token' = [token EXCEPT ![t] = [NoToken EXCEPT !.code = work[r].code,
                                                     !.email = work[r].email]]
    /\ Done(r)
    /\ UNCHANGED <<settings, code, login, users, account, faults>>

-----------------------------------------------------------------------------
(* Complete *)

(* Everything Complete reads before its first write. *)
BeginComplete(r, t) ==
    LET k == token[t].code IN
    /\ pc[r] = "idle"
    /\ Valid(t)
    /\ Usable(k)
    /\ OpenFor(Role(code[k].rec))
    /\ ~HasLogin(k)
    /\ GoTo(r, "consume")
    /\ work' = [work EXCEPT ![r].token = t, ![r].code = k,
                            ![r].email = token[t].email]
    /\ UNCHANGED <<settings, tables, account, faults>>

(* Mutant of ConsumeToken: the link stays good. *)
ConsumeTokenNever(r) ==
    /\ pc[r] = "consume"
    /\ IF Valid(work[r].token) THEN GoTo(r, "claim") /\ work' = work ELSE Done(r)
    /\ UNCHANGED <<settings, tables, account, faults>>

ConsumeToken(r) ==
    LET t == work[r].token IN
    /\ pc[r] = "consume"
    /\ IF Valid(t)
       THEN token' = [token EXCEPT ![t].used = TRUE] /\ GoTo(r, "claim") /\ work' = work
       ELSE UNCHANGED token /\ Done(r)
    /\ UNCHANGED <<settings, code, login, users, account, faults>>

(* Mutant of ClaimCode: the code is trusted to be as it was read. *)
ClaimCodeBlindly(r) ==
    LET k == work[r].code IN
    /\ pc[r] = "claim"
    /\ code' = [code EXCEPT ![k].used = TRUE]
    /\ GoTo(r, "email")
    /\ UNCHANGED <<settings, token, login, users, account, work, faults>>

(* ClaimActivationCode.  A code that is gone ends the request; the link is *)
(* spent all the same.                                                     *)
ClaimCode(r) ==
    LET k == work[r].code IN
    /\ pc[r] = "claim"
    /\ IF Usable(k)
       THEN code' = [code EXCEPT ![k].used = TRUE] /\ GoTo(r, "email") /\ work' = work
       ELSE UNCHANGED code /\ Done(r)
    /\ UNCHANGED <<settings, token, login, users, account, faults>>

(* Mutant of CheckEmail: a taken address is reported and the claim kept.   *)
CheckEmailKeepsClaim(r) ==
    /\ pc[r] = "email"
    /\ \/ GoTo(r, "create") /\ ~EmailTaken(work[r].email) /\ UNCHANGED work
       \/ Done(r)
    /\ UNCHANGED <<settings, tables, account, faults>>

(* createLogin looks the email up once more; ErrEmailTaken and a failing   *)
(* read have nothing to undo but the claim.                                *)
CheckEmail(r) ==
    /\ pc[r] = "email"
    /\ \/ GoTo(r, "create") /\ ~EmailTaken(work[r].email)
       \/ GoTo(r, "release")
    /\ UNCHANGED <<settings, tables, account, work, faults>>

(* A fresh identity: no row of this server knows it. *)
Fresh(u) ==
    /\ account[u] = NoAccount /\ users[u] = None
    /\ \A q \in Requests : work[q].user # u

CreateAccount(r, u) ==
    LET p == code[work[r].code].rec IN
    /\ pc[r] = "create"
    /\ Fresh(u) /\ ~Duplicate(p, work[r].email)
    /\ account' = [account EXCEPT ![u] = [email |-> work[r].email, rec |-> p,
                                         role |-> FALSE]]
    /\ \/ /\ work' = [work EXCEPT ![r].user = u]
          /\ GoTo(r, "row")
          /\ UNCHANGED faults
       \/ /\ LostReplies /\ Fault
          /\ GoTo(r, "release")
          /\ UNCHANGED work
    /\ UNCHANGED <<settings, tables>>

(* A duplicate, or a provider that fails without having created anything.  *)
CreateAccountFails(r) ==
    /\ pc[r] = "create"
    /\ GoTo(r, "release")
    /\ UNCHANGED <<settings, tables, account, work, faults>>

(* users.email is unique; any other database error takes the same way.     *)
CreateRow(r) ==
    LET u == work[r].user
        Insert == users' = [users EXCEPT ![u] = work[r].email] IN
    /\ pc[r] = "row"
    /\ \/ ~EmailTaken(work[r].email) /\ Insert /\ GoTo(r, "role") /\ UNCHANGED faults
       \/ UNCHANGED <<users, faults>> /\ GoTo(r, "undo_created")
       \/ /\ LostReplies /\ Fault
          /\ ~EmailTaken(work[r].email) /\ Insert /\ GoTo(r, "undo_created")
    /\ UNCHANGED <<settings, code, token, login, account, work>>

(* The provider knows the account no more when it was deleted meanwhile;   *)
(* whatever it assigned before a failure goes with the account.            *)
AssignRole(r) ==
    LET u == work[r].user IN
    /\ pc[r] = "role"
    /\ \/ /\ account[u] # NoAccount
          /\ account' = [account EXCEPT ![u].role = TRUE]
          /\ GoTo(r, "link")
       \/ /\ UNCHANGED account
          /\ GoTo(r, "undo_account")
    /\ UNCHANGED <<settings, tables, work, faults>>

(* Mutants of LinkRecord: a record that has a login is linked anew; a      *)
(* record that has one leaves the account and the row behind.              *)
LinkRecordAnew(r) ==
    LET p == code[work[r].code].rec IN
    /\ pc[r] = "link"
    /\ login' = [login EXCEPT ![p] = work[r].user]
    /\ Done(r)
    /\ UNCHANGED <<settings, code, token, users, account, faults>>

LinkRecordNoUndo(r) ==
    LET p == code[work[r].code].rec IN
    /\ pc[r] = "link"
    /\ \/ /\ login[p] = None
          /\ login' = [login EXCEPT ![p] = work[r].user]
          /\ Done(r)
       \/ UNCHANGED <<login, work>> /\ GoTo(r, "release")
    /\ UNCHANGED <<settings, code, token, users, account, faults>>

(* LinkActivatedStudent, LinkActivatedGuardian: only a record that still   *)
(* has no login is linked.                                                 *)
LinkRecord(r) ==
    LET p == code[work[r].code].rec
        Link == login[p] = None /\ login' = [login EXCEPT ![p] = work[r].user] IN
    /\ pc[r] = "link"
    /\ \/ Link /\ Done(r) /\ UNCHANGED faults
       \/ UNCHANGED <<login, work, faults>> /\ GoTo(r, "undo_account")
       \/ /\ LostReplies /\ Fault
          /\ Link /\ GoTo(r, "undo_account") /\ UNCHANGED work
    /\ UNCHANGED <<settings, code, token, users, account>>

(* undo: each deletion is tried once and its failure is only logged.       *)
(* There is no row to delete when createUser reported a failure.           *)
UndoAccount(r) ==
    /\ pc[r] \in {"undo_created", "undo_account"}
    /\ \/ /\ account' = [account EXCEPT ![work[r].user] = NoAccount]
          /\ UNCHANGED faults
       \/ /\ Fault
          /\ UNCHANGED account
    /\ GoTo(r, IF pc[r] = "undo_account" THEN "undo_row" ELSE "release")
    /\ UNCHANGED <<settings, tables, work>>

(* DeleteUser; the foreign keys clear the links to the row (ON DELETE SET  *)
(* NULL).                                                                  *)
UndoRow(r) ==
    LET u == work[r].user IN
    /\ pc[r] = "undo_row"
    /\ \/ /\ users' = [users EXCEPT ![u] = None]
          /\ login' = [p \in Records |-> IF login[p] = u THEN None ELSE login[p]]
          /\ UNCHANGED faults
       \/ /\ Fault
          /\ UNCHANGED <<users, login>>
    /\ GoTo(r, "release")
    /\ UNCHANGED <<settings, code, token, account, work>>

(* Mutant of OtherLive: the table has no such index. *)
NoLiveIndex(k) == FALSE

(* ReleaseActivationCode: the unique index refuses it when the record has  *)
(* got another live code meanwhile.                                        *)
OtherLive(k) == \E j \in Codes \ {k} : Live(j) /\ code[j].rec = code[k].rec

ReleaseCode(r) ==
    LET k == work[r].code IN
    /\ pc[r] = "release"
    /\ \/ /\ ~OtherLive(k) \/ code[k].revoked
          /\ code' = [code EXCEPT ![k].used = FALSE]
          /\ UNCHANGED faults
       \/ /\ OtherLive(k) /\ ~code[k].revoked
          /\ UNCHANGED <<code, faults>>
       \/ /\ Fault
          /\ UNCHANGED code
    /\ Done(r)
    /\ UNCHANGED <<settings, token, login, users, account>>

(* A statement before the claim fails, or the client goes away: the        *)
(* request ends where it is.  An admin's request may end so at any step.   *)
Abandon(r) ==
    /\ pc[r] \in {"miss", "reset", "token", "consume", "claim", "issue",
                 "delete_account"}
    /\ Done(r)
    /\ UNCHANGED <<settings, tables, account, faults>>

(* The server stops in the middle of a request that has claimed a code. *)
Die(r) ==
    /\ pc[r] \in Claimed
    /\ Fault
    /\ Done(r)
    /\ UNCHANGED <<settings, tables, account>>

-----------------------------------------------------------------------------
(* Admins *)

UpdateSettings(roles, w) ==
    /\ enabled' = roles
    /\ window' = w
    /\ UNCHANGED <<tables, account, pc, work, faults>>

(* Generate reads which of the records asked for have no login, ... *)
BeginGenerate(a, T) ==
    /\ pc[a] = "idle"
    /\ T # {}
    /\ \E role \in enabled : \A p \in T : login[p] = None /\ Role(p) = role
    /\ GoTo(a, "issue")
    /\ work' = [work EXCEPT ![a].targets = T]
    /\ UNCHANGED <<settings, tables, account, faults>>

(* ... then revokes their live codes and inserts new ones, in one          *)
(* transaction (issueCodes).  new[p] is the row of record p's code.        *)
IssueCodes(a, b) ==
    LET T == work[a].targets IN
    /\ pc[a] = "issue"
    /\ \A k \in Codes : code[k].batch # b
    /\ \E new \in [T -> {k \in Codes : ~Issued(k)}] :
          /\ \A p, q \in T : new[p] = new[q] => p = q
          /\ code' = [k \in Codes |->
                IF \E p \in T : new[p] = k
                THEN [NoCode EXCEPT !.rec = CHOOSE p \in T : new[p] = k, !.batch = b]
                ELSE IF Live(k) /\ code[k].rec \in T
                THEN [code[k] EXCEPT !.revoked = TRUE]
                ELSE code[k]]
    /\ Done(a)
    /\ UNCHANGED <<settings, token, login, users, account, faults>>

(* RevokeActivationBatch. *)
RevokeBatch(b) ==
    /\ code' = [k \in Codes |-> IF Live(k) /\ code[k].batch = b
                                THEN [code[k] EXCEPT !.revoked = TRUE]
                                ELSE code[k]]
    /\ UNCHANGED <<settings, token, login, users, account, pc, work, faults>>

(* deleteOrphaned: an account without a local user, looked up first, ...   *)
BeginDeleteOrphan(a, u) ==
    /\ pc[a] = "idle"
    /\ account[u] # NoAccount
    /\ users[u] = None
    /\ GoTo(a, "delete_account")
    /\ work' = [work EXCEPT ![a].user = u]
    /\ UNCHANGED <<settings, tables, account, faults>>

(* ... then deleted at the provider. *)
DeleteOrphan(a) ==
    /\ pc[a] = "delete_account"
    /\ account' = [account EXCEPT ![work[a].user] = NoAccount]
    /\ Done(a)
    /\ UNCHANGED <<settings, tables, faults>>

-----------------------------------------------------------------------------
(* Time *)

ExpireCode(k) ==
    /\ Live(k) /\ ~code[k].expired
    /\ code' = [code EXCEPT ![k].expired = TRUE]
    /\ UNCHANGED <<settings, token, login, users, account, pc, work, faults>>

ExpireToken(t) ==
    /\ Valid(t)
    /\ token' = [token EXCEPT ![t].expired = TRUE]
    /\ UNCHANGED <<settings, code, login, users, account, pc, work, faults>>

(* The hour of a lock is over. *)
LockEnds(k) ==
    /\ code[k].locked
    /\ code' = [code EXCEPT ![k].locked = FALSE]
    /\ UNCHANGED <<settings, token, login, users, account, pc, work, faults>>

-----------------------------------------------------------------------------
Start(r) ==
    \/ \E k \in Codes : StartMismatch(r, k) \/ \E e \in Emails : StartMatch(r, k, e)
    \/ RecordFailure(r)
    \/ ResetFailures(r)
    \/ EmailInUse(r)
    \/ \E t \in Tokens : CreateEmailToken(r, t)

Complete(r) ==
    \/ \E t \in Tokens : BeginComplete(r, t)
    \/ ConsumeToken(r)
    \/ ClaimCode(r)
    \/ CheckEmail(r)
    \/ \E u \in Users : CreateAccount(r, u)
    \/ CreateAccountFails(r)
    \/ CreateRow(r)
    \/ AssignRole(r)
    \/ LinkRecord(r)
    \/ UndoAccount(r)
    \/ UndoRow(r)
    \/ ReleaseCode(r)

Administer(a) ==
    \/ \E T \in SUBSET Records : BeginGenerate(a, T)
    \/ \E b \in Batches : IssueCodes(a, b)
    \/ \E u \in Users : BeginDeleteOrphan(a, u)
    \/ DeleteOrphan(a)

Next ==
    \/ \E r \in People : Start(r) \/ Complete(r) \/ Die(r)
    \/ \E a \in Admins : Administer(a)
    \/ \E r \in Requests : Abandon(r)
    \/ \E roles \in SUBSET Roles, w \in BOOLEAN : UpdateSettings(roles, w)
    \/ \E b \in Batches : RevokeBatch(b)
    \/ \E k \in Codes : ExpireCode(k) \/ LockEnds(k)
    \/ \E t \in Tokens : ExpireToken(t)

Spec == Init /\ [][Next]_vars
-----------------------------------------------------------------------------
(* Properties *)

(* A record never has two codes that could be claimed: a revocation, an    *)
(* insertion and a release of an older claim may overlap (the unique       *)
(* indexes on live codes refuse the last of them).                         *)
OneLiveCode ==
    \A j, k \in Codes :
        Live(j) /\ Live(k) /\ code[j].rec = code[k].rec => j = k

(* "Two requests cannot both activate": a code is claimed by one request   *)
(* at a time and stays used until that request is over, whichever links,   *)
(* retries or revocations come in between.                                 *)
ExclusiveClaim ==
    \A r \in Requests : pc[r] \in Claimed =>
        /\ code[work[r].code].used
        /\ \A q \in Requests \ {r} :
              pc[q] \in Claimed => work[q].code # work[r].code

(* A login is never replaced or taken away, not even by a request that     *)
(* activates an older code of the same record, nor by the undo of another  *)
(* request, as long as no call reports a failure it did not have.          *)
LoginKept ==
    [][\A p \in Records : login[p] # None /\ faults' = 0 => login'[p] = login[p]]_vars

(* The emails whose ownership was proved through a link for record p. *)
Proved(p) ==
    {token[t].email : t \in {t \in Tokens : token[t].used /\ code[token[t].code].rec = p}}

(* What a record is linked to, whatever calls fail or report a failure     *)
(* they did not have: a row of users with an email somebody proved for     *)
(* that very record, and an account that has the role (if the provider     *)
(* still has it).                                                          *)
LinkedLogin ==
    \A p \in Records : login[p] # None =>
        LET u == login[p] IN
        /\ users[u] \in Proved(p)
        /\ account[u] # NoAccount => account[u].role

(* Complete leaves nothing behind: unless an undo failed, every account    *)
(* and every row it created is linked or still in the hands of a request   *)
(* that will link or delete it.                                            *)
NothingLeftBehind ==
    faults = 0 =>
        \A u \in Users :
            /\ account[u] # NoAccount =>
                 \/ \E p \in Records : login[p] = u
                 \/ \E r \in People : pc[r] \in OwnsAccount /\ work[r].user = u
            /\ users[u] # None =>
                 \/ \E p \in Records : login[p] = u
                 \/ \E r \in People : pc[r] \in OwnsRow /\ work[r].user = u

(* Nobody is locked out by a failed attempt: unless an undo failed, a code *)
(* that is used is being worked on, has given its record a login, or       *)
(* belongs to a record that was issued another code.                       *)
ClaimResolved ==
    faults = 0 =>
        \A k \in Codes : code[k].used =>
            \/ \E r \in People : pc[r] \in Claimed /\ work[r].code = k
            \/ HasLogin(k)
            \/ \E j \in Codes \ {k} : code[j].rec = code[k].rec

(* A record has one live code, and a claimed code is used and in the hands  *)
(* of one request, whatever is lost, undone or stopped in between.          *)
CodesConsistent ==
    /\ TypeOK
    /\ OneLiveCode
    /\ ExclusiveClaim

=============================================================================
