---------------------------- MODULE Credentials ----------------------------
(***************************************************************************)
(* The password lifecycle (auth/service.go) of accounts the school made:   *)
(* they start with an initial password (the NIC or index number) and must  *)
(* change it, or may keep it for a week (must_change_password and          *)
(* kept_default_password of users, read by /me).  A forgotten password is  *)
(* reset with an emailed one-time link.  Requests overlap; the identity    *)
(* provider may change the password and still report a failure; a          *)
(* statement may fail; the server may stop.                                *)
(*                                                                         *)
(* Of a password only one thing is kept: whether it is still the initial   *)
(* one.  setPassword refuses the initial one, so a new one never is.       *)
(***************************************************************************)
EXTENDS Naturals

CONSTANTS
    Users,      \* accounts with an initial password
    Tokens,     \* reset tokens that can be issued (a bound)
    Requests,   \* requests in progress at the same time (a bound)
    MaxFaults,  \* failed statements and stops (a bound)
    None        \* no user, no token

ASSUME NoneAssumption == None \notin Users \cup Tokens
ASSUME FaultsAssumption == MaxFaults \in Nat

VARIABLES
    must,       \* users.must_change_password
    kept,       \* users.kept_default_password
    young,      \* the account is not older than DefaultPasswordExpiry
    initial,    \* the provider still has the initial password
    token,      \* password_reset_tokens: state and owner
    mailed,     \* the tokens whose link was sent
    request,    \* what each request is doing
    grants,     \* history: password changes a token let through
    told,       \* history: users who were told that their password is changed
    crossed,    \* history: told users who were about to keep the old one then
    faults      \* failures so far

accounts == <<must, kept, young, initial>>
history == <<grants, told, crossed>>
vars == <<must, kept, young, initial, token, mailed, request, grants, told,
          crossed, faults>>

Idle == [pc |-> "idle", user |-> None, token |-> None]
Work == [pc : {"idle", "mail", "check", "provider", "clear", "keep"},
         user : Users \cup {None}, token : Tokens \cup {None}]

TypeOK ==
    /\ must \in [Users -> BOOLEAN]
    /\ kept \in [Users -> BOOLEAN]
    /\ young \in [Users -> BOOLEAN]
    /\ initial \in [Users -> BOOLEAN]
    /\ token \in [Tokens -> [state : {"unissued", "live", "used", "expired"},
                             user : Users \cup {None}]]
    /\ mailed \subseteq Tokens
    /\ request \in [Requests -> Work]
    /\ grants \in [Tokens -> Nat]
    /\ told \subseteq Users
    /\ crossed \subseteq told
    /\ faults \in 0..MaxFaults

\* createUser: must_change_password is set with the initial password.
Init ==
    /\ must = [u \in Users |-> TRUE]
    /\ kept = [u \in Users |-> FALSE]
    /\ young = [u \in Users |-> TRUE]
    /\ initial = [u \in Users |-> TRUE]
    /\ token = [t \in Tokens |-> [state |-> "unissued", user |-> None]]
    /\ mailed = {}
    /\ request = [r \in Requests |-> Idle]
    /\ grants = [t \in Tokens |-> 0]
    /\ told = {}
    /\ crossed = {}
    /\ faults = 0

\* What /me answers: the account is to be asked for a new password.
DefaultPasswordExpired(u) == kept[u] /\ ~young[u]
MustChangePassword(u) == must[u] \/ DefaultPasswordExpired(u)

-----------------------------------------------------------------------------
Goto(r, pc, u, t) == request' = [request EXCEPT ![r] = [pc |-> pc, user |-> u, token |-> t]]
Step(r, pc) == request' = [request EXCEPT ![r].pc = pc]
Return(r) == request' = [request EXCEPT ![r] = Idle]
Fault == faults < MaxFaults /\ faults' = faults + 1

\* ClearMustChangePassword, without a condition on what the row holds
Clear(u, keptDefault) ==
    /\ must' = [must EXCEPT ![u] = FALSE]
    /\ kept' = [kept EXCEPT ![u] = keptDefault]

\* ForgotPassword with the right identifier and secret: createResetToken
ForgotPassword(r, u) ==
    /\ request[r].pc = "idle"
    /\ \E t \in Tokens :
        /\ token[t].state = "unissued"
        /\ token' = [token EXCEPT ![t] = [state |-> "live", user |-> u]]
        /\ Goto(r, "mail", u, t)
    /\ UNCHANGED <<accounts, mailed, history, faults>>

\* issueAndEmailResetToken: the link is sent, or lost with the token live
EmailLink(r) ==
    /\ request[r].pc = "mail"
    /\ mailed' \in {mailed, mailed \cup {request[r].token}}
    /\ Return(r)
    /\ UNCHANGED <<accounts, token, history, faults>>

\* The token is only looked up.
ResetPasswordLookup(r, t) ==
    /\ request[r].pc = "idle"
    /\ t \in mailed
    /\ token[t].state = "live"
    /\ Goto(r, "check", token[t].user, t)
    /\ UNCHANGED <<accounts, token, mailed, history, faults>>

\* ResetPassword: consumeResetToken claims a live token in one statement; any
\* other token is refused
ResetPassword(r, t) ==
    /\ request[r].pc = "idle"
    /\ t \in mailed
    /\ token[t].state = "live"
    /\ token' = [token EXCEPT ![t].state = "used"]
    /\ Goto(r, "check", token[t].user, t)
    /\ UNCHANGED <<accounts, mailed, history, faults>>

\* The caller's identity is not read from the session.
ChangePasswordOfNobody(r, u) ==
    /\ request[r].pc = "idle"
    /\ Goto(r, "check", None, None)
    /\ UNCHANGED <<accounts, token, mailed, history, faults>>

\* ChangePassword by the signed-in user
ChangePassword(r, u) ==
    /\ request[r].pc = "idle"
    /\ Goto(r, "check", u, None)
    /\ UNCHANGED <<accounts, token, mailed, history, faults>>

\* setPassword up to the provider: the user is read; a password that is
\* short, common or the initial one is refused
CheckPassword(r) ==
    /\ request[r].pc = "check"
    /\ \/ Step(r, "provider")
       \/ Return(r)
    /\ UNCHANGED <<accounts, token, mailed, history, faults>>

Granted(r) ==
    grants' = IF request[r].token = None THEN grants
              ELSE [grants EXCEPT ![request[r].token] = @ + 1]

\* setPassword: idp.UpdatePassword
UpdatePassword(r) ==
    /\ request[r].pc = "provider"
    /\ initial' = [initial EXCEPT ![request[r].user] = FALSE]
    /\ Granted(r)
    /\ Step(r, "clear")
    /\ UNCHANGED <<must, kept, young, token, mailed, told, crossed, faults>>

\* The failure is only logged, as that of the notice is.
UpdatePasswordFailsSilently(r) ==
    /\ request[r].pc = "provider"
    /\ Step(r, "clear")
    /\ UNCHANGED <<accounts, token, mailed, history, faults>>

\* ... which reports a failure, with the password changed or not; the reset
\* token stays used
UpdatePasswordFails(r) ==
    /\ request[r].pc = "provider"
    /\ \/ UNCHANGED <<initial, grants>>
       \/ /\ initial' = [initial EXCEPT ![request[r].user] = FALSE]
          /\ Granted(r)
    /\ Return(r)
    /\ UNCHANGED <<must, kept, young, token, mailed, told, crossed, faults>>

\* setPassword: clearMustChangePassword(false); the notice is best effort
PasswordChanged(r) ==
    /\ request[r].pc = "clear"
    /\ Clear(request[r].user, FALSE)
    /\ told' = told \cup {request[r].user}
    /\ crossed' = IF \E q \in Requests :
                         request[q].pc = "keep" /\ request[q].user = request[r].user
                  THEN crossed \cup {request[r].user}
                  ELSE crossed \ {request[r].user}
    /\ Return(r)
    /\ UNCHANGED <<young, initial, token, mailed, grants, faults>>

\* Keeping is allowed whenever the account is young.
KeepAnyPassword(r, u) ==
    /\ request[r].pc = "idle"
    /\ young[u]
    /\ Goto(r, "keep", u, None)
    /\ UNCHANGED <<accounts, token, mailed, history, faults>>

\* KeepDefaultPassword reads the user; it is refused when the password was
\* changed already or the week is over
KeepDefaultPassword(r, u) ==
    /\ request[r].pc = "idle"
    /\ must[u]
    /\ young[u]
    /\ Goto(r, "keep", u, None)
    /\ UNCHANGED <<accounts, token, mailed, history, faults>>

\* ... and clears the flag: clearMustChangePassword(true)
KeepRecorded(r) ==
    /\ request[r].pc = "keep"
    /\ Clear(request[r].user, TRUE)
    /\ Return(r)
    /\ UNCHANGED <<young, initial, token, mailed, history, faults>>

\* clearMustChangePassword fails
ClearFails(r) ==
    /\ request[r].pc \in {"clear", "keep"}
    /\ Fault
    /\ Return(r)
    /\ UNCHANGED <<accounts, token, mailed, history>>

Restart ==
    /\ Fault
    /\ request' = [r \in Requests |-> Idle]
    /\ UNCHANGED <<accounts, token, mailed, history>>

\* DefaultPasswordExpiry and passwordResetTokenTTL run out.
WeekPasses(u) ==
    /\ young[u]
    /\ young' = [young EXCEPT ![u] = FALSE]
    /\ UNCHANGED <<must, kept, initial, token, mailed, request, history, faults>>

TokenExpires(t) ==
    /\ token[t].state = "live"
    /\ token' = [token EXCEPT ![t].state = "expired"]
    /\ UNCHANGED <<accounts, mailed, request, history, faults>>

Progress(r) ==
    \/ EmailLink(r)
    \/ CheckPassword(r)
    \/ UpdatePassword(r)
    \/ UpdatePasswordFails(r)
    \/ PasswordChanged(r)
    \/ KeepRecorded(r)
    \/ ClearFails(r)

Next ==
    \/ \E r \in Requests :
        \/ \E u \in Users : ForgotPassword(r, u) \/ ChangePassword(r, u) \/ KeepDefaultPassword(r, u)
        \/ \E t \in Tokens : ResetPassword(r, t)
        \/ Progress(r)
    \/ Restart
    \/ \E u \in Users : WeekPasses(u)
    \/ \E t \in Tokens : TokenExpires(t)

Spec == Init /\ [][Next]_vars

-----------------------------------------------------------------------------
(* Properties. *)

\* An initial password does not outlive its week unnoticed: /me asks every
\* user who still has it for a new one as soon as the week is over, also one
\* who chose to keep it.  The flags that say so are cleared only after the
\* provider has the new password, whatever fails between the two.
DefaultExpires ==
    \A u \in Users : initial[u] /\ ~young[u] => MustChangePassword(u)

\* A reset link changes one password at most, however many requests present it.
OneChangePerLink == \A t \in Tokens : grants[t] <= 1

\* KeepDefaultPassword is refused once a password was changed ("an account
\* that already set a real password could re-trigger KeptDefaultPassword"):
\* a user who was told so is never asked again, unless a request to keep the
\* default password overlapped the change.
ChangedIsNotAsked ==
    \A u \in told \ crossed : ~must[u] /\ ~kept[u]

(* The flags of a default password are neither cleared too early nor set    *)
(* too late: DefaultExpires and ChangedIsNotAsked.                          *)
DefaultsHandled == DefaultExpires /\ ChangedIsNotAsked

(* A link changes one password, however many requests carry it.             *)
LinksConsistent ==
    /\ TypeOK
    /\ OneChangePerLink

=============================================================================
