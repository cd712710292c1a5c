------------------------------ MODULE Erasure ------------------------------
(***************************************************************************)
(* The erasure of students: the admin's "erase person" and "delete"        *)
(* (people/students.go), the nightly retention purge and the hourly retry  *)
(* of the identity cleanup (automation/data_retention.go and               *)
(* identity_erasure_retry.go).  Each works statement by statement, against *)
(* the database and the identity provider, with no transaction around.     *)
(*                                                                         *)
(* Of a profile only the presence of personal data is kept.  Scrubbing a   *)
(* user is two updates of its row; between them, or when the second fails, *)
(* it counts as not scrubbed.  Which profiles are past the retention       *)
(* window is a choice.  A call of the provider may take effect and still   *)
(* be reported as failed; a statement of the database that fails has done  *)
(* nothing.  A deadline makes every further call of its request fail.      *)
(***************************************************************************)
EXTENDS Naturals, FiniteSets

CONSTANTS
    Students,   \* student_profiles rows
    Users,      \* identities available to users rows and provider accounts (a bound)
    Requests,   \* HTTP requests in progress at the same time (a bound)
    Retention,  \* the run of the retention agent; the scheduler starts one at a time
    Retry,      \* the run of the retry agent, likewise
    Faults,     \* what may fail: "database", "deadline", "server"
    MaxFaults,  \* how often (a bound); the provider fails at will
    None        \* no student, no user

Actors == Requests \union {Retention, Retry}

ASSUME NoneAssumption == None \notin Students \union Users
ASSUME AgentsAssumption == Retention # Retry /\ Retention \notin Requests /\ Retry \notin Requests
ASSUME FaultsAssumption == MaxFaults \in Nat

VARIABLES
    profile,    \* student_profiles: "held", "erased", "refilled" or "deleted"
    link,       \* student_profiles.user_id
    row,        \* users: "unused", "live", "scrubbed" or "deleted"
    account,    \* the users that have an account at the identity provider
    listed,     \* pending_identity_erasures: the users that have a row
    localDone,  \* its flags
    idpDone,
    pc,         \* where each actor stands
    job,        \* what it works on, and which halves it knows to be done
    todo,       \* what an agent has listed and not begun
    expired,    \* the actors whose context is done
    faults,     \* failures so far
    due,        \* history: users of profiles that were anonymised
    forgotten   \* history: due users whose cleanup was dropped by a failure

tables == <<profile, link, row, account, listed, localDone, idpDone>>
history == <<faults, due, forgotten>>
vars == <<profile, link, row, account, listed, localDone, idpDone, pc, job, todo,
          expired, faults, due, forgotten>>

Work == [student: Students \union {None}, user: Users \union {None},
         local: BOOLEAN, idp: BOOLEAN]
NoWork == [student |-> None, user |-> None, local |-> FALSE, idp |-> FALSE]
Steps == {"idle", "next", "anonymise", "scrub", "account", "record", "clear",
          "delete_profile", "delete_row", "delete_account"}

TypeOK ==
    /\ profile \in [Students -> {"held", "erased", "refilled", "deleted"}]
    /\ link \in [Students -> Users \union {None}]
    /\ row \in [Users -> {"unused", "live", "scrubbed", "deleted"}]
    /\ account \subseteq Users
    /\ listed \subseteq Users
    /\ localDone \subseteq listed
    /\ idpDone \subseteq listed
    /\ pc \in [Actors -> Steps]
    /\ job \in [Actors -> Work]
    /\ todo \in [Actors -> SUBSET Work]
    /\ expired \subseteq Actors
    /\ faults \in 0..MaxFaults
    /\ due \subseteq Users
    /\ forgotten \subseteq due

Init ==
    /\ profile = [s \in Students |-> "held"]
    /\ link = [s \in Students |-> None]
    /\ row = [u \in Users |-> "unused"]
    /\ account = {}
    /\ listed = {}
    /\ localDone = {}
    /\ idpDone = {}
    /\ pc = [a \in Actors |-> "idle"]
    /\ job = [a \in Actors |-> NoWork]
    /\ todo = [a \in Actors |-> {}]
    /\ expired = {}
    /\ faults = 0
    /\ due = {}
    /\ forgotten = {}

-----------------------------------------------------------------------------
(* Helpers *)

Goto(a, step) == pc' = [pc EXCEPT ![a] = step]

(* A request returns; an agent goes on to the next on its list. *)
After(a) == IF a \in Requests THEN "idle" ELSE "next"

(* The context of an actor that is done has no deadline to miss. *)
Finish(a) ==
    /\ Goto(a, After(a))
    /\ job' = [job EXCEPT ![a] = NoWork]
    /\ expired' = IF a \in Requests THEN expired \ {a} ELSE expired

Fault(kind) ==
    /\ kind \in Faults /\ faults < MaxFaults
    /\ faults' = faults + 1

(* A statement that the database does not execute. *)
StatementFails(a) ==
    \/ a \in expired /\ UNCHANGED faults
    \/ a \notin expired /\ Fault("database")

Cleaned(u) == row[u] \in {"scrubbed", "deleted"} /\ u \notin account

(* An actor between the anonymisation and the record of what is missing. *)
Holds(a, u) == job[a].user = u /\ pc[a] \in {"scrub", "account", "record"}

-----------------------------------------------------------------------------
(* What the rest of the system does to the same rows. *)

(* Account activation links a sign-in to a profile that has none.  A code  *)
(* that was issued before the profile was erased is still accepted.        *)
Activate(s, u) ==
    /\ profile[s] # "deleted" /\ link[s] = None
    /\ row[u] = "unused"
    /\ link' = [link EXCEPT ![s] = u]
    /\ row' = [row EXCEPT ![u] = "live"]
    /\ account' = account \union {u}
    /\ UNCHANGED <<profile, listed, localDone, idpDone, pc, job, todo, expired, history>>

(* The edit form does not look at erased_at. *)
Update(s) ==
    /\ profile[s] = "erased"
    /\ profile' = [profile EXCEPT ![s] = "refilled"]
    /\ UNCHANGED <<link, row, account, listed, localDone, idpDone, pc, job, todo,
                   expired, history>>

-----------------------------------------------------------------------------
(* The starts: what each reads first, and works on from then. *)

WorkOn(s) == [student |-> s, user |-> link[s], local |-> FALSE, idp |-> FALSE]
RetryOf(u) == [student |-> None, user |-> u, local |-> u \in localDone, idp |-> u \in idpDone]

Begin(r, s, step) ==
    /\ pc[r] = "idle" /\ profile[s] # "deleted"
    /\ Goto(r, step)
    /\ job' = [job EXCEPT ![r] = WorkOn(s)]
    /\ UNCHANGED <<tables, todo, expired, history>>

Erase(r, s) == Begin(r, s, "anonymise")

Delete(r, s) == Begin(r, s, "delete_profile")

Run(a, list) ==
    /\ pc[a] = "idle" /\ list # {}
    /\ Goto(a, "next")
    /\ todo' = [todo EXCEPT ![a] = list]
    /\ UNCHANGED <<tables, job, expired, history>>

(* ListStudentsPastRetention: not those that were erased, refilled or not. *)
RunRetention(S) ==
    /\ \A s \in S : profile[s] = "held"
    /\ Run(Retention, {WorkOn(s) : s \in S})

(* Mutant of RunRetry: a record with one half done is left alone. *)
RunRetryUntouched == Run(Retry, {RetryOf(u) : u \in listed \ (localDone \union idpDone)})

(* ListPendingErasures, at most 200 of them. *)
RunRetry == Run(Retry, {RetryOf(u) : u \in listed \ (localDone \intersect idpDone)})

Take(a, w) ==
    /\ pc[a] = "next" /\ w \in todo[a]
    /\ Goto(a, IF w.student # None THEN "anonymise"
               ELSE IF w.local THEN "account" ELSE "scrub")
    /\ job' = [job EXCEPT ![a] = w]
    /\ todo' = [todo EXCEPT ![a] = @ \ {w}]
    /\ UNCHANGED <<tables, expired, history>>

EndRun(a) ==
    /\ pc[a] = "next" /\ todo[a] = {}
    /\ Goto(a, "idle")
    /\ expired' = expired \ {a}
    /\ UNCHANGED <<tables, job, todo, history>>

-----------------------------------------------------------------------------
(* The steps of an erasure or a retry. *)

(* AnonymizeStudentProfile; of a profile that is gone by now it changes    *)
(* nothing and reports no error.                                           *)
Anonymise(a) ==
    /\ pc[a] = "anonymise" /\ a \notin expired
    /\ LET s == job[a].student
           u == job[a].user
       IN /\ profile' = IF profile[s] = "deleted" THEN profile
                        ELSE [profile EXCEPT ![s] = "erased"]
          /\ IF u = None
             THEN Finish(a) /\ UNCHANGED <<due, forgotten>>
             ELSE /\ Goto(a, "scrub")
                  /\ due' = due \union {u}
                  /\ forgotten' = forgotten \ {u}
                  /\ UNCHANGED <<job, expired>>
    /\ UNCHANGED <<link, row, account, listed, localDone, idpDone, todo, faults>>

AnonymiseFails(a) ==
    /\ pc[a] = "anonymise"
    /\ StatementFails(a)
    /\ Finish(a)
    /\ UNCHANGED <<tables, todo, due, forgotten>>

(* EraseUser, EraseStudentUser: an error if the row is gone. *)
Scrub(a) ==
    /\ pc[a] = "scrub" /\ a \notin expired
    /\ Goto(a, "account")
    /\ IF row[job[a].user] = "deleted" THEN UNCHANGED <<row, job>>
       ELSE /\ row' = [row EXCEPT ![job[a].user] = "scrubbed"]
            /\ job' = [job EXCEPT ![a].local = TRUE]
    /\ UNCHANGED <<profile, link, account, listed, localDone, idpDone, todo, expired,
                   history>>

ScrubFails(a) ==
    /\ pc[a] = "scrub"
    /\ StatementFails(a)
    /\ Goto(a, "account")
    /\ UNCHANGED <<tables, job, todo, expired, due, forgotten>>

(* Mutant of Settled: one half is enough. *)
SettledByEither(a, idp) ==
    IF job[a].local \/ idp THEN (IF a = Retry THEN "clear" ELSE After(a)) ELSE "record"

(* Where the outcome of both halves leads. *)
Settled(a, idp) ==
    IF job[a].local /\ idp THEN (IF a = Retry THEN "clear" ELSE After(a)) ELSE "record"

(* Mutant of Settle: the local half alone decides. *)
SettleByLocal(a, idp) ==
    /\ job' = [job EXCEPT ![a].idp = idp]
    /\ Goto(a, IF job[a].local THEN (IF a = Retry THEN "clear" ELSE After(a)) ELSE "record")
    /\ UNCHANGED expired

Settle(a, idp) ==
    /\ job' = [job EXCEPT ![a].idp = idp]
    /\ Goto(a, Settled(a, idp))
    /\ expired' = IF Settled(a, idp) = "idle" THEN expired \ {a} ELSE expired

(* DeleteUser at the provider, where an account that is not there counts   *)
(* as deleted; a retry leaves it out once it is done.                      *)
DeleteAccount(a) ==
    /\ pc[a] = "account"
    /\ job[a].idp \/ a \notin expired
    /\ account' = IF job[a].idp THEN account ELSE account \ {job[a].user}
    /\ Settle(a, TRUE)
    /\ UNCHANGED <<profile, link, row, listed, localDone, idpDone, todo, history>>

(* Mutant of DeleteAccountFails: the failure is not noticed. *)
DeleteAccountFailsSilently(a, effect) ==
    /\ pc[a] = "account" /\ ~job[a].idp
    /\ account' = IF effect /\ a \notin expired THEN account \ {job[a].user} ELSE account
    /\ Settle(a, TRUE)
    /\ UNCHANGED <<profile, link, row, listed, localDone, idpDone, todo, history>>

DeleteAccountFails(a, effect) ==
    /\ pc[a] = "account" /\ ~job[a].idp
    /\ account' = IF effect /\ a \notin expired THEN account \ {job[a].user} ELSE account
    /\ Settle(a, FALSE)
    /\ UNCHANGED <<profile, link, row, listed, localDone, idpDone, todo, history>>

(* UpsertPendingErasure: a flag that is set stays set. *)
Record(a) ==
    /\ pc[a] = "record" /\ a \notin expired
    /\ LET u == job[a].user
       IN /\ listed' = listed \union {u}
          /\ localDone' = IF job[a].local THEN localDone \union {u} ELSE localDone
          /\ idpDone' = IF job[a].idp THEN idpDone \union {u} ELSE idpDone
    /\ Finish(a)
    /\ UNCHANGED <<profile, link, row, account, todo, history>>

(* The failure to record what is missing is only logged. *)
RecordFails(a) ==
    /\ pc[a] = "record"
    /\ StatementFails(a)
    /\ forgotten' = forgotten \union ({job[a].user} \ listed)
    /\ Finish(a)
    /\ UNCHANGED <<tables, todo, due>>

(* Mutant of Clear: the flags of the row outlive it. *)
ClearRowOnly(a) ==
    /\ pc[a] = "clear" /\ a \notin expired
    /\ listed' = listed \ {job[a].user}
    /\ Finish(a)
    /\ UNCHANGED <<profile, link, row, account, localDone, idpDone, todo, history>>

(* DeletePendingErasure, by the id of the row that was listed. *)
Clear(a) ==
    /\ pc[a] = "clear" /\ a \notin expired
    /\ listed' = listed \ {job[a].user}
    /\ localDone' = localDone \ {job[a].user}
    /\ idpDone' = idpDone \ {job[a].user}
    /\ Finish(a)
    /\ UNCHANGED <<profile, link, row, account, todo, history>>

ClearFails(a) ==
    /\ pc[a] = "clear"
    /\ StatementFails(a)
    /\ Finish(a)
    /\ UNCHANGED <<tables, todo, due, forgotten>>

-----------------------------------------------------------------------------
(* The steps of a deletion.  What fails is reported to the admin. *)

DeleteProfile(r) ==
    /\ pc[r] = "delete_profile" /\ r \notin expired
    /\ profile' = [profile EXCEPT ![job[r].student] = "deleted"]
    /\ IF job[r].user = None THEN Finish(r)
       ELSE Goto(r, "delete_row") /\ UNCHANGED <<job, expired>>
    /\ UNCHANGED <<link, row, account, listed, localDone, idpDone, todo, history>>

DeleteRow(r) ==
    /\ pc[r] = "delete_row" /\ r \notin expired
    /\ row' = [row EXCEPT ![job[r].user] = "deleted"]
    /\ Goto(r, "delete_account")
    /\ UNCHANGED <<profile, link, account, listed, localDone, idpDone, job, todo,
                   expired, history>>

DropAccount(r, effect) ==
    /\ pc[r] = "delete_account"
    /\ account' = IF effect /\ r \notin expired THEN account \ {job[r].user} ELSE account
    /\ Finish(r)
    /\ UNCHANGED <<profile, link, row, listed, localDone, idpDone, todo, history>>

DeleteFails(r) ==
    /\ pc[r] \in {"delete_profile", "delete_row"}
    /\ StatementFails(r)
    /\ Finish(r)
    /\ UNCHANGED <<tables, todo, due, forgotten>>

-----------------------------------------------------------------------------
(* The deadline of a request, 15 seconds, or of a run, 5 minutes. *)
Expire(a) ==
    /\ pc[a] # "idle" /\ a \notin expired
    /\ Fault("deadline")
    /\ expired' = expired \union {a}
    /\ UNCHANGED <<tables, pc, job, todo, due, forgotten>>

(* The server stops: what was under way is gone. *)
Stop ==
    /\ Fault("server")
    /\ forgotten' = forgotten \union {u \in due \ listed : \E a \in Actors : Holds(a, u)}
    /\ pc' = [a \in Actors |-> "idle"]
    /\ job' = [a \in Actors |-> NoWork]
    /\ todo' = [a \in Actors |-> {}]
    /\ expired' = {}
    /\ UNCHANGED <<tables, due>>

World ==
    \/ \E s \in Students, u \in Users : Activate(s, u)
    \/ \E s \in Students : Update(s)

Receive(r) == \E s \in Students : Erase(r, s) \/ Delete(r, s)

Listed(a) == (\E w \in todo[a] : Take(a, w)) \/ EndRun(a)

Clean(a) ==
    \/ Anonymise(a) \/ AnonymiseFails(a)
    \/ Scrub(a) \/ ScrubFails(a)
    \/ DeleteAccount(a)
    \/ \E effect \in BOOLEAN : DeleteAccountFails(a, effect)
    \/ Record(a) \/ RecordFails(a)
    \/ Clear(a) \/ ClearFails(a)

Remove(r) ==
    \/ DeleteProfile(r)
    \/ DeleteRow(r)
    \/ \E effect \in BOOLEAN : DropAccount(r, effect)
    \/ DeleteFails(r)

Next ==
    \/ World
    \/ \E r \in Requests : Receive(r) \/ Remove(r)
    \/ \E S \in SUBSET Students : RunRetention(S)
    \/ RunRetry
    \/ \E a \in Actors : Listed(a) \/ Clean(a) \/ Expire(a)
    \/ Stop

Spec == Init /\ [][Next]_vars

(* The clock starts the retry every hour, a run goes on to its end, and    *)
(* the provider does not refuse the same user for ever.                    *)
Fairness ==
    /\ WF_vars(RunRetry)
    /\ WF_vars(Listed(Retry) \/ Clean(Retry))
    /\ \A u \in Users : SF_vars(job[Retry].user = u /\ DeleteAccount(Retry))

FairSpec == Spec /\ Fairness

-----------------------------------------------------------------------------
(* Properties *)

(* Once a profile is anonymised, the cleanup of its user is done, or kept  *)
(* in a retry record, or in the hands of a request or run, unless a        *)
(* failure dropped it (Erase: "must not be forgotten").                    *)
NothingForgotten ==
    \A u \in due \ forgotten :
        Cleaned(u) \/ u \in listed \/ \E a \in Actors : Holds(a, u)

(* What a retry record says is done, is done: a half that was deleted or   *)
(* scrubbed never comes back, whoever else works on the user               *)
(* (UpsertPendingErasure merges the flags of all of them).                 *)
FlagsTruthful ==
    /\ \A u \in localDone : row[u] \in {"scrubbed", "deleted"}
    /\ \A u \in idpDone : u \notin account

(* However often the provider fails, a recorded cleanup is done in the     *)
(* end, except the local half of a user row somebody deleted               *)
(* (IdentityErasureRetryAgent).                                            *)
RecordedIsCleaned ==
    \A u \in Users : u \in listed ~> Cleaned(u)

Status(u) ==
    CASE u \notin due -> "kept"
      [] u \in due /\ Cleaned(u) -> "done"
      [] u \in due /\ ~Cleaned(u) /\ (u \in listed \/ \E a \in Actors : Holds(a, u)) -> "due"
      [] OTHER -> "lost"

Promise == INSTANCE CleanupPromise
    WITH status <- [u \in Users |-> Status(u)], faulty <- faults > 0

(* Through all interleavings of erasures, deletions, purges and retries, a *)
(* cleanup that is due stays due until it is done, as the promise says.    *)
KeepsPromise == Promise!Spec

(* What is still to be cleaned up is recorded or under way unless a failure *)
(* lost it, and no record says that something is done that is not.          *)
CleanupRecorded ==
    /\ TypeOK
    /\ NothingForgotten
    /\ FlagsTruthful

=============================================================================
