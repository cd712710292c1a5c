--------------------------- MODULE WorkflowEngine ---------------------------
(***************************************************************************)
(* The engine of the year-end workflows (modules/workflows/service.go) and *)
(* the workflow_runs table it keeps.  Several HTTP requests run at once;   *)
(* each is a sequence of statements against Postgres at READ COMMITTED, so *)
(* a request may be interrupted by others between any two of them.  What   *)
(* holds the requests apart is the row lock of SELECT ... FOR UPDATE (and  *)
(* of UPDATE), and the unique index on open proposals.                     *)
(*                                                                         *)
(* A proposal is abstracted to the set of its cells that were changed by   *)
(* hand.  The writes a workflow makes to the school's data are abstracted  *)
(* to their count: applies[x] and reverts[x] say how often the engine      *)
(* committed the writes of run x and how often it undid them.              *)
(***************************************************************************)
EXTENDS Integers, FiniteSets

CONSTANTS
    Runs,      \* identities available to workflow_runs rows (a bound)
    Scopes,    \* (workflow_key, scope_key) pairs
    Cells,     \* the editable cells of a proposal
    Requests,  \* HTTP requests in progress at the same time (a bound)
    None       \* no scope, no run, no lock holder

ASSUME NoneAssumption == None \notin Runs \union Scopes \union Requests

VARIABLES
    state,    \* workflow_runs.state, "absent" while there is no such row
    scope,    \* workflow_runs.workflow_key and scope_key
    edits,    \* workflow_runs.proposal
    written,  \* the proposal the workflow's Apply was given
    lock,     \* the request whose transaction holds the row lock of a run
    pc,       \* where each request stands
    op,       \* the operation each request performs
    target,   \* the run it was called for
    goal,     \* the scope it proposes for
    copy,     \* the proposal as the request read it
    applies,  \* history: how often the writes of a run were committed
    reverts,  \* history: how often they were undone
    acked     \* history: the edits whose request was told they are saved

table == <<state, scope, edits, written>>
request == <<pc, op, target, goal, copy>>
history == <<applies, reverts, acked>>
vars == <<state, scope, edits, written, lock, pc, op, target, goal, copy,
          applies, reverts, acked>>

RunStates == {"absent", "proposed", "applied", "discarded", "reverted"}
Operations == {"none", "propose", "edit", "apply", "discard", "revert"}
Steps == {"idle", "discard_open", "insert", "lock", "write"}

TypeOK ==
    /\ state \in [Runs -> RunStates]
    /\ scope \in [Runs -> Scopes \union {None}]
    /\ edits \in [Runs -> SUBSET Cells]
    /\ written \in [Runs -> SUBSET Cells]
    /\ lock \in [Runs -> Requests \union {None}]
    /\ pc \in [Requests -> Steps]
    /\ op \in [Requests -> Operations]
    /\ target \in [Requests -> Runs \union {None}]
    /\ goal \in [Requests -> Scopes \union {None}]
    /\ copy \in [Requests -> SUBSET Cells]
    /\ applies \in [Runs -> Nat]
    /\ reverts \in [Runs -> Nat]
    /\ acked \in [Runs -> SUBSET Cells]

Init ==
    /\ state = [x \in Runs |-> "absent"]
    /\ scope = [x \in Runs |-> None]
    /\ edits = [x \in Runs |-> {}]
    /\ written = [x \in Runs |-> {}]
    /\ lock = [x \in Runs |-> None]
    /\ pc = [r \in Requests |-> "idle"]
    /\ op = [r \in Requests |-> "none"]
    /\ target = [r \in Requests |-> None]
    /\ goal = [r \in Requests |-> None]
    /\ copy = [r \in Requests |-> {}]
    /\ applies = [x \in Runs |-> 0]
    /\ reverts = [x \in Runs |-> 0]
    /\ acked = [x \in Runs |-> {}]

-----------------------------------------------------------------------------
(* Helpers *)

OpenRuns(s) == {x \in Runs : state[x] = "proposed" /\ scope[x] = s}

(* The state a run must be in for the operation, read under its lock. *)
RequiredState(o) == IF o = "revert" THEN "applied" ELSE "proposed"

(* Mutant of EndTx: the transaction is left open. *)
EndTxLeaky(r) ==
    /\ lock' = lock
    /\ pc' = [pc EXCEPT ![r] = "idle"]
    /\ op' = [op EXCEPT ![r] = "none"]
    /\ target' = [target EXCEPT ![r] = None]
    /\ goal' = [goal EXCEPT ![r] = None]
    /\ copy' = [copy EXCEPT ![r] = {}]

(* The end of a transaction, by commit or rollback: its locks are gone and *)
(* the request is over.                                                    *)
EndTx(r) ==
    /\ lock' = [x \in Runs |-> IF lock[x] = r THEN None ELSE lock[x]]
    /\ pc' = [pc EXCEPT ![r] = "idle"]
    /\ op' = [op EXCEPT ![r] = "none"]
    /\ target' = [target EXCEPT ![r] = None]
    /\ goal' = [goal EXCEPT ![r] = None]
    /\ copy' = [copy EXCEPT ![r] = {}]

-----------------------------------------------------------------------------
(* Propose.  The checks and the dry run read the school's data before any  *)
(* transaction; what they find is not modelled, a refusal is Fail.  The    *)
(* guard on Runs is the bound on rows: every proposal under way finds one. *)

BeginPropose(r, s) ==
    /\ pc[r] = "idle"
    /\ Cardinality({x \in Runs : state[x] = "absent"})
         > Cardinality({q \in Requests : op[q] = "propose"})
    /\ pc' = [pc EXCEPT ![r] = "discard_open"]
    /\ op' = [op EXCEPT ![r] = "propose"]
    /\ goal' = [goal EXCEPT ![r] = s]
    /\ UNCHANGED <<table, lock, target, copy, history>>

(* DiscardOpenWorkflowRuns: the UPDATE waits for the lock of every row it  *)
(* matches, then holds those locks; nothing is visible before the commit.  *)
DiscardOpen(r) ==
    /\ pc[r] = "discard_open"
    /\ \A x \in OpenRuns(goal[r]) : lock[x] = None
    /\ lock' = [x \in Runs |-> IF x \in OpenRuns(goal[r]) THEN r ELSE lock[x]]
    /\ pc' = [pc EXCEPT ![r] = "insert"]
    /\ UNCHANGED <<table, op, target, goal, copy, history>>

(* Mutant of IndexConflict: the table has no such index. *)
NoIndex(r) == FALSE

(* The unique index: another open proposal of the scope, one this          *)
(* transaction did not just discard.                                       *)
IndexConflict(r) == \E x \in OpenRuns(goal[r]) : lock[x] # r

(* CreateWorkflowRun and the commit of both statements. *)
InsertRun(r, x) ==
    /\ pc[r] = "insert"
    /\ ~IndexConflict(r)
    /\ state[x] = "absent"
    /\ state' = [y \in Runs |-> IF y = x THEN "proposed"
                                ELSE IF lock[y] = r THEN "discarded"
                                ELSE state[y]]
    /\ scope' = [scope EXCEPT ![x] = goal[r]]
    /\ EndTx(r)
    /\ UNCHANGED <<edits, written, history>>

(* A concurrent proposal of the same scope came first: the insert fails    *)
(* and the transaction, with the discards it made, is rolled back.         *)
InsertConflict(r) ==
    /\ pc[r] = "insert"
    /\ IndexConflict(r)
    /\ EndTx(r)
    /\ UNCHANGED <<table, history>>

-----------------------------------------------------------------------------
(* Edit, Apply, Discard and Revert name a run.  Apply reads it first       *)
(* without a lock, to run the checks outside the transaction.              *)

Begin(r, x, o) ==
    /\ pc[r] = "idle"
    /\ state[x] # "absent"
    /\ o \in {"edit", "apply", "discard", "revert"}
    /\ pc' = [pc EXCEPT ![r] = "lock"]
    /\ op' = [op EXCEPT ![r] = o]
    /\ target' = [target EXCEPT ![r] = x]
    /\ copy' = [copy EXCEPT ![r] = IF o = "apply" THEN edits[x] ELSE {}]
    /\ UNCHANGED <<table, lock, goal, history>>

(* Mutants of LockRun: without FOR UPDATE, with the proposal as it was     *)
(* before the lock, and with no look at the state of a run to discard.     *)
LockRunUnlocked(r) ==
    /\ pc[r] = "lock"
    /\ state[target[r]] = RequiredState(op[r])
    /\ copy' = [copy EXCEPT ![r] = edits[target[r]]]
    /\ pc' = [pc EXCEPT ![r] = "write"]
    /\ UNCHANGED <<table, lock, op, target, goal, history>>

LockRunStale(r) ==
    /\ pc[r] = "lock"
    /\ lock[target[r]] = None
    /\ state[target[r]] = RequiredState(op[r])
    /\ lock' = [lock EXCEPT ![target[r]] = r]
    /\ copy' = IF op[r] = "apply" THEN copy ELSE [copy EXCEPT ![r] = edits[target[r]]]
    /\ pc' = [pc EXCEPT ![r] = "write"]
    /\ UNCHANGED <<table, op, target, goal, history>>

LockRunAnyState(r) ==
    /\ pc[r] = "lock"
    /\ lock[target[r]] = None
    /\ op[r] = "discard" \/ state[target[r]] = RequiredState(op[r])
    /\ lock' = [lock EXCEPT ![target[r]] = r]
    /\ copy' = [copy EXCEPT ![r] = edits[target[r]]]
    /\ pc' = [pc EXCEPT ![r] = "write"]
    /\ UNCHANGED <<table, op, target, goal, history>>

(* SELECT ... FOR UPDATE: waits for the row lock, then reads the row as it *)
(* is now; the request goes on only from the state its operation needs.    *)
LockRun(r) ==
    /\ pc[r] = "lock"
    /\ lock[target[r]] = None
    /\ state[target[r]] = RequiredState(op[r])
    /\ lock' = [lock EXCEPT ![target[r]] = r]
    /\ copy' = [copy EXCEPT ![r] = edits[target[r]]]
    /\ pc' = [pc EXCEPT ![r] = "write"]
    /\ UNCHANGED <<table, op, target, goal, history>>

(* ErrNotProposed, ErrNotApplied: found in another state, rolled back. *)
LockRefused(r) ==
    /\ pc[r] = "lock"
    /\ lock[target[r]] = None
    /\ state[target[r]] # RequiredState(op[r])
    /\ EndTx(r)
    /\ UNCHANGED <<table, history>>

(* The whole proposal is written back, with one cell changed. *)
SaveEdit(r, c) ==
    /\ pc[r] = "write" /\ op[r] = "edit"
    /\ edits' = [edits EXCEPT ![target[r]] = copy[r] \union {c}]
    /\ acked' = [acked EXCEPT ![target[r]] = @ \union {c}]
    /\ EndTx(r)
    /\ UNCHANGED <<state, scope, written, applies, reverts>>

(* The workflow's Apply with the locked proposal, then markApplied. *)
WriteApply(r) ==
    /\ pc[r] = "write" /\ op[r] = "apply"
    /\ state' = [state EXCEPT ![target[r]] = "applied"]
    /\ written' = [written EXCEPT ![target[r]] = copy[r]]
    /\ applies' = [applies EXCEPT ![target[r]] = @ + 1]
    /\ EndTx(r)
    /\ UNCHANGED <<scope, edits, reverts, acked>>

(* Mutant of WriteDiscard: a state the schema knows and the engine never   *)
(* writes (MarkWorkflowRunFailed has no caller).                           *)
WriteDiscardFailed(r) ==
    /\ pc[r] = "write" /\ op[r] = "discard"
    /\ state' = [state EXCEPT ![target[r]] = "failed"]
    /\ EndTx(r)
    /\ UNCHANGED <<scope, edits, written, history>>

(* Discard, under the lock. *)
WriteDiscard(r) ==
    /\ pc[r] = "write" /\ op[r] = "discard"
    /\ state' = [state EXCEPT ![target[r]] = "discarded"]
    /\ EndTx(r)
    /\ UNCHANGED <<scope, edits, written, history>>

(* The workflow's Revert with the stored snapshot, then markState. *)
WriteRevert(r) ==
    /\ pc[r] = "write" /\ op[r] = "revert"
    /\ state' = [state EXCEPT ![target[r]] = "reverted"]
    /\ reverts' = [reverts EXCEPT ![target[r]] = @ + 1]
    /\ EndTx(r)
    /\ UNCHANGED <<scope, edits, written, applies, acked>>

(* A request fails: a blocking check, a workflow that refuses to apply or  *)
(* revert, a database error, a client that goes away, a server that stops. *)
(* Its transaction is rolled back.                                         *)
Fail(r) ==
    /\ pc[r] # "idle"
    /\ EndTx(r)
    /\ UNCHANGED <<table, history>>

-----------------------------------------------------------------------------
Write(r) ==
    \/ \E c \in Cells : SaveEdit(r, c)
    \/ WriteApply(r)
    \/ WriteDiscard(r)
    \/ WriteRevert(r)

Insert(r) == InsertConflict(r) \/ \E x \in Runs : InsertRun(r, x)

Take(r) == LockRun(r) \/ LockRefused(r)

Next ==
    \E r \in Requests :
        \/ \E s \in Scopes : BeginPropose(r, s)
        \/ \E x \in Runs, o \in Operations : Begin(r, x, o)
        \/ DiscardOpen(r)
        \/ Insert(r)
        \/ Take(r)
        \/ Write(r)
        \/ Fail(r)

Spec == Init /\ [][Next]_vars

(* Nobody has to send a request, but one that was received is executed:    *)
(* the handler runs on, and Postgres grants a contended row lock to its    *)
(* waiters in turn, so one that is wanted and free again and again is      *)
(* obtained.                                                               *)
Fairness ==
    \A r \in Requests :
        /\ WF_vars(Insert(r))
        /\ WF_vars(Write(r))
        /\ SF_vars(DiscardOpen(r))
        /\ SF_vars(Take(r))

FairSpec == Spec /\ Fairness

-----------------------------------------------------------------------------
(* Properties *)

(* At most one open proposal per workflow and scope, whatever requests for *)
(* the same scope overlap (idx_workflow_runs_one_open).                    *)
OneOpenPerScope ==
    \A x, y \in Runs :
        state[x] = "proposed" /\ state[y] = "proposed" /\ scope[x] = scope[y]
            => x = y

(* The writes of a run are in the school's data exactly when the run says  *)
(* "applied", and no run is written or undone twice: two Apply (or two     *)
(* Revert) calls of the same run, or an Apply and a Discard, cannot both   *)
(* go through (Engine.Apply and Engine.Revert re-read the row under lock). *)
WritesMatchState ==
    \A x \in Runs :
        /\ applies[x] = IF state[x] \in {"applied", "reverted"} THEN 1 ELSE 0
        /\ reverts[x] = IF state[x] = "reverted" THEN 1 ELSE 0

(* An edit that was acknowledged is neither lost to a concurrent edit of   *)
(* another cell nor missing from what Apply writes.                        *)
NoLostEdit ==
    \A x \in Runs :
        /\ acked[x] = edits[x]
        /\ state[x] \in {"applied", "reverted"} => written[x] = acked[x]

(* However its requests overlap, the engine behaves as a table of runs     *)
(* each of which goes through its life in atomic steps.                    *)
Lifecycle == INSTANCE RunLifecycle
ImplementsLifecycle == Lifecycle!Spec

(* No request waits for ever for a row lock: no cycle of waiting requests, *)
(* and no transaction that keeps its locks.                                *)
EveryRequestEnds ==
    \A r \in Requests : pc[r] # "idle" ~> pc[r] = "idle"

(* A run that says it is applied has written once, no run has written       *)
(* twice, and a scope has one open proposal at most, with two requests on   *)
(* the same runs at any moment.                                             *)
RunsConsistent ==
    /\ TypeOK
    /\ OneOpenPerScope
    /\ WritesMatchState

=============================================================================
