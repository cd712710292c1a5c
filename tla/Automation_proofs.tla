-------------------------- MODULE Automation_proofs --------------------------
(***************************************************************************)
(* Proofs about what works in the background: the runs of the workflow     *)
(* engine, the jobs of the agents, and what the year-end workflows write.  *)
(*                                                                         *)
(* WorkflowEngine, for any number of runs, scopes, cells and concurrent    *)
(* requests.  None of the properties is inductive by itself: each depends  *)
(* on what a request knows while it is inside a transaction.  LockInv says *)
(* it: a request about to write holds the lock of its run and of no other, *)
(* the run is in the state the operation needs and the copy of its         *)
(* proposal is current; a request about to insert holds locks of open runs *)
(* of its scope only; every other request holds no lock.                   *)
(*                                                                         *)
(* JobScheduler, for any number of jobs, ticks, failed statements and      *)
(* restarts: a job runs once at a time, and its history is short and true. *)
(*                                                                         *)
(* YearEnd, for any students, classes and runs, with any number of changes *)
(* by hand between an apply and its revert, or inside the revert.          *)
(***************************************************************************)
EXTENDS WorkflowEngine, JobScheduler, YearEnd, FiniteSetTheorems, TLAPS


RunOps == {"edit", "apply", "discard", "revert"}

(* What is known of one request, by where it stands. *)
RequestInv(r) ==
    /\ pc[r] \in {"idle", "discard_open", "lock"} => \A x \in Runs : lock[x] # r
    /\ pc[r] \in {"discard_open", "insert"} => goal[r] \in Scopes
    /\ pc[r] = "insert" =>
          \A x \in Runs : lock[x] = r => x \in OpenRuns(goal[r])
    /\ pc[r] \in {"lock", "write"} => target[r] \in Runs /\ op[r] \in RunOps
    /\ pc[r] = "write" =>
          /\ \A x \in Runs : lock[x] = r <=> x = target[r]
          /\ state[target[r]] = RequiredState(op[r])
          /\ copy[r] = edits[target[r]]

LockInv == \A r \in Requests : RequestInv(r)

(* A row that is not there has no lock holder and was never written. *)
AbsentInv == \A x \in Runs : state[x] = "absent" => lock[x] = None

IInv ==
    /\ TypeOK
    /\ LockInv
    /\ AbsentInv
    /\ OneOpenPerScope
    /\ WritesMatchState
    /\ NoLostEdit

-----------------------------------------------------------------------------
(* What the end of a transaction leaves behind. *)
LEMMA EndTxFacts ==
    ASSUME TypeOK, NEW r \in Requests, EndTx(r)
    PROVE  /\ lock' \in [Runs -> Requests \union {None}]
           /\ pc' \in [Requests -> Steps]
           /\ op' \in [Requests -> Operations]
           /\ target' \in [Requests -> Runs \union {None}]
           /\ goal' \in [Requests -> Scopes \union {None}]
           /\ copy' \in [Requests -> SUBSET Cells]
           /\ \A x \in Runs : lock'[x] = IF lock[x] = r THEN None ELSE lock[x]
           /\ pc'[r] = "idle"
           /\ \A q \in Requests \ {r} :
                 /\ pc'[q] = pc[q] /\ op'[q] = op[q] /\ target'[q] = target[q]
                 /\ goal'[q] = goal[q] /\ copy'[q] = copy[q]
  BY DEF EndTx, TypeOK, Steps, Operations

(* A request that is not in the transaction keeps what it knows, because   *)
(* the rows it has locked are not touched.                                 *)
LEMMA OthersKeep ==
    ASSUME TypeOK, NEW r \in Requests, NEW q \in Requests \ {r}, RequestInv(q),
           \A x \in Runs : lock'[x] = lock[x] \/ {lock[x], lock'[x]} \subseteq {r, None},
           pc'[q] = pc[q], op'[q] = op[q], target'[q] = target[q],
           goal'[q] = goal[q], copy'[q] = copy[q],
           \A x \in Runs : lock[x] = q =>
              state'[x] = state[x] /\ scope'[x] = scope[x] /\ edits'[x] = edits[x]
    PROVE  RequestInv(q)'
  <1>0. \A x \in Runs : lock'[x] = q <=> lock[x] = q
    BY NoneAssumption
  <1>1. pc[q] = "insert" =>
          \A x \in Runs : lock'[x] = q => x \in OpenRuns(goal[q])'
    BY <1>0 DEF RequestInv, OpenRuns
  <1>2. pc[q] = "write" => state'[target[q]] = state[target[q]]
                             /\ edits'[target[q]] = edits[target[q]]
    BY DEF RequestInv
  <1> QED
    BY <1>0, <1>1, <1>2 DEF RequestInv, OpenRuns, RequiredState

-----------------------------------------------------------------------------
(* The inductive invariant, one lemma per kind of action. *)

LEMMA InitIInv == Init => IInv
  BY NoneAssumption
  DEF Init, IInv, TypeOK, LockInv, RequestInv, AbsentInv, OneOpenPerScope,
      WritesMatchState, NoLostEdit, RunStates, Operations, Steps

LEMMA BeginProposeIInv ==
    ASSUME IInv, NEW r \in Requests, NEW s \in Scopes, BeginPropose(r, s)
    PROVE  IInv'
  <1> USE DEF table, history
  <1>1. TypeOK'
    BY DEF IInv, TypeOK, BeginPropose, Steps, Operations
  <1>2. ASSUME NEW q \in Requests PROVE RequestInv(q)'
    <2>1. CASE q = r
      BY <2>1 DEF IInv, LockInv, RequestInv, TypeOK, BeginPropose
    <2>2. CASE q # r
      BY <2>2, OthersKeep DEF IInv, LockInv, TypeOK, BeginPropose
    <2> QED
      BY <2>1, <2>2
  <1> QED
    BY <1>1, <1>2 DEF IInv, LockInv, AbsentInv, OneOpenPerScope, WritesMatchState,
                      NoLostEdit, BeginPropose

LEMMA BeginIInv ==
    ASSUME IInv, NEW r \in Requests, NEW x \in Runs, NEW o \in Operations,
           Begin(r, x, o)
    PROVE  IInv'
  <1> USE DEF table, history
  <1>1. TypeOK'
    BY DEF IInv, TypeOK, Begin, Steps, Operations
  <1>2. ASSUME NEW q \in Requests PROVE RequestInv(q)'
    <2>1. CASE q = r
      BY <2>1 DEF IInv, LockInv, RequestInv, RunOps, TypeOK, Begin
    <2>2. CASE q # r
      BY <2>2, OthersKeep DEF IInv, LockInv, TypeOK, Begin
    <2> QED
      BY <2>1, <2>2
  <1> QED
    BY <1>1, <1>2 DEF IInv, LockInv, AbsentInv, OneOpenPerScope, WritesMatchState,
                      NoLostEdit, Begin

LEMMA DiscardOpenIInv ==
    ASSUME IInv, NEW r \in Requests, DiscardOpen(r)
    PROVE  IInv'
  <1> USE DEF table, history
  <1>1. TypeOK'
    BY DEF IInv, TypeOK, DiscardOpen, Steps
  <1>2. ASSUME NEW q \in Requests PROVE RequestInv(q)'
    <2>1. CASE q = r
      BY <2>1, NoneAssumption
      DEF IInv, LockInv, RequestInv, TypeOK, DiscardOpen, OpenRuns
    <2>2. CASE q # r
      <3>1. \A x \in Runs :
              lock'[x] = lock[x] \/ {lock[x], lock'[x]} \subseteq {r, None}
        BY DEF DiscardOpen
      <3> QED
        BY <2>2, <3>1, OthersKeep DEF IInv, LockInv, TypeOK, DiscardOpen
    <2> QED
      BY <2>1, <2>2
  <1>3. AbsentInv'
    BY DEF IInv, AbsentInv, DiscardOpen, OpenRuns
  <1> QED
    BY <1>1, <1>2, <1>3 DEF IInv, LockInv, OneOpenPerScope, WritesMatchState,
                            NoLostEdit, DiscardOpen

LEMMA InsertRunIInv ==
    ASSUME IInv, NEW r \in Requests, NEW x \in Runs, InsertRun(r, x)
    PROVE  IInv'
  <1> USE DEF table, history
  <1>0. /\ EndTx(r) /\ TypeOK /\ RequestInv(r) /\ goal[r] \in Scopes
        /\ lock[x] = None
    BY DEF IInv, LockInv, RequestInv, AbsentInv, InsertRun
  <1>1. TypeOK'
    BY <1>0, EndTxFacts DEF TypeOK, InsertRun, RunStates
  <1>2. ASSUME NEW q \in Requests PROVE RequestInv(q)'
    <2>1. CASE q = r
      BY <1>0, <2>1, EndTxFacts, NoneAssumption DEF RequestInv
    <2>2. CASE q # r
      <3>1. \A y \in Runs :
              lock'[y] = lock[y] \/ {lock[y], lock'[y]} \subseteq {r, None}
        BY <1>0, EndTxFacts
      <3>2. \A y \in Runs : lock[y] = q =>
              state'[y] = state[y] /\ scope'[y] = scope[y] /\ edits'[y] = edits[y]
        BY <1>0, <2>2, NoneAssumption DEF InsertRun, TypeOK
      <3> QED
        BY <1>0, <2>2, <3>1, <3>2, EndTxFacts, OthersKeep DEF IInv, LockInv
    <2> QED
      BY <2>1, <2>2
  <1>3. AbsentInv'
    <2>1. \A y \in Runs : lock'[y] = IF lock[y] = r THEN None ELSE lock[y]
      BY <1>0, EndTxFacts
    <2> QED
      BY <2>1 DEF IInv, AbsentInv, InsertRun
  <1>4. OneOpenPerScope'
    <2>1. \A y \in Runs : y # x /\ state'[y] = "proposed"
             => state[y] = "proposed" /\ scope'[y] = scope[y] /\ scope[y] # goal[r]
      BY <1>0 DEF InsertRun, IndexConflict, OpenRuns, TypeOK
    <2>2. scope'[x] = goal[r]
      BY <1>0 DEF InsertRun, TypeOK
    <2> QED
      BY <2>1, <2>2 DEF IInv, OneOpenPerScope
  <1>5. WritesMatchState'
    <2>1. \A y \in Runs : /\ state'[y] \in {"applied", "reverted"}
                               => state'[y] = state[y]
                          /\ state[y] \in {"applied", "reverted"}
                               => state'[y] = state[y]
      BY <1>0 DEF InsertRun, RequestInv, OpenRuns, TypeOK
    <2>2. applies' = applies /\ reverts' = reverts
      BY DEF InsertRun
    <2> QED
      BY <2>1, <2>2 DEF IInv, WritesMatchState
  <1>6. NoLostEdit'
    <2>1. \A y \in Runs : state'[y] \in {"applied", "reverted"}
                            => state[y] \in {"applied", "reverted"}
      BY <1>0 DEF InsertRun, TypeOK
    <2> QED
      BY <2>1 DEF IInv, NoLostEdit, InsertRun
  <1> QED
    BY <1>1, <1>2, <1>3, <1>4, <1>5, <1>6 DEF IInv, LockInv

LEMMA RollbackIInv ==
    ASSUME IInv, NEW r \in Requests,
           InsertConflict(r) \/ LockRefused(r) \/ Fail(r)
    PROVE  IInv'
  <1> USE DEF table, history
  <1>0. TypeOK /\ EndTx(r) /\ UNCHANGED <<table, history>>
    BY DEF IInv, InsertConflict, LockRefused, Fail
  <1>1. TypeOK'
    BY <1>0, EndTxFacts DEF TypeOK
  <1>2. ASSUME NEW q \in Requests PROVE RequestInv(q)'
    <2>1. CASE q = r
      BY <1>0, <2>1, EndTxFacts, NoneAssumption DEF RequestInv
    <2>2. CASE q # r
      <3>1. \A y \in Runs :
              lock'[y] = lock[y] \/ {lock[y], lock'[y]} \subseteq {r, None}
        BY <1>0, EndTxFacts
      <3> QED
        BY <1>0, <2>2, <3>1, EndTxFacts, OthersKeep DEF IInv, LockInv
    <2> QED
      BY <2>1, <2>2
  <1>3. AbsentInv'
    <2>1. \A y \in Runs : lock'[y] = IF lock[y] = r THEN None ELSE lock[y]
      BY <1>0, EndTxFacts
    <2> QED
      BY <1>0, <2>1 DEF IInv, AbsentInv
  <1> QED
    BY <1>0, <1>1, <1>2, <1>3 DEF IInv, LockInv, OneOpenPerScope,
                                  WritesMatchState, NoLostEdit

LEMMA LockRunIInv ==
    ASSUME IInv, NEW r \in Requests, LockRun(r)
    PROVE  IInv'
  <1> USE DEF table, history
  <1>0. target[r] \in Runs /\ op[r] \in RunOps /\ RequestInv(r)
    BY DEF IInv, LockInv, RequestInv, LockRun
  <1>1. TypeOK'
    BY <1>0 DEF IInv, TypeOK, LockRun, Steps
  <1>2. ASSUME NEW q \in Requests PROVE RequestInv(q)'
    <2>1. CASE q = r
      BY <1>0, <2>1, NoneAssumption
      DEF IInv, RequestInv, TypeOK, LockRun, RequiredState
    <2>2. CASE q # r
      <3>1. \A y \in Runs :
              lock'[y] = lock[y] \/ {lock[y], lock'[y]} \subseteq {r, None}
        BY <1>0 DEF IInv, TypeOK, LockRun
      <3> QED
        BY <2>2, <3>1, OthersKeep DEF IInv, LockInv, TypeOK, LockRun
    <2> QED
      BY <2>1, <2>2
  <1>3. AbsentInv'
    BY <1>0 DEF IInv, AbsentInv, TypeOK, LockRun, RequiredState
  <1> QED
    BY <1>1, <1>2, <1>3 DEF IInv, LockInv, OneOpenPerScope, WritesMatchState,
                            NoLostEdit, LockRun

(* The writes: only the locked run changes, to a state no open run has. *)
LEMMA WriteIInv ==
    ASSUME IInv, NEW r \in Requests, Write(r)
    PROVE  IInv'
  <1> USE DEF table, history
  <1> DEFINE t == target[r]
  <1>0. /\ TypeOK /\ EndTx(r) /\ pc[r] = "write" /\ t \in Runs
        /\ \A x \in Runs : lock[x] = r <=> x = t
        /\ state[t] = RequiredState(op[r])
        /\ copy[r] = edits[t]
    BY DEF IInv, LockInv, RequestInv, Write, SaveEdit, WriteApply, WriteDiscard,
           WriteRevert
  <1>1. /\ \A y \in Runs \ {t} : /\ state'[y] = state[y] /\ edits'[y] = edits[y]
                                 /\ written'[y] = written[y]
                                 /\ applies'[y] = applies[y]
                                 /\ reverts'[y] = reverts[y]
                                 /\ acked'[y] = acked[y]
        /\ scope' = scope
    BY <1>0 DEF TypeOK, Write, SaveEdit, WriteApply, WriteDiscard, WriteRevert
  <1>2. TypeOK'
    <2>1. CASE \E c \in Cells : SaveEdit(r, c)
      BY <1>0, <2>1, EndTxFacts DEF TypeOK, SaveEdit
    <2>2. CASE WriteApply(r)
      BY <1>0, <2>2, EndTxFacts DEF TypeOK, RunStates, WriteApply
    <2>3. CASE WriteDiscard(r)
      BY <1>0, <2>3, EndTxFacts DEF TypeOK, RunStates, WriteDiscard
    <2>4. CASE WriteRevert(r)
      BY <1>0, <2>4, EndTxFacts DEF TypeOK, RunStates, WriteRevert
    <2> QED
      BY <2>1, <2>2, <2>3, <2>4 DEF Write
  <1>3. ASSUME NEW q \in Requests PROVE RequestInv(q)'
    <2>1. CASE q = r
      BY <1>0, <2>1, EndTxFacts, NoneAssumption DEF RequestInv
    <2>2. CASE q # r
      <3>1. \A y \in Runs :
              lock'[y] = lock[y] \/ {lock[y], lock'[y]} \subseteq {r, None}
        BY <1>0, EndTxFacts
      <3>2. \A y \in Runs : lock[y] = q =>
              state'[y] = state[y] /\ scope'[y] = scope[y] /\ edits'[y] = edits[y]
        BY <1>0, <1>1, <2>2
      <3> QED
        BY <1>0, <2>2, <3>1, <3>2, EndTxFacts, OthersKeep DEF IInv, LockInv
    <2> QED
      BY <2>1, <2>2
  <1>4. AbsentInv'
    <2>1. \A y \in Runs : lock'[y] = IF lock[y] = r THEN None ELSE lock[y]
      BY <1>0, EndTxFacts
    <2> QED
      BY <1>0, <1>1, <2>1 DEF IInv, AbsentInv
  <1>5. OneOpenPerScope'
    <2>1. state'[t] = "proposed" => state[t] = "proposed"
      BY <1>0 DEF TypeOK, Write, SaveEdit, WriteApply, WriteDiscard, WriteRevert
    <2> QED
      BY <1>1, <2>1 DEF IInv, OneOpenPerScope
  <1>6. WritesMatchState' /\ NoLostEdit'
    <2>0. /\ applies[t] = IF state[t] \in {"applied", "reverted"} THEN 1 ELSE 0
          /\ reverts[t] = IF state[t] = "reverted" THEN 1 ELSE 0
          /\ acked[t] = edits[t]
          /\ state[t] \in {"applied", "reverted"} => written[t] = acked[t]
      BY <1>0 DEF IInv, WritesMatchState, NoLostEdit
    <2>1. /\ applies'[t] = IF state'[t] \in {"applied", "reverted"} THEN 1 ELSE 0
          /\ reverts'[t] = IF state'[t] = "reverted" THEN 1 ELSE 0
          /\ acked'[t] = edits'[t]
          /\ state'[t] \in {"applied", "reverted"} => written'[t] = acked'[t]
      <3>1. ASSUME NEW c \in Cells, SaveEdit(r, c)
            PROVE  edits'[t] = edits[t] \union {c} /\ acked'[t] = acked[t] \union {c}
                     /\ UNCHANGED <<state, written, applies, reverts>>
        BY <1>0, <3>1 DEF TypeOK, SaveEdit
      <3>2. CASE WriteApply(r)
        BY <1>0, <2>0, <3>2 DEF TypeOK, RequiredState, WriteApply
      <3>3. CASE WriteDiscard(r)
        BY <1>0, <2>0, <3>3 DEF TypeOK, RequiredState, WriteDiscard
      <3>4. CASE WriteRevert(r)
        BY <1>0, <2>0, <3>4 DEF TypeOK, RequiredState, WriteRevert
      <3>5. ASSUME NEW c \in Cells, SaveEdit(r, c)
            PROVE  state[t] = "proposed"
        BY <1>0, <3>5 DEF RequiredState, SaveEdit
      <3> QED
        BY <2>0, <3>1, <3>2, <3>3, <3>4, <3>5 DEF Write
    <2> QED
      BY <1>1, <2>0, <2>1 DEF IInv, WritesMatchState, NoLostEdit
  <1> QED
    BY <1>2, <1>3, <1>4, <1>5, <1>6 DEF IInv, LockInv

-----------------------------------------------------------------------------
LEMMA NextIInv == IInv /\ [Next]_vars => IInv'
  <1> SUFFICES ASSUME IInv, [Next]_vars PROVE IInv'
    OBVIOUS
  <1>1. CASE UNCHANGED vars
    BY <1>1 DEF vars, IInv, TypeOK, LockInv, RequestInv, OpenRuns, AbsentInv,
                OneOpenPerScope, WritesMatchState, NoLostEdit
  <1>2. CASE Next
    BY <1>2, BeginProposeIInv, BeginIInv, DiscardOpenIInv, InsertRunIInv,
       RollbackIInv, LockRunIInv, WriteIInv
    DEF Next, Insert, Take
  <1> QED
    BY <1>1, <1>2

THEOREM Inductive == Spec => []IInv
  BY InitIInv, NextIInv, PTL DEF Spec

(* Every column and every local variable of a request has its type.        *)
THEOREM TypeCorrect == Spec => []TypeOK
  BY Inductive, PTL DEF IInv

(* However many requests propose for a scope at once, at most one of its   *)
(* proposals is open.                                                      *)
THEOREM AtMostOneOpen == Spec => []OneOpenPerScope
  BY Inductive, PTL DEF IInv

(* A run's writes are in the school's data exactly while it says           *)
(* "applied": no interleaving applies or reverts a run twice.              *)
THEOREM AppliedOnce == Spec => []WritesMatchState
  BY Inductive, PTL DEF IInv

(* Acknowledged edits survive concurrent edits and reach Apply.            *)
THEOREM EditsKept == Spec => []NoLostEdit
  BY Inductive, PTL DEF IInv

-----------------------------------------------------------------------------
(* Refinement: each step of the engine is a step of RunLifecycle or leaves *)
(* its variables alone.                                                    *)

LEMMA InitRefines == Init => Lifecycle!Init
  BY DEF Init, Lifecycle!Init

LEMMA InsertRefines ==
    ASSUME IInv, NEW r \in Requests, NEW x \in Runs, InsertRun(r, x)
    PROVE  Lifecycle!Open(x, goal[r])
  <1>0. TypeOK /\ RequestInv(r) /\ pc[r] = "insert" /\ ~IndexConflict(r)
    BY DEF IInv, LockInv, InsertRun
  <1>1. \A y \in Runs : lock[y] = r <=> y \in OpenRuns(goal[r])
    BY <1>0 DEF RequestInv, IndexConflict, OpenRuns
  <1> QED
    BY <1>0, <1>1
    DEF InsertRun, TypeOK, OpenRuns, Lifecycle!Open, Lifecycle!OpenRuns

LEMMA WriteRefines ==
    ASSUME IInv, NEW r \in Requests, Write(r)
    PROVE  Lifecycle!Next
  <1> DEFINE t == target[r]
  <1>0. /\ TypeOK /\ t \in Runs
        /\ state[t] = RequiredState(op[r])
        /\ copy[r] = edits[t]
    BY DEF IInv, LockInv, RequestInv, Write, SaveEdit, WriteApply, WriteDiscard,
           WriteRevert
  <1>1. ASSUME NEW c \in Cells, SaveEdit(r, c) PROVE Lifecycle!Edit(t, c)
    BY <1>0, <1>1 DEF SaveEdit, RequiredState, Lifecycle!Edit
  <1>2. ASSUME WriteApply(r) PROVE Lifecycle!Apply(t)
    BY <1>0, <1>2 DEF WriteApply, RequiredState, Lifecycle!Apply
  <1>3. ASSUME WriteDiscard(r) PROVE Lifecycle!Discard(t)
    BY <1>0, <1>3 DEF WriteDiscard, RequiredState, table, history, Lifecycle!Discard
  <1>4. ASSUME WriteRevert(r) PROVE Lifecycle!Revert(t)
    BY <1>0, <1>4 DEF WriteRevert, RequiredState, Lifecycle!Revert
  <1> QED
    BY <1>0, <1>1, <1>2, <1>3, <1>4 DEF Write, Lifecycle!Next

LEMMA NextRefines == IInv /\ [Next]_vars => [Lifecycle!Next]_(Lifecycle!vars)
  <1> SUFFICES ASSUME IInv, [Next]_vars
               PROVE  Lifecycle!Next \/ UNCHANGED table
    BY DEF Lifecycle!vars, table
  <1>1. CASE UNCHANGED vars
    BY <1>1 DEF vars, table
  <1>2. ASSUME NEW r \in Requests, NEW x \in Runs, InsertRun(r, x)
        PROVE  Lifecycle!Next
    <2>1. goal[r] \in Scopes
      BY <1>2 DEF IInv, LockInv, RequestInv, InsertRun
    <2> QED
      BY <1>2, <2>1, InsertRefines DEF Lifecycle!Next
  <1>3. ASSUME NEW r \in Requests, Write(r) PROVE Lifecycle!Next
    BY <1>3, WriteRefines
  <1>4. ASSUME Next PROVE Lifecycle!Next \/ UNCHANGED table
    BY <1>2, <1>3, <1>4
    DEF Next, Insert, Take, BeginPropose, Begin, DiscardOpen, InsertConflict,
        LockRun, LockRefused, Fail
  <1> QED
    BY <1>1, <1>4

(* The engine implements the life cycle of runs: seen through the          *)
(* workflow_runs table alone, overlapping requests are atomic.             *)
THEOREM EngineImplementsLifecycle == Spec => ImplementsLifecycle
  <1>1. IInv /\ [Next]_vars => [Lifecycle!Next]_(Lifecycle!vars)
    BY NextRefines
  <1> QED
    BY InitRefines, <1>1, Inductive, PTL DEF Spec, ImplementsLifecycle, Lifecycle!Spec

(* RunsConsistent: whatever overlaps, the runs of a scope agree with what  *)
(* was written for them, for any sets of runs, scopes and requests.        *)
THEOREM RunsStayConsistent == Spec => []RunsConsistent
  BY TypeCorrect, AtMostOneOpen, AppliedOnce, PTL DEF RunsConsistent

-----------------------------------------------------------------------------
(* JobScheduler. *)

USE NobodyAssumption, BoundsAssumption

-----------------------------------------------------------------------------
(* The inductive invariant: what the goroutines, the locks and the table   *)
(* know of each other.                                                     *)

\* The goroutine that holds a lock is the one between TryLock and Unlock.
LockTrue ==
    \A g \in Starters, j \in Jobs :
        (starter[g].pc \in Held /\ starter[g].job = j) <=> mutex[j] = g

\* A start is stamped under the lock, so that a stamp names one run.
Recording == {"start", "run", "finish"}

StampsApart ==
    \A g, h \in Starters :
        /\ starter[g].pc \in Recording => starter[g].run <= clock
        /\ /\ starter[g].pc \in Recording
           /\ starter[h].pc \in Recording
           /\ starter[g].run = starter[h].run
           => g = h

RunsOf(j) == {r \in DOMAIN records : records[r].job = j}

\* The run under way comes on top of the runs that are kept.
UnderWay(j) ==
    \E g \in Starters :
        starter[g].pc \in {"run", "finish", "prune"} /\ starter[g].job = j

ShortOf(j) ==
    /\ Cardinality(RunsOf(j)) <= Keep + 1 + faults
    /\ ~UnderWay(j) => Cardinality(RunsOf(j)) <= Keep + faults

Short == \A j \in Jobs : ShortOf(j)

SInv ==
    /\ SchedulerTypeOK
    /\ LockTrue
    /\ StampsApart
    /\ HistoryTrue
    /\ Short

-----------------------------------------------------------------------------
(* Lemmas. *)

\* Of any finite set of numbers, at most k have less than k greater ones:
\* no two of them have the same number of greater ones.
LEMMA NewestAreFew ==
    ASSUME NEW S \in SUBSET Nat, IsFiniteSet(S), NEW k \in Nat \ {0}
    PROVE  Cardinality({r \in S : Cardinality({i \in S : i > r}) < k}) <= k
<1>1. PICK T : T = {r \in S : Cardinality({i \in S : i > r}) < k}
    OBVIOUS
<1>2. PICK f : f = [r \in T |-> Cardinality({i \in S : i > r})]
    OBVIOUS
<1>3. ASSUME NEW r \in S
      PROVE  /\ IsFiniteSet({i \in S : i > r})
             /\ Cardinality({i \in S : i > r}) \in Nat
    <2>1. {i \in S : i > r} \in SUBSET S
        OBVIOUS
    <2>2. IsFiniteSet({i \in S : i > r})
        BY <2>1, FS_Subset
    <2>3. QED
        BY <2>2, FS_CardinalityType
<1>4. f \in [T -> 0..(k - 1)]
    <2>1. \A r \in T : Cardinality({i \in S : i > r}) \in 0..(k - 1)
        BY <1>1, <1>3
    <2>2. QED
        BY <2>1, <1>2
<1>5. ASSUME NEW r \in T, NEW s \in T, r < s
      PROVE  f[r] # f[s]
    <2>1. r \in S /\ s \in S /\ r \in Nat /\ s \in Nat
        BY <1>1
    <2>2. {i \in S : i > s} \in SUBSET {i \in S : i > r}
        <3>1. \A i \in S : i > s => i > r
            BY <2>1, <1>5
        <3>2. QED
            BY <3>1
    <2>3. s \in {i \in S : i > r} /\ s \notin {i \in S : i > s}
        <3>1. s > r /\ ~(s > s)
            BY <2>1, <1>5
        <3>2. QED
            BY <2>1, <3>1
    <2>4. IsFiniteSet({i \in S : i > r})
        BY <2>1, <1>3
    <2>5. ASSUME NEW U, NEW V, IsFiniteSet(U), V \in SUBSET U, s \in U, s \notin V
          PROVE  Cardinality(U) # Cardinality(V)
        BY <2>5, FS_Subset
    <2>6. Cardinality({i \in S : i > r}) # Cardinality({i \in S : i > s})
        BY <2>2, <2>3, <2>4, <2>5
    <2>7. QED
        BY <2>6, <1>2
<1>6. \A r, s \in T : r # s => f[r] # f[s]
    <2>1. \A r \in T : r \in Nat
        BY <1>1
    <2>2. QED
        BY <2>1, <1>5
<1>7. IsFiniteSet(T) /\ Cardinality(T) \in Nat
    <2>1. T \in SUBSET S
        BY <1>1
    <2>2. QED
        BY <2>1, FS_Subset, FS_CardinalityType
<1>8. IsFiniteSet(0..(k - 1)) /\ Cardinality(0..(k - 1)) = k
    <2>1. k - 1 \in Int /\ ~(0 > k - 1) /\ (k - 1) - 0 + 1 = k
        OBVIOUS
    <2>2. QED
        BY <2>1, FS_Interval
<1>9. ~(Cardinality(0..(k - 1)) < Cardinality(T))
    BY <1>4, <1>6, <1>7, <1>8, FS_PigeonHole
<1>10. QED
    BY <1>1, <1>7, <1>8, <1>9

\* A goroutine at work knows its job, and from its start its run.
LEMMA WorkOf ==
    ASSUME SchedulerTypeOK, NEW g \in Starters
    PROVE  /\ starter[g].pc \in {"start", "run", "finish", "prune"} =>
                  starter[g] \in [pc : {"start", "run", "finish", "prune"},
                                  job : Jobs, run : 1..MaxRuns]
           /\ starter[g].pc \in {"ready", "unrecorded"} =>
                  starter[g] \in [pc : {"ready", "unrecorded"}, job : Jobs]
           /\ starter[g].pc \in {"idle", "ready"} \cup Held
BY DEF SchedulerTypeOK, Work, Idle, Held

\* The runs of a job are finitely many.
LEMMA RunsAreFinite ==
    ASSUME SchedulerTypeOK, NEW j
    PROVE  /\ IsFiniteSet(DOMAIN records)
           /\ IsFiniteSet(RunsOf(j))
           /\ Cardinality(RunsOf(j)) \in Nat
<1>1. IsFiniteSet(DOMAIN records)
    <2>1. MaxRuns \in Int /\ DOMAIN records \in SUBSET (1..MaxRuns)
        BY DEF SchedulerTypeOK
    <2>2. IsFiniteSet(1..MaxRuns)
        BY FS_Interval
    <2>3. QED
        BY <2>1, <2>2, FS_Subset
<1>2. RunsOf(j) \in SUBSET DOMAIN records
    BY DEF RunsOf
<1>3. IsFiniteSet(RunsOf(j))
    BY <1>1, <1>2, FS_Subset
<1>4. QED
    BY <1>1, <1>3, FS_CardinalityType

\* The types are kept by every step.
LEMMA TypeStep ==
    ASSUME SchedulerTypeOK, [SchedulerNext]_schedulerVars
    PROVE  SchedulerTypeOK'
<1>1. ASSUME NEW j \in Jobs, NEW on \in BOOLEAN, SetEnabled(j, on)
      PROVE  SchedulerTypeOK'
    BY <1>1 DEF SchedulerTypeOK, SetEnabled
<1>2. ASSUME NEW g \in Starters, NEW j \in Jobs, Check(g, j)
      PROVE  SchedulerTypeOK'
    BY <1>2, WorkOf DEF SchedulerTypeOK, Work, Check, Goto
<1>3. ASSUME NEW g \in Starters, Refuse(g)
      PROVE  SchedulerTypeOK'
    BY <1>3, WorkOf DEF SchedulerTypeOK, Work, Refuse, Goto
<1>4. ASSUME NEW g \in Starters, TryLock(g)
      PROVE  SchedulerTypeOK'
    BY <1>4, WorkOf DEF SchedulerTypeOK, Work, TryLock, Goto
<1>5. ASSUME NEW g \in Starters, StartRun(g)
      PROVE  SchedulerTypeOK'
    BY <1>5, WorkOf DEF SchedulerTypeOK, Work, StartRun, Goto, WithRun, Run
<1>6. ASSUME NEW g \in Starters, StartRunFails(g)
      PROVE  SchedulerTypeOK'
    BY <1>6, WorkOf DEF SchedulerTypeOK, Work, StartRunFails, Goto, WithRun, Run, Fault
<1>7. ASSUME NEW g \in Starters, JobEnds(g)
      PROVE  SchedulerTypeOK'
    BY <1>7, WorkOf DEF SchedulerTypeOK, Work, JobEnds, Goto
<1>8. ASSUME NEW g \in Starters, UnrecordedEnds(g)
      PROVE  SchedulerTypeOK'
    BY <1>8, WorkOf DEF SchedulerTypeOK, Work, UnrecordedEnds, Goto, Return
<1>9. ASSUME NEW g \in Starters, FinishRun(g)
      PROVE  SchedulerTypeOK'
    BY <1>9, WorkOf DEF SchedulerTypeOK, Work, FinishRun, Goto, WithEnd, Run
<1>10. ASSUME NEW g \in Starters, FinishRunFails(g)
      PROVE  SchedulerTypeOK'
    BY <1>10, WorkOf
       DEF SchedulerTypeOK, Work, FinishRunFails, Goto, Return, WithEnd, Run, Fault
<1>11. ASSUME NEW g \in Starters, Prune(g)
      PROVE  SchedulerTypeOK'
    BY <1>11, WorkOf DEF SchedulerTypeOK, Work, Prune, Goto, Return, Pruned, Kept, Run
<1>12. ASSUME NEW g \in Starters, PruneFails(g)
      PROVE  SchedulerTypeOK'
    BY <1>12, WorkOf DEF SchedulerTypeOK, Work, PruneFails, Goto, Return, Fault
<1>13. ASSUME Restart
      PROVE  SchedulerTypeOK'
    <2>1. /\ starter' \in [Starters -> Work]
          /\ mutex' \in [Jobs -> Starters \cup {Nobody}]
        BY <1>13 DEF Restart, Work
    <2>2. orphaned' \subseteq 1..MaxRuns
        BY <1>13 DEF SchedulerTypeOK, Restart
    <2>3. faults' \in 0..MaxFaults
        BY <1>13 DEF SchedulerTypeOK, Restart, Fault
    <2>4. QED
        BY <1>13, <2>1, <2>2, <2>3 DEF SchedulerTypeOK, Restart
<1>14. CASE UNCHANGED schedulerVars
    BY <1>14 DEF SchedulerTypeOK, schedulerVars
<1>15. QED
    BY <1>1, <1>2, <1>3, <1>4, <1>5, <1>6, <1>7, <1>8, <1>9, <1>10, <1>11,
       <1>12, <1>13, <1>14
       DEF SchedulerNext, Execute

\* Only TryLock takes a lock, a free one, and only the end of execute or a
\* restart gives it back.
LEMMA LockStep ==
    ASSUME SchedulerTypeOK, LockTrue, [SchedulerNext]_schedulerVars
    PROVE  LockTrue'
<1>1. ASSUME NEW j \in Jobs, NEW on \in BOOLEAN, SetEnabled(j, on)
      PROVE  LockTrue'
    BY <1>1 DEF LockTrue, SetEnabled
<1>2. ASSUME NEW g \in Starters, NEW j \in Jobs, Check(g, j)
      PROVE  LockTrue'
    BY <1>2, WorkOf DEF SchedulerTypeOK, LockTrue, Held, Check, Goto
<1>3. ASSUME NEW g \in Starters, Refuse(g)
      PROVE  LockTrue'
    BY <1>3, WorkOf DEF SchedulerTypeOK, LockTrue, Held, Refuse, Goto, Return, Idle
<1>4. ASSUME NEW g \in Starters, TryLock(g)
      PROVE  LockTrue'
    BY <1>4, WorkOf DEF SchedulerTypeOK, LockTrue, Held, TryLock, Goto
<1>5. ASSUME NEW g \in Starters, StartRun(g)
      PROVE  LockTrue'
    BY <1>5, WorkOf DEF SchedulerTypeOK, LockTrue, Held, StartRun, Goto
<1>6. ASSUME NEW g \in Starters, StartRunFails(g)
      PROVE  LockTrue'
    BY <1>6, WorkOf DEF SchedulerTypeOK, LockTrue, Held, StartRunFails, Goto
<1>7. ASSUME NEW g \in Starters, JobEnds(g)
      PROVE  LockTrue'
    BY <1>7, WorkOf DEF SchedulerTypeOK, LockTrue, Held, JobEnds, Goto
<1>8. ASSUME NEW g \in Starters, UnrecordedEnds(g)
      PROVE  LockTrue'
    BY <1>8, WorkOf
       DEF SchedulerTypeOK, LockTrue, Held, UnrecordedEnds, Goto, Return, Idle
<1>9. ASSUME NEW g \in Starters, FinishRun(g)
      PROVE  LockTrue'
    BY <1>9, WorkOf DEF SchedulerTypeOK, LockTrue, Held, FinishRun, Goto
<1>10. ASSUME NEW g \in Starters, FinishRunFails(g)
      PROVE  LockTrue'
    BY <1>10, WorkOf
       DEF SchedulerTypeOK, LockTrue, Held, FinishRunFails, Goto, Return, Idle
<1>11. ASSUME NEW g \in Starters, Prune(g)
      PROVE  LockTrue'
    BY <1>11, WorkOf DEF SchedulerTypeOK, LockTrue, Held, Prune, Goto, Return, Idle
<1>12. ASSUME NEW g \in Starters, PruneFails(g)
      PROVE  LockTrue'
    BY <1>12, WorkOf DEF SchedulerTypeOK, LockTrue, Held, PruneFails, Goto, Return, Idle
<1>13. ASSUME Restart
      PROVE  LockTrue'
    BY <1>13 DEF LockTrue, Restart, Idle, Held
<1>14. CASE UNCHANGED schedulerVars
    BY <1>14 DEF LockTrue, schedulerVars
<1>15. QED
    BY <1>1, <1>2, <1>3, <1>4, <1>5, <1>6, <1>7, <1>8, <1>9, <1>10, <1>11,
       <1>12, <1>13, <1>14
       DEF SchedulerNext, Execute

\* A new stamp is greater than all others.
LEMMA StampsStep ==
    ASSUME SchedulerTypeOK, StampsApart, [SchedulerNext]_schedulerVars
    PROVE  StampsApart'
<1>1. ASSUME NEW j \in Jobs, NEW on \in BOOLEAN, SetEnabled(j, on)
      PROVE  StampsApart'
    BY <1>1 DEF StampsApart, SetEnabled
<1>2. ASSUME NEW g \in Starters, NEW j \in Jobs, Check(g, j)
      PROVE  StampsApart'
    BY <1>2, WorkOf DEF SchedulerTypeOK, StampsApart, Recording, Check, Goto
<1>3. ASSUME NEW g \in Starters, Refuse(g)
      PROVE  StampsApart'
    BY <1>3, WorkOf
       DEF SchedulerTypeOK, StampsApart, Recording, Refuse, Goto, Return, Idle
<1>4. ASSUME NEW g \in Starters, TryLock(g)
      PROVE  StampsApart'
    BY <1>4, WorkOf DEF SchedulerTypeOK, StampsApart, Recording, TryLock, Goto
<1>5. ASSUME NEW g \in Starters, StartRun(g)
      PROVE  StampsApart'
    BY <1>5, WorkOf DEF SchedulerTypeOK, StampsApart, Recording, StartRun, Goto
<1>6. ASSUME NEW g \in Starters, StartRunFails(g)
      PROVE  StampsApart'
    BY <1>6, WorkOf DEF SchedulerTypeOK, StampsApart, Recording, StartRunFails, Goto
<1>7. ASSUME NEW g \in Starters, JobEnds(g)
      PROVE  StampsApart'
    BY <1>7, WorkOf DEF SchedulerTypeOK, StampsApart, Recording, JobEnds, Goto
<1>8. ASSUME NEW g \in Starters, UnrecordedEnds(g)
      PROVE  StampsApart'
    BY <1>8, WorkOf
       DEF SchedulerTypeOK, StampsApart, Recording, UnrecordedEnds, Goto, Return, Idle
<1>9. ASSUME NEW g \in Starters, FinishRun(g)
      PROVE  StampsApart'
    BY <1>9, WorkOf DEF SchedulerTypeOK, StampsApart, Recording, FinishRun, Goto
<1>10. ASSUME NEW g \in Starters, FinishRunFails(g)
      PROVE  StampsApart'
    BY <1>10, WorkOf
       DEF SchedulerTypeOK, StampsApart, Recording, FinishRunFails, Goto, Return, Idle
<1>11. ASSUME NEW g \in Starters, Prune(g)
      PROVE  StampsApart'
    BY <1>11, WorkOf
       DEF SchedulerTypeOK, StampsApart, Recording, Prune, Goto, Return, Idle
<1>12. ASSUME NEW g \in Starters, PruneFails(g)
      PROVE  StampsApart'
    BY <1>12, WorkOf
       DEF SchedulerTypeOK, StampsApart, Recording, PruneFails, Goto, Return, Idle
<1>13. ASSUME Restart
      PROVE  StampsApart'
    BY <1>13 DEF StampsApart, Restart, Idle, Recording
<1>14. CASE UNCHANGED schedulerVars
    BY <1>14 DEF StampsApart, schedulerVars
<1>15. QED
    BY <1>1, <1>2, <1>3, <1>4, <1>5, <1>6, <1>7, <1>8, <1>9, <1>10, <1>11,
       <1>12, <1>13, <1>14
       DEF SchedulerNext, Execute

\* A run is recorded, finished and pruned by the goroutine that runs it, and
\* nobody else prunes the runs of its job meanwhile.
LEMMA HistoryStep ==
    ASSUME SchedulerTypeOK, LockTrue, StampsApart, HistoryTrue, [SchedulerNext]_schedulerVars
    PROVE  HistoryTrue'
<1>1. ASSUME NEW j \in Jobs, NEW on \in BOOLEAN, SetEnabled(j, on)
      PROVE  HistoryTrue'
    BY <1>1 DEF HistoryTrue, SetEnabled
<1>2. ASSUME NEW g \in Starters, NEW j \in Jobs, Check(g, j)
      PROVE  HistoryTrue'
    BY <1>2, WorkOf
       DEF SchedulerTypeOK, LockTrue, Held, StampsApart, HistoryTrue, Recording, Check,
           Goto
<1>3. ASSUME NEW g \in Starters, Refuse(g)
      PROVE  HistoryTrue'
    BY <1>3, WorkOf
       DEF SchedulerTypeOK, LockTrue, Held, StampsApart, HistoryTrue, Recording,
           Refuse, Goto, Return, Idle
<1>4. ASSUME NEW g \in Starters, TryLock(g)
      PROVE  HistoryTrue'
    BY <1>4, WorkOf
       DEF SchedulerTypeOK, LockTrue, Held, StampsApart, HistoryTrue, Recording,
           TryLock, Goto
<1>5. ASSUME NEW g \in Starters, StartRun(g)
      PROVE  HistoryTrue'
    BY <1>5, WorkOf
       DEF SchedulerTypeOK, LockTrue, Held, StampsApart, HistoryTrue, Recording,
           StartRun, Goto, WithRun, Run
<1>6. ASSUME NEW g \in Starters, StartRunFails(g)
      PROVE  HistoryTrue'
    BY <1>6, WorkOf
       DEF SchedulerTypeOK, LockTrue, Held, StampsApart, HistoryTrue, Recording,
           StartRunFails, Goto, WithRun, Run
<1>7. ASSUME NEW g \in Starters, JobEnds(g)
      PROVE  HistoryTrue'
    BY <1>7, WorkOf
       DEF SchedulerTypeOK, LockTrue, Held, StampsApart, HistoryTrue, Recording,
           JobEnds, Goto
<1>8. ASSUME NEW g \in Starters, UnrecordedEnds(g)
      PROVE  HistoryTrue'
    BY <1>8, WorkOf
       DEF SchedulerTypeOK, LockTrue, Held, StampsApart, HistoryTrue, Recording,
           UnrecordedEnds, Goto, Return, Idle
<1>9. ASSUME NEW g \in Starters, FinishRun(g)
      PROVE  HistoryTrue'
    <2>1. PICK r : r = starter[g].run
        OBVIOUS
    <2>2. \A h \in Starters :
              h # g /\ starter[h].pc \in {"run", "finish"} => starter[h].run # r
        BY <1>9, <2>1 DEF FinishRun, StampsApart, Recording
    <2>3. /\ DOMAIN records' = DOMAIN records
          /\ \A i \in DOMAIN records : i # r => records'[i] = records[i]
          /\ \/ r \in orphaned'
             \/ r \in DOMAIN records => records'[r].status # "running"
          /\ orphaned \subseteq orphaned'
        <3>1. PICK s \in {"ok", "failed"} : records' = WithEnd(r, s)
            BY <1>9, <2>1 DEF FinishRun
        <3>2. DOMAIN records' = DOMAIN records
            BY <3>1 DEF WithEnd
        <3>3. \A i \in DOMAIN records : i # r => records'[i] = records[i]
            BY <3>1 DEF WithEnd
        <3>4. r \in DOMAIN records => records'[r].status = s
            BY <3>1 DEF WithEnd, SchedulerTypeOK, Run
        <3>5. QED
            BY <1>9, <3>1, <3>2, <3>3, <3>4 DEF FinishRun
    <2>4. \A h \in Starters : h # g => starter'[h] = starter[h]
        BY <1>9 DEF SchedulerTypeOK, FinishRun, Goto
    <2>5. starter'[g].pc \notin {"run", "finish"}
        BY <1>9, WorkOf DEF SchedulerTypeOK, FinishRun, Goto
    <2>6. QED
        BY <1>9, <2>1, <2>2, <2>3, <2>4, <2>5 DEF HistoryTrue, FinishRun
<1>10. ASSUME NEW g \in Starters, FinishRunFails(g)
      PROVE  HistoryTrue'
    <2>1. PICK r : r = starter[g].run
        OBVIOUS
    <2>2. \A h \in Starters :
              h # g /\ starter[h].pc \in {"run", "finish"} => starter[h].run # r
        BY <1>10, <2>1 DEF FinishRunFails, StampsApart, Recording
    <2>3. /\ DOMAIN records' = DOMAIN records
          /\ \A i \in DOMAIN records : i # r => records'[i] = records[i]
          /\ \/ r \in orphaned'
             \/ r \in DOMAIN records => records'[r].status # "running"
          /\ orphaned \subseteq orphaned'
        <3>1. CASE records' = records /\ r \in orphaned'
            BY <1>10, <2>1, <3>1 DEF FinishRunFails
        <3>2. CASE /\ \E s \in {"ok", "failed"} : records' = WithEnd(r, s)
                   /\ orphaned' = orphaned
            <4>1. PICK s \in {"ok", "failed"} : records' = WithEnd(r, s)
                BY <3>2
            <4>2. DOMAIN records' = DOMAIN records
                BY <4>1 DEF WithEnd
            <4>3. \A i \in DOMAIN records : i # r => records'[i] = records[i]
                BY <4>1 DEF WithEnd
            <4>4. r \in DOMAIN records => records'[r].status = s
                BY <4>1 DEF WithEnd, SchedulerTypeOK, Run
            <4>5. QED
                BY <3>2, <4>1, <4>2, <4>3, <4>4
        <3>3. QED
            BY <1>10, <2>1, <3>1, <3>2 DEF FinishRunFails
    <2>4. \A h \in Starters : h # g => starter'[h] = starter[h]
        BY <1>10 DEF SchedulerTypeOK, FinishRunFails, Goto, Return
    <2>5. starter'[g].pc \notin {"run", "finish"}
        BY <1>10, WorkOf DEF SchedulerTypeOK, FinishRunFails, Goto, Return, Idle
    <2>6. QED
        BY <1>10, <2>1, <2>2, <2>3, <2>4, <2>5 DEF HistoryTrue, FinishRunFails
<1>11. ASSUME NEW g \in Starters, Prune(g)
      PROVE  HistoryTrue'
    BY <1>11, WorkOf
       DEF SchedulerTypeOK, LockTrue, Held, StampsApart, HistoryTrue, Recording, Prune,
           Goto, Return, Idle, Pruned, Kept
<1>12. ASSUME NEW g \in Starters, PruneFails(g)
      PROVE  HistoryTrue'
    BY <1>12, WorkOf
       DEF SchedulerTypeOK, LockTrue, Held, StampsApart, HistoryTrue, Recording,
           PruneFails, Goto, Return, Idle
<1>13. ASSUME Restart
      PROVE  HistoryTrue'
    <2>1. \A r \in DOMAIN records : records[r].status = "running" => r \in orphaned'
        BY <1>13 DEF Restart
    <2>2. \A g \in Starters : starter'[g].pc = "idle"
        BY <1>13 DEF Restart, Idle
    <2>3. records' = records
        BY <1>13 DEF Restart
    <2>4. QED
        BY <2>1, <2>2, <2>3 DEF HistoryTrue
<1>14. CASE UNCHANGED schedulerVars
    BY <1>14 DEF HistoryTrue, schedulerVars
<1>15. QED
    BY <1>1, <1>2, <1>3, <1>4, <1>5, <1>6, <1>7, <1>8, <1>9, <1>10, <1>11,
       <1>12, <1>13, <1>14
       DEF SchedulerNext, Execute

\* A step that records no run of a job keeps its history short, when the run
\* under way stays under way or a fault is counted.
LEMMA Shorter ==
    ASSUME SchedulerTypeOK, SchedulerTypeOK', NEW j \in Jobs, ShortOf(j),
           RunsOf(j)' \subseteq RunsOf(j),
           \/ faults' = faults /\ (UnderWay(j) => UnderWay(j)')
           \/ faults' = faults + 1
    PROVE  ShortOf(j)'
<1>1. /\ Cardinality(RunsOf(j)) \in Nat
      /\ Cardinality(RunsOf(j)') <= Cardinality(RunsOf(j))
      /\ Cardinality(RunsOf(j)') \in Nat
    BY RunsAreFinite, FS_Subset, FS_CardinalityType
<1>2. Cardinality(RunsOf(j))' = Cardinality(RunsOf(j)')
    OBVIOUS
<1>3. faults \in Nat /\ Keep \in Nat
    BY DEF SchedulerTypeOK
<1>4. QED
    BY <1>1, <1>2, <1>3 DEF ShortOf

\* A step that records one run keeps it short, when that run is under way from
\* then on or a fault is counted.
LEMMA OneMore ==
    ASSUME SchedulerTypeOK, SchedulerTypeOK', NEW j \in Jobs, ShortOf(j), ~UnderWay(j), NEW r,
           RunsOf(j)' \subseteq RunsOf(j) \cup {r},
           \/ faults' = faults /\ UnderWay(j)'
           \/ faults' = faults + 1
    PROVE  ShortOf(j)'
<1>1. /\ IsFiniteSet(RunsOf(j) \cup {r})
      /\ Cardinality(RunsOf(j)) \in Nat
      /\ Cardinality(RunsOf(j) \cup {r}) <= Cardinality(RunsOf(j)) + 1
    <2>1. IsFiniteSet(RunsOf(j)) /\ Cardinality(RunsOf(j)) \in Nat
        BY RunsAreFinite
    <2>2. IsFiniteSet(RunsOf(j) \cup {r})
        BY <2>1, FS_AddElement
    <2>3. Cardinality(RunsOf(j) \cup {r}) =
              IF r \in RunsOf(j) THEN Cardinality(RunsOf(j))
                                ELSE Cardinality(RunsOf(j)) + 1
        BY <2>1, FS_AddElement
    <2>4. QED
        BY <2>1, <2>2, <2>3
<1>2. /\ Cardinality(RunsOf(j)') <= Cardinality(RunsOf(j) \cup {r})
      /\ Cardinality(RunsOf(j)') \in Nat
      /\ Cardinality(RunsOf(j) \cup {r}) \in Nat
    BY <1>1, FS_Subset, FS_CardinalityType
<1>3. faults \in Nat /\ Keep \in Nat
    BY DEF SchedulerTypeOK
<1>4. QED
    BY <1>1, <1>2, <1>3 DEF ShortOf

\* Pruning leaves a job at most Keep runs.
LEMMA PruneShortens ==
    ASSUME SchedulerTypeOK, SchedulerTypeOK', NEW j \in Jobs, records' = Pruned(j)
    PROVE  ShortOf(j)'
<1>1. PICK S : S = RunsOf(j)
    OBVIOUS
<1>2. S \in SUBSET Nat /\ IsFiniteSet(S)
    <2>1. IsFiniteSet(RunsOf(j))
        BY RunsAreFinite
    <2>2. RunsOf(j) \subseteq DOMAIN records
        BY DEF RunsOf
    <2>3. DOMAIN records \subseteq Nat
        BY DEF SchedulerTypeOK
    <2>4. QED
        BY <1>1, <2>1, <2>2, <2>3
<1>3. \A r \in S : NewerRuns(r) = {i \in S : i > r}
    BY <1>1 DEF RunsOf, NewerRuns
<1>4. RunsOf(j)' = {r \in S : Cardinality({i \in S : i > r}) < Keep}
    <2>1. RunsOf(j)' = {r \in S : Cardinality(NewerRuns(r)) < Keep}
        BY <1>1 DEF RunsOf, Pruned, Kept
    <2>2. QED
        BY <2>1, <1>3
<1>5. Cardinality(RunsOf(j)') <= Keep
    BY <1>2, <1>4, NewestAreFew
<1>6. Cardinality(RunsOf(j)') \in Nat /\ faults' \in Nat /\ Keep \in Nat
    <2>1. RunsOf(j)' \in SUBSET S
        BY <1>4
    <2>2. Cardinality(RunsOf(j)') \in Nat
        BY <1>2, <2>1, FS_Subset, FS_CardinalityType
    <2>3. QED
        BY <2>2 DEF SchedulerTypeOK
<1>7. QED
    BY <1>5, <1>6 DEF ShortOf

\* Only StartRun lengthens a history: it needs the lock, so no run of the job
\* was under way, and the run it records is pruned before the lock is free,
\* unless a statement failed.
LEMMA ShortStep ==
    ASSUME SchedulerTypeOK, LockTrue, Short, [SchedulerNext]_schedulerVars
    PROVE  Short'
<1>1. SchedulerTypeOK'
    BY TypeStep
<1>2. SUFFICES ASSUME NEW j \in Jobs
               PROVE  ShortOf(j)'
    BY DEF Short
<1>3. ShortOf(j)
    BY DEF Short
<1>4. faults' = faults /\ records' = records /\ (UnderWay(j) => UnderWay(j)')
      => ShortOf(j)'
    BY <1>1, <1>3, Shorter DEF RunsOf
<1>5. faults' = faults + 1 /\ RunsOf(j)' \subseteq RunsOf(j) => ShortOf(j)'
    BY <1>1, <1>3, Shorter
<1>6. ASSUME NEW i \in Jobs, NEW on \in BOOLEAN, SetEnabled(i, on)
      PROVE  ShortOf(j)'
    BY <1>6, <1>4 DEF SetEnabled, UnderWay
<1>7. ASSUME NEW g \in Starters, NEW i \in Jobs, Check(g, i)
      PROVE  ShortOf(j)'
    <2>1. UnderWay(j) => UnderWay(j)'
        BY <1>7, WorkOf DEF SchedulerTypeOK, Check, UnderWay, Goto
    <2>2. QED
        BY <1>7, <2>1, <1>4 DEF Check
<1>8. ASSUME NEW g \in Starters, Refuse(g)
      PROVE  ShortOf(j)'
    <2>1. UnderWay(j) => UnderWay(j)'
        BY <1>8, WorkOf DEF SchedulerTypeOK, Refuse, UnderWay, Goto, Idle
    <2>2. QED
        BY <1>8, <2>1, <1>4 DEF Refuse
<1>9. ASSUME NEW g \in Starters, TryLock(g)
      PROVE  ShortOf(j)'
    <2>1. UnderWay(j) => UnderWay(j)'
        BY <1>9, WorkOf DEF SchedulerTypeOK, TryLock, UnderWay, Goto
    <2>2. QED
        BY <1>9, <2>1, <1>4 DEF TryLock
<1>10. ASSUME NEW g \in Starters, JobEnds(g)
      PROVE  ShortOf(j)'
    <2>1. UnderWay(j) => UnderWay(j)'
        BY <1>10, WorkOf DEF SchedulerTypeOK, JobEnds, UnderWay, Goto
    <2>2. QED
        BY <1>10, <2>1, <1>4 DEF JobEnds
<1>11. ASSUME NEW g \in Starters, UnrecordedEnds(g)
      PROVE  ShortOf(j)'
    <2>1. UnderWay(j) => UnderWay(j)'
        BY <1>11, WorkOf
           DEF SchedulerTypeOK, UnrecordedEnds, UnderWay, Goto, Return, Idle
    <2>2. QED
        BY <1>11, <2>1, <1>4 DEF UnrecordedEnds
<1>12. ASSUME NEW g \in Starters, StartRun(g)
      PROVE  ShortOf(j)'
    <2>1. RunsOf(j)' \subseteq RunsOf(j) \cup {starter[g].run}
        BY <1>12 DEF StartRun, WithRun, RunsOf
    <2>2. CASE starter[g].job = j
        <3>1. ~UnderWay(j)
            BY <1>12, <2>2 DEF StartRun, UnderWay, LockTrue, Held
        <3>2. UnderWay(j)'
            BY <1>12, <2>2, WorkOf DEF SchedulerTypeOK, StartRun, UnderWay, Goto
        <3>3. QED
            BY <1>12, <2>1, <3>1, <3>2, <1>1, <1>3, OneMore DEF StartRun
    <2>3. CASE starter[g].job # j
        <3>1. UnderWay(j) => UnderWay(j)'
            BY <1>12, <2>3, WorkOf DEF SchedulerTypeOK, StartRun, UnderWay, Goto
        <3>2. RunsOf(j)' \subseteq RunsOf(j)
            BY <1>12, <2>3 DEF StartRun, WithRun, RunsOf
        <3>3. QED
            BY <1>12, <3>1, <3>2, <1>1, <1>3, Shorter DEF StartRun
    <2>4. QED
        BY <2>2, <2>3
<1>13. ASSUME NEW g \in Starters, StartRunFails(g)
      PROVE  ShortOf(j)'
    <2>1. PICK r : r = starter[g].run
        OBVIOUS
    <2>2. RunsOf(j)' \subseteq RunsOf(j) \cup {r} /\ faults' = faults + 1
        BY <1>13, <2>1 DEF StartRunFails, WithRun, RunsOf, Fault
    <2>3. CASE starter[g].job = j
        <3>1. ~UnderWay(j)
            BY <1>13, <2>3 DEF StartRunFails, UnderWay, LockTrue, Held
        <3>2. QED
            BY <2>2, <3>1, <1>1, <1>3, OneMore
    <2>4. CASE starter[g].job # j
        <3>1. RunsOf(j)' \subseteq RunsOf(j)
            BY <1>13, <2>4 DEF StartRunFails, WithRun, RunsOf
        <3>2. QED
            BY <2>2, <3>1, <1>5
    <2>5. QED
        BY <2>3, <2>4
<1>14. ASSUME NEW g \in Starters, FinishRun(g)
      PROVE  ShortOf(j)'
    <2>1. RunsOf(j)' \subseteq RunsOf(j)
        BY <1>14 DEF FinishRun, WithEnd, RunsOf, SchedulerTypeOK, Run
    <2>2. UnderWay(j) => UnderWay(j)'
        BY <1>14, WorkOf DEF SchedulerTypeOK, FinishRun, UnderWay, Goto
    <2>3. QED
        BY <1>14, <2>1, <2>2, <1>1, <1>3, Shorter DEF FinishRun
<1>15. ASSUME NEW g \in Starters, FinishRunFails(g)
      PROVE  ShortOf(j)'
    <2>1. RunsOf(j)' \subseteq RunsOf(j)
        BY <1>15 DEF FinishRunFails, WithEnd, RunsOf, SchedulerTypeOK, Run
    <2>2. QED
        BY <1>15, <2>1, <1>5 DEF FinishRunFails, Fault
<1>16. ASSUME NEW g \in Starters, Prune(g)
      PROVE  ShortOf(j)'
    <2>1. CASE starter[g].job = j
        BY <1>16, <2>1, <1>1, PruneShortens DEF Prune
    <2>2. CASE starter[g].job # j
        <3>1. UnderWay(j) => UnderWay(j)'
            BY <1>16, <2>2, WorkOf
               DEF SchedulerTypeOK, Prune, UnderWay, Goto, Return, Idle
        <3>2. RunsOf(j)' \subseteq RunsOf(j)
            BY <1>16 DEF Prune, Pruned, Kept, RunsOf
        <3>3. QED
            BY <1>16, <3>1, <3>2, <1>1, <1>3, Shorter DEF Prune
    <2>3. QED
        BY <2>1, <2>2
<1>17. ASSUME NEW g \in Starters, PruneFails(g)
      PROVE  ShortOf(j)'
    BY <1>17, <1>5 DEF PruneFails, Fault, RunsOf
<1>18. ASSUME Restart
      PROVE  ShortOf(j)'
    BY <1>18, <1>5 DEF Restart, Fault, RunsOf
<1>19. CASE UNCHANGED schedulerVars
    BY <1>19, <1>4 DEF schedulerVars, UnderWay
<1>20. QED
    BY <1>6, <1>7, <1>8, <1>9, <1>10, <1>11, <1>12, <1>13, <1>14, <1>15,
       <1>16, <1>17, <1>18, <1>19
       DEF SchedulerNext, Execute

-----------------------------------------------------------------------------
(* Theorems. *)

\* The invariant holds from the start.
LEMMA SInvInit == SchedulerInit => SInv
<1>1. SUFFICES ASSUME SchedulerInit
               PROVE  SInv
    OBVIOUS
<1>2. SchedulerTypeOK
    BY <1>1 DEF SchedulerInit, SchedulerTypeOK, Work, Idle, Run
<1>3. LockTrue /\ StampsApart /\ HistoryTrue
    BY <1>1 DEF SchedulerInit, LockTrue, StampsApart, HistoryTrue, Idle, Held, Recording
<1>4. Short
    <2>1. \A j : RunsOf(j) = {}
        BY <1>1 DEF SchedulerInit, RunsOf
    <2>2. Keep \in Nat /\ faults \in Nat /\ Cardinality({}) = 0
        BY <1>1, FS_EmptySet DEF SchedulerInit
    <2>3. QED
        BY <2>1, <2>2 DEF Short, ShortOf
<1>5. QED
    BY <1>2, <1>3, <1>4 DEF SInv

\* ... and every step keeps it.
LEMMA SInvNext == SInv /\ [SchedulerNext]_schedulerVars => SInv'
BY TypeStep, LockStep, StampsStep, HistoryStep, ShortStep DEF SInv

\* At any time each job runs at most once, and its lock is held if and only if
\* it runs.
LEMMA LocksExclude == SInv => OneAtATime
<1>1. SUFFICES ASSUME SInv, NEW j \in Jobs
               PROVE  /\ \A g, h \in Starters :
                             Executing(g, j) /\ Executing(h, j) => g = h
                      /\ mutex[j] # Nobody <=> \E g \in Starters : Executing(g, j)
    BY DEF OneAtATime
<1>2. \A g \in Starters : Executing(g, j) <=> mutex[j] = g
    BY <1>1 DEF SInv, LockTrue, Executing
<1>3. mutex[j] \in Starters \cup {Nobody}
    BY <1>1 DEF SInv, SchedulerTypeOK
<1>4. QED
    BY <1>2, <1>3

\* execute of automation/scheduler.go: every state of the scheduler, whatever
\* statements failed and however often the process stopped, is of its types.
THEOREM SchedulerTypeCorrect == SchedulerSpec => []SchedulerTypeOK
<1>1. SchedulerSpec => []SInv
    BY SInvInit, SInvNext, PTL DEF SchedulerSpec
<1>2. SInv => SchedulerTypeOK
    BY DEF SInv
<1>3. QED
    BY <1>1, <1>2, PTL

\* A job never overlaps itself, the runs that the panel shows as running are
\* being run unless a fault lost their end, no pruning takes the record of a
\* run under way, and a job's history never exceeds what is kept, the run
\* under way and one run for every fault.
THEOREM HistoryStaysConsistent == SchedulerSpec => []HistoryConsistent
<1>1. SchedulerSpec => []SInv
    BY SInvInit, SInvNext, PTL DEF SchedulerSpec
<1>2. SInv => HistoryConsistent
    <2>1. SInv => HistoryBounded
        BY DEF SInv, Short, ShortOf, RunsOf, HistoryBounded
    <2>2. QED
        BY <2>1, LocksExclude DEF SInv, HistoryConsistent
<1>3. QED
    BY <1>1, <1>2, PTL

-----------------------------------------------------------------------------
(* YearEnd.  The invariant has four parts: the rows and runs are of their   *)
(* types and agree with each other (TablesSound, RunsSound), what is known  *)
(* of admitted students before and after a promotion (AdmittedKept), what   *)
(* is new while a check is pending (NewIsLate), and what each run that can  *)
(* be reverted changed (DidTrue).                                           *)

Known == {s \in Students : status[s] # "unused"}

(* YearEndTypeOK without the runs. *)
TablesSound ==
    /\ year \in {"unused", "open", "deleted"}
    /\ class \in [Classes -> {"unused", "open", "deleted"}]
    /\ status \in [Students -> {"unused", "active", "left", "deleted"}]
    /\ seat \in [Students -> Open \union {Nowhere}]
    /\ {s \in Students : seat[s] # Nowhere} \subseteq Present
    /\ home \union waiting \union account \union recorded \union marked \subseteq Present
    /\ register \subseteq Open
    /\ year # "open" => Open = {} /\ waiting = {}
    /\ \A s, t \in Present : Number[s] = Number[t] => s = t
    /\ closing \subseteq Classes
    /\ handEdits \in 0..MaxEdits
    /\ late \union handled \subseteq Students

ClassOf(ids) == [ids -> Classes \union {Nowhere}]

RunRecords ==
    [kind : Kinds \union {Nowhere},
     state : {"unused", "proposed", "discarded", "applied", "reverting", "reverted"},
     listed : SUBSET Students, ids : SUBSET Students,
     previous : {<<>>} \union UNION {ClassOf(ids) : ids \in SUBSET Students},
     assigned : SUBSET Classes, created : SUBSET Classes, intakes : SUBSET Students,
     gave : {<<>>} \union UNION {ClassOf(ids) : ids \in SUBSET Students}]

Is(x, kind, states) == x.kind = kind /\ x.state \in states
Standing == {"applied", "reverting"}

(* The rows of a proposal can be created together, or are there already; a  *)
(* run writes to rows that are there; a promotion knows where its students  *)
(* were and where it put them.                                              *)
RunSound(x) ==
    /\ x.ids \subseteq Known
    /\ Is(x, "intake", {"proposed"}) \/ Is(x, "import", {"proposed"}) =>
          \A s, t \in x.listed : Number[s] = Number[t] => s = t
    /\ Is(x, "leavers", {"proposed"}) \/ Is(x, "promotion", {"proposed"}) =>
          x.listed \subseteq Known
    /\ Is(x, "promotion", Standing) =>
          x.previous \in ClassOf(x.ids) /\ x.gave \in ClassOf(x.ids) /\ x.intakes \subseteq x.ids

OneProposal ==
    \A r, q \in WorkflowRuns :
        run[r].state = "proposed" /\ run[q].state = "proposed" /\ run[r].kind = run[q].kind
            => r = q

RunsSound ==
    /\ run \in [WorkflowRuns -> RunRecords]
    /\ \A r \in WorkflowRuns : RunSound(run[r])
    /\ OneProposal

(* Whoever was admitted has no class of this year; until the next year is   *)
(* gone, a student who waits no longer has a seat or lost it later, a       *)
(* student on the open promotion's list still waits, and one a promotion    *)
(* has placed is among those its revert makes wait again.                   *)
Handled(s) == s \in waiting \union handled
Lost(x, s) ==
    /\ x.gave[s] # Nowhere /\ x.previous[s] = Nowhere
    /\ s \notin x.intakes \union handled

NewHere == Admissions \intersect home = {}
Accounted ==
    year # "deleted" => \A s \in Admissions \intersect Present : Handled(s) \/ seat[s] # Nowhere
ListedWait ==
    year # "deleted" =>
        \A r \in WorkflowRuns : Is(run[r], "promotion", {"proposed"}) =>
            \A s \in run[r].listed \intersect Admissions \intersect Present : Handled(s)
NoneLost ==
    \A r \in WorkflowRuns : Is(run[r], "promotion", Standing) =>
        \A s \in run[r].ids \intersect Admissions \intersect Present : ~Lost(run[r], s)

AdmittedKept == NewHere /\ Accounted /\ ListedWait /\ NoneLost

(* After a check nothing is added that is not in late. *)
Unused(s) == s \notin account \union recorded \union marked /\ seat[s] = Nowhere

NewIsLate ==
    /\ \A r \in WorkflowRuns :
          /\ Is(run[r], "intake", {"reverting"}) \/ Is(run[r], "import", {"reverting"}) =>
                \A s \in run[r].ids : s \in late \/ Unused(s)
          /\ Is(run[r], "rollover", {"reverting"}) =>
                \A s \in Students : s \in late \/ seat[s] = Nowhere
    /\ \A c \in closing : Seated(c) \subseteq late

(* What run x did to the rows d: leavers were active and left; whom an intake or an  *)
(* import created was not there; the snapshot of a promotion has the seats  *)
(* there were, none of them in a class it created, and who waited.          *)
Effect(x, d) ==
    /\ x.kind = "leavers" =>
          /\ DOMAIN d \subseteq x.ids
          /\ \A s \in DOMAIN d :
                /\ d[s].was.status = "active" /\ d[s].made.status = "left"
                /\ d[s].was.seat = d[s].made.seat
                /\ d[s].was.home = d[s].made.home /\ d[s].was.waiting = d[s].made.waiting
    /\ x.kind \in {"intake", "import"} =>
          /\ DOMAIN d \subseteq x.ids
          /\ \A s \in DOMAIN d :
                /\ d[s].was.status = "unused" /\ d[s].was.seat = Nowhere
                /\ d[s].was.home = {} /\ d[s].was.waiting = {}
    /\ x.kind = "promotion" =>
          /\ DOMAIN d \subseteq x.ids
          /\ \A s \in DOMAIN d :
                /\ d[s].was.status = d[s].made.status /\ d[s].was.home = d[s].made.home
                /\ d[s].was.seat = x.previous[s]
                /\ d[s].was.waiting = d[s].made.waiting \union (x.intakes \intersect {s})
          /\ \A s \in x.ids : x.previous[s] \notin x.created
    /\ x.kind = "rollover" => DOMAIN d = {}

DidTrue ==
    /\ did = [r \in WorkflowRuns |-> did[r]]
    /\ \A r \in WorkflowRuns :
          IF run[r].state \in Standing THEN Effect(run[r], did[r]) ELSE DOMAIN did[r] = {}

YearEndInv ==
    /\ TablesSound
    /\ RunsSound
    /\ AdmittedKept
    /\ NewIsLate
    /\ DidTrue

(* The shape of a run after each kind of write to it. *)
LEMMA ProposedRun ==
    ASSUME NEW kind \in Kinds, NEW rows \in SUBSET Students
    PROVE  \E y \in RunRecords :
              /\ y = [NoRun EXCEPT !.kind = kind, !.state = "proposed", !.listed = rows]
              /\ y.kind = kind /\ y.state = "proposed" /\ y.ids = {} /\ y.listed = rows
<1> DEFINE y == [NoRun EXCEPT !.kind = kind, !.state = "proposed", !.listed = rows]
<1>1. y \in RunRecords
  BY DEF NoRun, RunRecords
<1>2. y.kind = kind /\ y.state = "proposed" /\ y.ids = {} /\ y.listed = rows
  BY DEF NoRun
<1> QED
  BY <1>1, <1>2

LEMMA RevertedRun ==
    ASSUME NEW kind \in Kinds \union {Nowhere}
    PROVE  \E y \in RunRecords :
              /\ y = [NoRun EXCEPT !.kind = kind, !.state = "reverted"]
              /\ y.kind = kind /\ y.state = "reverted" /\ y.ids = {} /\ y.listed = {}
<1> DEFINE y == [NoRun EXCEPT !.kind = kind, !.state = "reverted"]
<1>1. y \in RunRecords
  BY DEF NoRun, RunRecords
<1>2. y.kind = kind /\ y.state = "reverted" /\ y.ids = {} /\ y.listed = {}
  BY DEF NoRun
<1> QED
  BY <1>1, <1>2

LEMMA RunFields ==
    ASSUME NEW x \in RunRecords
    PROVE  /\ x.ids \in SUBSET Students /\ x.listed \in SUBSET Students
           /\ x.intakes \in SUBSET Students
           /\ x.assigned \in SUBSET Classes /\ x.created \in SUBSET Classes
           /\ x.kind \in Kinds \union {Nowhere}
           /\ x.state \in {"unused", "proposed", "discarded", "applied", "reverting", "reverted"}
BY DEF RunRecords

LEMMA DiscardedRun ==
    ASSUME NEW x \in RunRecords
    PROVE  \E y \in RunRecords :
              /\ y = [x EXCEPT !.state = "discarded", !.listed = {}]
              /\ y.kind = x.kind /\ y.state = "discarded" /\ y.ids = x.ids
<1> DEFINE y == [x EXCEPT !.state = "discarded", !.listed = {}]
<1>1. y \in RunRecords
  BY DEF RunRecords
<1>2. y.kind = x.kind /\ y.state = "discarded" /\ y.ids = x.ids
  BY DEF RunRecords
<1> QED
  BY <1>1, <1>2

LEMMA CheckedRun ==
    ASSUME NEW x \in RunRecords, NEW next \in {"applied", "reverting"}
    PROVE  \E y \in RunRecords :
              /\ y = [x EXCEPT !.state = next]
              /\ y.state = next /\ y.kind = x.kind /\ y.ids = x.ids /\ y.created = x.created
              /\ y.previous = x.previous /\ y.gave = x.gave /\ y.intakes = x.intakes
<1> DEFINE y == [x EXCEPT !.state = next]
<1>1. y \in RunRecords
  BY DEF RunRecords
<1>2. /\ y.state = next /\ y.kind = x.kind /\ y.ids = x.ids /\ y.created = x.created
      /\ y.previous = x.previous /\ y.gave = x.gave /\ y.intakes = x.intakes
  BY DEF RunRecords
<1> QED
  BY <1>1, <1>2

LEMMA AppliedRun ==
    ASSUME NEW x \in RunRecords, NEW rows \in SUBSET Students
    PROVE  \E y \in RunRecords :
              /\ y = [[x EXCEPT !.state = "applied", !.listed = {}] EXCEPT !.ids = rows]
              /\ y.state = "applied" /\ y.kind = x.kind /\ y.ids = rows
<1> DEFINE y == [[x EXCEPT !.state = "applied", !.listed = {}] EXCEPT !.ids = rows]
<1>1. y \in RunRecords
  BY DEF RunRecords
<1>2. y.state = "applied" /\ y.kind = x.kind /\ y.ids = rows
  BY DEF RunRecords
<1> QED
  BY <1>1, <1>2

LEMMA RolledOverRun ==
    ASSUME NEW x \in RunRecords
    PROVE  \E y \in RunRecords :
              /\ y = [x EXCEPT !.state = "applied", !.listed = {}]
              /\ y.state = "applied" /\ y.kind = x.kind /\ y.ids = x.ids
<1> DEFINE y == [x EXCEPT !.state = "applied", !.listed = {}]
<1>1. y \in RunRecords
  BY DEF RunRecords
<1>2. y.state = "applied" /\ y.kind = x.kind /\ y.ids = x.ids
  BY DEF RunRecords
<1> QED
  BY <1>1, <1>2

PromotionOf(x, cleared, previous, assigned, new, intakes, chosen) ==
    [[x EXCEPT !.state = "applied", !.listed = {}] EXCEPT
        !.ids = cleared, !.previous = previous, !.assigned = assigned,
        !.created = new, !.intakes = intakes, !.gave = chosen]

LEMMA PromotedRun ==
    ASSUME NEW x \in RunRecords, NEW cleared \in SUBSET Students,
           NEW previous \in ClassOf(cleared), NEW chosen \in ClassOf(cleared),
           NEW assigned \in SUBSET Classes, NEW new \in SUBSET Classes,
           NEW intakes \in SUBSET Students, NEW y,
           y = PromotionOf(x, cleared, previous, assigned, new, intakes, chosen)
    PROVE  /\ y \in RunRecords
           /\ y.state = "applied" /\ y.kind = x.kind /\ y.ids = cleared
           /\ y.previous = previous /\ y.created = new /\ y.intakes = intakes /\ y.gave = chosen
<1> DEFINE places == {<<>>} \union UNION {ClassOf(ids) : ids \in SUBSET Students}
<1>1. previous \in places /\ chosen \in places
  OBVIOUS
<1>2. y \in RunRecords
  <2> DEFINE z == [x EXCEPT !.state = "applied", !.listed = {}]
  <2>1. z \in RunRecords
    BY DEF RunRecords
  <2> HIDE DEF z
  <2>2. [z EXCEPT !.ids = cleared, !.previous = previous, !.assigned = assigned,
                  !.created = new, !.intakes = intakes, !.gave = chosen] \in RunRecords
    BY <1>1, <2>1 DEF RunRecords
  <2> USE DEF z
  <2> QED
    BY <2>2 DEF PromotionOf
<1>3. /\ y.state = "applied" /\ y.kind = x.kind /\ y.ids = cleared
      /\ y.previous = previous /\ y.created = new /\ y.intakes = intakes /\ y.gave = chosen
  BY DEF RunRecords, PromotionOf
<1> QED
  BY <1>2, <1>3

LEMMA DropStudentsFacts ==
    ASSUME TablesSound, NEW gone \in SUBSET Students, DropStudents(gone), 
           year' = year, class' = class, register' = register, closing' \subseteq closing,
           handEdits' \in 0..MaxEdits, late' = late, handled' = handled
    PROVE  TablesSound'
<1>1. Open' = Open /\ Present' = Present \ gone
  BY DEF Open, Present, DropStudents, TablesSound
<1> QED
  BY <1>1 DEF TablesSound, DropStudents

LEMMA ByHandTables ==
    ASSUME TablesSound, ByHand
    PROVE  TablesSound'
<1> USE EditsAssumption, NowhereAssumption
<1>0. Edit => handEdits' \in 0..MaxEdits
  BY DEF Edit, TablesSound
<1>1. ASSUME NEW s \in Students, NEW c \in Classes, Enroll(s, c) \/ CommitAssignment(s, c)
      PROVE  TablesSound'
  <2>1. /\ UNCHANGED <<year, class, status, home, waiting, laterWork, closing, handled>>
        /\ handEdits' \in 0..MaxEdits
        /\ s \in Present /\ c \in Open /\ seat' = [seat EXCEPT ![s] = c]
        /\ late' \subseteq late \union {s}
    BY <1>1, <1>0 DEF Enroll, CommitAssignment, Added
  <2>2. Open' = Open /\ Present' = Present
    BY <2>1 DEF Open, Present
  <2> QED
    BY <2>1, <2>2 DEF TablesSound, laterWork, Present
<1>2. ASSUME NEW s \in Students, Unenroll(s)
      PROVE  TablesSound'
  <2>1. Open' = Open /\ Present' = Present
    BY <1>2 DEF Open, Present, Unenroll
  <2> QED
    BY <1>2, <1>0, <2>1 DEF TablesSound, Unenroll, laterWork
<1>3. ASSUME NEW s \in Students, UpdateStatus(s)
      PROVE  TablesSound'
  <2>1. Open' = Open /\ Present' = Present
    BY <1>3 DEF Open, Present, UpdateStatus, TablesSound
  <2>2. status' \in [Students -> {"unused", "active", "left", "deleted"}]
    BY <1>3 DEF UpdateStatus, TablesSound
  <2> QED
    BY <1>3, <1>0, <2>1, <2>2 DEF TablesSound, UpdateStatus, laterWork
<1>4. ASSUME NEW s \in Students, DeleteStudent(s)
      PROVE  TablesSound'
  BY <1>4, <1>0, DropStudentsFacts DEF DeleteStudent
<1>5. ASSUME NEW c \in Classes, CreateClass(c)
      PROVE  TablesSound'
  <2>1. Open' = Open \union {c} /\ Present' = Present
    BY <1>5 DEF Open, Present, CreateClass, TablesSound
  <2>2. class' \in [Classes -> {"unused", "open", "deleted"}]
    BY <1>5 DEF CreateClass, TablesSound
  <2> QED
    BY <1>5, <1>0, <2>1, <2>2 DEF TablesSound, CreateClass, laterWork
<1>6. ASSUME NEW c \in Classes, CountClass(c)
      PROVE  TablesSound'
  <2>1. Open' = Open /\ Present' = Present
    BY <1>6 DEF Open, Present, CountClass, tables
  <2> QED
    BY <1>6, <2>1 DEF TablesSound, CountClass, laterWork, tables
<1>7. ASSUME NEW c \in Classes, DeleteClass(c)
      PROVE  TablesSound'
  <2>1. /\ class' = [d \in Classes |-> IF d \in {c} \intersect Open THEN "deleted" ELSE class[d]]
        /\ seat' = [s \in Students |-> IF seat[s] \in {c} \intersect Open THEN Nowhere ELSE seat[s]]
        /\ register' = register \ ({c} \intersect Open)
        /\ UNCHANGED <<year, status, home, waiting, account, recorded, marked, late>>
        /\ handled' = handled \union Seated(c) /\ closing' \subseteq closing
    BY <1>7 DEF DeleteClass, DropClasses
  <2>2. class' \in [Classes -> {"unused", "open", "deleted"}]
    BY <2>1 DEF TablesSound
  <2>3. Open' = Open \ {c} /\ Present' = Present
    BY <2>1 DEF Present, Open, TablesSound
  <2>4. \A s \in Students :
           /\ seat'[s] = IF seat[s] \in {c} \intersect Open THEN Nowhere ELSE seat[s]
           /\ seat[s] \in Open \union {Nowhere}
    BY <2>1 DEF TablesSound
  <2>5. seat' \in [Students -> Open' \union {Nowhere}]
    BY <2>1, <2>3, <2>4
  <2> QED
    BY <1>7, <1>0, <2>1, <2>2, <2>3, <2>4, <2>5 DEF TablesSound, DeleteClass, Seated
<1>8. ASSUME NEW s \in Students, GiveAccount(s) \/ EnterMarks(s) \/ KeepRecord(s)
      PROVE  TablesSound'
  <2>1. /\ UNCHANGED <<year, class, status, home, seat, waiting, register, closing, handled>>
        /\ handEdits' \in 0..MaxEdits /\ late' \subseteq late \union {s}
    BY <1>8, <1>0 DEF GiveAccount, EnterMarks, KeepRecord, tables, Added
  <2>2. Open' = Open /\ Present' = Present
    BY <2>1 DEF Open, Present
  <2>3. s \in Present
    BY <1>8 DEF GiveAccount, EnterMarks, KeepRecord, TablesSound
  <2>4. account' \subseteq account \union {s} /\ recorded' \subseteq recorded \union {s}
        /\ marked' \subseteq marked \union {s}
    BY <1>8 DEF GiveAccount, EnterMarks, KeepRecord
  <2> QED
    BY <2>1, <2>2, <2>3, <2>4 DEF TablesSound
<1>9. ASSUME NEW c \in Classes, TakeAttendance(c)
      PROVE  TablesSound'
  <2>1. Open' = Open /\ Present' = Present
    BY <1>9 DEF Open, Present, TakeAttendance, tables
  <2>2. Seated(c) \subseteq Present
    BY NowhereAssumption DEF Seated, TablesSound
  <2> QED
    BY <1>9, <1>0, <2>1, <2>2 DEF TablesSound, TakeAttendance, laterWork, tables, Added, Seated
<1> QED
  BY <1>1, <1>2, <1>3, <1>4, <1>5, <1>6, <1>7, <1>8, <1>9 DEF ByHand

(* A promotion, with the choice the admin made. *)
Promoted(r, new, chosen) ==
    LET cleared == run[r].listed
        placed == {s \in cleared : chosen[s] # Nowhere}
        gone == Admitted(cleared, placed) \intersect waiting
    IN  /\ \A s \in placed : s \in Present /\ chosen[s] \in Open \union new
        /\ class' = [c \in Classes |-> IF c \in new THEN "open" ELSE class[c]]
        /\ seat' = [s \in Students |-> IF s \in cleared THEN chosen[s] ELSE seat[s]]
        /\ waiting' = waiting \ gone
        /\ Applied(r, [Snapshot(r) EXCEPT
              !.ids = cleared, !.previous = [s \in cleared |-> seat[s]],
              !.assigned = {chosen[s] : s \in placed}, !.created = new,
              !.intakes = placed \intersect waiting, !.gave = chosen])
        /\ Added(placed)
        /\ UNCHANGED <<year, status, home, laterWork>>
        /\ Did(r, cleared)

LEMMA PromotionWrites ==
    ASSUME NEW r \in WorkflowRuns, ApplyPromotion(r)
    PROVE  \E new \in SUBSET {c \in Classes : class[c] = "unused"},
              chosen \in [run[r].listed -> Classes \union {Nowhere}] : Promoted(r, new, chosen)
BY Zenon DEF ApplyPromotion, Promoted

LEMMA WorkflowTables ==
    ASSUME TablesSound, RunsSound, NEW r \in WorkflowRuns,
           Discard(r) \/ (\E kind \in Kinds : Propose(r, kind)) \/ Apply(r) \/ Revert(r)
    PROVE  TablesSound'
<1> USE NowhereAssumption
<1>0. run[r] \in RunRecords /\ RunSound(run[r])
  BY DEF RunsSound
<1>1. CASE Discard(r) \/ (\E kind \in Kinds : Propose(r, kind)) \/ CheckRevert(r) \/ RevertFails(r)
  <2>1. /\ UNCHANGED <<year, class, status, home, seat, waiting, account, recorded, marked,
                       register, closing, handEdits, late, handled>>
    BY <1>1 DEF Discard, Propose, CheckRevert, RevertFails, tables, laterWork
  <2>2. Open' = Open /\ Present' = Present
    BY <2>1 DEF Open, Present
  <2> QED
    BY <2>1, <2>2 DEF TablesSound
<1>2. CASE ApplyRollover(r)
  <2>1. PICK copied \in SUBSET {c \in Classes : class[c] = "unused"} :
           class' = [c \in Classes |-> IF c \in copied THEN "open" ELSE class[c]]
    BY <1>2 DEF ApplyRollover
  <2>2. class' \in [Classes -> {"unused", "open", "deleted"}] /\ Open \subseteq Open'
    BY <2>1 DEF TablesSound, Open
  <2>3. Present' = Present
    BY <1>2 DEF ApplyRollover, Present
  <2> QED
    BY <1>2, <2>2, <2>3 DEF TablesSound, ApplyRollover, laterWork
<1>3. CASE ApplyLeavers(r) \/ RevertLeavers(r)
  <2>1. /\ UNCHANGED <<year, class, home, seat, waiting, account, recorded, marked,
                       register, closing, handEdits, late, handled>>
        /\ status' \in [Students -> {"unused", "active", "left", "deleted"}]
        /\ \A s \in Students : status'[s] = status[s]
              \/ (status[s] \in {"active", "left"} /\ status'[s] \in {"active", "left"})
    BY <1>3 DEF ApplyLeavers, RevertLeavers, laterWork, TablesSound, Active
  <2>2. Open' = Open /\ Present' = Present
    BY <2>1 DEF Open, Present
  <2> QED
    BY <2>1, <2>2 DEF TablesSound
<1>4. CASE ApplyIntake(r) \/ ApplyImport(r)
  <2>1. PICK rows \in SUBSET run[r].listed :
           /\ Create(rows)
           /\ home' \subseteq home \union rows
           /\ waiting' = waiting \/ (year = "open" /\ waiting' = waiting \union rows)
    BY <1>4 DEF ApplyIntake, ApplyImport
  <2>2. rows \subseteq Students /\ \A s, t \in rows : Number[s] = Number[t] => s = t
    BY <1>0, <1>4, RunFields DEF ApplyIntake, ApplyImport, Proposed, RunSound, Is
  <2>3. /\ status' \in [Students -> {"unused", "active", "left", "deleted"}]
        /\ Present' = Present \union rows
        /\ \A s \in rows, t \in Present : Number[t] # Number[s]
    BY <2>1, <2>2 DEF Create, TablesSound, Present
  <2>4. /\ UNCHANGED <<year, class, seat, account, recorded, marked,
                       register, closing, handEdits, late, handled>>
        /\ Open' = Open
    BY <1>4 DEF ApplyIntake, ApplyImport, laterWork, Open
  <2>5. \A s, t \in Present' : Number[s] = Number[t] => s = t
    <3> SUFFICES ASSUME NEW s \in Present', NEW t \in Present', Number[s] = Number[t]
                 PROVE  s = t
      OBVIOUS
    <3>1. CASE s \in rows /\ t \in rows
      BY <2>2, <3>1
    <3>2. CASE s \in rows /\ t \in Present
      BY <2>3, <3>2
    <3>3. CASE s \in Present /\ t \in rows
      BY <2>3, <3>3
    <3>4. CASE s \in Present /\ t \in Present
      BY <3>4 DEF TablesSound
    <3> QED
      BY <2>3, <3>1, <3>2, <3>3, <3>4
  <2> QED
    BY <2>1, <2>3, <2>4, <2>5 DEF TablesSound
<1>5. CASE ApplyPromotion(r)
  <2> DEFINE cleared == run[r].listed
  <2>0. cleared \subseteq Students
    BY <1>0, RunFields
  <2>a. PICK new \in SUBSET {c \in Classes : class[c] = "unused"},
             chosen \in [run[r].listed -> Classes \union {Nowhere}] : Promoted(r, new, chosen)
    BY <1>5, PromotionWrites
  <2>1. /\ \A s \in cleared : chosen[s] # Nowhere => s \in Present /\ chosen[s] \in Open \union new
        /\ class' = [c \in Classes |-> IF c \in new THEN "open" ELSE class[c]]
        /\ seat' = [s \in Students |-> IF s \in cleared THEN chosen[s] ELSE seat[s]]
        /\ waiting' \subseteq waiting
        /\ late' = late \/ late' = late \union {s \in cleared : chosen[s] # Nowhere}
    BY <2>a DEF Promoted, Added
  <2>2. /\ UNCHANGED <<year, status, home, account, recorded, marked, register, closing,
                       handEdits, handled>>
        /\ Open # {} /\ Present' = Present
    BY <1>5 DEF ApplyPromotion, laterWork, Present
  <2>3. class' \in [Classes -> {"unused", "open", "deleted"}] /\ Open' = Open \union new
    BY <2>1 DEF TablesSound, Open
  <2>4. \A s \in Students : seat'[s] \in Open' \union {Nowhere}
                              /\ (seat'[s] # Nowhere => s \in Present)
    <3>1. \A s \in Students : seat'[s] = IF s \in cleared THEN chosen[s] ELSE seat[s]
      BY <2>1
    <3> HIDE DEF cleared
    <3> QED
      BY <2>1, <2>3, <3>1 DEF TablesSound
  <2>5. seat' \in [Students -> Open' \union {Nowhere}]
    BY <2>1, <2>4
  <2>6. late' \subseteq Students
    BY <2>0, <2>1 DEF TablesSound
  <2> HIDE DEF cleared
  <2> QED
    BY <2>1, <2>2, <2>3, <2>4, <2>5, <2>6 DEF TablesSound
<1>6. CASE RevertRollover(r)
  <2>1. /\ class' = [c \in Classes |-> IF c \in Open THEN "deleted" ELSE class[c]]
        /\ seat' = [s \in Students |-> IF seat[s] \in Open THEN Nowhere ELSE seat[s]]
        /\ register' = register \ Open
        /\ year' = "deleted" /\ waiting' = {}
        /\ handled' = handled \union {s \in Students : seat[s] # Nowhere}
        /\ UNCHANGED <<status, home, account, recorded, marked, closing, handEdits, late>>
    BY <1>6 DEF RevertRollover, DropClasses
  <2>2. \A s \in Students : seat'[s] = Nowhere
    BY <2>1 DEF TablesSound
  <2>3. seat' \in [Students -> Open' \union {Nowhere}]
    BY <2>1, <2>2
  <2>4. class' \in [Classes -> {"unused", "open", "deleted"}] /\ Open' = {} /\ Present' = Present
    BY <2>1 DEF TablesSound, Open, Present
  <2> QED
    BY <2>1, <2>2, <2>3, <2>4 DEF TablesSound
<1>7. CASE RevertCreation(r)
  BY <1>7, DropStudentsFacts DEF RevertCreation, Present, TablesSound
<1>8. CASE RevertPromotion(r)
  <2> DEFINE x == run[r]
             gone == DeleteEmptyClasses(x.created, Reassigned(x))
  <2>1. /\ class' = [c \in Classes |-> IF c \in gone THEN "deleted" ELSE class[c]]
        /\ seat' = [s \in Students |->
                IF Reassigned(x)[s] \in gone THEN Nowhere ELSE Reassigned(x)[s]]
        /\ register' = register \ gone
        /\ waiting' = waiting \union x.intakes
        /\ Added({s \in x.ids : Reassigned(x)[s] # Nowhere})
        /\ handled' \subseteq handled \union x.ids
        /\ UNCHANGED <<year, status, home, account, recorded, marked, closing, handEdits>>
        /\ SnapshotHolds(x)
    BY <1>8 DEF RevertPromotion, DropClasses
  <2>2. x.ids \subseteq Students /\ gone \subseteq Open /\ Present' = Present
    BY <1>0, <2>1, RunFields DEF DeleteEmptyClasses, Present
  <2>3. \A s \in Students : \A c \in gone : Reassigned(x)[s] # c
    BY DEF DeleteEmptyClasses
  <2>4. \A s \in Students : /\ Reassigned(x)[s] \in Open \union {Nowhere}
                            /\ Reassigned(x)[s] # Nowhere => s \in Present
    <3>1. \A s \in Students : Reassigned(x)[s] = IF s \in x.ids THEN x.previous[s] ELSE seat[s]
      BY DEF Reassigned
    <3>2. \A s \in x.ids : x.previous[s] # Nowhere => s \in Present /\ x.previous[s] \in Open
      BY <2>1 DEF SnapshotHolds
    <3> HIDE DEF x
    <3> QED
      BY <3>1, <3>2 DEF TablesSound
  <2>5. /\ class' \in [Classes -> {"unused", "open", "deleted"}]
        /\ Open' = Open \ gone
    <3> HIDE DEF gone
    <3> QED
      BY <2>1 DEF TablesSound, Open
  <2>6. \A s \in Students : seat'[s] = Reassigned(x)[s]
    BY <2>1, <2>3
  <2>7. seat' \in [Students -> Open' \union {Nowhere}]
    <3> HIDE DEF gone, x
    <3> QED
      BY <2>1, <2>3, <2>4, <2>5, <2>6
  <2>8. waiting' \subseteq Present /\ (waiting' # {} => waiting # {} \/ year = "open")
    BY <2>1 DEF SnapshotHolds, TablesSound
  <2>9. late' \subseteq Students
    <3> HIDE DEF x, gone
    <3> QED
      BY <2>1, <2>2 DEF Added, TablesSound
  <2> HIDE DEF x, gone
  <2> QED
    BY <2>1, <2>2, <2>4, <2>5, <2>6, <2>7, <2>8, <2>9 DEF TablesSound
<1> QED
  BY <1>1, <1>2, <1>3, <1>4, <1>5, <1>6, <1>7, <1>8 DEF Apply, Revert

LEMMA KnownGrows ==
    ASSUME TablesSound, RunsSound, [YearEndNext]_yearEndVars
    PROVE  Known \subseteq Known'
<1>1. CASE UNCHANGED yearEndVars
  BY <1>1 DEF yearEndVars, Known
<1>2. CASE ByHand
  BY <1>2 DEF ByHand, Enroll, CommitAssignment, Unenroll, UpdateStatus, DeleteStudent, GiveAccount,
      EnterMarks, KeepRecord, CreateClass, CountClass, DeleteClass, TakeAttendance, tables,
      DropStudents, TablesSound, Known
<1>3. ASSUME NEW r \in WorkflowRuns,
             Discard(r) \/ (\E kind \in Kinds : Propose(r, kind)) \/ Apply(r) \/ Revert(r)
      PROVE  Known \subseteq Known'
  <2>1. CASE Discard(r) \/ (\E kind \in Kinds : Propose(r, kind))
          \/ CheckRevert(r) \/ RevertFails(r)
    BY <2>1 DEF Discard, Propose, CheckRevert, RevertFails, tables, Known
  <2>2. CASE ApplyRollover(r) \/ ApplyPromotion(r) \/ RevertRollover(r) \/ RevertPromotion(r)
    BY <2>2 DEF ApplyRollover, ApplyPromotion, RevertRollover, RevertPromotion, Known
  <2>3. CASE ApplyLeavers(r) \/ RevertLeavers(r)
    BY <2>3 DEF ApplyLeavers, RevertLeavers, TablesSound, Known
  <2>4. CASE ApplyIntake(r) \/ ApplyImport(r)
    BY <2>4 DEF ApplyIntake, ApplyImport, Create, TablesSound, Known
  <2>5. CASE RevertCreation(r)
    BY <2>5 DEF RevertCreation, DropStudents, TablesSound, Known
  <2> QED
    BY <1>3, <2>1, <2>2, <2>3, <2>4, <2>5 DEF Apply, Revert
<1> QED
  BY <1>1, <1>2, <1>3 DEF YearEndNext

LEMMA OneRunChanges ==
    ASSUME RunsSound, Known \subseteq Known', NEW r \in WorkflowRuns, NEW y \in RunRecords,
           y.state # "proposed", run' = [run EXCEPT ![r] = y], RunSound(y)'
    PROVE  RunsSound'
<1>1. run' \in [WorkflowRuns -> RunRecords] /\ run'[r] = y
  BY DEF RunsSound
<1>2. ASSUME NEW q \in WorkflowRuns, q # r
      PROVE  run'[q] = run[q] /\ RunSound(run[q])'
  <2>1. run'[q] = run[q]
    BY <1>2 DEF RunsSound
  <2>2. PICK x \in RunRecords : x = run[q]
    BY DEF RunsSound
  <2>3. RunSound(x)
    BY <2>2 DEF RunsSound
  <2>4. RunSound(x)'
    BY <2>3 DEF RunSound
  <2> QED
    BY <2>1, <2>2, <2>4 DEF RunSound
<1>3. RunSound(run[r])'
  BY <1>1 DEF RunSound
<1>4. OneProposal'
  BY <1>1, <1>2 DEF OneProposal, RunsSound
<1> QED
  BY <1>1, <1>2, <1>3, <1>4 DEF RunsSound

LEMMA ProposeRuns ==
    ASSUME TablesSound, RunsSound, Known \subseteq Known',
           NEW r \in WorkflowRuns, NEW kind \in Kinds,
           Propose(r, kind)
    PROVE  /\ RunsSound'
           /\ run'[r].kind = kind /\ run'[r].state = "proposed" /\ run'[r].ids = {}
           /\ Lists(kind, run'[r].listed)
           /\ run[r].state = "unused" /\ run[r].ids = {}
           /\ \A q \in WorkflowRuns \ {r} :
                 \/ run'[q] = run[q] /\ (run[q].kind # kind \/ run[q].state # "proposed")
                 \/ /\ run[q].state = "proposed" /\ run'[q].state = "discarded"
                    /\ run'[q].ids = run[q].ids /\ run'[q].kind = run[q].kind
<1>1. PICK rows \in SUBSET Students :
         /\ Lists(kind, rows)
         /\ run' = [x \in WorkflowRuns |->
              CASE x = r -> [NoRun EXCEPT !.kind = kind, !.state = "proposed", !.listed = rows]
                [] x # r /\ run[x].kind = kind /\ run[x].state = "proposed" ->
                      [run[x] EXCEPT !.state = "discarded", !.listed = {}]
                [] OTHER -> run[x]]
  BY DEF Propose
<1>2. PICK y \in RunRecords :
         /\ y = [NoRun EXCEPT !.kind = kind, !.state = "proposed", !.listed = rows]
         /\ y.kind = kind /\ y.state = "proposed" /\ y.ids = {} /\ y.listed = rows
  BY ProposedRun
<1>3. run'[r] = y
  BY <1>1, <1>2
<1>4. y.kind = kind /\ y.state = "proposed" /\ y.ids = {} /\ y.listed = rows
  BY <1>2
<1>5. run[r].state = "unused" /\ run[r].ids = {}
  <2>1. run[r] = NoRun
    BY DEF Propose
  <2> QED
    BY <2>1 DEF NoRun
<1>6. ASSUME NEW q \in WorkflowRuns, q # r
      PROVE  \/ run'[q] = run[q] /\ (run[q].kind # kind \/ run[q].state # "proposed")
             \/ /\ run[q].state = "proposed" /\ run'[q].state = "discarded"
                /\ run'[q].ids = run[q].ids /\ run'[q].kind = run[q].kind
                /\ run'[q] \in RunRecords
  <2>1. PICK x \in RunRecords : x = run[q]
    BY DEF RunsSound
  <2>2. CASE x.kind = kind /\ x.state = "proposed"
    <3>1. run'[q] = [x EXCEPT !.state = "discarded", !.listed = {}]
      BY <1>1, <1>6, <2>1, <2>2
    <3>2. PICK z \in RunRecords :
             /\ z = [x EXCEPT !.state = "discarded", !.listed = {}]
             /\ z.kind = x.kind /\ z.state = "discarded" /\ z.ids = x.ids
      BY DiscardedRun
    <3>3. run'[q] = z
      BY <3>1, <3>2
    <3> QED
      BY <2>1, <2>2, <3>2, <3>3
  <2>3. CASE ~(x.kind = kind /\ x.state = "proposed")
    BY <1>1, <1>6, <2>1, <2>3
  <2> QED
    BY <2>2, <2>3
<1>7. run' \in [WorkflowRuns -> RunRecords]
  <2>1. \A q \in WorkflowRuns : run'[q] \in RunRecords
    BY <1>2, <1>3, <1>6 DEF RunsSound
  <2>2. run' = [q \in WorkflowRuns |-> run'[q]]
    BY <1>1
  <2> QED
    BY <2>1, <2>2
<1>8. \A q \in WorkflowRuns : RunSound(run[q])'
  <2>1. RunSound(run[r])'
    <3>1. kind \in {"intake", "import"} => \A s, t \in rows : Number[s] = Number[t] => s = t
      BY <1>1 DEF Lists, NewRows
    <3>2. kind \in {"leavers", "promotion"} => rows \subseteq Known
      BY <1>1 DEF Lists, Active, Known
    <3> QED
      BY <1>3, <1>4, <3>1, <3>2 DEF RunSound, Is, Standing
  <2>2. ASSUME NEW q \in WorkflowRuns, q # r
        PROVE  RunSound(run[q])'
    <3>1. RunSound(run[q])
      BY DEF RunsSound
    <3>2. CASE run'[q] = run[q]
      <4>1. PICK x \in RunRecords : x = run[q]
        BY DEF RunsSound
      <4>2. RunSound(x)
        BY <4>1, <3>1
      <4>3. RunSound(x)'
        BY <4>2 DEF RunSound
      <4> QED
        BY <3>2, <4>1, <4>3 DEF RunSound
    <3>3. CASE run'[q].state = "discarded" /\ run'[q].ids = run[q].ids
      BY <3>1, <3>3 DEF RunSound, Is, Standing
    <3> QED
      BY <1>6, <2>2, <3>2, <3>3
  <2> QED
    BY <2>1, <2>2
<1>9. OneProposal'
  BY <1>3, <1>4, <1>6 DEF OneProposal, RunsSound
<1> QED
  BY <1>1, <1>3, <1>4, <1>5, <1>6, <1>7, <1>8, <1>9 DEF RunsSound

(* What each operation writes to its run. *)
LEMMA DiscardWrites ==
    ASSUME RunsSound, Known \subseteq Known', NEW r \in WorkflowRuns, Discard(r)
    PROVE  /\ RunsSound'
           /\ \E y \in RunRecords :
                 /\ run' = [run EXCEPT ![r] = y] /\ run[r].state = "proposed"
                 /\ y.kind = run[r].kind /\ y.state = "discarded" /\ y.ids = run[r].ids
<1>1. run[r] \in RunRecords /\ RunSound(run[r])
  BY DEF RunsSound
<1>2. PICK x \in RunRecords : x = run[r]
  BY <1>1
<1>3. PICK y \in RunRecords :
         /\ y = [x EXCEPT !.state = "discarded", !.listed = {}]
         /\ y.kind = x.kind /\ y.state = "discarded" /\ y.ids = x.ids
  BY DiscardedRun
<1>4. run' = [run EXCEPT ![r] = y] /\ run[r].state = "proposed"
  BY <1>2, <1>3 DEF Discard
<1>5. RunSound(y)'
  BY <1>1, <1>2, <1>3 DEF RunSound, Is, Standing
<1>6. RunsSound'
  BY <1>3, <1>4, <1>5, OneRunChanges
<1> QED
  BY <1>2, <1>3, <1>4, <1>6

LEMMA RolloverWrites ==
    ASSUME RunsSound, Known \subseteq Known', NEW r \in WorkflowRuns, ApplyRollover(r)
    PROVE  /\ RunsSound'
           /\ \E y \in RunRecords :
                 /\ run' = [run EXCEPT ![r] = y] /\ run[r].state = "proposed"
                 /\ run[r].kind = "rollover" /\ y.kind = "rollover" /\ y.state = "applied"
                 /\ y.ids = run[r].ids
<1>1. run[r] \in RunRecords /\ RunSound(run[r])
  BY DEF RunsSound
<1>2. PICK x \in RunRecords : x = run[r]
  BY <1>1
<1>3. PICK y \in RunRecords :
         /\ y = [x EXCEPT !.state = "applied", !.listed = {}]
         /\ y.state = "applied" /\ y.kind = x.kind /\ y.ids = x.ids
  BY RolledOverRun
<1>4. run' = [run EXCEPT ![r] = y] /\ run[r].state = "proposed" /\ run[r].kind = "rollover"
  BY <1>2, <1>3 DEF ApplyRollover, Applied, Snapshot, Proposed
<1>5. RunSound(y)'
  BY <1>1, <1>2, <1>3, <1>4 DEF RunSound, Is, Standing
<1>6. RunsSound'
  BY <1>3, <1>4, <1>5, OneRunChanges
<1> QED
  BY <1>2, <1>3, <1>4, <1>6

LEMMA CreationWrites ==
    ASSUME RunsSound, Known \subseteq Known', NEW r \in WorkflowRuns, NEW rows \in SUBSET Students,
           rows \subseteq Known', run[r].kind \in {"leavers", "intake", "import"},
           run' = [run EXCEPT ![r] = [[run[r] EXCEPT !.state = "applied", !.listed = {}]
                                         EXCEPT !.ids = rows]]
    PROVE  /\ RunsSound'
           /\ \E y \in RunRecords :
                 /\ run' = [run EXCEPT ![r] = y]
                 /\ y.kind = run[r].kind /\ y.state = "applied" /\ y.ids = rows
<1>1. run[r] \in RunRecords /\ RunSound(run[r])
  BY DEF RunsSound
<1>2. PICK x \in RunRecords : x = run[r]
  BY <1>1
<1>3. PICK y \in RunRecords :
         /\ y = [[x EXCEPT !.state = "applied", !.listed = {}] EXCEPT !.ids = rows]
         /\ y.state = "applied" /\ y.kind = x.kind /\ y.ids = rows
  BY AppliedRun
<1>4. run' = [run EXCEPT ![r] = y]
  BY <1>2, <1>3
<1>5. RunSound(y)'
  BY <1>1, <1>2, <1>3, <1>4 DEF RunSound, Is, Standing
<1>6. RunsSound'
  BY <1>3, <1>4, <1>5, OneRunChanges
<1> QED
  BY <1>2, <1>3, <1>4, <1>6

LEMMA LeaversWrites ==
    ASSUME TablesSound, RunsSound, Known \subseteq Known', NEW r \in WorkflowRuns, ApplyLeavers(r)
    PROVE  /\ RunsSound'
           /\ \E y \in RunRecords :
                 /\ run' = [run EXCEPT ![r] = y] /\ run[r].state = "proposed"
                 /\ run[r].kind = "leavers" /\ y.kind = "leavers" /\ y.state = "applied"
                 /\ y.ids \subseteq Known
                 /\ status' = [s \in Students |->
                                 IF s \in y.ids \intersect Active THEN "left" ELSE status[s]]
                 /\ Did(r, y.ids \intersect Active)
<1>1. run[r] \in RunRecords /\ RunSound(run[r]) /\ Proposed(r, "leavers")
  BY DEF RunsSound, ApplyLeavers
<1>2. PICK ticked \in SUBSET run[r].listed :
         /\ status' = [s \in Students |->
                 IF s \in ticked \intersect Active THEN "left" ELSE status[s]]
         /\ Applied(r, [Snapshot(r) EXCEPT !.ids = ticked])
         /\ Did(r, ticked \intersect Active)
  BY DEF ApplyLeavers
<1>3. ticked \in SUBSET Students /\ ticked \subseteq Known
  BY <1>1, RunFields DEF RunSound, Is, Proposed
<1>4. /\ RunsSound'
      /\ \E y \in RunRecords :
            /\ run' = [run EXCEPT ![r] = y]
            /\ y.kind = run[r].kind /\ y.state = "applied" /\ y.ids = ticked
  BY <1>1, <1>2, <1>3, CreationWrites DEF Applied, Snapshot, Proposed
<1> QED
  BY <1>1, <1>2, <1>3, <1>4 DEF Proposed, Did

LEMMA IntakeWrites ==
    ASSUME TablesSound, RunsSound, Known \subseteq Known', NEW r \in WorkflowRuns,
           ApplyIntake(r) \/ ApplyImport(r)
    PROVE  /\ RunsSound'
           /\ \E y \in RunRecords :
                 /\ run' = [run EXCEPT ![r] = y] /\ run[r].state = "proposed"
                 /\ run[r].kind \in {"intake", "import"} /\ y.kind = run[r].kind
                 /\ y.state = "applied" /\ \A s \in y.ids : status[s] = "unused"
                 /\ status' = [s \in Students |-> IF s \in y.ids THEN "active" ELSE status[s]]
                 /\ IF y.kind = "intake"
                       THEN home' = home /\ waiting' = waiting \union y.ids
                       ELSE home' = home \union y.ids /\ waiting' = waiting
                 /\ Did(r, y.ids)
<1>1. run[r] \in RunRecords
  BY DEF RunsSound
<1>2. PICK rows \in SUBSET run[r].listed :
         /\ Create(rows) /\ Applied(r, [Snapshot(r) EXCEPT !.ids = rows])
         /\ run[r].state = "proposed"
         /\ \/ run[r].kind = "intake" /\ home' = home /\ waiting' = waiting \union rows
            \/ run[r].kind = "import" /\ home' = home \union rows /\ waiting' = waiting
         /\ Did(r, rows)
  BY DEF ApplyIntake, ApplyImport, Proposed
<1>3. rows \in SUBSET Students
  BY <1>1, RunFields
<1>4. rows \subseteq Known'
  BY <1>2, <1>3 DEF Create, Known
<1>5. /\ RunsSound'
      /\ \E y \in RunRecords :
            /\ run' = [run EXCEPT ![r] = y]
            /\ y.kind = run[r].kind /\ y.state = "applied" /\ y.ids = rows
  BY <1>2, <1>3, <1>4, CreationWrites DEF Applied, Snapshot
<1> QED
  BY <1>2, <1>5 DEF Create, Did

LEMMA PromotionRuns ==
    ASSUME TablesSound, RunsSound, Known \subseteq Known', NEW r \in WorkflowRuns, ApplyPromotion(r)
    PROVE  /\ RunsSound'
           /\ \E y \in RunRecords :
                 /\ run' = [run EXCEPT ![r] = y] /\ run[r].state = "proposed"
                 /\ run[r].kind = "promotion" /\ y.kind = "promotion" /\ y.state = "applied"
                 /\ y.ids = run[r].listed /\ y.ids \subseteq Known
                 /\ y.gave \in ClassOf(y.ids) /\ y.previous \in ClassOf(y.ids)
                 /\ \A s \in y.ids : y.previous[s] = seat[s]
                 /\ y.intakes = {s \in y.ids : y.gave[s] # Nowhere} \intersect waiting
                 /\ \A c \in y.created : class[c] = "unused"
                 /\ y.created \subseteq Classes
                 /\ \A s \in y.ids : y.gave[s] # Nowhere => s \in Present
                 /\ class' = [c \in Classes |-> IF c \in y.created THEN "open" ELSE class[c]]
                 /\ seat' = [s \in Students |-> IF s \in y.ids THEN y.gave[s] ELSE seat[s]]
                 /\ waiting' = waiting \ y.intakes
                 /\ late' =
                         IF Pending THEN late \union {s \in y.ids : y.gave[s] # Nowhere} ELSE late
                 /\ Did(r, y.ids)
<1>1. run[r] \in RunRecords /\ RunSound(run[r]) /\ Proposed(r, "promotion")
  BY DEF RunsSound, ApplyPromotion
<1>2. PICK new \in SUBSET {c \in Classes : class[c] = "unused"},
           chosen \in [run[r].listed -> Classes \union {Nowhere}] : Promoted(r, new, chosen)
  BY PromotionWrites
<1>3. PICK x \in RunRecords : x = run[r]
  BY <1>1
<1> DEFINE cleared == x.listed
           placed == {s \in cleared : chosen[s] # Nowhere}
           before0 == [s \in cleared |-> seat[s]]
           given == {chosen[s] : s \in placed}
<1>4. /\ \A s \in placed : s \in Present /\ chosen[s] \in Open \union new
      /\ class' = [c \in Classes |-> IF c \in new THEN "open" ELSE class[c]]
      /\ seat' = [s \in Students |-> IF s \in cleared THEN chosen[s] ELSE seat[s]]
      /\ waiting' = waiting \ (placed \intersect waiting)
      /\ late' = IF Pending THEN late \union placed ELSE late
      /\ run' = [run EXCEPT ![r] =
            [[x EXCEPT !.state = "applied", !.listed = {}] EXCEPT
               !.ids = cleared, !.previous = before0, !.assigned = given, !.created = new,
               !.intakes = placed \intersect waiting, !.gave = chosen]]
  BY <1>2, <1>3 DEF Promoted, Admitted, Applied, Snapshot, Added
<1>5. cleared \in SUBSET Students /\ cleared \subseteq Known
  BY <1>1, <1>3, RunFields DEF RunSound, Is, Proposed
<1>6. /\ chosen \in ClassOf(cleared) /\ new \in SUBSET Classes
      /\ (placed \intersect waiting) \in SUBSET Students
  BY <1>3, <1>5 DEF ClassOf
<1>7. before0 \in ClassOf(cleared)
  <2>1. \A s \in Students : seat[s] \in Classes \union {Nowhere}
    BY DEF TablesSound, Open
  <2> QED
    BY <1>5, <2>1 DEF ClassOf
<1>8. given \in SUBSET Classes
  <2>1. \A s \in cleared : chosen[s] \in Classes \union {Nowhere}
    BY <1>3
  <2> QED
    BY <2>1
<1>a. PICK ids \in SUBSET Students, assigned \in SUBSET Classes, intakes \in SUBSET Students :
         ids = cleared /\ assigned = given /\ intakes = placed \intersect waiting
  <2> HIDE DEF cleared, placed, before0, given
  <2> QED
    BY <1>5, <1>6, <1>8
<1>b. PICK previous \in ClassOf(ids), gave \in ClassOf(ids) : previous = before0 /\ gave = chosen
  <2> HIDE DEF cleared, placed, before0, given
  <2> QED
    BY <1>6, <1>7, <1>a
<1>c. PICK y : y = PromotionOf(x, ids, previous, assigned, new, intakes, gave)
  OBVIOUS
<1>d. /\ y \in RunRecords
      /\ y.state = "applied" /\ y.kind = x.kind /\ y.ids = ids
      /\ y.previous = previous /\ y.created = new /\ y.intakes = intakes /\ y.gave = gave
  <2> HIDE DEF cleared, placed, before0, given
  <2> QED
    BY <1>6, <1>c, PromotedRun
<1>9. /\ y.state = "applied" /\ y.kind = x.kind /\ y.ids = cleared
      /\ y.previous = before0 /\ y.created = new /\ y.intakes = placed \intersect waiting
      /\ y.gave = chosen
  <2> HIDE DEF cleared, placed, before0, given
  <2> QED
    BY <1>a, <1>b, <1>d
<1>10. run' = [run EXCEPT ![r] = y]
  <2> HIDE DEF cleared, placed, before0, given
  <2> QED
    BY <1>4, <1>a, <1>b, <1>c DEF PromotionOf
<1>11. \A s \in cleared : before0[s] = seat[s]
  OBVIOUS
<1>12. y.intakes \subseteq y.ids
  BY <1>9
<1>13. RunSound(y)'
  <2> HIDE DEF cleared, placed, before0, given
  <2> QED
    BY <1>1, <1>3, <1>5, <1>6, <1>7, <1>9, <1>12 DEF RunSound, Is, Proposed
<1>14. RunsSound'
  BY <1>10, <1>13, <1>d, <1>9, OneRunChanges
<1>15. \A c \in new : class[c] = "unused"
  BY <1>2
<1>16. /\ \A s \in y.ids : y.gave[s] # Nowhere => s \in Present
       /\ y.intakes = {s \in y.ids : y.gave[s] # Nowhere} \intersect waiting
       /\ late' = IF Pending THEN late \union {s \in y.ids : y.gave[s] # Nowhere} ELSE late
  BY <1>4, <1>9
<1>17. y.kind = "promotion" /\ run[r].state = "proposed" /\ run[r].kind = "promotion"
  BY <1>1, <1>3, <1>9 DEF Proposed
<1>18. /\ class' = [c \in Classes |-> IF c \in y.created THEN "open" ELSE class[c]]
       /\ seat' = [s \in Students |-> IF s \in y.ids THEN y.gave[s] ELSE seat[s]]
       /\ waiting' = waiting \ y.intakes
  BY <1>4, <1>9
<1>19. /\ y.ids = run[r].listed /\ y.ids \subseteq Known /\ y.created \subseteq Classes
       /\ y.gave \in ClassOf(y.ids) /\ y.previous \in ClassOf(y.ids)
       /\ \A s \in y.ids : y.previous[s] = seat[s]
       /\ \A c \in y.created : class[c] = "unused"
  <2> HIDE DEF placed, before0, given
  <2> QED
    BY <1>3, <1>5, <1>6, <1>7, <1>9, <1>11, <1>15
<1>20. Did(r, y.ids)
  <2>1. Did(r, run[r].listed)
    BY <1>2 DEF Promoted
  <2>2. y.ids = run[r].listed
    BY <1>19
  <2> HIDE DEF cleared, placed, before0, given
  <2> QED
    BY <2>1, <2>2 DEF Did
<1> HIDE DEF cleared, placed, before0, given
<1> QED
  BY <1>9, <1>10, <1>14, <1>16, <1>17, <1>18, <1>19, <1>20, <1>d

LEMMA RevertedWrites ==
    ASSUME RunsSound, Known \subseteq Known', NEW r \in WorkflowRuns,
           Reverted(r) \/ RevertLeavers(r)
    PROVE  /\ RunsSound'
           /\ \E y \in RunRecords :
                 /\ run' = [run EXCEPT ![r] = y]
                 /\ y.kind = run[r].kind /\ y.state = "reverted" /\ y.ids = {}
           /\ did' = [did EXCEPT ![r] = <<>>]
<1>1. run[r].kind \in Kinds \union {Nowhere}
  BY RunFields DEF RunsSound
<1>2. PICK kind \in Kinds \union {Nowhere} : kind = run[r].kind
  BY <1>1
<1>3. PICK y \in RunRecords :
         /\ y = [NoRun EXCEPT !.kind = kind, !.state = "reverted"]
         /\ y.kind = kind /\ y.state = "reverted" /\ y.ids = {} /\ y.listed = {}
  BY RevertedRun
<1>4. run' = [run EXCEPT ![r] = y] /\ did' = [did EXCEPT ![r] = <<>>]
  BY <1>2, <1>3 DEF Reverted, RevertLeavers, Forget
<1>5. RunSound(y)'
  BY <1>3 DEF RunSound, Is, Standing
<1>6. RunsSound'
  BY <1>3, <1>4, <1>5, OneRunChanges
<1> QED
  BY <1>2, <1>3, <1>4, <1>6

LEMMA CheckWrites ==
    ASSUME RunsSound, Known \subseteq Known', NEW r \in WorkflowRuns,
           CheckRevert(r) \/ RevertFails(r)
    PROVE  /\ RunsSound'
           /\ \E y \in RunRecords :
                 /\ run' = [run EXCEPT ![r] = y]
                 /\ y.kind = run[r].kind /\ y.ids = run[r].ids /\ y.created = run[r].created
                 /\ y.previous = run[r].previous /\ y.gave = run[r].gave
                 /\ y.intakes = run[r].intakes
                 /\ \/ /\ y.state = "reverting" /\ run[r].state = "applied"
                       /\ run[r].kind # "leavers" /\ ~InUse(run[r])
                    \/ /\ y.state = "applied" /\ run[r].state = "reverting"
                       /\ run[r].kind = "promotion"
<1>1. run[r] \in RunRecords /\ RunSound(run[r])
  BY DEF RunsSound
<1>2. PICK x \in RunRecords : x = run[r]
  BY <1>1
<1>3. PICK next \in {"applied", "reverting"} :
         /\ run' = [run EXCEPT ![r].state = next]
         /\ \/ /\ next = "reverting" /\ run[r].state = "applied"
               /\ run[r].kind # "leavers" /\ ~InUse(run[r])
            \/ next = "applied" /\ run[r].state = "reverting" /\ run[r].kind = "promotion"
  <2>1. CASE CheckRevert(r)
    BY <2>1 DEF CheckRevert
  <2>2. CASE RevertFails(r)
    BY <2>2 DEF RevertFails, Reverting
  <2> QED
    BY <2>1, <2>2
<1>4. PICK y \in RunRecords :
         /\ y = [x EXCEPT !.state = next]
         /\ y.state = next /\ y.kind = x.kind /\ y.ids = x.ids /\ y.created = x.created
         /\ y.previous = x.previous /\ y.gave = x.gave /\ y.intakes = x.intakes
  BY CheckedRun
<1>5. run' = [run EXCEPT ![r] = y]
  BY <1>2, <1>3, <1>4
<1>6. RunSound(y)'
  BY <1>1, <1>2, <1>3, <1>4 DEF RunSound, Is, Standing
<1>7. RunsSound'
  BY <1>3, <1>4, <1>5, <1>6, OneRunChanges
<1> QED
  BY <1>2, <1>3, <1>4, <1>5, <1>7

LEMMA SoundStep ==
    ASSUME TablesSound, RunsSound, [YearEndNext]_yearEndVars
    PROVE  TablesSound' /\ RunsSound' /\ Known \subseteq Known'
<1>1. Known \subseteq Known'
  BY KnownGrows
<1>2. CASE UNCHANGED yearEndVars
  BY <1>2 DEF yearEndVars, TablesSound, RunsSound, OneProposal, RunSound, Known, Present, Open
<1>3. CASE ByHand
  <2>1. run' = run
    BY <1>3 DEF ByHand, Enroll, CommitAssignment, Unenroll, UpdateStatus, DeleteStudent,
        GiveAccount, EnterMarks, KeepRecord, CreateClass, CountClass, DeleteClass, TakeAttendance
  <2>2. \A q \in WorkflowRuns : RunSound(run[q])'
    BY <1>1, <2>1 DEF RunsSound, RunSound
  <2> QED
    BY <1>1, <1>3, <2>1, <2>2, ByHandTables DEF RunsSound, OneProposal
<1>4. ASSUME NEW r \in WorkflowRuns,
             Discard(r) \/ (\E kind \in Kinds : Propose(r, kind)) \/ Apply(r) \/ Revert(r)
      PROVE  TablesSound' /\ RunsSound'
  <2>1. TablesSound'
    BY <1>4, WorkflowTables
  <2>2. CASE Discard(r)
    BY <1>1, <2>1, <2>2, DiscardWrites
  <2>3. CASE \E kind \in Kinds : Propose(r, kind)
    BY <1>1, <2>1, <2>3, ProposeRuns
  <2>4. CASE Apply(r)
    BY <1>1, <2>1, <2>4, RolloverWrites, LeaversWrites, IntakeWrites, PromotionRuns DEF Apply
  <2>5. CASE Revert(r)
    BY <1>1, <2>1, <2>5, RevertedWrites, CheckWrites
    DEF Revert, RevertRollover, RevertCreation, RevertPromotion
  <2> QED
    BY <1>4, <2>2, <2>3, <2>4, <2>5
<1> QED
  BY <1>1, <1>2, <1>3, <1>4 DEF YearEndNext

LEMMA WhoWasAdmitted ==
    ASSUME NEW s
    PROVE  /\ s \in Admissions <=>
                 \E r \in WorkflowRuns : Is(run[r], "intake", {"applied"}) /\ s \in run[r].ids
           /\ s \in Admissions' <=>
                 \E r \in WorkflowRuns : Is(run'[r], "intake", {"applied"}) /\ s \in run'[r].ids
BY DEF Admissions, Is

LEMMA AdmittedAreKnown ==
    ASSUME RunsSound
    PROVE  Admissions \subseteq Known
BY WhoWasAdmitted DEF RunsSound, RunSound

(* A run other than an intake's apply admits nobody. *)
LEMMA AdmissionsShrink ==
    ASSUME \A r \in WorkflowRuns : Is(run'[r], "intake", {"applied"}) =>
              Is(run[r], "intake", {"applied"}) /\ run'[r].ids = run[r].ids
    PROVE  Admissions' \subseteq Admissions
BY WhoWasAdmitted

(* Steps after which an admitted student still waits, still has the seat,   *)
(* or has lost it by hand.                                                  *)
LEMMA TameStep ==
    ASSUME RunsSound, AdmittedKept, Admissions' \subseteq Admissions,
           Present' \intersect Known \subseteq Present, home' \intersect Known \subseteq home,
           handled \subseteq handled',
           year' # "deleted" => 
              /\ year # "deleted"
              /\ waiting \intersect Present' \subseteq waiting'
              /\ \A s \in Present' : seat[s] # Nowhere => seat'[s] # Nowhere \/ s \in handled',
           \A r \in WorkflowRuns : Is(run'[r], "promotion", {"proposed"}) => run'[r] = run[r],
           \A r \in WorkflowRuns : Is(run'[r], "promotion", Standing) =>
              /\ Is(run[r], "promotion", Standing)
              /\ run'[r].ids = run[r].ids /\ run'[r].gave = run[r].gave
              /\ run'[r].previous = run[r].previous /\ run'[r].intakes = run[r].intakes
    PROVE  AdmittedKept'
<1>1. Admissions \subseteq Known
  BY AdmittedAreKnown
<1>2. NewHere'
  BY <1>1 DEF AdmittedKept, NewHere
<1>3. Accounted'
  BY <1>1 DEF AdmittedKept, Accounted, Handled
<1>4. ListedWait'
  <2> SUFFICES ASSUME year' # "deleted", NEW r \in WorkflowRuns,
                      Is(run'[r], "promotion", {"proposed"}),
                      NEW s \in run'[r].listed, s \in Admissions', s \in Present'
               PROVE  s \in waiting' \union handled'
    BY DEF ListedWait, Handled
  <2>1. s \in Present /\ s \in Admissions /\ run'[r] = run[r]
    BY <1>1
  <2>2. Handled(s)
    BY <2>1 DEF AdmittedKept, ListedWait
  <2> QED
    BY <2>2 DEF Handled
<1>5. NoneLost'
  <2> SUFFICES ASSUME NEW r \in WorkflowRuns, Is(run'[r], "promotion", Standing),
                      NEW s \in run'[r].ids, s \in Admissions', s \in Present'
               PROVE  ~Lost(run[r], s)'
    BY DEF NoneLost
  <2>1. s \in Present /\ s \in Admissions /\ s \in run[r].ids /\ Is(run[r], "promotion", Standing)
    BY <1>1
  <2>2. ~Lost(run[r], s)
    BY <2>1 DEF AdmittedKept, NoneLost
  <2> QED
    BY <2>2 DEF Lost
<1> QED
  BY <1>2, <1>3, <1>4, <1>5 DEF AdmittedKept

LEMMA RunAfter ==
    ASSUME RunsSound, NEW r \in WorkflowRuns, NEW y, run' = [run EXCEPT ![r] = y]
    PROVE  /\ run'[r] = y
           /\ \A q \in WorkflowRuns \ {r} : run'[q] = run[q]
BY DEF RunsSound

LEMMA ByHandAdmitted ==
    ASSUME TablesSound, RunsSound, AdmittedKept, ByHand
    PROVE  AdmittedKept'
<1> USE NowhereAssumption
<1>1. run' = run
  BY DEF ByHand, Enroll, CommitAssignment, Unenroll, UpdateStatus, DeleteStudent,
      GiveAccount, EnterMarks, KeepRecord, CreateClass, CountClass, DeleteClass, TakeAttendance
<1>2. Admissions' \subseteq Admissions
  BY <1>1, AdmissionsShrink
<1>a. \A q \in WorkflowRuns : run'[q] = run[q]
  BY <1>1
<1>3. ASSUME Present' \subseteq Present, home' \subseteq home, handled \subseteq handled',
             year' = year, waiting \intersect Present' \subseteq waiting',
             \A s \in Present' : seat[s] # Nowhere => seat'[s] # Nowhere \/ s \in handled'
      PROVE  AdmittedKept'
  <2>1. Present' \intersect Known \subseteq Present /\ home' \intersect Known \subseteq home
    BY <1>3
  <2>2. \A q \in WorkflowRuns : Is(run'[q], "promotion", Standing) =>
           Is(run[q], "promotion", Standing)
    BY <1>a DEF Is
  <2> QED
    BY <1>a, <1>2, <1>3, <2>1, <2>2, TameStep
<1>4. ASSUME NEW s \in Students, NEW c \in Classes, Enroll(s, c) \/ CommitAssignment(s, c)
      PROVE  AdmittedKept'
  <2>1. /\ UNCHANGED <<year, status, home, waiting, handled>> /\ c # Nowhere
        /\ seat' = [seat EXCEPT ![s] = c]
    BY <1>4 DEF Enroll, CommitAssignment
  <2> QED
    BY <1>3, <2>1 DEF TablesSound, Present
<1>5. ASSUME NEW s \in Students, Unenroll(s)
      PROVE  AdmittedKept'
  BY <1>3, <1>5 DEF Unenroll, TablesSound, Present
<1>6. ASSUME NEW s \in Students, UpdateStatus(s)
      PROVE  AdmittedKept'
  BY <1>3, <1>6 DEF UpdateStatus, TablesSound, Present
<1>7. ASSUME NEW s \in Students, DeleteStudent(s)
      PROVE  AdmittedKept'
  BY <1>3, <1>7 DEF DeleteStudent, DropStudents, TablesSound, Present
<1>8. ASSUME NEW c \in Classes, CreateClass(c) \/ CountClass(c) \/ TakeAttendance(c)
      PROVE  AdmittedKept'
  BY <1>3, <1>8 DEF CreateClass, CountClass, TakeAttendance, tables, Present
<1>9. ASSUME NEW c \in Classes, DeleteClass(c)
      PROVE  AdmittedKept'
  <2>1. /\ UNCHANGED <<year, status, home, waiting>>
        /\ handled' = handled \union Seated(c)
        /\ seat' = [s \in Students |-> IF seat[s] \in {c} \intersect Open THEN Nowhere ELSE seat[s]]
    BY <1>9 DEF DeleteClass, DropClasses
  <2>2. \A s \in Students : seat[s] # Nowhere => seat'[s] # Nowhere \/ s \in handled'
    BY <2>1 DEF Seated
  <2> QED
    BY <1>3, <2>1, <2>2 DEF Present
<1>10. ASSUME NEW s \in Students, GiveAccount(s) \/ EnterMarks(s) \/ KeepRecord(s)
      PROVE  AdmittedKept'
  BY <1>3, <1>10 DEF GiveAccount, EnterMarks, KeepRecord, tables, Present
<1> QED
  BY <1>4, <1>5, <1>6, <1>7, <1>8, <1>9, <1>10 DEF ByHand

LEMMA ProposeAdmitted ==
    ASSUME TablesSound, RunsSound, AdmittedKept, Known \subseteq Known', NEW r \in WorkflowRuns,
           NEW kind \in Kinds, Propose(r, kind)
    PROVE  AdmittedKept'
<1>1. /\ run'[r].kind = kind /\ run'[r].state = "proposed" /\ run'[r].ids = {}
      /\ Lists(kind, run'[r].listed)
      /\ \A q \in WorkflowRuns \ {r} :
            \/ run'[q] = run[q] /\ (run[q].kind # kind \/ run[q].state # "proposed")
            \/ /\ run[q].state = "proposed" /\ run'[q].state = "discarded"
               /\ run'[q].ids = run[q].ids /\ run'[q].kind = run[q].kind
  BY ProposeRuns
<1>2. UNCHANGED <<year, class, status, home, seat, waiting, handled>> /\ Present' = Present
  BY DEF Propose, tables, Present
<1>3. Admissions' \subseteq Admissions
  BY <1>1, AdmissionsShrink DEF Is
<1>4. ASSUME NEW q \in WorkflowRuns, q # r
      PROVE  run'[q] = run[q] \/ (~Is(run'[q], "promotion", {"proposed"})
                                    /\ ~Is(run'[q], "promotion", Standing))
  BY <1>1, <1>4 DEF Is, Standing
<1>5. NewHere'
  BY <1>2, <1>3 DEF AdmittedKept, NewHere
<1>6. Accounted'
  BY <1>2, <1>3 DEF AdmittedKept, Accounted, Handled
<1>7. ListedWait'
  <2> SUFFICES ASSUME year' # "deleted", NEW q \in WorkflowRuns,
                      Is(run'[q], "promotion", {"proposed"}),
                      NEW s \in run'[q].listed, s \in Admissions', s \in Present'
               PROVE  s \in waiting' \union handled'
    BY DEF ListedWait, Handled
  <2>1. CASE q = r
    <3>1. kind = "promotion"
      BY <1>1, <2>1 DEF Is
    <3>2. s \in home \union waiting
      BY <1>1, <2>1, <3>1 DEF Lists
    <3> QED
      BY <1>2, <1>3, <3>2 DEF AdmittedKept, NewHere
  <2>2. CASE q # r
    <3>1. run'[q] = run[q]
      BY <1>4, <2>2
    <3>2. Handled(s)
      BY <1>2, <1>3, <3>1 DEF AdmittedKept, ListedWait
    <3> QED
      BY <1>2, <3>2 DEF Handled
  <2> QED
    BY <2>1, <2>2
<1>8. NoneLost'
  <2> SUFFICES ASSUME NEW q \in WorkflowRuns, Is(run'[q], "promotion", Standing),
                      NEW s \in run'[q].ids, s \in Admissions', s \in Present'
               PROVE  ~Lost(run[q], s)'
    BY DEF NoneLost
  <2>1. q # r
    BY <1>1 DEF Is, Standing
  <2>2. run'[q] = run[q]
    BY <1>4, <2>1
  <2>3. ~Lost(run[q], s)
    BY <1>2, <1>3, <2>2 DEF AdmittedKept, NoneLost
  <2> QED
    BY <1>2, <2>2, <2>3 DEF Lost
<1> QED
  BY <1>5, <1>6, <1>7, <1>8 DEF AdmittedKept

(* One run changes, and becomes neither an admission nor a promotion. *)
LEMMA OtherRunAdmitted ==
    ASSUME RunsSound, AdmittedKept, NEW r \in WorkflowRuns, NEW y, run' = [run EXCEPT ![r] = y],
           y.state \in {"discarded", "reverted"} \/ y.kind \notin {"intake", "promotion"}
              \/ (y.kind # "promotion" /\ y.state = "reverting"),
           Present' \intersect Known \subseteq Present, home' \intersect Known \subseteq home,
           handled \subseteq handled',
           year' # "deleted" => 
              /\ year # "deleted"
              /\ waiting \intersect Present' \subseteq waiting'
              /\ \A s \in Present' : seat[s] # Nowhere => seat'[s] # Nowhere \/ s \in handled'
    PROVE  AdmittedKept'
<1>1. run'[r] = y /\ \A q \in WorkflowRuns \ {r} : run'[q] = run[q]
  BY RunAfter
<1>2. Admissions' \subseteq Admissions
  BY <1>1, AdmissionsShrink DEF Is
<1>3. \A q \in WorkflowRuns :
         Is(run'[q], "promotion", {"proposed"}) \/ Is(run'[q], "promotion", Standing)
            => run'[q] = run[q]
  BY <1>1 DEF Is, Standing
<1> QED
  BY <1>2, <1>3, TameStep

LEMMA IntakeAdmitted ==
    ASSUME TablesSound, RunsSound, AdmittedKept, Known \subseteq Known', NEW r \in WorkflowRuns,
           ApplyIntake(r) \/ ApplyImport(r)
    PROVE  AdmittedKept'
<1>1. PICK y \in RunRecords :
         /\ run' = [run EXCEPT ![r] = y] /\ run[r].state = "proposed"
         /\ run[r].kind \in {"intake", "import"} /\ y.kind = run[r].kind
         /\ y.state = "applied" /\ \A s \in y.ids : status[s] = "unused"
         /\ status' = [s \in Students |-> IF s \in y.ids THEN "active" ELSE status[s]]
         /\ IF y.kind = "intake"
               THEN home' = home /\ waiting' = waiting \union y.ids
               ELSE home' = home \union y.ids /\ waiting' = waiting
  BY IntakeWrites
<1>2. UNCHANGED <<year, class, seat, handled>>
  BY DEF ApplyIntake, ApplyImport
<1>3. y.ids \subseteq Students
  BY RunFields
<1>4. y.ids \intersect Known = {} /\ Present' \intersect Known \subseteq Present
  BY <1>1, <1>3 DEF Known, Present, TablesSound
<1>5. run'[r] = y /\ \A q \in WorkflowRuns \ {r} : run'[q] = run[q]
  BY <1>1, RunAfter
<1>6. CASE y.kind = "import"
  BY <1>1, <1>2, <1>4, <1>6, OtherRunAdmitted
<1>7. CASE y.kind = "intake"
  <2>1. Admissions' \subseteq Admissions \union y.ids
    <3> SUFFICES ASSUME NEW s \in Admissions'
                 PROVE  s \in Admissions \union y.ids
      OBVIOUS
    <3>1. PICK q \in WorkflowRuns : Is(run'[q], "intake", {"applied"}) /\ s \in run'[q].ids
      BY WhoWasAdmitted
    <3> QED
      BY <1>5, <3>1, WhoWasAdmitted
  <2>2. Admissions \subseteq Known
    BY AdmittedAreKnown
  <2>3. NewHere'
    <3>1. home \subseteq Known
      BY DEF TablesSound, Present, Known
    <3> QED
      BY <1>1, <1>4, <1>7, <2>1, <3>1 DEF AdmittedKept, NewHere
  <2>4. Accounted'
    BY <1>1, <1>2, <1>4, <1>7, <2>1, <2>2 DEF AdmittedKept, Accounted, Handled
  <2>5. ListedWait'
    <3> SUFFICES ASSUME year' # "deleted", NEW q \in WorkflowRuns,
                        Is(run'[q], "promotion", {"proposed"}),
                        NEW s \in run'[q].listed, s \in Admissions', s \in Present'
                 PROVE  s \in waiting' \union handled'
      BY DEF ListedWait, Handled
    <3>1. q # r /\ run'[q] = run[q]
      BY <1>5, <1>7 DEF Is
    <3>2. CASE s \in y.ids
      BY <1>1, <1>7, <3>2
    <3>3. CASE s \notin y.ids
      <4>1. s \in Admissions /\ s \in Present
        BY <1>4, <2>1, <2>2, <3>3
      <4>2. Handled(s)
        BY <1>2, <3>1, <4>1 DEF AdmittedKept, ListedWait
      <4> QED
        BY <1>1, <1>2, <1>7, <4>2 DEF Handled
    <3> QED
      BY <3>2, <3>3
  <2>6. NoneLost'
    <3> SUFFICES ASSUME NEW q \in WorkflowRuns, Is(run'[q], "promotion", Standing),
                        NEW s \in run'[q].ids, s \in Admissions', s \in Present'
                 PROVE  ~Lost(run[q], s)'
      BY DEF NoneLost
    <3>1. q # r /\ run'[q] = run[q]
      BY <1>5, <1>7 DEF Is
    <3>2. s \in Known
      BY <3>1 DEF RunsSound, RunSound
    <3>3. s \in Admissions /\ s \in Present
      BY <1>4, <2>1, <3>2
    <3>4. ~Lost(run[q], s)
      BY <3>1, <3>3 DEF AdmittedKept, NoneLost
    <3> QED
      BY <1>2, <3>1, <3>4 DEF Lost
  <2> QED
    BY <2>3, <2>4, <2>5, <2>6 DEF AdmittedKept
<1> QED
  BY <1>1, <1>6, <1>7

LEMMA PromotionAdmitted ==
    ASSUME TablesSound, RunsSound, AdmittedKept, Known \subseteq Known', NEW r \in WorkflowRuns,
           ApplyPromotion(r)
    PROVE  AdmittedKept'
<1> USE NowhereAssumption
<1>1. PICK y \in RunRecords :
         /\ run' = [run EXCEPT ![r] = y] /\ run[r].state = "proposed"
         /\ run[r].kind = "promotion" /\ y.kind = "promotion" /\ y.state = "applied"
         /\ y.ids = run[r].listed
         /\ y.gave \in ClassOf(y.ids) /\ y.previous \in ClassOf(y.ids)
         /\ y.intakes = {s \in y.ids : y.gave[s] # Nowhere} \intersect waiting
         /\ seat' = [s \in Students |-> IF s \in y.ids THEN y.gave[s] ELSE seat[s]]
         /\ waiting' = waiting \ y.intakes
  BY PromotionRuns
<1>2. /\ UNCHANGED <<year, status, home, handled>> /\ Present' = Present
      /\ year # "deleted"
  BY DEF ApplyPromotion, Present, TablesSound
<1>3. run'[r] = y /\ \A q \in WorkflowRuns \ {r} : run'[q] = run[q]
  BY <1>1, RunAfter
<1>4. Admissions' \subseteq Admissions
  BY <1>1, <1>3, AdmissionsShrink DEF Is
<1>5. \A s \in y.ids \intersect Admissions \intersect Present : Handled(s)
  <2>1. Is(run[r], "promotion", {"proposed"})
    BY <1>1 DEF Is
  <2> QED
    BY <1>1, <1>2, <2>1 DEF AdmittedKept, ListedWait
<1>6. NewHere'
  BY <1>2, <1>4 DEF AdmittedKept, NewHere
<1>7. Accounted'
  <2> SUFFICES ASSUME NEW s \in Admissions', s \in Present'
               PROVE  s \in waiting' \union handled' \/ seat'[s] # Nowhere
    BY DEF Accounted, Handled
  <2>1. s \in Admissions /\ s \in Present /\ s \in Students
    BY <1>2, <1>4 DEF Present
  <2>2. seat'[s] = IF s \in y.ids THEN y.gave[s] ELSE seat[s]
    BY <1>1, <2>1
  <2>3. CASE s \in y.ids
    BY <1>1, <1>2, <1>5, <2>1, <2>2, <2>3 DEF Handled
  <2>4. CASE s \notin y.ids
    BY <1>1, <1>2, <2>1, <2>2, <2>4 DEF AdmittedKept, Accounted, Handled
  <2> QED
    BY <2>3, <2>4
<1>8. ListedWait'
  <2>1. ASSUME NEW q \in WorkflowRuns, Is(run'[q], "promotion", {"proposed"})
        PROVE  FALSE
    BY <1>1, <1>3, <2>1 DEF Is, RunsSound, OneProposal
  <2> QED
    BY <2>1 DEF ListedWait
<1>9. NoneLost'
  <2> SUFFICES ASSUME NEW q \in WorkflowRuns, Is(run'[q], "promotion", Standing),
                      NEW s \in run'[q].ids, s \in Admissions', s \in Present'
               PROVE  ~Lost(run[q], s)'
    BY DEF NoneLost
  <2>1. CASE q = r
    BY <1>1, <1>2, <1>3, <1>4, <1>5, <2>1 DEF Lost, Handled
  <2>2. CASE q # r
    <3>1. ~Lost(run[q], s)
      BY <1>2, <1>3, <1>4, <2>2 DEF AdmittedKept, NoneLost
    <3> QED
      BY <1>2, <1>3, <2>2, <3>1 DEF Lost
  <2> QED
    BY <2>1, <2>2
<1> QED
  BY <1>6, <1>7, <1>8, <1>9 DEF AdmittedKept

(* What the revert of a promotion makes of seats and classes. *)
LEMMA UnpromoteWrites ==
    ASSUME TablesSound, RunsSound, NEW r \in WorkflowRuns, RevertPromotion(r),
           NEW x \in RunRecords, x = run[r]
    PROVE  /\ Is(x, "promotion", Standing) /\ x.state = "reverting"
           /\ \A s \in Students : seat'[s] = IF s \in x.ids THEN x.previous[s] ELSE seat[s]
           /\ seat' = Reassigned(x)
           /\ waiting' = waiting \union x.intakes
           /\ handled' = handled \union {s \in x.ids : seat[s] \notin {Nowhere, x.gave[s]}}
           /\ late' = late \union {s \in x.ids : Reassigned(x)[s] # Nowhere}
           /\ \A c \in Classes :
                 class'[c] = IF c \in x.created /\ c \in Open
                                /\ (\A s \in Students : Reassigned(x)[s] # c)
                                THEN "deleted" ELSE class[c]
           /\ UNCHANGED <<year, status, home, account, recorded, marked, closing>>
           /\ Present' = Present
<1> DEFINE gone == DeleteEmptyClasses(x.created, Reassigned(x))
<1>1. /\ class' = [c \in Classes |-> IF c \in gone THEN "deleted" ELSE class[c]]
      /\ seat' = [s \in Students |->
              IF Reassigned(x)[s] \in gone THEN Nowhere ELSE Reassigned(x)[s]]
      /\ waiting' = waiting \union x.intakes
      /\ late' = IF Pending THEN late \union {s \in x.ids : Reassigned(x)[s] # Nowhere} ELSE late
      /\ handled' = handled \union {s \in x.ids : seat[s] \notin {Nowhere, x.gave[s]}}
      /\ UNCHANGED <<year, status, home, account, recorded, marked, closing>>
      /\ x.kind = "promotion" /\ x.state = "reverting"
  BY DEF RevertPromotion, DropClasses, Added, Reverting
<1>2. Pending
  BY <1>1 DEF Pending
<1>3. \A s \in Students : \A c \in gone : Reassigned(x)[s] # c
  BY DEF DeleteEmptyClasses
<1>4. \A s \in Students : /\ seat'[s] = Reassigned(x)[s]
                          /\ Reassigned(x)[s] = IF s \in x.ids THEN x.previous[s] ELSE seat[s]
  BY <1>1, <1>3 DEF Reassigned
<1>5. seat' = Reassigned(x)
  <2>1. seat' = [s \in Students |-> Reassigned(x)[s]]
    BY <1>1, <1>3
  <2> QED
    BY <2>1 DEF Reassigned
<1>6. \A c \in Classes : class'[c] = IF c \in gone THEN "deleted" ELSE class[c]
  BY <1>1
<1>7. \A c \in Classes : c \in gone <=>
         c \in x.created /\ c \in Open /\ \A s \in Students : Reassigned(x)[s] # c
  BY DEF DeleteEmptyClasses
<1>8. Present' = Present
  BY <1>1 DEF Present
<1> HIDE DEF gone
<1> QED
  BY <1>1, <1>2, <1>4, <1>5, <1>6, <1>7, <1>8 DEF Is, Standing

LEMMA UnpromoteAdmitted ==
    ASSUME TablesSound, RunsSound, AdmittedKept, Known \subseteq Known', NEW r \in WorkflowRuns,
           RevertPromotion(r)
    PROVE  AdmittedKept'
<1> USE NowhereAssumption
<1>1. PICK x \in RunRecords : x = run[r]
  BY DEF RunsSound
<1>2. /\ Is(x, "promotion", Standing)
      /\ \A s \in Students : seat'[s] = IF s \in x.ids THEN x.previous[s] ELSE seat[s]
      /\ waiting' = waiting \union x.intakes
      /\ handled' = handled \union {s \in x.ids : seat[s] \notin {Nowhere, x.gave[s]}}
      /\ UNCHANGED <<year, home>> /\ Present' = Present
  BY <1>1, UnpromoteWrites
<1>3. PICK y \in RunRecords :
         /\ run' = [run EXCEPT ![r] = y]
         /\ y.kind = run[r].kind /\ y.state = "reverted" /\ y.ids = {}
  BY RevertedWrites DEF RevertPromotion
<1>4. run'[r] = y /\ \A q \in WorkflowRuns \ {r} : run'[q] = run[q]
  BY <1>3, RunAfter
<1>5. Admissions' \subseteq Admissions
  BY <1>3, <1>4, AdmissionsShrink DEF Is
<1>6. NewHere'
  BY <1>2, <1>5 DEF AdmittedKept, NewHere
<1>7. Accounted'
  <2> SUFFICES ASSUME year' # "deleted", NEW s \in Admissions', s \in Present'
               PROVE  s \in waiting' \union handled' \/ seat'[s] # Nowhere
    BY DEF Accounted, Handled
  <2>1. s \in Admissions /\ s \in Present /\ s \in Students
    BY <1>2, <1>5 DEF Present
  <2>2. Handled(s) \/ seat[s] # Nowhere
    BY <1>2, <2>1 DEF AdmittedKept, Accounted
  <2>3. CASE s \in x.ids
    <3>1. ~Lost(x, s)
      BY <1>1, <1>2, <2>1, <2>3 DEF AdmittedKept, NoneLost
    <3> QED
      BY <1>2, <2>1, <2>2, <2>3, <3>1 DEF Lost, Handled
  <2>4. CASE s \notin x.ids
    BY <1>2, <2>1, <2>2, <2>4 DEF Handled
  <2> QED
    BY <2>3, <2>4
<1>8. ListedWait'
  <2> SUFFICES ASSUME year' # "deleted", NEW q \in WorkflowRuns,
                      Is(run'[q], "promotion", {"proposed"}),
                      NEW s \in run'[q].listed, s \in Admissions', s \in Present'
               PROVE  s \in waiting' \union handled'
    BY DEF ListedWait, Handled
  <2>1. run'[q] = run[q]
    BY <1>3, <1>4 DEF Is
  <2>2. Handled(s)
    BY <1>2, <1>5, <2>1 DEF AdmittedKept, ListedWait
  <2> QED
    BY <1>2, <2>2 DEF Handled
<1>9. NoneLost'
  <2> SUFFICES ASSUME NEW q \in WorkflowRuns, Is(run'[q], "promotion", Standing),
                      NEW s \in run'[q].ids, s \in Admissions', s \in Present'
               PROVE  ~Lost(run[q], s)'
    BY DEF NoneLost
  <2>1. run'[q] = run[q]
    BY <1>3, <1>4 DEF Is, Standing
  <2>2. ~Lost(run[q], s)
    BY <1>2, <1>5, <2>1 DEF AdmittedKept, NoneLost
  <2> QED
    BY <1>2, <2>1, <2>2 DEF Lost
<1> QED
  BY <1>6, <1>7, <1>8, <1>9 DEF AdmittedKept

LEMMA AdmittedStep ==
    ASSUME TablesSound, RunsSound, AdmittedKept, [YearEndNext]_yearEndVars
    PROVE  AdmittedKept'
<1>0. Known \subseteq Known' /\ TablesSound' /\ RunsSound'
  BY SoundStep
<1>1. CASE UNCHANGED yearEndVars
  BY <1>1 DEF yearEndVars, AdmittedKept, NewHere, Accounted, ListedWait, NoneLost, Admissions,
      Handled, Present, Lost
<1>2. CASE ByHand
  BY <1>2, ByHandAdmitted
<1>3. ASSUME NEW r \in WorkflowRuns, Discard(r)
      PROVE  AdmittedKept'
  <2>1. PICK y \in RunRecords : run' = [run EXCEPT ![r] = y] /\ y.state = "discarded"
    BY <1>0, <1>3, DiscardWrites
  <2> QED
    BY <1>3, <2>1, OtherRunAdmitted DEF Discard, tables, Present
<1>4. ASSUME NEW r \in WorkflowRuns, NEW kind \in Kinds, Propose(r, kind)
      PROVE  AdmittedKept'
  BY <1>0, <1>4, ProposeAdmitted
<1>5. ASSUME NEW r \in WorkflowRuns, ApplyRollover(r)
      PROVE  AdmittedKept'
  <2>1. PICK y \in RunRecords : run' = [run EXCEPT ![r] = y] /\ y.kind = "rollover"
    BY <1>0, <1>5, RolloverWrites
  <2> QED
    BY <1>5, <2>1, OtherRunAdmitted DEF ApplyRollover, Present
<1>6. ASSUME NEW r \in WorkflowRuns, ApplyLeavers(r)
      PROVE  AdmittedKept'
  <2>1. PICK y \in RunRecords :
           /\ run' = [run EXCEPT ![r] = y] /\ y.kind = "leavers"
           /\ status' = [s \in Students |->
                   IF s \in y.ids \intersect Active THEN "left" ELSE status[s]]
    BY <1>0, <1>6, LeaversWrites
  <2>2. Present' = Present
    BY <2>1 DEF Present, Active
  <2> QED
    BY <1>6, <2>1, <2>2, OtherRunAdmitted DEF ApplyLeavers
<1>7. ASSUME NEW r \in WorkflowRuns, ApplyIntake(r) \/ ApplyImport(r)
      PROVE  AdmittedKept'
  BY <1>0, <1>7, IntakeAdmitted
<1>8. ASSUME NEW r \in WorkflowRuns, ApplyPromotion(r)
      PROVE  AdmittedKept'
  BY <1>0, <1>8, PromotionAdmitted
<1>9. ASSUME NEW r \in WorkflowRuns, RevertLeavers(r)
      PROVE  AdmittedKept'
  <2>1. PICK y \in RunRecords : run' = [run EXCEPT ![r] = y] /\ y.state = "reverted"
    BY <1>0, <1>9, RevertedWrites
  <2>2. Present' = Present
    BY <1>9 DEF RevertLeavers, Present
  <2> QED
    BY <1>9, <2>1, <2>2, OtherRunAdmitted DEF RevertLeavers
<1>10. ASSUME NEW r \in WorkflowRuns, CheckRevert(r) \/ RevertFails(r)
       PROVE  AdmittedKept'
  <2>1. PICK y \in RunRecords :
           /\ run' = [run EXCEPT ![r] = y]
           /\ y.kind = run[r].kind /\ y.ids = run[r].ids
           /\ y.previous = run[r].previous /\ y.gave = run[r].gave /\ y.intakes = run[r].intakes
           /\ \/ y.state = "reverting" /\ run[r].state = "applied"
              \/ y.state = "applied" /\ run[r].state = "reverting" /\ run[r].kind = "promotion"
    BY <1>0, <1>10, CheckWrites
  <2>2. run'[r] = y /\ \A q \in WorkflowRuns \ {r} : run'[q] = run[q]
    BY <2>1, RunAfter
  <2>3. Admissions' \subseteq Admissions
    BY <2>1, <2>2, AdmissionsShrink DEF Is
  <2>4. UNCHANGED <<year, home, seat, waiting, handled>> /\ Present' = Present
    BY <1>10 DEF CheckRevert, RevertFails, tables, Present
  <2>5. \A q \in WorkflowRuns : Is(run'[q], "promotion", {"proposed"}) => run'[q] = run[q]
    BY <2>1, <2>2 DEF Is
  <2>6. \A q \in WorkflowRuns : Is(run'[q], "promotion", Standing) =>
           /\ Is(run[q], "promotion", Standing)
           /\ run'[q].ids = run[q].ids /\ run'[q].gave = run[q].gave
           /\ run'[q].previous = run[q].previous /\ run'[q].intakes = run[q].intakes
    BY <2>1, <2>2 DEF Is, Standing
  <2> QED
    BY <2>3, <2>4, <2>5, <2>6, TameStep
<1>11. ASSUME NEW r \in WorkflowRuns, RevertRollover(r) \/ RevertCreation(r)
       PROVE  AdmittedKept'
  <2>1. PICK y \in RunRecords : run' = [run EXCEPT ![r] = y] /\ y.state = "reverted"
    BY <1>0, <1>11, RevertedWrites DEF RevertRollover, RevertCreation
  <2>2. CASE RevertRollover(r)
    <3>1. year' = "deleted" /\ UNCHANGED <<status, home>> /\ handled \subseteq handled'
      BY <2>2 DEF RevertRollover
    <3> QED
      BY <2>1, <3>1, OtherRunAdmitted DEF Present
  <2>3. CASE RevertCreation(r)
    <3>1. UNCHANGED <<year, handled>> /\ home' \subseteq home /\ Present' \subseteq Present
      BY <2>3 DEF RevertCreation, DropStudents, Present
    <3>2. \A s \in Present' : (s \in waiting => s \in waiting') /\ seat'[s] = seat[s]
      BY <2>3 DEF RevertCreation, DropStudents, Present
    <3> QED
      BY <2>1, <3>1, <3>2, OtherRunAdmitted
  <2> QED
    BY <1>11, <2>2, <2>3
<1>12. ASSUME NEW r \in WorkflowRuns, RevertPromotion(r)
       PROVE  AdmittedKept'
  BY <1>0, <1>12, UnpromoteAdmitted
<1> QED
  BY <1>1, <1>2, <1>3, <1>4, <1>5, <1>6, <1>7, <1>8, <1>9, <1>10, <1>11, <1>12
  DEF YearEndNext, Apply, Revert

-----------------------------------------------------------------------------
(* What is new while a check is pending. *)

(* Nobody is added behind a check: who gets a seat or a record is in late.  *)
LEMMA LateStep ==
    ASSUME TablesSound, RunsSound, NewIsLate, late \subseteq late', closing' \subseteq closing,
           Pending => \A s \in Students :
              Unused(s)' \/ s \in late' \/ ~Unused(s),
           Pending => \A s \in Students : seat'[s] \in {Nowhere, seat[s]} \/ s \in late',
           \A r \in WorkflowRuns : run'[r].state = "reverting" =>
              run[r].state = "reverting" /\ run'[r].kind = run[r].kind /\ run'[r].ids = run[r].ids
    PROVE  NewIsLate'
<1> USE NowhereAssumption
<1>1. ASSUME NEW r \in WorkflowRuns,
             Is(run'[r], "intake", {"reverting"}) \/ Is(run'[r], "import", {"reverting"}),
             NEW s \in run'[r].ids
      PROVE  s \in late' \/ Unused(s)'
  <2>1. run[r].state = "reverting" /\ s \in run[r].ids /\ run[r].kind = run'[r].kind
    BY <1>1 DEF Is
  <2>2. s \in late \/ Unused(s)
    BY <1>1, <2>1 DEF NewIsLate, Is
  <2>3. s \in Students
    BY <2>1, RunFields DEF RunsSound
  <2> QED
    BY <2>1, <2>2, <2>3 DEF Pending
<1>2. ASSUME NEW r \in WorkflowRuns, Is(run'[r], "rollover", {"reverting"}), NEW s \in Students
      PROVE  s \in late' \/ seat'[s] = Nowhere
  <2>1. run[r].state = "reverting" /\ run[r].kind = "rollover"
    BY <1>2 DEF Is
  <2>2. s \in late \/ seat[s] = Nowhere
    BY <2>1 DEF NewIsLate, Is
  <2>3. Pending
    BY <2>1 DEF Pending
  <2> QED
    BY <2>2, <2>3
<1>3. ASSUME NEW c \in closing', NEW s \in Seated(c)'
      PROVE  s \in late'
  <2>1. c \in closing /\ c # Nowhere /\ seat'[s] = c /\ s \in Students
    BY <1>3 DEF Seated, TablesSound
  <2>2. Seated(c) \subseteq late /\ Pending
    BY <2>1 DEF NewIsLate, Pending
  <2> QED
    BY <2>1, <2>2 DEF Seated
<1> QED
  BY <1>1, <1>2, <1>3 DEF NewIsLate

LEMMA ByHandLate ==
    ASSUME TablesSound, RunsSound, NewIsLate, ByHand
    PROVE  NewIsLate'
<1> USE NowhereAssumption
<1>1. run' = run
  BY DEF ByHand, Enroll, CommitAssignment, Unenroll, UpdateStatus, DeleteStudent,
      GiveAccount, EnterMarks, KeepRecord, CreateClass, CountClass, DeleteClass, TakeAttendance
<1>2. ASSUME late \subseteq late', closing' \subseteq closing,
             Pending => \A s \in Students : Unused(s)' \/ s \in late' \/ ~Unused(s),
             Pending => \A s \in Students : seat'[s] \in {Nowhere, seat[s]} \/ s \in late'
      PROVE  NewIsLate'
  BY <1>1, <1>2, LateStep
<1>3. ASSUME NEW s \in Students, NEW c \in Classes, Enroll(s, c) \/ CommitAssignment(s, c)
      PROVE  NewIsLate'
  <2>1. /\ UNCHANGED <<account, recorded, marked, closing>>
        /\ seat' = [seat EXCEPT ![s] = c]
        /\ late' = IF Pending THEN late \union {s} ELSE late
    BY <1>3 DEF Enroll, CommitAssignment, laterWork, Added
  <2> QED
    BY <1>2, <2>1 DEF Unused, TablesSound
<1>4. ASSUME NEW s \in Students, Unenroll(s)
      PROVE  NewIsLate'
  BY <1>2, <1>4 DEF Unenroll, Unused, TablesSound, laterWork
<1>5. ASSUME NEW s \in Students, UpdateStatus(s)
      PROVE  NewIsLate'
  BY <1>2, <1>5 DEF UpdateStatus, Unused, laterWork
<1>6. ASSUME NEW s \in Students, DeleteStudent(s)
      PROVE  NewIsLate'
  <2>1. /\ UNCHANGED <<closing, late>>
        /\ \A t \in Students : seat'[t] \in {Nowhere, seat[t]}
        /\ account' \subseteq account /\ recorded' \subseteq recorded /\ marked' \subseteq marked
    BY <1>6 DEF DeleteStudent, DropStudents
  <2> QED
    BY <1>2, <2>1 DEF Unused
<1>7. ASSUME NEW c \in Classes, CreateClass(c)
      PROVE  NewIsLate'
  BY <1>2, <1>7 DEF CreateClass, Unused, laterWork
<1>8. ASSUME NEW c \in Classes, CountClass(c)
      PROVE  NewIsLate'
  <2>1. /\ UNCHANGED <<run, late, account, recorded, marked, seat>>
        /\ closing' = closing \union {c}
        /\ Seated(c) = {}
    BY <1>8 DEF CountClass, tables, laterWork
  <2> QED
    BY <2>1 DEF NewIsLate, Unused, Seated
<1>9. ASSUME NEW c \in Classes, DeleteClass(c)
      PROVE  NewIsLate'
  <2>1. /\ UNCHANGED <<account, recorded, marked, late>> /\ closing' \subseteq closing
        /\ \A t \in Students : seat'[t] \in {Nowhere, seat[t]}
    BY <1>9 DEF DeleteClass, DropClasses
  <2> QED
    BY <1>2, <2>1 DEF Unused
<1>10. ASSUME NEW s \in Students, GiveAccount(s) \/ EnterMarks(s) \/ KeepRecord(s)
       PROVE  NewIsLate'
  <2>1. UNCHANGED <<closing, seat>> /\ late' = IF Pending THEN late \union {s} ELSE late
    BY <1>10 DEF GiveAccount, EnterMarks, KeepRecord, tables, Added
  <2>2. account' \union recorded' \union marked'
        \subseteq account \union recorded \union marked \union {s}
    BY <1>10 DEF GiveAccount, EnterMarks, KeepRecord
  <2> QED
    BY <1>2, <2>1, <2>2 DEF Unused
<1>11. ASSUME NEW c \in Classes, TakeAttendance(c)
       PROVE  NewIsLate'
  <2>1. /\ UNCHANGED <<closing, seat, account, marked>>
        /\ late' = IF Pending THEN late \union Seated(c) ELSE late
        /\ recorded' = recorded \union Seated(c)
    BY <1>11 DEF TakeAttendance, tables, Added
  <2> QED
    BY <1>2, <2>1 DEF Unused
<1> QED
  BY <1>3, <1>4, <1>5, <1>6, <1>7, <1>8, <1>9, <1>10, <1>11 DEF ByHand

LEMMA WorkflowLate ==
    ASSUME TablesSound, RunsSound, NewIsLate, Known \subseteq Known', NEW r \in WorkflowRuns,
           Discard(r) \/ (\E kind \in Kinds : Propose(r, kind)) \/ Apply(r) \/ Revert(r)
    PROVE  NewIsLate'
<1> USE NowhereAssumption
<1>1. ASSUME NEW y, run' = [run EXCEPT ![r] = y], y.state # "reverting",
             late \subseteq late', closing' = closing,
             Pending => \A s \in Students : Unused(s)' \/ s \in late' \/ ~Unused(s),
             Pending => \A s \in Students : seat'[s] \in {Nowhere, seat[s]} \/ s \in late'
      PROVE  NewIsLate'
  <2>1. run'[r] = y /\ \A q \in WorkflowRuns \ {r} : run'[q] = run[q]
    BY <1>1, RunAfter
  <2>2. \A q \in WorkflowRuns : run'[q].state = "reverting" => run'[q] = run[q]
    BY <1>1, <2>1
  <2> QED
    BY <1>1, <2>2, LateStep
<1>2. CASE Discard(r) \/ ApplyRollover(r) \/ ApplyLeavers(r) \/ ApplyIntake(r) \/ ApplyImport(r)
              \/ RevertLeavers(r)
  <2>1. PICK y : run' = [run EXCEPT ![r] = y] /\ y.state # "reverting"
    BY <1>2, DiscardWrites, RolloverWrites, LeaversWrites, IntakeWrites, RevertedWrites
  <2>2. UNCHANGED <<seat, account, recorded, marked, late, closing>>
    BY <1>2 DEF Discard, ApplyRollover, ApplyLeavers, ApplyIntake, ApplyImport, RevertLeavers,
        tables, laterWork
  <2> QED
    BY <1>1, <2>1, <2>2 DEF Unused
<1>3. ASSUME NEW kind \in Kinds, Propose(r, kind)
      PROVE  NewIsLate'
  <2>1. UNCHANGED <<seat, account, recorded, marked, late, closing>>
    BY <1>3 DEF Propose, tables, laterWork
  <2>2. \A q \in WorkflowRuns : run'[q].state = "reverting" => run'[q] = run[q]
    BY <1>3, ProposeRuns
  <2> QED
    BY <2>1, <2>2, LateStep DEF Unused
<1>4. CASE ApplyPromotion(r)
  <2>1. PICK y \in RunRecords :
           /\ run' = [run EXCEPT ![r] = y] /\ y.state = "applied"
           /\ seat' = [s \in Students |-> IF s \in y.ids THEN y.gave[s] ELSE seat[s]]
           /\ late' = IF Pending THEN late \union {s \in y.ids : y.gave[s] # Nowhere} ELSE late
    BY <1>4, PromotionRuns
  <2>2. UNCHANGED <<account, recorded, marked, closing>>
    BY <1>4 DEF ApplyPromotion, laterWork
  <2>3. Pending => \A s \in Students : seat'[s] \in {Nowhere, seat[s]} \/ s \in late'
    BY <2>1
  <2>4. Pending => \A s \in Students : Unused(s)' \/ s \in late' \/ ~Unused(s)
    BY <2>2, <2>3 DEF Unused
  <2>5. late \subseteq late'
    BY <2>1
  <2> QED
    BY <1>1, <2>1, <2>2, <2>3, <2>4, <2>5
<1>5. CASE CheckRevert(r) \/ RevertFails(r)
  <2>1. PICK y \in RunRecords :
           /\ run' = [run EXCEPT ![r] = y]
           /\ y.kind = run[r].kind /\ y.ids = run[r].ids
           /\ \/ y.state = "reverting" /\ ~InUse(run[r])
              \/ y.state = "applied"
    BY <1>5, CheckWrites
  <2>2. UNCHANGED <<seat, account, recorded, marked, late, closing>>
    BY <1>5 DEF CheckRevert, RevertFails, tables, laterWork
  <2>3. run'[r] = y /\ \A q \in WorkflowRuns \ {r} : run'[q] = run[q]
    BY <2>1, RunAfter
  <2>4. CASE y.state = "applied"
    BY <1>1, <2>1, <2>2, <2>4 DEF Unused
  <2>5. CASE y.state = "reverting"
    <3>1. ~InUse(run[r])
      BY <2>1, <2>5
    <3>2. ASSUME NEW q \in WorkflowRuns,
                 Is(run'[q], "intake", {"reverting"}) \/ Is(run'[q], "import", {"reverting"}),
                 NEW s \in run'[q].ids
          PROVE  s \in late' \/ Unused(s)'
      <4>1. CASE q = r
        <5>1. (run[r].kind = "intake" \/ run[r].kind = "import") /\ s \in run[r].ids
          BY <2>1, <2>3, <3>2, <4>1 DEF Is
        <5>2. ~StudentsInUse(run[r].ids)
          BY <3>1, <5>1 DEF InUse
        <5> QED
          BY <2>2, <5>1, <5>2 DEF StudentsInUse, Unused
      <4>2. CASE q # r
        BY <2>2, <2>3, <3>2, <4>2 DEF NewIsLate, Unused
      <4> QED
        BY <4>1, <4>2
    <3>3. ASSUME NEW q \in WorkflowRuns, Is(run'[q], "rollover", {"reverting"}), NEW s \in Students
          PROVE  s \in late' \/ seat'[s] = Nowhere
      <4>1. CASE q = r
        BY <2>1, <2>2, <2>3, <3>1, <3>3, <4>1 DEF Is, InUse, YearHasActivity
      <4>2. CASE q # r
        BY <2>2, <2>3, <3>3, <4>2 DEF NewIsLate
      <4> QED
        BY <4>1, <4>2
    <3>4. \A c \in closing' : Seated(c)' \subseteq late'
      BY <2>2 DEF NewIsLate, Seated
    <3> QED
      BY <3>2, <3>3, <3>4 DEF NewIsLate
  <2> QED
    BY <2>1, <2>4, <2>5
<1>6. CASE RevertRollover(r) \/ RevertCreation(r)
  <2>1. PICK y : run' = [run EXCEPT ![r] = y] /\ y.state # "reverting"
    BY <1>6, RevertedWrites DEF RevertRollover, RevertCreation
  <2>2. /\ UNCHANGED <<late, closing>> /\ \A s \in Students : seat'[s] \in {Nowhere, seat[s]}
        /\ account' \subseteq account /\ recorded' \subseteq recorded /\ marked' \subseteq marked
    BY <1>6 DEF RevertRollover, RevertCreation, DropClasses, DropStudents
  <2> QED
    BY <1>1, <2>1, <2>2 DEF Unused
<1>7. CASE RevertPromotion(r)
  <2>1. PICK x \in RunRecords : x = run[r]
    BY DEF RunsSound
  <2>2. /\ \A s \in Students : seat'[s] = IF s \in x.ids THEN x.previous[s] ELSE seat[s]
        /\ seat' = Reassigned(x)
        /\ late' = late \union {s \in x.ids : Reassigned(x)[s] # Nowhere}
        /\ UNCHANGED <<account, recorded, marked, closing>>
    BY <1>7, <2>1, UnpromoteWrites
  <2>3. PICK y : run' = [run EXCEPT ![r] = y] /\ y.state # "reverting"
    BY <1>7, RevertedWrites DEF RevertPromotion
  <2>4. \A s \in Students : seat'[s] \in {Nowhere, seat[s]} \/ s \in late'
    BY <2>2
  <2> QED
    BY <1>1, <2>2, <2>3, <2>4 DEF Unused
<1> QED
  BY <1>2, <1>3, <1>4, <1>5, <1>6, <1>7 DEF Apply, Revert

LEMMA FinishIsRevert ==
    ASSUME TablesSound, RunsSound, YearEndNext, NEW r \in WorkflowRuns, Finishes(r)
    PROVE  \/ RevertLeavers(r) \/ RevertRollover(r) \/ RevertCreation(r) \/ RevertPromotion(r)
<1>0. Known \subseteq Known'
  BY SoundStep
<1>1. CASE ByHand
  BY <1>1 DEF Finishes, ByHand, Enroll, CommitAssignment, Unenroll, UpdateStatus, DeleteStudent,
      GiveAccount, EnterMarks, KeepRecord, CreateClass, CountClass, DeleteClass, TakeAttendance
<1>2. ASSUME NEW q \in WorkflowRuns, NEW kind \in Kinds, Propose(q, kind)
      PROVE  FALSE
  <2>1. /\ run'[q].state = "proposed"
        /\ \A x \in WorkflowRuns \ {q} : run'[x] = run[x] \/ run'[x].state = "discarded"
    BY <1>0, <1>2, ProposeRuns
  <2> QED
    BY <2>1 DEF Finishes
<1>3. ASSUME NEW q \in WorkflowRuns, NEW y, run' = [run EXCEPT ![q] = y], y.state # "reverted"
      PROVE  FALSE
  BY <1>3, RunAfter DEF Finishes
<1>4. ASSUME NEW q \in WorkflowRuns, Discard(q) \/ Apply(q)
      PROVE  FALSE
  <2>1. CASE Discard(q)
    BY <1>0, <1>3, <2>1, DiscardWrites
  <2>2. CASE ApplyRollover(q)
    BY <1>0, <1>3, <2>2, RolloverWrites
  <2>3. CASE ApplyLeavers(q)
    <3>1. PICK y : run' = [run EXCEPT ![q] = y] /\ y.state = "applied"
      BY <1>0, <2>3, LeaversWrites
    <3> QED
      BY <1>3, <3>1
  <2>4. CASE ApplyIntake(q) \/ ApplyImport(q)
    <3>1. PICK y : run' = [run EXCEPT ![q] = y] /\ y.state = "applied"
      BY <1>0, <2>4, IntakeWrites
    <3> QED
      BY <1>3, <3>1
  <2>5. CASE ApplyPromotion(q)
    <3>1. PICK y : run' = [run EXCEPT ![q] = y] /\ y.state = "applied"
      BY <1>0, <2>5, PromotionRuns
    <3> QED
      BY <1>3, <3>1
  <2> QED
    BY <1>4, <2>1, <2>2, <2>3, <2>4, <2>5 DEF Apply
<1>5. ASSUME NEW q \in WorkflowRuns, CheckRevert(q) \/ RevertFails(q)
      PROVE  FALSE
  BY <1>0, <1>3, <1>5, CheckWrites
<1>6. ASSUME NEW q \in WorkflowRuns,
             RevertLeavers(q) \/ RevertRollover(q) \/ RevertCreation(q) \/ RevertPromotion(q)
      PROVE  q = r
  <2>1. PICK y : run' = [run EXCEPT ![q] = y]
    BY <1>0, <1>6, RevertedWrites DEF RevertRollover, RevertCreation, RevertPromotion
  <2> QED
    BY <2>1, RunAfter DEF Finishes
<1> QED
  BY <1>1, <1>2, <1>4, <1>5, <1>6 DEF YearEndNext, Revert

LEMMA InUseStep ==
    ASSUME TablesSound, RunsSound, NewIsLate, YearEndNext, NEW r \in WorkflowRuns,
           NEW s \in Students, Finishes(r), s \in Present, status'[s] = "deleted"
    PROVE  s \in late \/ Unused(s)
<1>1. CASE RevertLeavers(r)
  BY <1>1 DEF RevertLeavers, Present
<1>2. CASE RevertRollover(r) \/ RevertPromotion(r)
  BY <1>2 DEF RevertRollover, RevertPromotion, Present
<1>3. CASE RevertCreation(r)
  BY <1>3 DEF RevertCreation, DropStudents, Reverting, Present, NewIsLate, Is
<1> QED
  BY <1>1, <1>2, <1>3, FinishIsRevert

LEMMA UnseatStep ==
    ASSUME TablesSound, RunsSound, NewIsLate, YearEndNext, NEW c \in Open,
           class'[c] = "deleted", NEW s \in Seated(c)
    PROVE  s \in late \/ \E r \in WorkflowRuns : Finishes(r) /\ s \in run[r].ids
<1> USE NowhereAssumption
<1>0. Known \subseteq Known' /\ c \in Classes /\ class[c] = "open" /\ seat[s] = c /\ s \in Students
  BY SoundStep DEF Open, Seated
<1>1. CASE ByHand
  <2>1. ASSUME NEW d \in Classes, DeleteClass(d)
        PROVE  d = c
    <3>1. class' = [e \in Classes |-> IF e \in {d} \intersect Open THEN "deleted" ELSE class[e]]
      BY <2>1 DEF DeleteClass, DropClasses
    <3> QED
      BY <1>0, <3>1
  <2>2. DeleteClass(c)
    <3>1. class' # class
      BY <1>0
    <3>2. ASSUME NEW d \in Classes, CreateClass(d)
          PROVE  FALSE
      <4>1. class' = [class EXCEPT ![d] = "open"]
        BY <3>2 DEF CreateClass
      <4> QED
        BY <1>0, <4>1 DEF TablesSound
    <3>3. ASSUME NEW t \in Students, NEW d \in Classes,
                 Enroll(t, d) \/ CommitAssignment(t, d) \/ CountClass(d) \/ TakeAttendance(d)
          PROVE  class' = class
      BY <3>3 DEF Enroll, CommitAssignment, CountClass, TakeAttendance, tables
    <3>4. ASSUME NEW t \in Students,
                 \/ Unenroll(t) \/ UpdateStatus(t) \/ DeleteStudent(t) \/ GiveAccount(t)
                 \/ EnterMarks(t) \/ KeepRecord(t)
          PROVE  class' = class
      BY <3>4 DEF Unenroll, UpdateStatus, DeleteStudent, GiveAccount, EnterMarks, KeepRecord, tables
    <3> QED
      BY <1>0, <1>1, <2>1, <3>1, <3>2, <3>3, <3>4 DEF ByHand
  <2> QED
    BY <2>2 DEF DeleteClass, NewIsLate
<1>2. ASSUME NEW r \in WorkflowRuns, RevertRollover(r)
      PROVE  s \in late
  BY <1>0, <1>2 DEF RevertRollover, Reverting, NewIsLate, Is
<1>3. ASSUME NEW r \in WorkflowRuns, RevertPromotion(r)
      PROVE  Finishes(r) /\ s \in run[r].ids
  <2>1. PICK x \in RunRecords : x = run[r]
    BY DEF RunsSound
  <2>2. /\ x.state = "reverting"
        /\ \A t \in Students : seat'[t] = IF t \in x.ids THEN x.previous[t] ELSE seat[t]
        /\ seat' = Reassigned(x)
        /\ \A d \in Classes :
              class'[d] = IF d \in x.created /\ d \in Open
                             /\ (\A t \in Students : Reassigned(x)[t] # d)
                             THEN "deleted" ELSE class[d]
    BY <1>3, <2>1, UnpromoteWrites
  <2>3. PICK y : run' = [run EXCEPT ![r] = y] /\ y.state = "reverted"
    BY <1>0, <1>3, RevertedWrites DEF RevertPromotion
  <2>4. run'[r] = y
    BY <2>3, RunAfter
  <2>5. \A t \in Students : Reassigned(x)[t] # c
    <3>1. class'[c] = IF c \in x.created /\ c \in Open /\ (\A t \in Students : Reassigned(x)[t] # c)
                         THEN "deleted" ELSE class[c]
      BY <1>0, <2>2
    <3> QED
      BY <1>0, <3>1
  <2>6. seat'[s] # c
    BY <1>0, <2>2, <2>5
  <2>7. s \in x.ids
    BY <1>0, <2>2, <2>6
  <2> QED
    BY <2>1, <2>2, <2>3, <2>4, <2>7 DEF Finishes
<1>4. ASSUME NEW r \in WorkflowRuns, ApplyRollover(r)
      PROVE  FALSE
  <2>1. PICK copied : class' = [d \in Classes |-> IF d \in copied THEN "open" ELSE class[d]]
    BY <1>4 DEF ApplyRollover
  <2> QED
    BY <1>0, <2>1
<1>5. ASSUME NEW r \in WorkflowRuns, ApplyPromotion(r)
      PROVE  FALSE
  <2>1. PICK y \in RunRecords : class' = [d \in Classes |->
          IF d \in y.created THEN "open" ELSE class[d]]
    BY <1>0, <1>5, PromotionRuns
  <2> QED
    BY <1>0, <2>1
<1>6. ASSUME NEW r \in WorkflowRuns,
             \/ Discard(r) \/ (\E kind \in Kinds : Propose(r, kind))
             \/ ApplyLeavers(r) \/ ApplyIntake(r) \/ ApplyImport(r)
             \/ RevertLeavers(r) \/ CheckRevert(r) \/ RevertCreation(r) \/ RevertFails(r)
      PROVE  FALSE
  BY <1>0, <1>6 DEF Discard, Propose, ApplyLeavers, ApplyIntake, ApplyImport, RevertLeavers,
      CheckRevert, RevertCreation, RevertFails, tables
<1> QED
  BY <1>1, <1>2, <1>3, <1>4, <1>5, <1>6 DEF YearEndNext, Apply, Revert

-----------------------------------------------------------------------------
(* Every run that can be reverted has its effect in did. *)

Entry(d, s) ==
    /\ d[s].was.status = status[s] /\ d[s].made.status = status'[s]
    /\ d[s].was.seat = seat[s] /\ d[s].made.seat = seat'[s]
    /\ d[s].was.home = home \intersect {s} /\ d[s].made.home = home' \intersect {s}
    /\ d[s].was.waiting = waiting \intersect {s} /\ d[s].made.waiting = waiting' \intersect {s}

LEMMA DidFacts ==
    ASSUME NEW r, NEW changed, Did(r, changed)
    PROVE  \E d : /\ did' = [did EXCEPT ![r] = d]
                  /\ DOMAIN d = changed
                  /\ \A s \in changed : Entry(d, s)
<1>1. PICK d : d = [s \in changed |-> [was |-> Row(s), made |-> Row(s)']]
  OBVIOUS
<1>2. did' = [did EXCEPT ![r] = d]
  BY <1>1 DEF Did
<1>3. ASSUME NEW s \in changed
      PROVE  Entry(d, s)
  <2>1. d[s].was = Row(s) /\ d[s].made = Row(s)'
    BY <1>1
  <2> QED
    BY <2>1 DEF Row, Entry
<1>4. DOMAIN d = changed
  BY <1>1
<1>5. \A s \in changed : Entry(d, s)
  BY <1>3
<1> QED
  BY <1>2, <1>4, <1>5

LEMMA EffectIsKept ==
    ASSUME NEW x, NEW y, NEW d, Effect(x, d),
           y.kind = x.kind, y.ids = x.ids, y.previous = x.previous, y.created = x.created,
           y.intakes = x.intakes
    PROVE  Effect(y, d)
BY DEF Effect

LEMMA DidOne ==
    ASSUME RunsSound, DidTrue, NEW r \in WorkflowRuns, NEW y, NEW d,
           run' = [run EXCEPT ![r] = y], did' = [did EXCEPT ![r] = d],
           IF y.state \in Standing THEN Effect(y, d) ELSE DOMAIN d = {}
    PROVE  DidTrue'
<1>1. run'[r] = y /\ \A q \in WorkflowRuns \ {r} : run'[q] = run[q]
  BY RunAfter
<1>2. did = [q \in WorkflowRuns |-> did[q]]
  BY DEF DidTrue
<1>3. /\ did' = [q \in WorkflowRuns |-> did'[q]]
      /\ did'[r] = d /\ \A q \in WorkflowRuns \ {r} : did'[q] = did[q]
  BY <1>2
<1>4. ASSUME NEW q \in WorkflowRuns
      PROVE  (IF run[q].state \in Standing THEN Effect(run[q], did[q]) ELSE DOMAIN did[q] = {})'
  <2>1. PICK x, e : x = run'[q] /\ e = did'[q]
    OBVIOUS
  <2>2. IF x.state \in Standing THEN Effect(x, e) ELSE DOMAIN e = {}
    <3>1. CASE q = r
      BY <1>1, <1>3, <2>1, <3>1
    <3>2. CASE q # r
      BY <1>1, <1>3, <2>1, <3>2 DEF DidTrue
    <3> QED
      BY <3>1, <3>2
  <2> QED
    BY <2>1, <2>2 DEF Effect, Standing
<1> QED
  BY <1>3, <1>4 DEF DidTrue

LEMMA DidSame ==
    ASSUME DidTrue, did' = did,
           \A r \in WorkflowRuns :
              \/ run'[r] = run[r]
              \/ run'[r].state \notin Standing /\ run[r].state \notin Standing
    PROVE  DidTrue'
<1>1. ASSUME NEW q \in WorkflowRuns
      PROVE  (IF run[q].state \in Standing THEN Effect(run[q], did[q]) ELSE DOMAIN did[q] = {})'
  <2>1. PICK x, e : x = run'[q] /\ e = did'[q]
    OBVIOUS
  <2>2. IF x.state \in Standing THEN Effect(x, e) ELSE DOMAIN e = {}
    BY <2>1 DEF DidTrue
  <2> QED
    BY <2>1, <2>2 DEF Effect, Standing
<1> QED
  BY <1>1 DEF DidTrue

LEMMA DidStep ==
    ASSUME TablesSound, RunsSound, DidTrue, [YearEndNext]_yearEndVars
    PROVE  DidTrue'
<1> USE NowhereAssumption
<1>0. Known \subseteq Known' /\ RunsSound' /\ TablesSound'
  BY SoundStep
<1>1. CASE UNCHANGED yearEndVars
  BY <1>1, DidSame DEF yearEndVars
<1>2. CASE ByHand
  <2>1. run' = run /\ did' = did
    BY <1>2 DEF ByHand, Enroll, CommitAssignment, Unenroll, UpdateStatus, DeleteStudent,
        GiveAccount, EnterMarks, KeepRecord, CreateClass, CountClass, DeleteClass, TakeAttendance,
        Edit
  <2> QED
    BY <2>1, DidSame
<1>3. ASSUME NEW r \in WorkflowRuns, NEW kind \in Kinds, Propose(r, kind)
      PROVE  DidTrue'
  <2>1. /\ run'[r].state = "proposed" /\ run[r].state = "unused"
        /\ \A q \in WorkflowRuns \ {r} :
              \/ run'[q] = run[q]
              \/ run[q].state = "proposed" /\ run'[q].state = "discarded"
    BY <1>0, <1>3, ProposeRuns
  <2>2. did' = did
    BY <1>3 DEF Propose
  <2> QED
    BY <2>1, <2>2, DidSame DEF Standing
<1>4. ASSUME NEW r \in WorkflowRuns, Discard(r)
      PROVE  DidTrue'
  <2>1. PICK y : /\ run' = [run EXCEPT ![r] = y] /\ run[r].state = "proposed"
                 /\ y.state = "discarded"
    BY <1>0, <1>4, DiscardWrites
  <2>2. run'[r] = y /\ \A q \in WorkflowRuns \ {r} : run'[q] = run[q]
    BY <2>1, RunAfter
  <2>3. did' = did
    BY <1>4 DEF Discard
  <2> QED
    BY <2>1, <2>2, <2>3, DidSame DEF Standing
<1>5. ASSUME NEW r \in WorkflowRuns, CheckRevert(r) \/ RevertFails(r)
      PROVE  DidTrue'
  <2>1. PICK y \in RunRecords :
           /\ run' = [run EXCEPT ![r] = y]
           /\ y.kind = run[r].kind /\ y.ids = run[r].ids /\ y.created = run[r].created
           /\ y.previous = run[r].previous /\ y.intakes = run[r].intakes
           /\ y.state \in Standing /\ run[r].state \in Standing
    BY <1>0, <1>5, CheckWrites DEF Standing
  <2>2. PICK x, d : x = run[r] /\ d = did[r]
    OBVIOUS
  <2>3. Effect(x, d)
    BY <2>1, <2>2 DEF DidTrue
  <2>4. Effect(y, d)
    BY <2>1, <2>2, <2>3, EffectIsKept
  <2>5. did' = did
    BY <1>5 DEF CheckRevert, RevertFails
  <2>6. did' = [did EXCEPT ![r] = d]
    BY <2>2, <2>5 DEF DidTrue
  <2> QED
    BY <2>1, <2>4, <2>6, DidOne
<1>6. ASSUME NEW r \in WorkflowRuns, ApplyRollover(r)
      PROVE  DidTrue'
  <2>1. PICK y \in RunRecords :
           /\ run' = [run EXCEPT ![r] = y] /\ run[r].state = "proposed"
           /\ y.kind = "rollover" /\ y.state = "applied"
    BY <1>0, <1>6, RolloverWrites
  <2>2. PICK d : d = did[r]
    OBVIOUS
  <2>3. DOMAIN d = {}
    BY <2>1, <2>2 DEF DidTrue, Standing
  <2>4. did' = did
    BY <1>6 DEF ApplyRollover
  <2>5. did' = [did EXCEPT ![r] = d]
    BY <2>2, <2>4 DEF DidTrue
  <2>6. Effect(y, d)
    BY <2>1, <2>3 DEF Effect
  <2> QED
    BY <2>1, <2>5, <2>6, DidOne DEF Standing
<1>7. ASSUME NEW r \in WorkflowRuns, ApplyLeavers(r)
      PROVE  DidTrue'
  <2>1. PICK y \in RunRecords :
           /\ run' = [run EXCEPT ![r] = y] /\ y.kind = "leavers" /\ y.state = "applied"
           /\ status' = [s \in Students |->
                           IF s \in y.ids \intersect Active THEN "left" ELSE status[s]]
           /\ Did(r, y.ids \intersect Active)
    BY <1>0, <1>7, LeaversWrites
  <2>2. PICK d : /\ did' = [did EXCEPT ![r] = d]
                 /\ DOMAIN d = y.ids \intersect Active
                 /\ \A s \in y.ids \intersect Active : Entry(d, s)
    BY <2>1, DidFacts
  <2>3. UNCHANGED <<home, seat, waiting>>
    BY <1>7 DEF ApplyLeavers
  <2>4. \A s \in y.ids \intersect Active :
           s \in Students /\ status[s] = "active" /\ status'[s] = "left"
    BY <2>1 DEF Active
  <2>5. Effect(y, d)
    BY <2>1, <2>2, <2>3, <2>4 DEF Effect, Entry
  <2> QED
    BY <2>1, <2>2, <2>5, DidOne DEF Standing
<1>8. ASSUME NEW r \in WorkflowRuns, ApplyIntake(r) \/ ApplyImport(r)
      PROVE  DidTrue'
  <2>1. PICK y \in RunRecords :
           /\ run' = [run EXCEPT ![r] = y]
           /\ run[r].kind \in {"intake", "import"} /\ y.kind = run[r].kind
           /\ y.state = "applied" /\ \A s \in y.ids : status[s] = "unused"
           /\ Did(r, y.ids)
    BY <1>0, <1>8, IntakeWrites
  <2>2. PICK d : /\ did' = [did EXCEPT ![r] = d]
                 /\ DOMAIN d = y.ids
                 /\ \A s \in y.ids : Entry(d, s)
    BY <2>1, DidFacts
  <2>3. \A s \in y.ids : s \notin home \union waiting /\ seat[s] = Nowhere
    <3>1. y.ids \subseteq Students
      BY RunFields
    <3> QED
      BY <2>1, <3>1 DEF TablesSound, Present
  <2>4. \A s \in y.ids : /\ d[s].was.status = "unused" /\ d[s].was.seat = Nowhere
                         /\ d[s].was.home = {} /\ d[s].was.waiting = {}
    BY <2>1, <2>2, <2>3 DEF Entry
  <2>5. Effect(y, d)
    BY <2>1, <2>2, <2>4 DEF Effect
  <2> QED
    BY <2>1, <2>2, <2>5, DidOne DEF Standing
<1>9. ASSUME NEW r \in WorkflowRuns, ApplyPromotion(r)
      PROVE  DidTrue'
  <2>1. PICK y \in RunRecords :
           /\ run' = [run EXCEPT ![r] = y]
           /\ y.kind = "promotion" /\ y.state = "applied"
           /\ \A s \in y.ids : y.previous[s] = seat[s]
           /\ y.intakes = {s \in y.ids : y.gave[s] # Nowhere} \intersect waiting
           /\ \A c \in y.created : class[c] = "unused"
           /\ y.created \subseteq Classes
           /\ waiting' = waiting \ y.intakes
           /\ Did(r, y.ids)
    BY <1>0, <1>9, PromotionRuns
  <2>2. PICK d : /\ did' = [did EXCEPT ![r] = d]
                 /\ DOMAIN d = y.ids
                 /\ \A s \in y.ids : Entry(d, s)
    BY <2>1, DidFacts
  <2>3. UNCHANGED <<status, home>>
    BY <1>9 DEF ApplyPromotion
  <2>4. \A s \in y.ids : y.previous[s] \notin y.created
    <3> SUFFICES ASSUME NEW s \in y.ids, seat[s] \in y.created
                 PROVE  FALSE
      BY <2>1
    <3>1. s \in Students /\ seat[s] \in Open \union {Nowhere}
      BY RunFields DEF TablesSound
    <3>2. class[seat[s]] = "unused" /\ seat[s] \in Classes
      BY <2>1
    <3> QED
      BY <3>1, <3>2 DEF Open
  <2>5. ASSUME NEW s \in y.ids
        PROVE  /\ d[s].was.status = d[s].made.status /\ d[s].was.home = d[s].made.home
               /\ d[s].was.seat = y.previous[s]
               /\ d[s].was.waiting = d[s].made.waiting \union (y.intakes \intersect {s})
    <3>1. Entry(d, s) /\ y.previous[s] = seat[s]
      BY <2>1, <2>2
    <3>2. waiting \intersect {s} = (waiting' \intersect {s}) \union (y.intakes \intersect {s})
      BY <2>1
    <3> QED
      BY <2>3, <3>1, <3>2 DEF Entry
  <2>7. Effect(y, d)
    BY <2>1, <2>2, <2>4, <2>5 DEF Effect
  <2> QED
    BY <2>1, <2>2, <2>7, DidOne DEF Standing
<1>10. ASSUME NEW r \in WorkflowRuns,
              RevertLeavers(r) \/ RevertRollover(r) \/ RevertCreation(r) \/ RevertPromotion(r)
       PROVE  DidTrue'
  <2>1. PICK y : run' = [run EXCEPT ![r] = y] /\ y.state = "reverted"
    BY <1>0, <1>10, RevertedWrites DEF RevertRollover, RevertCreation, RevertPromotion
  <2>2. did' = [did EXCEPT ![r] = <<>>]
    BY <1>10 DEF RevertLeavers, RevertRollover, RevertCreation, RevertPromotion, Reverted, Forget
  <2>3. PICK d : d = <<>> /\ DOMAIN d = {}
    OBVIOUS
  <2> QED
    BY <2>1, <2>2, <2>3, DidOne DEF Standing
<1> QED
  BY <1>1, <1>2, <1>3, <1>4, <1>5, <1>6, <1>7, <1>8, <1>9, <1>10 DEF YearEndNext, Apply, Revert

(* What a revert makes of the rows its run changed, of the others and of    *)
(* the classes.                                                             *)
LEMMA RestoreStep ==
    ASSUME TablesSound, RunsSound, DidTrue, YearEndNext, NEW r \in WorkflowRuns, Finishes(r)
    PROVE  /\ \A s \in DOMAIN did[r] : GivesBack(s, did[r][s].was, did[r][s].made)
           /\ run[r].kind # "rollover" => \A s \in Students \ run[r].ids : Row(s)' = Row(s)
           /\ ClassesOnlyOf(r)
<1> USE NowhereAssumption
<1>a. PICK x \in RunRecords : x = run[r]
  BY DEF RunsSound
<1>b. PICK d : d = did[r]
  OBVIOUS
<1>1. x.state \in Standing /\ Effect(x, d)
  BY <1>a, <1>b DEF Finishes, Standing, DidTrue
<1>2. x.ids \subseteq Students
  BY RunFields
<1>3. CASE RevertLeavers(r)
  <2>1. /\ x.kind = "leavers"
        /\ status' = [s \in Students |->
                        IF s \in x.ids /\ status[s] = "left" THEN "active" ELSE status[s]]
        /\ UNCHANGED <<class, home, seat, waiting>>
    BY <1>a, <1>3 DEF RevertLeavers
  <2>2. /\ DOMAIN d \subseteq x.ids
        /\ \A s \in DOMAIN d :
              /\ d[s].was.status = "active" /\ d[s].made.status = "left"
              /\ d[s].was.seat = d[s].made.seat
              /\ d[s].was.home = d[s].made.home /\ d[s].was.waiting = d[s].made.waiting
    BY <1>1, <2>1 DEF Effect
  <2>3. \A s \in DOMAIN d : GivesBack(s, d[s].was, d[s].made)
    BY <1>2, <2>1, <2>2 DEF GivesBack, Undone
  <2>4. \A s \in Students \ x.ids : Row(s)' = Row(s)
    BY <2>1 DEF Row
  <2>5. ClassesOnlyOf(r)
    BY <1>a, <2>1 DEF ClassesOnlyOf, Open
  <2> QED
    BY <1>a, <1>b, <2>3, <2>4, <2>5
<1>4. CASE RevertRollover(r)
  <2>1. /\ x.kind = "rollover"
        /\ class' = [c \in Classes |-> IF c \in Open THEN "deleted" ELSE class[c]]
    BY <1>a, <1>4 DEF RevertRollover, Reverting, DropClasses
  <2>2. DOMAIN d = {}
    BY <1>1, <2>1 DEF Effect
  <2>3. ClassesOnlyOf(r)
    BY <1>a, <2>1 DEF ClassesOnlyOf, Open
  <2> QED
    BY <1>a, <1>b, <2>1, <2>2, <2>3
<1>5. CASE RevertCreation(r)
  <2> DEFINE gone == x.ids \intersect Present
  <2>1. /\ x.kind \in {"intake", "import"}
        /\ status' = [s \in Students |-> IF s \in gone THEN "deleted" ELSE status[s]]
        /\ home' = home \ gone /\ waiting' = waiting \ gone
        /\ seat' = [s \in Students |-> IF s \in gone THEN Nowhere ELSE seat[s]]
        /\ class' = class
    BY <1>a, <1>5 DEF RevertCreation, Reverting, DropStudents
  <2>2. /\ DOMAIN d \subseteq x.ids
        /\ \A s \in DOMAIN d :
              /\ d[s].was.status = "unused" /\ d[s].was.seat = Nowhere
              /\ d[s].was.home = {} /\ d[s].was.waiting = {}
    BY <1>1, <2>1 DEF Effect
  <2>3. ASSUME NEW s \in x.ids
        PROVE  status'[s] = "deleted" /\ seat'[s] = Nowhere /\ s \notin home' \union waiting'
    <3>1. s \in Students /\ s \in Known
      BY <1>a, <1>2 DEF RunsSound, RunSound
    <3>2. CASE s \in Present
      BY <2>1, <3>1, <3>2
    <3>3. CASE s \notin Present
      <4>1. status[s] = "deleted" /\ seat[s] = Nowhere /\ s \notin home \union waiting
        BY <3>1, <3>3 DEF TablesSound, Known, Present
      <4> QED
        BY <2>1, <3>1, <3>3, <4>1
    <3> QED
      BY <3>2, <3>3
  <2>4. ASSUME NEW s \in DOMAIN d
        PROVE  GivesBack(s, d[s].was, d[s].made)
    <3>1. /\ d[s].was.status = "unused" /\ d[s].was.seat = Nowhere
          /\ d[s].was.home = {} /\ d[s].was.waiting = {}
      BY <2>2
    <3>2. status'[s] = "deleted" /\ seat'[s] = Nowhere /\ s \notin home' \union waiting'
      BY <2>2, <2>3
    <3>3. home' \intersect {s} = {} /\ waiting' \intersect {s} = {}
      BY <3>2
    <3> QED
      BY <3>1, <3>2, <3>3 DEF GivesBack, Undone
  <2>5. ASSUME NEW s \in Students \ x.ids
        PROVE  Row(s)' = Row(s)
    <3>1. status'[s] = status[s] /\ seat'[s] = seat[s]
      BY <2>1
    <3>2. home' \intersect {s} = home \intersect {s}
      BY <2>1
    <3>3. waiting' \intersect {s} = waiting \intersect {s}
      BY <2>1
    <3> QED
      BY <3>1, <3>2, <3>3 DEF Row
  <2>6. ClassesOnlyOf(r)
    BY <1>a, <2>1 DEF ClassesOnlyOf, Open
  <2> QED
    BY <1>a, <1>b, <2>4, <2>5, <2>6
<1>6. CASE RevertPromotion(r)
  <2>1. /\ x.kind = "promotion"
        /\ \A s \in Students : seat'[s] = IF s \in x.ids THEN x.previous[s] ELSE seat[s]
        /\ waiting' = waiting \union x.intakes
        /\ \A c \in Classes :
              class'[c] = IF c \in x.created /\ c \in Open
                             /\ (\A s \in Students : Reassigned(x)[s] # c)
                             THEN "deleted" ELSE class[c]
        /\ UNCHANGED <<status, home>>
    BY <1>a, <1>6, UnpromoteWrites DEF Is
  <2>2. /\ DOMAIN d \subseteq x.ids
        /\ \A s \in DOMAIN d :
              /\ d[s].was.status = d[s].made.status /\ d[s].was.home = d[s].made.home
              /\ d[s].was.seat = x.previous[s]
              /\ d[s].was.waiting = d[s].made.waiting \union (x.intakes \intersect {s})
        /\ \A s \in x.ids : x.previous[s] \notin x.created
    BY <1>1, <2>1 DEF Effect
  <2>3. x.intakes \subseteq x.ids
    BY <1>a, <1>1, <2>1 DEF RunsSound, RunSound, Is
  <2>4. ASSUME NEW s \in DOMAIN d
        PROVE  GivesBack(s, d[s].was, d[s].made)
    <3>1. seat'[s] = d[s].was.seat
      BY <1>2, <2>1, <2>2
    <3>2. status' = status /\ home' = home
          /\ d[s].was.status = d[s].made.status /\ d[s].was.home = d[s].made.home
      BY <2>1, <2>2
    <3>3. waiting \intersect {s} = d[s].made.waiting => waiting' \intersect {s} = d[s].was.waiting
      <4>1. waiting' \intersect {s} = (waiting \intersect {s}) \union (x.intakes \intersect {s})
        BY <2>1
      <4> QED
        BY <2>2, <4>1
    <3> QED
      BY <3>1, <3>2, <3>3 DEF GivesBack, Undone
  <2>5. ASSUME NEW s \in Students \ x.ids
        PROVE  Row(s)' = Row(s)
    <3>1. status' = status /\ home' = home /\ seat'[s] = seat[s]
      BY <2>1
    <3>2. waiting' \intersect {s} = waiting \intersect {s}
      BY <2>1, <2>3
    <3> QED
      BY <3>1, <3>2 DEF Row
  <2>6. ClassesOnlyOf(r)
    <3> SUFFICES ASSUME NEW c \in Open
                 PROVE  class'[c] = "deleted" <=> c \in x.created /\ Seated(c) \subseteq x.ids
      BY <1>a, <2>1 DEF ClassesOnlyOf
    <3>1. c \in Classes /\ class[c] = "open"
      BY DEF Open
    <3>2. class'[c] = "deleted" <=>
             c \in x.created /\ \A s \in Students : Reassigned(x)[s] # c
      BY <2>1, <3>1
    <3>3. \A s \in Students : Reassigned(x)[s] = IF s \in x.ids THEN x.previous[s] ELSE seat[s]
      BY DEF Reassigned
    <3>4. c \in x.created =>
             ((\A s \in Students : Reassigned(x)[s] # c) <=> Seated(c) \subseteq x.ids)
      BY <2>2, <3>3 DEF Seated
    <3> QED
      BY <3>2, <3>4
  <2> QED
    BY <1>a, <1>b, <2>4, <2>5, <2>6
<1> QED
  BY <1>3, <1>4, <1>5, <1>6, FinishIsRevert

-----------------------------------------------------------------------------

LEMMA YearEndStarts == YearEndInit => YearEndInv
<1> SUFFICES ASSUME YearEndInit
             PROVE  YearEndInv
  OBVIOUS
<1> USE EnrolledAssumption, NowhereAssumption, EditsAssumption
<1>1. TablesSound
  BY DEF YearEndInit, TablesSound, Present, Open
<1>2. NoRun \in RunRecords
  BY DEF NoRun, RunRecords
<1>3. \A r \in WorkflowRuns : run[r] = NoRun /\ run[r].state = "unused" /\ run[r].ids = {}
  BY DEF YearEndInit, NoRun
<1>4. run \in [WorkflowRuns -> RunRecords]
  BY <1>2 DEF YearEndInit
<1>5. RunsSound
  BY <1>3, <1>4 DEF RunsSound, RunSound, OneProposal, Is, Standing
<1>6. Admissions = {}
  BY <1>3 DEF Admissions
<1>7. AdmittedKept
  BY <1>6 DEF AdmittedKept, NewHere, Accounted, ListedWait, NoneLost
<1>8. NewIsLate
  BY <1>3 DEF NewIsLate, Is, YearEndInit
<1>9. DidTrue
  BY <1>3 DEF DidTrue, Standing, YearEndInit
<1> QED
  BY <1>1, <1>5, <1>7, <1>8, <1>9 DEF YearEndInv

LEMMA YearEndStep == YearEndInv /\ [YearEndNext]_yearEndVars => YearEndInv'
<1> SUFFICES ASSUME YearEndInv, [YearEndNext]_yearEndVars
             PROVE  YearEndInv'
  OBVIOUS
<1>1. TablesSound /\ RunsSound /\ AdmittedKept /\ NewIsLate /\ DidTrue
  BY DEF YearEndInv
<1>2. TablesSound' /\ RunsSound' /\ Known \subseteq Known'
  BY <1>1, SoundStep
<1>3. AdmittedKept'
  BY <1>1, AdmittedStep
<1>4. NewIsLate'
  <2>1. CASE UNCHANGED yearEndVars
    BY <1>1, <2>1 DEF yearEndVars, NewIsLate, Seated, Unused
  <2>2. CASE YearEndNext
    BY <1>1, <1>2, <2>2, ByHandLate, WorkflowLate DEF YearEndNext
  <2> QED
    BY <2>1, <2>2
<1>5. DidTrue'
  BY <1>1, DidStep
<1> QED
  BY <1>2, <1>3, <1>4, <1>5 DEF YearEndInv

LEMMA YearEndAlways == YearEndSpec => []YearEndInv
BY YearEndStarts, YearEndStep, PTL DEF YearEndSpec

(* A student the intake workflow created (intake.go, Apply) waits for a     *)
(* class of the next year or has one, unless an admin took it or the year   *)
(* was reverted, and the tables and runs refer to rows that are there.      *)
THEOREM SeatsStayConsistent == YearEndSpec => []SeatsConsistent
<1>1. YearEndInv => SeatsConsistent
  <2> SUFFICES ASSUME YearEndInv
               PROVE  SeatsConsistent
    OBVIOUS
  <2>1. TablesSound /\ RunsSound /\ AdmittedKept
    BY DEF YearEndInv
  <2>2. YearEndTypeOK
    <3>1. ASSUME NEW r \in WorkflowRuns
          PROVE  /\ run[r].kind \in Kinds \union {Nowhere}
                 /\ run[r].state \in {"unused", "proposed", "discarded", "applied", "reverting",
                                      "reverted"}
                 /\ run[r].ids \union run[r].listed \union run[r].intakes \subseteq Students
                 /\ run[r].assigned \union run[r].created \subseteq Classes
      <4>1. PICK x \in RunRecords : x = run[r]
        BY <2>1 DEF RunsSound
      <4>2. /\ x.ids \in SUBSET Students /\ x.listed \in SUBSET Students
            /\ x.intakes \in SUBSET Students
            /\ x.assigned \in SUBSET Classes /\ x.created \in SUBSET Classes
            /\ x.kind \in Kinds \union {Nowhere}
            /\ x.state \in {"unused", "proposed", "discarded", "applied", "reverting", "reverted"}
        BY RunFields
      <4> QED
        BY <4>1, <4>2
    <3> QED
      BY <2>1, <3>1 DEF YearEndTypeOK, TablesSound
  <2>3. AdmittedNotLost
    BY <2>1 DEF AdmittedNotLost, AdmittedKept, Accounted, Handled, Active, Present
  <2> QED
    BY <2>2, <2>3 DEF SeatsConsistent
<1> QED
  BY <1>1, YearEndAlways, PTL

(* A revert deletes no student and no class that is in use, except for what *)
(* was added after its check (repository.go, the in-use queries), and a     *)
(* class is deleted by hand only if its students came after the count.      *)
THEOREM LaterWorkIsKept == YearEndSpec => LaterWorkStays
<1>1. YearEndInv /\ [YearEndNext]_yearEndVars =>
         [\A r \in WorkflowRuns, s \in Students :
             Finishes(r) /\ s \in Present /\ status'[s] = "deleted" =>
                \/ s \in late
                \/ s \notin account \union recorded \union marked /\ seat[s] = Nowhere]_yearEndVars
  BY InUseStep DEF YearEndInv, Unused
<1>2. YearEndInv /\ [YearEndNext]_yearEndVars =>
         [\A c \in Open : class'[c] = "deleted" =>
             \A s \in Seated(c) :
                 s \in late \/ \E r \in WorkflowRuns : Finishes(r) /\ s \in run[r].ids]_yearEndVars
  BY UnseatStep DEF YearEndInv
<1>3. YearEndSpec => InUseStays
  BY <1>1, YearEndAlways, PTL DEF InUseStays, YearEndSpec
<1>4. YearEndSpec => NobodyUnseated
  BY <1>2, YearEndAlways, PTL DEF NobodyUnseated, YearEndSpec
<1> QED
  BY <1>3, <1>4 DEF LaterWorkStays

(* A revert undoes what its run changed of a student (the Revert functions  *)
(* of leavers.go, intake.go, import.go and promotion.go) and nobody has     *)
(* changed since, touches no other student, and deletes of the classes only *)
(* those its promotion created in which nobody else sits.                   *)
THEOREM RevertsRestore == YearEndSpec => RevertRestores
<1>1. YearEndInv /\ [YearEndNext]_yearEndVars =>
         [\A r \in WorkflowRuns : Finishes(r) =>
            /\ \A s \in DOMAIN did[r] : GivesBack(s, did[r][s].was, did[r][s].made)
            /\ run[r].kind # "rollover" => \A s \in Students \ run[r].ids : Row(s)' = Row(s)
            /\ ClassesOnlyOf(r)]_yearEndVars
  BY RestoreStep DEF YearEndInv
<1> QED
  BY <1>1, YearEndAlways, PTL DEF RevertRestores, YearEndSpec

=============================================================================
