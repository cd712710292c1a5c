---------------------------- MODULE RunLifecycle ----------------------------
(***************************************************************************)
(* What the workflow engine promises about one workflow run, whoever calls *)
(* it and however the calls overlap: a run is proposed, edited by hand,    *)
(* and then either discarded or applied; an applied run can be reverted    *)
(* once.  Opening a run closes the proposal its scope had.  Apply writes   *)
(* exactly the proposal as last edited.                                    *)
(***************************************************************************)
CONSTANTS
    Runs,    \* identities of workflow_runs rows
    Scopes,  \* a scope is a (workflow_key, scope_key) pair
    Cells,   \* the editable cells of a proposal
    None     \* the scope of a run that does not exist yet

VARIABLES
    state,   \* state[x]: where run x stands, "absent" before it is created
    scope,   \* scope[x]: the scope run x was proposed for
    edits,   \* edits[x]: the cells of x's proposal that were changed by hand
    written  \* written[x]: the edits that were in the proposal Apply wrote

vars == <<state, scope, edits, written>>

RunStates == {"absent", "proposed", "applied", "discarded", "reverted"}

Init ==
    /\ state = [x \in Runs |-> "absent"]
    /\ scope = [x \in Runs |-> None]
    /\ edits = [x \in Runs |-> {}]
    /\ written = [x \in Runs |-> {}]

(* The runs of scope s that wait for a decision. *)
OpenRuns(s) == {x \in Runs : state[x] = "proposed" /\ scope[x] = s}

Open(x, s) ==
    /\ state[x] = "absent"
    /\ state' = [y \in Runs |-> IF y = x THEN "proposed"
                                ELSE IF y \in OpenRuns(s) THEN "discarded"
                                ELSE state[y]]
    /\ scope' = [scope EXCEPT ![x] = s]
    /\ UNCHANGED <<edits, written>>

Edit(x, c) ==
    /\ state[x] = "proposed"
    /\ edits' = [edits EXCEPT ![x] = @ \union {c}]
    /\ UNCHANGED <<state, scope, written>>

Apply(x) ==
    /\ state[x] = "proposed"
    /\ state' = [state EXCEPT ![x] = "applied"]
    /\ written' = [written EXCEPT ![x] = edits[x]]
    /\ UNCHANGED <<scope, edits>>

Discard(x) ==
    /\ state[x] = "proposed"
    /\ state' = [state EXCEPT ![x] = "discarded"]
    /\ UNCHANGED <<scope, edits, written>>

Revert(x) ==
    /\ state[x] = "applied"
    /\ state' = [state EXCEPT ![x] = "reverted"]
    /\ UNCHANGED <<scope, edits, written>>

Next ==
    \E x \in Runs :
        \/ \E s \in Scopes : Open(x, s)
        \/ \E c \in Cells : Edit(x, c)
        \/ Apply(x)
        \/ Discard(x)
        \/ Revert(x)

Spec == Init /\ [][Next]_vars
=============================================================================
