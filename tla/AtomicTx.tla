------------------------------ MODULE AtomicTx ------------------------------
(***************************************************************************)
(* What a state machine promises of the transactions it applies one after  *)
(* another: each takes effect as a whole at the moment it ends, or not at  *)
(* all (fsm/state.go, ApplyTransactions: wrap the store, apply, flush or   *)
(* drop).                                                                  *)
(***************************************************************************)
CONSTANTS Fsm, Write

VARIABLES
    store, \* Fsm -> the writes that have taken effect
    busy   \* Fsm -> whether a transaction is being applied

vars == <<store, busy>>

Init == store = [f \in Fsm |-> {}] /\ busy = [f \in Fsm |-> FALSE]

Begin(f) == ~busy[f] /\ busy' = [busy EXCEPT ![f] = TRUE] /\ UNCHANGED store

Commit(f) ==
    /\ busy[f]
    /\ \E w \in Write \ store[f] : store' = [store EXCEPT ![f] = @ \cup {w}]
    /\ busy' = [busy EXCEPT ![f] = FALSE]

Abort(f) == busy[f] /\ busy' = [busy EXCEPT ![f] = FALSE] /\ UNCHANGED store

Next == \E f \in Fsm : Begin(f) \/ Commit(f) \/ Abort(f)

Spec == Init /\ [][Next]_vars
=============================================================================
