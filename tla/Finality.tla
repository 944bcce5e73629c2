------------------------------ MODULE Finality ------------------------------
(***************************************************************************)
(* What consensus promises of one height of a chain: every validator       *)
(* commits at most one block, no two validators commit different blocks,   *)
(* and a committed block is never exchanged for another.                   *)
(***************************************************************************)
CONSTANTS Validator, Block, None

VARIABLE final \* Validator -> the block it committed at this height, or None

Init == final = [v \in Validator |-> None]

Commit(v, b) ==
    /\ final[v] = None
    /\ \A w \in Validator : final[w] \in {None, b}
    /\ final' = [final EXCEPT ![v] = b]

Next == \E v \in Validator, b \in Block : Commit(v, b)

Spec == Init /\ [][Next]_final
=============================================================================
