----------------------------- MODULE MCStaking ------------------------------
(***************************************************************************)
(* A validator that holds a majority by itself, and a small one.           *)
(***************************************************************************)
EXTENDS Staking

CONSTANTS a, b

MCBalance == [v \in Val |-> IF v = a THEN 2 ELSE 5]
MCStake == [v \in Val |-> IF v = a THEN 8 ELSE 1]
MCLists == {Chain \ {Self}, Chain}
MCPayments == {[v \in Val |-> 50]}
=============================================================================
