----------------------------- MODULE MCMempool ------------------------------
(* Instances of Mempool for TLC: three transactions, two of which pay the   *)
(* same, and one that is malformed.                                         *)
EXTENDS Mempool, TLC

CONSTANTS cheap, even, dear, bad

MCFee == cheap :> 1 @@ even :> 1 @@ dear :> 2 @@ bad :> 3
MCSize == cheap :> 1 @@ even :> 2 @@ dear :> 2 @@ bad :> 1
ShortBatches == UNION {[1 .. n -> Tx] : n \in 1 .. 2}
=============================================================================
