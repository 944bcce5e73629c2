------------------------------ MODULE MCStore -------------------------------
(* Instances of Store for TLC. *)
EXTENDS Store, TLC

Symmetry == Permutations(Key) \cup Permutations(Value)
=============================================================================
