----------------------------- MODULE MCBlockSync ----------------------------
(* Instances of BlockSync for TLC. *)
EXTENDS BlockSync, TLC
=============================================================================
