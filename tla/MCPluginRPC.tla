---------------------------- MODULE MCPluginRPC -----------------------------
(* Instances of PluginRPC for TLC. *)
EXTENDS PluginRPC, TLC


=============================================================================
