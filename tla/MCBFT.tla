------------------------------- MODULE MCBFT --------------------------------
(***************************************************************************)
(* Instances of BFT for TLC: three validators, one of them with half of    *)
(* the voting power, so that any majority is that one and another.         *)
(***************************************************************************)
EXTENDS BFT, TLC

CONSTANTS a, b, c

MCPower == a :> 2 @@ b :> 1 @@ c :> 1
Committee == INSTANCE VotingPower WITH Member <- Validator, Power <- MCPower
MCQuorum == Committee!Majorities
MCPacemakerSets == Committee!Pulling

\* the strong validator leads first, then a weak one or either of them
EitherWeak == 0 :> {a} @@ 1 :> {b, c}
StrongThenWeak == 0 :> {a} @@ 1 :> {b}
AlwaysWeak == 0 :> {b}

BlockSymmetry == Permutations(Block)
Symmetry == BlockSymmetry \cup Permutations({b, c})

\* the bound on faults: root blocks or restarts in one behaviour, not both
OneKindOfFault ==
    (\A v \in Validator : rootHeight[v] = 0) \/ (\A v \in Validator : restarts[v] = 0)
=============================================================================
