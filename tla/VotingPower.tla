---------------------------- MODULE VotingPower -----------------------------
(***************************************************************************)
(* The voting power of a committee and the thresholds that are computed    *)
(* from it (lib/consensus.go, lib/util.go).                                *)
(***************************************************************************)
EXTENDS Naturals, FiniteSetsExt

CONSTANTS
    Member, \* the validators of the committee
    Power   \* Member -> their voting power

PowerOf(S) == MapThenSumSet(LAMBDA v : Power[v], S)

TotalPower == PowerOf(Member)

\* NewValidatorSet: the least power that is more than two thirds
MinimumMaj23 == (2 * TotalPower) \div 3 + 1

Uint64ReducePercentage(fullAmount, percentage) ==
    IF percentage >= 100 THEN 0 ELSE (fullAmount * (100 - percentage)) \div 100

Majorities == {S \in SUBSET Member : PowerOf(S) >= MinimumMaj23}

\* Pacemaker: the power that advances a round
PacemakerMinimum == Uint64ReducePercentage(MinimumMaj23, 50)
Pulling == {S \in SUBSET Member : PowerOf(S) >= PacemakerMinimum}
=============================================================================
