---------------------------- MODULE MCRepuRing ------------------------------
(* Instances of RepuRing for TLC. *)
EXTENDS RepuRing

\* two spellings of one name, and another name
CaseUsername == {"ann", "Ann", "bob"}
CaseLower == [u \in CaseUsername |-> IF u = "Ann" THEN "ann" ELSE u]

\* k1 spells the circle c1 and the address a1
CONSTANTS k1, c1, a1
OneSpells == [k \in {k1} |-> <<c1, a1>>]

\* the bounds on the endorsements given in one behaviour and the roles held at a time
CONSTANTS MaxEndorsements, MaxRoles
FewEndorsementsAndRoles ==
    /\ Cardinality(pairKey) + Cardinality(contributionEndorsementKey) <= MaxEndorsements
    /\ Cardinality(DOMAIN role) <= MaxRoles
=============================================================================
