\* two addresses, two circles, names that differ in case only, a contribution
\* whose identifier spells one of the circles and one of the addresses
CONSTANTS
    Address = {a1, a2}
    Username <- CaseUsername
    toLowerCase <- CaseLower
    CircleId = {c1, c2}
    ContributionId = {k1}
    k1 = k1
    c1 = c1
    a1 = a1
    spells <- OneSpells
    NoContribution = NoContribution
    TrustedAt = 1
    CoreMemberAt = 2
    CircleLeaderAt = 3
    MaxEndorsements = 2
    MaxRoles = 1
SPECIFICATION Spec
INVARIANTS
    MembershipAgrees
    CreatorIsMember
    RoleHeldByMember
    UsernamesUnique
    EndorsedOnce
    IndexesAgree
    CountIsActiveEndorsements
    EndorsementsRefer
    ReputationBounds
PROPERTIES
    EndorsementsPermanent
    ReputationMovesWithEndorsements
CONSTRAINT FewEndorsementsAndRoles
