------------------------------ MODULE RepuRing ------------------------------
(***************************************************************************)
(* The RepuRing contract (plugin/typescript/src/contract/contract.ts): the *)
(* ten transactions of the plugin over its keys of the node's state.       *)
(*                                                                         *)
(* Every Deliver handler reads the keys it needs, returns an error without *)
(* writing when a check fails, and otherwise ends in one StateWrite that   *)
(* holds all of its sets and deletes.  A handler is therefore one action,  *)
(* enabled when none of its checks fails; a rejected transaction leaves    *)
(* the keys as they were and is a stuttering step.  The stateless checks   *)
(* of CheckTx (non-empty fields, sender # target) always precede DeliverTx *)
(* and are part of the guard.                                              *)
(*                                                                         *)
(* A key prefix is a variable.  Prefixes that hold records are functions   *)
(* whose DOMAIN is the set of keys present; prefixes that hold a flag are  *)
(* sets of keys.                                                           *)
(*                                                                         *)
(* An operator named Mut... is a defective form of the definition that     *)
(* follows it, used to show that a property notices the defect; nothing    *)
(* else refers to it.                                                      *)
(***************************************************************************)
EXTENDS Naturals, FiniteSets

CONSTANTS
    Address,        \* the 20-byte addresses that sign transactions
    Username,       \* user names as typed, after clean()
    toLowerCase,    \* String.prototype.toLowerCase on user names
    CircleId,       \* circle identifiers after clean()
    ContributionId, \* contribution identifiers after clean()
    NoContribution, \* the empty contributionId of a user endorsement
    spells,         \* the circle and address some contribution identifiers spell
    TrustedAt,      \* 5 in the code
    CoreMemberAt,   \* 15 in the code
    CircleLeaderAt  \* 30 in the code

ASSUME LowerCaseAssumption == toLowerCase \in [Username -> Username]
ASSUME NoContributionAssumption == NoContribution \notin ContributionId
\* The contribution k spells the circle c and the address s when the bytes
\* "contribution" NUL k are the bytes c NUL s.  An address has 20 bytes and
\* "contribution" holds no NUL, so k has the address as its last 20 bytes and
\* what is left of both sides fixes c: k determines c and s, and they k.
ASSUME SpellsAssumption ==
    /\ DOMAIN spells \subseteq ContributionId
    /\ spells \in [DOMAIN spells -> CircleId \X Address]
    /\ \A k, l \in DOMAIN spells : spells[k] = spells[l] => k = l
ASSUME ThresholdAssumption ==
    /\ {TrustedAt, CoreMemberAt, CircleLeaderAt} \subseteq Nat
    /\ 0 < TrustedAt /\ TrustedAt < CoreMemberAt /\ CoreMemberAt < CircleLeaderAt

VARIABLES
    profile,      \* 80 KeyForProfile: address -> profile
    usernameKey,  \* 81 KeyForUsername: lower-case name -> address
    circle,       \* 82 KeyForCircle: circle -> creator and member list
    memberKey,    \* 83 KeyForMember: flags <<circle, address>>
    role,         \* 84 KeyForRole: <<circle, address>> -> claimed role
    endorsement,  \* 85 KeyForEndorsement: id -> endorsement
    contribution, \* 70 KeyForContribution: id -> contribution
    pairKey,      \* 88 KeyForPairEndorsement: flags <<circle, from, target>>
    contributionEndorsementKey, \* 73: flags <<contribution, from>>
    index         \* 71, 72, 74, 86, 87: flags <<index name, owner, id>>

vars == <<profile, usernameKey, circle, memberKey, role, endorsement,
          contribution, pairKey, contributionEndorsementKey, index>>

-----------------------------------------------------------------------------
(* Values *)

\* An identifier stands for the bytes that are hashed (the 128 bits kept of
\* sha256 are taken to be free of collisions): the arguments joined by NUL
\* bytes, without their lengths.  Both handlers store under the same prefix,
\* and the two joins are equal when the contribution spells the circle and the
\* sender, and its endorser is the target.
makeEndorsementId(c, sender, target) == <<"user", c, sender, target>>
MutMakeContributionEndorsementId(k, sender) == <<"contribution", k, k>>
makeContributionEndorsementId(k, sender) ==
    IF k \in DOMAIN spells
    THEN makeEndorsementId(spells[k][1], spells[k][2], sender)
    ELSE <<"contribution", k, sender>>

EndorsementId ==
    {makeEndorsementId(c, s, t) : c \in CircleId, s \in Address, t \in Address}
        \cup {makeContributionEndorsementId(k, s) : k \in ContributionId, s \in Address}

RoleName == {"Newbie", "Trusted", "Core Member", "Circle Leader"}

roleForReputation(r) ==
    IF r >= CircleLeaderAt THEN "Circle Leader"
    ELSE IF r >= CoreMemberAt THEN "Core Member"
    ELSE IF r >= TrustedAt THEN "Trusted"
    ELSE "Newbie"

\* the key of a name is its lower-case form
MutKeyForUsername(u) == u
KeyForUsername(u) == toLowerCase[u]

Profile == [username : Username, reputation : Nat]

\* The member list is kept sorted, so it is determined by how often each
\* address occurs in it.
Circle == [creator : Address, members : [Address -> Nat]]

Role == [role : RoleName, reputation : Nat]

Contribution == [circle : CircleId, author : Address, endorsementCount : Nat]

Endorsement == [circle : CircleId, from : Address, target : Address,
                contribution : ContributionId \cup {NoContribution},
                slashed : BOOLEAN]

IndexName == {"circleContribution", "userContribution", "circleEndorsement",
              "userEndorsement", "contributionEndorsement"}

-----------------------------------------------------------------------------
(* Reading and writing keys *)

\* a prefix under which nothing is stored
NoKeys == [x \in {} |-> x]

\* a set of the StateWrite request
Put(f, k, v) == [x \in DOMAIN f \cup {k} |-> IF x = k THEN v ELSE f[x]]

MutDel(f, k) == f
\* a delete of the StateWrite request (deleting an absent key is no error)
Del(f, k) == [x \in DOMAIN f \ {k} |-> f[x]]

HasProfile(a) == a \in DOMAIN profile

IsMember(c, a) == <<c, a>> \in memberKey

IsListed(c, a) == circle[c].members[a] > 0

-----------------------------------------------------------------------------
(* The handlers *)

Init ==
    /\ profile = NoKeys /\ usernameKey = NoKeys /\ circle = NoKeys
    /\ role = NoKeys /\ endorsement = NoKeys /\ contribution = NoKeys
    /\ memberKey = {} /\ pairKey = {} /\ contributionEndorsementKey = {}
    /\ index = {}

CreateProfile(sender, username) ==
    /\ ~HasProfile(sender)
    /\ KeyForUsername(username) \notin DOMAIN usernameKey
    /\ profile' = Put(profile, sender, [username |-> username, reputation |-> 0])
    /\ usernameKey' = Put(usernameKey, KeyForUsername(username), sender)
    /\ UNCHANGED <<circle, memberKey, role, endorsement, contribution, pairKey,
                   contributionEndorsementKey, index>>

\* UpdateProfile writes back the profile it read with another bio and avatar,
\* neither of which is kept here.
MutUpdatedProfile(a) == [username |-> profile[a].username, reputation |-> 0]
UpdatedProfile(a) ==
    [username |-> profile[a].username, reputation |-> profile[a].reputation]

UpdateProfile(sender) ==
    /\ HasProfile(sender)
    /\ profile' = Put(profile, sender, UpdatedProfile(sender))
    /\ UNCHANGED <<usernameKey, circle, memberKey, role, endorsement,
                   contribution, pairKey, contributionEndorsementKey, index>>

CreateCircle(sender, c) ==
    /\ HasProfile(sender)
    /\ c \notin DOMAIN circle
    /\ circle' = Put(circle, c,
                     [creator |-> sender,
                      members |-> [a \in Address |-> IF a = sender THEN 1 ELSE 0]])
    /\ memberKey' = memberKey \cup {<<c, sender>>}
    /\ UNCHANGED <<profile, usernameKey, role, endorsement, contribution,
                   pairKey, contributionEndorsementKey, index>>

\* the member list with the sender added when it is not listed, and without it
MembersWith(c, a) == [circle[c].members EXCEPT ![a] = IF @ > 0 THEN @ ELSE @ + 1]
MutMembersWithout(c, a) == circle[c].members
MembersWithout(c, a) == [circle[c].members EXCEPT ![a] = 0]

\* The list and the member key are brought to agree when only one of them
\* holds the sender; a role left behind by such a state is deleted.
JoinCircle(sender, c) ==
    /\ HasProfile(sender)
    /\ c \in DOMAIN circle
    /\ ~(IsMember(c, sender) /\ IsListed(c, sender))
    /\ circle' = Put(circle, c,
                     [creator |-> circle[c].creator,
                      members |-> MembersWith(c, sender)])
    /\ memberKey' = memberKey \cup {<<c, sender>>}
    /\ role' = IF IsMember(c, sender) /\ ~IsListed(c, sender)
               THEN Del(role, <<c, sender>>) ELSE role
    /\ UNCHANGED <<profile, usernameKey, endorsement, contribution, pairKey,
                   contributionEndorsementKey, index>>

MutMayLeave(sender, c) == TRUE
MayLeave(sender, c) == sender # circle[c].creator

LeaveCircle(sender, c) ==
    /\ HasProfile(sender)
    /\ c \in DOMAIN circle
    /\ IsMember(c, sender)
    /\ MayLeave(sender, c)
    /\ circle' = Put(circle, c, [creator |-> circle[c].creator,
                                 members |-> MembersWithout(c, sender)])
    /\ memberKey' = memberKey \ {<<c, sender>>}
    /\ role' = Del(role, <<c, sender>>)
    /\ UNCHANGED <<profile, usernameKey, endorsement, contribution, pairKey,
                   contributionEndorsementKey, index>>

MutContributionIndexes(c, author, k) == {<<"circleContribution", c, k>>}
ContributionIndexes(c, author, k) ==
    {<<"circleContribution", c, k>>, <<"userContribution", author, k>>}

CreateContribution(sender, c, k) ==
    /\ HasProfile(sender)
    /\ c \in DOMAIN circle
    /\ IsMember(c, sender)
    /\ k \notin DOMAIN contribution
    /\ contribution' = Put(contribution, k, [circle |-> c, author |-> sender,
                                             endorsementCount |-> 0])
    /\ index' = index \cup ContributionIndexes(c, sender, k)
    /\ UNCHANGED <<profile, usernameKey, circle, memberKey, role, endorsement,
                   pairKey, contributionEndorsementKey>>

\* the profile of `a' with its reputation moved to `r'
WithReputation(a, r) ==
    Put(profile, a, [username |-> profile[a].username, reputation |-> r])

\* CheckMessageEndorseUser, and the last check of DeliverMessageEndorseUser
MutNotSelf(sender, target) == TRUE
NotSelf(sender, target) == sender # target
MutNotEndorsedBefore(sender, target, c) == TRUE
NotEndorsedBefore(sender, target, c) == <<c, sender, target>> \notin pairKey

EndorseUser(sender, target, c) ==
    LET id == makeEndorsementId(c, sender, target) IN
    /\ NotSelf(sender, target)
    /\ HasProfile(sender)
    /\ HasProfile(target)
    /\ c \in DOMAIN circle
    /\ IsMember(c, sender) /\ IsMember(c, target)
    /\ NotEndorsedBefore(sender, target, c)
    /\ profile' = WithReputation(target, profile[target].reputation + 1)
    /\ endorsement' = Put(endorsement, id,
                          [circle |-> c, from |-> sender, target |-> target,
                           contribution |-> NoContribution, slashed |-> FALSE])
    /\ index' = index \cup {<<"circleEndorsement", c, id>>,
                            <<"userEndorsement", target, id>>}
    /\ pairKey' = pairKey \cup {<<c, sender, target>>}
    /\ UNCHANGED <<usernameKey, circle, memberKey, role, contribution,
                   contributionEndorsementKey>>

\* The slashed flag of a contribution is written FALSE when it is created and
\* by no other transaction, so its check never fails.
EndorseContribution(sender, k) ==
    /\ k \in DOMAIN contribution
    /\ LET author == contribution[k].author
           c == contribution[k].circle
           id == makeContributionEndorsementId(k, sender)
       IN
       /\ sender # author
       /\ HasProfile(sender)
       /\ HasProfile(author)
       /\ IsMember(c, sender)
       /\ <<k, sender>> \notin contributionEndorsementKey
       /\ profile' = WithReputation(author, profile[author].reputation + 1)
       /\ contribution' = Put(contribution, k,
                              [circle |-> c, author |-> author,
                               endorsementCount |-> contribution[k].endorsementCount + 1])
       /\ endorsement' = Put(endorsement, id,
                             [circle |-> c, from |-> sender, target |-> author,
                              contribution |-> k, slashed |-> FALSE])
       /\ index' = index \cup {<<"circleEndorsement", c, id>>,
                               <<"userEndorsement", author, id>>,
                               <<"contributionEndorsement", k, id>>}
       /\ contributionEndorsementKey' = contributionEndorsementKey \cup {<<k, sender>>}
    /\ UNCHANGED <<usernameKey, circle, memberKey, role, pairKey>>

\* the reputation left by a slash of two points that stops at zero
MutSlashedReputationKept(r) == IF r < 2 THEN r ELSE r - 2
slashedReputation(r) == IF r < 2 THEN 0 ELSE r - 2

MutCountAfterSlash(n) == n
countAfterSlash(n) == IF n = 0 THEN 0 ELSE n - 1

SlashEndorsement(sender, id) ==
    /\ id \in DOMAIN endorsement
    /\ ~endorsement[id].slashed
    /\ LET e == endorsement[id] IN
       /\ e.circle \in DOMAIN circle
       /\ circle[e.circle].creator = sender
       /\ HasProfile(e.target)
       /\ endorsement' = Put(endorsement, id,
                             [circle |-> e.circle, from |-> e.from, target |-> e.target,
                              contribution |-> e.contribution, slashed |-> TRUE])
       /\ profile' = WithReputation(e.target,
                                    slashedReputation(profile[e.target].reputation))
       /\ contribution' =
              IF e.contribution \in DOMAIN contribution
              THEN LET k == contribution[e.contribution] IN
                   Put(contribution, e.contribution,
                       [circle |-> k.circle, author |-> k.author,
                        endorsementCount |-> countAfterSlash(k.endorsementCount)])
              ELSE contribution
    /\ UNCHANGED <<usernameKey, circle, memberKey, role, pairKey,
                   contributionEndorsementKey, index>>

ClaimRole(sender, c) ==
    /\ HasProfile(sender)
    /\ IsMember(c, sender)
    /\ role' = Put(role, <<c, sender>>,
                   [role |-> roleForReputation(profile[sender].reputation),
                    reputation |-> profile[sender].reputation])
    /\ UNCHANGED <<profile, usernameKey, circle, memberKey, endorsement,
                   contribution, pairKey, contributionEndorsementKey, index>>

\* DeliverTx dispatches on the type of the message.
DeliverTx(sender) ==
    \/ \E u \in Username : CreateProfile(sender, u)
    \/ UpdateProfile(sender)
    \/ \E c \in CircleId : CreateCircle(sender, c)
    \/ \E c \in CircleId : JoinCircle(sender, c)
    \/ \E c \in CircleId : LeaveCircle(sender, c)
    \/ \E c \in CircleId, k \in ContributionId : CreateContribution(sender, c, k)
    \/ \E t \in Address, c \in CircleId : EndorseUser(sender, t, c)
    \/ \E k \in ContributionId : EndorseContribution(sender, k)
    \/ \E id \in EndorsementId : SlashEndorsement(sender, id)
    \/ \E c \in CircleId : ClaimRole(sender, c)

Next == \E sender \in Address : DeliverTx(sender)

Spec == Init /\ [][Next]_vars

-----------------------------------------------------------------------------
(* What the stored keys promise *)

\* every prefix holds keys and values of its own kind
TypeOK ==
    /\ profile \in [DOMAIN profile -> Profile] /\ DOMAIN profile \subseteq Address
    /\ usernameKey \in [DOMAIN usernameKey -> Address]
    /\ DOMAIN usernameKey \subseteq Username
    /\ circle \in [DOMAIN circle -> Circle] /\ DOMAIN circle \subseteq CircleId
    /\ memberKey \subseteq CircleId \X Address
    /\ role \in [DOMAIN role -> Role] /\ DOMAIN role \subseteq CircleId \X Address
    /\ endorsement \in [DOMAIN endorsement -> Endorsement]
    /\ DOMAIN endorsement \subseteq EndorsementId
    /\ contribution \in [DOMAIN contribution -> Contribution]
    /\ DOMAIN contribution \subseteq ContributionId
    /\ pairKey \subseteq CircleId \X Address \X Address
    /\ contributionEndorsementKey \subseteq ContributionId \X Address
    /\ \A i \in index : /\ i[1] \in IndexName
                        /\ i[2] \in CircleId \cup Address \cup ContributionId
                        /\ i[3] \in ContributionId \cup EndorsementId

\* The member key of an address in a circle is present exactly when the
\* circle's own list holds the address, and the list holds it once: the two
\* records of membership that createCircle, joinCircle and leaveCircle write
\* side by side never part, however often an address leaves and joins again.
MembershipAgrees ==
    /\ \A m \in memberKey : m[1] \in DOMAIN circle
    /\ \A c \in DOMAIN circle, a \in Address :
           circle[c].members[a] = IF IsMember(c, a) THEN 1 ELSE 0

\* The creator of a circle is one of its members, and every member has a
\* profile: leaveCircle can never leave a circle without its moderator.
CreatorIsMember ==
    /\ \A c \in DOMAIN circle : IsMember(c, circle[c].creator)
    /\ \A m \in memberKey : HasProfile(m[2])

\* A role is held only by a current member: leaving takes the role away and
\* joining again does not bring it back.
RoleHeldByMember == \A r \in DOMAIN role : r \in memberKey

\* Names are unique up to letter case, and the name index points each taken
\* name at the profile that holds it.
UsernamesUnique ==
    /\ \A n \in DOMAIN usernameKey :
           /\ HasProfile(usernameKey[n])
           /\ toLowerCase[profile[usernameKey[n]].username] = n
    /\ \A a \in DOMAIN profile :
           /\ toLowerCase[profile[a].username] \in DOMAIN usernameKey
           /\ usernameKey[toLowerCase[profile[a].username]] = a

UserIds == {makeEndorsementId(p[1], p[2], p[3]) : p \in pairKey}

ContributionIds ==
    {makeContributionEndorsementId(q[1], q[2]) : q \in contributionEndorsementKey}

\* the identifiers given both to an endorsement of a user and to one of a
\* contribution: the later of the two was written over the earlier
Doubled == UserIds \cap ContributionIds

ActiveOf(k) ==
    {e \in DOMAIN endorsement : endorsement[e].contribution = k /\ ~endorsement[e].slashed}

\* The endorsementCount of a contribution is the number of endorsements of it
\* that have not been slashed, after any mix of endorsing and slashing, except
\* that it still counts endorsements that were written over: it is never too
\* small, and too large by at most the identifiers given twice.
CountIsActiveEndorsements ==
    \A k \in DOMAIN contribution :
        /\ contribution[k].endorsementCount >= Cardinality(ActiveOf(k))
        /\ contribution[k].endorsementCount <= Cardinality(ActiveOf(k)) + Cardinality(Doubled)

\* The keys that stop a second endorsement name exactly the endorsements that
\* exist, slashed ones included: an endorsement is stored under the identifier
\* of a pair, or of a contribution and its endorser, when and only when its own
\* key is set or that of the one other endorsement with the same identifier.
\* A slash does not allow a second try.
EndorsedOnce ==
    /\ \A c \in CircleId, s \in Address, t \in Address :
           makeEndorsementId(c, s, t) \in DOMAIN endorsement
               <=> \/ <<c, s, t>> \in pairKey
                   \/ makeEndorsementId(c, s, t) \in ContributionIds
    /\ \A k \in ContributionId, s \in Address :
           makeContributionEndorsementId(k, s) \in DOMAIN endorsement
               <=> \/ <<k, s>> \in contributionEndorsementKey
                   \/ makeContributionEndorsementId(k, s) \in UserIds

\* An endorsement names its circle, a target with a profile who is not its
\* sender, and, when it reviews a contribution, that contribution's own circle
\* and author: the author who gained the point is the one a slash will charge.
EndorsementsRefer ==
    \A id \in DOMAIN endorsement :
        LET e == endorsement[id] IN
        /\ e.circle \in DOMAIN circle
        /\ HasProfile(e.target) /\ HasProfile(e.from) /\ e.from # e.target
        /\ IF e.contribution = NoContribution
           THEN id = makeEndorsementId(e.circle, e.from, e.target)
           ELSE /\ id = makeContributionEndorsementId(e.contribution, e.from)
                /\ e.contribution \in DOMAIN contribution
                /\ contribution[e.contribution].circle = e.circle
                /\ contribution[e.contribution].author = e.target

ActiveFor(a) ==
    {e \in DOMAIN endorsement : endorsement[e].target = a /\ ~endorsement[e].slashed}

SlashedFor(a) ==
    {e \in DOMAIN endorsement : endorsement[e].target = a /\ endorsement[e].slashed}

\* Reputation is never more than the endorsements of the address that still
\* stand, and never less than those minus the slashed ones: a slash costs two
\* points for the one it gave, and only the floor at zero forgives any.  Each
\* identifier given twice hides one endorsement and moves a bound by one.
ReputationBounds ==
    \A a \in DOMAIN profile :
        LET r == profile[a].reputation
            doubled == Cardinality(Doubled)
        IN
        /\ r <= Cardinality(ActiveFor(a)) + doubled
        /\ r + Cardinality(SlashedFor(a)) + doubled >= Cardinality(ActiveFor(a))

\* the flags of the contributions and endorsements there are
Listed ==
        {<<"circleContribution", contribution[k].circle, k>> : k \in DOMAIN contribution}
        \cup {<<"userContribution", contribution[k].author, k>> : k \in DOMAIN contribution}
        \cup {<<"circleEndorsement", endorsement[e].circle, e>> : e \in DOMAIN endorsement}
        \cup {<<"userEndorsement", endorsement[e].target, e>> : e \in DOMAIN endorsement}
        \cup {<<"contributionEndorsement", endorsement[e].contribution, e>> :
                 e \in {x \in DOMAIN endorsement : endorsement[x].contribution # NoContribution}}

\* The five list indexes the query routes iterate miss no contribution and no
\* endorsement, and list nothing else but endorsements that were written over
\* by another one with the same identifier.
IndexesAgree ==
    /\ Listed \subseteq index
    /\ \A i \in index : i \in Listed \/ i[3] \in Doubled

EndorsementKept(id) ==
    /\ id \in DOMAIN endorsement'
    /\ endorsement'[id].circle = endorsement[id].circle
    /\ endorsement'[id].from = endorsement[id].from
    /\ endorsement'[id].target = endorsement[id].target
    /\ endorsement'[id].contribution = endorsement[id].contribution
    /\ endorsement[id].slashed => endorsement'[id].slashed

\* the step gives the identifier of one endorsement to another, different one
WrittenOver(id) == id \in Doubled' /\ id \notin Doubled

\* An endorsement keeps its parties, circle and contribution, and its slash is
\* final: the one thing that rewrites it is the other endorsement with the same
\* identifier, and that only once.
EndorsementsPermanent ==
    [][\A id \in DOMAIN endorsement : EndorsementKept(id) \/ WrittenOver(id)]_vars

\* a key that stops a second endorsement of the address, or of a contribution
\* it wrote, is set by this step
NewlyEndorsed(a) ==
    \/ \E p \in pairKey' \ pairKey : p[3] = a
    \/ \E q \in contributionEndorsementKey' \ contributionEndorsementKey :
           contribution[q[1]].author = a

NewlySlashed(a) ==
    \E id \in DOMAIN endorsement :
        /\ endorsement[id].target = a
        /\ ~endorsement[id].slashed /\ endorsement'[id].slashed

ReputationStep(a) ==
    /\ a \in DOMAIN profile'
    /\ profile'[a].username = profile[a].username
    /\ profile'[a].reputation > profile[a].reputation =>
           profile'[a].reputation = profile[a].reputation + 1 /\ NewlyEndorsed(a)
    /\ profile'[a].reputation < profile[a].reputation => NewlySlashed(a)

\* Reputation moves only with an endorsement: a point is gained only when
\* somebody endorses that address, or a contribution it wrote, for the first
\* time, points are lost only when one of its endorsements is slashed, and the
\* name of a profile never changes (updateProfile in particular touches
\* neither).
ReputationMovesWithEndorsements == [][\A a \in DOMAIN profile : ReputationStep(a)]_vars
=============================================================================
