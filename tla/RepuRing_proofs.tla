--------------------------- MODULE RepuRing_proofs ---------------------------
(***************************************************************************)
(* Theorems about RepuRing for every set of addresses, names, circles and  *)
(* contributions and every threshold.                                      *)
(***************************************************************************)
EXTENDS RepuRing, FiniteSetTheorems, TLAPS

-----------------------------------------------------------------------------
(* Lemmas about the operators *)

\* roleForReputation names one of the four roles for every reputation.
LEMMA RoleType ==
    ASSUME NEW r \in Nat
    PROVE  roleForReputation(r) \in RoleName
BY DEF roleForReputation, RoleName

\* The identifiers the two endorsing handlers compute are endorsement keys.
LEMMA IdType ==
    /\ \A c \in CircleId, s \in Address, t \in Address :
           makeEndorsementId(c, s, t) \in EndorsementId
    /\ \A k \in ContributionId, s \in Address :
           makeContributionEndorsementId(k, s) \in EndorsementId
BY DEF EndorsementId

-----------------------------------------------------------------------------
(* Type correctness *)

\* The initial, empty keys are well typed.
LEMMA InitType == Init => TypeOK
BY DEF Init, TypeOK, NoKeys

\* Every transaction keeps every prefix well typed.
LEMMA NextType == TypeOK /\ [Next]_vars => TypeOK'
<1> SUFFICES ASSUME TypeOK, [Next]_vars PROVE TypeOK'
    OBVIOUS
<1> USE DEF TypeOK
<1>1. ASSUME NEW s \in Address, NEW u \in Username, CreateProfile(s, u)
      PROVE  TypeOK'
  <2>1. [username |-> u, reputation |-> 0] \in Profile
    BY DEF Profile
  <2>2. /\ profile' \in [DOMAIN profile' -> Profile]
        /\ DOMAIN profile' \subseteq Address
    BY <1>1, <2>1 DEF CreateProfile, Put
  <2>3. KeyForUsername(u) \in Username
    BY LowerCaseAssumption DEF KeyForUsername
  <2>4. /\ usernameKey' \in [DOMAIN usernameKey' -> Address]
        /\ DOMAIN usernameKey' \subseteq Username
    BY <1>1, <2>3 DEF CreateProfile, Put
  <2> QED BY <1>1, <2>2, <2>4 DEF CreateProfile
<1>2. ASSUME NEW s \in Address, UpdateProfile(s)
      PROVE  TypeOK'
  <2>1. UpdatedProfile(s) \in Profile
    BY <1>2 DEF UpdateProfile, HasProfile, UpdatedProfile, Profile
  <2>2. /\ profile' \in [DOMAIN profile' -> Profile]
        /\ DOMAIN profile' \subseteq Address
    BY <1>2, <2>1 DEF UpdateProfile, Put
  <2> QED BY <1>2, <2>2 DEF UpdateProfile
<1>3. ASSUME NEW s \in Address, NEW c \in CircleId, CreateCircle(s, c)
      PROVE  TypeOK'
  <2>1. [creator |-> s, members |-> [a \in Address |-> IF a = s THEN 1 ELSE 0]] \in Circle
    BY DEF Circle
  <2>2. /\ circle' \in [DOMAIN circle' -> Circle]
        /\ DOMAIN circle' \subseteq CircleId
    BY <1>3, <2>1 DEF CreateCircle, Put
  <2>3. memberKey' \subseteq CircleId \X Address
    BY <1>3 DEF CreateCircle
  <2> QED BY <1>3, <2>2, <2>3 DEF CreateCircle
<1>4. ASSUME NEW s \in Address, NEW c \in CircleId, JoinCircle(s, c)
      PROVE  TypeOK'
  <2>1. circle[c] \in Circle
    BY <1>4 DEF JoinCircle
  <2>2. [creator |-> circle[c].creator, members |-> MembersWith(c, s)] \in Circle
    BY <2>1 DEF Circle, MembersWith
  <2>3. /\ circle' \in [DOMAIN circle' -> Circle]
        /\ DOMAIN circle' \subseteq CircleId
    BY <1>4, <2>2 DEF JoinCircle, Put
  <2>4. memberKey' \subseteq CircleId \X Address
    BY <1>4 DEF JoinCircle
  <2>5. /\ role' \in [DOMAIN role' -> Role]
        /\ DOMAIN role' \subseteq CircleId \X Address
    BY <1>4 DEF JoinCircle, Del
  <2> QED BY <1>4, <2>3, <2>4, <2>5 DEF JoinCircle
<1>5. ASSUME NEW s \in Address, NEW c \in CircleId, LeaveCircle(s, c)
      PROVE  TypeOK'
  <2>1. circle[c] \in Circle
    BY <1>5 DEF LeaveCircle
  <2>2. [creator |-> circle[c].creator, members |-> MembersWithout(c, s)] \in Circle
    BY <2>1 DEF Circle, MembersWithout
  <2>3. /\ circle' \in [DOMAIN circle' -> Circle]
        /\ DOMAIN circle' \subseteq CircleId
    BY <1>5, <2>2 DEF LeaveCircle, Put
  <2>4. memberKey' \subseteq CircleId \X Address
    BY <1>5 DEF LeaveCircle
  <2>5. /\ role' \in [DOMAIN role' -> Role]
        /\ DOMAIN role' \subseteq CircleId \X Address
    BY <1>5 DEF LeaveCircle, Del
  <2> QED BY <1>5, <2>3, <2>4, <2>5 DEF LeaveCircle
<1>6. ASSUME NEW s \in Address, NEW c \in CircleId, NEW k \in ContributionId,
             CreateContribution(s, c, k)
      PROVE  TypeOK'
  <2>1. [circle |-> c, author |-> s, endorsementCount |-> 0] \in Contribution
    BY DEF Contribution
  <2>2. /\ contribution' \in [DOMAIN contribution' -> Contribution]
        /\ DOMAIN contribution' \subseteq ContributionId
    BY <1>6, <2>1 DEF CreateContribution, Put
  <2>3. \A i \in index' : /\ i[1] \in IndexName
                          /\ i[2] \in CircleId \cup Address \cup ContributionId
                          /\ i[3] \in ContributionId \cup EndorsementId
    BY <1>6 DEF CreateContribution, ContributionIndexes, IndexName
  <2> QED BY <1>6, <2>2, <2>3 DEF CreateContribution
<1>7. ASSUME NEW s \in Address, NEW t \in Address, NEW c \in CircleId, EndorseUser(s, t, c)
      PROVE  TypeOK'
  <2> DEFINE id == makeEndorsementId(c, s, t)
  <2>1. profile[t] \in Profile
    BY <1>7 DEF EndorseUser, HasProfile
  <2>2. [username |-> profile[t].username, reputation |-> profile[t].reputation + 1] \in Profile
    BY <2>1 DEF Profile
  <2>3. /\ profile' \in [DOMAIN profile' -> Profile]
        /\ DOMAIN profile' \subseteq Address
    BY <1>7, <2>2 DEF EndorseUser, WithReputation, Put
  <2>4. [circle |-> c, from |-> s, target |-> t, contribution |-> NoContribution,
         slashed |-> FALSE] \in Endorsement
    BY DEF Endorsement
  <2>5. id \in EndorsementId
    BY IdType
  <2>6. /\ endorsement' \in [DOMAIN endorsement' -> Endorsement]
        /\ DOMAIN endorsement' \subseteq EndorsementId
    BY <1>7, <2>4, <2>5 DEF EndorseUser, Put
  <2>7. \A i \in index' : /\ i[1] \in IndexName
                          /\ i[2] \in CircleId \cup Address \cup ContributionId
                          /\ i[3] \in ContributionId \cup EndorsementId
    BY <1>7, <2>5 DEF EndorseUser, IndexName
  <2>8. pairKey' \subseteq CircleId \X Address \X Address
    BY <1>7 DEF EndorseUser
  <2> QED BY <1>7, <2>3, <2>6, <2>7, <2>8 DEF EndorseUser
<1>8. ASSUME NEW s \in Address, NEW k \in ContributionId, EndorseContribution(s, k)
      PROVE  TypeOK'
  <2> DEFINE a == contribution[k].author
             c == contribution[k].circle
             n == contribution[k].endorsementCount
             id == makeContributionEndorsementId(k, s)
  <2>1. a \in Address /\ c \in CircleId /\ n \in Nat
    BY <1>8 DEF EndorseContribution, Contribution
  <2>2. profile[a] \in Profile
    BY <1>8 DEF EndorseContribution, HasProfile
  <2>3. [username |-> profile[a].username, reputation |-> profile[a].reputation + 1] \in Profile
    BY <2>2 DEF Profile
  <2>4. /\ profile' \in [DOMAIN profile' -> Profile]
        /\ DOMAIN profile' \subseteq Address
    BY <1>8, <2>1, <2>3 DEF EndorseContribution, WithReputation, Put
  <2>5. [circle |-> c, author |-> a, endorsementCount |-> n + 1] \in Contribution
    BY <2>1 DEF Contribution
  <2>6. /\ contribution' \in [DOMAIN contribution' -> Contribution]
        /\ DOMAIN contribution' \subseteq ContributionId
    BY <1>8, <2>5 DEF EndorseContribution, Put
  <2>7. [circle |-> c, from |-> s, target |-> a, contribution |-> k,
         slashed |-> FALSE] \in Endorsement
    BY <2>1 DEF Endorsement
  <2>8. id \in EndorsementId
    BY IdType
  <2>9. /\ endorsement' \in [DOMAIN endorsement' -> Endorsement]
        /\ DOMAIN endorsement' \subseteq EndorsementId
    BY <1>8, <2>7, <2>8 DEF EndorseContribution, Put
  <2>10. \A i \in index' : /\ i[1] \in IndexName
                           /\ i[2] \in CircleId \cup Address \cup ContributionId
                           /\ i[3] \in ContributionId \cup EndorsementId
    BY <1>8, <2>1, <2>8 DEF EndorseContribution, IndexName
  <2>11. contributionEndorsementKey' \subseteq ContributionId \X Address
    BY <1>8 DEF EndorseContribution
  <2> QED BY <1>8, <2>4, <2>6, <2>9, <2>10, <2>11 DEF EndorseContribution
<1>9. ASSUME NEW s \in Address, NEW id \in EndorsementId, SlashEndorsement(s, id)
      PROVE  TypeOK'
  <2> DEFINE e == endorsement[id]
             k == contribution[e.contribution]
  <2>1. e \in Endorsement
    BY <1>9 DEF SlashEndorsement
  <2>2. profile[e.target] \in Profile
    BY <1>9 DEF SlashEndorsement, HasProfile
  <2>3. [username |-> profile[e.target].username,
         reputation |-> slashedReputation(profile[e.target].reputation)] \in Profile
    BY <2>2 DEF Profile, slashedReputation
  <2>4. /\ profile' \in [DOMAIN profile' -> Profile]
        /\ DOMAIN profile' \subseteq Address
    <3>1. e.target \in Address
      BY <2>1 DEF Endorsement
    <3> QED BY <1>9, <2>3, <3>1 DEF SlashEndorsement, WithReputation, Put
  <2>5. [circle |-> e.circle, from |-> e.from, target |-> e.target,
         contribution |-> e.contribution, slashed |-> TRUE] \in Endorsement
    BY <2>1 DEF Endorsement
  <2>6. /\ endorsement' \in [DOMAIN endorsement' -> Endorsement]
        /\ DOMAIN endorsement' \subseteq EndorsementId
    BY <1>9, <2>5 DEF SlashEndorsement, Put
  <2>7. /\ contribution' \in [DOMAIN contribution' -> Contribution]
        /\ DOMAIN contribution' \subseteq ContributionId
    <3>1. CASE e.contribution \in DOMAIN contribution
      <4>1. [circle |-> k.circle, author |-> k.author,
             endorsementCount |-> countAfterSlash(k.endorsementCount)] \in Contribution
        BY <3>1 DEF Contribution, countAfterSlash
      <4>2. contribution' = Put(contribution, e.contribution,
                [circle |-> k.circle, author |-> k.author,
                 endorsementCount |-> countAfterSlash(k.endorsementCount)])
        BY <1>9, <3>1 DEF SlashEndorsement
      <4> QED BY <3>1, <4>1, <4>2 DEF Put
    <3>2. CASE e.contribution \notin DOMAIN contribution
      BY <1>9, <3>2 DEF SlashEndorsement
    <3> QED BY <3>1, <3>2
  <2> QED BY <1>9, <2>4, <2>6, <2>7 DEF SlashEndorsement
<1>10. ASSUME NEW s \in Address, NEW c \in CircleId, ClaimRole(s, c)
       PROVE  TypeOK'
  <2>1. profile[s].reputation \in Nat
    BY <1>10 DEF ClaimRole, HasProfile, Profile
  <2>2. [role |-> roleForReputation(profile[s].reputation),
         reputation |-> profile[s].reputation] \in Role
    BY <2>1, RoleType DEF Role
  <2>3. /\ role' \in [DOMAIN role' -> Role]
        /\ DOMAIN role' \subseteq CircleId \X Address
    BY <1>10, <2>2 DEF ClaimRole, Put
  <2> QED BY <1>10, <2>3 DEF ClaimRole
<1>11. CASE UNCHANGED vars
  BY <1>11 DEF vars
<1> QED
  BY <1>1, <1>2, <1>3, <1>4, <1>5, <1>6, <1>7, <1>8, <1>9, <1>10, <1>11
  DEF Next, DeliverTx

\* The keys the contract stores are well typed in every reachable state: no
\* sequence of accepted transactions writes a key or a value of another kind.
THEOREM TypeCorrect == Spec => []TypeOK
BY InitType, NextType, PTL DEF Spec

-----------------------------------------------------------------------------
(* Membership *)

\* The three invariants of membership together are inductive: joining needs
\* the list and the member key to agree beforehand, leaving needs to know that
\* the creator is a member, and roles follow the member key.
Membership == MembershipAgrees /\ CreatorIsMember /\ RoleHeldByMember

\* No circle exists initially.
LEMMA InitMembership == Init => Membership
BY DEF Init, NoKeys, Membership, MembershipAgrees, CreatorIsMember, RoleHeldByMember

\* Transactions that touch no circle, member or role key, and keep profiles.
LEMMA MembershipFrame ==
    ASSUME Membership, UNCHANGED <<circle, memberKey, role>>,
           DOMAIN profile \subseteq DOMAIN profile'
    PROVE  Membership'
BY DEF Membership, MembershipAgrees, CreatorIsMember, RoleHeldByMember, IsMember, HasProfile

\* Every transaction preserves the membership invariants.
LEMMA NextMembership == TypeOK /\ Membership /\ [Next]_vars => Membership'
<1> SUFFICES ASSUME TypeOK, Membership, [Next]_vars PROVE Membership'
    OBVIOUS
<1>1. ASSUME NEW s \in Address, NEW u \in Username, CreateProfile(s, u)
      PROVE  Membership'
  BY <1>1, MembershipFrame DEF CreateProfile, Put
<1>2. ASSUME NEW s \in Address, UpdateProfile(s)
      PROVE  Membership'
  BY <1>2, MembershipFrame DEF UpdateProfile, Put
<1>3. ASSUME NEW s \in Address, NEW c \in CircleId, CreateCircle(s, c)
      PROVE  Membership'
  <2> USE DEF Membership
  <2>1. MembershipAgrees'
    BY <1>3 DEF CreateCircle, Put, MembershipAgrees, IsMember, TypeOK
  <2>2. CreatorIsMember'
    BY <1>3 DEF CreateCircle, Put, CreatorIsMember, IsMember, HasProfile, TypeOK
  <2>3. RoleHeldByMember'
    BY <1>3 DEF CreateCircle, RoleHeldByMember
  <2> QED BY <2>1, <2>2, <2>3
<1>4. ASSUME NEW s \in Address, NEW c \in CircleId, JoinCircle(s, c)
      PROVE  Membership'
  <2> USE DEF Membership
  <2>1. circle[c].members \in [Address -> Nat]
    BY <1>4 DEF JoinCircle, TypeOK, Circle
  <2>2. ~IsMember(c, s)
    BY <1>4 DEF JoinCircle, MembershipAgrees, IsListed
  <2>3. MembershipAgrees'
    BY <1>4, <2>1, <2>2 DEF JoinCircle, Put, MembersWith, MembershipAgrees, IsMember, TypeOK
  <2>4. CreatorIsMember'
    BY <1>4 DEF JoinCircle, Put, CreatorIsMember, IsMember, HasProfile, TypeOK
  <2>5. RoleHeldByMember'
    BY <1>4, <2>2 DEF JoinCircle, RoleHeldByMember
  <2> QED BY <2>3, <2>4, <2>5
<1>5. ASSUME NEW s \in Address, NEW c \in CircleId, LeaveCircle(s, c)
      PROVE  Membership'
  <2> USE DEF Membership
  <2>1. circle[c].members \in [Address -> Nat]
    BY <1>5 DEF LeaveCircle, TypeOK, Circle
  <2>2. MembershipAgrees'
    BY <1>5, <2>1 DEF LeaveCircle, Put, MembersWithout, MembershipAgrees, IsMember, TypeOK
  <2>3. CreatorIsMember'
    BY <1>5 DEF LeaveCircle, MayLeave, Put, CreatorIsMember, IsMember, HasProfile, TypeOK
  <2>4. RoleHeldByMember'
    BY <1>5 DEF LeaveCircle, Del, RoleHeldByMember
  <2> QED BY <2>2, <2>3, <2>4
<1>6. ASSUME NEW s \in Address, NEW c \in CircleId, NEW k \in ContributionId,
             CreateContribution(s, c, k)
      PROVE  Membership'
  BY <1>6, MembershipFrame DEF CreateContribution
<1>7. ASSUME NEW s \in Address, NEW t \in Address, NEW c \in CircleId, EndorseUser(s, t, c)
      PROVE  Membership'
  BY <1>7, MembershipFrame DEF EndorseUser, WithReputation, Put
<1>8. ASSUME NEW s \in Address, NEW k \in ContributionId, EndorseContribution(s, k)
      PROVE  Membership'
  BY <1>8, MembershipFrame DEF EndorseContribution, WithReputation, Put
<1>9. ASSUME NEW s \in Address, NEW id \in EndorsementId, SlashEndorsement(s, id)
      PROVE  Membership'
  BY <1>9, MembershipFrame DEF SlashEndorsement, WithReputation, Put
<1>10. ASSUME NEW s \in Address, NEW c \in CircleId, ClaimRole(s, c)
       PROVE  Membership'
  BY <1>10 DEF ClaimRole, Put, Membership, MembershipAgrees, CreatorIsMember,
               RoleHeldByMember, IsMember, HasProfile
<1>11. CASE UNCHANGED vars
  BY <1>11, MembershipFrame DEF vars
<1> QED
  BY <1>1, <1>2, <1>3, <1>4, <1>5, <1>6, <1>7, <1>8, <1>9, <1>10, <1>11
  DEF Next, DeliverTx

\* In every reachable state the member keys and the member lists agree.
THEOREM MembershipAlwaysAgrees == Spec => []MembershipAgrees
<1>1. Membership => MembershipAgrees
  BY DEF Membership
<1> QED BY <1>1, InitMembership, NextMembership, InitType, NextType, PTL DEF Spec

\* In every reachable state each circle still has its creator as a member.
THEOREM CreatorAlwaysMember == Spec => []CreatorIsMember
<1>1. Membership => CreatorIsMember
  BY DEF Membership
<1> QED BY <1>1, InitMembership, NextMembership, InitType, NextType, PTL DEF Spec

\* In every reachable state only members hold roles.
THEOREM RolesOnlyForMembers == Spec => []RoleHeldByMember
<1>1. Membership => RoleHeldByMember
  BY DEF Membership
<1> QED BY <1>1, InitMembership, NextMembership, InitType, NextType, PTL DEF Spec

-----------------------------------------------------------------------------
(* Endorsements *)

\* What the two endorsing handlers and the slash need of each other's writes:
\* contributions keep their circle and author, and only finitely many
\* endorsements exist, so that they can be counted.
References ==
    /\ EndorsedOnce
    /\ EndorsementsRefer
    /\ IsFiniteSet(DOMAIN endorsement)
    /\ \A k \in DOMAIN contribution :
           contribution[k].circle \in DOMAIN circle /\ HasProfile(contribution[k].author)

\* Identifiers of different endorsements of users differ, and so do those of
\* different endorsements of contributions.
LEMMA IdsDiffer ==
    /\ \A c \in CircleId, s \in Address, t \in Address, d \in CircleId, u \in Address,
          v \in Address : makeEndorsementId(c, s, t) = makeEndorsementId(d, u, v)
                              => c = d /\ s = u /\ t = v
    /\ \A k \in ContributionId, s \in Address, l \in ContributionId, u \in Address :
           makeContributionEndorsementId(k, s) = makeContributionEndorsementId(l, u)
               => k = l /\ s = u
<1>1. \A c \in CircleId, s \in Address, t \in Address, d \in CircleId, u \in Address,
         v \in Address : makeEndorsementId(c, s, t) = makeEndorsementId(d, u, v)
                             => c = d /\ s = u /\ t = v
  BY DEF makeEndorsementId
<1>2. ASSUME NEW k \in ContributionId, NEW s \in Address,
             NEW l \in ContributionId, NEW u \in Address,
             makeContributionEndorsementId(k, s) = makeContributionEndorsementId(l, u)
      PROVE  k = l /\ s = u
  <2>1. CASE k \in DOMAIN spells /\ l \in DOMAIN spells
    <3>1. /\ spells[k] \in CircleId \X Address /\ spells[l] \in CircleId \X Address
          /\ spells[k] = spells[l] => k = l
      BY <2>1, SpellsAssumption
    <3>2. spells[k][1] = spells[l][1] /\ spells[k][2] = spells[l][2] /\ s = u
      BY <1>2, <2>1 DEF makeContributionEndorsementId, makeEndorsementId
    <3>3. spells[k] = spells[l]
      BY <3>1, <3>2
    <3> QED BY <3>1, <3>2, <3>3
  <2>2. CASE k \notin DOMAIN spells /\ l \notin DOMAIN spells
    BY <1>2, <2>2 DEF makeContributionEndorsementId
  <2>3. CASE ~(k \in DOMAIN spells <=> l \in DOMAIN spells)
    BY <1>2, <2>3 DEF makeContributionEndorsementId, makeEndorsementId
  <2> QED BY <2>1, <2>2, <2>3
<1> QED BY <1>1, <1>2

\* What an endorsement of a user adds to the identifiers in use.
LEMMA UserIdsGrow ==
    ASSUME TypeOK, References, NEW s \in Address, NEW t \in Address, NEW c \in CircleId,
           EndorseUser(s, t, c), NEW id, id = makeEndorsementId(c, s, t)
    PROVE  /\ UserIds' = UserIds \cup {id} /\ ContributionIds' = ContributionIds
           /\ id \notin UserIds
           /\ id \in DOMAIN endorsement <=> id \in ContributionIds
           /\ DOMAIN endorsement' = DOMAIN endorsement \cup {id}
<1>1. /\ pairKey' = pairKey \cup {<<c, s, t>>} /\ <<c, s, t>> \notin pairKey
      /\ UNCHANGED contributionEndorsementKey
      /\ DOMAIN endorsement' = DOMAIN endorsement \cup {id}
  BY DEF EndorseUser, NotEndorsedBefore, Put
<1>2. UserIds' = UserIds \cup {id}
  <2>1. \A p \in pairKey' : p \in pairKey \/ p = <<c, s, t>>
    BY <1>1
  <2>2. <<c, s, t>>[1] = c /\ <<c, s, t>>[2] = s /\ <<c, s, t>>[3] = t
    OBVIOUS
  <2> QED BY <1>1, <2>1, <2>2 DEF UserIds
<1>3. ContributionIds' = ContributionIds
  BY <1>1 DEF ContributionIds
<1>4. ASSUME NEW p \in pairKey, makeEndorsementId(p[1], p[2], p[3]) = id PROVE FALSE
  <2>1. p \in CircleId \X Address \X Address
    BY DEF TypeOK
  <2>2. p = <<p[1], p[2], p[3]>> /\ p[1] \in CircleId /\ p[2] \in Address /\ p[3] \in Address
    BY <2>1
  <2>3. p[1] = c /\ p[2] = s /\ p[3] = t
    BY <1>4, <2>2, IdsDiffer
  <2> QED BY <1>1, <2>2, <2>3
<1>5. id \notin UserIds
  BY <1>4 DEF UserIds
<1>6. id \in DOMAIN endorsement <=> id \in ContributionIds
  BY <1>1 DEF References, EndorsedOnce
<1> QED BY <1>1, <1>2, <1>3, <1>5, <1>6

\* What an endorsement of a contribution adds to the identifiers in use.
LEMMA ContributionIdsGrow ==
    ASSUME TypeOK, References, NEW s \in Address, NEW k \in ContributionId,
           EndorseContribution(s, k), NEW id, id = makeContributionEndorsementId(k, s)
    PROVE  /\ ContributionIds' = ContributionIds \cup {id} /\ UserIds' = UserIds
           /\ id \notin ContributionIds
           /\ id \in DOMAIN endorsement <=> id \in UserIds
           /\ DOMAIN endorsement' = DOMAIN endorsement \cup {id}
<1>1. /\ contributionEndorsementKey' = contributionEndorsementKey \cup {<<k, s>>}
      /\ <<k, s>> \notin contributionEndorsementKey
      /\ UNCHANGED pairKey
      /\ DOMAIN endorsement' = DOMAIN endorsement \cup {id}
  BY DEF EndorseContribution, Put
<1>2. ContributionIds' = ContributionIds \cup {id}
  <2>1. \A q \in contributionEndorsementKey' :
            q \in contributionEndorsementKey \/ q = <<k, s>>
    BY <1>1
  <2>2. <<k, s>>[1] = k /\ <<k, s>>[2] = s
    OBVIOUS
  <2> QED BY <1>1, <2>1, <2>2 DEF ContributionIds
<1>3. UserIds' = UserIds
  BY <1>1 DEF UserIds
<1>4. ASSUME NEW q \in contributionEndorsementKey,
             makeContributionEndorsementId(q[1], q[2]) = id
      PROVE  FALSE
  <2>1. q \in ContributionId \X Address
    BY DEF TypeOK
  <2>2. q = <<q[1], q[2]>> /\ q[1] \in ContributionId /\ q[2] \in Address
    BY <2>1
  <2>3. q[1] = k /\ q[2] = s
    BY <1>4, <2>2, IdsDiffer
  <2> QED BY <1>1, <2>2, <2>3
<1>5. id \notin ContributionIds
  BY <1>4 DEF ContributionIds
<1>6. id \in DOMAIN endorsement <=> id \in UserIds
  BY <1>1 DEF References, EndorsedOnce
<1> QED BY <1>1, <1>2, <1>3, <1>5, <1>6

\* An identifier that was free is not doubled when it is given; one in use is.
LEMMA DoubledGrows ==
    ASSUME NEW id,
           \/ /\ UserIds' = UserIds \cup {id} /\ ContributionIds' = ContributionIds
              /\ id \notin UserIds
              /\ id \in DOMAIN endorsement <=> id \in ContributionIds
           \/ /\ ContributionIds' = ContributionIds \cup {id} /\ UserIds' = UserIds
              /\ id \notin ContributionIds
              /\ id \in DOMAIN endorsement <=> id \in UserIds
    PROVE  /\ id \notin Doubled
           /\ id \notin DOMAIN endorsement => Doubled' = Doubled
           /\ id \in DOMAIN endorsement => Doubled' = Doubled \cup {id}
BY DEF Doubled

\* No endorsement exists initially.
LEMMA InitReferences == Init => References
BY FS_EmptySet DEF Init, NoKeys, References, EndorsedOnce, EndorsementsRefer, UserIds,
                   ContributionIds

\* Transactions that leave endorsements and contributions alone and keep
\* profiles and circles.
LEMMA ReferencesFrame ==
    ASSUME References,
           UNCHANGED <<endorsement, contribution, pairKey, contributionEndorsementKey>>,
           DOMAIN profile \subseteq DOMAIN profile', DOMAIN circle \subseteq DOMAIN circle'
    PROVE  References'
<1>1. EndorsedOnce'
  BY DEF References, EndorsedOnce, UserIds, ContributionIds
<1>2. EndorsementsRefer'
  BY DEF References, EndorsementsRefer, HasProfile
<1> QED BY <1>1, <1>2 DEF References, HasProfile

\* Every transaction preserves the references between endorsements,
\* contributions, circles and profiles.
LEMMA NextReferences == TypeOK /\ Membership /\ References /\ [Next]_vars => References'
<1> SUFFICES ASSUME TypeOK, Membership, References, [Next]_vars PROVE References'
    OBVIOUS
<1>1. ASSUME NEW s \in Address, NEW u \in Username, CreateProfile(s, u)
      PROVE  References'
  BY <1>1, ReferencesFrame DEF CreateProfile, Put
<1>2. ASSUME NEW s \in Address, UpdateProfile(s)
      PROVE  References'
  BY <1>2, ReferencesFrame DEF UpdateProfile, Put
<1>3. ASSUME NEW s \in Address, NEW c \in CircleId, CreateCircle(s, c)
      PROVE  References'
  BY <1>3, ReferencesFrame DEF CreateCircle, Put
<1>4. ASSUME NEW s \in Address, NEW c \in CircleId, JoinCircle(s, c)
      PROVE  References'
  BY <1>4, ReferencesFrame DEF JoinCircle, Put
<1>5. ASSUME NEW s \in Address, NEW c \in CircleId, LeaveCircle(s, c)
      PROVE  References'
  BY <1>5, ReferencesFrame DEF LeaveCircle, Put
<1>6. ASSUME NEW s \in Address, NEW c \in CircleId, NEW k \in ContributionId,
             CreateContribution(s, c, k)
      PROVE  References'
  <2>1. EndorsedOnce'
    BY <1>6 DEF References, EndorsedOnce, CreateContribution, UserIds, ContributionIds
  <2>2. EndorsementsRefer'
    BY <1>6 DEF References, EndorsementsRefer, CreateContribution, HasProfile, Put
  <2>3. \A x \in DOMAIN contribution' : /\ contribution'[x].circle \in DOMAIN circle'
                                        /\ contribution'[x].author \in DOMAIN profile'
    BY <1>6 DEF References, CreateContribution, HasProfile, Put
  <2> QED BY <1>6, <2>1, <2>2, <2>3 DEF References, CreateContribution, HasProfile
<1>7. ASSUME NEW s \in Address, NEW t \in Address, NEW c \in CircleId, EndorseUser(s, t, c)
      PROVE  References'
  <2> DEFINE id == makeEndorsementId(c, s, t)
  <2>1. DOMAIN endorsement' = DOMAIN endorsement \cup {id}
    BY <1>7 DEF EndorseUser, Put
  <2>2. EndorsedOnce'
    <3>1. /\ pairKey' = pairKey \cup {<<c, s, t>>} /\ UNCHANGED contributionEndorsementKey
          /\ UserIds' = UserIds \cup {id} /\ ContributionIds' = ContributionIds
      BY <1>7, UserIdsGrow DEF EndorseUser
    <3>2. ASSUME NEW d \in CircleId, NEW u \in Address, NEW v \in Address
          PROVE  makeEndorsementId(d, u, v) \in DOMAIN endorsement'
                     <=> \/ <<d, u, v>> \in pairKey'
                         \/ makeEndorsementId(d, u, v) \in ContributionIds'
      <4>1. <<d, u, v>> = <<c, s, t>> <=> makeEndorsementId(d, u, v) = id
        BY DEF makeEndorsementId
      <4> QED BY <2>1, <3>1, <4>1 DEF References, EndorsedOnce
    <3>3. ASSUME NEW k \in ContributionId, NEW u \in Address
          PROVE  makeContributionEndorsementId(k, u) \in DOMAIN endorsement'
                     <=> \/ <<k, u>> \in contributionEndorsementKey'
                         \/ makeContributionEndorsementId(k, u) \in UserIds'
      BY <2>1, <3>1 DEF References, EndorsedOnce
    <3> QED BY <3>2, <3>3 DEF EndorsedOnce
  <2>3. DOMAIN profile \subseteq DOMAIN profile'
    BY <1>7 DEF EndorseUser, WithReputation, Put
  <2>4. EndorsementsRefer'
    BY <1>7, <2>1, <2>3 DEF References, EndorsementsRefer, EndorseUser, NotSelf, HasProfile, Put
  <2>5. IsFiniteSet(DOMAIN endorsement')
    BY <2>1, FS_AddElement DEF References
  <2> QED BY <1>7, <2>2, <2>3, <2>4, <2>5 DEF References, EndorseUser, HasProfile
<1>8. ASSUME NEW s \in Address, NEW k \in ContributionId, EndorseContribution(s, k)
      PROVE  References'
  <2> DEFINE id == makeContributionEndorsementId(k, s)
  <2>1. DOMAIN endorsement' = DOMAIN endorsement \cup {id}
    BY <1>8 DEF EndorseContribution, Put
  <2>2. EndorsedOnce'
    <3>1. /\ UNCHANGED pairKey
          /\ contributionEndorsementKey' = contributionEndorsementKey \cup {<<k, s>>}
          /\ UserIds' = UserIds /\ ContributionIds' = ContributionIds \cup {id}
      BY <1>8, ContributionIdsGrow DEF EndorseContribution
    <3>2. ASSUME NEW d \in CircleId, NEW u \in Address, NEW v \in Address
          PROVE  makeEndorsementId(d, u, v) \in DOMAIN endorsement'
                     <=> \/ <<d, u, v>> \in pairKey'
                         \/ makeEndorsementId(d, u, v) \in ContributionIds'
      BY <2>1, <3>1 DEF References, EndorsedOnce
    <3>3. ASSUME NEW l \in ContributionId, NEW u \in Address
          PROVE  makeContributionEndorsementId(l, u) \in DOMAIN endorsement'
                     <=> \/ <<l, u>> \in contributionEndorsementKey'
                         \/ makeContributionEndorsementId(l, u) \in UserIds'
      <4>1. <<l, u>> = <<k, s>> <=> makeContributionEndorsementId(l, u) = id
        BY IdsDiffer
      <4> QED BY <2>1, <3>1, <4>1 DEF References, EndorsedOnce
    <3> QED BY <3>2, <3>3 DEF EndorsedOnce
  <2>3. DOMAIN profile \subseteq DOMAIN profile'
    BY <1>8 DEF EndorseContribution, WithReputation, Put
  <2>4. /\ DOMAIN contribution' = DOMAIN contribution
        /\ \A x \in DOMAIN contribution : /\ contribution'[x].circle = contribution[x].circle
                                          /\ contribution'[x].author = contribution[x].author
    BY <1>8 DEF EndorseContribution, Put
  <2>5. EndorsementsRefer'
    <3> SUFFICES ASSUME NEW i \in DOMAIN endorsement'
                 PROVE  LET e == endorsement'[i] IN
                        /\ e.circle \in DOMAIN circle'
                        /\ e.target \in DOMAIN profile' /\ e.from \in DOMAIN profile'
                        /\ e.from # e.target
                        /\ IF e.contribution = NoContribution
                           THEN i = makeEndorsementId(e.circle, e.from, e.target)
                           ELSE /\ i = makeContributionEndorsementId(e.contribution, e.from)
                                /\ e.contribution \in DOMAIN contribution'
                                /\ contribution'[e.contribution].circle = e.circle
                                /\ contribution'[e.contribution].author = e.target
      BY DEF EndorsementsRefer, HasProfile
    <3>1. CASE i = id
      BY <1>8, <2>3, <2>4, <3>1, NoContributionAssumption
      DEF References, EndorseContribution, HasProfile, Put
    <3>2. CASE i # id
      <4>1. i \in DOMAIN endorsement /\ endorsement'[i] = endorsement[i]
        BY <1>8, <3>2 DEF EndorseContribution, Put
      <4>2. circle' = circle
        BY <1>8 DEF EndorseContribution
      <4> QED BY <2>3, <2>4, <4>1, <4>2 DEF References, EndorsementsRefer, HasProfile
    <3> QED BY <3>1, <3>2
  <2>6. IsFiniteSet(DOMAIN endorsement')
    BY <2>1, FS_AddElement DEF References
  <2> QED BY <1>8, <2>2, <2>3, <2>4, <2>5, <2>6
          DEF References, EndorseContribution, HasProfile
<1>9. ASSUME NEW s \in Address, NEW id \in EndorsementId, SlashEndorsement(s, id)
      PROVE  References'
  <2>1. DOMAIN endorsement' = DOMAIN endorsement
    BY <1>9 DEF SlashEndorsement, Put
  <2>2. \A x \in DOMAIN endorsement :
           /\ endorsement'[x].circle = endorsement[x].circle
           /\ endorsement'[x].from = endorsement[x].from
           /\ endorsement'[x].target = endorsement[x].target
           /\ endorsement'[x].contribution = endorsement[x].contribution
    BY <1>9 DEF SlashEndorsement, Put
  <2>3. DOMAIN profile \subseteq DOMAIN profile'
    BY <1>9 DEF SlashEndorsement, WithReputation, Put
  <2>4. /\ DOMAIN contribution' = DOMAIN contribution
        /\ \A x \in DOMAIN contribution : /\ contribution'[x].circle = contribution[x].circle
                                          /\ contribution'[x].author = contribution[x].author
    BY <1>9 DEF SlashEndorsement, Put
  <2>5. UNCHANGED <<circle, pairKey, contributionEndorsementKey>>
    BY <1>9 DEF SlashEndorsement
  <2>6. EndorsedOnce'
    BY <2>1, <2>5 DEF References, EndorsedOnce, UserIds, ContributionIds
  <2>7. EndorsementsRefer'
    BY <2>1, <2>2, <2>3, <2>4, <2>5 DEF References, EndorsementsRefer, HasProfile
  <2> QED BY <2>1, <2>3, <2>4, <2>5, <2>6, <2>7 DEF References, HasProfile
<1>10. ASSUME NEW s \in Address, NEW c \in CircleId, ClaimRole(s, c)
       PROVE  References'
  BY <1>10, ReferencesFrame DEF ClaimRole
<1>11. CASE UNCHANGED vars
  BY <1>11, ReferencesFrame DEF vars
<1> QED
  BY <1>1, <1>2, <1>3, <1>4, <1>5, <1>6, <1>7, <1>8, <1>9, <1>10, <1>11
  DEF Next, DeliverTx

\* The keys that stop a second endorsement always name exactly the
\* endorsements stored, whatever identifiers coincide.
THEOREM NeverEndorsedTwice == Spec => []EndorsedOnce
<1>1. References => EndorsedOnce
  BY DEF References
<1> QED BY <1>1, InitReferences, NextReferences, InitMembership, NextMembership,
           InitType, NextType, PTL DEF Spec

\* Endorsements always refer to circles, profiles and contributions that
\* exist, and name the author of the contribution they review.
THEOREM EndorsementsAlwaysRefer == Spec => []EndorsementsRefer
<1>1. References => EndorsementsRefer
  BY DEF References
<1> QED BY <1>1, InitReferences, NextReferences, InitMembership, NextMembership,
           InitType, NextType, PTL DEF Spec

-----------------------------------------------------------------------------
(* Counting endorsements *)

\* The stored counters against the endorsements they count.
Counters == CountIsActiveEndorsements /\ ReputationBounds

\* The sets that are counted are finite, so their cardinalities are numbers.
LEMMA CountedFinite ==
    ASSUME TypeOK, References, NEW x
    PROVE  /\ IsFiniteSet(ActiveOf(x)) /\ Cardinality(ActiveOf(x)) \in Nat
           /\ IsFiniteSet(ActiveFor(x)) /\ Cardinality(ActiveFor(x)) \in Nat
           /\ IsFiniteSet(SlashedFor(x)) /\ Cardinality(SlashedFor(x)) \in Nat
           /\ IsFiniteSet(Doubled) /\ Cardinality(Doubled) \in Nat
<1>1. /\ ActiveOf(x) \subseteq DOMAIN endorsement
      /\ ActiveFor(x) \subseteq DOMAIN endorsement
      /\ SlashedFor(x) \subseteq DOMAIN endorsement
  BY DEF ActiveOf, ActiveFor, SlashedFor
<1>2. ASSUME NEW p \in pairKey
      PROVE  makeEndorsementId(p[1], p[2], p[3]) \in DOMAIN endorsement
  <2>1. p \in CircleId \X Address \X Address
    BY DEF TypeOK
  <2>2. p = <<p[1], p[2], p[3]>> /\ p[1] \in CircleId /\ p[2] \in Address /\ p[3] \in Address
    BY <2>1
  <2> QED BY <2>2 DEF References, EndorsedOnce
<1>3. Doubled \subseteq DOMAIN endorsement
  BY <1>2 DEF Doubled, UserIds
<1> QED BY <1>1, <1>3, FS_Subset, FS_CardinalityType DEF References

\* Nothing is counted initially.
LEMMA InitCounters == Init => Counters
BY DEF Init, NoKeys, Counters, CountIsActiveEndorsements, ReputationBounds

\* Transactions that leave profiles, endorsements and contributions as they are.
LEMMA CountersFrame ==
    ASSUME Counters, UNCHANGED <<profile, endorsement, contribution, pairKey,
                                 contributionEndorsementKey>>
    PROVE  Counters'
<1>1. UNCHANGED Doubled
  BY DEF Doubled, UserIds, ContributionIds
<1>2. \A x : UNCHANGED <<ActiveOf(x), ActiveFor(x), SlashedFor(x)>>
  BY DEF ActiveOf, ActiveFor, SlashedFor
<1>3. CountIsActiveEndorsements'
  BY <1>1, <1>2 DEF Counters, CountIsActiveEndorsements
<1>4. ReputationBounds'
  BY <1>1, <1>2 DEF Counters, ReputationBounds
<1> QED BY <1>3, <1>4 DEF Counters

\* Counting a set that gains or loses the identifier just given, together with
\* the doubled identifiers: what a set loses the doubled ones gain.
LEMMA CountWithDoubled ==
    ASSUME NEW X, IsFiniteSet(X), NEW D, IsFiniteSet(D), NEW id, id \notin D,
           NEW E, (E = D /\ id \notin X) \/ E = D \cup {id}
    PROVE  /\ Cardinality(X) \in Nat /\ Cardinality(D) \in Nat /\ Cardinality(E) \in Nat
           /\ Cardinality(X \cup {id}) \in Nat /\ Cardinality(X \ {id}) \in Nat
           /\ Cardinality(X \cup {id}) <= Cardinality(X) + 1
           /\ Cardinality(X \cup {id}) + Cardinality(E) >= Cardinality(X) + Cardinality(D) + 1
           /\ Cardinality(X \ {id}) <= Cardinality(X)
           /\ Cardinality(X \ {id}) + Cardinality(E) >= Cardinality(X) + Cardinality(D)
<1>1. /\ Cardinality(X) \in Nat /\ Cardinality(D) \in Nat
      /\ IsFiniteSet(X \cup {id}) /\ IsFiniteSet(X \ {id}) /\ IsFiniteSet(D \cup {id})
  BY FS_CardinalityType, FS_AddElement, FS_RemoveElement
<1>2. /\ Cardinality(X \cup {id}) \in Nat /\ Cardinality(X \ {id}) \in Nat
      /\ Cardinality(D \cup {id}) \in Nat
  BY <1>1, FS_CardinalityType
<1>3. /\ Cardinality(X \cup {id}) = IF id \in X THEN Cardinality(X) ELSE Cardinality(X) + 1
      /\ Cardinality(D \cup {id}) = Cardinality(D) + 1
  BY FS_AddElement
<1>4. Cardinality(X \ {id}) = IF id \in X THEN Cardinality(X) - 1 ELSE Cardinality(X)
  BY FS_RemoveElement
<1>5. CASE E = D /\ id \notin X
  BY <1>1, <1>2, <1>3, <1>4, <1>5
<1>6. CASE E = D \cup {id}
  BY <1>1, <1>2, <1>3, <1>4, <1>6
<1> QED BY <1>5, <1>6

\* An endorsement e stored under `id' is counted for its target and its
\* contribution; one it is written over is counted no more, but its identifier
\* is now doubled.
LEMMA EndorsementCounts ==
    ASSUME TypeOK, References, NEW id, NEW e \in Endorsement, ~e.slashed,
           endorsement' = Put(endorsement, id, e), id \notin Doubled,
           id \notin DOMAIN endorsement => Doubled' = Doubled,
           id \in DOMAIN endorsement => Doubled' = Doubled \cup {id}
    PROVE  LET D == Cardinality(Doubled)
               E == Cardinality(Doubled')
           IN
           /\ D \in Nat /\ E \in Nat /\ E >= D
           /\ \A a :
                 /\ Cardinality(ActiveFor(a)') \in Nat
                 /\ Cardinality(SlashedFor(a)') \in Nat
                 /\ Cardinality(SlashedFor(a)') + E >= Cardinality(SlashedFor(a)) + D
                 /\ a = e.target =>
                       /\ Cardinality(ActiveFor(a)') <= Cardinality(ActiveFor(a)) + 1
                       /\ Cardinality(ActiveFor(a)') + E >= Cardinality(ActiveFor(a)) + D + 1
                 /\ a # e.target =>
                       /\ Cardinality(ActiveFor(a)') <= Cardinality(ActiveFor(a))
                       /\ Cardinality(ActiveFor(a)') + E >= Cardinality(ActiveFor(a)) + D
           /\ \A k :
                 /\ Cardinality(ActiveOf(k)') \in Nat
                 /\ k = e.contribution =>
                       /\ Cardinality(ActiveOf(k)') <= Cardinality(ActiveOf(k)) + 1
                       /\ Cardinality(ActiveOf(k)') + E >= Cardinality(ActiveOf(k)) + D + 1
                 /\ k # e.contribution =>
                       /\ Cardinality(ActiveOf(k)') <= Cardinality(ActiveOf(k))
                       /\ Cardinality(ActiveOf(k)') + E >= Cardinality(ActiveOf(k)) + D
<1> DEFINE D == Doubled
           E == Doubled'
<1>1. IsFiniteSet(D) /\ id \notin D
  BY CountedFinite
<1>2. ASSUME NEW X, IsFiniteSet(X), X \subseteq DOMAIN endorsement
      PROVE  /\ Cardinality(X) \in Nat /\ Cardinality(D) \in Nat /\ Cardinality(E) \in Nat
             /\ Cardinality(X \cup {id}) \in Nat /\ Cardinality(X \ {id}) \in Nat
             /\ Cardinality(X \cup {id}) <= Cardinality(X) + 1
             /\ Cardinality(X \cup {id}) + Cardinality(E) >= Cardinality(X) + Cardinality(D) + 1
             /\ Cardinality(X \ {id}) <= Cardinality(X)
             /\ Cardinality(X \ {id}) + Cardinality(E) >= Cardinality(X) + Cardinality(D)
  <2>1. (E = D /\ id \notin X) \/ E = D \cup {id}
    BY <1>2
  <2> HIDE DEF D, E
  <2> QED BY <1>1, <1>2, <2>1, CountWithDoubled
<1>3. Cardinality(D) \in Nat /\ Cardinality(E) \in Nat /\ Cardinality(E) >= Cardinality(D)
  <2>1. IsFiniteSet({}) /\ Cardinality({}) = 0 /\ {} \ {id} = {}
    BY FS_EmptySet
  <2> HIDE DEF D, E
  <2>2. /\ Cardinality(D) \in Nat /\ Cardinality(E) \in Nat
        /\ Cardinality({} \ {id}) + Cardinality(E) >= Cardinality({}) + Cardinality(D)
    BY <1>2, <2>1
  <2> QED BY <2>1, <2>2
<1>4. ASSUME NEW a
      PROVE  /\ ActiveFor(a) \subseteq DOMAIN endorsement /\ IsFiniteSet(ActiveFor(a))
             /\ SlashedFor(a) \subseteq DOMAIN endorsement /\ IsFiniteSet(SlashedFor(a))
             /\ ActiveOf(a) \subseteq DOMAIN endorsement /\ IsFiniteSet(ActiveOf(a))
             /\ SlashedFor(a)' = SlashedFor(a) \ {id}
             /\ a = e.target => ActiveFor(a)' = ActiveFor(a) \cup {id}
             /\ a # e.target => ActiveFor(a)' = ActiveFor(a) \ {id}
             /\ a = e.contribution => ActiveOf(a)' = ActiveOf(a) \cup {id}
             /\ a # e.contribution => ActiveOf(a)' = ActiveOf(a) \ {id}
  <2>1. /\ IsFiniteSet(ActiveFor(a)) /\ IsFiniteSet(SlashedFor(a)) /\ IsFiniteSet(ActiveOf(a))
    BY CountedFinite
  <2>2. /\ DOMAIN endorsement' = DOMAIN endorsement \cup {id}
        /\ endorsement'[id] = e
        /\ \A x \in DOMAIN endorsement : x # id => endorsement'[x] = endorsement[x]
    BY DEF Put
  <2> QED BY <2>1, <2>2 DEF ActiveFor, SlashedFor, ActiveOf
<1> HIDE DEF D, E
<1>5. ASSUME NEW a
      PROVE  /\ Cardinality(ActiveFor(a)') \in Nat
             /\ Cardinality(SlashedFor(a)') \in Nat
             /\ Cardinality(SlashedFor(a)') + Cardinality(E)
                    >= Cardinality(SlashedFor(a)) + Cardinality(D)
             /\ a = e.target =>
                   /\ Cardinality(ActiveFor(a)') <= Cardinality(ActiveFor(a)) + 1
                   /\ Cardinality(ActiveFor(a)') + Cardinality(E)
                          >= Cardinality(ActiveFor(a)) + Cardinality(D) + 1
             /\ a # e.target =>
                   /\ Cardinality(ActiveFor(a)') <= Cardinality(ActiveFor(a))
                   /\ Cardinality(ActiveFor(a)') + Cardinality(E)
                          >= Cardinality(ActiveFor(a)) + Cardinality(D)
  BY <1>2, <1>4
<1>6. ASSUME NEW k
      PROVE  /\ Cardinality(ActiveOf(k)') \in Nat
             /\ k = e.contribution =>
                   /\ Cardinality(ActiveOf(k)') <= Cardinality(ActiveOf(k)) + 1
                   /\ Cardinality(ActiveOf(k)') + Cardinality(E)
                          >= Cardinality(ActiveOf(k)) + Cardinality(D) + 1
             /\ k # e.contribution =>
                   /\ Cardinality(ActiveOf(k)') <= Cardinality(ActiveOf(k))
                   /\ Cardinality(ActiveOf(k)') + Cardinality(E)
                          >= Cardinality(ActiveOf(k)) + Cardinality(D)
  BY <1>2, <1>4
<1> QED BY <1>3, <1>5, <1>6 DEF D, E

\* Slashing the active endorsement `id' moves it from the active to the
\* slashed ones of its target, and out of those of its contribution.
LEMMA SlashCounts ==
    ASSUME TypeOK, References, NEW id \in DOMAIN endorsement, ~endorsement[id].slashed,
           NEW e, e = endorsement[id],
           endorsement' = Put(endorsement, id,
               [circle |-> e.circle, from |-> e.from, target |-> e.target,
                contribution |-> e.contribution, slashed |-> TRUE])
    PROVE  /\ \A a : a # e.target =>
                 ActiveFor(a)' = ActiveFor(a) /\ SlashedFor(a)' = SlashedFor(a)
           /\ Cardinality(ActiveFor(e.target)') = Cardinality(ActiveFor(e.target)) - 1
           /\ Cardinality(SlashedFor(e.target)') = Cardinality(SlashedFor(e.target)) + 1
           /\ \A k : k # e.contribution => ActiveOf(k)' = ActiveOf(k)
           /\ Cardinality(ActiveOf(e.contribution)') = Cardinality(ActiveOf(e.contribution)) - 1
           /\ Cardinality(ActiveFor(e.target)) >= 1
<1>1. /\ ActiveFor(e.target)' = ActiveFor(e.target) \ {id}
      /\ id \in ActiveFor(e.target)
      /\ SlashedFor(e.target)' = SlashedFor(e.target) \cup {id}
      /\ id \notin SlashedFor(e.target)
      /\ ActiveOf(e.contribution)' = ActiveOf(e.contribution) \ {id}
      /\ id \in ActiveOf(e.contribution)
  BY DEF ActiveFor, SlashedFor, ActiveOf, Put
<1>2. /\ \A a : a # e.target =>
             ActiveFor(a)' = ActiveFor(a) /\ SlashedFor(a)' = SlashedFor(a)
      /\ \A k : k # e.contribution => ActiveOf(k)' = ActiveOf(k)
  BY DEF ActiveFor, SlashedFor, ActiveOf, Put
<1> DEFINE A == ActiveFor(e.target)
           S == SlashedFor(e.target)
           O == ActiveOf(e.contribution)
<1>3. /\ IsFiniteSet(A) /\ IsFiniteSet(S) /\ IsFiniteSet(O)
      /\ Cardinality(A) \in Nat
  BY CountedFinite
<1> HIDE DEF A, S, O
<1>4. /\ Cardinality(A \ {id}) = IF id \in A THEN Cardinality(A) - 1 ELSE Cardinality(A)
      /\ Cardinality(O \ {id}) = IF id \in O THEN Cardinality(O) - 1 ELSE Cardinality(O)
  BY <1>3, FS_RemoveElement
<1>5. Cardinality(S \cup {id}) = IF id \in S THEN Cardinality(S) ELSE Cardinality(S) + 1
  BY <1>3, FS_AddElement
<1>6. id \in A => Cardinality(A) # 0
  BY <1>3, FS_EmptySet
<1>7. Cardinality(A) >= 1
  BY <1>1, <1>3, <1>6 DEF A
<1> QED BY <1>1, <1>2, <1>4, <1>5, <1>7 DEF A, S, O

\* A point gained by the target of the endorsement just counted.
LEMMA PointGained ==
    ASSUME TypeOK, References, Counters, NEW t, NEW D, NEW E,
           D = Cardinality(Doubled), E = Cardinality(Doubled'),
           D \in Nat, E \in Nat,
           \A a :
              /\ Cardinality(ActiveFor(a)') \in Nat
              /\ Cardinality(SlashedFor(a)') \in Nat
              /\ Cardinality(SlashedFor(a)') + E >= Cardinality(SlashedFor(a)) + D
              /\ a = t =>
                    /\ Cardinality(ActiveFor(a)') <= Cardinality(ActiveFor(a)) + 1
                    /\ Cardinality(ActiveFor(a)') + E >= Cardinality(ActiveFor(a)) + D + 1
              /\ a # t =>
                    /\ Cardinality(ActiveFor(a)') <= Cardinality(ActiveFor(a))
                    /\ Cardinality(ActiveFor(a)') + E >= Cardinality(ActiveFor(a)) + D,
           DOMAIN profile' = DOMAIN profile, t \in DOMAIN profile,
           profile'[t].reputation = profile[t].reputation + 1,
           \A a \in DOMAIN profile : a # t => profile'[a] = profile[a]
    PROVE  ReputationBounds'
<1> SUFFICES ASSUME NEW a \in DOMAIN profile
             PROVE  /\ profile'[a].reputation <= Cardinality(ActiveFor(a)') + E
                    /\ profile'[a].reputation + Cardinality(SlashedFor(a)') + E
                           >= Cardinality(ActiveFor(a)')
  BY DEF ReputationBounds
<1>1. profile[a].reputation \in Nat
  BY DEF TypeOK, Profile
<1>2. /\ profile[a].reputation <= Cardinality(ActiveFor(a)) + D
      /\ profile[a].reputation + Cardinality(SlashedFor(a)) + D >= Cardinality(ActiveFor(a))
  BY DEF Counters, ReputationBounds
<1>3. Cardinality(ActiveFor(a)) \in Nat /\ Cardinality(SlashedFor(a)) \in Nat
  BY CountedFinite
<1> QED BY <1>1, <1>2, <1>3

\* Every transaction keeps the counters within what they count.
LEMMA NextCounters ==
    TypeOK /\ References /\ Counters /\ [Next]_vars => Counters'
<1> SUFFICES ASSUME TypeOK, References, Counters, [Next]_vars PROVE Counters'
    OBVIOUS
<1>1. ASSUME NEW s \in Address, NEW u \in Username, CreateProfile(s, u)
      PROVE  Counters'
  <2>1. UNCHANGED <<endorsement, contribution, pairKey, contributionEndorsementKey>>
    BY <1>1 DEF CreateProfile
  <2>2. /\ UNCHANGED Doubled
        /\ \A a : UNCHANGED <<ActiveOf(a), ActiveFor(a), SlashedFor(a)>>
    BY <2>1 DEF ActiveOf, ActiveFor, SlashedFor, Doubled, UserIds, ContributionIds
  <2>3. ActiveFor(s) = {}
    BY <1>1 DEF ActiveFor, References, EndorsementsRefer, CreateProfile, HasProfile
  <2>4. CountIsActiveEndorsements'
    BY <2>1, <2>2 DEF Counters, CountIsActiveEndorsements
  <2>5. /\ DOMAIN profile' = DOMAIN profile \cup {s} /\ s \notin DOMAIN profile
        /\ profile'[s].reputation = 0
        /\ \A a \in DOMAIN profile : profile'[a] = profile[a]
    BY <1>1 DEF CreateProfile, HasProfile, Put
  <2>6. ReputationBounds'
    BY <2>2, <2>3, <2>5, CountedFinite, FS_EmptySet DEF Counters, ReputationBounds
  <2> QED BY <2>4, <2>6 DEF Counters
<1>2. ASSUME NEW s \in Address, UpdateProfile(s)
      PROVE  Counters'
  <2>1. UNCHANGED <<endorsement, contribution, pairKey, contributionEndorsementKey>>
    BY <1>2 DEF UpdateProfile
  <2>2. /\ UNCHANGED Doubled
        /\ \A a : UNCHANGED <<ActiveOf(a), ActiveFor(a), SlashedFor(a)>>
    BY <2>1 DEF ActiveOf, ActiveFor, SlashedFor, Doubled, UserIds, ContributionIds
  <2>3. /\ DOMAIN profile' = DOMAIN profile
        /\ \A a \in DOMAIN profile : profile'[a].reputation = profile[a].reputation
    BY <1>2 DEF UpdateProfile, UpdatedProfile, HasProfile, Put
  <2> QED BY <2>1, <2>2, <2>3 DEF Counters, CountIsActiveEndorsements, ReputationBounds
<1>3. ASSUME NEW s \in Address, NEW c \in CircleId, CreateCircle(s, c)
      PROVE  Counters'
  BY <1>3, CountersFrame DEF CreateCircle
<1>4. ASSUME NEW s \in Address, NEW c \in CircleId, JoinCircle(s, c)
      PROVE  Counters'
  BY <1>4, CountersFrame DEF JoinCircle
<1>5. ASSUME NEW s \in Address, NEW c \in CircleId, LeaveCircle(s, c)
      PROVE  Counters'
  BY <1>5, CountersFrame DEF LeaveCircle
<1>6. ASSUME NEW s \in Address, NEW c \in CircleId, NEW k \in ContributionId,
             CreateContribution(s, c, k)
      PROVE  Counters'
  <2>1. UNCHANGED <<endorsement, profile, pairKey, contributionEndorsementKey>>
    BY <1>6 DEF CreateContribution
  <2>2. /\ UNCHANGED Doubled
        /\ \A a : UNCHANGED <<ActiveOf(a), ActiveFor(a), SlashedFor(a)>>
    BY <2>1 DEF ActiveOf, ActiveFor, SlashedFor, Doubled, UserIds, ContributionIds
  <2>3. ActiveOf(k) = {}
    BY <1>6, NoContributionAssumption
    DEF ActiveOf, References, EndorsementsRefer, CreateContribution
  <2>4. CountIsActiveEndorsements'
    <3>1. /\ DOMAIN contribution' = DOMAIN contribution \cup {k} /\ k \notin DOMAIN contribution
          /\ contribution'[k].endorsementCount = 0
          /\ \A x \in DOMAIN contribution : contribution'[x] = contribution[x]
      BY <1>6 DEF CreateContribution, Put
    <3> QED BY <2>2, <2>3, <3>1, CountedFinite, FS_EmptySet
            DEF Counters, CountIsActiveEndorsements
  <2>5. ReputationBounds'
    BY <2>1, <2>2 DEF Counters, ReputationBounds
  <2> QED BY <2>4, <2>5 DEF Counters
<1>7. ASSUME NEW s \in Address, NEW t \in Address, NEW c \in CircleId, EndorseUser(s, t, c)
      PROVE  Counters'
  <2>1. PICK id : id = makeEndorsementId(c, s, t)
    OBVIOUS
  <2>2. PICK e : e = [circle |-> c, from |-> s, target |-> t,
                      contribution |-> NoContribution, slashed |-> FALSE]
    OBVIOUS
  <2>3. e \in Endorsement /\ ~e.slashed /\ e.target = t /\ e.contribution = NoContribution
    BY <2>2 DEF Endorsement
  <2>4. endorsement' = Put(endorsement, id, e)
    BY <1>7, <2>1, <2>2 DEF EndorseUser
  <2>5. /\ id \notin Doubled
        /\ id \notin DOMAIN endorsement => Doubled' = Doubled
        /\ id \in DOMAIN endorsement => Doubled' = Doubled \cup {id}
    BY <1>7, <2>1, UserIdsGrow, DoubledGrows
  <2>6. PICK D, E : D = Cardinality(Doubled) /\ E = Cardinality(Doubled')
    OBVIOUS
  <2>7. /\ D \in Nat /\ E \in Nat /\ E >= D
        /\ \A a :
              /\ Cardinality(ActiveFor(a)') \in Nat
              /\ Cardinality(SlashedFor(a)') \in Nat
              /\ Cardinality(SlashedFor(a)') + E >= Cardinality(SlashedFor(a)) + D
              /\ a = t =>
                    /\ Cardinality(ActiveFor(a)') <= Cardinality(ActiveFor(a)) + 1
                    /\ Cardinality(ActiveFor(a)') + E >= Cardinality(ActiveFor(a)) + D + 1
              /\ a # t =>
                    /\ Cardinality(ActiveFor(a)') <= Cardinality(ActiveFor(a))
                    /\ Cardinality(ActiveFor(a)') + E >= Cardinality(ActiveFor(a)) + D
        /\ \A k :
              /\ Cardinality(ActiveOf(k)') \in Nat
              /\ k # NoContribution =>
                    /\ Cardinality(ActiveOf(k)') <= Cardinality(ActiveOf(k))
                    /\ Cardinality(ActiveOf(k)') + E >= Cardinality(ActiveOf(k)) + D
    BY <2>3, <2>4, <2>5, <2>6, EndorsementCounts
  <2>8. CountIsActiveEndorsements'
    <3> SUFFICES ASSUME NEW k \in DOMAIN contribution
                 PROVE  /\ contribution[k].endorsementCount >= Cardinality(ActiveOf(k)')
                        /\ contribution[k].endorsementCount <= Cardinality(ActiveOf(k)') + E
      BY <1>7, <2>6 DEF CountIsActiveEndorsements, EndorseUser
    <3>1. k # NoContribution /\ contribution[k].endorsementCount \in Nat
      BY NoContributionAssumption DEF TypeOK, Contribution
    <3>2. /\ contribution[k].endorsementCount >= Cardinality(ActiveOf(k))
          /\ contribution[k].endorsementCount <= Cardinality(ActiveOf(k)) + D
      BY <2>6 DEF Counters, CountIsActiveEndorsements
    <3>3. Cardinality(ActiveOf(k)) \in Nat
      BY CountedFinite
    <3> QED BY <2>7, <3>1, <3>2, <3>3
  <2>9. /\ DOMAIN profile' = DOMAIN profile /\ t \in DOMAIN profile
        /\ profile'[t].reputation = profile[t].reputation + 1
        /\ \A a \in DOMAIN profile : a # t => profile'[a] = profile[a]
    BY <1>7 DEF EndorseUser, WithReputation, HasProfile, Put
  <2>10. ReputationBounds'
    BY <2>6, <2>7, <2>9, PointGained
  <2> QED BY <2>8, <2>10 DEF Counters
<1>8. ASSUME NEW s \in Address, NEW k \in ContributionId, EndorseContribution(s, k)
      PROVE  Counters'
  <2>1. PICK id : id = makeContributionEndorsementId(k, s)
    OBVIOUS
  <2>2. PICK t : t = contribution[k].author
    OBVIOUS
  <2>3. PICK e : e = [circle |-> contribution[k].circle, from |-> s, target |-> t,
                      contribution |-> k, slashed |-> FALSE]
    OBVIOUS
  <2>4. e \in Endorsement /\ ~e.slashed /\ e.target = t /\ e.contribution = k
    BY <1>8, <2>2, <2>3 DEF Endorsement, EndorseContribution, TypeOK, Contribution
  <2>5. endorsement' = Put(endorsement, id, e)
    BY <1>8, <2>1, <2>2, <2>3 DEF EndorseContribution
  <2>6. /\ id \notin Doubled
        /\ id \notin DOMAIN endorsement => Doubled' = Doubled
        /\ id \in DOMAIN endorsement => Doubled' = Doubled \cup {id}
    BY <1>8, <2>1, ContributionIdsGrow, DoubledGrows
  <2>7. PICK D, E : D = Cardinality(Doubled) /\ E = Cardinality(Doubled')
    OBVIOUS
  <2>8. /\ D \in Nat /\ E \in Nat /\ E >= D
        /\ \A a :
              /\ Cardinality(ActiveFor(a)') \in Nat
              /\ Cardinality(SlashedFor(a)') \in Nat
              /\ Cardinality(SlashedFor(a)') + E >= Cardinality(SlashedFor(a)) + D
              /\ a = t =>
                    /\ Cardinality(ActiveFor(a)') <= Cardinality(ActiveFor(a)) + 1
                    /\ Cardinality(ActiveFor(a)') + E >= Cardinality(ActiveFor(a)) + D + 1
              /\ a # t =>
                    /\ Cardinality(ActiveFor(a)') <= Cardinality(ActiveFor(a))
                    /\ Cardinality(ActiveFor(a)') + E >= Cardinality(ActiveFor(a)) + D
        /\ \A x :
              /\ Cardinality(ActiveOf(x)') \in Nat
              /\ x = k =>
                    /\ Cardinality(ActiveOf(x)') <= Cardinality(ActiveOf(x)) + 1
                    /\ Cardinality(ActiveOf(x)') + E >= Cardinality(ActiveOf(x)) + D + 1
              /\ x # k =>
                    /\ Cardinality(ActiveOf(x)') <= Cardinality(ActiveOf(x))
                    /\ Cardinality(ActiveOf(x)') + E >= Cardinality(ActiveOf(x)) + D
    BY <2>4, <2>5, <2>6, <2>7, EndorsementCounts
  <2>9. /\ DOMAIN contribution' = DOMAIN contribution /\ k \in DOMAIN contribution
        /\ contribution'[k].endorsementCount = contribution[k].endorsementCount + 1
        /\ \A x \in DOMAIN contribution : x # k => contribution'[x] = contribution[x]
    BY <1>8 DEF EndorseContribution, Put
  <2>10. CountIsActiveEndorsements'
    <3> SUFFICES ASSUME NEW x \in DOMAIN contribution
                 PROVE  /\ contribution'[x].endorsementCount >= Cardinality(ActiveOf(x)')
                        /\ contribution'[x].endorsementCount <= Cardinality(ActiveOf(x)') + E
      BY <2>7, <2>9 DEF CountIsActiveEndorsements
    <3>1. contribution[x].endorsementCount \in Nat
      BY DEF TypeOK, Contribution
    <3>2. /\ contribution[x].endorsementCount >= Cardinality(ActiveOf(x))
          /\ contribution[x].endorsementCount <= Cardinality(ActiveOf(x)) + D
      BY <2>7 DEF Counters, CountIsActiveEndorsements
    <3>3. Cardinality(ActiveOf(x)) \in Nat
      BY CountedFinite
    <3> QED BY <2>8, <2>9, <3>1, <3>2, <3>3
  <2>11. /\ DOMAIN profile' = DOMAIN profile /\ t \in DOMAIN profile
         /\ profile'[t].reputation = profile[t].reputation + 1
         /\ \A x \in DOMAIN profile : x # t => profile'[x] = profile[x]
    BY <1>8, <2>2 DEF EndorseContribution, WithReputation, HasProfile, Put
  <2>12. ReputationBounds'
    BY <2>7, <2>8, <2>11, PointGained
  <2> QED BY <2>10, <2>12 DEF Counters
<1>9. ASSUME NEW s \in Address, NEW id \in EndorsementId, SlashEndorsement(s, id)
      PROVE  Counters'
  <2>1. PICK e : e = endorsement[id]
    OBVIOUS
  <2>2. /\ id \in DOMAIN endorsement /\ ~endorsement[id].slashed
        /\ endorsement' = Put(endorsement, id,
               [circle |-> e.circle, from |-> e.from, target |-> e.target,
                contribution |-> e.contribution, slashed |-> TRUE])
    BY <1>9, <2>1 DEF SlashEndorsement
  <2>3. PICK t, k : t = e.target /\ k = e.contribution
    OBVIOUS
  <2>4. /\ \A a : a # t => UNCHANGED <<ActiveFor(a), SlashedFor(a)>>
        /\ Cardinality(ActiveFor(t)') = Cardinality(ActiveFor(t)) - 1
        /\ Cardinality(SlashedFor(t)') = Cardinality(SlashedFor(t)) + 1
        /\ \A x : x # k => ActiveOf(x)' = ActiveOf(x)
        /\ Cardinality(ActiveOf(k)') = Cardinality(ActiveOf(k)) - 1
        /\ Cardinality(ActiveFor(t)) >= 1
    BY <2>1, <2>2, <2>3, SlashCounts
  <2> DEFINE D == Cardinality(Doubled)
  <2>5. D \in Nat /\ UNCHANGED Doubled
    BY <1>9, CountedFinite DEF Doubled, UserIds, ContributionIds, SlashEndorsement
  <2> HIDE DEF D
  <2>6. \A a \in DOMAIN profile :
            /\ profile[a].reputation <= Cardinality(ActiveFor(a)) + D
            /\ profile[a].reputation + Cardinality(SlashedFor(a)) + D >= Cardinality(ActiveFor(a))
    BY DEF Counters, ReputationBounds, D
  <2>7. \A x \in DOMAIN contribution :
            /\ contribution[x].endorsementCount \in Nat
            /\ contribution[x].endorsementCount >= Cardinality(ActiveOf(x))
            /\ contribution[x].endorsementCount <= Cardinality(ActiveOf(x)) + D
    BY DEF Counters, CountIsActiveEndorsements, D, TypeOK, Contribution
  <2>8. CountIsActiveEndorsements'
    <3>1. CASE k \in DOMAIN contribution
      <4>1. /\ DOMAIN contribution' = DOMAIN contribution
            /\ contribution'[k].endorsementCount
                   = countAfterSlash(contribution[k].endorsementCount)
            /\ \A x \in DOMAIN contribution : x # k => contribution'[x] = contribution[x]
        BY <1>9, <2>1, <2>3, <3>1 DEF SlashEndorsement, Put
      <4>2. Cardinality(ActiveOf(k)) # 0
        <5>1. id \in ActiveOf(k)
          BY <2>1, <2>2, <2>3 DEF ActiveOf
        <5> QED BY <5>1, CountedFinite, FS_EmptySet
      <4> SUFFICES ASSUME NEW x \in DOMAIN contribution
                   PROVE  /\ contribution'[x].endorsementCount >= Cardinality(ActiveOf(x)')
                          /\ contribution'[x].endorsementCount <= Cardinality(ActiveOf(x)') + D
        BY <2>5, <4>1 DEF CountIsActiveEndorsements, D
      <4>3. Cardinality(ActiveOf(x)) \in Nat
        BY CountedFinite
      <4> QED BY <2>4, <2>5, <2>7, <3>1, <4>1, <4>2, <4>3 DEF countAfterSlash
    <3>2. CASE k \notin DOMAIN contribution
      <4>1. contribution' = contribution
        BY <1>9, <2>1, <2>3, <3>2 DEF SlashEndorsement
      <4> QED BY <2>4, <2>5, <2>7, <3>2, <4>1 DEF CountIsActiveEndorsements, D
    <3> QED BY <3>1, <3>2
  <2>9. /\ DOMAIN profile' = DOMAIN profile /\ t \in DOMAIN profile
        /\ profile'[t].reputation = slashedReputation(profile[t].reputation)
        /\ \A a \in DOMAIN profile : a # t => profile'[a] = profile[a]
    BY <1>9, <2>1, <2>3 DEF SlashEndorsement, WithReputation, HasProfile, Put
  <2>10. profile[t].reputation \in Nat
    BY <2>9 DEF TypeOK, Profile
  <2>11. ReputationBounds'
    <3> SUFFICES ASSUME NEW a \in DOMAIN profile
                 PROVE  /\ profile'[a].reputation <= Cardinality(ActiveFor(a)') + D
                        /\ profile'[a].reputation + Cardinality(SlashedFor(a)') + D
                               >= Cardinality(ActiveFor(a)')
      BY <2>9, <2>5 DEF ReputationBounds, D
    <3>1. Cardinality(ActiveFor(a)) \in Nat /\ Cardinality(SlashedFor(a)) \in Nat
      BY CountedFinite
    <3>2. CASE a = t
      BY <2>4, <2>9, <2>10, <2>5, <2>6, <3>1, <3>2 DEF slashedReputation
    <3>3. CASE a # t
      BY <2>4, <2>9, <2>5, <2>6, <3>1, <3>3
    <3> QED BY <3>2, <3>3
  <2> QED BY <2>8, <2>11 DEF Counters
<1>10. ASSUME NEW s \in Address, NEW c \in CircleId, ClaimRole(s, c)
       PROVE  Counters'
  BY <1>10, CountersFrame DEF ClaimRole
<1>11. CASE UNCHANGED vars
  BY <1>11, CountersFrame DEF vars
<1> QED
  BY <1>1, <1>2, <1>3, <1>4, <1>5, <1>6, <1>7, <1>8, <1>9, <1>10, <1>11
  DEF Next, DeliverTx

\* The endorsement count of a contribution is always the number of its
\* endorsements that stand, up to the identifiers given twice.
THEOREM CountsAlwaysRight == Spec => []CountIsActiveEndorsements
<1>1. Counters => CountIsActiveEndorsements
  BY DEF Counters
<1> QED BY <1>1, InitCounters, NextCounters, InitReferences, NextReferences,
           InitMembership, NextMembership, InitType, NextType, PTL DEF Spec

\* Reputation always lies between the standing endorsements less the slashed
\* ones and the standing endorsements, up to the identifiers given twice.
THEOREM ReputationAlwaysBounded == Spec => []ReputationBounds
<1>1. Counters => ReputationBounds
  BY DEF Counters
<1> QED BY <1>1, InitCounters, NextCounters, InitReferences, NextReferences,
           InitMembership, NextMembership, InitType, NextType, PTL DEF Spec

-----------------------------------------------------------------------------
(* Names *)

\* No name is taken initially.
LEMMA InitNames == Init => UsernamesUnique
BY DEF Init, NoKeys, UsernamesUnique

\* Transactions that keep every profile with its name, and the name keys.
LEMMA NamesFrame ==
    ASSUME UsernamesUnique, UNCHANGED usernameKey, DOMAIN profile' = DOMAIN profile,
           \A a \in DOMAIN profile : profile'[a].username = profile[a].username
    PROVE  UsernamesUnique'
BY DEF UsernamesUnique, HasProfile

\* Moving the reputation of a profile leaves every name as it is.
LEMMA ReputationKeepsNames ==
    ASSUME UsernamesUnique, UNCHANGED usernameKey, NEW a, HasProfile(a), NEW r,
           profile' = WithReputation(a, r)
    PROVE  UsernamesUnique'
<1>1. /\ DOMAIN profile' = DOMAIN profile
      /\ \A x \in DOMAIN profile : profile'[x].username = profile[x].username
  BY DEF WithReputation, HasProfile, Put
<1> QED BY <1>1, NamesFrame

\* Every transaction keeps the names unique.
LEMMA NextNames == TypeOK /\ UsernamesUnique /\ [Next]_vars => UsernamesUnique'
<1> SUFFICES ASSUME TypeOK, UsernamesUnique, [Next]_vars PROVE UsernamesUnique'
    OBVIOUS
<1>1. ASSUME NEW s \in Address, NEW u \in Username, CreateProfile(s, u)
      PROVE  UsernamesUnique'
  <2> DEFINE key == toLowerCase[u]
  <2>1. /\ s \notin DOMAIN profile /\ key \notin DOMAIN usernameKey
        /\ DOMAIN profile' = DOMAIN profile \cup {s}
        /\ profile'[s].username = u
        /\ \A a \in DOMAIN profile : profile'[a] = profile[a]
        /\ DOMAIN usernameKey' = DOMAIN usernameKey \cup {key}
        /\ usernameKey'[key] = s
        /\ \A n \in DOMAIN usernameKey : usernameKey'[n] = usernameKey[n]
    BY <1>1 DEF CreateProfile, KeyForUsername, HasProfile, Put
  <2>2. ASSUME NEW n \in DOMAIN usernameKey'
        PROVE  /\ usernameKey'[n] \in DOMAIN profile'
               /\ toLowerCase[profile'[usernameKey'[n]].username] = n
    BY <2>1 DEF UsernamesUnique, HasProfile
  <2>3. ASSUME NEW a \in DOMAIN profile'
        PROVE  /\ toLowerCase[profile'[a].username] \in DOMAIN usernameKey'
               /\ usernameKey'[toLowerCase[profile'[a].username]] = a
    BY <2>1 DEF UsernamesUnique, HasProfile
  <2> QED BY <2>2, <2>3 DEF UsernamesUnique, HasProfile
<1>2. ASSUME NEW s \in Address, UpdateProfile(s)
      PROVE  UsernamesUnique'
  <2>1. /\ UNCHANGED usernameKey /\ DOMAIN profile' = DOMAIN profile
        /\ \A a \in DOMAIN profile : profile'[a].username = profile[a].username
    BY <1>2 DEF UpdateProfile, UpdatedProfile, HasProfile, Put
  <2> QED BY <2>1, NamesFrame
<1>3. ASSUME NEW s \in Address, NEW t \in Address, NEW c \in CircleId, EndorseUser(s, t, c)
      PROVE  UsernamesUnique'
  BY <1>3, ReputationKeepsNames DEF EndorseUser
<1>4. ASSUME NEW s \in Address, NEW k \in ContributionId, EndorseContribution(s, k)
      PROVE  UsernamesUnique'
  BY <1>4, ReputationKeepsNames DEF EndorseContribution
<1>5. ASSUME NEW s \in Address, NEW id \in EndorsementId, SlashEndorsement(s, id)
      PROVE  UsernamesUnique'
  BY <1>5, ReputationKeepsNames DEF SlashEndorsement
<1>6. CASE UNCHANGED <<profile, usernameKey>>
  BY <1>6, NamesFrame
<1> QED
  BY <1>1, <1>2, <1>3, <1>4, <1>5, <1>6
  DEF Next, DeliverTx, vars, CreateCircle, JoinCircle, LeaveCircle,
      CreateContribution, ClaimRole

\* No two profiles ever hold names that differ in letter case only, and every
\* taken name leads to the profile that holds it.
THEOREM UsernamesAlwaysUnique == Spec => []UsernamesUnique
BY InitNames, NextNames, InitType, NextType, PTL DEF Spec

-----------------------------------------------------------------------------
(* List indexes *)

\* No index entry and nothing to list exists initially.
LEMMA InitIndexes == Init => IndexesAgree
BY DEF Init, NoKeys, IndexesAgree, Listed

\* Transactions that change no key the indexes are about.
LEMMA IndexesFrame ==
    ASSUME IndexesAgree, UNCHANGED <<index, pairKey, contributionEndorsementKey>>,
           DOMAIN contribution' = DOMAIN contribution,
           \A k \in DOMAIN contribution : /\ contribution'[k].circle = contribution[k].circle
                                          /\ contribution'[k].author = contribution[k].author,
           DOMAIN endorsement' = DOMAIN endorsement,
           \A e \in DOMAIN endorsement :
               /\ endorsement'[e].circle = endorsement[e].circle
               /\ endorsement'[e].target = endorsement[e].target
               /\ endorsement'[e].contribution = endorsement[e].contribution
    PROVE  IndexesAgree'
<1>1. Listed' = Listed
  BY DEF Listed
<1>2. Doubled' = Doubled
  BY DEF Doubled, UserIds, ContributionIds
<1> QED BY <1>1, <1>2 DEF IndexesAgree

\* the flags an endorsing handler sets for the endorsement e it stores
Flags(id, e) ==
    {<<"circleEndorsement", e.circle, id>>, <<"userEndorsement", e.target, id>>}
        \cup {<<"contributionEndorsement", k, id>> : k \in {e.contribution} \ {NoContribution}}

\* An endorsement stored with its flags keeps the indexes: what it is written
\* over leaves its flags behind, under an identifier that is doubled now.
LEMMA EndorsementListed ==
    ASSUME IndexesAgree, NEW id, NEW e, endorsement' = Put(endorsement, id, e),
           index' = index \cup Flags(id, e), Doubled \subseteq Doubled',
           id \in DOMAIN endorsement => id \in Doubled',
           DOMAIN contribution' = DOMAIN contribution,
           \A k \in DOMAIN contribution : /\ contribution'[k].circle = contribution[k].circle
                                          /\ contribution'[k].author = contribution[k].author
    PROVE  IndexesAgree'
<1>1. /\ DOMAIN endorsement' = DOMAIN endorsement \cup {id}
      /\ endorsement'[id] = e
      /\ \A x \in DOMAIN endorsement : x # id => endorsement'[x] = endorsement[x]
  BY DEF Put
<1>2. ASSUME NEW i \in Listed' PROVE i \in index'
  <2>1. CASE \E x \in DOMAIN contribution' :
                \/ i = <<"circleContribution", contribution'[x].circle, x>>
                \/ i = <<"userContribution", contribution'[x].author, x>>
    <3>1. i \in Listed
      BY <2>1 DEF Listed
    <3> QED BY <3>1 DEF IndexesAgree
  <2>2. ASSUME NEW x \in DOMAIN endorsement',
               \/ i = <<"circleEndorsement", endorsement'[x].circle, x>>
               \/ i = <<"userEndorsement", endorsement'[x].target, x>>
               \/ /\ endorsement'[x].contribution # NoContribution
                  /\ i = <<"contributionEndorsement", endorsement'[x].contribution, x>>
        PROVE  i \in index'
    <3>1. CASE x = id
      BY <1>1, <2>2, <3>1 DEF Flags
    <3>2. CASE x # id
      <4>1. i \in Listed
        BY <1>1, <2>2, <3>2 DEF Listed
      <4> QED BY <4>1 DEF IndexesAgree
    <3> QED BY <3>1, <3>2
  <2> QED BY <1>2, <2>1, <2>2 DEF Listed
<1>3. ASSUME NEW i \in index', i[3] \notin Doubled' PROVE i \in Listed'
  <2>1. CASE i \in Flags(id, e)
    <3>1. id \in DOMAIN endorsement'
      BY <1>1
    <3> QED BY <1>1, <2>1, <3>1 DEF Flags, Listed
  <2>2. CASE i \in Listed
    <3>1. CASE \E x \in DOMAIN contribution :
                  \/ i = <<"circleContribution", contribution[x].circle, x>>
                  \/ i = <<"userContribution", contribution[x].author, x>>
      BY <3>1 DEF Listed
    <3>2. ASSUME NEW x \in DOMAIN endorsement,
                 \/ i = <<"circleEndorsement", endorsement[x].circle, x>>
                 \/ i = <<"userEndorsement", endorsement[x].target, x>>
                 \/ /\ endorsement[x].contribution # NoContribution
                    /\ i = <<"contributionEndorsement", endorsement[x].contribution, x>>
          PROVE  i \in Listed'
      <4>1. i[3] = x
        BY <3>2
      <4>2. x # id
        BY <1>3, <4>1
      <4> QED BY <1>1, <3>2, <4>2 DEF Listed
    <3> QED BY <2>2, <3>1, <3>2 DEF Listed
  <2> QED BY <1>3, <2>1, <2>2 DEF IndexesAgree
<1> QED BY <1>2, <1>3 DEF IndexesAgree

\* Every transaction lists what it adds, and nothing else.
LEMMA NextIndexes ==
    TypeOK /\ References /\ IndexesAgree /\ [Next]_vars => IndexesAgree'
<1> SUFFICES ASSUME TypeOK, References, IndexesAgree, [Next]_vars PROVE IndexesAgree'
    OBVIOUS
<1>1. ASSUME NEW s \in Address, NEW c \in CircleId, NEW k \in ContributionId,
             CreateContribution(s, c, k)
      PROVE  IndexesAgree'
  <2>1. /\ DOMAIN contribution' = DOMAIN contribution \cup {k}
        /\ k \notin DOMAIN contribution
        /\ contribution'[k].circle = c /\ contribution'[k].author = s
        /\ \A x \in DOMAIN contribution : contribution'[x] = contribution[x]
        /\ index' = index \cup {<<"circleContribution", c, k>>, <<"userContribution", s, k>>}
        /\ UNCHANGED <<endorsement, pairKey, contributionEndorsementKey>>
    BY <1>1 DEF CreateContribution, ContributionIndexes, Put
  <2>2. Listed' = Listed \cup {<<"circleContribution", c, k>>, <<"userContribution", s, k>>}
    <3>1. {<<"circleContribution", contribution'[x].circle, x>> : x \in DOMAIN contribution'}
              = {<<"circleContribution", contribution[x].circle, x>> : x \in DOMAIN contribution}
                    \cup {<<"circleContribution", c, k>>}
      BY <2>1
    <3>2. {<<"userContribution", contribution'[x].author, x>> : x \in DOMAIN contribution'}
              = {<<"userContribution", contribution[x].author, x>> : x \in DOMAIN contribution}
                    \cup {<<"userContribution", s, k>>}
      BY <2>1
    <3> QED BY <2>1, <3>1, <3>2 DEF Listed
  <2>3. Doubled' = Doubled
    BY <2>1 DEF Doubled, UserIds, ContributionIds
  <2> QED BY <2>1, <2>2, <2>3 DEF IndexesAgree
<1>2. ASSUME NEW s \in Address, NEW t \in Address, NEW c \in CircleId, EndorseUser(s, t, c)
      PROVE  IndexesAgree'
  <2>1. PICK id : id = makeEndorsementId(c, s, t)
    OBVIOUS
  <2>2. PICK e : e = [circle |-> c, from |-> s, target |-> t,
                      contribution |-> NoContribution, slashed |-> FALSE]
    OBVIOUS
  <2>3. Flags(id, e) = {<<"circleEndorsement", c, id>>, <<"userEndorsement", t, id>>}
    BY <2>2 DEF Flags
  <2>4. /\ endorsement' = Put(endorsement, id, e)
        /\ index' = index \cup Flags(id, e) /\ UNCHANGED contribution
    BY <1>2, <2>1, <2>2, <2>3 DEF EndorseUser
  <2>5. /\ UserIds' = UserIds \cup {id} /\ ContributionIds' = ContributionIds
        /\ id \notin UserIds /\ (id \in DOMAIN endorsement <=> id \in ContributionIds)
    BY <1>2, <2>1, UserIdsGrow
  <2>6. Doubled \subseteq Doubled' /\ (id \in DOMAIN endorsement => id \in Doubled')
    BY <2>5, DoubledGrows
  <2> QED BY <2>4, <2>6, EndorsementListed
<1>3. ASSUME NEW s \in Address, NEW k \in ContributionId, EndorseContribution(s, k)
      PROVE  IndexesAgree'
  <2>1. PICK id, t, c : /\ id = makeContributionEndorsementId(k, s)
                        /\ t = contribution[k].author /\ c = contribution[k].circle
    OBVIOUS
  <2>2. PICK e : e = [circle |-> c, from |-> s, target |-> t, contribution |-> k,
                      slashed |-> FALSE]
    OBVIOUS
  <2>3. Flags(id, e) = {<<"circleEndorsement", c, id>>, <<"userEndorsement", t, id>>,
                        <<"contributionEndorsement", k, id>>}
    BY <2>2, NoContributionAssumption DEF Flags
  <2>4. /\ endorsement' = Put(endorsement, id, e) /\ index' = index \cup Flags(id, e)
    BY <1>3, <2>1, <2>2, <2>3 DEF EndorseContribution
  <2>5. /\ DOMAIN contribution' = DOMAIN contribution
        /\ \A x \in DOMAIN contribution : /\ contribution'[x].circle = contribution[x].circle
                                          /\ contribution'[x].author = contribution[x].author
    BY <1>3 DEF EndorseContribution, Put
  <2>6. Doubled \subseteq Doubled' /\ (id \in DOMAIN endorsement => id \in Doubled')
    BY <1>3, <2>1, ContributionIdsGrow, DoubledGrows
  <2> QED BY <2>4, <2>5, <2>6, EndorsementListed
<1>4. ASSUME NEW s \in Address, NEW id \in EndorsementId, SlashEndorsement(s, id)
      PROVE  IndexesAgree'
  <2>1. /\ UNCHANGED <<index, pairKey, contributionEndorsementKey>>
        /\ DOMAIN contribution' = DOMAIN contribution
        /\ \A k \in DOMAIN contribution : /\ contribution'[k].circle = contribution[k].circle
                                          /\ contribution'[k].author = contribution[k].author
    BY <1>4 DEF SlashEndorsement, Put
  <2>2. /\ DOMAIN endorsement' = DOMAIN endorsement
        /\ \A e \in DOMAIN endorsement :
               /\ endorsement'[e].circle = endorsement[e].circle
               /\ endorsement'[e].target = endorsement[e].target
               /\ endorsement'[e].contribution = endorsement[e].contribution
    BY <1>4 DEF SlashEndorsement, Put
  <2> QED BY <2>1, <2>2, IndexesFrame
<1>5. CASE UNCHANGED <<contribution, endorsement, index, pairKey, contributionEndorsementKey>>
  BY <1>5, IndexesFrame
<1> QED
  BY <1>1, <1>2, <1>3, <1>4, <1>5
  DEF Next, DeliverTx, vars, CreateProfile, UpdateProfile, CreateCircle, JoinCircle,
      LeaveCircle, ClaimRole

\* The five list indexes never miss a contribution or an endorsement, and list
\* nothing else but endorsements written over under a doubled identifier.
THEOREM IndexesAlwaysAgree == Spec => []IndexesAgree
BY InitIndexes, NextIndexes, InitReferences, NextReferences, InitMembership,
   NextMembership, InitType, NextType, PTL DEF Spec

-----------------------------------------------------------------------------
(* What no step may do *)

\* An endorsement is written over by no transaction but its own slash and the
\* one other endorsement with its identifier.
LEMMA StepKeepsEndorsements ==
    TypeOK /\ References /\ [Next]_vars =>
        [\A id \in DOMAIN endorsement : EndorsementKept(id) \/ WrittenOver(id)]_vars
<1> SUFFICES ASSUME TypeOK, References, Next, NEW i \in DOMAIN endorsement
             PROVE  EndorsementKept(i) \/ WrittenOver(i)
    BY DEF vars
<1>1. ASSUME NEW s \in Address, NEW t \in Address, NEW c \in CircleId, EndorseUser(s, t, c)
      PROVE  EndorsementKept(i) \/ WrittenOver(i)
  <2>1. PICK id : id = makeEndorsementId(c, s, t)
    OBVIOUS
  <2>2. CASE i = id
    BY <1>1, <2>1, <2>2, UserIdsGrow, DoubledGrows DEF WrittenOver
  <2>3. CASE i # id
    BY <1>1, <2>1, <2>3 DEF EndorseUser, Put, EndorsementKept
  <2> QED BY <2>2, <2>3
<1>2. ASSUME NEW s \in Address, NEW k \in ContributionId, EndorseContribution(s, k)
      PROVE  EndorsementKept(i) \/ WrittenOver(i)
  <2>1. PICK id : id = makeContributionEndorsementId(k, s)
    OBVIOUS
  <2>2. CASE i = id
    BY <1>2, <2>1, <2>2, ContributionIdsGrow, DoubledGrows DEF WrittenOver
  <2>3. CASE i # id
    BY <1>2, <2>1, <2>3 DEF EndorseContribution, Put, EndorsementKept
  <2> QED BY <2>2, <2>3
<1>3. ASSUME NEW s \in Address, NEW id \in EndorsementId, SlashEndorsement(s, id)
      PROVE  EndorsementKept(i)
  BY <1>3 DEF SlashEndorsement, Put, EndorsementKept
<1>4. CASE UNCHANGED endorsement
  BY <1>4 DEF EndorsementKept
<1> QED
  BY <1>1, <1>2, <1>3, <1>4
  DEF Next, DeliverTx, CreateProfile, UpdateProfile, CreateCircle, JoinCircle,
      LeaveCircle, CreateContribution, ClaimRole

\* Endorsements are never forgotten and a slash is final; an endorsement is
\* rewritten at most once, by the other one with its identifier.
THEOREM EndorsementsStayForever == Spec => EndorsementsPermanent
BY StepKeepsEndorsements, InitReferences, NextReferences, InitMembership,
   NextMembership, InitType, NextType, PTL DEF Spec, EndorsementsPermanent

\* Every transaction moves reputation by a new or a slashed endorsement only.
LEMMA StepMovesReputation ==
    TypeOK /\ References /\ [Next]_vars =>
        [\A a \in DOMAIN profile : ReputationStep(a)]_vars
<1> SUFFICES ASSUME TypeOK, References, Next, NEW a \in DOMAIN profile
             PROVE  ReputationStep(a)
    BY DEF vars
<1>1. profile[a].reputation \in Nat
  BY DEF TypeOK, Profile
<1>2. ASSUME NEW s \in Address, NEW u \in Username, CreateProfile(s, u)
      PROVE  ReputationStep(a)
  BY <1>1, <1>2 DEF CreateProfile, HasProfile, Put, ReputationStep
<1>3. ASSUME NEW s \in Address, UpdateProfile(s)
      PROVE  ReputationStep(a)
  BY <1>1, <1>3 DEF UpdateProfile, UpdatedProfile, HasProfile, Put, ReputationStep
<1>4. ASSUME NEW s \in Address, NEW t \in Address, NEW c \in CircleId, EndorseUser(s, t, c)
      PROVE  ReputationStep(a)
  <2>1. <<c, s, t>> \in pairKey' \ pairKey /\ <<c, s, t>>[3] = t
    BY <1>4 DEF EndorseUser, NotEndorsedBefore
  <2>2. NewlyEndorsed(t)
    BY <2>1 DEF NewlyEndorsed
  <2>3. profile' = WithReputation(t, profile[t].reputation + 1)
    BY <1>4 DEF EndorseUser
  <2> QED BY <1>1, <2>2, <2>3 DEF WithReputation, Put, ReputationStep
<1>5. ASSUME NEW s \in Address, NEW k \in ContributionId, EndorseContribution(s, k)
      PROVE  ReputationStep(a)
  <2>1. PICK t : t = contribution[k].author
    OBVIOUS
  <2>2. /\ <<k, s>> \in contributionEndorsementKey' \ contributionEndorsementKey
        /\ <<k, s>>[1] = k
    BY <1>5 DEF EndorseContribution
  <2>3. NewlyEndorsed(t)
    BY <2>1, <2>2 DEF NewlyEndorsed
  <2>4. profile' = WithReputation(t, profile[t].reputation + 1)
    BY <1>5, <2>1 DEF EndorseContribution
  <2> QED BY <1>1, <2>3, <2>4 DEF WithReputation, Put, ReputationStep
<1>6. ASSUME NEW s \in Address, NEW id \in EndorsementId, SlashEndorsement(s, id)
      PROVE  ReputationStep(a)
  <2>1. PICK t : t = endorsement[id].target
    OBVIOUS
  <2>2. NewlySlashed(t)
    BY <1>6, <2>1 DEF SlashEndorsement, Put, NewlySlashed
  <2>3. profile' = WithReputation(t, slashedReputation(profile[t].reputation))
    BY <1>6, <2>1 DEF SlashEndorsement
  <2> QED BY <1>1, <2>2, <2>3 DEF WithReputation, slashedReputation, Put, ReputationStep
<1>7. CASE UNCHANGED profile
  BY <1>1, <1>7 DEF ReputationStep
<1> QED
  BY <1>2, <1>3, <1>4, <1>5, <1>6, <1>7
  DEF Next, DeliverTx, CreateCircle, JoinCircle, LeaveCircle, CreateContribution, ClaimRole

\* Reputation is gained only by being endorsed and lost only by a slash, and
\* no transaction renames a profile.
THEOREM ReputationMovesOnlySo == Spec => ReputationMovesWithEndorsements
BY StepMovesReputation, InitReferences, NextReferences, InitMembership,
   NextMembership, InitType, NextType, PTL DEF Spec, ReputationMovesWithEndorsements
=============================================================================
