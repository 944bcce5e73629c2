--------------------------- MODULE Staking_proofs ---------------------------
(***************************************************************************)
(* For every finite set of addresses and committees and all parameters:    *)
(* the indexes of unstaking and of paused validators lead every block to   *)
(* the records they were made for (IInv), and the supply that the code     *)
(* keeps by adding and subtracting is what it counts (SInv).               *)
(***************************************************************************)
EXTENDS Staking, Sums_proofs

\* t has the fields of a working state
Fields == {"validators", "unstaking", "paused", "account", "pool", "nonSigner",
           "total", "staked", "delegated", "committeeStaked", "committeeDelegated"}

IsState(t) == DOMAIN t = Fields /\ t = [f \in Fields |-> t[f]]

\* r has the fields of a validator's record, and heights in two of them
RecordFields == {"stake", "committees", "delegate", "compound", "paused", "unstaking"}

IsRecord(r) ==
    /\ DOMAIN r = RecordFields /\ r = [f \in RecordFields |-> r[f]]
    /\ r.paused \in Nat /\ r.unstaking \in Nat /\ r.delegate \in BOOLEAN

\* t is well formed where the indexes are concerned
Formed(t) ==
    /\ IsState(t)
    /\ t.validators = [v \in DOMAIN t.validators |-> t.validators[v]]
    /\ DOMAIN t.validators \subseteq Val
    /\ \A v \in DOMAIN t.validators : IsRecord(t.validators[v])
    /\ t.unstaking \subseteq (Nat \ {0}) \X Val
    /\ t.paused \subseteq (Nat \ {0}) \X Val

\* a record that unstakes, or that is paused, is indexed under a height from h on
Released(t, h) ==
    \A v \in DOMAIN t.validators : t.validators[v].unstaking # 0 =>
        /\ <<t.validators[v].unstaking, v>> \in t.unstaking
        /\ t.validators[v].unstaking >= h

ForcedOut(t, h) ==
    \A v \in DOMAIN t.validators : t.validators[v].paused # 0 =>
        /\ <<t.validators[v].paused, v>> \in t.paused
        /\ t.validators[v].paused >= h
        /\ t.validators[v].unstaking = 0
        /\ ~t.validators[v].delegate

Good(t, h) == Formed(t) /\ Released(t, h) /\ ForcedOut(t, h)

\* u differs from t in the balances and trackers only
Alike(t, u) ==
    /\ IsState(u)
    /\ u.validators = t.validators
    /\ u.unstaking = t.unstaking
    /\ u.paused = t.paused

\* and not in the accounts
Unpaid(t, u) == Alike(t, u) /\ u.account = t.account

\* the record of v is in t and no longer in u
Lost(t, u, v) == v \in DOMAIN t.validators /\ v \notin DOMAIN u.validators

\* from t to u only records that are lost leave entries in the indexes
Neat(t, u) ==
    /\ \A k \in StrayUnstaking(u) : k \in StrayUnstaking(t) \/ Lost(t, u, k[2])
    /\ \A k \in StrayPaused(u) : k \in StrayPaused(t) \/ Lost(t, u, k[2])

\* from t to u no record appears, and whoever unstakes keeps the height
Final(t, u) ==
    /\ DOMAIN u.validators \subseteq DOMAIN t.validators
    /\ \A v \in DOMAIN u.validators : t.validators[v].unstaking # 0 =>
          u.validators[v].unstaking = t.validators[v].unstaking
    /\ Neat(t, u)

\* the end of a block: from t to u only a record that is released by an entry of
\* t that is not its own leaves entries in the indexes
Orderly(t, u) ==
    /\ \A k \in StrayUnstaking(u) :
          \/ k \in StrayUnstaking(t)
          \/ Lost(t, u, k[2]) /\ <<height, k[2]>> \in StrayUnstaking(t)
    /\ \A k \in StrayPaused(u) :
          \/ k \in StrayPaused(t)
          \/ Lost(t, u, k[2]) /\ <<height, k[2]>> \in StrayUnstaking(t)

\* and a record that unstakes and is lost is released at its height, or by such
\* an entry
Timely(t, u) ==
    \A v \in DOMAIN t.validators :
        Lost(t, u, v) /\ t.validators[v].unstaking # 0 =>
            \/ t.validators[v].unstaking = height
            \/ <<height, v>> \in StrayUnstaking(t)

\* what Final says of the records that stay, when others may appear
Kept(t, u) ==
    /\ \A v \in DOMAIN t.validators \cap DOMAIN u.validators :
          t.validators[v].unstaking # 0 =>
              u.validators[v].unstaking = t.validators[v].unstaking
    /\ Neat(t, u)

\* Heights that are kept twice are kept: a record that is lost does not return.
LEMMA FinalTwice ==
    ASSUME NEW t, NEW u, NEW w, Final(t, u), Final(u, w)
    PROVE  Final(t, w)
<1>1. Neat(t, w)
  BY DEF Final, Neat, Lost
<1> QED
  BY <1>1 DEF Final

\* What is final is kept.
LEMMA FinalIsKept ==
    ASSUME NEW t, NEW u, Final(t, u)
    PROVE  Kept(t, u)
  BY DEF Final, Kept

\* No step at all.
LEMMA FinalStutters ==
    ASSUME NEW t
    PROVE  Final(t, t)
  BY DEF Final, Neat

-----------------------------------------------------------------------------
\* The trackers of the supply are fields apart from records and indexes.
LEMMA TrackersAreApart ==
    ASSUME NEW t, IsState(t), NEW x, NEW y
    PROVE  /\ Unpaid(t, [t EXCEPT !.staked = x, !.committeeStaked = y])
           /\ Unpaid(t, [t EXCEPT !.delegated = x, !.committeeDelegated = y])
<1>1. Unpaid(t, [t EXCEPT !.staked = x, !.committeeStaked = y])
  BY DEF Unpaid, Alike, IsState, Fields
<1>2. Unpaid(t, [t EXCEPT !.delegated = x, !.committeeDelegated = y])
  BY DEF Unpaid, Alike, IsState, Fields
<1> QED
  BY <1>1, <1>2

\* Re-counting the supply (account.go) touches neither records nor indexes.
LEMMA TallyIsAlike ==
    ASSUME NEW t, IsState(t), NEW old, NEW new
    PROVE  /\ Unpaid(t, UpdateCommittees(t, old, new))
           /\ Unpaid(t, Tally(t, old, new))
<1>1. ASSUME NEW w, IsState(w)
      PROVE  Unpaid(w, UpdateCommittees(w, old, new))
  <2> DEFINE x == w.staked - StakeOf(old) + StakeOf(new)
             y == [c \in Chain |-> w.committeeStaked[c] - StakeIn(old, c)
                                                        + StakeIn(new, c)]
  <2>1. UpdateCommittees(w, old, new) = [w EXCEPT !.staked = x, !.committeeStaked = y]
    BY DEF UpdateCommittees
  <2> HIDE DEF x, y
  <2>2. Unpaid(w, [w EXCEPT !.staked = x, !.committeeStaked = y])
    BY <1>1, TrackersAreApart, Zenon
  <2> QED
    BY ONLY <2>1, <2>2, Zenon
<1>2. ASSUME NEW w, IsState(w)
      PROVE  Unpaid(w, UpdateDelegations(w, old, new))
  <2> DEFINE x == w.delegated - StakeOf(Delegates(old)) + StakeOf(Delegates(new))
             y == [c \in Chain |-> w.committeeDelegated[c]
                      - StakeIn(Delegates(old), c) + StakeIn(Delegates(new), c)]
  <2>1. UpdateDelegations(w, old, new)
           = [w EXCEPT !.delegated = x, !.committeeDelegated = y]
    BY DEF UpdateDelegations
  <2> HIDE DEF x, y
  <2>2. Unpaid(w, [w EXCEPT !.delegated = x, !.committeeDelegated = y])
    BY <1>2, TrackersAreApart, Zenon
  <2> QED
    BY ONLY <2>1, <2>2, Zenon
<1> DEFINE u == UpdateCommittees(t, old, new)
<1>3. Unpaid(t, u) /\ IsState(u)
  BY <1>1 DEF Unpaid, Alike
<1> HIDE DEF u
<1>4. Unpaid(u, UpdateDelegations(u, old, new))
  BY <1>2, <1>3
<1>5. Unpaid(t, UpdateDelegations(u, old, new))
  BY <1>3, <1>4 DEF Unpaid, Alike
<1> QED
  BY <1>3, <1>5 DEF Tally, u

\* States that are alike are equally good.
LEMMA AlikeIsGood ==
    ASSUME NEW t, NEW u, NEW h, Alike(t, u)
    PROVE  /\ Good(t, h) => Good(u, h)
           /\ Final(t, u)
<1>1. Neat(t, u)
  BY DEF Alike, Neat, StrayUnstaking, StrayPaused, Lost, Exists
<1> QED
  BY <1>1 DEF Alike, Good, Formed, Released, ForcedOut, Final

\* Being alike is transitive: several trackers may be updated in a row.
LEMMA AlikeTwice ==
    ASSUME NEW t, NEW u, NEW w, Alike(t, u), Alike(u, w)
    PROVE  Alike(t, w)
  BY DEF Alike

\* Writing the records leaves the indexes.
LEMMA RecordsAreApart ==
    ASSUME NEW t, IsState(t), NEW x, NEW u, u = [t EXCEPT !.validators = x]
    PROVE  /\ IsState(u) /\ u.validators = x
           /\ u.unstaking = t.unstaking /\ u.paused = t.paused
           /\ u.account = t.account
  BY DEF IsState, Fields

\* So does writing the index of the paused leave the records.
LEMMA PausedIsApart ==
    ASSUME NEW t, IsState(t), NEW x, NEW u, u = [t EXCEPT !.paused = x]
    PROVE  /\ IsState(u) /\ u.validators = t.validators
           /\ u.unstaking = t.unstaking /\ u.paused = x
  BY DEF IsState, Fields

-----------------------------------------------------------------------------
\* What SetValidators writes: the records in new, and nothing else.
LEMMA SetRecords ==
    ASSUME NEW t, IsState(t), NEW new
    PROVE  LET u == SetValidators(t, new)
           IN  /\ IsState(u) /\ u.unstaking = t.unstaking /\ u.paused = t.paused
               /\ u.account = t.account
               /\ DOMAIN u.validators = DOMAIN t.validators \cup DOMAIN new
               /\ u.validators = [v \in DOMAIN u.validators |-> u.validators[v]]
               /\ \A v \in DOMAIN new : u.validators[v] = new[v]
               /\ \A v \in DOMAIN t.validators \ DOMAIN new :
                     u.validators[v] = t.validators[v]
<1> DEFINE x == [v \in DOMAIN t.validators \cup DOMAIN new |->
                    IF v \in DOMAIN new THEN new[v] ELSE t.validators[v]]
<1>1. SetValidators(t, new) = [t EXCEPT !.validators = x]
  BY DEF SetValidators
<1>2. /\ DOMAIN x = DOMAIN t.validators \cup DOMAIN new
      /\ x = [v \in DOMAIN x |-> x[v]]
      /\ \A v \in DOMAIN new : x[v] = new[v]
      /\ \A v \in DOMAIN t.validators \ DOMAIN new : x[v] = t.validators[v]
  OBVIOUS
<1> HIDE DEF x
<1> QED
  BY <1>1, <1>2, RecordsAreApart

\* New stakes, committees or reward modes do not concern the indexes.
LEMMA StakesMayChange ==
    ASSUME NEW t, NEW h, Good(t, h), NEW new,
           DOMAIN new \subseteq DOMAIN t.validators,
           \A v \in DOMAIN new :
               /\ IsRecord(new[v])
               /\ new[v].paused = t.validators[v].paused
               /\ new[v].unstaking = t.validators[v].unstaking
               /\ new[v].delegate = t.validators[v].delegate
    PROVE  LET u == SetValidators(t, new)
           IN  /\ Good(u, h) /\ Final(t, u)
               /\ DOMAIN u.validators = DOMAIN t.validators
               /\ u.account = t.account
<1> DEFINE u == SetValidators(t, new)
<1>1. /\ IsState(u) /\ u.unstaking = t.unstaking /\ u.paused = t.paused
      /\ u.account = t.account
      /\ DOMAIN u.validators = DOMAIN t.validators
      /\ u.validators = [v \in DOMAIN u.validators |-> u.validators[v]]
      /\ \A v \in DOMAIN new : u.validators[v] = new[v]
      /\ \A v \in DOMAIN t.validators \ DOMAIN new :
            u.validators[v] = t.validators[v]
  BY SetRecords DEF Good, Formed
<1> HIDE DEF u
<1>2. \A v \in DOMAIN t.validators :
        /\ IsRecord(u.validators[v])
        /\ u.validators[v].paused = t.validators[v].paused
        /\ u.validators[v].unstaking = t.validators[v].unstaking
        /\ u.validators[v].delegate = t.validators[v].delegate
  BY <1>1 DEF Good, Formed
<1>3. Formed(u)
  BY <1>1, <1>2 DEF Good, Formed
<1>4. Released(u, h)
  BY <1>1, <1>2 DEF Good, Released
<1>5. ForcedOut(u, h)
  BY <1>1, <1>2 DEF Good, ForcedOut
<1>6. Neat(t, u)
  BY <1>1, <1>2 DEF Neat, StrayUnstaking, StrayPaused, Lost, Exists
<1>7. Final(t, u)
  BY <1>1, <1>2, <1>6 DEF Final
<1> QED
  BY <1>1, <1>3, <1>4, <1>5, <1>7 DEF Good, u

\* Deleting records leaves the others and both indexes as they were.
LEMMA RecordsMayGo ==
    ASSUME NEW t, NEW h, Good(t, h), NEW D
    PROVE  LET u == DeleteValidators(t, D)
           IN  /\ Good(u, h) /\ Final(t, u)
               /\ DOMAIN u.validators = DOMAIN t.validators \ D
               /\ \A v \in DOMAIN u.validators : u.validators[v] = t.validators[v]
               /\ u.unstaking = t.unstaking /\ u.paused = t.paused
               /\ u.account = t.account
<1> DEFINE w == Tally(t, Restrict(t.validators, D), Nothing)
           u == DeleteValidators(t, D)
           x == Restrict(t.validators, DOMAIN t.validators \ D)
<1>1. Unpaid(t, w)
  BY TallyIsAlike DEF Good, Formed
<1> HIDE DEF w
<1>2. u = [w EXCEPT !.validators = x]
  BY <1>1 DEF DeleteValidators, w, Unpaid, Alike
<1>3. /\ DOMAIN x = DOMAIN t.validators \ D
      /\ x = [v \in DOMAIN x |-> x[v]]
      /\ \A v \in DOMAIN x : x[v] = t.validators[v]
  BY DEF Restrict
<1> HIDE DEF x, u
<1>4. /\ IsState(u) /\ u.validators = x
      /\ u.unstaking = t.unstaking /\ u.paused = t.paused
      /\ u.account = t.account
  BY <1>1, <1>2, RecordsAreApart DEF Unpaid, Alike
<1>5. Formed(u)
  BY <1>3, <1>4 DEF Good, Formed
<1>6. Released(u, h) /\ ForcedOut(u, h)
  BY <1>3, <1>4 DEF Good, Released, ForcedOut
<1>7. Neat(t, u)
  BY <1>3, <1>4 DEF Neat, StrayUnstaking, StrayPaused, Lost, Exists
<1>8. Final(t, u)
  BY <1>3, <1>4, <1>7 DEF Final
<1> QED
  BY <1>3, <1>4, <1>5, <1>6, <1>8 DEF Good, u

\* A stake that changes because of a message or a reward is only re-counted.
LEMMA UpdateIsGood ==
    ASSUME NEW t, NEW h, Good(t, h), NEW new,
           DOMAIN new \subseteq DOMAIN t.validators,
           \A v \in DOMAIN new :
               /\ IsRecord(new[v])
               /\ new[v].paused = t.validators[v].paused
               /\ new[v].unstaking = t.validators[v].unstaking
               /\ new[v].delegate = t.validators[v].delegate
    PROVE  LET u == UpdateValidatorStake(t, new)
           IN  /\ Good(u, h) /\ Final(t, u)
               /\ DOMAIN u.validators = DOMAIN t.validators
<1> DEFINE w == Tally(t, Restrict(t.validators, DOMAIN new), new)
<1>1. Alike(t, w)
  BY TallyIsAlike DEF Good, Formed, Unpaid
<1>2. UpdateValidatorStake(t, new) = SetValidators(w, new)
  BY DEF UpdateValidatorStake
<1> HIDE DEF w
<1>3. Good(w, h) /\ Final(t, w)
  BY <1>1, AlikeIsGood
<1>4. w.validators = t.validators
  BY <1>1 DEF Alike
<1>5. LET u == SetValidators(w, new)
      IN  /\ Good(u, h) /\ Final(w, u)
          /\ DOMAIN u.validators = DOMAIN w.validators
  BY <1>3, <1>4, StakesMayChange
<1> QED
  BY <1>2, <1>3, <1>4, <1>5, FinalTwice

-----------------------------------------------------------------------------
\* SetValidatorUnstaking (validator.go) moves each of the addresses from the
\* index of the paused to the one of the unstaking, under the height it writes.
LEMMA UnstakingIsGood ==
    ASSUME NEW t, NEW h \in Nat, Good(t, h), NEW at,
           DOMAIN at \subseteq DOMAIN t.validators,
           \A v \in DOMAIN at : /\ at[v] \in Nat \ {0} /\ at[v] >= h
                                /\ t.validators[v].unstaking = 0
    PROVE  LET u == SetValidatorUnstaking(t, at)
           IN  /\ Good(u, h) /\ Final(t, u) /\ u.account = t.account
               /\ DOMAIN u.validators = DOMAIN t.validators
               /\ u.unstaking = t.unstaking \cup {<<at[v], v>> : v \in DOMAIN at}
               /\ u.paused \subseteq t.paused
               /\ \A v \in DOMAIN at : /\ u.validators[v].paused = 0
                                       /\ u.validators[v].unstaking = at[v]
               /\ \A v \in DOMAIN t.validators \ DOMAIN at :
                     u.validators[v] = t.validators[v]
<1> DEFINE new == [v \in DOMAIN at |->
                     [t.validators[v] EXCEPT !.paused = 0, !.unstaking = at[v]]]
           w == SetValidators(t, new)
           x == w.unstaking \cup {<<at[v], v>> : v \in DOMAIN at}
           y == w.paused \ {<<t.validators[v].paused, v>> : v \in DOMAIN at}
           u == SetValidatorUnstaking(t, at)
<1>1. u = [w EXCEPT !.unstaking = x, !.paused = y]
  BY DEF SetValidatorUnstaking
<1>2. DOMAIN new = DOMAIN at
  OBVIOUS
<1>3. \A v \in DOMAIN at : /\ IsRecord(new[v]) /\ new[v].paused = 0
                           /\ new[v].unstaking = at[v]
                           /\ new[v].delegate = t.validators[v].delegate
  <2> TAKE v \in DOMAIN at
  <2>1. IsRecord(t.validators[v]) /\ at[v] \in Nat /\ 0 \in Nat
    BY DEF Good, Formed
  <2>2. new[v] = [t.validators[v] EXCEPT !.paused = 0, !.unstaking = at[v]]
    OBVIOUS
  <2> HIDE DEF new
  <2> QED
    BY <2>1, <2>2 DEF IsRecord, RecordFields
<1> HIDE DEF new
<1>4. /\ IsState(w) /\ w.unstaking = t.unstaking /\ w.paused = t.paused
      /\ w.account = t.account
      /\ DOMAIN w.validators = DOMAIN t.validators
      /\ w.validators = [v \in DOMAIN w.validators |-> w.validators[v]]
      /\ \A v \in DOMAIN at : w.validators[v] = new[v]
      /\ \A v \in DOMAIN t.validators \ DOMAIN at :
            w.validators[v] = t.validators[v]
  BY <1>2, SetRecords DEF Good, Formed
<1> HIDE DEF w, x, y, u
<1>4a. IsState(w)
  BY <1>4
<1>5a. /\ IsState(u) /\ u.validators = w.validators /\ u.unstaking = x
       /\ u.paused = y /\ u.account = w.account
  BY ONLY <1>1, <1>4a DEF IsState, Fields
<1>5. /\ IsState(u) /\ u.validators = w.validators /\ u.account = t.account
      /\ u.unstaking = t.unstaking \cup {<<at[v], v>> : v \in DOMAIN at}
      /\ u.paused = t.paused \ {<<t.validators[v].paused, v>> : v \in DOMAIN at}
  BY <1>4, <1>5a DEF x, y
<1>6. Formed(u)
  BY <1>3, <1>4, <1>5 DEF Good, Formed
<1>7. Released(u, h)
  BY <1>3, <1>4, <1>5 DEF Good, Released
<1>8. ForcedOut(u, h)
  <2> SUFFICES ASSUME NEW v \in DOMAIN t.validators, u.validators[v].paused # 0
               PROVE  /\ <<u.validators[v].paused, v>> \in u.paused
                      /\ u.validators[v].paused >= h
                      /\ u.validators[v].unstaking = 0
                      /\ ~u.validators[v].delegate
    BY <1>4, <1>5 DEF ForcedOut
  <2>1. v \notin DOMAIN at /\ u.validators[v] = t.validators[v]
    BY <1>3, <1>4, <1>5
  <2> QED
    BY <2>1, <1>5 DEF Good, ForcedOut
<1>9. Neat(t, u)
  <2>1. ASSUME NEW k \in u.unstaking, k \notin StrayUnstaking(t)
        PROVE  k[2] \in DOMAIN u.validators /\ u.validators[k[2]].unstaking = k[1]
    <3>1. CASE k \in t.unstaking
      <4>1. k[2] \in DOMAIN t.validators /\ t.validators[k[2]].unstaking = k[1]
        BY <2>1, <3>1 DEF StrayUnstaking, Exists
      <4>2. k[1] # 0
        BY <3>1 DEF Good, Formed
      <4> QED
        BY <4>1, <4>2, <1>4, <1>5
    <3>2. CASE k \in {<<at[v], v>> : v \in DOMAIN at}
      BY <3>2, <1>3, <1>4, <1>5
    <3> QED
      BY <3>1, <3>2, <1>5
  <2>2. ASSUME NEW k \in u.paused, k \notin StrayPaused(t)
        PROVE  k[2] \in DOMAIN u.validators /\ u.validators[k[2]].paused = k[1]
    <3>1. k \in t.paused /\ k = <<k[1], k[2]>>
      BY <1>5 DEF Good, Formed
    <3>2. k[2] \in DOMAIN t.validators /\ t.validators[k[2]].paused = k[1]
      BY <2>2, <3>1 DEF StrayPaused, Exists
    <3>3. k[2] \notin DOMAIN at
      BY <3>1, <3>2, <1>5
    <3> QED
      BY <3>2, <3>3, <1>4, <1>5
  <2> QED
    BY <2>1, <2>2 DEF Neat, StrayUnstaking, StrayPaused, Lost, Exists
<1>10. Final(t, u)
  BY <1>4, <1>5, <1>9 DEF Final
<1> QED
  BY <1>3, <1>4, <1>5, <1>6, <1>7, <1>8, <1>9, <1>10 DEF Good, u

\* SetValidatorPaused (validator.go) indexes each address under the height it
\* writes, provided none of them is paused, unstaking or a delegate.
LEMMA PausingIsGood ==
    ASSUME NEW t, NEW h \in Nat, Good(t, h), NEW P, NEW m \in Nat \ {0}, m >= h,
           P \subseteq DOMAIN t.validators,
           \A v \in P : CanPause(t, v)
    PROVE  LET u == SetValidatorPaused(t, P, m)
           IN  /\ Good(u, h) /\ Final(t, u) /\ u.account = t.account
               /\ DOMAIN u.validators = DOMAIN t.validators
<1> DEFINE new == [v \in P |-> [t.validators[v] EXCEPT !.paused = m]]
           w == SetValidators(t, new)
           y == w.paused \cup {<<m, v>> : v \in P}
           u == SetValidatorPaused(t, P, m)
<1>1. u = [w EXCEPT !.paused = y]
  BY DEF SetValidatorPaused
<1>2. DOMAIN new = P
  OBVIOUS
<1>3. \A v \in P : /\ IsRecord(new[v]) /\ new[v].paused = m
                   /\ new[v].unstaking = t.validators[v].unstaking
                   /\ new[v].delegate = t.validators[v].delegate
  <2> TAKE v \in P
  <2>1. IsRecord(t.validators[v])
    BY DEF Good, Formed
  <2>2. new[v] = [t.validators[v] EXCEPT !.paused = m]
    OBVIOUS
  <2> HIDE DEF new
  <2> QED
    BY <2>1, <2>2 DEF IsRecord, RecordFields
<1> HIDE DEF new
<1>4. /\ IsState(w) /\ w.unstaking = t.unstaking /\ w.paused = t.paused
      /\ w.account = t.account
      /\ DOMAIN w.validators = DOMAIN t.validators
      /\ w.validators = [v \in DOMAIN w.validators |-> w.validators[v]]
      /\ \A v \in P : w.validators[v] = new[v]
      /\ \A v \in DOMAIN t.validators \ P : w.validators[v] = t.validators[v]
  BY <1>2, SetRecords DEF Good, Formed
<1> HIDE DEF w, y, u
<1>5. IsState(w)
  BY <1>4
<1>6. /\ IsState(u) /\ u.validators = w.validators
      /\ u.unstaking = w.unstaking /\ u.paused = y /\ u.account = w.account
  BY ONLY <1>1, <1>5 DEF IsState, Fields
<1>7. u.unstaking = t.unstaking /\ u.paused = t.paused \cup {<<m, v>> : v \in P}
  BY <1>4, <1>6 DEF y
<1>8. \A v \in P : /\ t.validators[v].paused = 0 /\ t.validators[v].unstaking = 0
                   /\ ~t.validators[v].delegate
  BY DEF CanPause, Paused, Unstaking
<1>9. Formed(u)
  BY <1>3, <1>4, <1>6, <1>7 DEF Good, Formed
<1>10. Released(u, h)
  BY <1>3, <1>4, <1>6, <1>7 DEF Good, Released
<1>11. ForcedOut(u, h)
  <2> SUFFICES ASSUME NEW v \in DOMAIN t.validators, u.validators[v].paused # 0
               PROVE  /\ <<u.validators[v].paused, v>> \in u.paused
                      /\ u.validators[v].paused >= h
                      /\ u.validators[v].unstaking = 0
                      /\ ~u.validators[v].delegate
    BY <1>4, <1>6 DEF ForcedOut
  <2>1. CASE v \in P
    BY <2>1, <1>3, <1>4, <1>6, <1>7, <1>8
  <2>2. CASE v \notin P
    BY <2>2, <1>4, <1>6, <1>7 DEF Good, ForcedOut
  <2> QED
    BY <2>1, <2>2
<1>12. Neat(t, u)
  <2>1. ASSUME NEW k \in u.unstaking, k \notin StrayUnstaking(t)
        PROVE  k[2] \in DOMAIN u.validators /\ u.validators[k[2]].unstaking = k[1]
    <3>1. k[2] \in DOMAIN t.validators /\ t.validators[k[2]].unstaking = k[1]
      BY <2>1, <1>7 DEF StrayUnstaking, Exists
    <3> QED
      BY <3>1, <1>3, <1>4, <1>6
  <2>2. ASSUME NEW k \in u.paused, k \notin StrayPaused(t)
        PROVE  k[2] \in DOMAIN u.validators /\ u.validators[k[2]].paused = k[1]
    <3>1. CASE k \in t.paused
      <4>1. k[2] \in DOMAIN t.validators /\ t.validators[k[2]].paused = k[1]
        BY <2>2, <3>1 DEF StrayPaused, Exists
      <4>2. k[1] # 0
        BY <3>1 DEF Good, Formed
      <4> QED
        BY <4>1, <4>2, <1>4, <1>6, <1>8
    <3>2. CASE k \in {<<m, v>> : v \in P}
      BY <3>2, <1>3, <1>4, <1>6
    <3> QED
      BY <3>1, <3>2, <1>7
  <2> QED
    BY <2>1, <2>2 DEF Neat, StrayUnstaking, StrayPaused, Lost, Exists
<1>13. Final(t, u)
  BY <1>3, <1>4, <1>6, <1>12 DEF Final
<1> QED
  BY <1>4, <1>6, <1>9, <1>10, <1>11, <1>12, <1>13 DEF Good, u

\* SetValidatorUnpaused (validator.go) drops the entry its record names.
LEMMA UnpausingIsGood ==
    ASSUME NEW t, NEW h \in Nat, Good(t, h), NEW v \in DOMAIN t.validators
    PROVE  LET u == SetValidatorUnpaused(t, v)
           IN  /\ Good(u, h) /\ Final(t, u)
               /\ DOMAIN u.validators = DOMAIN t.validators
<1> DEFINE new == [x \in {v} |-> [t.validators[x] EXCEPT !.paused = 0]]
           w == SetValidators(t, new)
           y == w.paused \ {<<t.validators[v].paused, v>>}
           u == SetValidatorUnpaused(t, v)
<1>1. u = [w EXCEPT !.paused = y]
  BY DEF SetValidatorUnpaused
<1>2. DOMAIN new = {v} /\ new[v] = [t.validators[v] EXCEPT !.paused = 0]
  OBVIOUS
<1> HIDE DEF new
<1>3. /\ IsRecord(new[v]) /\ new[v].paused = 0
      /\ new[v].unstaking = t.validators[v].unstaking
      /\ new[v].delegate = t.validators[v].delegate
  <2>1. IsRecord(t.validators[v])
    BY DEF Good, Formed
  <2> QED
    BY ONLY <2>1, <1>2 DEF IsRecord, RecordFields
<1>4. /\ IsState(w) /\ w.unstaking = t.unstaking /\ w.paused = t.paused
      /\ DOMAIN w.validators = DOMAIN t.validators
      /\ w.validators = [x \in DOMAIN w.validators |-> w.validators[x]]
      /\ w.validators[v] = new[v]
      /\ \A x \in DOMAIN t.validators : x # v => w.validators[x] = t.validators[x]
  BY <1>2, SetRecords DEF Good, Formed
<1> HIDE DEF w, y, u
<1>5. IsState(w)
  BY <1>4
<1>6. /\ IsState(u) /\ u.validators = w.validators
      /\ u.unstaking = w.unstaking /\ u.paused = y
  BY ONLY <1>1, <1>5 DEF IsState, Fields
<1>7. /\ u.unstaking = t.unstaking
      /\ u.paused = t.paused \ {<<t.validators[v].paused, v>>}
  BY <1>4, <1>6 DEF y
<1>8. Formed(u)
  BY <1>3, <1>4, <1>6, <1>7 DEF Good, Formed
<1>9. Released(u, h)
  BY <1>3, <1>4, <1>6, <1>7 DEF Good, Released
<1>10. ForcedOut(u, h)
  <2> SUFFICES ASSUME NEW x \in DOMAIN t.validators, u.validators[x].paused # 0
               PROVE  /\ <<u.validators[x].paused, x>> \in u.paused
                      /\ u.validators[x].paused >= h
                      /\ u.validators[x].unstaking = 0
                      /\ ~u.validators[x].delegate
    BY <1>4, <1>6 DEF ForcedOut
  <2>1. x # v
    BY <1>3, <1>4, <1>6
  <2> QED
    BY <2>1, <1>4, <1>6, <1>7 DEF Good, ForcedOut
<1>11. Neat(t, u)
  <2>1. ASSUME NEW k \in u.unstaking, k \notin StrayUnstaking(t)
        PROVE  k[2] \in DOMAIN u.validators /\ u.validators[k[2]].unstaking = k[1]
    <3>1. k[2] \in DOMAIN t.validators /\ t.validators[k[2]].unstaking = k[1]
      BY <2>1, <1>7 DEF StrayUnstaking, Exists
    <3> QED
      BY <3>1, <1>3, <1>4, <1>6
  <2>2. ASSUME NEW k \in u.paused, k \notin StrayPaused(t)
        PROVE  k[2] \in DOMAIN u.validators /\ u.validators[k[2]].paused = k[1]
    <3>1. k \in t.paused /\ k = <<k[1], k[2]>>
      BY <1>7 DEF Good, Formed
    <3>2. k[2] \in DOMAIN t.validators /\ t.validators[k[2]].paused = k[1]
      BY <2>2, <3>1 DEF StrayPaused, Exists
    <3>3. k[2] # v
      BY <3>1, <3>2, <1>7
    <3> QED
      BY <3>2, <3>3, <1>4, <1>6
  <2> QED
    BY <2>1, <2>2 DEF Neat, StrayUnstaking, StrayPaused, Lost, Exists
<1>12. Final(t, u)
  BY <1>3, <1>4, <1>6, <1>11 DEF Final
<1> QED
  BY <1>4, <1>6, <1>8, <1>9, <1>10, <1>11, <1>12 DEF Good, u

\* A new record is neither paused nor unstaking: AddValidators, of the stake
\* message and of the genesis file.
LEMMA AddingIsGood ==
    ASSUME NEW t, NEW h \in Nat, Good(t, h), NEW new, DOMAIN new \subseteq Val,
           DOMAIN new \cap DOMAIN t.validators = {},
           \A v \in DOMAIN new : /\ IsRecord(new[v]) /\ new[v].paused = 0
                                 /\ new[v].unstaking = 0
    PROVE  LET u == AddValidators(t, new)
           IN  /\ Good(u, h) /\ Kept(t, u)
               /\ DOMAIN t.validators \subseteq DOMAIN u.validators
<1> DEFINE w == Tally(t, Nothing, new)
           u == SetValidators(w, new)
<1>1. Alike(t, w)
  BY TallyIsAlike DEF Good, Formed, Unpaid
<1>2. AddValidators(t, new) = u
  BY DEF AddValidators
<1> HIDE DEF w
<1>3. /\ IsState(w) /\ w.validators = t.validators
      /\ w.unstaking = t.unstaking /\ w.paused = t.paused
  BY <1>1 DEF Alike
<1>4. /\ IsState(u) /\ u.unstaking = t.unstaking /\ u.paused = t.paused
      /\ DOMAIN u.validators = DOMAIN t.validators \cup DOMAIN new
      /\ u.validators = [v \in DOMAIN u.validators |-> u.validators[v]]
      /\ \A v \in DOMAIN new : u.validators[v] = new[v]
      /\ \A v \in DOMAIN t.validators : u.validators[v] = t.validators[v]
  BY <1>3, SetRecords
<1> HIDE DEF u
<1>5. Formed(u)
  BY <1>4 DEF Good, Formed
<1>6. Released(u, h) /\ ForcedOut(u, h)
  BY <1>4 DEF Good, Released, ForcedOut
<1>7. Neat(t, u)
  <2>1. ASSUME NEW k \in t.unstaking, k \in StrayUnstaking(u)
        PROVE  k \in StrayUnstaking(t)
    BY <2>1, <1>4 DEF StrayUnstaking, Exists
  <2>2. ASSUME NEW k \in t.paused, k \in StrayPaused(u)
        PROVE  k \in StrayPaused(t)
    BY <2>2, <1>4 DEF StrayPaused, Exists
  <2> QED
    BY <2>1, <2>2, <1>4 DEF Neat, StrayUnstaking, StrayPaused
<1>8. Kept(t, u)
  BY <1>4, <1>7 DEF Kept
<1> QED
  BY <1>2, <1>4, <1>5, <1>6, <1>8 DEF Good

-----------------------------------------------------------------------------
\* Both unstaking periods are at least one block (ParametersAreValid).
LEMMA PeriodsArePositive ==
    ASSUME NEW r
    PROVE  UnstakingBlocksOf(r) \in Nat \ {0}
  BY ParametersAreValid DEF UnstakingBlocksOf

\* A slash below the minimum stake makes the validator unstake, unless it is
\* unstaking already: then its height stands.
LEMMA BelowMinimumIsGood ==
    ASSUME NEW t, height \in Nat \ {0}, Good(t, height), NEW S,
           S \subseteq DOMAIN t.validators
    PROVE  LET u == SetUnstakingIfBelowMinimum(t, S)
           IN  Good(u, height) /\ Final(t, u) /\ u.account = t.account
<1> DEFINE below == {v \in S : ~Unstaking(t, v) /\ BelowMinimum(t.validators[v])}
           at == [v \in below |-> height + UnstakingBlocksOf(t.validators[v])]
<1>1. SetUnstakingIfBelowMinimum(t, S) = SetValidatorUnstaking(t, at)
  BY DEF SetUnstakingIfBelowMinimum
<1>2. DOMAIN at \subseteq DOMAIN t.validators
  OBVIOUS
<1>3. \A v \in DOMAIN at : /\ at[v] \in Nat \ {0} /\ at[v] >= height
                           /\ t.validators[v].unstaking = 0
  <2> TAKE v \in DOMAIN at
  <2>1. at[v] = height + UnstakingBlocksOf(t.validators[v])
    OBVIOUS
  <2>2. t.validators[v].unstaking = 0
    BY DEF Unstaking
  <2> HIDE DEF at
  <2> QED
    BY <2>1, <2>2, PeriodsArePositive
<1> HIDE DEF at
<1> QED
  BY <1>1, <1>2, <1>3, UnstakingIsGood

\* SlashValidators (byzantine.go): records lose stake, are deleted or unstake.
LEMMA SlashingIsGood ==
    ASSUME NEW t, height \in Nat \ {0}, Good(t, height), NEW A, NEW percent
    PROVE  LET u == SlashValidators(t, A, percent)
           IN  Good(u, height) /\ Final(t, u) /\ u.account = t.account
<1> DEFINE S    == {v \in A : Exists(t, v)}
           gone == {v \in S : AfterSlash(t, v, percent) = 0}
           less == [v \in S \ gone |->
                      [t.validators[v] EXCEPT !.stake = AfterSlash(t, v, percent)]]
           burned == SumFunction([v \in S |->
                       t.validators[v].stake - AfterSlash(t, v, percent)])
           x  == t.total - burned
           t0 == [t EXCEPT !.total = x]
           t1 == DeleteValidators(t0, gone)
           t2 == UpdateCommittees(t1, Restrict(t.validators, S \ gone), less)
           t3 == SetValidators(t2, less)
           u  == SetUnstakingIfBelowMinimum(t3, S \ gone)
<1>1. SlashValidators(t, A, percent) = u
  BY DEF SlashValidators
<1>2. S \subseteq DOMAIN t.validators /\ gone \subseteq S
  BY DEF Exists
<1>3. DOMAIN less = S \ gone
  OBVIOUS
<1>4. \A v \in DOMAIN less :
        /\ IsRecord(less[v])
        /\ less[v].paused = t.validators[v].paused
        /\ less[v].unstaking = t.validators[v].unstaking
        /\ less[v].delegate = t.validators[v].delegate
  <2> TAKE v \in DOMAIN less
  <2> DEFINE y == AfterSlash(t, v, percent)
  <2>1. less[v] = [t.validators[v] EXCEPT !.stake = y]
    OBVIOUS
  <2>2. IsRecord(t.validators[v])
    BY <1>2, <1>3 DEF Good, Formed
  <2> HIDE DEF less, y
  <2> QED
    BY ONLY <2>1, <2>2 DEF IsRecord, RecordFields
<1> HIDE DEF less, gone, S, x
<1>5. Unpaid(t, t0)
  <2>1. IsState(t)
    BY DEF Good, Formed
  <2> QED
    BY <2>1 DEF Unpaid, Alike, IsState, Fields
<1> HIDE DEF t0
<1>6. /\ Good(t0, height) /\ Final(t, t0) /\ t0.validators = t.validators
      /\ t0.account = t.account
  BY <1>5, AlikeIsGood DEF Unpaid, Alike
<1>7. /\ Good(t1, height) /\ Final(t0, t1) /\ t1.account = t0.account
      /\ DOMAIN t1.validators = DOMAIN t.validators \ gone
      /\ \A v \in DOMAIN t1.validators : t1.validators[v] = t.validators[v]
  BY <1>6, RecordsMayGo
<1> HIDE DEF t1
<1>8. Unpaid(t1, t2)
  BY <1>7, TallyIsAlike DEF Good, Formed
<1> HIDE DEF t2
<1>9. /\ Good(t2, height) /\ Final(t1, t2) /\ t2.validators = t1.validators
      /\ t2.account = t1.account
  BY <1>7, <1>8, AlikeIsGood DEF Unpaid, Alike
<1>10. /\ Good(t3, height) /\ Final(t2, t3) /\ t3.account = t2.account
       /\ DOMAIN t3.validators = DOMAIN t2.validators
  <2>1. DOMAIN less \subseteq DOMAIN t2.validators
    BY <1>2, <1>3, <1>7, <1>9
  <2>2. \A v \in DOMAIN less : t2.validators[v] = t.validators[v]
    BY <1>7, <1>9, <2>1
  <2>3. \A v \in DOMAIN less :
          /\ IsRecord(less[v])
          /\ less[v].paused = t2.validators[v].paused
          /\ less[v].unstaking = t2.validators[v].unstaking
          /\ less[v].delegate = t2.validators[v].delegate
    BY <1>4, <2>2
  <2> QED
    BY <1>9, <2>1, <2>3, StakesMayChange
<1> HIDE DEF t3
<1>11. S \ gone \subseteq DOMAIN t3.validators
  BY <1>2, <1>7, <1>9, <1>10
<1>12. Good(u, height) /\ Final(t3, u) /\ u.account = t3.account
  BY <1>10, <1>11, BelowMinimumIsGood
<1> HIDE DEF u
<1>13. Final(t, u) /\ u.account = t.account
  BY <1>6, <1>7, <1>9, <1>10, <1>12, FinalTwice
<1> QED
  BY <1>1, <1>12, <1>13

\* The end of a window of non-signers: pauses, then slashes (byzantine.go).
LEMMA NonSignersAreGood ==
    ASSUME NEW t, height \in Nat \ {0}, Good(t, height)
    PROVE  LET u == SlashAndResetNonSigners(t)
           IN  Good(u, height) /\ Final(t, u) /\ u.account = t.account
<1> DEFINE bad == {v \in Val : t.nonSigner[v] > MaxNonSign}
           P   == {v \in bad : CanPause(t, v)}
           t1  == SetValidatorPaused(t, P, height + MaxPauseBlocks)
           t2  == SlashValidators(t1, bad, NonSignSlashPercentage)
           z   == [v \in Val |-> 0]
           u   == [t2 EXCEPT !.nonSigner = z]
<1>1. SlashAndResetNonSigners(t) = u
  BY DEF SlashAndResetNonSigners
<1>2. P \subseteq DOMAIN t.validators /\ \A v \in P : CanPause(t, v)
  BY DEF CanPause, Exists
<1> HIDE DEF P, bad, z
<1>3. height + MaxPauseBlocks \in Nat \ {0} /\ height + MaxPauseBlocks >= height
  BY ParametersAreValid
<1>4. Good(t1, height) /\ Final(t, t1) /\ t1.account = t.account
  BY <1>2, <1>3, PausingIsGood
<1> HIDE DEF t1
<1>5. Good(t2, height) /\ Final(t1, t2) /\ t2.account = t1.account
  BY <1>4, SlashingIsGood
<1> HIDE DEF t2
<1>6. Unpaid(t2, u)
  BY <1>5 DEF Good, Formed, Unpaid, Alike, IsState, Fields
<1> HIDE DEF u
<1>7. Good(u, height) /\ Final(t2, u) /\ u.account = t2.account
  BY <1>5, <1>6, AlikeIsGood DEF Unpaid
<1> QED
  BY <1>1, <1>4, <1>5, <1>7, FinalTwice

\* HandleByzantine (byzantine.go): the window, the misses and the double signs.
LEMMA ByzantineIsGood ==
    ASSUME NEW t, height \in Nat \ {0}, Good(t, height), NEW missed, NEW evidence
    PROVE  LET u == HandleByzantine(t, missed, evidence)
           IN  Good(u, height) /\ Final(t, u) /\ u.account = t.account
<1> DEFINE t1 == IF height % NonSignWindow = 0 THEN SlashAndResetNonSigners(t) ELSE t
           z  == [v \in Val |-> IF v \in missed THEN t1.nonSigner[v] + 1
                                                ELSE t1.nonSigner[v]]
           t2 == [t1 EXCEPT !.nonSigner = z]
           A  == {e[2] : e \in evidence}
           u  == SlashValidators(t2, A, DoubleSignSlashPercentage)
<1>1. HandleByzantine(t, missed, evidence) = u
  BY DEF HandleByzantine
<1>2. Good(t1, height) /\ Final(t, t1) /\ t1.account = t.account
  <2>1. Final(t, t)
    BY FinalStutters
  <2>2. CASE height % NonSignWindow = 0
    BY <2>2, NonSignersAreGood
  <2>3. CASE ~(height % NonSignWindow = 0)
    BY <2>1, <2>3
  <2> QED
    BY <2>2, <2>3
<1> HIDE DEF t1, z, A
<1>3. Unpaid(t1, t2)
  BY <1>2 DEF Good, Formed, Unpaid, Alike, IsState, Fields
<1> HIDE DEF t2
<1>4. Good(t2, height) /\ Final(t1, t2) /\ t2.account = t1.account
  BY <1>2, <1>3, AlikeIsGood DEF Unpaid
<1>5. Good(u, height) /\ Final(t2, u) /\ u.account = t2.account
  BY <1>4, SlashingIsGood
<1> HIDE DEF u
<1> QED
  BY <1>1, <1>2, <1>4, <1>5, FinalTwice

\* Minting (committee.go) is about the pools and the total only.
LEMMA MintingIsAlike ==
    ASSUME NEW t, IsState(t)
    PROVE  Unpaid(t, FundCommitteeRewardPools(t))
<1> DEFINE paid == SubsidizedCommittees(t)
           each == Mint \div Cardinality(paid)
           x == t.total + DaoMint + each * Cardinality(paid)
           y == [p \in Pool |-> t.pool[p] + IF p = Dao THEN DaoMint
                                            ELSE IF p \in paid THEN each ELSE 0]
<1>1. FundCommitteeRewardPools(t) = [t EXCEPT !.total = x, !.pool = y]
  BY DEF FundCommitteeRewardPools
<1> HIDE DEF x, y
<1> QED
  BY <1>1 DEF Unpaid, Alike, IsState, Fields

\* Rewards (committee.go) compound into the stakes of records that do not
\* unstake, or go to accounts.
LEMMA RewardsAreGood ==
    ASSUME NEW t, NEW h \in Nat, Good(t, h)
    PROVE  LET u == DistributeCommitteeRewards(t)
           IN  /\ Good(u, h) /\ Final(t, u)
               /\ DOMAIN u.validators = DOMAIN t.validators
<1> DEFINE gift(v) == DistributeCommitteeReward(t, v)
           paid    == DOMAIN payment
           grown   == {v \in paid : Compounds(t, v)}
           new == [v \in grown |-> [t.validators[v] EXCEPT !.stake = @ + gift(v)]]
           t1 == UpdateValidatorStake(t, new)
           x == [v \in Val |->
                   IF v \in paid \ grown THEN t1.account[v] + gift(v)
                                         ELSE t1.account[v]]
           y == t1.total - (t.pool[Self] - TotalDistributed(t))
           z == [t1.pool EXCEPT ![Self] = 0]
           u == [t1 EXCEPT !.account = x, !.total = y, !.pool = z]
<1>1. DistributeCommitteeRewards(t) = IF paid = {} THEN t ELSE u
  BY DEF DistributeCommitteeRewards
<1>2. Final(t, t)
  BY FinalStutters
<1>3. DOMAIN new \subseteq DOMAIN t.validators
  BY DEF Compounds, Exists
<1>4. \A v \in DOMAIN new :
        /\ IsRecord(new[v])
        /\ new[v].paused = t.validators[v].paused
        /\ new[v].unstaking = t.validators[v].unstaking
        /\ new[v].delegate = t.validators[v].delegate
  <2> TAKE v \in DOMAIN new
  <2> DEFINE n == t.validators[v].stake + gift(v)
  <2>1. new[v] = [t.validators[v] EXCEPT !.stake = n]
    OBVIOUS
  <2>2. IsRecord(t.validators[v])
    BY <1>3 DEF Good, Formed
  <2> HIDE DEF new, n
  <2> QED
    BY ONLY <2>1, <2>2 DEF IsRecord, RecordFields
<1> HIDE DEF new, x, y, z, paid
<1>5. /\ Good(t1, h) /\ Final(t, t1)
      /\ DOMAIN t1.validators = DOMAIN t.validators
  BY <1>3, <1>4, UpdateIsGood
<1> HIDE DEF t1
<1>6. Alike(t1, u)
  BY <1>5 DEF Good, Formed, Alike, IsState, Fields
<1> HIDE DEF u
<1>7. /\ Good(u, h) /\ Final(t1, u)
      /\ DOMAIN u.validators = DOMAIN t.validators
  BY <1>5, <1>6, AlikeIsGood DEF Alike
<1>8. Final(t, u)
  BY <1>5, <1>7, FinalTwice
<1> QED
  BY <1>1, <1>2, <1>7, <1>8

-----------------------------------------------------------------------------
\* ForceUnstakeMaxPaused (automatic.go): at the end of a block whoever was
\* paused up to this height is unstaking, whatever stray entries there are.
LEMMA ForcingIsGood ==
    ASSUME NEW t, height \in Nat \ {0}, Good(t, height)
    PROVE  LET u == ForceUnstakeMaxPaused(t)
           IN  /\ Good(u, height) /\ Final(t, u)
               /\ DOMAIN u.validators = DOMAIN t.validators
               /\ \A v \in Val : <<height, v>> \in u.unstaking => <<height, v>> \in t.unstaking
               /\ \A v \in DOMAIN u.validators : u.validators[v].paused # height
<1> DEFINE due == {v \in Val : <<height, v>> \in t.paused}
           out == {v \in due : Exists(t, v) /\ ~Unstaking(t, v)}
           at  == [v \in out |-> height + UnstakingBlocks]
           w   == SetValidatorUnstaking(t, at)
           y   == w.paused \ {<<height, v>> : v \in due}
           u   == [w EXCEPT !.paused = y]
<1>1. ForceUnstakeMaxPaused(t) = u
  BY DEF ForceUnstakeMaxPaused
<1>2. DOMAIN at = out /\ out \subseteq DOMAIN t.validators
  BY DEF Exists
<1>3. \A v \in DOMAIN at : /\ at[v] \in Nat \ {0} /\ at[v] >= height /\ at[v] # height
                           /\ t.validators[v].unstaking = 0
  BY ParametersAreValid DEF Unstaking
<1> HIDE DEF at, out, due
<1>3a. height \in Nat /\ DOMAIN at \subseteq DOMAIN t.validators
  BY <1>2
<1>4. /\ Good(w, height) /\ Final(t, w)
      /\ w.unstaking = t.unstaking \cup {<<at[v], v>> : v \in DOMAIN at}
      /\ DOMAIN w.validators = DOMAIN t.validators
      /\ w.paused \subseteq t.paused
      /\ \A v \in out : w.validators[v].paused = 0
      /\ \A v \in DOMAIN t.validators \ out : w.validators[v] = t.validators[v]
  BY <1>2, <1>3, <1>3a, UnstakingIsGood
<1> HIDE DEF w
<1>5. \A v \in DOMAIN w.validators : w.validators[v].paused # height
  <2> SUFFICES ASSUME NEW v \in DOMAIN t.validators, w.validators[v].paused = height
               PROVE  FALSE
    BY <1>4
  <2>1. v \notin out /\ w.validators[v] = t.validators[v]
    BY <1>4
  <2>2. <<height, v>> \in t.paused /\ t.validators[v].unstaking = 0
    BY <2>1 DEF Good, ForcedOut
  <2>3. v \in out
    BY <2>2 DEF out, due, Exists, Unstaking, Good, Formed
  <2> QED
    BY <2>1, <2>3
<1> HIDE DEF y
<1>6. /\ IsState(u) /\ u.validators = w.validators
      /\ u.unstaking = w.unstaking /\ u.paused = y
  BY <1>4, PausedIsApart DEF Good, Formed
<1> HIDE DEF u
<1>7. Formed(u) /\ Released(u, height)
  BY <1>4, <1>6 DEF Good, Formed, Released, y
<1>8. ForcedOut(u, height)
  BY <1>4, <1>5, <1>6 DEF Good, ForcedOut, y, due
<1>9. Neat(t, u)
  <2>1. \A k \in StrayUnstaking(u) : k \in StrayUnstaking(w)
    BY <1>6 DEF StrayUnstaking, Exists
  <2>2. \A k \in StrayPaused(u) : k \in StrayPaused(w)
    BY <1>6 DEF StrayPaused, Exists, y
  <2>3. Neat(t, w)
    BY <1>4 DEF Final
  <2> QED
    BY <2>1, <2>2, <2>3, <1>6 DEF Neat, Lost
<1>10. Final(t, u)
  BY <1>4, <1>6, <1>9 DEF Final
<1>11. \A v \in Val : <<height, v>> \in u.unstaking => <<height, v>> \in t.unstaking
  BY <1>3, <1>4, <1>6
<1> QED
  BY <1>1, <1>4, <1>5, <1>6, <1>7, <1>8, <1>10, <1>11 DEF Good

\* DeleteFinishedUnstaking (validator.go): whoever was unstaking up to this
\* height is gone, and the records that stay are good for the next block.
LEMMA ReleasingIsGood ==
    ASSUME NEW t, height \in Nat \ {0}, Good(t, height),
           \A v \in DOMAIN t.validators : t.validators[v].paused # height
    PROVE  LET u == DeleteFinishedUnstaking(t)
           IN  /\ Good(u, height + 1) /\ Final(t, u)
               /\ \A v \in Val : Lost(t, u, v) => <<height, v>> \in t.unstaking
               /\ Orderly(t, u)
<1> DEFINE done == Finished(t)
           w == DeleteValidators(t, done)
           x == [v \in Val |-> IF v \in done
                               THEN w.account[v] + t.validators[v].stake
                               ELSE w.account[v]]
           y == w.unstaking \ {<<height, v>> : v \in done}
           u == [w EXCEPT !.account = x, !.unstaking = y]
<1>1. DeleteFinishedUnstaking(t) = u
  BY DEF DeleteFinishedUnstaking
<1>2. /\ Good(w, height) /\ Final(t, w)
      /\ DOMAIN w.validators = DOMAIN t.validators \ done
      /\ \A v \in DOMAIN w.validators : w.validators[v] = t.validators[v]
      /\ w.unstaking = t.unstaking /\ w.paused = t.paused
  BY RecordsMayGo
<1>3. done = {v \in Val : <<height, v>> \in t.unstaking}
  BY DEF Finished
<1> HIDE DEF done, w, x, y
<1>4. /\ IsState(u) /\ u.validators = w.validators
      /\ u.unstaking = y /\ u.paused = w.paused
  BY <1>2 DEF Good, Formed, IsState, Fields
<1> HIDE DEF u
<1>5. u.unstaking = t.unstaking \ {<<height, v>> : v \in done}
  BY <1>2, <1>4 DEF y
<1>6. Formed(u)
  BY <1>2, <1>4, <1>5 DEF Good, Formed
<1>7. Released(u, height + 1)
  <2> SUFFICES ASSUME NEW v \in DOMAIN w.validators, w.validators[v].unstaking # 0
               PROVE  /\ <<w.validators[v].unstaking, v>> \in u.unstaking
                      /\ w.validators[v].unstaking >= height + 1
    BY <1>4 DEF Released
  <2>1. /\ v \notin done /\ v \in Val /\ w.validators[v].unstaking \in Nat
        /\ <<w.validators[v].unstaking, v>> \in t.unstaking
        /\ w.validators[v].unstaking >= height
    BY <1>2 DEF Good, Formed, Released, IsRecord
  <2>2. w.validators[v].unstaking # height
    BY <2>1, <1>3
  <2> QED
    BY <2>1, <2>2, <1>5
<1>8. ForcedOut(u, height + 1)
  <2> SUFFICES ASSUME NEW v \in DOMAIN w.validators, w.validators[v].paused # 0
               PROVE  /\ <<w.validators[v].paused, v>> \in u.paused
                      /\ w.validators[v].paused >= height + 1
                      /\ w.validators[v].unstaking = 0
                      /\ ~w.validators[v].delegate
    BY <1>4 DEF ForcedOut
  <2>1. w.validators[v].paused # height /\ w.validators[v].paused \in Nat
    BY <1>2 DEF Good, Formed, IsRecord
  <2> QED
    BY <2>1, <1>2, <1>4 DEF Good, ForcedOut
<1>9. \A v \in Val : Lost(t, u, v) => <<height, v>> \in t.unstaking
  BY <1>2, <1>3, <1>4 DEF Lost
<1>10. \A v \in done : <<height, v>> \in StrayUnstaking(t)
                        \/ t.validators[v].unstaking = height
  BY <1>3 DEF StrayUnstaking
<1>11. ASSUME NEW k \in u.unstaking, k \notin StrayUnstaking(t),
              k[2] \in done => <<height, k[2]>> \notin StrayUnstaking(t)
       PROVE  k \notin StrayUnstaking(u)
  <2>1. k \in t.unstaking /\ k = <<k[1], k[2]>> /\ k[2] \in Val
    BY <1>5 DEF Good, Formed
  <2>2. k[2] \in DOMAIN t.validators /\ t.validators[k[2]].unstaking = k[1]
    BY <1>11, <2>1 DEF StrayUnstaking, Exists
  <2>3. k[2] \notin done
    <3> SUFFICES ASSUME k[2] \in done PROVE FALSE
      OBVIOUS
    <3>1. k[1] # height
      BY <2>1, <1>5
    <3>2. t.validators[k[2]].unstaking = height
      BY <1>10, <1>11
    <3> QED
      BY <3>1, <3>2, <2>2
  <2> QED
    BY <2>2, <2>3, <1>2, <1>4 DEF StrayUnstaking, Exists
<1>12. ASSUME NEW k \in u.paused, k \notin StrayPaused(t),
              k[2] \in done => <<height, k[2]>> \notin StrayUnstaking(t)
       PROVE  k \notin StrayPaused(u)
  <2>1. k \in t.paused /\ k[2] \in Val /\ k[1] # 0
    BY <1>2, <1>4 DEF Good, Formed
  <2>2. k[2] \in DOMAIN t.validators /\ t.validators[k[2]].paused = k[1]
    BY <1>12, <2>1 DEF StrayPaused, Exists
  <2>3. k[2] \notin done
    <3> SUFFICES ASSUME k[2] \in done PROVE FALSE
      OBVIOUS
    <3>1. t.validators[k[2]].unstaking = height
      BY <1>10, <1>12
    <3> QED
      BY <3>1, <2>1, <2>2 DEF Good, ForcedOut
  <2> QED
    BY <2>2, <2>3, <1>2, <1>4 DEF StrayPaused, Exists
<1>13. Orderly(t, u)
  <2>1. ASSUME NEW k \in StrayUnstaking(u), k \notin StrayUnstaking(t)
        PROVE  Lost(t, u, k[2]) /\ <<height, k[2]>> \in StrayUnstaking(t)
    <3>1. k \in u.unstaking /\ k \in t.unstaking
      BY <1>5 DEF StrayUnstaking
    <3>2. k[2] \in done /\ <<height, k[2]>> \in StrayUnstaking(t)
      BY <1>11, <2>1, <3>1
    <3>3. k[2] \in DOMAIN t.validators
      BY <2>1, <3>1 DEF StrayUnstaking, Exists
    <3> QED
      BY <3>2, <3>3, <1>2, <1>4 DEF Lost
  <2>2. ASSUME NEW k \in StrayPaused(u), k \notin StrayPaused(t)
        PROVE  Lost(t, u, k[2]) /\ <<height, k[2]>> \in StrayUnstaking(t)
    <3>1. k \in u.paused /\ k \in t.paused
      BY <1>2, <1>4 DEF StrayPaused
    <3>2. k[2] \in done /\ <<height, k[2]>> \in StrayUnstaking(t)
      BY <1>12, <2>2, <3>1
    <3>3. k[2] \in DOMAIN t.validators
      BY <2>2, <3>1 DEF StrayPaused, Exists
    <3> QED
      BY <3>2, <3>3, <1>2, <1>4 DEF Lost
  <2> QED
    BY <2>1, <2>2 DEF Orderly
<1>14. Final(t, u)
  <2>1. Neat(t, u)
    BY <1>13 DEF Neat, Orderly
  <2> QED
    BY <2>1, <1>2, <1>4 DEF Final
<1> QED
  BY <1>1, <1>6, <1>7, <1>8, <1>9, <1>13, <1>14 DEF Good

-----------------------------------------------------------------------------
\* what a transaction may do to the working state: it loses no record
Keeps(t, u) ==
    /\ Good(u, height) /\ Kept(t, u)
    /\ DOMAIN t.validators \subseteq DOMAIN u.validators

\* A step that touches balances and trackers only keeps the records' promises.
LEMMA AlikeKeeps ==
    ASSUME NEW t, NEW u, Good(t, height), Alike(t, u)
    PROVE  Keeps(t, u)
  BY AlikeIsGood, FinalIsKept DEF Keeps, Alike

\* After a step that changed balances only, a step from there is one from here.
LEMMA KeepsAfterAlike ==
    ASSUME NEW t, NEW u, NEW w, Alike(t, u), Keeps(u, w)
    PROVE  Keeps(t, w)
<1>1. u.validators = t.validators /\ u.unstaking = t.unstaking /\ u.paused = t.paused
  BY DEF Alike
<1>2. Neat(u, w)
  BY DEF Keeps, Kept
<1>3. Neat(t, w)
  BY <1>1, <1>2 DEF Neat, StrayUnstaking, StrayPaused, Lost, Exists
<1> QED
  BY <1>1, <1>3 DEF Keeps, Kept

\* AccountDeductFees (account.go) moves tokens only.
LEMMA FeesAreAlike ==
    ASSUME NEW v, Good(s, height)
    PROVE  /\ Alike(s, AccountDeductFees(v))
           /\ Good(AccountDeductFees(v), height)
           /\ IsState(AccountDeductFees(v))
<1> DEFINE x == [s.account EXCEPT ![v] = @ - Fee]
           y == [s.pool EXCEPT ![Self] = @ + Fee]
           u == AccountDeductFees(v)
<1>1. u = [s EXCEPT !.account = x, !.pool = y]
  BY DEF AccountDeductFees, Good, Formed, IsState, Fields
<1> HIDE DEF x, y, u
<1>2. Alike(s, u)
  BY <1>1 DEF Good, Formed, Alike, IsState, Fields
<1>3. Good(u, height) /\ IsState(u)
  BY <1>2, AlikeIsGood DEF Alike
<1> QED
  BY <1>2, <1>3 DEF u

\* Sending tokens.
LEMMA SendKeeps ==
    ASSUME Good(s, height), NEW v, NEW w, NEW amount,
           HandleMessageSend(v, w, amount)
    PROVE  Keeps(s, s')
<1> DEFINE t == AccountDeductFees(v)
<1>1. Alike(s, t) /\ Good(t, height) /\ IsState(t)
  BY FeesAreAlike
<1>2. s' = Transfer(t, v, w, amount)
  BY DEF HandleMessageSend, Apply
<1> HIDE DEF t
<1>3. Alike(t, [t EXCEPT !.account[v] = @ - amount])
  BY <1>1 DEF Alike, IsState, Fields
<1>4. PICK u : u = [t EXCEPT !.account[v] = @ - amount]
  OBVIOUS
<1>5. IsState(u) /\ s' = [u EXCEPT !.account[w] = @ + amount]
  BY <1>2, <1>3, <1>4 DEF Transfer, Alike
<1>6. Alike(u, s')
  BY <1>5 DEF Alike, IsState, Fields
<1> QED
  BY <1>1, <1>3, <1>4, <1>6, AlikeKeeps, AlikeTwice

\* Subsidising a committee.
LEMMA SubsidyKeeps ==
    ASSUME Good(s, height), NEW v, NEW c, NEW amount,
           HandleMessageSubsidy(v, c, amount)
    PROVE  Keeps(s, s')
<1> DEFINE t == AccountDeductFees(v)
<1>1. Alike(s, t) /\ Good(t, height) /\ IsState(t)
  BY FeesAreAlike
<1>2. s' = [t EXCEPT !.account[v] = @ - amount, !.pool[c] = @ + amount]
  BY DEF HandleMessageSubsidy, Apply
<1> HIDE DEF t
<1>3. Alike(t, s')
  BY <1>1, <1>2 DEF Alike, IsState, Fields
<1> QED
  BY <1>1, <1>3, AlikeKeeps, AlikeTwice

\* Paying out of the DAO's pool.
LEMMA DAOTransferKeeps ==
    ASSUME Good(s, height), NEW v, NEW amount, NEW mint,
           HandleMessageDAOTransfer(v, amount, mint)
    PROVE  Keeps(s, s')
<1> DEFINE t == AccountDeductFees(v)
           minted == IF mint THEN amount ELSE 0
<1>1. Alike(s, t) /\ Good(t, height) /\ IsState(t)
  BY FeesAreAlike
<1>2. s' = [t EXCEPT !.total = @ + minted, !.pool[Dao] = @ + minted - amount,
                     !.account[v] = @ + amount]
  BY DEF HandleMessageDAOTransfer, Apply
<1> HIDE DEF t, minted
<1>3. Alike(t, s')
  BY <1>1, <1>2 DEF Alike, IsState, Fields
<1> QED
  BY <1>1, <1>3, AlikeKeeps, AlikeTwice

\* A record as the stake message and the genesis file write it.
LEMMA NewIsRecord ==
    ASSUME NEW amount, NEW C, NEW delegate \in BOOLEAN, NEW compound
    PROVE  LET r == NewValidator(amount, C, delegate, compound)
           IN  IsRecord(r) /\ r.paused = 0 /\ r.unstaking = 0
  BY DEF NewValidator, IsRecord, RecordFields

\* Staking: the address has no record before.
LEMMA StakeKeeps ==
    ASSUME height \in Nat, Good(s, height), NEW v \in Val, NEW amount, NEW C,
           NEW delegate \in BOOLEAN, NEW compound,
           HandleMessageStake(v, amount, C, delegate, compound)
    PROVE  Keeps(s, s')
<1> DEFINE t == AccountDeductFees(v)
           x == [t.account EXCEPT ![v] = @ - amount]
           t1 == [t EXCEPT !.account = x]
           new == [u \in {v} |-> NewValidator(amount, C, delegate, compound)]
<1>1. Alike(s, t) /\ Good(t, height) /\ IsState(t)
  BY FeesAreAlike
<1>2. ~Exists(t, v)
  BY DEF HandleMessageStake
<1>3. s' = AddValidators([t EXCEPT !.account[v] = @ - amount], new)
  BY DEF HandleMessageStake, Apply
<1> HIDE DEF t, x
<1>4. [t EXCEPT !.account[v] = @ - amount] = t1
  BY <1>1 DEF x, IsState, Fields
<1>5. Alike(t, t1)
  BY <1>1 DEF Alike, IsState, Fields
<1> HIDE DEF t1
<1>6. Good(t1, height) /\ t1.validators = t.validators
  BY <1>1, <1>5, AlikeIsGood DEF Alike
<1>7. /\ DOMAIN new \subseteq Val /\ DOMAIN new \cap DOMAIN t1.validators = {}
      /\ \A u \in DOMAIN new : /\ IsRecord(new[u]) /\ new[u].paused = 0
                               /\ new[u].unstaking = 0
  BY <1>2, <1>6, NewIsRecord DEF Exists
<1> HIDE DEF new
<1>8. Keeps(t1, s')
  BY <1>3, <1>4, <1>6, <1>7, AddingIsGood DEF Keeps
<1> QED
  BY <1>1, <1>5, <1>8, AlikeTwice, KeepsAfterAlike

\* Editing a stake leaves the record's heights.
LEMMA EditStakeKeeps ==
    ASSUME height \in Nat, Good(s, height), NEW v \in Val, NEW amount, NEW C,
           NEW compound, HandleMessageEditStake(v, amount, C, compound)
    PROVE  Keeps(s, s')
<1> DEFINE t == AccountDeductFees(v)
           old == t.validators[v]
           add == IF amount > old.stake THEN amount - old.stake ELSE 0
           x == [t.account EXCEPT ![v] = @ - add]
           t1 == [t EXCEPT !.account = x]
           r == [old EXCEPT !.stake = @ + add, !.committees = C,
                            !.compound = compound]
           new == [u \in {v} |-> r]
<1>1. Alike(s, t) /\ Good(t, height) /\ IsState(t)
  BY FeesAreAlike
<1>2. v \in DOMAIN t.validators
  BY DEF HandleMessageEditStake, Exists
<1>3. s' = UpdateValidatorStake([t EXCEPT !.account[v] = @ - add], new)
  BY DEF HandleMessageEditStake, Apply
<1> HIDE DEF t, x, add
<1>4. [t EXCEPT !.account[v] = @ - add] = t1
  BY <1>1 DEF x, IsState, Fields
<1>5. Alike(t, t1)
  BY <1>1 DEF Alike, IsState, Fields
<1> HIDE DEF t1
<1>6. Good(t1, height) /\ t1.validators = t.validators
  BY <1>1, <1>5, AlikeIsGood DEF Alike
<1>7. IsRecord(old)
  BY <1>1, <1>2 DEF Good, Formed
<1>8. DOMAIN new = {v} /\ new[v] = r
  OBVIOUS
<1> HIDE DEF old, new
<1>9. /\ IsRecord(r) /\ r.paused = old.paused /\ r.unstaking = old.unstaking
      /\ r.delegate = old.delegate
  BY ONLY <1>7 DEF IsRecord, RecordFields
<1> HIDE DEF r
<1>10. /\ DOMAIN new \subseteq DOMAIN t1.validators
       /\ \A u \in DOMAIN new :
            /\ IsRecord(new[u])
            /\ new[u].paused = t1.validators[u].paused
            /\ new[u].unstaking = t1.validators[u].unstaking
            /\ new[u].delegate = t1.validators[u].delegate
  BY <1>2, <1>6, <1>8, <1>9 DEF old
<1>11. Keeps(t1, s')
  BY <1>3, <1>4, <1>6, <1>10, UpdateIsGood, FinalIsKept DEF Keeps
<1> QED
  BY <1>1, <1>5, <1>11, AlikeTwice, KeepsAfterAlike

\* Unstaking, pausing and unpausing.
LEMMA UnstakeKeeps ==
    ASSUME height \in Nat \ {0}, Good(s, height), NEW v, HandleMessageUnstake(v)
    PROVE  Keeps(s, s')
<1> DEFINE t == AccountDeductFees(v)
           n == height + UnstakingBlocksOf(t.validators[v])
           at == [u \in {v} |-> n]
<1>1. Alike(s, t) /\ Good(t, height)
  BY FeesAreAlike
<1>2. v \in DOMAIN t.validators /\ t.validators[v].unstaking = 0
  BY DEF HandleMessageUnstake, Exists, Unstaking
<1>3. s' = SetValidatorUnstaking(t, at)
  BY DEF HandleMessageUnstake, Apply
<1> HIDE DEF t
<1>4. n \in Nat \ {0} /\ n >= height
  BY PeriodsArePositive
<1> HIDE DEF n
<1>5. /\ DOMAIN at \subseteq DOMAIN t.validators
      /\ \A u \in DOMAIN at : /\ at[u] \in Nat \ {0} /\ at[u] >= height
                              /\ t.validators[u].unstaking = 0
  BY <1>2, <1>4
<1> HIDE DEF at
<1>6. Keeps(t, s')
  BY <1>1, <1>3, <1>5, UnstakingIsGood, FinalIsKept DEF Keeps
<1> QED
  BY <1>1, <1>6, KeepsAfterAlike

\* Pausing.
LEMMA PauseKeeps ==
    ASSUME height \in Nat \ {0}, Good(s, height), NEW v, HandleMessagePause(v)
    PROVE  Keeps(s, s')
<1> DEFINE t == AccountDeductFees(v)
           m == height + MaxPauseBlocks
<1>1. Alike(s, t) /\ Good(t, height)
  BY FeesAreAlike
<1>2. CanPause(t, v)
  BY DEF HandleMessagePause
<1>3. s' = SetValidatorPaused(t, {v}, m)
  BY DEF HandleMessagePause, Apply
<1> HIDE DEF t
<1>4. m \in Nat \ {0} /\ m >= height
  BY ParametersAreValid
<1> HIDE DEF m
<1>5. {v} \subseteq DOMAIN t.validators /\ \A u \in {v} : CanPause(t, u)
  BY <1>2 DEF CanPause, Exists
<1>6. Keeps(t, s')
  BY <1>1, <1>3, <1>4, <1>5, PausingIsGood, FinalIsKept DEF Keeps
<1> QED
  BY <1>1, <1>6, KeepsAfterAlike

\* Unpausing.
LEMMA UnpauseKeeps ==
    ASSUME height \in Nat \ {0}, Good(s, height), NEW v, HandleMessageUnpause(v)
    PROVE  Keeps(s, s')
<1> DEFINE t == AccountDeductFees(v)
<1>1. Alike(s, t) /\ Good(t, height)
  BY FeesAreAlike
<1>2. v \in DOMAIN t.validators /\ s' = SetValidatorUnpaused(t, v)
  BY DEF HandleMessageUnpause, Apply, Exists
<1> HIDE DEF t
<1>3. Keeps(t, s')
  BY <1>1, <1>2, UnpausingIsGood, FinalIsKept DEF Keeps
<1> QED
  BY <1>1, <1>3, KeepsAfterAlike

-----------------------------------------------------------------------------
\* The state of the genesis file is good: its records are new and the indexes
\* are empty.
LEMMA GenesisIsGood ==
    Good(Genesis, 1)
<1> DEFINE first == [v \in {u \in Val : Stake[u] > 0} |->
                       NewValidator(Stake[v], {Self}, FALSE, TRUE)]
           pool == [p \in Pool |-> 0]
           none == [v \in Val |-> 0]
           total == SumFunction(Balance) + StakeOf(first)
           zero == [c \in Chain |-> 0]
           empty == [validators |-> Nothing,
                     unstaking |-> {}, paused |-> {},
                     account |-> Balance, pool |-> pool, nonSigner |-> none,
                     total |-> total, staked |-> 0, delegated |-> 0,
                     committeeStaked |-> zero, committeeDelegated |-> zero]
<1>1. Genesis = AddValidators(empty, first)
  BY DEF Genesis
<1>2. /\ DOMAIN first \subseteq Val
      /\ \A v \in DOMAIN first : /\ IsRecord(first[v]) /\ first[v].paused = 0
                                 /\ first[v].unstaking = 0
  <2>1. DOMAIN first \subseteq Val
    OBVIOUS
  <2>2. ASSUME NEW v \in DOMAIN first
        PROVE  /\ IsRecord(first[v]) /\ first[v].paused = 0
               /\ first[v].unstaking = 0
    <3>1. PICK no \in BOOLEAN, yes \in BOOLEAN : no = FALSE /\ yes = TRUE
      OBVIOUS
    <3>2. first[v] = NewValidator(Stake[v], {Self}, no, yes)
      BY <3>1
    <3> HIDE DEF first
    <3> QED
      BY <3>2, NewIsRecord
  <2> HIDE DEF first
  <2> QED
    BY <2>1, <2>2
<1> HIDE DEF first, pool, none, total, zero
<1>3. /\ IsState(empty) /\ empty.validators = Nothing
      /\ empty.unstaking = {} /\ empty.paused = {}
  BY DEF IsState, Fields
<1> HIDE DEF empty
<1>4. DOMAIN Nothing = {} /\ Nothing = [v \in {} |-> Nothing[v]]
  BY DEF Nothing
<1>5. Good(empty, 1) /\ DOMAIN first \cap DOMAIN empty.validators = {}
  BY <1>3, <1>4 DEF Good, Formed, Released, ForcedOut
<1> QED
  BY <1>1, <1>2, <1>5, AddingIsGood

\* The inductive invariant: the state is good for the block being applied.
IInv == height \in Nat \ {0} /\ Good(s, height)

\* A transaction keeps the promises of the records.
LEMMA TransactionKeeps ==
    ASSUME IInv, Transaction
    PROVE  Keeps(s, s') /\ height' = height
<1> USE DEF IInv
<1>1. PICK v \in Val :
        \/ \E w \in Val, amount \in Amounts : HandleMessageSend(v, w, amount)
        \/ \E amount \in Amounts, C \in Lists,
              delegate, compound \in BOOLEAN :
              HandleMessageStake(v, amount, C, delegate, compound)
        \/ \E amount \in Amounts, C \in Lists, compound \in BOOLEAN :
              HandleMessageEditStake(v, amount, C, compound)
        \/ HandleMessageUnstake(v)
        \/ HandleMessagePause(v)
        \/ HandleMessageUnpause(v)
        \/ \E c \in Chain, amount \in Amounts : HandleMessageSubsidy(v, c, amount)
        \/ \E amount \in Amounts, mint \in BOOLEAN :
              HandleMessageDAOTransfer(v, amount, mint)
  BY DEF Transaction
<1>2. CASE \E w \in Val, amount \in Amounts : HandleMessageSend(v, w, amount)
  BY <1>2, SendKeeps DEF HandleMessageSend, Apply
<1>3. CASE \E amount \in Amounts, C \in Lists,
              delegate, compound \in BOOLEAN :
              HandleMessageStake(v, amount, C, delegate, compound)
  <2>1. PICK amount \in Amounts, C \in Lists,
             delegate \in BOOLEAN, compound \in BOOLEAN :
             HandleMessageStake(v, amount, C, delegate, compound)
    BY <1>3
  <2>2. height' = height
    BY <2>1 DEF HandleMessageStake, Apply
  <2> QED
    BY <2>1, <2>2, StakeKeeps
<1>4. CASE \E amount \in Amounts, C \in Lists, compound \in BOOLEAN :
              HandleMessageEditStake(v, amount, C, compound)
  <2>1. PICK amount \in Amounts, C \in Lists, compound \in BOOLEAN :
             HandleMessageEditStake(v, amount, C, compound)
    BY <1>4
  <2>2. height' = height
    BY <2>1 DEF HandleMessageEditStake, Apply
  <2> QED
    BY <2>1, <2>2, EditStakeKeeps
<1>5. CASE HandleMessageUnstake(v)
  BY <1>5, UnstakeKeeps DEF HandleMessageUnstake, Apply
<1>6. CASE HandleMessagePause(v)
  BY <1>6, PauseKeeps DEF HandleMessagePause, Apply
<1>7. CASE HandleMessageUnpause(v)
  BY <1>7, UnpauseKeeps DEF HandleMessageUnpause, Apply
<1>8. CASE \E c \in Chain, amount \in Amounts : HandleMessageSubsidy(v, c, amount)
  BY <1>8, SubsidyKeeps DEF HandleMessageSubsidy, Apply
<1>9. CASE \E amount \in Amounts, mint \in BOOLEAN :
              HandleMessageDAOTransfer(v, amount, mint)
  BY <1>9, DAOTransferKeeps DEF HandleMessageDAOTransfer, Apply
<1> QED
  BY <1>1, <1>2, <1>3, <1>4, <1>5, <1>6, <1>7, <1>8, <1>9

\* The beginning of a block: minting, then the certificate's misbehaviour.
LEMMA BeginIsGood ==
    ASSUME IInv, BeginBlock
    PROVE  /\ height' = height /\ Good(s', height) /\ Kept(s, s')
           /\ s'.account = s.account
<1> USE DEF IInv
<1> DEFINE t == FundCommitteeRewardPools(s)
<1>1. Unpaid(s, t)
  BY MintingIsAlike DEF Good, Formed
<1>2. Good(t, height) /\ Final(s, t) /\ t.account = s.account
  BY <1>1, AlikeIsGood DEF Unpaid
<1>3. /\ height' = height
      /\ \E missed, evidence : s' = HandleByzantine(t, missed, evidence)
  BY DEF BeginBlock
<1> HIDE DEF t
<1>4. Good(s', height) /\ Final(t, s') /\ s'.account = t.account
  BY <1>2, <1>3, ByzantineIsGood
<1> QED
  BY <1>2, <1>3, <1>4, FinalTwice, FinalIsKept

\* The end of a block: rewards, forced unstaking, releases.
LEMMA EndIsGood ==
    ASSUME IInv, EndBlock
    PROVE  /\ height' = height + 1 /\ Good(s', height + 1) /\ Kept(s, s')
           /\ Orderly(s, s') /\ Timely(s, s')
<1> USE DEF IInv
<1> DEFINE t == DistributeCommitteeRewards(s)
           u == ForceUnstakeMaxPaused(t)
<1>1. height' = height + 1 /\ s' = DeleteFinishedUnstaking(u)
  BY DEF EndBlock, AtEnd
<1>2. /\ Good(t, height) /\ Final(s, t)
      /\ DOMAIN t.validators = DOMAIN s.validators
  BY RewardsAreGood
<1> HIDE DEF t
<1>3. /\ Good(u, height) /\ Final(t, u)
      /\ DOMAIN u.validators = DOMAIN t.validators
      /\ \A v \in DOMAIN u.validators : u.validators[v].paused # height
  BY <1>2, ForcingIsGood
<1> HIDE DEF u
<1>4. /\ Good(s', height + 1) /\ Final(u, s')
      /\ \A v \in Val : Lost(u, s', v) => <<height, v>> \in u.unstaking
      /\ Orderly(u, s')
  BY <1>1, <1>3, ReleasingIsGood
<1>5. Final(s, u) /\ DOMAIN u.validators = DOMAIN s.validators
  BY <1>2, <1>3, FinalTwice
<1>6. /\ StrayUnstaking(u) \subseteq StrayUnstaking(s)
      /\ StrayPaused(u) \subseteq StrayPaused(s)
  BY <1>5 DEF Final, Neat, Lost
<1>7. \A v : Lost(u, s', v) <=> Lost(s, s', v)
  BY <1>5 DEF Lost
<1>8. Orderly(s, s')
  BY <1>4, <1>6, <1>7 DEF Orderly
<1>9. Timely(s, s')
  <2> SUFFICES ASSUME NEW v \in DOMAIN s.validators, Lost(s, s', v),
                      s.validators[v].unstaking # 0,
                      <<height, v>> \notin StrayUnstaking(s)
               PROVE  s.validators[v].unstaking = height
    BY DEF Timely
  <2>1. v \in Val
    BY DEF Good, Formed
  <2>2. <<height, v>> \in u.unstaking /\ <<height, v>> \notin StrayUnstaking(u)
    BY <2>1, <1>4, <1>6, <1>7
  <2>3. u.validators[v].unstaking = height
    BY <2>2 DEF StrayUnstaking
  <2> QED
    BY <2>3, <1>5 DEF Final
<1> QED
  BY <1>1, <1>4, <1>5, <1>8, <1>9, FinalTwice, FinalIsKept

\* Every step keeps the inductive invariant and the heights of the unstaking.
\* It loses no record, or it pays nothing out, or it ends a block.
LEMMA StepKeeps ==
    ASSUME IInv, [Next]_vars
    PROVE  /\ IInv' /\ Kept(s, s')
           /\ \/ DOMAIN s.validators \subseteq DOMAIN s'.validators
              \/ s'.account = s.account
              \/ height' = height + 1 /\ Orderly(s, s') /\ Timely(s, s')
<1>1. CASE UNCHANGED vars \/ BeginFirstBlock
  <2>1. height' = height /\ s' = s
    BY <1>1 DEF vars, BeginFirstBlock
  <2>2. Kept(s, s')
    BY <2>1, FinalStutters, FinalIsKept
  <2> QED
    BY <2>1, <2>2 DEF IInv
<1>2. CASE BeginBlock
  BY <1>2, BeginIsGood DEF IInv
<1>3. CASE Transaction
  BY <1>3, TransactionKeeps DEF IInv, Keeps
<1>4. CASE EndBlock
  BY <1>4, EndIsGood DEF IInv
<1> QED
  BY <1>1, <1>2, <1>3, <1>4 DEF Next

\* Whatever is staked, edited, paused, unpaused, unstaked, rewarded and slashed,
\* and whatever entries a slash leaves behind in the indexes, the working state
\* stays well formed and its indexes cover its records.
THEOREM IndexesCoverRecords ==
    Spec => []IInv
<1>1. Init => IInv
  BY GenesisIsGood DEF Init, IInv
<1>2. IInv /\ [Next]_vars => IInv'
  BY StepKeeps
<1> QED
  BY <1>1, <1>2, PTL DEF Spec

\* A validator that unstakes is indexed under the height its record names, and
\* that height is still to come: DeleteFinishedUnstaking finds it.
THEOREM UnstakersAreReleasedAlways ==
    Spec => []UnstakersAreReleased
<1>1. IInv => UnstakersAreReleased
  BY DEF IInv, Good, Released, UnstakersAreReleased, Unstaking
<1> QED
  BY <1>1, IndexesCoverRecords, PTL

\* A paused validator is indexed likewise, and it is neither unstaking nor a
\* delegate: ForceUnstakeMaxPaused finds it.
THEOREM PausedAreForcedOutAlways ==
    Spec => []PausedAreForcedOut
<1>1. IInv => PausedAreForcedOut
  BY DEF IInv, Good, ForcedOut, PausedAreForcedOut, Unstaking, Paused
<1> QED
  BY <1>1, IndexesCoverRecords, PTL

\* A record that unstakes keeps the height of its release until the end of the
\* block of just that height, unless a slash takes the whole stake, or a block
\* finds a stray entry of its address: SetValidatorUnstaking, the slashes, the
\* rewards and both loops of the end of a block, in every order.
THEOREM UnstakingIsFinalAlways ==
    Spec => UnstakingIsFinal
<1>1. IInv /\ [Next]_vars =>
        [\A v \in DOMAIN s.validators : Unstaking(s, v) =>
            \/ Exists(s', v) /\ s'.validators[v].unstaking = s.validators[v].unstaking
            \/ ~Exists(s', v) /\ height' = height + 1
                              /\ s.validators[v].unstaking = height
            \/ SlashedAway(v)
            \/ ReleasedByStray(v)]_vars
  <2> SUFFICES ASSUME IInv, [Next]_vars, NEW v \in DOMAIN s.validators,
                      Unstaking(s, v)
               PROVE  \/ /\ Exists(s', v)
                         /\ s'.validators[v].unstaking = s.validators[v].unstaking
                      \/ ~Exists(s', v) /\ height' = height + 1
                                        /\ s.validators[v].unstaking = height
                      \/ SlashedAway(v)
                      \/ ReleasedByStray(v)
    OBVIOUS
  <2>1. CASE Exists(s', v)
    BY <2>1, StepKeeps DEF Kept, Unstaking, Exists
  <2>2. CASE ~Exists(s', v)
    <3>1. Exists(s, v) /\ Lost(s, s', v)
      BY <2>2 DEF Exists, Lost
    <3>2. \/ s'.account = s.account
          \/ height' = height + 1 /\ Timely(s, s')
      BY <3>1, StepKeeps DEF Lost
    <3> QED
      BY <2>2, <3>1, <3>2 DEF Timely, SlashedAway, ReleasedByStray, Unstaking
  <2> QED
    BY <2>1, <2>2
<1> QED
  BY <1>1, IndexesCoverRecords, PTL DEF Spec, UnstakingIsFinal

\* An entry that is not a record's comes from a slash that takes the whole
\* stake, or from a release by such an entry, and from no other step.
THEOREM IndexesAreKeptAlways ==
    Spec => IndexesAreKept
<1>1. IInv /\ [Next]_vars =>
        [/\ \A k \in StrayUnstaking(s') :
               k \in StrayUnstaking(s) \/ SlashedAway(k[2]) \/ ReleasedByStray(k[2])
         /\ \A k \in StrayPaused(s') :
               k \in StrayPaused(s) \/ SlashedAway(k[2]) \/ ReleasedByStray(k[2])]_vars
  <2> SUFFICES ASSUME IInv, [Next]_vars
               PROVE  /\ \A k \in StrayUnstaking(s') :
                            \/ k \in StrayUnstaking(s)
                            \/ SlashedAway(k[2]) \/ ReleasedByStray(k[2])
                      /\ \A k \in StrayPaused(s') :
                            \/ k \in StrayPaused(s)
                            \/ SlashedAway(k[2]) \/ ReleasedByStray(k[2])
    OBVIOUS
  <2>1. Neat(s, s')
    BY StepKeeps DEF Kept
  <2>2. \A v : Lost(s, s', v) => Exists(s, v) /\ ~Exists(s', v)
    BY DEF Lost, Exists
  <2>3. CASE DOMAIN s.validators \subseteq DOMAIN s'.validators
    BY <2>1, <2>3 DEF Neat, Lost
  <2>4. CASE s'.account = s.account
    BY <2>1, <2>2, <2>4 DEF Neat, SlashedAway
  <2>5. CASE height' = height + 1 /\ Orderly(s, s')
    BY <2>2, <2>5 DEF Orderly, ReleasedByStray
  <2> QED
    BY <2>3, <2>4, <2>5, StepKeeps
<1> QED
  BY <1>1, IndexesCoverRecords, PTL DEF Spec, IndexesAreKept
-----------------------------------------------------------------------------
(* Sums of stakes, each taken over all addresses. *)

\* a record that the sums can count
IsStaked(r) ==
    /\ IsRecord(r)
    /\ r.stake \in Nat /\ r.committees \in SUBSET Chain /\ r.compound \in BOOLEAN

Records(f) ==
    /\ DOMAIN f \subseteq Val /\ f = [v \in DOMAIN f |-> f[v]]
    /\ \A v \in DOMAIN f : IsStaked(f[v])

\* the stakes of the records that serve all the committees in C: of everybody (k is
\* "all") or of the delegates
Counts(r, C, k) == C \subseteq r.committees /\ (k = "delegates" => r.delegate)
Share(f, C, k) ==
    [v \in Val |-> IF v \in DOMAIN f /\ Counts(f[v], C, k) THEN f[v].stake ELSE 0]
Total(f, C, k) == SumFunctionOnSet(Share(f, C, k), Val)

\* A share is a number of tokens.
LEMMA ShareType ==
    ASSUME NEW f, Records(f), NEW C, NEW k
    PROVE  \A v \in Val : /\ Share(f, C, k)[v] \in Nat
                          /\ Share(f, C, k)[v] = IF v \in DOMAIN f /\ Counts(f[v], C, k)
                                                 THEN f[v].stake ELSE 0
BY DEF Share, Records, IsStaked

\* So is a total.
LEMMA TotalType ==
    ASSUME NEW f, Records(f), NEW C, NEW k
    PROVE  Total(f, C, k) \in Nat
BY ShareType, SumType, SetsAreFinite DEF Total

\* A sum of stakes, as the supply tracker adds them up, is one over all addresses.
LEMMA PartIsTotal ==
    ASSUME NEW f, Records(f), NEW C, NEW k, NEW g,
           \A v : v \in DOMAIN g <=> v \in DOMAIN f /\ Counts(f[v], C, k),
           \A v \in DOMAIN g : g[v] = f[v]
    PROVE  StakeOf(g) = Total(f, C, k)
<1> DEFINE a == [v \in DOMAIN g |-> g[v].stake]
<1>1. StakeOf(g) = SumFunctionOnSet(a, DOMAIN g)
  BY DEF StakeOf, SumFunction
<1>2. DOMAIN g \in SUBSET Val /\ \A v \in DOMAIN g : a[v] = f[v].stake /\ a[v] \in Nat
  BY DEF Records, IsStaked
<1> HIDE DEF a
<1>3. SumFunctionOnSet(a, DOMAIN g) = SumFunctionOnSet(On(a, DOMAIN g, Val), Val)
  BY <1>2, SumOn, SetsAreFinite
<1>4. \A v \in Val : On(a, DOMAIN g, Val)[v] = Share(f, C, k)[v]
  BY <1>2, ShareType DEF On
<1>5. SumFunctionOnSet(On(a, DOMAIN g, Val), Val) = SumFunctionOnSet(Share(f, C, k), Val)
  BY <1>4, ShareType, SumSame, SetsAreFinite
<1> QED
  BY <1>1, <1>3, <1>5 DEF Total

\* The four sums that the supply keeps are such totals.
LEMMA TrackedTotals ==
    ASSUME NEW f, Records(f)
    PROVE  /\ StakeOf(f) = Total(f, {}, "all")
           /\ StakeOf(Delegates(f)) = Total(f, {}, "delegates")
           /\ \A c : StakeIn(f, c) = Total(f, {c}, "all")
           /\ \A c : StakeIn(Delegates(f), c) = Total(f, {c}, "delegates")
<1>1. StakeOf(f) = Total(f, {}, "all")
  <2>1. \A v : v \in DOMAIN f <=> v \in DOMAIN f /\ Counts(f[v], {}, "all")
    BY DEF Counts
  <2> QED
    BY <2>1, PartIsTotal
<1> DEFINE D == {v \in DOMAIN f : f[v].delegate}
           g == Delegates(f)
<1>2. DOMAIN g = D /\ \A v \in D : g[v] = f[v]
  BY DEF Delegates, Restrict
<1>3. \A v : v \in DOMAIN g <=> v \in DOMAIN f /\ Counts(f[v], {}, "delegates")
  BY <1>2 DEF Counts
<1> HIDE DEF g
<1>4. StakeOf(g) = Total(f, {}, "delegates")
  BY <1>2, <1>3, PartIsTotal
<1>5. ASSUME NEW c
      PROVE  StakeIn(f, c) = Total(f, {c}, "all")
  <2> DEFINE h == Restrict(f, {v \in DOMAIN f : c \in f[v].committees})
  <2>1. /\ \A v : v \in DOMAIN h <=> v \in DOMAIN f /\ Counts(f[v], {c}, "all")
        /\ \A v \in DOMAIN h : h[v] = f[v]
    BY DEF Restrict, Counts
  <2>2. StakeIn(f, c) = StakeOf(h)
    BY DEF StakeIn
  <2> HIDE DEF h
  <2> QED
    BY <2>1, <2>2, PartIsTotal
<1>6. ASSUME NEW c
      PROVE  StakeIn(g, c) = Total(f, {c}, "delegates")
  <2> DEFINE h == Restrict(g, {v \in DOMAIN g : c \in g[v].committees})
  <2>1. /\ DOMAIN h = {v \in DOMAIN g : c \in g[v].committees}
        /\ \A v \in DOMAIN h : h[v] = g[v]
    BY DEF Restrict
  <2>2. StakeIn(g, c) = StakeOf(h)
    BY DEF StakeIn
  <2> HIDE DEF h
  <2>3. /\ \A v : v \in DOMAIN h <=> v \in DOMAIN f /\ Counts(f[v], {c}, "delegates")
        /\ \A v \in DOMAIN h : h[v] = f[v]
    BY <1>2, <2>1 DEF Counts
  <2> QED
    BY <2>2, <2>3, PartIsTotal
<1> QED
  BY <1>1, <1>4, <1>5, <1>6 DEF g

\* No records, no stake.
LEMMA NothingCounts ==
    /\ Records(Nothing) /\ DOMAIN Nothing = {}
    /\ \A C, k : Total(Nothing, C, k) = 0
<1>1. DOMAIN Nothing = {} /\ Records(Nothing)
  BY DEF Nothing, Records
<1>2. ASSUME NEW C, NEW k
      PROVE  Total(Nothing, C, k) = 0
  <2>1. \A v \in Val : Share(Nothing, C, k)[v] = 0
    BY <1>1, ShareType
  <2> QED
    BY <2>1, SumZero, SetsAreFinite DEF Total
<1> QED
  BY <1>1, <1>2

\* g is f with the records of new in the place of those of old
Replaces(f, old, new, g) ==
    /\ DOMAIN g = DOMAIN f \cup DOMAIN new /\ DOMAIN old = DOMAIN f \cap DOMAIN new
    /\ \A v \in DOMAIN new : g[v] = new[v]
    /\ \A v \in DOMAIN f \ DOMAIN new : g[v] = f[v]
    /\ \A v \in DOMAIN old : old[v] = f[v]

\* What replacing records does to a total.
LEMMA ReplacedTotal ==
    ASSUME NEW f, Records(f), NEW old, Records(old), NEW new, Records(new),
           NEW g, Records(g), Replaces(f, old, new, g), NEW C, NEW k
    PROVE  Total(g, C, k) + Total(old, C, k) = Total(f, C, k) + Total(new, C, k)
<1>1. \A v \in Val : Share(g, C, k)[v] + Share(old, C, k)[v]
                        = Share(f, C, k)[v] + Share(new, C, k)[v]
  <2> TAKE v \in Val
  <2>1. CASE v \in DOMAIN new
    <3>1. CASE v \in DOMAIN f
      BY <2>1, <3>1, ShareType DEF Replaces
    <3>2. CASE v \notin DOMAIN f
      BY <2>1, <3>2, ShareType DEF Replaces
    <3> QED
      BY <3>1, <3>2
  <2>2. CASE v \notin DOMAIN new
    BY <2>2, ShareType DEF Replaces
  <2> QED
    BY <2>1, <2>2
<1> QED
  BY <1>1, ShareType, SumLinear, SetsAreFinite DEF Total

\* Records with the same stakes, committees and kind have the same sums.
LEMMA SameTotal ==
    ASSUME NEW f, Records(f), NEW g, Records(g), DOMAIN g = DOMAIN f, NEW C, NEW k,
           \A v \in DOMAIN f : /\ g[v].stake = f[v].stake
                               /\ g[v].committees = f[v].committees
                               /\ g[v].delegate = f[v].delegate
    PROVE  Total(g, C, k) = Total(f, C, k)
<1>1. \A v \in Val : Share(g, C, k)[v] = Share(f, C, k)[v]
  BY ShareType DEF Counts
<1> QED
  BY <1>1, ShareType, SumSame, SetsAreFinite DEF Total

\* Records that keep their committees and lose stake have smaller sums.
LEMMA LessTotal ==
    ASSUME NEW f, Records(f), NEW g, Records(g), DOMAIN g = DOMAIN f, NEW C, NEW k,
           \A v \in DOMAIN f : /\ g[v].stake <= f[v].stake
                               /\ g[v].committees = f[v].committees
                               /\ g[v].delegate = f[v].delegate
    PROVE  Total(g, C, k) <= Total(f, C, k)
<1>1. \A v \in Val : Share(g, C, k)[v] <= Share(f, C, k)[v]
  BY ShareType DEF Counts, Records, IsStaked
<1> QED
  BY <1>1, ShareType, SumMono, SetsAreFinite DEF Total

-----------------------------------------------------------------------------
(* The trackers of the supply, and the surplus. *)

\* accounts and pools hold numbers of tokens
Purse(t) ==
    /\ t.account \in [Val -> Nat] /\ t.pool \in [Pool -> Nat]
    /\ t.nonSigner \in [Val -> Nat] /\ t.total \in Int

\* the trackers of the committees are exact
Tallied(t) ==
    /\ t.staked = Total(t.validators, {}, "all")
    /\ t.committeeStaked = [c \in Chain |-> Total(t.validators, {c}, "all")]

\* those of the delegates may be too high
Covered(t) ==
    /\ t.delegated \in Int /\ t.delegated >= Total(t.validators, {}, "delegates")
    /\ t.committeeDelegated \in [Chain -> Int]
    /\ \A c \in Chain : t.committeeDelegated[c] >= Total(t.validators, {c}, "delegates")

Tracks(t) == IsState(t) /\ Records(t.validators) /\ Purse(t) /\ Tallied(t) /\ Covered(t)

\* by how much the total supply exceeds what accounts, pools and stakes hold
Surplus(t) ==
    t.total - (SumFunctionOnSet(t.account, Val) + SumFunctionOnSet(t.pool, Pool)
                  + Total(t.validators, {}, "all"))

SamePurse(t, u) ==
    /\ u.account = t.account /\ u.pool = t.pool
    /\ u.nonSigner = t.nonSigner /\ u.total = t.total

SameDelegations(t, u) ==
    u.delegated = t.delegated /\ u.committeeDelegated = t.committeeDelegated

\* What re-counting the supply writes: the trackers, and nothing else.
LEMMA CommitteesFields ==
    ASSUME NEW t, IsState(t), NEW old, NEW new
    PROVE  LET u == UpdateCommittees(t, old, new)
           IN  /\ IsState(u) /\ u.validators = t.validators
               /\ SamePurse(t, u) /\ SameDelegations(t, u)
               /\ u.staked = t.staked - StakeOf(old) + StakeOf(new)
               /\ u.committeeStaked =
                    [c \in Chain |-> t.committeeStaked[c] - StakeIn(old, c) + StakeIn(new, c)]
<1> DEFINE x == t.staked - StakeOf(old) + StakeOf(new)
           y == [c \in Chain |-> t.committeeStaked[c] - StakeIn(old, c) + StakeIn(new, c)]
<1>1. UpdateCommittees(t, old, new) = [t EXCEPT !.staked = x, !.committeeStaked = y]
  BY DEF UpdateCommittees
<1> HIDE DEF x, y
<1>2. LET u == [t EXCEPT !.staked = x, !.committeeStaked = y]
      IN  /\ IsState(u) /\ u.validators = t.validators
          /\ SamePurse(t, u) /\ SameDelegations(t, u)
          /\ u.staked = x /\ u.committeeStaked = y
  BY DEF IsState, Fields, SamePurse, SameDelegations
<1> QED
  BY <1>1, <1>2 DEF x, y

\* The same for the trackers of the delegates.
LEMMA DelegationsFields ==
    ASSUME NEW t, IsState(t), NEW old, NEW new
    PROVE  LET u == UpdateDelegations(t, old, new)
           IN  /\ IsState(u) /\ u.validators = t.validators /\ SamePurse(t, u)
               /\ u.staked = t.staked /\ u.committeeStaked = t.committeeStaked
               /\ u.delegated = t.delegated - StakeOf(Delegates(old))
                                            + StakeOf(Delegates(new))
               /\ u.committeeDelegated =
                    [c \in Chain |-> t.committeeDelegated[c] - StakeIn(Delegates(old), c)
                                                         + StakeIn(Delegates(new), c)]
<1> DEFINE x == t.delegated - StakeOf(Delegates(old)) + StakeOf(Delegates(new))
           y == [c \in Chain |-> t.committeeDelegated[c] - StakeIn(Delegates(old), c)
                                                     + StakeIn(Delegates(new), c)]
<1>1. UpdateDelegations(t, old, new) = [t EXCEPT !.delegated = x, !.committeeDelegated = y]
  BY DEF UpdateDelegations
<1> HIDE DEF x, y
<1>2. LET u == [t EXCEPT !.delegated = x, !.committeeDelegated = y]
      IN  /\ IsState(u) /\ u.validators = t.validators /\ SamePurse(t, u)
          /\ u.staked = t.staked /\ u.committeeStaked = t.committeeStaked
          /\ u.delegated = x /\ u.committeeDelegated = y
  BY DEF IsState, Fields, SamePurse
<1> QED
  BY <1>1, <1>2 DEF x, y

SameTrackers(t, u) ==
    /\ u.staked = t.staked /\ u.committeeStaked = t.committeeStaked
    /\ SameDelegations(t, u)

\* Writing records leaves purse and trackers.
LEMMA RecordsFields ==
    ASSUME NEW t, IsState(t), NEW x, NEW u, u = [t EXCEPT !.validators = x]
    PROVE  IsState(u) /\ u.validators = x /\ SamePurse(t, u) /\ SameTrackers(t, u)
BY DEF IsState, Fields, SamePurse, SameTrackers, SameDelegations

\* What SetValidators writes.
LEMMA SetFields ==
    ASSUME NEW t, IsState(t), NEW new
    PROVE  LET u == SetValidators(t, new)
           IN  /\ IsState(u) /\ SamePurse(t, u) /\ SameTrackers(t, u)
               /\ DOMAIN u.validators = DOMAIN t.validators \cup DOMAIN new
               /\ u.validators = [v \in DOMAIN u.validators |-> u.validators[v]]
               /\ \A v \in DOMAIN new : u.validators[v] = new[v]
               /\ \A v \in DOMAIN t.validators \ DOMAIN new :
                     u.validators[v] = t.validators[v]
<1> DEFINE x == [v \in DOMAIN t.validators \cup DOMAIN new |->
                    IF v \in DOMAIN new THEN new[v] ELSE t.validators[v]]
<1>1. SetValidators(t, new) = [t EXCEPT !.validators = x]
  BY DEF SetValidators
<1> HIDE DEF x
<1>2. LET u == SetValidators(t, new)
      IN  IsState(u) /\ SamePurse(t, u) /\ SameTrackers(t, u)
  BY <1>1, RecordsFields
<1> QED
  BY <1>2, SetRecords

\* The purse is what a surplus is made of, besides the stakes.
LEMMA SurplusType ==
    ASSUME NEW t, Records(t.validators), Purse(t)
    PROVE  /\ SumFunctionOnSet(t.account, Val) \in Nat
           /\ SumFunctionOnSet(t.pool, Pool) \in Nat
           /\ Total(t.validators, {}, "all") \in Nat
           /\ Surplus(t) \in Int
<1>1. IsFiniteSet(Pool)
  BY SetsAreFinite, FS_AddElement DEF Pool
<1>2. /\ SumFunctionOnSet(t.account, Val) \in Nat
      /\ SumFunctionOnSet(t.pool, Pool) \in Nat
  BY <1>1, SetsAreFinite, SumType DEF Purse
<1>3. Total(t.validators, {}, "all") \in Nat
  BY TotalType
<1> QED
  BY <1>2, <1>3 DEF Surplus, Purse

\* The same purse with other records.
LEMMA SurplusMoves ==
    ASSUME NEW t, Records(t.validators), Purse(t), NEW u, Records(u.validators),
           SamePurse(t, u), NEW x \in Int,
           Total(u.validators, {}, "all") + x = Total(t.validators, {}, "all")
    PROVE  Surplus(u) = Surplus(t) + x
<1>1. /\ SumFunctionOnSet(t.account, Val) \in Nat
      /\ SumFunctionOnSet(t.pool, Pool) \in Nat /\ t.total \in Int
  BY SurplusType DEF Purse
<1>2. Total(t.validators, {}, "all") \in Nat /\ Total(u.validators, {}, "all") \in Nat
  BY TotalType
<1>3. Surplus(u) = t.total - (SumFunctionOnSet(t.account, Val) + SumFunctionOnSet(t.pool, Pool)
                  + Total(u.validators, {}, "all"))
  BY DEF Surplus, SamePurse
<1> HIDE DEF Total
<1> QED
  BY <1>1, <1>2, <1>3 DEF Surplus

\* The records of new take the place of those of old, and the trackers are told.
LEMMA ReplacingTracks ==
    ASSUME NEW t, Tracks(t), NEW old, Records(old), NEW new, Records(new),
           DOMAIN old = DOMAIN t.validators \cap DOMAIN new,
           \A v \in DOMAIN old : old[v] = t.validators[v]
    PROVE  LET u == SetValidators(Tally(t, old, new), new)
           IN  /\ Tracks(u) /\ SamePurse(t, u)
               /\ Replaces(t.validators, old, new, u.validators)
               /\ Surplus(u) = Surplus(t) + (Total(old, {}, "all") - Total(new, {}, "all"))
<1> DEFINE w == UpdateCommittees(t, old, new)
           x == UpdateDelegations(w, old, new)
           u == SetValidators(x, new)
           f == t.validators
           g == u.validators
<1>1. SetValidators(Tally(t, old, new), new) = u
  BY DEF Tally
<1>2. /\ IsState(w) /\ w.validators = f /\ SamePurse(t, w) /\ SameDelegations(t, w)
      /\ w.staked = t.staked - StakeOf(old) + StakeOf(new)
      /\ w.committeeStaked =
            [c \in Chain |-> t.committeeStaked[c] - StakeIn(old, c) + StakeIn(new, c)]
  BY CommitteesFields DEF Tracks
<1> HIDE DEF w
<1>3. /\ IsState(x) /\ x.validators = f /\ SamePurse(w, x)
      /\ x.staked = w.staked /\ x.committeeStaked = w.committeeStaked
      /\ x.delegated = w.delegated - StakeOf(Delegates(old)) + StakeOf(Delegates(new))
      /\ x.committeeDelegated =
            [c \in Chain |-> w.committeeDelegated[c] - StakeIn(Delegates(old), c)
                                                 + StakeIn(Delegates(new), c)]
  BY <1>2, DelegationsFields
<1> HIDE DEF x
<1>4. /\ IsState(u) /\ SamePurse(x, u) /\ SameTrackers(x, u)
      /\ DOMAIN g = DOMAIN f \cup DOMAIN new
      /\ g = [v \in DOMAIN g |-> g[v]]
      /\ \A v \in DOMAIN new : g[v] = new[v]
      /\ \A v \in DOMAIN f \ DOMAIN new : g[v] = f[v]
  BY <1>3, SetFields
<1> HIDE DEF u
<1>5. Records(f) /\ Records(g)
  BY <1>4 DEF Tracks, Records
<1>6. Replaces(f, old, new, g)
  BY <1>4 DEF Replaces
<1> HIDE DEF f, g
<1>7. ASSUME NEW C, NEW k
      PROVE  /\ Total(f, C, k) \in Nat /\ Total(g, C, k) \in Nat
             /\ Total(old, C, k) \in Nat /\ Total(new, C, k) \in Nat
             /\ Total(g, C, k) + Total(old, C, k) = Total(f, C, k) + Total(new, C, k)
  BY <1>5, <1>6, TotalType, ReplacedTotal
<1>8. Tallied(u)
  <2>1. u.staked = Total(f, {}, "all") - Total(old, {}, "all") + Total(new, {}, "all")
    BY <1>2, <1>3, <1>4, TrackedTotals DEF Tracks, Tallied, SameTrackers, f
  <2>2. u.staked = Total(g, {}, "all")
    BY <1>7, <2>1
  <2>3. u.committeeStaked = [c \in Chain |-> Total(f, {c}, "all") - Total(old, {c}, "all")
                                                            + Total(new, {c}, "all")]
    BY <1>2, <1>3, <1>4, TrackedTotals DEF Tracks, Tallied, SameTrackers, f
  <2>4. u.committeeStaked = [c \in Chain |-> Total(g, {c}, "all")]
    BY <1>7, <2>3
  <2> QED
    BY <2>2, <2>4 DEF Tallied, g
<1>9. Covered(u)
  <2>1. u.delegated = t.delegated - Total(old, {}, "delegates") + Total(new, {}, "delegates")
    BY <1>2, <1>3, <1>4, TrackedTotals DEF SameTrackers, SameDelegations
  <2>2. u.delegated \in Int /\ u.delegated >= Total(g, {}, "delegates")
    BY <1>7, <2>1 DEF Tracks, Covered, f
  <2>3. u.committeeDelegated = [c \in Chain |-> t.committeeDelegated[c]
                 - Total(old, {c}, "delegates") + Total(new, {c}, "delegates")]
    BY <1>2, <1>3, <1>4, TrackedTotals DEF SameTrackers, SameDelegations
  <2>4. \A c \in Chain : t.committeeDelegated[c] \in Int
                         /\ t.committeeDelegated[c] >= Total(f, {c}, "delegates")
    BY DEF Tracks, Covered, f
  <2>5. \A c \in Chain : /\ u.committeeDelegated[c] \in Int
                         /\ u.committeeDelegated[c] >= Total(g, {c}, "delegates")
    BY <1>7, <2>3, <2>4
  <2>6. u.committeeDelegated \in [Chain -> Int]
    BY <2>3, <2>5
  <2> QED
    BY <2>2, <2>5, <2>6 DEF Covered, g
<1>10. SamePurse(t, u) /\ Purse(u)
  BY <1>2, <1>3, <1>4 DEF SamePurse, Tracks, Purse
<1>11. Surplus(u) = Surplus(t) + (Total(old, {}, "all") - Total(new, {}, "all"))
  <2>1. LET n == Total(old, {}, "all") - Total(new, {}, "all")
        IN  n \in Int /\ Total(g, {}, "all") + n = Total(f, {}, "all")
    BY <1>7
  <2> QED
    BY <1>5, <1>10, <2>1, SurplusMoves DEF Tracks, f, g
<1> QED
  BY <1>1, <1>4, <1>5, <1>6, <1>8, <1>9, <1>10, <1>11 DEF Tracks, f, g

\* Records go, and the trackers are told.
LEMMA DeletingTracks ==
    ASSUME NEW t, Tracks(t), NEW D, D \subseteq DOMAIN t.validators
    PROVE  LET u == DeleteValidators(t, D)
           IN  /\ Tracks(u) /\ SamePurse(t, u)
               /\ DOMAIN u.validators = DOMAIN t.validators \ D
               /\ \A v \in DOMAIN u.validators : u.validators[v] = t.validators[v]
               /\ Surplus(u) = Surplus(t) + Total(Restrict(t.validators, D), {}, "all")
<1> DEFINE old == Restrict(t.validators, D)
           w == UpdateCommittees(t, old, Nothing)
           x == UpdateDelegations(w, old, Nothing)
           f == t.validators
           g == Restrict(f, DOMAIN f \ D)
           u == [x EXCEPT !.validators = g]
<1>2. /\ IsState(w) /\ w.validators = f /\ SamePurse(t, w) /\ SameDelegations(t, w)
      /\ w.staked = t.staked - StakeOf(old) + StakeOf(Nothing)
      /\ w.committeeStaked =
            [c \in Chain |-> t.committeeStaked[c] - StakeIn(old, c) + StakeIn(Nothing, c)]
  BY CommitteesFields DEF Tracks
<1> HIDE DEF w
<1>3. /\ IsState(x) /\ x.validators = f /\ SamePurse(w, x)
      /\ x.staked = w.staked /\ x.committeeStaked = w.committeeStaked
      /\ x.delegated = w.delegated - StakeOf(Delegates(old)) + StakeOf(Delegates(Nothing))
      /\ x.committeeDelegated =
            [c \in Chain |-> w.committeeDelegated[c] - StakeIn(Delegates(old), c)
                                                 + StakeIn(Delegates(Nothing), c)]
  BY <1>2, DelegationsFields
<1>1. DeleteValidators(t, D) = u
  BY <1>3 DEF DeleteValidators, Tally, w
<1> HIDE DEF x
<1>4a. /\ DOMAIN g = DOMAIN f \ D /\ g = [v \in DOMAIN g |-> g[v]]
       /\ \A v \in DOMAIN g : g[v] = f[v]
       /\ DOMAIN old = D /\ old = [v \in DOMAIN old |-> old[v]]
       /\ \A v \in D : old[v] = f[v]
  BY DEF Restrict
<1> HIDE DEF g, old
<1>4. IsState(u) /\ SamePurse(x, u) /\ SameTrackers(x, u) /\ u.validators = g
  BY <1>3, RecordsFields
<1> HIDE DEF u
<1>5. Records(f) /\ Records(g) /\ Records(old)
  BY <1>4a DEF Tracks, Records
<1> HIDE DEF f
<1>6. Replaces(g, Nothing, old, f)
  BY <1>4a, NothingCounts DEF Replaces, f
<1>7. ASSUME NEW C, NEW k
      PROVE  /\ Total(f, C, k) \in Nat /\ Total(g, C, k) \in Nat /\ Total(old, C, k) \in Nat
             /\ Total(Nothing, C, k) = 0
             /\ Total(f, C, k) = Total(g, C, k) + Total(old, C, k)
  <2>1. /\ Total(f, C, k) \in Nat /\ Total(g, C, k) \in Nat /\ Total(old, C, k) \in Nat
        /\ Total(Nothing, C, k) = 0
    BY <1>5, TotalType, NothingCounts
  <2>2. Total(f, C, k) + Total(Nothing, C, k) = Total(g, C, k) + Total(old, C, k)
    BY <1>5, <1>6, ReplacedTotal, NothingCounts
  <2> QED
    BY <2>1, <2>2
<1>8. Tallied(u)
  <2>1. u.staked = Total(f, {}, "all") - Total(old, {}, "all") + Total(Nothing, {}, "all")
    BY <1>2, <1>3, <1>4, <1>5, TrackedTotals, NothingCounts
       DEF Tracks, Tallied, SameTrackers, f
  <2>2. u.staked = Total(g, {}, "all")
    BY <1>7, <2>1
  <2>3. u.committeeStaked = [c \in Chain |-> Total(f, {c}, "all") - Total(old, {c}, "all")
                                                            + Total(Nothing, {c}, "all")]
    BY <1>2, <1>3, <1>4, <1>5, TrackedTotals, NothingCounts
       DEF Tracks, Tallied, SameTrackers, f
  <2>4. u.committeeStaked = [c \in Chain |-> Total(g, {c}, "all")]
    BY <1>7, <2>3
  <2> QED
    BY <1>4, <2>2, <2>4 DEF Tallied
<1>9. Covered(u)
  <2>1. u.delegated = t.delegated - Total(old, {}, "delegates")
                                  + Total(Nothing, {}, "delegates")
    BY <1>2, <1>3, <1>4, <1>5, TrackedTotals, NothingCounts DEF SameTrackers, SameDelegations
  <2>2. u.delegated \in Int /\ u.delegated >= Total(g, {}, "delegates")
    BY <1>7, <2>1 DEF Tracks, Covered, f
  <2>3. u.committeeDelegated = [c \in Chain |-> t.committeeDelegated[c]
                 - Total(old, {c}, "delegates") + Total(Nothing, {c}, "delegates")]
    BY <1>2, <1>3, <1>4, <1>5, TrackedTotals, NothingCounts DEF SameTrackers, SameDelegations
  <2>4. \A c \in Chain : t.committeeDelegated[c] \in Int
                         /\ t.committeeDelegated[c] >= Total(f, {c}, "delegates")
    BY DEF Tracks, Covered, f
  <2>5. \A c \in Chain : /\ u.committeeDelegated[c] \in Int
                         /\ u.committeeDelegated[c] >= Total(g, {c}, "delegates")
    BY <1>7, <2>3, <2>4
  <2>6. u.committeeDelegated \in [Chain -> Int]
    BY <2>3, <2>5
  <2> QED
    BY <1>4, <2>2, <2>5, <2>6 DEF Covered
<1>10. SamePurse(t, u) /\ Purse(u)
  BY <1>2, <1>3, <1>4 DEF SamePurse, Tracks, Purse
<1>11. Surplus(u) = Surplus(t) + Total(old, {}, "all")
  <2>1. /\ Total(old, {}, "all") \in Int
        /\ Total(g, {}, "all") + Total(old, {}, "all") = Total(f, {}, "all")
    BY <1>7
  <2> QED
    BY <1>4, <1>5, <1>10, <2>1, SurplusMoves DEF Tracks, f
<1> QED
  BY <1>1, <1>4, <1>4a, <1>5, <1>8, <1>9, <1>10, <1>11 DEF Tracks, f, old

\* Records lose stake and only the trackers of the committees are told: those of
\* the delegates stay on the safe side.
LEMMA LosingTracks ==
    ASSUME NEW t, Tracks(t), NEW old, Records(old), NEW new, Records(new),
           DOMAIN new \subseteq DOMAIN t.validators, DOMAIN old = DOMAIN new,
           \A v \in DOMAIN new : /\ old[v] = t.validators[v]
                                 /\ new[v].stake <= old[v].stake
                                 /\ new[v].committees = old[v].committees
                                 /\ new[v].delegate = old[v].delegate
    PROVE  LET u == SetValidators(UpdateCommittees(t, old, new), new)
           IN  /\ Tracks(u) /\ SamePurse(t, u)
               /\ DOMAIN u.validators = DOMAIN t.validators
               /\ Surplus(u) = Surplus(t) + (Total(old, {}, "all") - Total(new, {}, "all"))
<1> DEFINE w == UpdateCommittees(t, old, new)
           u == SetValidators(w, new)
           f == t.validators
           g == u.validators
<1>1. SetValidators(UpdateCommittees(t, old, new), new) = u
  OBVIOUS
<1>2. /\ IsState(w) /\ w.validators = f /\ SamePurse(t, w) /\ SameDelegations(t, w)
      /\ w.staked = t.staked - StakeOf(old) + StakeOf(new)
      /\ w.committeeStaked =
            [c \in Chain |-> t.committeeStaked[c] - StakeIn(old, c) + StakeIn(new, c)]
  BY CommitteesFields DEF Tracks
<1> HIDE DEF w
<1>4. /\ IsState(u) /\ SamePurse(w, u) /\ SameTrackers(w, u)
      /\ DOMAIN g = DOMAIN f \cup DOMAIN new
      /\ g = [v \in DOMAIN g |-> g[v]]
      /\ \A v \in DOMAIN new : g[v] = new[v]
      /\ \A v \in DOMAIN f \ DOMAIN new : g[v] = f[v]
  BY <1>2, SetFields
<1>4a. DOMAIN g = DOMAIN f
  BY <1>4
<1> HIDE DEF u
<1>5. Records(f) /\ Records(g)
  BY <1>4 DEF Tracks, Records
<1>6. Replaces(f, old, new, g)
  BY <1>4 DEF Replaces
<1>6a. \A v \in DOMAIN f : /\ g[v].stake <= f[v].stake
                           /\ g[v].committees = f[v].committees
                           /\ g[v].delegate = f[v].delegate
  <2> TAKE v \in DOMAIN f
  <2>1. f[v].stake \in Nat
    BY <1>5 DEF Records, IsStaked
  <2>2. CASE v \in DOMAIN new
    BY <1>4, <2>2
  <2>3. CASE v \notin DOMAIN new
    <3>1. g[v] = f[v]
      BY <1>4, <2>3
    <3> HIDE DEF f, g
    <3> QED
      BY <2>1, <3>1
  <2> QED
    BY <2>2, <2>3
<1> HIDE DEF f, g
<1>7. ASSUME NEW C, NEW k
      PROVE  /\ Total(f, C, k) \in Nat /\ Total(g, C, k) \in Nat
             /\ Total(old, C, k) \in Nat /\ Total(new, C, k) \in Nat
             /\ Total(g, C, k) + Total(old, C, k) = Total(f, C, k) + Total(new, C, k)
             /\ Total(g, C, k) <= Total(f, C, k)
  BY <1>4a, <1>5, <1>6, <1>6a, TotalType, ReplacedTotal, LessTotal
<1>8. Tallied(u)
  <2>1. u.staked = Total(f, {}, "all") - Total(old, {}, "all") + Total(new, {}, "all")
    BY <1>2, <1>4, TrackedTotals DEF Tracks, Tallied, SameTrackers, f
  <2>2. u.staked = Total(g, {}, "all")
    BY <1>7, <2>1
  <2>3. u.committeeStaked = [c \in Chain |-> Total(f, {c}, "all") - Total(old, {c}, "all")
                                                            + Total(new, {c}, "all")]
    BY <1>2, <1>4, TrackedTotals DEF Tracks, Tallied, SameTrackers, f
  <2>4. u.committeeStaked = [c \in Chain |-> Total(g, {c}, "all")]
    BY <1>7, <2>3
  <2> QED
    BY <2>2, <2>4 DEF Tallied, g
<1>9. Covered(u)
  <2>1. u.delegated = t.delegated /\ u.committeeDelegated = t.committeeDelegated
    BY <1>2, <1>4 DEF SameTrackers, SameDelegations
  <2>2. u.delegated \in Int /\ u.delegated >= Total(g, {}, "delegates")
    BY <1>7, <2>1 DEF Tracks, Covered, f
  <2>3. \A c \in Chain : t.committeeDelegated[c] \in Int
                         /\ t.committeeDelegated[c] >= Total(f, {c}, "delegates")
    BY DEF Tracks, Covered, f
  <2>4. \A c \in Chain : u.committeeDelegated[c] >= Total(g, {c}, "delegates")
    BY <1>7, <2>1, <2>3
  <2> QED
    BY <2>1, <2>2, <2>4 DEF Tracks, Covered, g
<1>10. SamePurse(t, u) /\ Purse(u)
  BY <1>2, <1>4 DEF SamePurse, Tracks, Purse
<1>11. Surplus(u) = Surplus(t) + (Total(old, {}, "all") - Total(new, {}, "all"))
  <2>1. LET n == Total(old, {}, "all") - Total(new, {}, "all")
        IN  n \in Int /\ Total(g, {}, "all") + n = Total(f, {}, "all")
    BY <1>7
  <2> QED
    BY <1>5, <1>10, <2>1, SurplusMoves DEF Tracks, f, g
<1> QED
  BY <1>1, <1>4, <1>4a, <1>5, <1>8, <1>9, <1>10, <1>11 DEF Tracks, f, g

\* Heights that change in the records concern no sum.
LEMMA HeightsTrack ==
    ASSUME NEW t, Tracks(t), NEW u, IsState(u), Records(u.validators),
           SamePurse(t, u), SameTrackers(t, u),
           DOMAIN u.validators = DOMAIN t.validators,
           \A v \in DOMAIN t.validators :
              /\ u.validators[v].stake = t.validators[v].stake
              /\ u.validators[v].committees = t.validators[v].committees
              /\ u.validators[v].delegate = t.validators[v].delegate
    PROVE  Tracks(u) /\ Surplus(u) = Surplus(t)
<1>1. \A C, k : Total(u.validators, C, k) = Total(t.validators, C, k)
  BY SameTotal DEF Tracks
<1>2. Tallied(u) /\ Covered(u)
  BY <1>1 DEF Tracks, Tallied, Covered, SameTrackers, SameDelegations
<1>3. Purse(u)
  BY DEF Tracks, Purse, SamePurse
<1>4. Surplus(u) = Surplus(t)
  BY <1>1 DEF Surplus, SamePurse
<1> QED
  BY <1>2, <1>3, <1>4 DEF Tracks

\* Tokens that move between accounts and pools concern no tracker.
LEMMA TokensTrack ==
    ASSUME NEW t, Tracks(t), NEW u, IsState(u), Purse(u),
           u.validators = t.validators, SameTrackers(t, u)
    PROVE  Tracks(u)
BY DEF Tracks, Tallied, Covered, SameTrackers, SameDelegations

-----------------------------------------------------------------------------
(* Heights in the records. *)

Steady(t, u) == Tracks(u) /\ Surplus(u) = Surplus(t)

\* Two steady steps are one.
LEMMA SteadyTwice ==
    ASSUME NEW t, NEW u, NEW w, Steady(t, u), Steady(u, w)
    PROVE  Steady(t, w)
BY DEF Steady

SameButIndexes(w, u) ==
    /\ IsState(w) => IsState(u)
    /\ SamePurse(w, u) /\ SameTrackers(w, u) /\ u.validators = w.validators

\* Writing the indexes leaves everything else.
LEMMA IndexFields ==
    ASSUME NEW w, IsState(w), NEW x, NEW y
    PROVE  /\ SameButIndexes(w, [w EXCEPT !.unstaking = x, !.paused = y])
           /\ SameButIndexes(w, [w EXCEPT !.paused = y])
BY ONLY IsState(w)
   DEF IsState, Fields, SamePurse, SameTrackers, SameDelegations, SameButIndexes

\* Writing heights into records, and the indexes along with them.
LEMMA WritingHeights ==
    ASSUME NEW t, Tracks(t), NEW new, DOMAIN new \subseteq DOMAIN t.validators,
           \A v \in DOMAIN new : /\ IsStaked(new[v])
                                 /\ new[v].stake = t.validators[v].stake
                                 /\ new[v].committees = t.validators[v].committees
                                 /\ new[v].delegate = t.validators[v].delegate,
           NEW w, w = SetValidators(t, new), NEW u, SameButIndexes(w, u)
    PROVE  /\ Steady(t, u) /\ u.nonSigner = t.nonSigner
           /\ DOMAIN u.validators = DOMAIN t.validators
<1> DEFINE f == t.validators
           g == w.validators
<1>1. /\ IsState(w) /\ SamePurse(t, w) /\ SameTrackers(t, w)
      /\ DOMAIN g = DOMAIN f \cup DOMAIN new /\ g = [v \in DOMAIN g |-> g[v]]
      /\ \A v \in DOMAIN new : g[v] = new[v]
      /\ \A v \in DOMAIN f \ DOMAIN new : g[v] = f[v]
  BY SetFields DEF Tracks
<1>2. DOMAIN g = DOMAIN f
  BY <1>1
<1>3. \A v \in DOMAIN f : /\ IsStaked(g[v]) /\ g[v].stake = f[v].stake
                          /\ g[v].committees = f[v].committees
                          /\ g[v].delegate = f[v].delegate
  BY <1>1 DEF Tracks, Records
<1>4. Records(g)
  BY <1>1, <1>2, <1>3 DEF Tracks, Records
<1>5. IsState(u) /\ SamePurse(w, u) /\ SameTrackers(w, u) /\ u.validators = g
  BY <1>1 DEF SameButIndexes
<1>6. SamePurse(t, u) /\ SameTrackers(t, u)
  BY <1>1, <1>5 DEF SamePurse, SameTrackers, SameDelegations
<1>7. Steady(t, u)
  BY <1>2, <1>3, <1>4, <1>5, <1>6, HeightsTrack DEF Steady
<1> QED
  BY <1>2, <1>5, <1>6, <1>7 DEF SamePurse

\* SetValidatorUnstaking (validator.go) moves no token.
LEMMA UnstakingTracks ==
    ASSUME NEW t, Tracks(t), NEW at, DOMAIN at \subseteq DOMAIN t.validators,
           \A v \in DOMAIN at : at[v] \in Nat
    PROVE  /\ Steady(t, SetValidatorUnstaking(t, at))
           /\ DOMAIN SetValidatorUnstaking(t, at).validators = DOMAIN t.validators
<1> DEFINE new == [v \in DOMAIN at |->
                     [t.validators[v] EXCEPT !.paused = 0, !.unstaking = at[v]]]
           w == SetValidators(t, new)
           x == w.unstaking \cup {<<at[v], v>> : v \in DOMAIN at}
           y == w.paused \ {<<t.validators[v].paused, v>> : v \in DOMAIN at}
           u == SetValidatorUnstaking(t, at)
<1>1. u = [w EXCEPT !.unstaking = x, !.paused = y]
  BY DEF SetValidatorUnstaking
<1>2. DOMAIN new = DOMAIN at
  OBVIOUS
<1>3. \A v \in DOMAIN new : /\ IsStaked(new[v])
                            /\ new[v].stake = t.validators[v].stake
                            /\ new[v].committees = t.validators[v].committees
                            /\ new[v].delegate = t.validators[v].delegate
  <2> TAKE v \in DOMAIN new
  <2>1. IsStaked(t.validators[v]) /\ at[v] \in Nat /\ 0 \in Nat
    BY <1>2 DEF Tracks, Records
  <2>2. new[v] = [t.validators[v] EXCEPT !.paused = 0, !.unstaking = at[v]]
    OBVIOUS
  <2> HIDE DEF new
  <2> QED
    BY ONLY <2>1, <2>2 DEF IsStaked, IsRecord, RecordFields
<1> HIDE DEF new, x, y, u
<1>4. PICK n, z, a, b, q : n = new /\ z = w /\ a = x /\ b = y /\ q = u
  OBVIOUS
<1>5. z = SetValidators(t, n) /\ SameButIndexes(z, q)
  BY <1>1, <1>4, IndexFields, SetFields DEF Tracks
<1>6. /\ DOMAIN n \subseteq DOMAIN t.validators
      /\ \A v \in DOMAIN n : /\ IsStaked(n[v])
                            /\ n[v].stake = t.validators[v].stake
                            /\ n[v].committees = t.validators[v].committees
                            /\ n[v].delegate = t.validators[v].delegate
  BY <1>2, <1>3, <1>4
<1> HIDE DEF w
<1>7. Steady(t, q) /\ DOMAIN q.validators = DOMAIN t.validators
  BY <1>5, <1>6, WritingHeights
<1> QED
  BY <1>4, <1>7 DEF u

\* Neither does SetValidatorPaused.
LEMMA PausingTracks ==
    ASSUME NEW t, Tracks(t), NEW P, P \subseteq DOMAIN t.validators, NEW m \in Nat
    PROVE  /\ Steady(t, SetValidatorPaused(t, P, m))
           /\ SetValidatorPaused(t, P, m).nonSigner = t.nonSigner
<1> DEFINE new == [v \in P |-> [t.validators[v] EXCEPT !.paused = m]]
           w == SetValidators(t, new)
           y == w.paused \cup {<<m, v>> : v \in P}
           u == SetValidatorPaused(t, P, m)
<1>1. u = [w EXCEPT !.paused = y]
  BY DEF SetValidatorPaused
<1>2. DOMAIN new = P
  OBVIOUS
<1>3. \A v \in DOMAIN new : /\ IsStaked(new[v])
                            /\ new[v].stake = t.validators[v].stake
                            /\ new[v].committees = t.validators[v].committees
                            /\ new[v].delegate = t.validators[v].delegate
  <2> TAKE v \in DOMAIN new
  <2>1. IsStaked(t.validators[v])
    BY <1>2 DEF Tracks, Records
  <2>2. new[v] = [t.validators[v] EXCEPT !.paused = m]
    OBVIOUS
  <2> HIDE DEF new
  <2> QED
    BY ONLY <2>1, <2>2 DEF IsStaked, IsRecord, RecordFields
<1> HIDE DEF new, y, u
<1>4. PICK n, z, b, q : n = new /\ z = w /\ b = y /\ q = u
  OBVIOUS
<1>5. z = SetValidators(t, n) /\ SameButIndexes(z, q)
  BY <1>1, <1>4, IndexFields, SetFields DEF Tracks
<1>6. /\ DOMAIN n \subseteq DOMAIN t.validators
      /\ \A v \in DOMAIN n : /\ IsStaked(n[v])
                            /\ n[v].stake = t.validators[v].stake
                            /\ n[v].committees = t.validators[v].committees
                            /\ n[v].delegate = t.validators[v].delegate
  BY <1>2, <1>3, <1>4
<1> HIDE DEF w
<1>7. Steady(t, q) /\ q.nonSigner = t.nonSigner
  BY <1>5, <1>6, WritingHeights
<1> QED
  BY <1>4, <1>7 DEF u

\* Nor SetValidatorUnpaused.
LEMMA UnpausingTracks ==
    ASSUME NEW t, Tracks(t), NEW v \in DOMAIN t.validators
    PROVE  Steady(t, SetValidatorUnpaused(t, v))
<1> DEFINE new == [u \in {v} |-> [t.validators[u] EXCEPT !.paused = 0]]
           w == SetValidators(t, new)
           y == w.paused \ {<<t.validators[v].paused, v>>}
<1>1. SetValidatorUnpaused(t, v) = [w EXCEPT !.paused = y]
  BY DEF SetValidatorUnpaused
<1>2. DOMAIN new = {v} /\ new[v] = [t.validators[v] EXCEPT !.paused = 0]
  OBVIOUS
<1> HIDE DEF new
<1>3. /\ IsStaked(new[v])
      /\ new[v].stake = t.validators[v].stake
      /\ new[v].committees = t.validators[v].committees
      /\ new[v].delegate = t.validators[v].delegate
  <2>1. IsStaked(t.validators[v])
    BY DEF Tracks, Records
  <2> QED
    BY ONLY <2>1, <1>2 DEF IsStaked, IsRecord, RecordFields
<1>4. /\ DOMAIN new \subseteq DOMAIN t.validators
      /\ \A u \in DOMAIN new : /\ IsStaked(new[u])
                               /\ new[u].stake = t.validators[u].stake
                               /\ new[u].committees = t.validators[u].committees
                               /\ new[u].delegate = t.validators[u].delegate
  BY <1>2, <1>3
<1> HIDE DEF y
<1>5. PICK z : z = w
  OBVIOUS
<1>6. z = SetValidators(t, new) /\ SetValidatorUnpaused(t, v) = [z EXCEPT !.paused = y]
  BY <1>1, <1>5
<1>7. SameButIndexes(z, [z EXCEPT !.paused = y])
  BY <1>6, IndexFields, SetFields DEF Tracks
<1> HIDE DEF w
<1> QED
  BY <1>4, <1>6, <1>7, WritingHeights

\* Uint64ReducePercentage (util.go) takes nothing away that is not there.
LEMMA ReducedIsLess ==
    ASSUME NEW n \in Nat, NEW percent \in Nat
    PROVE  /\ VP!Uint64ReducePercentage(n, percent) \in Nat
           /\ VP!Uint64ReducePercentage(n, percent) <= n
<1>1. CASE percent >= 100
  BY <1>1 DEF VP!Uint64ReducePercentage
<1>2. CASE percent < 100
  <2>1. PICK k \in 0 .. 100 : k = 100 - percent
    BY <1>2
  <2>2. n * k \in Nat /\ n * k <= n * 100
    OBVIOUS
  <2>3. (n * k) \div 100 \in Nat /\ (n * k) \div 100 <= n
    BY <2>2
  <2> QED
    BY <1>2, <2>1, <2>3 DEF VP!Uint64ReducePercentage
<1> QED
  BY <1>1, <1>2

-----------------------------------------------------------------------------
(* Slashing. *)

\* A slash below the minimum stake sets heights only.
LEMMA BelowMinimumTracks ==
    ASSUME NEW t, Tracks(t), height \in Nat, NEW S, S \subseteq DOMAIN t.validators
    PROVE  Steady(t, SetUnstakingIfBelowMinimum(t, S))
<1> DEFINE below == {v \in S : ~Unstaking(t, v) /\ BelowMinimum(t.validators[v])}
           at == [v \in below |-> height + UnstakingBlocksOf(t.validators[v])]
<1>1. SetUnstakingIfBelowMinimum(t, S) = SetValidatorUnstaking(t, at)
  BY DEF SetUnstakingIfBelowMinimum
<1>2. DOMAIN at \subseteq DOMAIN t.validators /\ \A v \in DOMAIN at : at[v] \in Nat
  BY PeriodsArePositive
<1> HIDE DEF at
<1> QED
  BY <1>1, <1>2, UnstakingTracks

\* Tokens that come or go without the total supply being told show as a surplus.
LEMMA TokensMove ==
    ASSUME NEW t, Tracks(t), NEW u, IsState(u), Purse(u),
           u.validators = t.validators, SameTrackers(t, u), NEW x \in Int,
           u.total + SumFunctionOnSet(t.account, Val) + SumFunctionOnSet(t.pool, Pool)
              = t.total + SumFunctionOnSet(u.account, Val)
                        + SumFunctionOnSet(u.pool, Pool) + x
    PROVE  Tracks(u) /\ Surplus(u) = Surplus(t) + x
<1>1. Tracks(u)
  BY TokensTrack
<1> DEFINE a == SumFunctionOnSet(t.account, Val)
           b == SumFunctionOnSet(t.pool, Pool)
           c == SumFunctionOnSet(u.account, Val)
           d == SumFunctionOnSet(u.pool, Pool)
           n == Total(t.validators, {}, "all")
<1>2. a \in Nat /\ b \in Nat /\ n \in Nat /\ t.total \in Int
  BY SurplusType DEF Tracks, Purse
<1>3. c \in Nat /\ d \in Nat /\ u.total \in Int
  BY <1>1, SurplusType DEF Tracks, Purse
<1>4. u.total + a + b = t.total + c + d + x
  OBVIOUS
<1>5. Surplus(t) = t.total - (a + b + n) /\ Surplus(u) = u.total - (c + d + n)
  BY DEF Surplus
<1> HIDE DEF a, b, c, d, n
<1> QED
  BY <1>1, <1>2, <1>3, <1>4, <1>5

\* Of the records in S those in D go and the others become new; left is what remains of
\* each stake, and b what is burned of it.
Slashed(f, S, D, new, left, b) ==
    /\ Records(f) /\ S \subseteq DOMAIN f /\ D \subseteq S
    /\ Records(new) /\ DOMAIN new = S \ D
    /\ \A v \in S : left[v] \in Nat /\ left[v] <= f[v].stake
    /\ \A v \in D : left[v] = 0
    /\ \A v \in S \ D : new[v].stake = left[v]
    /\ DOMAIN b = S /\ \A v \in S : b[v] = f[v].stake - left[v]

\* What a slash burns is what the sums of the slashed records lose.
LEMMA SlashBurns ==
    ASSUME NEW f, NEW S, NEW D, NEW new, NEW left, NEW b, Slashed(f, S, D, new, left, b)
    PROVE  /\ SumFunction(b) \in Nat
           /\ SumFunction(b) + Total(new, {}, "all")
                 = Total(Restrict(f, D), {}, "all") + Total(Restrict(f, S \ D), {}, "all")
           /\ Records(Restrict(f, D)) /\ Records(Restrict(f, S \ D))
<1> USE DEF Slashed
<1>1. PICK g, h : g = Restrict(f, D) /\ h = Restrict(f, S \ D)
  OBVIOUS
<1>2. /\ Records(g) /\ DOMAIN g = D /\ (\A v \in D : g[v] = f[v])
      /\ Records(h) /\ DOMAIN h = S \ D /\ (\A v \in S \ D : h[v] = f[v])
  BY <1>1 DEF Restrict, Records
<1>3. PICK p, q, r, w : /\ p = On(b, S, Val) /\ q = Share(new, {}, "all")
                        /\ r = Share(g, {}, "all") /\ w = Share(h, {}, "all")
  OBVIOUS
<1>4. \A v \in S : b[v] \in Nat /\ b[v] = f[v].stake - left[v] /\ f[v].stake \in Nat
  BY DEF Records, IsStaked
<1>5. S \in SUBSET Val /\ DOMAIN b = S
  BY DEF Records
<1>6. SumFunction(b) = SumFunctionOnSet(p, Val)
  BY <1>3, <1>4, <1>5, SumOn, SetsAreFinite DEF SumFunction
<1>7. \A v \in Val : /\ p[v] \in Nat /\ q[v] \in Nat /\ r[v] \in Nat /\ w[v] \in Nat
                     /\ p[v] + q[v] = r[v] + w[v]
  <2> TAKE v \in Val
  <2>1. /\ p[v] = IF v \in S THEN b[v] ELSE 0
        /\ q[v] = (IF v \in S \ D THEN left[v] ELSE 0)
        /\ r[v] = (IF v \in D THEN f[v].stake ELSE 0)
        /\ w[v] = (IF v \in S \ D THEN f[v].stake ELSE 0)
    BY <1>2, <1>3, ShareType DEF On, Counts
  <2>2. CASE v \notin S
    BY <2>1, <2>2
  <2>3. CASE v \in D
    BY <1>4, <2>1, <2>3
  <2>4. CASE v \in S \ D
    BY <1>4, <2>1, <2>4
  <2> QED
    BY <2>2, <2>3, <2>4
<1>8. /\ SumFunctionOnSet(p, Val) + SumFunctionOnSet(q, Val)
            = SumFunctionOnSet(r, Val) + SumFunctionOnSet(w, Val)
      /\ SumFunctionOnSet(p, Val) \in Nat
  BY <1>7, SumLinear, SumType, SetsAreFinite
<1> QED
  BY <1>1, <1>2, <1>3, <1>6, <1>8 DEF Total

\* Slashing: what the records lose is burned, and each tracker keeps its promise.
LEMMA SlashingTracks ==
    ASSUME NEW t, Tracks(t), height \in Nat, NEW A, NEW percent \in Nat
    PROVE  Steady(t, SlashValidators(t, A, percent))
<1> DEFINE f    == t.validators
           S    == {v \in A : Exists(t, v)}
           gone == {v \in S : AfterSlash(t, v, percent) = 0}
           less == [v \in S \ gone |->
                      [t.validators[v] EXCEPT !.stake = AfterSlash(t, v, percent)]]
           left == [v \in S |-> AfterSlash(t, v, percent)]
           lost == [v \in S |-> t.validators[v].stake - AfterSlash(t, v, percent)]
           n  == t.total - SumFunction(lost)
           t0 == [t EXCEPT !.total = n]
           t1 == DeleteValidators(t0, gone)
           old == Restrict(t.validators, S \ gone)
           t3 == SetValidators(UpdateCommittees(t1, old, less), less)
<1>1. SlashValidators(t, A, percent) = SetUnstakingIfBelowMinimum(t3, S \ gone)
  BY DEF SlashValidators
<1>2. S \subseteq DOMAIN f /\ gone \subseteq S /\ DOMAIN less = S \ gone /\ Records(f)
  BY DEF Exists, Tracks
<1>3. \A v \in S : /\ left[v] \in Nat /\ left[v] <= f[v].stake
                   /\ left[v] = AfterSlash(t, v, percent)
  BY <1>2, ReducedIsLess DEF AfterSlash, Records, IsStaked
<1>4. ASSUME NEW v \in S \ gone
      PROVE  /\ IsStaked(less[v]) /\ less[v].stake = left[v]
             /\ less[v].committees = f[v].committees /\ less[v].delegate = f[v].delegate
  <2>1. PICK r, k, q : r = f[v] /\ k = left[v] /\ q = less[v]
    OBVIOUS
  <2>2. IsStaked(r) /\ k \in Nat /\ q = [r EXCEPT !.stake = k]
    BY <1>2, <1>3, <2>1 DEF Records
  <2>3. /\ IsStaked(q) /\ q.stake = k
        /\ q.committees = r.committees /\ q.delegate = r.delegate
    BY ONLY <2>2 DEF IsStaked, IsRecord, RecordFields
  <2> QED
    BY <2>1, <2>3
<1>5. Records(less)
  <2>1. less = [v \in DOMAIN less |-> less[v]]
    OBVIOUS
  <2> QED
    BY <1>2, <1>4, <2>1 DEF Records
<1>6. /\ \A v \in gone : left[v] = 0
      /\ \A v \in S \ gone : less[v].stake = left[v]
      /\ lost = [v \in S |-> f[v].stake - left[v]]
  BY <1>4
<1> HIDE DEF less, left, lost, gone, S
<1>7. /\ SumFunction(lost) \in Nat
      /\ SumFunction(lost) + Total(less, {}, "all")
            = Total(Restrict(f, gone), {}, "all") + Total(old, {}, "all")
      /\ Records(Restrict(f, gone)) /\ Records(old)
  <2>1. PICK g, Q, D, new, lft, b : /\ g = f /\ Q = S /\ D = gone /\ new = less
                                    /\ lft = left /\ b = lost
    OBVIOUS
  <2>2. Slashed(g, Q, D, new, lft, b)
    BY <1>2, <1>3, <1>5, <1>6, <2>1 DEF Slashed
  <2>3. /\ SumFunction(b) \in Nat
        /\ SumFunction(b) + Total(new, {}, "all")
            = Total(Restrict(g, D), {}, "all") + Total(Restrict(g, Q \ D), {}, "all")
        /\ Records(Restrict(g, D)) /\ Records(Restrict(g, Q \ D))
    BY ONLY <2>2, SlashBurns
  <2> QED
    BY <2>1, <2>3
<1> DEFINE burned == SumFunction(lost)
<1>8. IsState(t0) /\ t0.validators = f /\ SameTrackers(t, t0) /\ t0.total = n
      /\ t0.account = t.account /\ t0.pool = t.pool /\ t0.nonSigner = t.nonSigner
  <2>1. IsState(t)
    BY DEF Tracks
  <2> HIDE DEF n
  <2> QED
    BY ONLY <2>1 DEF IsState, Fields, SameTrackers, SameDelegations
<1>9. Tracks(t0) /\ Surplus(t0) = Surplus(t) + (-burned)
  <2>1. PICK z : z = t0
    OBVIOUS
  <2>2. Purse(z) /\ n \in Int /\ -burned \in Int /\ t.total \in Int
    BY <1>7, <1>8, <2>1 DEF Tracks, Purse
  <2>3. /\ SumFunctionOnSet(t.account, Val) \in Nat
        /\ SumFunctionOnSet(t.pool, Pool) \in Nat
    BY SurplusType DEF Tracks
  <2>4. z.total + SumFunctionOnSet(t.account, Val) + SumFunctionOnSet(t.pool, Pool)
              = t.total + SumFunctionOnSet(z.account, Val)
                        + SumFunctionOnSet(z.pool, Pool) + (-burned)
    BY <1>7, <1>8, <2>1, <2>2, <2>3
  <2> HIDE DEF t0, burned
  <2> QED
    BY <1>8, <2>1, <2>2, <2>4, TokensMove
<1> HIDE DEF t0
<1>10. /\ Tracks(t1) /\ DOMAIN t1.validators = DOMAIN f \ gone
       /\ \A v \in DOMAIN t1.validators : t1.validators[v] = f[v]
       /\ Surplus(t1) = Surplus(t0) + Total(Restrict(f, gone), {}, "all")
  BY <1>2, <1>8, <1>9, DeletingTracks
<1> HIDE DEF t1
<1>11. /\ DOMAIN old = DOMAIN less /\ DOMAIN less \subseteq DOMAIN t1.validators
       /\ \A v \in DOMAIN less : /\ old[v] = t1.validators[v]
                                 /\ less[v].stake <= old[v].stake
                                 /\ less[v].committees = old[v].committees
                                 /\ less[v].delegate = old[v].delegate
  <2>1. DOMAIN old = S \ gone /\ \A v \in S \ gone : old[v] = f[v]
    BY <1>2 DEF Restrict
  <2> HIDE DEF old
  <2> QED
    BY <1>2, <1>3, <1>4, <1>10, <2>1
<1> HIDE DEF old
<1>12. /\ Tracks(t3) /\ DOMAIN t3.validators = DOMAIN t1.validators
       /\ Surplus(t3) = Surplus(t1) + (Total(old, {}, "all") - Total(less, {}, "all"))
  BY <1>5, <1>7, <1>10, <1>11, LosingTracks
<1> HIDE DEF t3
<1>13. Surplus(t3) = Surplus(t)
  <2>1. /\ Surplus(t) \in Int /\ Total(old, {}, "all") \in Nat
        /\ Total(less, {}, "all") \in Nat /\ Total(Restrict(f, gone), {}, "all") \in Nat
    BY <1>5, <1>7, SurplusType, TotalType DEF Tracks
  <2> QED
    BY <1>7, <1>9, <1>10, <1>12, <2>1
<1>14. Steady(t3, SetUnstakingIfBelowMinimum(t3, S \ gone))
  BY <1>2, <1>10, <1>12, BelowMinimumTracks
<1> QED
  BY <1>1, <1>13, <1>14 DEF Steady

\* The counters of the non-signers concern nothing else.
LEMMA CountersTrack ==
    ASSUME NEW t, Tracks(t), NEW z \in [Val -> Nat], NEW u, u = [t EXCEPT !.nonSigner = z]
    PROVE  Steady(t, u)
<1>1. IsState(t)
  BY DEF Tracks
<1>2. /\ IsState(u) /\ u.validators = t.validators /\ SameTrackers(t, u)
      /\ u.account = t.account /\ u.pool = t.pool /\ u.total = t.total /\ u.nonSigner = z
  BY ONLY <1>1, u = [t EXCEPT !.nonSigner = z]
     DEF IsState, Fields, SameTrackers, SameDelegations
<1>3. Tracks(u)
  BY <1>2, TokensTrack DEF Tracks, Purse
<1>4. Surplus(u) = Surplus(t)
  BY <1>2 DEF Surplus
<1> QED
  BY <1>3, <1>4 DEF Steady

\* The end of a window of non-signers.
LEMMA NonSignersTrack ==
    ASSUME NEW t, Tracks(t), height \in Nat
    PROVE  Steady(t, SlashAndResetNonSigners(t))
<1> DEFINE bad == {v \in Val : t.nonSigner[v] > MaxNonSign}
           P   == {v \in bad : CanPause(t, v)}
           m   == height + MaxPauseBlocks
           t1  == SetValidatorPaused(t, P, m)
           t2  == SlashValidators(t1, bad, NonSignSlashPercentage)
           z   == [v \in Val |-> 0]
<1>1. SlashAndResetNonSigners(t) = [t2 EXCEPT !.nonSigner = z]
  BY DEF SlashAndResetNonSigners
<1>2. P \subseteq DOMAIN t.validators /\ z \in [Val -> Nat]
  BY DEF CanPause, Exists
<1>3. m \in Nat /\ NonSignSlashPercentage \in Nat
  BY ParametersAreValid
<1> HIDE DEF P, bad, z, m
<1>4. Steady(t, t1)
  BY <1>2, <1>3, PausingTracks
<1> HIDE DEF t1
<1>5. Steady(t1, t2)
  BY <1>3, <1>4, SlashingTracks DEF Steady
<1> HIDE DEF t2
<1>6. PICK x, u : x = t2 /\ u = SlashAndResetNonSigners(t)
  OBVIOUS
<1>7. Steady(x, u)
  <2>1. Tracks(x) /\ u = [x EXCEPT !.nonSigner = z]
    BY <1>1, <1>5, <1>6 DEF Steady
  <2> QED
    BY <1>2, <2>1, CountersTrack
<1> QED
  BY <1>4, <1>5, <1>6, <1>7, SteadyTwice

\* HandleByzantine: the window, the misses and the double signs.
LEMMA ByzantineTracks ==
    ASSUME NEW t, Tracks(t), height \in Nat, NEW missed, NEW evidence
    PROVE  Steady(t, HandleByzantine(t, missed, evidence))
<1> DEFINE t1 == IF height % NonSignWindow = 0 THEN SlashAndResetNonSigners(t) ELSE t
           z  == [v \in Val |-> IF v \in missed THEN t1.nonSigner[v] + 1
                                                ELSE t1.nonSigner[v]]
           A  == {e[2] : e \in evidence}
<1>1. HandleByzantine(t, missed, evidence)
        = SlashValidators([t1 EXCEPT !.nonSigner = z], A, DoubleSignSlashPercentage)
  BY DEF HandleByzantine
<1>2. Steady(t, t1)
  <2>1. CASE height % NonSignWindow = 0
    BY <2>1, NonSignersTrack
  <2>2. CASE ~(height % NonSignWindow = 0)
    BY <2>2 DEF Steady
  <2> QED
    BY <2>1, <2>2
<1> HIDE DEF t1
<1>3. z \in [Val -> Nat]
  BY <1>2 DEF Steady, Tracks, Purse
<1> HIDE DEF z, A
<1>4. PICK x, u : x = t1 /\ u = [t1 EXCEPT !.nonSigner = z]
  OBVIOUS
<1>5. Steady(x, u)
  <2>1. Tracks(x) /\ u = [x EXCEPT !.nonSigner = z]
    BY <1>2, <1>4 DEF Steady
  <2> QED
    BY <1>3, <2>1, CountersTrack
<1>6. Steady(u, SlashValidators(u, A, DoubleSignSlashPercentage))
  BY <1>5, SlashingTracks, ParametersAreValid DEF Steady
<1> QED
  BY <1>1, <1>2, <1>4, <1>5, <1>6, SteadyTwice

-----------------------------------------------------------------------------
(* Minting and rewards. *)

\* The pools: one for each committee, and the DAO's.
LEMMA PoolIsFinite ==
    IsFiniteSet(Pool) /\ Dao \in Pool /\ Self \in Pool /\ Chain = Pool \ {Dao}
BY FS_AddElement, SetsAreFinite, SelfIsAChain, DaoIsNoChain DEF Pool

\* What is minted for the committees is shared out in full.
LEMMA SharesOfTheMint ==
    ASSUME NEW paid, paid \subseteq Chain, NEW each \in Nat,
           NEW add, \A p \in Pool : add[p] = IF p = Dao THEN DaoMint
                                             ELSE IF p \in paid THEN each ELSE 0
    PROVE  /\ \A p \in Pool : add[p] \in Nat
           /\ SumFunctionOnSet(add, Pool) = DaoMint + each * Cardinality(paid)
<1>1. DaoMint \in Nat
  BY ParametersAreValid
<1>2. \A p \in Pool : add[p] \in Nat
  BY <1>1
<1>3. SumFunctionOnSet(add, Pool) = DaoMint + SumFunctionOnSet(add, Chain)
  BY <1>2, SumStep, PoolIsFinite
<1>4. /\ SumFunctionOnSet(add, Chain) = SumFunctionOnSet(add, paid)
                                           + SumFunctionOnSet(add, Chain \ paid)
      /\ SumFunctionOnSet(add, paid) \in Nat
  <2>1. \A p \in Chain : add[p] \in Nat
    BY <1>2, PoolIsFinite
  <2> QED
    BY <2>1, SumSubset, SetsAreFinite
<1>5. SumFunctionOnSet(add, Chain \ paid) = 0
  <2>1. \A p \in Chain \ paid : add[p] = 0
    BY PoolIsFinite
  <2>2. IsFiniteSet(Chain \ paid)
    BY SetsAreFinite, FS_Subset
  <2> QED
    BY <2>1, <2>2, SumZero
<1>6. SumFunctionOnSet(add, paid) = each * Cardinality(paid)
  <2>1. \A p \in paid : add[p] = each
    BY PoolIsFinite
  <2>2. IsFiniteSet(paid)
    BY SetsAreFinite, FS_Subset
  <2> QED
    BY <2>1, <2>2, SumConstant
<1>7. SumFunctionOnSet(add, Chain) = each * Cardinality(paid)
  BY <1>4, <1>5, <1>6
<1> QED
  BY <1>2, <1>3, <1>7

\* Minting: the total supply grows by what the pools receive.
LEMMA MintingTracks ==
    ASSUME NEW t, Tracks(t)
    PROVE  Steady(t, FundCommitteeRewardPools(t))
<1> DEFINE paid == SubsidizedCommittees(t)
           each == Mint \div Cardinality(paid)
           add  == [p \in Pool |-> IF p = Dao THEN DaoMint
                                   ELSE IF p \in paid THEN each ELSE 0]
           n == t.total + DaoMint + each * Cardinality(paid)
           y == [p \in Pool |-> t.pool[p] + add[p]]
           u == FundCommitteeRewardPools(t)
<1>1. u = [t EXCEPT !.total = n, !.pool = y]
  BY DEF FundCommitteeRewardPools
<1>2. paid \subseteq Chain /\ Self \in paid
  BY SelfIsAChain DEF SubsidizedCommittees
<1> HIDE DEF paid
<1>3. Cardinality(paid) \in Nat \ {0}
  BY <1>2, FS_Subset, FS_CardinalityType, FS_EmptySet, SetsAreFinite
<1>4. each \in Nat /\ DaoMint \in Nat /\ each * Cardinality(paid) \in Nat
  BY <1>3, ParametersAreValid
<1>5. \A p \in Pool : /\ add[p] = IF p = Dao THEN DaoMint
                                  ELSE IF p \in paid THEN each ELSE 0
                      /\ y[p] = t.pool[p] + add[p]
  OBVIOUS
<1>6. \A p \in Pool : t.pool[p] \in Nat
  BY DEF Tracks, Purse
<1> HIDE DEF each, add
<1>7. /\ \A p \in Pool : add[p] \in Nat
      /\ SumFunctionOnSet(add, Pool) = DaoMint + each * Cardinality(paid)
  BY <1>2, <1>4, <1>5, SharesOfTheMint
<1>8. y \in [Pool -> Nat]
  BY <1>6, <1>7
<1> HIDE DEF y
<1>9. SumFunctionOnSet(y, Pool) = SumFunctionOnSet(t.pool, Pool)
                                     + SumFunctionOnSet(add, Pool)
  BY <1>5, <1>6, <1>7, <1>8, SumPlus, PoolIsFinite
<1>10. /\ SumFunctionOnSet(t.account, Val) \in Nat
       /\ SumFunctionOnSet(t.pool, Pool) \in Nat /\ t.total \in Int
  BY SurplusType DEF Tracks, Purse
<1>11. n \in Int
  BY <1>4, <1>10
<1>12. n + SumFunctionOnSet(t.account, Val) + SumFunctionOnSet(t.pool, Pool)
         = t.total + SumFunctionOnSet(t.account, Val) + SumFunctionOnSet(y, Pool) + 0
  BY <1>4, <1>7, <1>9, <1>10
<1> HIDE DEF n
<1>13. PICK z : z = u
  OBVIOUS
<1>14. /\ IsState(z) /\ z.validators = t.validators /\ SameTrackers(t, z)
       /\ z.account = t.account /\ z.nonSigner = t.nonSigner
       /\ z.pool = y /\ z.total = n
  <2>1. IsState(t) /\ z = [t EXCEPT !.total = n, !.pool = y]
    BY <1>1, <1>13 DEF Tracks
  <2> QED
    BY ONLY <2>1 DEF IsState, Fields, SameTrackers, SameDelegations
<1>15. Purse(z)
  BY <1>8, <1>11, <1>14 DEF Tracks, Purse
<1>16. Tracks(z) /\ Surplus(z) = Surplus(t) + 0
  BY <1>12, <1>14, <1>15, TokensMove
<1> QED
  BY <1>13, <1>16, SurplusType DEF Steady, Tracks

\* Of those in paid the records in old become new and grow by what they are given; the
\* others receive it on their accounts.
Rewarded(old, new, paid, given, account, after) ==
    /\ Records(old) /\ Records(new) /\ DOMAIN old = DOMAIN new
    /\ DOMAIN new \subseteq paid /\ paid \in SUBSET Val
    /\ DOMAIN given = paid
    /\ \A v \in paid : given[v] \in Nat
    /\ \A v \in DOMAIN new : new[v].stake = old[v].stake + given[v]
    /\ \A v \in Val : /\ account[v] \in Nat
                      /\ after[v] = IF v \in paid \ DOMAIN new
                                    THEN account[v] + given[v] ELSE account[v]

\* What is given is what stakes and accounts gain.
LEMMA RewardsAddUp ==
    ASSUME NEW old, NEW new, NEW paid, NEW given, NEW account, NEW after,
           Rewarded(old, new, paid, given, account, after)
    PROVE  /\ SumFunction(given) \in Nat
           /\ Total(new, {}, "all") + SumFunctionOnSet(after, Val)
                = Total(old, {}, "all") + SumFunctionOnSet(account, Val)
                     + SumFunction(given)
<1> USE DEF Rewarded
<1> DEFINE rise == [v \in Val |-> IF v \in DOMAIN new THEN given[v] ELSE 0]
           earn == [v \in Val |-> IF v \in paid \ DOMAIN new THEN given[v] ELSE 0]
<1>1. \A v \in Val : /\ rise[v] = IF v \in DOMAIN new THEN given[v] ELSE 0
                     /\ earn[v] = IF v \in paid \ DOMAIN new THEN given[v] ELSE 0
                     /\ rise[v] \in Nat /\ earn[v] \in Nat
  OBVIOUS
<1> HIDE DEF rise, earn
<1>2. PICK p, q, g : /\ p = Share(new, {}, "all") /\ q = Share(old, {}, "all")
                     /\ g = On(given, paid, Val)
  OBVIOUS
<1>3. \A v \in Val : /\ p[v] \in Nat /\ q[v] \in Nat
                     /\ p[v] = (IF v \in DOMAIN new THEN new[v].stake ELSE 0)
                     /\ q[v] = (IF v \in DOMAIN new THEN old[v].stake ELSE 0)
                     /\ g[v] = (IF v \in paid THEN given[v] ELSE 0)
  BY <1>2, ShareType DEF Counts, On
<1>4. \A v \in Val : /\ p[v] = q[v] + rise[v]
                     /\ after[v] = account[v] + earn[v] /\ after[v] \in Nat
                     /\ g[v] = rise[v] + earn[v] /\ g[v] \in Nat
  BY <1>1, <1>3
<1>5. SumFunctionOnSet(p, Val) = SumFunctionOnSet(q, Val) + SumFunctionOnSet(rise, Val)
  BY <1>1, <1>3, <1>4, SumPlus, SetsAreFinite
<1>6. SumFunctionOnSet(after, Val)
         = SumFunctionOnSet(account, Val) + SumFunctionOnSet(earn, Val)
  BY <1>1, <1>4, SumPlus, SetsAreFinite
<1>7. SumFunctionOnSet(g, Val) = SumFunctionOnSet(rise, Val) + SumFunctionOnSet(earn, Val)
  BY <1>1, <1>4, SumPlus, SetsAreFinite
<1>8. SumFunction(given) = SumFunctionOnSet(g, Val)
  <2>1. \A v \in paid : given[v] \in Nat
    OBVIOUS
  <2> QED
    BY <1>2, <2>1, SumOn, SetsAreFinite DEF SumFunction
<1>9. /\ SumFunctionOnSet(q, Val) \in Nat /\ SumFunctionOnSet(rise, Val) \in Nat
      /\ SumFunctionOnSet(account, Val) \in Nat /\ SumFunctionOnSet(earn, Val) \in Nat
  BY <1>1, <1>3, SumType, SetsAreFinite
<1>10. Total(new, {}, "all") = SumFunctionOnSet(p, Val)
       /\ Total(old, {}, "all") = SumFunctionOnSet(q, Val)
  BY <1>2 DEF Total
<1> QED
  BY <1>5, <1>6, <1>7, <1>8, <1>9, <1>10

\* f divides at most a whole among addresses
IsPayment(f) ==
    /\ DOMAIN f \subseteq Val /\ f \in [DOMAIN f -> Nat]
    /\ SumFunctionOnSet(f, DOMAIN f) <= 100

\* A reward is a number, and at most its percentage of the pool.
LEMMA RewardIsAShare ==
    ASSUME NEW t, Tracks(t), IsPayment(payment), NEW v \in DOMAIN payment
    PROVE  /\ DistributeCommitteeReward(t, v) \in Nat
           /\ 100 * DistributeCommitteeReward(t, v) <= t.pool[Self] * payment[v]
<1>1. t.pool[Self] \in Nat
  BY PoolIsFinite DEF Tracks, Purse
<1>2. PICK p \in Nat, n \in Nat : p = t.pool[Self] /\ n = payment[v]
  BY <1>1 DEF IsPayment
<1>3. n * p \in Nat /\ n * p = p * n
  OBVIOUS
<1>4. PICK x : x = (n * p) \div 100
  OBVIOUS
<1>5. x \in Nat /\ 100 * x <= n * p
  BY <1>3, <1>4
<1>6. PICK y : y = VP!Uint64ReducePercentage(x, EarlyWithdrawalPenalty)
  OBVIOUS
<1>7. y \in Nat /\ y <= x
  BY <1>5, <1>6, ReducedIsLess, ParametersAreValid
<1>8. DistributeCommitteeReward(t, v) = x \/ DistributeCommitteeReward(t, v) = y
  BY <1>2, <1>4, <1>6 DEF DistributeCommitteeReward
<1> QED
  BY <1>2, <1>3, <1>5, <1>7, <1>8

\* What is distributed fits into the pool it is taken from, although every reward is
\* computed from the full pool by itself (committee.go, DistributeCommitteeRewards): the
\* unsigned subtraction of what to burn does not wrap.
LEMMA RewardsFit ==
    ASSUME NEW t, Tracks(t), IsPayment(payment)
    PROVE  TotalDistributed(t) \in Nat /\ TotalDistributed(t) <= t.pool[Self]
<1> DEFINE paid  == DOMAIN payment
           gift  == [v \in paid |-> DistributeCommitteeReward(t, v)]
           gifts == [v \in paid |-> 100 * gift[v]]
           parts == [v \in paid |-> t.pool[Self] * payment[v]]
<1>1. IsFiniteSet(paid) /\ \A v \in paid : payment[v] \in Nat
  BY FS_Subset, SetsAreFinite DEF IsPayment
<1>2. PICK p \in Nat : p = t.pool[Self]
  BY PoolIsFinite DEF Tracks, Purse
<1>3. \A v \in paid : /\ gift[v] \in Nat /\ gifts[v] = 100 * gift[v]
                      /\ parts[v] = p * payment[v] /\ gifts[v] <= parts[v]
  BY <1>2, RewardIsAShare
<1>4. TotalDistributed(t) = SumFunctionOnSet(gift, paid)
  BY DEF TotalDistributed, SumFunction
<1> HIDE DEF gift, gifts, parts
<1>5. \A v \in paid : gifts[v] \in Nat /\ parts[v] \in Nat
  BY <1>1, <1>3
<1>6. SumFunctionOnSet(gifts, paid) = 100 * SumFunctionOnSet(gift, paid)
  BY <1>1, <1>3, SumScale
<1>7. SumFunctionOnSet(parts, paid) = p * SumFunctionOnSet(payment, paid)
  BY <1>1, <1>3, SumScale
<1>8. SumFunctionOnSet(gifts, paid) <= SumFunctionOnSet(parts, paid)
  BY <1>1, <1>3, <1>5, SumMono
<1>9. PICK g \in Nat, n \in Nat : /\ g = SumFunctionOnSet(gift, paid)
                                 /\ n = SumFunctionOnSet(payment, paid)
  BY <1>1, <1>3, SumType
<1>10. n <= 100
  BY <1>9 DEF IsPayment
<1>11. p * n <= p * 100
  BY <1>10
<1> QED
  BY <1>2, <1>4, <1>6, <1>7, <1>8, <1>9, <1>11

\* Rewards: what the stakes and the accounts do not get of the pool is burned.
LEMMA RewardsTrack ==
    ASSUME NEW t, Tracks(t), IsPayment(payment)
    PROVE  Steady(t, DistributeCommitteeRewards(t))
<1> DEFINE paid  == DOMAIN payment
           gift(v) == DistributeCommitteeReward(t, v)
           grown == {v \in paid : Compounds(t, v)}
           given == [v \in paid |-> gift(v)]
           new == [v \in grown |-> [t.validators[v] EXCEPT !.stake = @ + gift(v)]]
           old == Restrict(t.validators, DOMAIN new)
           t1 == SetValidators(Tally(t, old, new), new)
           x == [v \in Val |->
                   IF v \in paid \ grown THEN t1.account[v] + gift(v)
                                         ELSE t1.account[v]]
           y == t1.total - (t.pool[Self] - SumFunction(given))
           z == [t1.pool EXCEPT ![Self] = 0]
           u == [t1 EXCEPT !.account = x, !.total = y, !.pool = z]
<1>1. DistributeCommitteeRewards(t) = IF paid = {} THEN t ELSE u
  BY DEF DistributeCommitteeRewards, UpdateValidatorStake, TotalDistributed
<1>2. paid \in SUBSET Val /\ grown \subseteq paid /\ grown \subseteq DOMAIN t.validators
      /\ DOMAIN new = grown
  BY DEF Compounds, Exists, IsPayment
<1>3. t.pool[Self] \in Nat /\ t.pool \in [Pool -> Nat] /\ t.account \in [Val -> Nat]
  BY PoolIsFinite DEF Tracks, Purse
<1>4. \A v \in paid : given[v] \in Nat /\ given[v] = gift(v)
  BY RewardIsAShare
<1> HIDE DEF given, gift
<1>5. \A v \in grown : IsStaked(new[v]) /\ new[v].stake = t.validators[v].stake + given[v]
  <2> TAKE v \in grown
  <2>1. PICK r, n, q : r = t.validators[v] /\ n = r.stake + given[v] /\ q = new[v]
    OBVIOUS
  <2>2. IsStaked(r) /\ q = [r EXCEPT !.stake = n]
    BY <1>2, <1>4, <2>1 DEF Tracks, Records
  <2>3. n \in Nat
    BY <1>2, <1>4, <2>1, <2>2 DEF IsStaked
  <2>4. IsStaked(q) /\ q.stake = n
    BY ONLY <2>2, <2>3 DEF IsStaked, IsRecord, RecordFields
  <2> QED
    BY <2>1, <2>4
<1>6. Records(new)
  <2>1. new = [v \in DOMAIN new |-> new[v]]
    OBVIOUS
  <2> QED
    BY <1>2, <1>5, <2>1 DEF Records
<1>7. Records(old) /\ DOMAIN old = grown /\ \A v \in grown : old[v] = t.validators[v]
  BY <1>2 DEF Restrict, Tracks, Records
<1> HIDE DEF new, old
<1>8. /\ Tracks(t1) /\ SamePurse(t, t1)
      /\ Surplus(t1) = Surplus(t) + (Total(old, {}, "all") - Total(new, {}, "all"))
  <2>1. DOMAIN old = DOMAIN t.validators \cap DOMAIN new
        /\ \A v \in DOMAIN old : old[v] = t.validators[v]
    BY <1>2, <1>7
  <2> QED
    BY <1>6, <1>7, <2>1, ReplacingTracks
<1>9. t1.account = t.account /\ t1.pool = t.pool
  BY <1>8 DEF SamePurse
<1> HIDE DEF t1
<1>10. Rewarded(old, new, paid, given, t1.account, x)
  <2>1. DOMAIN given = paid
    BY DEF given
  <2> QED
    BY <2>1, <1>2, <1>3, <1>4, <1>5, <1>6, <1>7, <1>9 DEF Rewarded
<1>11. x \in [Val -> Nat] /\ z \in [Pool -> Nat]
  <2>1. \A v \in Val : x[v] \in Nat
    BY <1>3, <1>4, <1>9
  <2>2. x \in [Val -> Nat]
    BY <2>1
  <2>3. z \in [Pool -> Nat]
    BY <1>3, <1>9
  <2> QED
    BY <2>2, <2>3
<1>12. /\ z[Self] = 0 /\ t1.pool[Self] = t.pool[Self]
       /\ \A p \in Pool \ {Self} : z[p] = t1.pool[p]
  BY <1>3, <1>9, PoolIsFinite
<1> HIDE DEF x, z, grown, paid
<1>13. /\ SumFunction(given) \in Nat
       /\ Total(new, {}, "all") + SumFunctionOnSet(x, Val)
                = Total(old, {}, "all") + SumFunctionOnSet(t1.account, Val)
                     + SumFunction(given)
  BY <1>10, RewardsAddUp
<1>14. SumFunctionOnSet(t1.pool, Pool) = SumFunctionOnSet(z, Pool) + t.pool[Self]
  <2>1. \A p \in Pool : t1.pool[p] \in Nat /\ z[p] \in Nat
    BY <1>3, <1>9, <1>11
  <2>2. SumFunctionOnSet(t1.pool, Pool) + z[Self]
          = SumFunctionOnSet(z, Pool) + t1.pool[Self]
    BY <1>12, <2>1, SumChange, PoolIsFinite
  <2>3. SumFunctionOnSet(t1.pool, Pool) \in Nat
    BY <2>1, SumType, PoolIsFinite
  <2> QED
    BY <1>12, <2>2, <2>3
<1> DEFINE n == Total(new, {}, "all") - Total(old, {}, "all")
<1>15. /\ Total(new, {}, "all") \in Nat /\ Total(old, {}, "all") \in Nat /\ n \in Int
       /\ SumFunctionOnSet(t1.account, Val) \in Nat /\ SumFunctionOnSet(x, Val) \in Nat
       /\ SumFunctionOnSet(t1.pool, Pool) \in Nat /\ SumFunctionOnSet(z, Pool) \in Nat
       /\ t1.total \in Int /\ Surplus(t) \in Int
  <2>1. Total(new, {}, "all") \in Nat /\ Total(old, {}, "all") \in Nat
    BY <1>6, <1>7, TotalType
  <2>2. /\ SumFunctionOnSet(t1.account, Val) \in Nat
        /\ SumFunctionOnSet(t1.pool, Pool) \in Nat
        /\ t1.total \in Int
    BY <1>8, SurplusType DEF Tracks, Purse
  <2>3. SumFunctionOnSet(x, Val) \in Nat /\ SumFunctionOnSet(z, Pool) \in Nat
    BY <1>11, SumType, SetsAreFinite, PoolIsFinite
  <2>4. Surplus(t) \in Int
    BY SurplusType DEF Tracks
  <2> QED
    BY <2>1, <2>2, <2>3, <2>4
<1>16. y + SumFunctionOnSet(t1.account, Val) + SumFunctionOnSet(t1.pool, Pool)
         = t1.total + SumFunctionOnSet(x, Val) + SumFunctionOnSet(z, Pool) + n
  BY <1>3, <1>13, <1>14, <1>15
<1>17. y \in Int
  BY <1>3, <1>13, <1>15
<1> HIDE DEF y, n
<1>18. PICK w, q : w = t1 /\ q = u
  OBVIOUS
<1>19. /\ IsState(q) /\ q.validators = w.validators /\ SameTrackers(w, q)
       /\ q.nonSigner = w.nonSigner /\ q.account = x /\ q.pool = z /\ q.total = y
  <2>1. IsState(w) /\ q = [w EXCEPT !.account = x, !.total = y, !.pool = z]
    BY <1>8, <1>18 DEF Tracks
  <2> QED
    BY ONLY <2>1 DEF IsState, Fields, SameTrackers, SameDelegations
<1>20. Purse(q) /\ Tracks(w)
  BY <1>8, <1>11, <1>17, <1>18, <1>19 DEF Tracks, Purse
<1>21. Tracks(q) /\ Surplus(q) = Surplus(w) + n
  <2>1. q.total + SumFunctionOnSet(w.account, Val) + SumFunctionOnSet(w.pool, Pool)
              = w.total + SumFunctionOnSet(q.account, Val)
                        + SumFunctionOnSet(q.pool, Pool) + n
    BY <1>16, <1>18, <1>19
  <2> QED
    BY <1>15, <1>19, <1>20, <2>1, TokensMove
<1>22. Surplus(q) = Surplus(t)
  BY <1>8, <1>15, <1>18, <1>21 DEF n
<1> HIDE DEF u
<1> QED
  BY <1>1, <1>18, <1>21, <1>22 DEF Steady

-----------------------------------------------------------------------------
(* The end of a block. *)

\* The indexes concern no sum.
LEMMA IndexesTrack ==
    ASSUME NEW t, Tracks(t), NEW u, SameButIndexes(t, u)
    PROVE  Steady(t, u)
<1>1. Tracks(u)
  BY TokensTrack DEF SameButIndexes, Tracks, Purse, SamePurse
<1>2. Surplus(u) = Surplus(t)
  BY DEF SameButIndexes, SamePurse, Surplus
<1> QED
  BY <1>1, <1>2 DEF Steady

\* ForceUnstakeMaxPaused sets heights.
LEMMA ForcingTracks ==
    ASSUME NEW t, Tracks(t), height \in Nat
    PROVE  Steady(t, ForceUnstakeMaxPaused(t))
<1> DEFINE due == {v \in Val : <<height, v>> \in t.paused}
           out == {v \in due : Exists(t, v) /\ ~Unstaking(t, v)}
           at == [v \in out |-> height + UnstakingBlocks]
           w == SetValidatorUnstaking(t, at)
           y == w.paused \ {<<height, v>> : v \in due}
<1>1. ForceUnstakeMaxPaused(t) = [w EXCEPT !.paused = y]
  BY DEF ForceUnstakeMaxPaused
<1>2. DOMAIN at \subseteq DOMAIN t.validators /\ \A v \in DOMAIN at : at[v] \in Nat
  BY ParametersAreValid DEF Exists
<1> HIDE DEF at, due, out
<1>3. Steady(t, w)
  BY <1>2, UnstakingTracks
<1> HIDE DEF w, y
<1>4. PICK z : z = w
  OBVIOUS
<1>5. SameButIndexes(z, [z EXCEPT !.paused = y]) /\ Tracks(z)
  BY <1>3, <1>4, IndexFields DEF Steady, Tracks
<1>6. Steady(z, [z EXCEPT !.paused = y])
  BY <1>5, IndexesTrack
<1> QED
  BY <1>1, <1>3, <1>4, <1>6, SteadyTwice

\* A record that is released leaves its stake to the account of its address.
LEMMA ReleasingTracks ==
    ASSUME NEW t, Tracks(t), \A v \in Finished(t) : Exists(t, v)
    PROVE  Steady(t, DeleteFinishedUnstaking(t))
<1> DEFINE done == Finished(t)
           w == DeleteValidators(t, done)
           old == Restrict(t.validators, done)
           x == [v \in Val |-> IF v \in done THEN w.account[v] + t.validators[v].stake
                                             ELSE w.account[v]]
           y == w.unstaking \ {<<height, v>> : v \in done}
<1>1. DeleteFinishedUnstaking(t) = [w EXCEPT !.account = x, !.unstaking = y]
  BY DEF DeleteFinishedUnstaking
<1>2. done \subseteq DOMAIN t.validators
  BY DEF Exists
<1> HIDE DEF done
<1>3. Tracks(w) /\ Surplus(w) = Surplus(t) + Total(old, {}, "all")
  BY <1>2, DeletingTracks
<1> HIDE DEF w
<1>4. Records(old) /\ DOMAIN old = done /\ \A v \in done : old[v] = t.validators[v]
  BY <1>2 DEF Restrict, Tracks, Records
<1> HIDE DEF old
<1>5. PICK p : p = Share(old, {}, "all")
  OBVIOUS
<1>6. \A v \in Val : p[v] \in Nat /\ p[v] = IF v \in done THEN t.validators[v].stake ELSE 0
  BY <1>4, <1>5, ShareType DEF Counts
<1>7. \A v \in Val : /\ w.account[v] \in Nat /\ x[v] \in Nat
                     /\ x[v] = w.account[v] + p[v]
  BY <1>3, <1>6 DEF Tracks, Purse
<1>8. x \in [Val -> Nat]
  BY <1>7
<1> HIDE DEF x, y
<1>9. /\ SumFunctionOnSet(x, Val)
           = SumFunctionOnSet(w.account, Val) + Total(old, {}, "all")
      /\ Total(old, {}, "all") \in Nat
  <2>1. SumFunctionOnSet(x, Val)
          = SumFunctionOnSet(w.account, Val) + SumFunctionOnSet(p, Val)
    BY <1>6, <1>7, SumPlus, SetsAreFinite
  <2> QED
    BY <1>4, <1>5, <2>1, TotalType DEF Total
<1>10. PICK z, u, n : z = w /\ u = [w EXCEPT !.account = x, !.unstaking = y]
                      /\ n = -Total(old, {}, "all")
  OBVIOUS
<1>11. /\ IsState(u) /\ u.validators = z.validators /\ SameTrackers(z, u)
       /\ u.nonSigner = z.nonSigner /\ u.account = x /\ u.pool = z.pool
       /\ u.total = z.total
  <2>1. IsState(z) /\ u = [z EXCEPT !.account = x, !.unstaking = y]
    BY <1>3, <1>10 DEF Tracks
  <2> QED
    BY ONLY <2>1 DEF IsState, Fields, SameTrackers, SameDelegations
<1>12. Purse(u) /\ Tracks(z) /\ n \in Int
  BY <1>3, <1>8, <1>9, <1>10, <1>11 DEF Tracks, Purse
<1>13. u.total + SumFunctionOnSet(z.account, Val) + SumFunctionOnSet(z.pool, Pool)
              = z.total + SumFunctionOnSet(u.account, Val)
                        + SumFunctionOnSet(u.pool, Pool) + n
  <2>1. /\ SumFunctionOnSet(z.account, Val) \in Nat
        /\ SumFunctionOnSet(z.pool, Pool) \in Nat /\ z.total \in Int
    BY <1>12, SurplusType DEF Tracks, Purse
  <2> QED
    BY <1>9, <1>10, <1>11, <2>1
<1>14. Tracks(u) /\ Surplus(u) = Surplus(z) + n
  BY <1>11, <1>12, <1>13, TokensMove
<1>15. Surplus(u) = Surplus(t)
  <2>1. Surplus(t) \in Int
    BY SurplusType DEF Tracks
  <2> QED
    BY <1>3, <1>9, <1>10, <1>14, <2>1
<1> QED
  BY <1>1, <1>10, <1>14, <1>15 DEF Steady

-----------------------------------------------------------------------------
(* Transactions. *)

\* One of the numbers of f changes, by n.
Edits(S, f, x, n, g) ==
    /\ f \in [S -> Nat] /\ x \in S /\ n \in Int /\ f[x] + n \in Nat
    /\ g = [f EXCEPT ![x] = f[x] + n]

\* Then the sum changes by n.
LEMMA SumEdit ==
    ASSUME NEW S, IsFiniteSet(S), NEW f, NEW x, NEW n, NEW g, Edits(S, f, x, n, g)
    PROVE  /\ g \in [S -> Nat]
           /\ SumFunctionOnSet(f, S) \in Nat
           /\ SumFunctionOnSet(g, S) = SumFunctionOnSet(f, S) + n
<1>1. /\ g \in [S -> Nat] /\ x \in S /\ n \in Int /\ f[x] \in Nat
      /\ g[x] = f[x] + n /\ \A y \in S \ {x} : f[y] = g[y]
      /\ \A y \in S : f[y] \in Nat /\ g[y] \in Nat
  BY DEF Edits
<1>2. SumFunctionOnSet(f, S) + g[x] = SumFunctionOnSet(g, S) + f[x]
  BY <1>1, SumChange
<1>3. SumFunctionOnSet(f, S) \in Nat /\ SumFunctionOnSet(g, S) \in Nat
  BY <1>1, SumType
<1> QED
  BY <1>1, <1>2, <1>3

\* From t to u an account changes by i, a pool by j and the total supply by m.
Moves(t, v, i, c, j, m, u) ==
    /\ IsState(u) /\ u.validators = t.validators /\ SameTrackers(t, u)
    /\ u.nonSigner = t.nonSigner
    /\ Edits(Val, t.account, v, i, u.account) /\ Edits(Pool, t.pool, c, j, u.pool)
    /\ m \in Int /\ u.total = t.total + m

\* The surplus such a change leaves.
LEMMA BalancesMove ==
    ASSUME NEW t, Tracks(t), NEW v, NEW i, NEW c, NEW j, NEW m, NEW u,
           Moves(t, v, i, c, j, m, u)
    PROVE  /\ Tracks(u) /\ Surplus(u) = Surplus(t) + (m - i - j)
           /\ u.validators = t.validators
<1>1. /\ u.account \in [Val -> Nat] /\ SumFunctionOnSet(t.account, Val) \in Nat
      /\ SumFunctionOnSet(u.account, Val) = SumFunctionOnSet(t.account, Val) + i
  BY SumEdit, SetsAreFinite DEF Moves
<1>2. /\ u.pool \in [Pool -> Nat] /\ SumFunctionOnSet(t.pool, Pool) \in Nat
      /\ SumFunctionOnSet(u.pool, Pool) = SumFunctionOnSet(t.pool, Pool) + j
  BY SumEdit, PoolIsFinite DEF Moves
<1>3. t.total \in Int /\ i \in Int /\ j \in Int /\ m \in Int /\ u.total = t.total + m
  BY DEF Tracks, Purse, Moves, Edits
<1>4. PICK k : k = m - i - j
  OBVIOUS
<1>5. /\ k \in Int
      /\ u.total + SumFunctionOnSet(t.account, Val) + SumFunctionOnSet(t.pool, Pool)
           = t.total + SumFunctionOnSet(u.account, Val)
                     + SumFunctionOnSet(u.pool, Pool) + k
  BY <1>1, <1>2, <1>3, <1>4
<1>6. /\ Purse(u) /\ IsState(u) /\ SameTrackers(t, u) /\ u.validators = t.validators
  BY <1>1, <1>2, <1>3 DEF Tracks, Purse, Moves
<1>7. Tracks(u) /\ Surplus(u) = Surplus(t) + k
  BY <1>5, <1>6, TokensMove
<1> QED
  BY <1>4, <1>6, <1>7

\* The fee moves from the account to the pool of this chain.
LEMMA FeesTrack ==
    ASSUME Tracks(s), NEW v \in Val, s.account[v] >= Fee
    PROVE  /\ Steady(s, AccountDeductFees(v))
           /\ AccountDeductFees(v).validators = s.validators
<1> DEFINE a == [s.account EXCEPT ![v] = s.account[v] - Fee]
           p == [s.pool EXCEPT ![Self] = s.pool[Self] + Fee]
<1>1. PICK u, i, n : u = AccountDeductFees(v) /\ i = -Fee /\ n = s.total
  OBVIOUS
<1>2. /\ IsState(s) /\ s.account \in [Val -> Nat] /\ s.pool \in [Pool -> Nat]
      /\ Fee \in Nat /\ n \in Int /\ i \in Int
  BY <1>1, ParametersAreValid DEF Tracks, Purse
<1>3. u = [s EXCEPT !.account = a, !.pool = p]
  BY <1>1, <1>2 DEF AccountDeductFees, IsState, Fields
<1>4. /\ Edits(Val, s.account, v, i, a) /\ Edits(Pool, s.pool, Self, Fee, p)
  BY <1>1, <1>2, PoolIsFinite DEF Edits
<1> HIDE DEF a, p
<1>5. /\ IsState(u) /\ u.validators = s.validators /\ SameTrackers(s, u)
      /\ u.nonSigner = s.nonSigner
      /\ u.account = a /\ u.pool = p /\ u.total = n
  BY ONLY <1>1, <1>2, <1>3 DEF IsState, Fields, SameTrackers, SameDelegations
<1>6. Moves(s, v, i, Self, Fee, 0, u)
  BY <1>1, <1>2, <1>4, <1>5 DEF Moves
<1>7. Tracks(u) /\ Surplus(u) = Surplus(s) + (0 - i - Fee)
  BY <1>6, BalancesMove
<1>8. Surplus(s) \in Int
  BY SurplusType DEF Tracks
<1> QED
  BY <1>1, <1>2, <1>5, <1>7, <1>8 DEF Steady

\* Taking n tokens out of an account leaves a surplus of n.
LEMMA TakingTracks ==
    ASSUME NEW t, Tracks(t), NEW v \in Val, NEW n \in Nat, t.account[v] >= n,
           NEW u, u = [t EXCEPT !.account[v] = @ - n]
    PROVE  /\ Tracks(u) /\ Surplus(u) = Surplus(t) + n
           /\ u.validators = t.validators
<1> DEFINE a == [t.account EXCEPT ![v] = t.account[v] - n]
<1>1. PICK i : i = -n
  OBVIOUS
<1>2. /\ IsState(t) /\ t.account \in [Val -> Nat] /\ t.pool \in [Pool -> Nat]
      /\ t.total \in Int /\ i \in Int /\ t.pool[Self] \in Nat
  BY <1>1, PoolIsFinite DEF Tracks, Purse
<1>3. u = [t EXCEPT !.account = a]
  BY <1>2 DEF IsState, Fields
<1>4. Edits(Val, t.account, v, i, a)
  BY <1>1, <1>2 DEF Edits
<1>5. Edits(Pool, t.pool, Self, 0, t.pool)
  BY <1>2, PoolIsFinite DEF Edits
<1> HIDE DEF a
<1>6. /\ IsState(u) /\ u.validators = t.validators /\ SameTrackers(t, u)
      /\ u.nonSigner = t.nonSigner
      /\ u.account = a /\ u.pool = t.pool /\ u.total = t.total
  BY ONLY <1>2, <1>3 DEF IsState, Fields, SameTrackers, SameDelegations
<1>7. Moves(t, v, i, Self, 0, 0, u)
  BY <1>2, <1>4, <1>5, <1>6 DEF Moves
<1>8. Tracks(u) /\ Surplus(u) = Surplus(t) + (0 - i - 0)
  BY <1>7, BalancesMove
<1> QED
  BY <1>1, <1>2, <1>6, <1>8

\* Sending tokens, to oneself too.
LEMMA SendTracks ==
    ASSUME Tracks(s), NEW v \in Val, NEW w \in Val, NEW amount \in Nat,
           HandleMessageSend(v, w, amount)
    PROVE  Steady(s, s')
<1>1. PICK t : t = AccountDeductFees(v)
  OBVIOUS
<1>2. s.account[v] >= Fee /\ t.account[v] >= amount /\ s' = Transfer(t, v, w, amount)
  BY <1>1 DEF HandleMessageSend, Apply
<1>3. Steady(s, t)
  BY <1>1, <1>2, FeesTrack
<1>4. PICK u : u = [t EXCEPT !.account[v] = @ - amount]
  OBVIOUS
<1>5. Tracks(u) /\ Surplus(u) = Surplus(t) + amount
  BY <1>2, <1>3, <1>4, TakingTracks DEF Steady
<1>6. s' = [u EXCEPT !.account[w] = @ + amount]
  BY <1>2, <1>4 DEF Transfer
<1> DEFINE a == [u.account EXCEPT ![w] = u.account[w] + amount]
<1>7. /\ IsState(u) /\ u.account \in [Val -> Nat] /\ u.pool \in [Pool -> Nat]
      /\ u.total \in Int /\ u.pool[Self] \in Nat
  BY <1>5, PoolIsFinite DEF Tracks, Purse
<1>8. PICK z : z = s' /\ z = [u EXCEPT !.account = a]
  BY <1>6, <1>7 DEF IsState, Fields
<1>9. Edits(Val, u.account, w, amount, a) /\ Edits(Pool, u.pool, Self, 0, u.pool)
  BY <1>7, PoolIsFinite DEF Edits
<1> HIDE DEF a
<1>10. /\ IsState(z) /\ z.validators = u.validators /\ SameTrackers(u, z)
       /\ z.nonSigner = u.nonSigner
       /\ z.account = a /\ z.pool = u.pool /\ z.total = u.total
  BY ONLY <1>7, <1>8 DEF IsState, Fields, SameTrackers, SameDelegations
<1>11. Moves(u, w, amount, Self, 0, 0, z)
  BY <1>7, <1>9, <1>10 DEF Moves
<1>12. Tracks(z) /\ Surplus(z) = Surplus(u) + (0 - amount - 0)
  BY <1>5, <1>11, BalancesMove
<1>13. Surplus(t) \in Int
  BY <1>3, SurplusType DEF Steady, Tracks
<1>14. Surplus(z) = Surplus(t)
  BY <1>5, <1>12, <1>13
<1> QED
  BY <1>3, <1>8, <1>12, <1>14 DEF Steady

\* Subsidising a committee.
LEMMA SubsidyTracks ==
    ASSUME Tracks(s), NEW v \in Val, NEW c \in Chain, NEW amount \in Nat,
           HandleMessageSubsidy(v, c, amount)
    PROVE  Steady(s, s')
<1>1. PICK t, z, i : t = AccountDeductFees(v) /\ z = s' /\ i = -amount
  OBVIOUS
<1>2. /\ s.account[v] >= Fee /\ t.account[v] >= amount
      /\ z = [t EXCEPT !.account[v] = @ - amount, !.pool[c] = @ + amount]
  BY <1>1 DEF HandleMessageSubsidy, Apply
<1>3. Steady(s, t)
  BY <1>1, <1>2, FeesTrack
<1> DEFINE a == [t.account EXCEPT ![v] = t.account[v] - amount]
           p == [t.pool EXCEPT ![c] = t.pool[c] + amount]
<1>4. /\ IsState(t) /\ t.account \in [Val -> Nat] /\ t.pool \in [Pool -> Nat]
      /\ t.total \in Int /\ c \in Pool /\ i \in Int
  BY <1>1, <1>3 DEF Steady, Tracks, Purse, Pool
<1>5. z = [t EXCEPT !.account = a, !.pool = p]
  BY <1>2, <1>4 DEF IsState, Fields
<1>6. Edits(Val, t.account, v, i, a) /\ Edits(Pool, t.pool, c, amount, p)
  BY <1>1, <1>2, <1>4 DEF Edits
<1> HIDE DEF a, p
<1>7. /\ IsState(z) /\ z.validators = t.validators /\ SameTrackers(t, z)
      /\ z.nonSigner = t.nonSigner
      /\ z.account = a /\ z.pool = p /\ z.total = t.total
  BY ONLY <1>4, <1>5 DEF IsState, Fields, SameTrackers, SameDelegations
<1>8. Moves(t, v, i, c, amount, 0, z)
  BY <1>4, <1>6, <1>7 DEF Moves
<1>9. Tracks(z) /\ Surplus(z) = Surplus(t) + (0 - i - amount)
  BY <1>3, <1>8, BalancesMove DEF Steady
<1>10. Surplus(t) \in Int
  BY <1>3, SurplusType DEF Steady, Tracks
<1> QED
  BY <1>1, <1>3, <1>9, <1>10 DEF Steady

\* Paying out of the DAO's pool, after minting for it.
LEMMA DAOTransferTracks ==
    ASSUME Tracks(s), NEW v \in Val, NEW amount \in Nat, NEW mint \in BOOLEAN,
           HandleMessageDAOTransfer(v, amount, mint)
    PROVE  Steady(s, s')
<1>1. PICK t, z, m, j : /\ t = AccountDeductFees(v) /\ z = s'
                        /\ m = (IF mint THEN amount ELSE 0) /\ j = m - amount
  OBVIOUS
<1>2. /\ s.account[v] >= Fee /\ t.pool[Dao] + m >= amount
      /\ z = [t EXCEPT !.total = @ + m, !.pool[Dao] = @ + m - amount,
                       !.account[v] = @ + amount]
  BY <1>1 DEF HandleMessageDAOTransfer, Apply
<1>3. Steady(s, t)
  BY <1>1, <1>2, FeesTrack
<1> DEFINE a == [t.account EXCEPT ![v] = t.account[v] + amount]
           p == [t.pool EXCEPT ![Dao] = t.pool[Dao] + m - amount]
           n == t.total + m
<1>4. /\ IsState(t) /\ t.account \in [Val -> Nat] /\ t.pool \in [Pool -> Nat]
      /\ t.total \in Int /\ m \in Nat /\ j \in Int /\ n \in Int
  BY <1>1, <1>3 DEF Steady, Tracks, Purse, Pool
<1>5. z = [t EXCEPT !.total = n, !.pool = p, !.account = a]
  BY <1>2, <1>4 DEF IsState, Fields
<1>6. Edits(Val, t.account, v, amount, a) /\ Edits(Pool, t.pool, Dao, j, p)
  BY <1>1, <1>2, <1>4, PoolIsFinite DEF Edits
<1> HIDE DEF a, p, n
<1>7. /\ IsState(z) /\ z.validators = t.validators /\ SameTrackers(t, z)
      /\ z.nonSigner = t.nonSigner
      /\ z.account = a /\ z.pool = p /\ z.total = n
  BY ONLY <1>4, <1>5 DEF IsState, Fields, SameTrackers, SameDelegations
<1>8. Moves(t, v, amount, Dao, j, m, z)
  BY <1>4, <1>6, <1>7 DEF Moves, n
<1>9. Tracks(z) /\ Surplus(z) = Surplus(t) + (m - amount - j)
  BY <1>3, <1>8, BalancesMove DEF Steady
<1>10. Surplus(t) \in Int
  BY <1>3, SurplusType DEF Steady, Tracks
<1> QED
  BY <1>1, <1>3, <1>4, <1>9, <1>10 DEF Steady

\* A single record counts for its stake.
LEMMA SingleTotal ==
    ASSUME NEW f, Records(f), NEW v \in Val, DOMAIN f = {v}
    PROVE  Total(f, {}, "all") = f[v].stake /\ f[v].stake \in Nat
<1>1. PICK p : p = Share(f, {}, "all")
  OBVIOUS
<1>2. /\ \A u \in Val : p[u] \in Nat
      /\ p[v] = f[v].stake /\ \A u \in Val \ {v} : p[u] = 0
  BY <1>1, ShareType DEF Counts
<1>3. SumFunctionOnSet(p, Val) = p[v] + SumFunctionOnSet(p, Val \ {v})
  BY <1>2, SumStep, SetsAreFinite
<1>4. SumFunctionOnSet(p, Val \ {v}) = 0
  BY <1>2, SumZero, SetsAreFinite, FS_Subset
<1> QED
  BY <1>1, <1>2, <1>3, <1>4 DEF Total

\* Adding records for addresses that have none.
LEMMA AddingTracks ==
    ASSUME NEW t, Tracks(t), NEW new, Records(new), DOMAIN t.validators \cap DOMAIN new = {}
    PROVE  /\ Tracks(AddValidators(t, new))
           /\ Surplus(AddValidators(t, new)) = Surplus(t) - Total(new, {}, "all")
<1>1. /\ Tracks(AddValidators(t, new))
      /\ Surplus(AddValidators(t, new))
           = Surplus(t) + (Total(Nothing, {}, "all") - Total(new, {}, "all"))
  BY NothingCounts, ReplacingTracks DEF AddValidators
<1>2. Total(Nothing, {}, "all") = 0 /\ Total(new, {}, "all") \in Nat /\ Surplus(t) \in Int
  BY NothingCounts, TotalType, SurplusType DEF Tracks
<1> QED
  BY <1>1, <1>2

\* A record as the stake message and the genesis file write it counts.
LEMMA NewIsStaked ==
    ASSUME NEW amount \in Nat, NEW C \in SUBSET Chain,
           NEW delegate \in BOOLEAN, NEW compound \in BOOLEAN
    PROVE  LET r == NewValidator(amount, C, delegate, compound)
           IN  IsStaked(r) /\ r.stake = amount
BY DEF NewValidator, IsStaked, IsRecord, RecordFields

\* Staking: the tokens become a record's.
LEMMA StakeTracks ==
    ASSUME Tracks(s), NEW v \in Val, NEW amount \in Nat, NEW C \in SUBSET Chain,
           NEW delegate \in BOOLEAN, NEW compound \in BOOLEAN,
           HandleMessageStake(v, amount, C, delegate, compound)
    PROVE  Steady(s, s')
<1> DEFINE new == [u \in {v} |-> NewValidator(amount, C, delegate, compound)]
<1>1. PICK t, w : /\ t = AccountDeductFees(v)
                  /\ w = [t EXCEPT !.account[v] = @ - amount]
  OBVIOUS
<1>2. /\ s.account[v] >= Fee /\ t.account[v] >= amount /\ v \notin DOMAIN t.validators
      /\ s' = AddValidators(w, new)
  BY <1>1 DEF HandleMessageStake, Apply, Exists
<1>3. Steady(s, t)
  BY <1>1, <1>2, FeesTrack
<1>4. Tracks(w) /\ Surplus(w) = Surplus(t) + amount /\ w.validators = t.validators
  BY <1>1, <1>2, <1>3, TakingTracks DEF Steady
<1>5. /\ DOMAIN new = {v} /\ new = [u \in DOMAIN new |-> new[u]]
      /\ IsStaked(new[v]) /\ new[v].stake = amount
  BY NewIsStaked
<1> HIDE DEF new
<1>6. Records(new) /\ DOMAIN w.validators \cap DOMAIN new = {}
  BY <1>2, <1>4, <1>5 DEF Records
<1>7. Tracks(s') /\ Surplus(s') = Surplus(w) - Total(new, {}, "all")
  BY <1>2, <1>4, <1>6, AddingTracks
<1>8. Total(new, {}, "all") = amount
  BY <1>5, <1>6, SingleTotal
<1>9. Surplus(t) \in Int
  BY <1>3, SurplusType DEF Steady, Tracks
<1>10. Surplus(s') = Surplus(t)
  BY <1>4, <1>7, <1>8, <1>9
<1> QED
  BY <1>3, <1>7, <1>10 DEF Steady

\* Editing a stake: what it grows by is taken from the account.
LEMMA EditStakeTracks ==
    ASSUME Tracks(s), NEW v \in Val, NEW amount \in Nat, NEW C \in SUBSET Chain,
           NEW compound \in BOOLEAN, HandleMessageEditStake(v, amount, C, compound)
    PROVE  Steady(s, s')
<1>1. PICK t, r, add, w :
        /\ t = AccountDeductFees(v) /\ r = t.validators[v]
        /\ add = (IF amount > r.stake THEN amount - r.stake ELSE 0)
        /\ w = [t EXCEPT !.account[v] = @ - add]
  OBVIOUS
<1> DEFINE new == [u \in {v} |-> [r EXCEPT !.stake = @ + add, !.committees = C,
                                           !.compound = compound]]
           old == Restrict(w.validators, DOMAIN new)
<1>2. /\ s.account[v] >= Fee /\ t.account[v] >= add /\ v \in DOMAIN t.validators
      /\ s' = UpdateValidatorStake(w, new)
  BY <1>1 DEF HandleMessageEditStake, Apply, Exists
<1>3. s' = SetValidators(Tally(w, old, new), new)
  BY <1>2 DEF UpdateValidatorStake
<1>4. Steady(s, t)
  BY <1>1, <1>2, FeesTrack
<1>5. IsStaked(r) /\ r.stake \in Nat /\ add \in Nat
  BY <1>1, <1>2, <1>4 DEF Steady, Tracks, Records, IsStaked
<1>6. Tracks(w) /\ Surplus(w) = Surplus(t) + add /\ w.validators = t.validators
  BY <1>1, <1>2, <1>4, <1>5, TakingTracks DEF Steady
<1>7. PICK n, q : n = r.stake + add /\ q = new[v]
  OBVIOUS
<1>8. IsStaked(q) /\ q.stake = n
  <2>1. q = [r EXCEPT !.stake = n, !.committees = C, !.compound = compound] /\ n \in Nat
    BY <1>5, <1>7
  <2>2. C \in SUBSET Chain /\ compound \in BOOLEAN
    OBVIOUS
  <2> QED
    BY ONLY <1>5, <2>1, <2>2 DEF IsStaked, IsRecord, RecordFields
<1>9. DOMAIN new = {v} /\ new = [u \in DOMAIN new |-> new[u]]
  OBVIOUS
<1> HIDE DEF new
<1>10. Records(new) /\ new[v].stake = n
  BY <1>7, <1>8, <1>9 DEF Records
<1>11. Records(old) /\ DOMAIN old = {v} /\ old[v] = r
  BY <1>1, <1>2, <1>6, <1>9 DEF Restrict, Tracks, Records
<1> HIDE DEF old
<1>12. /\ DOMAIN old = DOMAIN w.validators \cap DOMAIN new
       /\ \A u \in DOMAIN old : old[u] = w.validators[u]
  BY <1>1, <1>2, <1>6, <1>9, <1>11
<1>13. /\ Tracks(s')
       /\ Surplus(s') = Surplus(w) + (Total(old, {}, "all") - Total(new, {}, "all"))
  BY <1>3, <1>6, <1>10, <1>11, <1>12, ReplacingTracks
<1>14. Total(old, {}, "all") = r.stake /\ Total(new, {}, "all") = n
  BY <1>9, <1>10, <1>11, SingleTotal
<1>15. Surplus(t) \in Int
  BY <1>4, SurplusType DEF Steady, Tracks
<1>16. Surplus(s') = Surplus(t)
  BY <1>5, <1>6, <1>7, <1>13, <1>14, <1>15
<1> QED
  BY <1>4, <1>13, <1>16 DEF Steady

\* Unstaking, pausing and unpausing set heights.
LEMMA UnstakeTracks ==
    ASSUME Tracks(s), height \in Nat, NEW v \in Val, HandleMessageUnstake(v)
    PROVE  Steady(s, s')
<1>1. PICK t : t = AccountDeductFees(v)
  OBVIOUS
<1> DEFINE at == [u \in {v} |-> height + UnstakingBlocksOf(t.validators[v])]
<1>2. /\ s.account[v] >= Fee /\ v \in DOMAIN t.validators
      /\ s' = SetValidatorUnstaking(t, at)
  BY <1>1 DEF HandleMessageUnstake, Apply, Exists
<1>3. Steady(s, t)
  BY <1>1, <1>2, FeesTrack
<1>4. DOMAIN at \subseteq DOMAIN t.validators /\ \A u \in DOMAIN at : at[u] \in Nat
  BY <1>2, PeriodsArePositive
<1> HIDE DEF at
<1>5. Steady(t, s')
  BY <1>2, <1>3, <1>4, UnstakingTracks DEF Steady
<1> QED
  BY <1>3, <1>5, SteadyTwice

\* Pausing.
LEMMA PauseTracks ==
    ASSUME Tracks(s), height \in Nat, NEW v \in Val, HandleMessagePause(v)
    PROVE  Steady(s, s')
<1>1. PICK t, m : t = AccountDeductFees(v) /\ m = height + MaxPauseBlocks
  OBVIOUS
<1>2. /\ s.account[v] >= Fee /\ v \in DOMAIN t.validators
      /\ s' = SetValidatorPaused(t, {v}, m)
  BY <1>1 DEF HandleMessagePause, CanPause, Apply, Exists
<1>3. Steady(s, t)
  BY <1>1, <1>2, FeesTrack
<1>4. {v} \subseteq DOMAIN t.validators /\ m \in Nat
  BY <1>1, <1>2, ParametersAreValid
<1>5. Steady(t, s')
  BY <1>2, <1>3, <1>4, PausingTracks DEF Steady
<1> QED
  BY <1>3, <1>5, SteadyTwice

\* Unpausing.
LEMMA UnpauseTracks ==
    ASSUME Tracks(s), NEW v \in Val, HandleMessageUnpause(v)
    PROVE  Steady(s, s')
<1>1. PICK t : t = AccountDeductFees(v)
  OBVIOUS
<1>2. /\ s.account[v] >= Fee /\ v \in DOMAIN t.validators
      /\ s' = SetValidatorUnpaused(t, v)
  BY <1>1 DEF HandleMessageUnpause, Apply, Exists
<1>3. Steady(s, t)
  BY <1>1, <1>2, FeesTrack
<1>4. Steady(t, s')
  BY <1>2, <1>3, UnpausingTracks DEF Steady
<1> QED
  BY <1>3, <1>4, SteadyTwice

-----------------------------------------------------------------------------
(* Genesis and the blocks. *)

\* The genesis file: the supply is what its accounts and validators hold.
LEMMA GenesisTracks ==
    Tracks(Genesis) /\ Surplus(Genesis) = 0
<1> DEFINE first == [v \in {u \in Val : Stake[u] > 0} |->
                       NewValidator(Stake[v], {Self}, FALSE, TRUE)]
           pool == [p \in Pool |-> 0]
           none == [v \in Val |-> 0]
           total == SumFunction(Balance) + StakeOf(first)
           zero == [c \in Chain |-> 0]
           empty == [validators |-> Nothing,
                     unstaking |-> {}, paused |-> {},
                     account |-> Balance, pool |-> pool, nonSigner |-> none,
                     total |-> total, staked |-> 0, delegated |-> 0,
                     committeeStaked |-> zero, committeeDelegated |-> zero]
<1>1. Genesis = AddValidators(empty, first)
  BY DEF Genesis
<1>2. Records(first)
  <2>1. DOMAIN first \subseteq Val /\ first = [v \in DOMAIN first |-> first[v]]
    OBVIOUS
  <2>2. ASSUME NEW v \in DOMAIN first
        PROVE  IsStaked(first[v])
    <3>1. PICK no \in BOOLEAN, yes \in BOOLEAN, C \in {{Self}}, n \in {Stake[v]} :
             no = FALSE /\ yes = TRUE /\ C = {Self} /\ n = Stake[v]
      OBVIOUS
    <3>2. first[v] = NewValidator(n, C, no, yes)
      BY <3>1
    <3>3. C \in SUBSET Chain /\ n \in Nat
      BY <3>1, SelfIsAChain, AccountsAreNumbers
    <3> HIDE DEF first
    <3> QED
      BY <3>2, <3>3, NewIsStaked
  <2> HIDE DEF first
  <2> QED
    BY <2>1, <2>2 DEF Records
<1>3. /\ pool \in [Pool -> Nat] /\ none \in [Val -> Nat] /\ zero \in [Chain -> Int]
      /\ zero = [c \in Chain |-> 0] /\ \A p \in Pool : pool[p] = 0
  OBVIOUS
<1>4. total = SumFunctionOnSet(Balance, Val) + Total(first, {}, "all")
  <2>1. DOMAIN Balance = Val
    BY AccountsAreNumbers
  <2> HIDE DEF first
  <2> QED
    BY <1>2, <2>1, TrackedTotals DEF SumFunction
<1> HIDE DEF first, pool, none, total, zero
<1>5. /\ IsState(empty) /\ empty.validators = Nothing
      /\ empty.account = Balance /\ empty.pool = pool /\ empty.nonSigner = none
      /\ empty.total = total /\ empty.staked = 0 /\ empty.delegated = 0
      /\ empty.committeeStaked = zero /\ empty.committeeDelegated = zero
  BY DEF IsState, Fields
<1> HIDE DEF empty
<1>6. /\ SumFunctionOnSet(Balance, Val) \in Nat /\ Total(first, {}, "all") \in Nat
      /\ SumFunctionOnSet(pool, Pool) = 0
  BY <1>2, <1>3, TotalType, SumType, SumZero, SetsAreFinite, PoolIsFinite,
     AccountsAreNumbers
<1>7. Tracks(empty)
  <2>1. Records(empty.validators) /\ \A C, k : Total(empty.validators, C, k) = 0
    BY <1>5, NothingCounts
  <2>2. Purse(empty)
    BY <1>3, <1>4, <1>5, <1>6, AccountsAreNumbers DEF Purse
  <2>3. Tallied(empty)
    BY <1>3, <1>5, <2>1 DEF Tallied
  <2>4. Covered(empty)
    BY <1>3, <1>5, <2>1 DEF Covered
  <2> QED
    BY <1>5, <2>1, <2>2, <2>3, <2>4 DEF Tracks
<1>8. Surplus(empty) = Total(first, {}, "all")
  BY <1>4, <1>5, <1>6, NothingCounts DEF Surplus
<1>9. DOMAIN empty.validators \cap DOMAIN first = {}
  BY <1>5, NothingCounts
<1>10. /\ Tracks(AddValidators(empty, first))
       /\ Surplus(AddValidators(empty, first))
            = Surplus(empty) - Total(first, {}, "all")
  BY <1>2, <1>7, <1>9, AddingTracks
<1> QED
  BY <1>1, <1>6, <1>8, <1>10

\* The inductive invariant of the sums: every tracker keeps its promise, and there
\* is no surplus.
SInv ==
    /\ height \in 1 .. MaxHeight /\ phase \in {"Begin", "Txs"}
    /\ txs \in 0 .. MaxTxs /\ reports \in 0 .. MaxReports
    /\ Tracks(s) /\ Surplus(s) = 0
    /\ prev \in [Val -> Nat] /\ cur \in [Val -> Nat]
    /\ IsPayment(payment)
    /\ liable \subseteq Nat \X Val

\* A transaction leaves no surplus and breaks no promise.
LEMMA TransactionTracks ==
    ASSUME SInv, Transaction
    PROVE  /\ Steady(s, s') /\ txs' = txs + 1 /\ txs < MaxTxs
           /\ UNCHANGED <<height, phase, prev, cur, liable, payment, reports>>
<1>1. Tracks(s) /\ height \in Nat
  BY DEF SInv
<1>2. Amounts \subseteq Nat /\ \A C \in Lists : C \in SUBSET Chain
  BY ParametersAreValid
<1>3. PICK v \in Val :
        \/ \E w \in Val, amount \in Amounts : HandleMessageSend(v, w, amount)
        \/ \E amount \in Amounts, C \in Lists,
              delegate, compound \in BOOLEAN :
              HandleMessageStake(v, amount, C, delegate, compound)
        \/ \E amount \in Amounts, C \in Lists, compound \in BOOLEAN :
              HandleMessageEditStake(v, amount, C, compound)
        \/ HandleMessageUnstake(v)
        \/ HandleMessagePause(v)
        \/ HandleMessageUnpause(v)
        \/ \E c \in Chain, amount \in Amounts : HandleMessageSubsidy(v, c, amount)
        \/ \E amount \in Amounts, mint \in BOOLEAN :
              HandleMessageDAOTransfer(v, amount, mint)
  BY DEF Transaction
<1>4. \E result : Apply(v, result)
  BY <1>3 DEF HandleMessageSend, HandleMessageStake, HandleMessageEditStake,
     HandleMessageUnstake, HandleMessagePause, HandleMessageUnpause,
     HandleMessageSubsidy, HandleMessageDAOTransfer
<1>5. /\ txs' = txs + 1 /\ txs < MaxTxs
      /\ UNCHANGED <<height, phase, prev, cur, liable, payment, reports>>
  BY <1>4 DEF Apply
<1>6. CASE \E w \in Val, amount \in Amounts : HandleMessageSend(v, w, amount)
  BY <1>1, <1>2, <1>5, <1>6, SendTracks
<1>7. CASE \E amount \in Amounts, C \in Lists,
              delegate, compound \in BOOLEAN :
              HandleMessageStake(v, amount, C, delegate, compound)
  BY <1>1, <1>2, <1>5, <1>7, StakeTracks
<1>8. CASE \E amount \in Amounts, C \in Lists, compound \in BOOLEAN :
              HandleMessageEditStake(v, amount, C, compound)
  BY <1>1, <1>2, <1>5, <1>8, EditStakeTracks
<1>9. CASE HandleMessageUnstake(v)
  BY <1>1, <1>5, <1>9, UnstakeTracks
<1>10. CASE HandleMessagePause(v)
  BY <1>1, <1>5, <1>10, PauseTracks
<1>11. CASE HandleMessageUnpause(v)
  BY <1>1, <1>5, <1>11, UnpauseTracks
<1>12. CASE \E c \in Chain, amount \in Amounts : HandleMessageSubsidy(v, c, amount)
  BY <1>1, <1>2, <1>5, <1>12, SubsidyTracks
<1>13. CASE \E amount \in Amounts, mint \in BOOLEAN :
              HandleMessageDAOTransfer(v, amount, mint)
  BY <1>1, <1>2, <1>5, <1>13, DAOTransferTracks
<1> QED
  BY <1>3, <1>6, <1>7, <1>8, <1>9, <1>10, <1>11, <1>12, <1>13

\* The voting power of a set is the sum of its members' powers.
LEMMA PreviousPower ==
    ASSUME NEW S
    PROVE  VP!PowerOf(S) = SumFunctionOnSet(prev, S)
BY Zenon DEF VP!PowerOf, VP!MapThenSumSet, VP!MapThenFoldSet,
             SumFunctionOnSet, FoldFunctionOnSet, MapThenFoldSet

\* The share of the power that missed a certificate is a number: a majority of a
\* committee without power does not exist.
LEMMA MissedShare ==
    ASSUME prev \in [Val -> Nat], NEW signers \in VP!Majorities,
           NEW missed, missed \subseteq Val
    PROVE  (VP!PowerOf(missed) * 100) \div VP!TotalPower \in Nat
<1>1. PICK p, q, m : /\ p = SumFunctionOnSet(prev, signers)
                     /\ q = SumFunctionOnSet(prev, Val)
                     /\ m = SumFunctionOnSet(prev, missed)
  OBVIOUS
<1>2. signers \in SUBSET Val /\ missed \in SUBSET Val
  BY DEF VP!Majorities
<1>3. p \in Nat /\ q \in Nat /\ m \in Nat /\ p <= q
  BY <1>1, <1>2, SumSubset, SumType, SetsAreFinite
<1>4. VP!TotalPower = q /\ VP!PowerOf(missed) = m /\ VP!PowerOf(signers) = p
  BY <1>1, PreviousPower DEF VP!TotalPower
<1>5. p >= (2 * q) \div 3 + 1
  BY <1>4 DEF VP!Majorities, VP!MinimumMaj23
<1>6. (2 * q) \div 3 \in Nat
  BY <1>3
<1>7. q > 0
  BY <1>3, <1>5, <1>6
<1>8. m * 100 \in Nat
  BY <1>3
<1>9. (m * 100) \div q \in Nat
  BY <1>3, <1>7, <1>8
<1> QED
  BY <1>4, <1>9

\* The voting powers of a committee are stakes.
LEMMA PowersAreNumbers ==
    ASSUME NEW t, Tracks(t)
    PROVE  VotingPowers(t) \in [Val -> Nat]
BY DEF VotingPowers, Tracks, Records, IsStaked, Exists

\* The beginning of a block: minting, then the certificate.
LEMMA BeginTracks ==
    ASSUME SInv, BeginBlock
    PROVE  SInv'
<1>1. PICK signers \in VP!Majorities, reward \in Payments,
           evidence \in {{}} \cup {{e} : e \in {l \in liable : l[1] < height}} :
        LET missed == Voters(prev) \ signers
            share  == (VP!PowerOf(missed) * 100) \div VP!TotalPower
        IN  /\ signers \subseteq Voters(prev)
            /\ s' = HandleByzantine(FundCommitteeRewardPools(s), missed, evidence)
            /\ payment' = [v \in DOMAIN reward |->
                             VP!Uint64ReducePercentage(reward[v], share)]
            /\ liable' = liable \ evidence
            /\ reports + Cardinality(evidence) <= MaxReports
            /\ reports' = reports + Cardinality(evidence)
  BY DEF BeginBlock
<1>2. PICK t, missed : /\ t = FundCommitteeRewardPools(s) /\ missed = Voters(prev) \ signers
  OBVIOUS
<1>3. PICK share : share = (VP!PowerOf(missed) * 100) \div VP!TotalPower
  OBVIOUS
<1>4. Steady(s, t)
  BY <1>2, MintingTracks DEF SInv
<1>5. height \in Nat
  BY DEF SInv
<1>6. Steady(t, s')
  BY <1>1, <1>2, <1>4, <1>5, ByzantineTracks DEF Steady
<1>7. Tracks(s') /\ Surplus(s') = 0
  BY <1>4, <1>6 DEF Steady, SInv
<1>8. share \in Nat
  BY <1>2, <1>3, MissedShare DEF SInv, Voters
<1>9. IsPayment(payment')
  <2>1. DOMAIN reward \subseteq Val /\ reward \in [DOMAIN reward -> Nat]
    BY PaymentsArePercents
  <2>2. payment' = [v \in DOMAIN reward |-> VP!Uint64ReducePercentage(reward[v], share)]
    BY <1>1, <1>2, <1>3
  <2>3. \A v \in DOMAIN reward : VP!Uint64ReducePercentage(reward[v], share) \in Nat
    BY <1>8, <2>1, ReducedIsLess
  <2>4. /\ DOMAIN payment' = DOMAIN reward
        /\ \A v \in DOMAIN reward : /\ payment'[v] \in Nat /\ reward[v] \in Nat
                                    /\ payment'[v] <= reward[v]
    BY <1>8, <2>1, <2>2, <2>3, ReducedIsLess
  <2>5. IsFiniteSet(DOMAIN reward)
    BY <2>1, FS_Subset, SetsAreFinite
  <2>6. PICK m \in Nat, n \in Nat :
           /\ m = SumFunctionOnSet(payment', DOMAIN reward)
           /\ n = SumFunctionOnSet(reward, DOMAIN reward)
    BY <2>4, <2>5, SumType
  <2>7. m <= n
    BY <2>4, <2>5, <2>6, SumMono
  <2>8. n <= 100
    BY <2>6, PaymentsArePercents DEF SumFunction
  <2>9. payment' \in [DOMAIN payment' -> Nat]
    BY <2>2, <2>3
  <2> QED
    BY <2>1, <2>4, <2>6, <2>7, <2>8, <2>9 DEF IsPayment
<1>10. reports' \in 0 .. MaxReports
  <2>1. evidence = {} \/ \E e : evidence = {e}
    OBVIOUS
  <2>2. Cardinality(evidence) \in Nat
    BY <2>1, FS_EmptySet, FS_Singleton
  <2> QED
    BY <1>1, <2>2, ParametersAreValid DEF SInv
<1>11. phase' = "Txs" /\ UNCHANGED <<height, prev, cur, txs>> /\ liable' \subseteq liable
  BY <1>1 DEF BeginBlock
<1> QED
  BY <1>7, <1>9, <1>10, <1>11 DEF SInv, IsPayment

LEMMA NothingIsAPayment ==
    IsPayment(Nothing)
<1>1. DOMAIN Nothing = {} /\ Nothing \in [DOMAIN Nothing -> Nat]
  BY DEF Nothing
<1> QED
  BY <1>1, SumEmpty DEF IsPayment

\* The end of a block: rewards, forced unstaking, releases.
LEMMA EndTracks ==
    ASSUME SInv, EndBlock
    PROVE  SInv'
<1>1. PICK t, u : t = DistributeCommitteeRewards(s) /\ u = ForceUnstakeMaxPaused(t)
  OBVIOUS
<1>2. /\ height < MaxHeight /\ (\A v \in Finished(u) : Exists(u, v))
      /\ s' = DeleteFinishedUnstaking(u)
      /\ height' = height + 1 /\ phase' = "Begin" /\ prev' = cur
      /\ cur' = VotingPowers(s')
      /\ liable' = {l \in liable : l[1] + UnstakingBlocks >= height}
                       \cup {<<height + 1, v>> : v \in Voters(VotingPowers(s'))}
      /\ payment' = Nothing /\ UNCHANGED <<txs, reports>>
  BY <1>1 DEF EndBlock, AtEnd
<1>3. height \in 1 .. MaxHeight /\ height \in Nat /\ MaxHeight \in Nat
  BY ParametersAreValid DEF SInv
<1>4. Steady(s, t)
  BY <1>1, RewardsTrack DEF SInv
<1>5. Steady(t, u)
  BY <1>1, <1>3, <1>4, ForcingTracks DEF Steady
<1>6. Steady(u, s')
  BY <1>2, <1>5, ReleasingTracks DEF Steady
<1>7. Tracks(s') /\ Surplus(s') = 0
  BY <1>4, <1>5, <1>6 DEF Steady, SInv
<1>8. cur' \in [Val -> Nat]
  BY <1>2, <1>7, PowersAreNumbers
<1>9. liable' \subseteq Nat \X Val
  BY <1>2, <1>3 DEF SInv, Voters
<1>10. IsPayment(payment')
  BY <1>2, NothingIsAPayment DEF IsPayment
<1>11. height' \in 1 .. MaxHeight
  BY <1>2, <1>3
<1> QED
  BY <1>2, <1>7, <1>8, <1>9, <1>10, <1>11 DEF SInv, IsPayment

\* The supply: every tracker keeps its promise, whatever is staked, rewarded,
\* slashed, released and paid.
THEOREM SupplyIsTracked ==
    Spec => []SInv
<1>1. Init => SInv
  <2> SUFFICES ASSUME Init
               PROVE  SInv
    OBVIOUS
  <2>1. /\ height = 1 /\ phase = "Begin" /\ txs = 0 /\ reports = 0 /\ s = Genesis
        /\ prev = [v \in Val |-> 0] /\ cur = VotingPowers(Genesis)
        /\ liable = {<<1, v>> : v \in Voters(VotingPowers(Genesis))}
        /\ payment = Nothing
    BY DEF Init
  <2>2. Tracks(s) /\ Surplus(s) = 0 /\ cur \in [Val -> Nat]
    BY <2>1, GenesisTracks, PowersAreNumbers
  <2>3. height \in 1 .. MaxHeight /\ txs \in 0 .. MaxTxs /\ reports \in 0 .. MaxReports
    BY <2>1, ParametersAreValid
  <2>4. IsPayment(payment)
    BY <2>1, NothingIsAPayment
  <2>5. liable \subseteq Nat \X Val
    BY <2>1 DEF Voters
  <2>6. prev \in [Val -> Nat]
    BY <2>1
  <2> QED
    BY <2>1, <2>2, <2>3, <2>4, <2>5, <2>6 DEF SInv
<1>2. SInv /\ [Next]_vars => SInv'
  <2> SUFFICES ASSUME SInv, [Next]_vars
               PROVE  SInv'
    OBVIOUS
  <2>1. CASE UNCHANGED vars
    BY <2>1 DEF SInv, vars, IsPayment
  <2>2. CASE BeginFirstBlock
    BY <2>2 DEF SInv, BeginFirstBlock, IsPayment
  <2>3. CASE BeginBlock
    BY <2>3, BeginTracks
  <2>4. CASE Transaction
    <3>1. /\ Steady(s, s') /\ txs' = txs + 1 /\ txs < MaxTxs
          /\ UNCHANGED <<height, phase, prev, cur, liable, payment, reports>>
      BY <2>4, TransactionTracks
    <3>2. Tracks(s') /\ Surplus(s') = 0
      BY <3>1 DEF Steady, SInv
    <3>3. txs' \in 0 .. MaxTxs
      BY <3>1, ParametersAreValid DEF SInv
    <3> QED
      BY <3>1, <3>2, <3>3 DEF SInv, IsPayment
  <2>5. CASE EndBlock
    BY <2>5, EndTracks
  <2> QED
    BY <2>1, <2>2, <2>3, <2>4, <2>5 DEF Next
<1> QED
  BY <1>1, <1>2, PTL DEF Spec

\* The rewards that the end of a block would pay never exceed the pool they are taken
\* from (committee.go, DistributeCommitteeRewards), although each is computed from the
\* whole pool and rounded by itself: what is left to burn is no negative number.
THEOREM RewardsFitThePool ==
    Spec => [](TotalDistributed(s) <= s.pool[Self])
<1>1. SInv => TotalDistributed(s) <= s.pool[Self]
  BY RewardsFit DEF SInv
<1> QED
  BY <1>1, SupplyIsTracked, PTL

\* No reward, penalty, slash, release, fee, subsidy or transfer creates or loses a token:
\* the total supply is always what accounts, pools and stakes hold.
THEOREM TokensAreConservedAlways ==
    Spec => []TokensAreConserved
<1>1. SInv => TokensAreConserved
  <2> SUFFICES ASSUME SInv
               PROVE  TokensAreConserved
    OBVIOUS
  <2>1. Tracks(s) /\ Surplus(s) = 0
    BY DEF SInv
  <2>2. DOMAIN s.account = Val /\ DOMAIN s.pool = Pool /\ s.total \in Int
    BY <2>1 DEF Tracks, Purse
  <2>3. StakeOf(s.validators) = Total(s.validators, {}, "all")
    BY <2>1, TrackedTotals DEF Tracks
  <2>4. /\ SumFunctionOnSet(s.account, Val) \in Nat
        /\ SumFunctionOnSet(s.pool, Pool) \in Nat
        /\ Total(s.validators, {}, "all") \in Nat
    BY <2>1, SurplusType DEF Tracks
  <2>5. s.total = SumFunctionOnSet(s.account, Val) + SumFunctionOnSet(s.pool, Pool)
                    + Total(s.validators, {}, "all")
    BY <2>1, <2>2, <2>4 DEF Surplus
  <2> QED
    BY <2>2, <2>3, <2>5 DEF TokensAreConserved, SumFunction
<1> QED
  BY <1>1, SupplyIsTracked, PTL

\* The staked supply and that of each committee are the sums of the stakes, through every
\* edit, reward, slash and deletion: the code's running additions and subtractions never
\* drift from what they count.
THEOREM CommitteesAreTalliedAlways ==
    Spec => []CommitteesAreTallied
<1>1. SInv => CommitteesAreTallied
  BY TrackedTotals DEF SInv, Tracks, Tallied, CommitteesAreTallied
<1> QED
  BY <1>1, SupplyIsTracked, PTL

\* The trackers of the delegates, which a slash does not update, are never below what the
\* delegates hold: subtracting a delegate's stake from them never fails.
THEOREM DelegatesAreCoveredAlways ==
    Spec => []DelegatesAreCovered
<1>1. SInv => DelegatesAreCovered
  BY TrackedTotals DEF SInv, Tracks, Covered, DelegatesAreCovered
<1> QED
  BY <1>1, SupplyIsTracked, PTL

\* The working state is well formed; in particular no balance, pool or tracker that the
\* code keeps in a uint64 goes below zero.
THEOREM StateIsWellFormed ==
    Spec => []TypeOK
<1>1. SInv /\ IInv => TypeOK
  <2> SUFFICES ASSUME SInv, IInv
               PROVE  TypeOK
    OBVIOUS
  <2>1. Tracks(s) /\ Surplus(s) = 0
    BY DEF SInv
  <2>2. Records(s.validators) /\ Purse(s) /\ Tallied(s) /\ Covered(s)
    BY <2>1 DEF Tracks
  <2>3. DOMAIN s.validators \subseteq Val
        /\ s.validators \in [DOMAIN s.validators -> Validator]
    <3>1. ASSUME NEW r, IsStaked(r)
          PROVE  r \in Validator
      BY <3>1 DEF IsStaked, IsRecord, RecordFields, Validator
    <3> QED
      BY <2>2, <3>1 DEF Records
  <2>4. s.unstaking \subseteq Nat \X Val /\ s.paused \subseteq Nat \X Val
    BY DEF IInv, Good, Formed
  <2>5. \A C, k : Total(s.validators, C, k) \in Nat
    BY <2>2, TotalType
  <2>6. {s.total, s.staked, s.delegated} \subseteq Nat
    <3>1. s.staked \in Nat /\ s.delegated \in Nat
      BY <2>2, <2>5 DEF Tallied, Covered
    <3>2. s.total \in Nat
      BY <2>1, <2>2, SurplusType DEF Surplus, Purse
    <3> QED
      BY <3>1, <3>2
  <2>7. s.committeeStaked \in [Chain -> Nat] /\ s.committeeDelegated \in [Chain -> Nat]
    <3>1. s.committeeStaked \in [Chain -> Nat]
      BY <2>2, <2>5 DEF Tallied
    <3>2. ASSUME NEW c \in Chain
          PROVE  s.committeeDelegated[c] \in Nat
      <4>1. /\ s.committeeDelegated[c] \in Int
            /\ s.committeeDelegated[c] >= Total(s.validators, {c}, "delegates")
        BY <2>2 DEF Covered
      <4>2. Total(s.validators, {c}, "delegates") \in Nat
        BY <2>5
      <4> QED
        BY <4>1, <4>2
    <3> QED
      BY <2>2, <3>1, <3>2 DEF Covered
  <2> QED
    BY <2>2, <2>3, <2>4, <2>6, <2>7 DEF TypeOK, SInv, Purse, IsPayment
<1> QED
  BY <1>1, SupplyIsTracked, IndexesCoverRecords, PTL
=============================================================================
