------------------------- MODULE DebtTrackersProofs -------------------------
(***************************************************************************)
(* For every market: what a refreshed obligation contributes to the debt    *)
(* counters is exactly its debt, every counter is the sum of the            *)
(* contributions, debt taken in a group stays within the limits of its      *)
(* collateral, and collateral reserved for groups never backs debt taken    *)
(* outside.                                                                 *)
(***************************************************************************)
EXTENDS DebtTrackers, SumProofs, TLAPS

-----------------------------------------------------------------------------
(* The inductive invariant, one obligation at a time.                       *)

\* Contributions exist only where the obligation's group and positions allow:
\* what changing the group and erasing a position leave behind is nothing.
NothingLeftBehind(b) ==
    /\ \A r \in Reserves :
          (b.group = NoGroup \/ r \notin b.deposited) => b.against[r] = 0
    /\ \A r \in Reserves :
          (b.group # NoGroup \/ b.debt[r] = 0) => b.outside[r] = 0

\* What a refresh establishes, until the obligation is used.
ExactWhenFresh(b) ==
    b.freshness = "fresh" =>
        /\ \A r \in b.deposited :
              b.group # NoGroup => b.against[r] = GroupDebt(b, b.group)
        /\ \A r \in Reserves :
              b.group = NoGroup => b.outside[r] = ToCeil(b.debt[r])
        /\ b.group # NoGroup => Debts(b) \subseteq {DebtReserve[b.group]}
        /\ b.borrowing_disabled = BorrowingDisabled(b, b.group)

Sound(b) == b \in ObligationType /\ NothingLeftBehind(b) /\ ExactWhenFresh(b)

IInv == TypeOK /\ \A o \in Obligations : Sound(obligation[o])

-----------------------------------------------------------------------------
(* Counting in whole tokens.                                                *)

\* A debt rounded up is a natural number of tokens, and none only for no debt.
LEMMA CeilNat ==
    ASSUME NEW f \in Nat
    PROVE  ToCeil(f) \in Nat /\ (f = 0 => ToCeil(f) = 0)
<1>1. f + SF - 1 \in Nat
  BY SFAssumption
<1>2. (f + SF - 1) \div SF \in Nat
  BY <1>1, SFAssumption, SMT
<1>3. ASSUME f = 0 PROVE ToCeil(f) = 0
  <2>1. 0 <= SF - 1 /\ SF - 1 < SF /\ SF \in Nat \ {0}
    BY SFAssumption
  <2>2. (SF - 1) \div SF = 0
    BY <2>1, SMT
  <2> QED
    BY <1>3, <2>2, SFAssumption DEF ToCeil
<1> QED
  BY <1>2, <1>3 DEF ToCeil

\* The debt an obligation counts in a group is a natural number.
LEMMA GroupDebtNat ==
    ASSUME NEW b \in ObligationType, NEW g \in Groups
    PROVE  GroupDebt(b, g) \in Nat
<1>1. DebtReserve[g] \in Reserves
  BY TrackerAssumption
<1>2. b.debt[DebtReserve[g]] \in Nat
  BY <1>1 DEF ObligationType
<1> QED
  BY <1>2, CeilNat DEF GroupDebt

\* A saturating subtraction is natural.
LEMMA SubNat ==
    ASSUME NEW x \in Nat, NEW y \in Nat
    PROVE  SaturatingSub(x, y) \in Nat
BY DEF SaturatingSub

-----------------------------------------------------------------------------
(* What each helper keeps.                                                  *)

\* Tracking an obligation with nothing left behind for group g counts its debt
\* exactly, and still leaves nothing behind.
LEMMA TrackedFacts ==
    ASSUME NEW b \in ObligationType, NEW g \in Groups \cup {NoGroup},
           \A r \in Reserves : (g = NoGroup \/ r \notin b.deposited) => b.against[r] = 0,
           \A r \in Reserves : (g # NoGroup \/ b.debt[r] = 0) => b.outside[r] = 0
    PROVE  LET t == Tracked(b, g)
           IN /\ t \in ObligationType
              /\ t.group = b.group /\ t.freshness = b.freshness
              /\ t.debt = b.debt /\ t.deposited = b.deposited
              /\ t.borrowing_disabled = BorrowingDisabled(b, g)
              /\ \A r \in Reserves :
                    (g = NoGroup \/ r \notin b.deposited) => t.against[r] = 0
              /\ \A r \in Reserves :
                    (g # NoGroup \/ b.debt[r] = 0) => t.outside[r] = 0
              /\ \A r \in b.deposited : g # NoGroup => t.against[r] = GroupDebt(b, g)
              /\ \A r \in Reserves : g = NoGroup => t.outside[r] = ToCeil(b.debt[r])
<1> DEFINE ag == [r \in Reserves |->
                    IF g # NoGroup /\ r \in b.deposited THEN GroupDebt(b, g)
                    ELSE b.against[r]]
           ou == [r \in Reserves |->
                    IF g = NoGroup /\ r \in Debts(b) THEN ToCeil(b.debt[r])
                    ELSE b.outside[r]]
           t == Tracked(b, g)
<1>1. ag \in [Reserves -> Nat]
  BY GroupDebtNat DEF ObligationType
<1>2. ou \in [Reserves -> Nat]
  BY CeilNat DEF ObligationType
<1>3. BorrowingDisabled(b, g) \in BOOLEAN
  BY DEF BorrowingDisabled
<1>4. t = [b EXCEPT !.against = ag, !.outside = ou,
                    !.borrowing_disabled = BorrowingDisabled(b, g)]
  BY Zenon DEF Tracked
<1>5. b.debt \in [Reserves -> Nat] /\ b.deposited \subseteq Reserves
  BY DEF ObligationType
<1>6. \A r \in Reserves : (g = NoGroup \/ r \notin b.deposited) => ag[r] = 0
  OBVIOUS
<1>7. \A r \in Reserves : (g # NoGroup \/ b.debt[r] = 0) => ou[r] = 0
  BY <1>5 DEF Debts
<1>8. \A r \in Reserves : g = NoGroup => ou[r] = ToCeil(b.debt[r])
  BY <1>5, CeilNat DEF Debts
<1>9. \A r \in b.deposited : g # NoGroup => ag[r] = GroupDebt(b, g)
  BY <1>5
<1> HIDE DEF ag, ou, t
<1>10. t \in ObligationType
  BY <1>1, <1>2, <1>3, <1>4 DEF ObligationType
<1>11. /\ t.group = b.group /\ t.freshness = b.freshness
       /\ t.debt = b.debt /\ t.deposited = b.deposited
       /\ t.against = ag /\ t.outside = ou
       /\ t.borrowing_disabled = BorrowingDisabled(b, g)
  BY <1>4 DEF ObligationType
<1> QED
  BY <1>6, <1>7, <1>8, <1>9, <1>10, <1>11 DEF t

\* Interest leaves everything else alone, and raises only existing debts.
LEMMA WithInterestFacts ==
    ASSUME NEW b \in ObligationType, NothingLeftBehind(b),
           NEW interest \in [Reserves -> Nat]
    PROVE  LET c == WithInterest(b, interest)
           IN /\ c \in ObligationType /\ NothingLeftBehind(c)
              /\ c.group = b.group /\ c.deposited = b.deposited
              /\ c.against = b.against /\ c.outside = b.outside
<1> DEFINE de == [r \in Reserves |->
                    IF r \in Debts(b) THEN b.debt[r] + interest[r] ELSE 0]
           c == WithInterest(b, interest)
<1>1. de \in [Reserves -> Nat]
  BY DEF ObligationType
<1>2. c = [b EXCEPT !.debt = de]
  BY Zenon DEF WithInterest
<1>3. \A r \in Reserves : de[r] = 0 => b.debt[r] = 0
  BY DEF Debts, ObligationType
<1> HIDE DEF de, c
<1>4. c \in ObligationType
  BY <1>1, <1>2 DEF ObligationType
<1>5. /\ c.group = b.group /\ c.deposited = b.deposited
      /\ c.against = b.against /\ c.outside = b.outside /\ c.debt = de
  BY <1>2 DEF ObligationType
<1>6. NothingLeftBehind(c)
  BY <1>3, <1>5 DEF NothingLeftBehind
<1> QED
  BY <1>4, <1>5, <1>6 DEF c

\* A repayment lowers the contributions, erasing them with the position.
LEMMA SettledFacts ==
    ASSUME NEW b \in ObligationType, NothingLeftBehind(b),
           NEW r \in Reserves, NEW settle_f \in Nat, settle_f <= b.debt[r]
    PROVE  LET c == Settled(RepaidTrackers(b, r, ToCeil(settle_f)), r, settle_f)
           IN /\ c \in ObligationType /\ NothingLeftBehind(c)
              /\ c.group = b.group /\ c.deposited = b.deposited
              /\ \A q \in Reserves : c.debt[q] <= b.debt[q]
              /\ RepaidTrackers(b, r, ToCeil(settle_f)) \in ObligationType
<1> DEFINE n == ToCeil(settle_f)
           ag == [d \in Reserves |->
                    IF d \in b.deposited THEN SaturatingSub(b.against[d], n)
                    ELSE b.against[d]]
           p == RepaidTrackers(b, r, n)
           c == Settled(p, r, settle_f)
<1>1. n \in Nat
  BY CeilNat
<1> HIDE DEF n
<1>2. ag \in [Reserves -> Nat]
  BY <1>1, SubNat DEF ObligationType
<1>3. SaturatingSub(b.outside[r], n) \in Nat
  BY <1>1, SubNat DEF ObligationType
<1>4. p = IF b.group # NoGroup THEN [b EXCEPT !.against = ag]
          ELSE [b EXCEPT !.outside[r] = SaturatingSub(b.outside[r], n)]
  BY Zenon DEF RepaidTrackers
<1>5. \A d \in Reserves : b.against[d] = 0 => ag[d] = 0
  BY <1>1 DEF SaturatingSub
<1> HIDE DEF ag, p
<1>6. p \in ObligationType
  BY <1>2, <1>3, <1>4 DEF ObligationType
<1>7. /\ p.group = b.group /\ p.deposited = b.deposited /\ p.debt = b.debt
      /\ p.group # NoGroup => p.against = ag /\ p.outside = b.outside
      /\ p.group = NoGroup => p.against = b.against
      /\ \A q \in Reserves \ {r} : p.outside[q] = b.outside[q]
  BY <1>4 DEF ObligationType
<1>8. /\ \A d \in Reserves :
            (p.group = NoGroup \/ d \notin p.deposited) => p.against[d] = 0
      /\ \A q \in Reserves \ {r} :
            (p.group # NoGroup \/ p.debt[q] = 0) => p.outside[q] = 0
      /\ p.group # NoGroup => p.outside[r] = 0
  BY <1>5, <1>7 DEF NothingLeftBehind
<1>9. CASE settle_f = p.debt[r]
  <2>1. c = [p EXCEPT !.debt[r] = 0, !.outside[r] = 0]
    BY <1>9 DEF Settled
  <2>2. p.debt \in [Reserves -> Nat] /\ p.outside \in [Reserves -> Nat]
    BY <1>6 DEF ObligationType
  <2>3. /\ c.group = p.group /\ c.deposited = p.deposited /\ c.against = p.against
        /\ c.debt = [p.debt EXCEPT ![r] = 0]
        /\ c.outside = [p.outside EXCEPT ![r] = 0]
        /\ c.borrowing_disabled = p.borrowing_disabled
        /\ c.freshness = p.freshness
        /\ c = [group |-> c.group, deposited |-> c.deposited, against |-> c.against,
                debt |-> c.debt, outside |-> c.outside,
                borrowing_disabled |-> c.borrowing_disabled,
                freshness |-> c.freshness]
    BY <1>6, <2>1 DEF ObligationType
  <2>4. c \in ObligationType
    <3>1. c.debt \in [Reserves -> Nat] /\ c.outside \in [Reserves -> Nat]
      BY <2>2, <2>3
    <3> QED
      BY <1>6, <2>3, <3>1 DEF ObligationType
  <2>5. NothingLeftBehind(c)
    BY <1>8, <2>2, <2>3 DEF NothingLeftBehind
  <2> QED
    BY <1>6, <1>7, <2>2, <2>3, <2>4, <2>5 DEF n, p, c
<1>10. CASE settle_f # p.debt[r]
  <2>1. c = [p EXCEPT !.debt[r] = p.debt[r] - settle_f]
    BY <1>10 DEF Settled
  <2>2. p.debt \in [Reserves -> Nat] /\ p.outside \in [Reserves -> Nat]
    BY <1>6 DEF ObligationType
  <2>3. p.debt[r] - settle_f \in Nat \ {0}
    BY <1>7, <1>10, <2>2
  <2>4. c \in ObligationType
    BY <1>6, <2>1, <2>3 DEF ObligationType
  <2>5. /\ c.group = p.group /\ c.deposited = p.deposited /\ c.against = p.against
        /\ c.debt = [p.debt EXCEPT ![r] = p.debt[r] - settle_f]
        /\ c.outside = p.outside
    BY <1>6, <2>1 DEF ObligationType
  <2>6. NothingLeftBehind(c)
    BY <1>8, <2>2, <2>3, <2>5 DEF NothingLeftBehind
  <2>7. \A q \in Reserves : c.debt[q] <= p.debt[q]
    BY <2>2, <2>3, <2>5
  <2> QED
    BY <1>6, <1>7, <2>4, <2>5, <2>6, <2>7 DEF n, p, c
<1> QED
  BY <1>9, <1>10

\* A used obligation owes no exactness.
LEMMA UsedSound ==
    ASSUME NEW b \in ObligationType, NothingLeftBehind(b)
    PROVE  Sound(Used(b))
<1> DEFINE c == Used(b)
<1>1. c \in ObligationType
  BY DEF Used, ObligationType, Freshness
<1>2. /\ c.group = b.group /\ c.deposited = b.deposited /\ c.against = b.against
      /\ c.debt = b.debt /\ c.outside = b.outside /\ c.freshness = "stale"
  BY DEF Used, ObligationType
<1> HIDE DEF c
<1>3. NothingLeftBehind(c) /\ ExactWhenFresh(c)
  BY <1>2 DEF NothingLeftBehind, ExactWhenFresh
<1> QED
  BY <1>1, <1>3 DEF Sound, c

\* Without a collateral nothing is counted against it.
LEMMA WithoutCollateralFacts ==
    ASSUME NEW b \in ObligationType, NothingLeftBehind(b), NEW d \in Reserves
    PROVE  LET c == WithoutCollateral(b, d)
           IN c \in ObligationType /\ NothingLeftBehind(c)
<1> DEFINE c == WithoutCollateral(b, d)
<1>1. b.against \in [Reserves -> Nat] /\ b.deposited \subseteq Reserves
  BY DEF ObligationType
<1>2. c = [b EXCEPT !.deposited = b.deposited \ {d}, !.against[d] = 0]
  BY Zenon DEF WithoutCollateral
<1> HIDE DEF c
<1>3. /\ c.group = b.group /\ c.deposited = b.deposited \ {d}
      /\ c.against = [b.against EXCEPT ![d] = 0]
      /\ c.debt = b.debt /\ c.outside = b.outside
      /\ c.borrowing_disabled = b.borrowing_disabled
      /\ c.freshness = b.freshness
      /\ c = [group |-> c.group, deposited |-> c.deposited, against |-> c.against,
              debt |-> c.debt, outside |-> c.outside,
              borrowing_disabled |-> c.borrowing_disabled,
              freshness |-> c.freshness]
  BY <1>2 DEF ObligationType
<1>4. c.against \in [Reserves -> Nat] /\ c.deposited \subseteq Reserves
  BY <1>1, <1>3
<1>5. c \in ObligationType
  BY <1>3, <1>4 DEF ObligationType
<1>6. NothingLeftBehind(c)
  BY <1>1, <1>3 DEF NothingLeftBehind
<1> QED
  BY <1>5, <1>6 DEF c

\* Leaving a group, or the market outside all groups, leaves nothing behind.
LEMMA UntrackedFacts ==
    ASSUME NEW b \in ObligationType, NothingLeftBehind(b)
    PROVE  LET c == Untracked(b)
           IN /\ c \in ObligationType
              /\ c.against = Zero /\ c.outside = Zero
              /\ c.debt = b.debt /\ c.deposited = b.deposited
<1> DEFINE ag == [r \in Reserves |-> IF r \in b.deposited THEN 0 ELSE b.against[r]]
           ou == [r \in Reserves |-> IF r \in Debts(b) THEN 0 ELSE b.outside[r]]
           c == Untracked(b)
<1>1. c = IF b.group # NoGroup THEN [b EXCEPT !.against = ag]
          ELSE [b EXCEPT !.outside = ou]
  BY Zenon DEF Untracked
<1>2. /\ b.debt \in [Reserves -> Nat] /\ b.against \in [Reserves -> Nat]
      /\ b.outside \in [Reserves -> Nat]
  BY DEF ObligationType
<1>3. Zero \in [Reserves -> Nat]
  BY DEF Zero
<1>4. b.group # NoGroup => ag = Zero /\ b.outside = Zero
  BY <1>2 DEF NothingLeftBehind, Zero
<1>5. b.group = NoGroup => ou = Zero /\ b.against = Zero
  BY <1>2 DEF NothingLeftBehind, Zero, Debts
<1> HIDE DEF ag, ou, c
<1>6. c \in ObligationType
  BY <1>1, <1>3, <1>4, <1>5 DEF ObligationType
<1>7. /\ c.debt = b.debt /\ c.deposited = b.deposited
      /\ c.against = Zero /\ c.outside = Zero
  BY <1>1, <1>4, <1>5 DEF ObligationType
<1> QED
  BY <1>6, <1>7 DEF c

-----------------------------------------------------------------------------
(* The counters stay natural numbers.                                       *)

AgainstType == [Reserves -> [Groups -> Nat]]
OutsideType == [Reserves -> Nat]

\* Replacing contributions keeps the counters natural.
LEMMA TrackedCounters ==
    ASSUME NEW b \in ObligationType, NEW g \in Groups \cup {NoGroup},
           NEW ta \in AgainstType, NEW to \in OutsideType
    PROVE  /\ AgainstTracked(ta, b, g) \in AgainstType
           /\ OutsideTracked(to, b, g) \in OutsideType
<1>1. \A r \in Reserves : /\ b.against[r] \in Nat /\ b.outside[r] \in Nat
                          /\ ToCeil(b.debt[r]) \in Nat
  BY CeilNat DEF ObligationType
<1>2. \A x, y, z \in Nat : Retrack(x, y, z) \in Nat
  BY SubNat DEF Retrack
<1>3. \A q \in Groups : GroupDebt(b, q) \in Nat
  BY GroupDebtNat
<1>4. AgainstTracked(ta, b, g) \in AgainstType
  BY <1>1, <1>2, <1>3 DEF AgainstTracked, AgainstType
<1>5. OutsideTracked(to, b, g) \in OutsideType
  BY <1>1, <1>2 DEF OutsideTracked, OutsideType
<1> QED
  BY <1>4, <1>5

\* So do repayments and the loss of a collateral.
LEMMA LoweredCounters ==
    ASSUME NEW b \in ObligationType, NEW n \in Nat, NEW r \in Reserves,
           NEW ta \in AgainstType, NEW to \in OutsideType
    PROVE  /\ AgainstWithout(ta, b, r) \in AgainstType
           /\ AgainstRepaid(ta, b, n) \in AgainstType
           /\ OutsideRepaid(to, b, r, n) \in OutsideType
<1>1. /\ b.group \in Groups \cup {NoGroup}
      /\ \A q \in Reserves : b.against[q] \in Nat
  BY DEF ObligationType
<1>2. \A x, y \in Nat : SaturatingSub(x, y) \in Nat
  BY SubNat
<1>3. AgainstWithout(ta, b, r) \in AgainstType
  BY <1>1, <1>2 DEF AgainstWithout, AgainstType
<1>4. AgainstRepaid(ta, b, n) \in AgainstType
  BY <1>1, <1>2 DEF AgainstRepaid, AgainstType
<1>5. OutsideRepaid(to, b, r, n) \in OutsideType
  BY <1>2 DEF OutsideRepaid, OutsideType
<1> QED
  BY <1>3, <1>4, <1>5

\* So does taking all contributions back.
LEMMA UntrackedCounters ==
    ASSUME NEW b \in ObligationType,
           NEW ta \in AgainstType, NEW to \in OutsideType
    PROVE  /\ AgainstUntracked(ta, b) \in AgainstType
           /\ OutsideUntracked(to, b) \in OutsideType
<1>1. /\ b.group \in Groups \cup {NoGroup}
      /\ \A q \in Reserves : b.against[q] \in Nat /\ b.outside[q] \in Nat
  BY DEF ObligationType
<1>2. \A x, y \in Nat : SaturatingSub(x, y) \in Nat
  BY SubNat
<1>3. AgainstUntracked(ta, b) \in AgainstType
  BY <1>1, <1>2 DEF AgainstUntracked, AgainstType
<1>4. OutsideUntracked(to, b) \in OutsideType
  BY <1>1, <1>2 DEF OutsideUntracked, OutsideType
<1> QED
  BY <1>3, <1>4

-----------------------------------------------------------------------------
(* The steps.                                                               *)

\* A step that replaces one obligation by a sound one keeps the invariant.
LEMMA OneObligation ==
    ASSUME IInv, NEW o \in Obligations, NEW n, Sound(n),
           obligation' = [obligation EXCEPT ![o] = n],
           against_total' \in AgainstType, outside_total' \in OutsideType
    PROVE  IInv'
<1>1. obligation \in [Obligations -> ObligationType] /\ n \in ObligationType
  BY DEF IInv, TypeOK, Sound
<1>2. obligation' \in [Obligations -> ObligationType]
  BY <1>1
<1>3. \A p \in Obligations : Sound(obligation'[p])
  BY <1>1 DEF IInv
<1> QED
  BY <1>2, <1>3 DEF IInv, TypeOK, AgainstType, OutsideType

\* What the invariant gives of the obligation that takes the step.
LEMMA InvFacts ==
    ASSUME IInv, NEW o \in Obligations
    PROVE  /\ obligation[o] \in ObligationType
           /\ NothingLeftBehind(obligation[o]) /\ ExactWhenFresh(obligation[o])
           /\ obligation[o].group \in Groups \cup {NoGroup}
           /\ against_total \in AgainstType /\ outside_total \in OutsideType
BY DEF IInv, Sound, TypeOK, ObligationType, AgainstType, OutsideType

\* The step leaves o in its group and raises none of its debts.
NoNewDebt(o) ==
    /\ obligation'[o].group = obligation[o].group
    /\ \A q \in Reserves : obligation'[o].debt[q] <= obligation[o].debt[q]

\* refresh_obligation establishes exactness for the debt with its interest.
LEMMA RefreshKeeps ==
    ASSUME IInv, NEW o \in Obligations,
           NEW interest \in [Reserves -> Interests \cup {0}],
           RefreshObligation(o, interest)
    PROVE  IInv' /\ obligation'[o].freshness = "fresh"
<1> DEFINE b == WithInterest(obligation[o], interest)
           t == Tracked(b, b.group)
           c == [t EXCEPT !.freshness = "fresh"]
<1>1. interest \in [Reserves -> Nat]
  <2>1. Interests \cup {0} \subseteq Nat
    BY TrackerAssumption
  <2> QED
    BY <2>1
<1>2. /\ b \in ObligationType /\ NothingLeftBehind(b)
      /\ b.group \in Groups \cup {NoGroup}
  BY <1>1, InvFacts, WithInterestFacts DEF ObligationType
<1>3. /\ obligation' = [obligation EXCEPT ![o] = c]
      /\ against_total' = AgainstTracked(against_total, b, b.group)
      /\ outside_total' = OutsideTracked(outside_total, b, b.group)
      /\ FitsGroup(b, b.group)
  BY DEF RefreshObligation
<1> HIDE DEF b
<1>4. /\ t \in ObligationType
      /\ t.group = b.group /\ t.debt = b.debt /\ t.deposited = b.deposited
      /\ t.borrowing_disabled = BorrowingDisabled(b, b.group)
      /\ \A r \in Reserves :
            (b.group = NoGroup \/ r \notin b.deposited) => t.against[r] = 0
      /\ \A r \in Reserves :
            (b.group # NoGroup \/ b.debt[r] = 0) => t.outside[r] = 0
      /\ \A r \in b.deposited :
            b.group # NoGroup => t.against[r] = GroupDebt(b, b.group)
      /\ \A r \in Reserves :
            b.group = NoGroup => t.outside[r] = ToCeil(b.debt[r])
  BY <1>2, TrackedFacts DEF NothingLeftBehind
<1> HIDE DEF t
<1>5. /\ c \in ObligationType
      /\ c.group = t.group /\ c.debt = t.debt /\ c.deposited = t.deposited
      /\ c.against = t.against /\ c.outside = t.outside
      /\ c.borrowing_disabled = t.borrowing_disabled
      /\ c.freshness = "fresh"
  BY <1>4 DEF ObligationType, Freshness
<1> HIDE DEF c
<1>6. NothingLeftBehind(c)
  BY <1>4, <1>5 DEF NothingLeftBehind
<1>7. GroupDebt(c, c.group) = GroupDebt(b, b.group)
      /\ BorrowingDisabled(c, c.group) = BorrowingDisabled(b, b.group)
  BY <1>4, <1>5 DEF GroupDebt, BorrowingDisabled
<1>8. ExactWhenFresh(c)
  <2>1. c.group # NoGroup => Debts(c) \subseteq {DebtReserve[c.group]}
    BY <1>3, <1>4, <1>5 DEF FitsGroup, Debts
  <2> QED
    BY <1>4, <1>5, <1>7, <2>1 DEF ExactWhenFresh
<1>9. Sound(c)
  BY <1>5, <1>6, <1>8 DEF Sound
<1>10. against_total' \in AgainstType /\ outside_total' \in OutsideType
  BY <1>2, <1>3, InvFacts, TrackedCounters
<1>11. obligation'[o] = c
  BY <1>3 DEF IInv, TypeOK
<1> QED
  BY <1>3, <1>5, <1>9, <1>10, <1>11, OneObligation

\* deposit_obligation_collateral counts a new collateral with the whole debt.
LEMMA DepositKeeps ==
    ASSUME IInv, NEW o \in Obligations, NEW r \in Reserves,
           DepositObligationCollateral(o, r)
    PROVE  IInv'
<1> DEFINE b == obligation[o]
           g == b.group
<1>1. /\ b \in ObligationType /\ NothingLeftBehind(b)
      /\ g \in Groups \cup {NoGroup}
      /\ against_total \in AgainstType /\ outside_total \in OutsideType
  BY InvFacts
<1>2. CASE r \in b.deposited \/ g = NoGroup
  <2> DEFINE c == [b EXCEPT !.deposited = b.deposited \cup {r}]
  <2>1. /\ obligation' = [obligation EXCEPT ![o] = Used(c)]
        /\ UNCHANGED <<against_total, outside_total>>
    BY <1>2 DEF DepositObligationCollateral
  <2> HIDE DEF b
  <2>2. /\ c \in ObligationType
        /\ c.group = g /\ c.deposited = b.deposited \cup {r}
        /\ c.against = b.against /\ c.debt = b.debt /\ c.outside = b.outside
    BY <1>1 DEF ObligationType
  <2>3. NothingLeftBehind(c)
    BY <1>1, <1>2, <2>2 DEF NothingLeftBehind
  <2>4. Sound(Used(c))
    BY <2>2, <2>3, UsedSound
  <2> QED
    BY <1>1, <2>1, <2>4, OneObligation
<1>3. CASE ~(r \in b.deposited \/ g = NoGroup)
  <2> DEFINE n == GroupDebt(b, g)
             c == [b EXCEPT !.deposited = b.deposited \cup {r}, !.against[r] = n]
  <2>1. /\ obligation' = [obligation EXCEPT ![o] = Used(c)]
        /\ against_total' = [against_total EXCEPT ![r][g] = @ + n]
        /\ UNCHANGED outside_total
    BY <1>3 DEF DepositObligationCollateral, OnNewDeposit
  <2>2. n \in Nat /\ g \in Groups
    BY <1>1, <1>3, GroupDebtNat
  <2> HIDE DEF n, b
  <2>3. b.against \in [Reserves -> Nat] /\ b.deposited \subseteq Reserves
    BY <1>1 DEF ObligationType
  <2>4. c = [b EXCEPT !.deposited = b.deposited \cup {r}, !.against[r] = n]
    OBVIOUS
  <2> HIDE DEF c
  <2>5. /\ c.group = g /\ c.deposited = b.deposited \cup {r}
        /\ c.against = [b.against EXCEPT ![r] = n]
        /\ c.debt = b.debt /\ c.outside = b.outside
        /\ c.borrowing_disabled = b.borrowing_disabled
        /\ c.freshness = b.freshness
        /\ c = [group |-> c.group, deposited |-> c.deposited, against |-> c.against,
                debt |-> c.debt, outside |-> c.outside,
                borrowing_disabled |-> c.borrowing_disabled,
                freshness |-> c.freshness]
    BY <1>1, <2>4 DEF ObligationType
  <2>6. c.against \in [Reserves -> Nat] /\ c.deposited \subseteq Reserves
    BY <2>2, <2>3, <2>5
  <2>7. c \in ObligationType
    BY <1>1, <2>5, <2>6 DEF ObligationType
  <2>8. NothingLeftBehind(c)
    BY <1>1, <1>3, <2>3, <2>5 DEF NothingLeftBehind
  <2>9. against_total' \in AgainstType
    BY <1>1, <2>1, <2>2 DEF AgainstType
  <2> QED
    BY <1>1, <2>1, <2>7, <2>8, <2>9, UsedSound, OneObligation
<1> QED
  BY <1>2, <1>3

\* A full withdrawal takes the contribution back, or closes the obligation.
LEMMA WithdrawAllKeeps ==
    ASSUME IInv, NEW o \in Obligations, NEW d \in Reserves, WithdrawAll(o, d)
    PROVE  IInv'
<1> DEFINE b == obligation[o]
           left == WithoutCollateral(b, d)
<1>1. /\ b \in ObligationType /\ NothingLeftBehind(b)
      /\ against_total \in AgainstType /\ outside_total \in OutsideType
  BY InvFacts
<1>2. Sound(Used(left))
  BY <1>1, WithoutCollateralFacts, UsedSound
<1>3. Sound(NewObligation)
  BY DEF Sound, NewObligation, ObligationType, NothingLeftBehind, ExactWhenFresh,
         Zero, Freshness
<1>4. against_total' \in AgainstType /\ outside_total' \in OutsideType
  BY <1>1, LoweredCounters DEF WithdrawAll
<1>5. \/ obligation' = [obligation EXCEPT ![o] = NewObligation]
      \/ obligation' = [obligation EXCEPT ![o] = Used(left)]
  BY DEF WithdrawAll
<1> QED
  BY <1>2, <1>3, <1>4, <1>5, OneObligation

\* A partial withdrawal changes no contribution.
LEMMA WithdrawSomeKeeps ==
    ASSUME IInv, NEW o \in Obligations, NEW d \in Reserves, WithdrawSome(o, d)
    PROVE  IInv'
<1>1. Sound(Used(obligation[o]))
  BY InvFacts, UsedSound
<1>2. obligation' = [obligation EXCEPT ![o] = Used(obligation[o])]
  BY DEF WithdrawSome
<1>3. against_total' \in AgainstType /\ outside_total' \in OutsideType
  BY InvFacts DEF WithdrawSome
<1> QED
  BY <1>1, <1>2, <1>3, OneObligation

\* borrow_obligation_liquidity adds to the contributions of one side only.
LEMMA BorrowKeeps ==
    ASSUME IInv, NEW o \in Obligations, NEW r \in Reserves, NEW f \in Borrows,
           BorrowObligationLiquidity(o, r, f)
    PROVE  IInv'
<1> DEFINE b == obligation[o]
           g == b.group
           n == ToCeil(f)
           de == [b.debt EXCEPT ![r] = b.debt[r] + f]
<1>1. /\ b \in ObligationType /\ NothingLeftBehind(b)
      /\ g \in Groups \cup {NoGroup}
      /\ against_total \in AgainstType /\ outside_total \in OutsideType
  BY InvFacts
<1>2. f \in Nat \ {0}
  BY TrackerAssumption
<1>3. n \in Nat
  BY <1>2, CeilNat
<1>4. /\ b.debt \in [Reserves -> Nat] /\ b.against \in [Reserves -> Nat]
      /\ b.outside \in [Reserves -> Nat]
  BY <1>1 DEF ObligationType
<1>5. de \in [Reserves -> Nat] /\ \A q \in Reserves : de[q] = 0 => b.debt[q] = 0 /\ q # r
  BY <1>2, <1>4
<1>6. CASE g # NoGroup
  <2> DEFINE ag == [d \in Reserves |->
                      IF d \in b.deposited THEN b.against[d] + n ELSE b.against[d]]
             c == [[b EXCEPT !.debt[r] = b.debt[r] + f] EXCEPT !.against = ag]
  <2>1. obligation' = [obligation EXCEPT ![o] = Used(c)]
    BY <1>6, Zenon DEF BorrowObligationLiquidity
  <2>2. /\ against_total' = [d \in Reserves |->
              IF d \in b.deposited
              THEN [against_total[d] EXCEPT ![g] = @ + n] ELSE against_total[d]]
        /\ UNCHANGED outside_total
    BY <1>6 DEF BorrowObligationLiquidity
  <2>3. ag \in [Reserves -> Nat]
    BY <1>3, <1>4
  <2>4. \A d \in Reserves : d \notin b.deposited => ag[d] = b.against[d]
    OBVIOUS
  <2>5. against_total' \in AgainstType /\ outside_total' \in OutsideType
    BY <1>1, <1>3, <1>6, <2>2 DEF AgainstType
  <2>6. c = [[b EXCEPT !.debt[r] = b.debt[r] + f] EXCEPT !.against = ag]
    OBVIOUS
  <2> HIDE DEF ag, c, b, n
  <2>7. /\ c.group = g /\ c.deposited = b.deposited /\ c.against = ag
        /\ c.debt = de /\ c.outside = b.outside
        /\ c.borrowing_disabled = b.borrowing_disabled
        /\ c.freshness = b.freshness
        /\ c = [group |-> c.group, deposited |-> c.deposited, against |-> c.against,
                debt |-> c.debt, outside |-> c.outside,
                borrowing_disabled |-> c.borrowing_disabled,
                freshness |-> c.freshness]
    BY <1>1, <2>6 DEF ObligationType
  <2> HIDE DEF de
  <2>8. c \in ObligationType
    BY <1>1, <1>5, <2>3, <2>7 DEF ObligationType
  <2>9. NothingLeftBehind(c)
    BY <1>1, <1>6, <2>4, <2>7 DEF NothingLeftBehind
  <2> QED
    BY <2>1, <2>5, <2>8, <2>9, UsedSound, OneObligation
<1>7. CASE g = NoGroup
  <2> DEFINE c == [[b EXCEPT !.debt[r] = b.debt[r] + f]
                      EXCEPT !.outside[r] = b.outside[r] + n]
             ou == [b.outside EXCEPT ![r] = b.outside[r] + n]
  <2>1. /\ obligation' = [obligation EXCEPT ![o] = Used(c)]
        /\ outside_total' = [outside_total EXCEPT ![r] = outside_total[r] + n]
        /\ UNCHANGED against_total
    BY <1>7 DEF BorrowObligationLiquidity
  <2>2. against_total' \in AgainstType /\ outside_total' \in OutsideType
    BY <1>1, <1>3, <2>1 DEF OutsideType
  <2>3. /\ ou \in [Reserves -> Nat]
        /\ \A q \in Reserves : q # r => ou[q] = b.outside[q]
    BY <1>3, <1>4
  <2>4. c = [[b EXCEPT !.debt[r] = b.debt[r] + f]
                EXCEPT !.outside[r] = b.outside[r] + n]
    OBVIOUS
  <2> HIDE DEF c, b, n
  <2>5. /\ c.group = g /\ c.deposited = b.deposited /\ c.against = b.against
        /\ c.debt = de /\ c.outside = ou
        /\ c.borrowing_disabled = b.borrowing_disabled
        /\ c.freshness = b.freshness
        /\ c = [group |-> c.group, deposited |-> c.deposited, against |-> c.against,
                debt |-> c.debt, outside |-> c.outside,
                borrowing_disabled |-> c.borrowing_disabled,
                freshness |-> c.freshness]
    BY <1>1, <2>4 DEF ObligationType
  <2> HIDE DEF de, ou
  <2>6. c \in ObligationType
    BY <1>1, <1>5, <2>3, <2>5 DEF ObligationType
  <2>7. NothingLeftBehind(c)
    BY <1>1, <1>5, <1>7, <2>3, <2>5 DEF NothingLeftBehind
  <2> QED
    BY <2>1, <2>2, <2>6, <2>7, UsedSound, OneObligation
<1> QED
  BY <1>6, <1>7

\* repay_obligation_liquidity lowers debt and contributions.
LEMMA RepayKeeps ==
    ASSUME IInv, NEW o \in Obligations, NEW r \in Reserves,
           NEW f \in Settlements(obligation[o], r),
           RepayObligationLiquidity(o, r, f)
    PROVE  IInv' /\ NoNewDebt(o)
<1> DEFINE b == obligation[o]
           n == ToCeil(f)
           c == Settled(RepaidTrackers(b, r, n), r, f)
<1>1. /\ b \in ObligationType /\ NothingLeftBehind(b)
      /\ against_total \in AgainstType /\ outside_total \in OutsideType
  BY InvFacts
<1>2. b.debt[r] \in Nat
  BY <1>1 DEF ObligationType
<1>3. f \in Nat /\ f <= b.debt[r]
  <2>1. \A a \in Repays : FromInt(a) \in Nat
    BY SFAssumption, TrackerAssumption DEF FromInt
  <2> QED
    BY <1>2, <2>1 DEF Settlements, MinOf
<1>4. n \in Nat
  BY <1>3, CeilNat
<1>5. /\ c \in ObligationType /\ NothingLeftBehind(c)
      /\ \A q \in Reserves : c.debt[q] <= b.debt[q]
      /\ c.group = b.group
  BY <1>1, <1>3, SettledFacts
<1>6. /\ obligation' = [obligation EXCEPT ![o] = Used(c)]
      /\ against_total' = AgainstRepaid(against_total, b, n)
      /\ outside_total' = OutsideRepaid(outside_total, b, r, n)
  BY DEF RepayObligationLiquidity
<1> HIDE DEF c, n
<1>7. against_total' \in AgainstType /\ outside_total' \in OutsideType
  BY <1>1, <1>4, <1>6, LoweredCounters
<1>8. Used(c).debt = c.debt /\ Used(c).group = c.group
  BY <1>5 DEF Used, ObligationType
<1>9. obligation'[o] = Used(c)
  BY <1>6 DEF IInv, TypeOK
<1>10. NoNewDebt(o)
  BY <1>5, <1>8, <1>9 DEF NoNewDebt
<1> QED
  BY <1>5, <1>6, <1>7, <1>10, UsedSound, OneObligation

\* liquidate_obligation does both, and may exhaust a collateral.
LEMMA LiquidateKeeps ==
    ASSUME IInv, NEW o \in Obligations, NEW r \in Reserves,
           NEW f \in 1 .. obligation[o].debt[r], NEW d \in Reserves,
           NEW all \in BOOLEAN, LiquidateObligation(o, r, f, d, all)
    PROVE  IInv' /\ NoNewDebt(o)
<1> DEFINE b == obligation[o]
           n == ToCeil(f)
           p == RepaidTrackers(b, r, n)
           c == Settled(p, r, f)
           e == IF all THEN WithoutCollateral(c, d) ELSE c
           against == AgainstRepaid(against_total, b, n)
<1>1. /\ b \in ObligationType /\ NothingLeftBehind(b)
      /\ against_total \in AgainstType /\ outside_total \in OutsideType
  BY InvFacts
<1>2. f \in Nat /\ f <= b.debt[r]
  BY <1>1 DEF ObligationType
<1>3. n \in Nat
  BY <1>2, CeilNat
<1>4. /\ p \in ObligationType
      /\ c \in ObligationType /\ NothingLeftBehind(c)
      /\ c.group = b.group
      /\ \A q \in Reserves : c.debt[q] <= b.debt[q]
  BY <1>1, <1>2, SettledFacts
<1>5. /\ obligation' = [obligation EXCEPT ![o] = Used(e)]
      /\ against_total' = IF all THEN AgainstWithout(against, p, d) ELSE against
      /\ outside_total' = OutsideRepaid(outside_total, b, r, n)
  BY DEF LiquidateObligation, SeizedFrom
<1> HIDE DEF c, n, p
<1>6. e \in ObligationType /\ NothingLeftBehind(e)
  BY <1>4, WithoutCollateralFacts
<1>7. e.debt = c.debt /\ e.group = c.group
  BY <1>4 DEF WithoutCollateral, ObligationType
<1> HIDE DEF e
<1>8. against \in AgainstType /\ outside_total' \in OutsideType
  BY <1>1, <1>3, <1>5, LoweredCounters
<1> HIDE DEF against
<1>9. against_total' \in AgainstType
  BY <1>1, <1>3, <1>4, <1>5, <1>8, LoweredCounters
<1>10. Used(e).debt = e.debt /\ Used(e).group = e.group
  BY <1>6 DEF Used, ObligationType
<1>11. obligation'[o] = Used(e)
  BY <1>5 DEF IInv, TypeOK
<1>12. NoNewDebt(o)
  BY <1>4, <1>7, <1>10, <1>11 DEF NoNewDebt
<1> QED
  BY <1>5, <1>6, <1>8, <1>9, <1>12, UsedSound, OneObligation

\* request_elevation_group moves the whole contribution; leaving with debt is
\* refused while a collateral of groups is deposited.
LEMMA RequestKeeps ==
    ASSUME IInv, NEW o \in Obligations, NEW g \in Groups \cup {NoGroup},
           RequestElevationGroup(o, g)
    PROVE  /\ IInv'
           /\ g = NoGroup /\ Debts(obligation'[o]) # {}
                => obligation'[o].deposited \cap EmodeOnly = {}
           /\ obligation'[o].group = g
<1> DEFINE b == obligation[o]
           clean == Untracked(b)
           t == Tracked(clean, g)
           c == [t EXCEPT !.group = g]
<1>1. /\ b \in ObligationType /\ NothingLeftBehind(b)
      /\ against_total \in AgainstType /\ outside_total \in OutsideType
  BY InvFacts
<1>2. /\ clean \in ObligationType
      /\ clean.against = Zero /\ clean.outside = Zero
      /\ clean.debt = b.debt /\ clean.deposited = b.deposited
  BY <1>1, UntrackedFacts
<1>3. /\ obligation' = [obligation EXCEPT ![o] = Used(c)]
      /\ against_total' = AgainstTracked(AgainstUntracked(against_total, b), clean, g)
      /\ outside_total' = OutsideTracked(OutsideUntracked(outside_total, b), clean, g)
      /\ WithinBorrowLimits(obligation'[o], g, against_total', outside_total')
  BY DEF RequestElevationGroup
<1> HIDE DEF clean
<1>4. /\ t \in ObligationType
      /\ t.debt = b.debt /\ t.deposited = b.deposited
      /\ t.borrowing_disabled = BorrowingDisabled(clean, g)
      /\ \A r \in Reserves :
            (g = NoGroup \/ r \notin b.deposited) => t.against[r] = 0
      /\ \A r \in Reserves :
            (g # NoGroup \/ b.debt[r] = 0) => t.outside[r] = 0
  <2>1. \A r \in Reserves : clean.against[r] = 0 /\ clean.outside[r] = 0
    BY <1>2 DEF Zero
  <2> QED
    BY <1>2, <2>1, TrackedFacts
<1> HIDE DEF t
<1>5. /\ c \in ObligationType
      /\ c.group = g /\ c.debt = t.debt /\ c.deposited = t.deposited
      /\ c.against = t.against /\ c.outside = t.outside
      /\ c.borrowing_disabled = t.borrowing_disabled
  BY <1>4 DEF ObligationType
<1> HIDE DEF c
<1>6. NothingLeftBehind(c)
  BY <1>4, <1>5 DEF NothingLeftBehind
<1>7. against_total' \in AgainstType /\ outside_total' \in OutsideType
  <2>1. /\ AgainstUntracked(against_total, b) \in AgainstType
        /\ OutsideUntracked(outside_total, b) \in OutsideType
    BY <1>1, UntrackedCounters
  <2> QED
    BY <1>2, <1>3, <2>1, TrackedCounters
<1>8. /\ Used(c).debt = c.debt /\ Used(c).group = c.group
      /\ Used(c).deposited = c.deposited
      /\ Used(c).borrowing_disabled = c.borrowing_disabled
  BY <1>5 DEF Used, ObligationType
<1>9. obligation'[o] = Used(c)
  BY <1>3 DEF IInv, TypeOK
<1>10. ASSUME g = NoGroup, Debts(obligation'[o]) # {}
       PROVE  obligation'[o].deposited \cap EmodeOnly = {}
  <2>1. ~obligation'[o].borrowing_disabled
    BY <1>3, <1>10 DEF WithinBorrowLimits
  <2>2. ~BorrowingDisabled(clean, g)
    BY <1>4, <1>5, <1>8, <1>9, <2>1
  <2> QED
    BY <1>2, <1>4, <1>5, <1>8, <1>9, <1>10, <2>2 DEF BorrowingDisabled
<1> QED
  BY <1>3, <1>5, <1>6, <1>7, <1>8, <1>9, <1>10, UsedSound, OneObligation

\* Time only ends freshness.
LEMMA NewSlotKeeps ==
    ASSUME IInv, NewSlot
    PROVE  IInv'
<1> DEFINE c(o) == [obligation[o] EXCEPT !.freshness = "due"]
<1>1. ASSUME NEW o \in Obligations PROVE Sound(c(o))
  <2>1. obligation[o] \in ObligationType /\ NothingLeftBehind(obligation[o])
    BY InvFacts
  <2>2. /\ c(o) \in ObligationType
        /\ c(o).group = obligation[o].group
        /\ c(o).deposited = obligation[o].deposited
        /\ c(o).against = obligation[o].against
        /\ c(o).debt = obligation[o].debt
        /\ c(o).outside = obligation[o].outside
        /\ c(o).freshness = "due"
    BY <2>1 DEF ObligationType, Freshness
  <2> QED
    BY <2>1, <2>2 DEF Sound, NothingLeftBehind, ExactWhenFresh
<1>2. obligation' = [o \in Obligations |-> c(o)] /\ UNCHANGED <<against_total, outside_total>>
  BY DEF NewSlot
<1>3. \A o \in Obligations : c(o) \in ObligationType
  BY <1>1 DEF Sound
<1> HIDE DEF c
<1> QED
  BY <1>1, <1>2, <1>3 DEF IInv, TypeOK

\* Operations on collateral raise no debt, except that a closed obligation
\* starts anew.
LEMMA CollateralTakesNoDebt ==
    ASSUME IInv, NEW o \in Obligations, NEW r \in Reserves,
           \/ DepositObligationCollateral(o, r)
           \/ WithdrawAll(o, r) \/ WithdrawSome(o, r)
    PROVE  NoNewDebt(o) \/ obligation'[o].freshness = "due"
<1> DEFINE b == obligation[o]
           Same(c) == c.debt = b.debt /\ c.group = b.group
<1>1. b \in ObligationType /\ obligation \in [Obligations -> ObligationType]
  BY InvFacts DEF IInv, TypeOK
<1>2. ASSUME Same(obligation'[o]) PROVE NoNewDebt(o)
  BY <1>1, <1>2 DEF NoNewDebt, ObligationType
<1>3. CASE DepositObligationCollateral(o, r)
  <2> DEFINE more == [b EXCEPT !.deposited = b.deposited \cup {r}]
             added == [b EXCEPT !.deposited = b.deposited \cup {r},
                                !.against[r] = GroupDebt(b, b.group)]
  <2>1. Same(Used(more)) /\ Same(Used(added))
    BY <1>1 DEF Used, ObligationType
  <2>2. obligation'[o] = Used(more) \/ obligation'[o] = Used(added)
    BY <1>1, <1>3 DEF DepositObligationCollateral, OnNewDeposit
  <2>3. Same(obligation'[o])
    BY <2>1, <2>2
  <2> QED
    BY <1>2, <2>3
<1>4. CASE WithdrawAll(o, r)
  <2>1. Same(Used(WithoutCollateral(b, r)))
    BY <1>1 DEF Used, WithoutCollateral, ObligationType
  <2>2. NewObligation.freshness = "due"
    BY DEF NewObligation
  <2>3. \/ obligation'[o] = NewObligation
        \/ obligation'[o] = Used(WithoutCollateral(b, r))
    BY <1>1, <1>4 DEF WithdrawAll
  <2> QED
    BY <1>2, <2>1, <2>2, <2>3
<1>5. CASE WithdrawSome(o, r)
  <2>1. Same(obligation'[o])
    BY <1>1, <1>5 DEF WithdrawSome, Used, ObligationType
  <2> QED
    BY <1>2, <2>1
<1> QED
  BY <1>3, <1>4, <1>5

\* A borrow outside all groups has passed the flag of a refresh that saw the
\* same collateral.
LEMMA BorrowSeesCollateral ==
    ASSUME IInv, NEW o \in Obligations, NEW r \in Reserves, NEW f \in Borrows,
           BorrowObligationLiquidity(o, r, f), obligation'[o].group = NoGroup
    PROVE  obligation'[o].deposited \cap EmodeOnly = {}
<1> DEFINE b == obligation[o]
<1>1. /\ b \in ObligationType /\ ExactWhenFresh(b)
      /\ obligation \in [Obligations -> ObligationType]
  BY InvFacts DEF IInv, TypeOK
<1>2. obligation'[o].group = b.group /\ obligation'[o].deposited = b.deposited
  <2> DEFINE Kept(c) == c.group = b.group /\ c.deposited = b.deposited
             lent == [b EXCEPT !.debt[r] = b.debt[r] + f]
             inside == [lent EXCEPT !.against = [d \in Reserves |->
                          IF d \in b.deposited THEN lent.against[d] + ToCeil(f)
                          ELSE lent.against[d]]]
             outside == [lent EXCEPT !.outside[r] = lent.outside[r] + ToCeil(f)]
  <2>1. Kept(Used(inside)) /\ Kept(Used(outside))
    BY <1>1 DEF Used, ObligationType
  <2>2. obligation'[o] = Used(inside) \/ obligation'[o] = Used(outside)
    BY <1>1 DEF BorrowObligationLiquidity
  <2> QED
    BY <2>1, <2>2
<1>3. b.freshness = "fresh"
  BY DEF BorrowObligationLiquidity, Fresh
<1>4. ~b.borrowing_disabled
  BY <1>2 DEF BorrowObligationLiquidity
<1>5. ~BorrowingDisabled(b, b.group)
  BY <1>1, <1>3, <1>4 DEF ExactWhenFresh
<1> QED
  BY <1>2, <1>5 DEF BorrowingDisabled

-----------------------------------------------------------------------------
(* Rounding up.                                                             *)

\* A debt rounded up is the least whole number of tokens that covers it.
LEMMA CeilBounds ==
    ASSUME NEW f \in Nat
    PROVE  /\ ToCeil(f) \in Nat
           /\ f <= SF * ToCeil(f) /\ SF * ToCeil(f) < f + SF
<1> DEFINE x == f + SF - 1
           q == x \div SF
<1>1. x \in Int /\ SF \in Nat \ {0}
  BY SFAssumption
<1>2. \A y \in Int : \A d \in Nat \ {0} :
         y \div d \in Int /\ d * (y \div d) <= y /\ y < d * (y \div d) + d
  BY SMT
<1>3. q \in Int /\ SF * q <= x /\ x < SF * q + SF
  BY <1>1, <1>2
<1>4. SF * q \in Int
  BY <1>1, <1>3
<1>5. f <= SF * q /\ SF * q < f + SF
  BY <1>1, <1>3, <1>4
<1>6. ToCeil(f) = q
  BY DEF ToCeil
<1> QED
  BY <1>5, <1>6, CeilNat

\* Multiples of a positive number are ordered as their factors are.
LEMMA Multiples ==
    ASSUME NEW x \in Int, NEW y \in Int, SF * x < SF * y
    PROVE  x < y
BY SFAssumption, SMT

\* Rounding up keeps the order, and splitting a debt changes the rounded sum by
\* at most a token.
LEMMA CeilFacts ==
    ASSUME NEW e \in Nat, NEW f \in Nat
    PROVE  /\ e <= f => ToCeil(e) <= ToCeil(f)
           /\ e <= f => ToCeil(f - e) <= ToCeil(f) - ToCeil(e) + 1
           /\ ToCeil(e + f) <= ToCeil(e) + ToCeil(f)
<1> DEFINE ce == ToCeil(e)
           cf == ToCeil(f)
<1>1. SF \in Nat \ {0}
  BY SFAssumption
<1>2. /\ ce \in Nat /\ e <= SF * ce /\ SF * ce < e + SF
      /\ cf \in Nat /\ f <= SF * cf /\ SF * cf < f + SF
  BY CeilBounds
<1>3. SF * ce \in Int /\ SF * cf \in Int
  BY <1>1, <1>2
<1>4. SF * (cf + 1) = SF * cf + SF /\ cf + 1 \in Int
  BY <1>1, <1>2, SMT
<1>5. ASSUME e <= f PROVE ce <= cf
  <2>1. SF * ce < SF * (cf + 1)
    BY <1>1, <1>2, <1>3, <1>4, <1>5
  <2>2. ce < cf + 1
    BY <1>2, <1>4, <2>1, Multiples
  <2> QED
    BY <1>2, <2>2
<1>6. ASSUME e <= f PROVE ToCeil(f - e) <= cf - ce + 1
  <2> DEFINE k == ToCeil(f - e)
  <2>1. f - e \in Nat
    BY <1>6
  <2>2. k \in Nat /\ SF * k < (f - e) + SF
    BY <2>1, CeilBounds
  <2>3. SF * (cf - ce + 2) = SF * cf - SF * ce + SF + SF /\ cf - ce + 2 \in Int
    BY <1>1, <1>2, SMT
  <2>4. SF * k \in Int
    BY <1>1, <2>2
  <2>5. SF * k < SF * (cf - ce + 2)
    BY <1>1, <1>2, <1>3, <2>2, <2>3, <2>4
  <2>6. k < cf - ce + 2
    BY <2>2, <2>3, <2>5, Multiples
  <2> QED
    BY <1>2, <2>2, <2>6
<1>7. ToCeil(e + f) <= ce + cf
  <2> DEFINE k == ToCeil(e + f)
  <2>1. k \in Nat /\ SF * k < (e + f) + SF
    BY CeilBounds
  <2>2. SF * (ce + cf + 1) = SF * ce + SF * cf + SF /\ ce + cf + 1 \in Int
    BY <1>1, <1>2, SMT
  <2>3. SF * k \in Int
    BY <1>1, <2>1
  <2>4. SF * k < SF * (ce + cf + 1)
    BY <1>1, <1>2, <1>3, <2>1, <2>2, <2>3
  <2>5. k < ce + cf + 1
    BY <2>1, <2>2, <2>4, Multiples
  <2> QED
    BY <1>2, <2>1, <2>5
<1> QED
  BY <1>5, <1>6, <1>7

-----------------------------------------------------------------------------
(* Counters and contributions move together.                                *)

\* What obligation b has contributed to the counter of collateral r in group g.
Part(b, r, g) == IF b.group = g THEN b.against[r] ELSE 0

\* The counters contain what b has contributed to them.
Covers(ta, to, b) ==
    \A r \in Reserves :
        /\ \A g \in Groups : Part(b, r, g) <= ta[r][g]
        /\ b.outside[r] <= to[r]

\* The counters change by what the contributions change when b becomes c.
Moved(ta, to, b, ta2, to2, c) ==
    \A r \in Reserves :
        /\ \A g \in Groups : ta2[r][g] = ta[r][g] - Part(b, r, g) + Part(c, r, g)
        /\ to2[r] = to[r] - b.outside[r] + c.outside[r]

\* A contribution is a natural number.
LEMMA PartNat ==
    ASSUME NEW b \in ObligationType, NEW r \in Reserves, NEW g
    PROVE  Part(b, r, g) \in Nat /\ b.outside[r] \in Nat
BY DEF Part, ObligationType

\* What is covered can be subtracted.
LEMMA SubCovered ==
    ASSUME NEW x \in Nat, NEW y \in Nat, y <= x
    PROVE  SaturatingSub(x, y) = x - y
BY DEF SaturatingSub

\* Moving twice is moving, and what was moved to is covered.
LEMMA MovedTwice ==
    ASSUME NEW b \in ObligationType, NEW c \in ObligationType, NEW d \in ObligationType,
           NEW ta \in AgainstType, NEW to \in OutsideType, NEW ta2 \in AgainstType,
           NEW to2 \in OutsideType, NEW ta3 \in AgainstType, NEW to3 \in OutsideType,
           Moved(ta, to, b, ta2, to2, c), Moved(ta2, to2, c, ta3, to3, d)
    PROVE  Moved(ta, to, b, ta3, to3, d)
<1> SUFFICES ASSUME NEW r \in Reserves
             PROVE  /\ \A g \in Groups :
                          ta3[r][g] = ta[r][g] - Part(b, r, g) + Part(d, r, g)
                    /\ to3[r] = to[r] - b.outside[r] + d.outside[r]
  BY DEF Moved
<1>1. ASSUME NEW g \in Groups
      PROVE  ta3[r][g] = ta[r][g] - Part(b, r, g) + Part(d, r, g)
  <2>1. ta[r][g] \in Nat /\ ta2[r][g] \in Nat /\ ta3[r][g] \in Nat
    BY DEF AgainstType
  <2>2. Part(b, r, g) \in Nat /\ Part(c, r, g) \in Nat /\ Part(d, r, g) \in Nat
    BY PartNat
  <2>3. /\ ta2[r][g] = ta[r][g] - Part(b, r, g) + Part(c, r, g)
        /\ ta3[r][g] = ta2[r][g] - Part(c, r, g) + Part(d, r, g)
    BY DEF Moved
  <2> QED
    BY <2>1, <2>2, <2>3
<1>2. to3[r] = to[r] - b.outside[r] + d.outside[r]
  <2>1. to[r] \in Nat /\ to2[r] \in Nat /\ to3[r] \in Nat
    BY DEF OutsideType
  <2>2. b.outside[r] \in Nat /\ c.outside[r] \in Nat /\ d.outside[r] \in Nat
    BY PartNat
  <2>3. /\ to2[r] = to[r] - b.outside[r] + c.outside[r]
        /\ to3[r] = to2[r] - c.outside[r] + d.outside[r]
    BY DEF Moved
  <2> QED
    BY <2>1, <2>2, <2>3
<1> QED
  BY <1>1, <1>2

LEMMA MovedCovers ==
    ASSUME NEW b \in ObligationType, NEW c \in ObligationType,
           NEW ta \in AgainstType, NEW to \in OutsideType, NEW ta2 \in AgainstType,
           NEW to2 \in OutsideType, Covers(ta, to, b), Moved(ta, to, b, ta2, to2, c)
    PROVE  Covers(ta2, to2, c)
<1> SUFFICES ASSUME NEW r \in Reserves
             PROVE  /\ \A g \in Groups : Part(c, r, g) <= ta2[r][g]
                    /\ c.outside[r] <= to2[r]
  BY DEF Covers
<1>1. ASSUME NEW g \in Groups PROVE Part(c, r, g) <= ta2[r][g]
  <2>1. ta[r][g] \in Nat /\ ta2[r][g] \in Nat
    BY DEF AgainstType
  <2>2. Part(b, r, g) \in Nat /\ Part(c, r, g) \in Nat
    BY PartNat
  <2>3. /\ ta2[r][g] = ta[r][g] - Part(b, r, g) + Part(c, r, g)
        /\ Part(b, r, g) <= ta[r][g]
    BY DEF Moved, Covers
  <2> QED
    BY <2>1, <2>2, <2>3
<1>2. c.outside[r] <= to2[r]
  <2>1. to[r] \in Nat /\ to2[r] \in Nat
    BY DEF OutsideType
  <2>2. b.outside[r] \in Nat /\ c.outside[r] \in Nat
    BY PartNat
  <2>3. /\ to2[r] = to[r] - b.outside[r] + c.outside[r]
        /\ b.outside[r] <= to[r]
    BY DEF Moved, Covers
  <2> QED
    BY <2>1, <2>2, <2>3
<1> QED
  BY <1>1, <1>2

\* Replacing the contributions of a by those of its present position b in group
\* g moves the counters with them.
LEMMA TrackedMoves ==
    ASSUME NEW a \in ObligationType, NEW b \in ObligationType, NEW c \in ObligationType,
           NEW g \in Groups \cup {NoGroup}, NEW ta \in AgainstType, NEW to \in OutsideType,
           a.group = g, a.against = b.against, a.outside = b.outside,
           c.group = g, c.against = Tracked(b, g).against,
           c.outside = Tracked(b, g).outside, Covers(ta, to, a)
    PROVE  Moved(ta, to, a, AgainstTracked(ta, b, g), OutsideTracked(to, b, g), c)
<1>1. \A r \in Reserves :
         /\ c.against[r] = IF g # NoGroup /\ r \in b.deposited THEN GroupDebt(b, g)
                           ELSE b.against[r]
         /\ c.outside[r] = IF g = NoGroup /\ r \in Debts(b) THEN ToCeil(b.debt[r])
                           ELSE b.outside[r]
  BY DEF Tracked, ObligationType
<1> SUFFICES ASSUME NEW r \in Reserves
             PROVE  /\ \A q \in Groups : AgainstTracked(ta, b, g)[r][q]
                          = ta[r][q] - Part(a, r, q) + Part(c, r, q)
                    /\ OutsideTracked(to, b, g)[r] = to[r] - a.outside[r] + c.outside[r]
  BY DEF Moved
<1>2. ASSUME NEW q \in Groups
      PROVE  AgainstTracked(ta, b, g)[r][q] = ta[r][q] - Part(a, r, q) + Part(c, r, q)
  <2>1. ta[r][q] \in Nat /\ Part(a, r, q) \in Nat /\ Part(c, r, q) \in Nat
    BY PartNat DEF AgainstType
  <2>2. Part(a, r, q) <= ta[r][q]
    BY DEF Covers
  <2>3. AgainstTracked(ta, b, g)[r][q] = IF q = g /\ r \in b.deposited
            THEN Retrack(ta[r][q], b.against[r], GroupDebt(b, g)) ELSE ta[r][q]
    BY DEF AgainstTracked
  <2>4. CASE q = g /\ r \in b.deposited
    <3>1. Part(a, r, q) = b.against[r] /\ Part(c, r, q) = GroupDebt(b, g)
      BY <1>1, <2>4, TrackerAssumption DEF Part
    <3>2. SaturatingSub(ta[r][q], b.against[r]) = ta[r][q] - b.against[r]
      BY <2>1, <2>2, <3>1, SubCovered
    <3> QED
      BY <2>3, <2>4, <3>1, <3>2 DEF Retrack
  <2>5. CASE ~(q = g /\ r \in b.deposited)
    <3>1. Part(a, r, q) = Part(c, r, q)
      BY <1>1, <2>5 DEF Part
    <3> QED
      BY <2>1, <2>3, <2>5, <3>1
  <2> QED
    BY <2>4, <2>5
<1>3. OutsideTracked(to, b, g)[r] = to[r] - a.outside[r] + c.outside[r]
  <2>1. to[r] \in Nat /\ a.outside[r] \in Nat /\ c.outside[r] \in Nat
    BY PartNat DEF OutsideType
  <2>2. a.outside[r] <= to[r]
    BY DEF Covers
  <2>3. OutsideTracked(to, b, g)[r] = IF g = NoGroup /\ r \in Debts(b)
            THEN Retrack(to[r], b.outside[r], ToCeil(b.debt[r])) ELSE to[r]
    BY DEF OutsideTracked
  <2>4. SaturatingSub(to[r], b.outside[r]) = to[r] - b.outside[r]
    BY <2>1, <2>2, SubCovered
  <2> QED
    BY <1>1, <2>1, <2>3, <2>4 DEF Retrack
<1> QED
  BY <1>2, <1>3

\* Taking back the contributions of b leaves the counters with none of them.
LEMMA UntrackedMoves ==
    ASSUME NEW b \in ObligationType, NothingLeftBehind(b), NEW c \in ObligationType,
           c.against = Zero, c.outside = Zero,
           NEW ta \in AgainstType, NEW to \in OutsideType, Covers(ta, to, b)
    PROVE  Moved(ta, to, b, AgainstUntracked(ta, b), OutsideUntracked(to, b), c)
<1> SUFFICES ASSUME NEW r \in Reserves
             PROVE  /\ \A q \in Groups : AgainstUntracked(ta, b)[r][q]
                          = ta[r][q] - Part(b, r, q) + Part(c, r, q)
                    /\ OutsideUntracked(to, b)[r] = to[r] - b.outside[r] + c.outside[r]
  BY DEF Moved
<1>1. c.against[r] = 0 /\ c.outside[r] = 0
  BY DEF Zero
<1>2. ASSUME NEW q \in Groups
      PROVE  AgainstUntracked(ta, b)[r][q] = ta[r][q] - Part(b, r, q) + Part(c, r, q)
  <2>1. ta[r][q] \in Nat /\ Part(b, r, q) \in Nat /\ Part(c, r, q) = 0
    BY <1>1, PartNat DEF AgainstType, Part
  <2>2. Part(b, r, q) <= ta[r][q]
    BY DEF Covers
  <2>3. q # NoGroup
    BY TrackerAssumption
  <2>4. CASE b.group = q /\ r \in b.deposited
    <3>1. Part(b, r, q) = b.against[r]
      BY <2>4 DEF Part
    <3>2. AgainstUntracked(ta, b)[r] =
             [ta[r] EXCEPT ![q] = SaturatingSub(ta[r][q], b.against[r])]
      BY <2>3, <2>4 DEF AgainstUntracked
    <3>3. ta[r] \in [Groups -> Nat]
      BY DEF AgainstType
    <3>4. AgainstUntracked(ta, b)[r][q] = SaturatingSub(ta[r][q], b.against[r])
      BY <3>2, <3>3
    <3>5. SaturatingSub(ta[r][q], b.against[r]) = ta[r][q] - b.against[r]
      BY <2>1, <2>2, <3>1, SubCovered
    <3> QED
      BY <2>1, <3>1, <3>4, <3>5
  <2>5. CASE ~(b.group = q /\ r \in b.deposited)
    <3>1. Part(b, r, q) = 0
      BY <2>5 DEF Part, NothingLeftBehind
    <3>2. AgainstUntracked(ta, b)[r][q] = ta[r][q]
      <4>1. ta[r] \in [Groups -> Nat]
        BY DEF AgainstType
      <4> QED
        BY <2>5, <4>1 DEF AgainstUntracked
    <3> QED
      BY <2>1, <3>1, <3>2
  <2> QED
    BY <2>4, <2>5
<1>3. OutsideUntracked(to, b)[r] = to[r] - b.outside[r] + c.outside[r]
  <2>1. to[r] \in Nat /\ b.outside[r] \in Nat /\ b.debt[r] \in Nat
    BY DEF OutsideType, ObligationType
  <2>2. SaturatingSub(to[r], b.outside[r]) = to[r] - b.outside[r]
    BY <2>1, SubCovered DEF Covers
  <2>3. b.group # NoGroup \/ r \notin Debts(b) => b.outside[r] = 0
    BY <2>1 DEF NothingLeftBehind, Debts
  <2>4. OutsideUntracked(to, b)[r] =
           IF b.group = NoGroup /\ r \in Debts(b) THEN SaturatingSub(to[r], b.outside[r])
           ELSE to[r]
    BY DEF OutsideUntracked
  <2> QED
    BY <1>1, <2>1, <2>2, <2>3, <2>4
<1> QED
  BY <1>2, <1>3

\* Without collateral d the counter loses what was contributed for it.
LEMMA WithoutMoves ==
    ASSUME NEW b \in ObligationType, NEW p \in ObligationType, NEW d \in Reserves,
           p.group = b.group, p.against = b.against,
           NEW ta \in AgainstType, NEW to \in OutsideType, Covers(ta, to, b),
           b.group = NoGroup => b.against[d] = 0
    PROVE  Moved(ta, to, b, AgainstWithout(ta, p, d), to, WithoutCollateral(b, d))
<1> DEFINE c == WithoutCollateral(b, d)
<1>1. c.group = b.group /\ c.against = [b.against EXCEPT ![d] = 0] /\ c.outside = b.outside
  BY DEF WithoutCollateral, ObligationType
<1>2. b.against \in [Reserves -> Nat]
  BY DEF ObligationType
<1>3. \A r \in Reserves : c.against[r] = IF r = d THEN 0 ELSE b.against[r]
  BY <1>1, <1>2
<1> HIDE DEF c
<1> SUFFICES ASSUME NEW r \in Reserves
             PROVE  /\ \A q \in Groups : AgainstWithout(ta, p, d)[r][q]
                          = ta[r][q] - Part(b, r, q) + Part(c, r, q)
                    /\ to[r] = to[r] - b.outside[r] + c.outside[r]
  BY DEF Moved, c
<1>4. ASSUME NEW q \in Groups
      PROVE  AgainstWithout(ta, p, d)[r][q] = ta[r][q] - Part(b, r, q) + Part(c, r, q)
  <2>1. ta[r][q] \in Nat /\ Part(b, r, q) \in Nat /\ Part(b, r, q) <= ta[r][q]
    BY PartNat DEF AgainstType, Covers
  <2>2. q # NoGroup /\ ta \in [Reserves -> [Groups -> Nat]]
    BY TrackerAssumption DEF AgainstType
  <2>3. CASE r = d /\ b.group = q
    <3>1. Part(b, r, q) = b.against[d] /\ Part(c, r, q) = 0
      BY <1>1, <1>3, <2>3 DEF Part
    <3>2. AgainstWithout(ta, p, d)[r][q] = SaturatingSub(ta[r][q], b.against[d])
      BY <2>2, <2>3 DEF AgainstWithout
    <3>3. SaturatingSub(ta[r][q], b.against[d]) = ta[r][q] - b.against[d]
      BY <2>1, <3>1, SubCovered
    <3> QED
      BY <2>1, <3>1, <3>2, <3>3
  <2>4. CASE ~(r = d /\ b.group = q)
    <3>1. Part(c, r, q) = Part(b, r, q)
      BY <1>1, <1>3, <2>4 DEF Part
    <3>2. AgainstWithout(ta, p, d)[r][q] = ta[r][q]
      BY <2>2, <2>4 DEF AgainstWithout
    <3> QED
      BY <2>1, <3>1, <3>2
  <2> QED
    BY <2>3, <2>4
<1>5. to[r] = to[r] - b.outside[r] + c.outside[r]
  BY <1>1 DEF OutsideType, ObligationType
<1> QED
  BY <1>4, <1>5

\* An obligation owes against each collateral at most a token more than it has
\* contributed: what a liquidation of a fraction of a token leaves.
Owes(b) ==
    b.group # NoGroup =>
        \A d \in b.deposited : GroupDebt(b, b.group) <= b.against[d] + 1

\* What a repayment leaves of an obligation.
LEMMA RepaidValues ==
    ASSUME NEW b \in ObligationType, NEW r \in Reserves, NEW f \in Nat, NEW n \in Nat,
           f <= b.debt[r]
    PROVE  LET p == RepaidTrackers(b, r, n)
               c == Settled(p, r, f)
           IN /\ p.group = b.group /\ c.group = b.group /\ c.deposited = b.deposited
              /\ p.against = c.against
              /\ \A d \in Reserves : c.against[d] =
                    IF b.group # NoGroup /\ d \in b.deposited
                    THEN SaturatingSub(b.against[d], n) ELSE b.against[d]
              /\ \A q \in Reserves : c.outside[q] =
                    IF q # r THEN b.outside[q]
                    ELSE IF f = b.debt[r] THEN 0
                    ELSE IF b.group = NoGroup THEN SaturatingSub(b.outside[r], n)
                    ELSE b.outside[r]
              /\ \A q \in Reserves : c.debt[q] =
                    IF q = r THEN b.debt[r] - f ELSE b.debt[q]
<1> DEFINE ag == [d \in Reserves |->
                    IF d \in b.deposited THEN SaturatingSub(b.against[d], n)
                    ELSE b.against[d]]
           p == RepaidTrackers(b, r, n)
           c == Settled(p, r, f)
<1>1. p = IF b.group # NoGroup THEN [b EXCEPT !.against = ag]
          ELSE [b EXCEPT !.outside[r] = SaturatingSub(b.outside[r], n)]
  BY Zenon DEF RepaidTrackers
<1>2. /\ b.outside \in [Reserves -> Nat] /\ b.debt \in [Reserves -> Nat]
      /\ b.against \in [Reserves -> Nat]
  BY DEF ObligationType
<1>3. \A d \in Reserves : ag[d] = IF d \in b.deposited THEN SaturatingSub(b.against[d], n)
                                  ELSE b.against[d]
  OBVIOUS
<1> HIDE DEF ag, p
<1>4. /\ p.group = b.group /\ p.deposited = b.deposited /\ p.debt = b.debt
      /\ p.against = IF b.group # NoGroup THEN ag ELSE b.against
      /\ p.outside = IF b.group # NoGroup THEN b.outside
                     ELSE [b.outside EXCEPT ![r] = SaturatingSub(b.outside[r], n)]
      /\ p = [group |-> p.group, deposited |-> p.deposited, against |-> p.against,
              debt |-> p.debt, outside |-> p.outside,
              borrowing_disabled |-> p.borrowing_disabled,
              freshness |-> p.freshness]
  BY <1>1 DEF ObligationType
<1>5. p.outside \in [Reserves -> Nat]
  BY <1>2, <1>4, SubNat
<1>6. \A q \in Reserves : p.outside[q] =
         IF q = r /\ b.group = NoGroup THEN SaturatingSub(b.outside[r], n)
         ELSE b.outside[q]
  BY <1>2, <1>4
<1>7. \A d \in Reserves : p.against[d] =
         IF b.group # NoGroup /\ d \in b.deposited
         THEN SaturatingSub(b.against[d], n) ELSE b.against[d]
  BY <1>3, <1>4
<1>8. CASE f = b.debt[r]
  <2>1. c = [p EXCEPT !.debt[r] = 0, !.outside[r] = 0]
    BY <1>4, <1>8 DEF Settled
  <2>2. /\ c.group = p.group /\ c.deposited = p.deposited /\ c.against = p.against
        /\ c.debt = [p.debt EXCEPT ![r] = 0]
        /\ c.outside = [p.outside EXCEPT ![r] = 0]
    BY <1>4, <2>1
  <2>3. \A q \in Reserves : c.debt[q] = IF q = r THEN b.debt[r] - f ELSE b.debt[q]
    BY <1>2, <1>4, <1>8, <2>2
  <2>4. \A q \in Reserves : c.outside[q] = IF q # r THEN b.outside[q] ELSE 0
    BY <1>5, <1>6, <2>2
  <2> HIDE DEF c
  <2> QED
    BY <1>4, <1>7, <1>8, <2>2, <2>3, <2>4 DEF c, p
<1>9. CASE f # b.debt[r]
  <2>1. c = [p EXCEPT !.debt[r] = p.debt[r] - f]
    BY <1>4, <1>9 DEF Settled
  <2>2. /\ c.group = p.group /\ c.deposited = p.deposited /\ c.against = p.against
        /\ c.debt = [p.debt EXCEPT ![r] = p.debt[r] - f]
        /\ c.outside = p.outside
    BY <1>4, <2>1
  <2>3. \A q \in Reserves : c.debt[q] = IF q = r THEN b.debt[r] - f ELSE b.debt[q]
    BY <1>2, <1>4, <2>2
  <2> HIDE DEF c
  <2> QED
    BY <1>4, <1>6, <1>7, <1>9, <2>2, <2>3 DEF c, p
<1> QED
  BY <1>8, <1>9

\* Repaying a debt that is counted exactly moves counters and contributions by
\* the same amount, and settles at most a token less than the debt falls.
LEMMA RepaidMoves ==
    ASSUME NEW b \in ObligationType, NothingLeftBehind(b), ExactWhenFresh(b),
           b.freshness = "fresh", NEW r \in Reserves, NEW f \in Nat, 0 < f,
           f <= b.debt[r], NEW ta \in AgainstType, NEW to \in OutsideType,
           Covers(ta, to, b)
    PROVE  LET n == ToCeil(f)
               c == Settled(RepaidTrackers(b, r, n), r, f)
           IN /\ Moved(ta, to, b, AgainstRepaid(ta, b, n), OutsideRepaid(to, b, r, n), c)
              /\ Owes(c)
<1> DEFINE n == ToCeil(f)
           p == RepaidTrackers(b, r, n)
           c == Settled(p, r, f)
<1>1. /\ b.debt \in [Reserves -> Nat] /\ b.against \in [Reserves -> Nat]
      /\ b.outside \in [Reserves -> Nat] /\ b.deposited \subseteq Reserves
      /\ b.group \in Groups \cup {NoGroup}
  BY DEF ObligationType
<1>2. n \in Nat /\ ToCeil(b.debt[r]) \in Nat /\ n <= ToCeil(b.debt[r])
      /\ ToCeil(b.debt[r] - f) <= ToCeil(b.debt[r]) - n + 1
  BY <1>1, CeilNat, CeilFacts
<1>3. /\ p.group = b.group /\ c.group = b.group /\ c.deposited = b.deposited
      /\ p.against = c.against
      /\ \A d \in Reserves : c.against[d] =
            IF b.group # NoGroup /\ d \in b.deposited
            THEN SaturatingSub(b.against[d], n) ELSE b.against[d]
      /\ \A q \in Reserves : c.outside[q] =
            IF q # r THEN b.outside[q]
            ELSE IF f = b.debt[r] THEN 0
            ELSE IF b.group = NoGroup THEN SaturatingSub(b.outside[r], n)
            ELSE b.outside[r]
      /\ \A q \in Reserves : c.debt[q] =
            IF q = r THEN b.debt[r] - f ELSE b.debt[q]
  <2> HIDE DEF n
  <2> QED
    BY <1>2, RepaidValues
<1> HIDE DEF p, c
<1>4. b.group # NoGroup => r = DebtReserve[b.group]
  BY <1>1 DEF ExactWhenFresh, Debts
<1>5. ASSUME b.group # NoGroup, NEW d \in b.deposited
      PROVE  /\ b.against[d] = ToCeil(b.debt[r]) /\ n <= b.against[d]
             /\ c.against[d] = b.against[d] - n
  <2>1. b.against[d] = ToCeil(b.debt[r])
    BY <1>4, <1>5 DEF ExactWhenFresh, GroupDebt
  <2>2. n <= b.against[d] /\ b.against[d] \in Nat
    BY <1>2, <2>1
  <2>3. SaturatingSub(b.against[d], n) = b.against[d] - n
    BY <1>2, <2>2, SubCovered
  <2>4. c.against[d] = SaturatingSub(b.against[d], n)
    BY <1>1, <1>3, <1>5
  <2> QED
    BY <2>1, <2>2, <2>3, <2>4
<1>6. b.group = NoGroup => b.outside[r] = ToCeil(b.debt[r])
  BY DEF ExactWhenFresh
<1>7. ASSUME b.group = NoGroup PROVE c.outside[r] = b.outside[r] - n
  <2>1. SaturatingSub(b.outside[r], n) = b.outside[r] - n
    BY <1>2, <1>6, <1>7, SubCovered
  <2>2. CASE f = b.debt[r]
    BY <1>2, <1>3, <1>6, <1>7, <2>2
  <2>3. CASE f # b.debt[r]
    BY <1>3, <1>7, <2>1, <2>3
  <2> QED
    BY <2>2, <2>3
<1>8. ASSUME b.group # NoGroup PROVE c.outside[r] = b.outside[r]
  BY <1>3, <1>8 DEF NothingLeftBehind
<1> HIDE DEF n
<1>9. Owes(c)
  <2> SUFFICES ASSUME b.group # NoGroup, NEW d \in b.deposited
               PROVE  GroupDebt(c, b.group) <= c.against[d] + 1
    BY <1>3 DEF Owes
  <2>1. GroupDebt(c, b.group) = ToCeil(b.debt[r] - f)
    BY <1>3, <1>4 DEF GroupDebt
  <2> QED
    BY <1>1, <1>2, <1>5, <2>1
<1>10. ASSUME NEW d \in Reserves, NEW q \in Groups
       PROVE  AgainstRepaid(ta, b, n)[d][q] = ta[d][q] - Part(b, d, q) + Part(c, d, q)
  <2>1. ta[d][q] \in Nat /\ Part(b, d, q) \in Nat /\ Part(b, d, q) <= ta[d][q]
    BY PartNat DEF AgainstType, Covers
  <2>2. q # NoGroup /\ ta[d] \in [Groups -> Nat]
    BY TrackerAssumption DEF AgainstType
  <2>3. CASE b.group = q /\ d \in b.deposited
    <3>1. Part(b, d, q) = b.against[d] /\ Part(c, d, q) = b.against[d] - n
          /\ n <= b.against[d]
      BY <1>3, <1>5, <2>2, <2>3 DEF Part
    <3>2. AgainstRepaid(ta, b, n)[d] = [ta[d] EXCEPT ![q] = SaturatingSub(ta[d][q], n)]
      BY <2>2, <2>3 DEF AgainstRepaid
    <3>3. AgainstRepaid(ta, b, n)[d][q] = SaturatingSub(ta[d][q], n)
      BY <2>2, <3>2
    <3>4. SaturatingSub(ta[d][q], n) = ta[d][q] - n
      BY <1>1, <1>2, <2>1, <3>1, SubCovered
    <3> QED
      BY <1>1, <1>2, <2>1, <3>1, <3>3, <3>4
  <2>4. CASE ~(b.group = q /\ d \in b.deposited)
    <3>1. Part(c, d, q) = Part(b, d, q)
      BY <1>3, <2>4 DEF Part
    <3>2. AgainstRepaid(ta, b, n)[d][q] = ta[d][q]
      BY <2>2, <2>4 DEF AgainstRepaid
    <3> QED
      BY <2>1, <3>1, <3>2
  <2> QED
    BY <2>3, <2>4
<1>11. ASSUME NEW q \in Reserves
       PROVE  OutsideRepaid(to, b, r, n)[q] = to[q] - b.outside[q] + c.outside[q]
  <2>1. to \in [Reserves -> Nat] /\ b.outside[q] \in Nat /\ b.outside[q] <= to[q]
    BY <1>1 DEF OutsideType, Covers
  <2>2. CASE q = r /\ b.group = NoGroup
    <3>1. n <= b.outside[q] /\ c.outside[q] = b.outside[q] - n
      BY <1>2, <1>6, <1>7, <2>2
    <3>2. OutsideRepaid(to, b, r, n)[q] = SaturatingSub(to[q], n)
      BY <2>1, <2>2 DEF OutsideRepaid
    <3>3. SaturatingSub(to[q], n) = to[q] - n
      BY <1>2, <2>1, <3>1, SubCovered
    <3> QED
      BY <1>2, <2>1, <3>1, <3>2, <3>3
  <2>3. CASE ~(q = r /\ b.group = NoGroup)
    <3>1. c.outside[q] = b.outside[q]
      BY <1>3, <1>8, <2>3
    <3>2. OutsideRepaid(to, b, r, n)[q] = to[q]
      BY <2>1, <2>3 DEF OutsideRepaid
    <3> QED
      BY <2>1, <3>1, <3>2
  <2> QED
    BY <2>2, <2>3
<1>12. Moved(ta, to, b, AgainstRepaid(ta, b, n), OutsideRepaid(to, b, r, n), c)
  BY <1>10, <1>11 DEF Moved
<1> QED
  BY <1>9, <1>12 DEF n, p, c

-----------------------------------------------------------------------------
(* The counters are sums.                                                   *)

\* A counter that is a sum contains each contribution.
LEMMA SumsCover ==
    ASSUME IInv, TrackersAreSums, NEW o \in Obligations
    PROVE  Covers(against_total, outside_total, obligation[o])
<1>1. obligation \in [Obligations -> ObligationType] /\ IsFiniteSet(Obligations)
  BY TrackerAssumption DEF IInv, TypeOK
<1> SUFFICES ASSUME NEW r \in Reserves
             PROVE  /\ \A g \in Groups : Part(obligation[o], r, g) <= against_total[r][g]
                    /\ obligation[o].outside[r] <= outside_total[r]
  BY DEF Covers
<1>2. ASSUME NEW g \in Groups PROVE Part(obligation[o], r, g) <= against_total[r][g]
  <2> DEFINE f == [p \in Obligations |-> Contribution(p, r, g)]
  <2>1. \A p \in Obligations : Contribution(p, r, g) = Part(obligation[p], r, g)
    BY DEF Contribution, Part
  <2>2. f \in [Obligations -> Nat] /\ f[o] = Part(obligation[o], r, g)
    BY <1>1, <2>1, PartNat
  <2>3. against_total[r][g] = SumFunction(f)
    BY DEF TrackersAreSums
  <2> HIDE DEF f
  <2>4. f[o] <= SumFunction(f)
    BY <1>1, <2>2, SumNat
  <2> QED
    BY <2>2, <2>3, <2>4
<1>3. obligation[o].outside[r] <= outside_total[r]
  <2> DEFINE f == [p \in Obligations |-> obligation[p].outside[r]]
  <2>1. f \in [Obligations -> Nat] /\ f[o] = obligation[o].outside[r]
    BY <1>1, PartNat
  <2>2. outside_total[r] = SumFunction(f)
    BY DEF TrackersAreSums
  <2> HIDE DEF f
  <2>3. f[o] <= SumFunction(f)
    BY <1>1, <2>1, SumNat
  <2> QED
    BY <2>1, <2>2, <2>3
<1> QED
  BY <1>2, <1>3

\* A step in which one obligation's contributions move with the counters keeps
\* every counter the sum.
LEMMA SumsFollow ==
    ASSUME IInv, IInv', TrackersAreSums, NEW o \in Obligations,
           \A p \in Obligations \ {o} : obligation'[p] = obligation[p],
           Moved(against_total, outside_total, obligation[o],
                 against_total', outside_total', obligation'[o])
    PROVE  TrackersAreSums'
<1>1. /\ obligation \in [Obligations -> ObligationType]
      /\ obligation' \in [Obligations -> ObligationType]
      /\ IsFiniteSet(Obligations)
  BY TrackerAssumption DEF IInv, TypeOK
<1> SUFFICES ASSUME NEW r \in Reserves
             PROVE  /\ \A g \in Groups : against_total'[r][g] =
                          SumFunction([p \in Obligations |-> Contribution(p, r, g)'])
                    /\ outside_total'[r] =
                          SumFunction([p \in Obligations |-> obligation'[p].outside[r]])
  BY DEF TrackersAreSums
<1>2. ASSUME NEW g \in Groups
      PROVE  against_total'[r][g] = SumFunction([p \in Obligations |-> Contribution(p, r, g)'])
  <2> DEFINE f == [p \in Obligations |-> Contribution(p, r, g)]
             h == [p \in Obligations |-> Contribution(p, r, g)']
  <2>1. \A p \in Obligations : /\ Contribution(p, r, g) = Part(obligation[p], r, g)
                               /\ Contribution(p, r, g)' = Part(obligation'[p], r, g)
    BY DEF Contribution, Part
  <2>2. f \in [Obligations -> Nat] /\ h \in [Obligations -> Nat]
    BY <1>1, <2>1, PartNat
  <2>3. /\ f[o] = Part(obligation[o], r, g) /\ h[o] = Part(obligation'[o], r, g)
        /\ \A p \in Obligations \ {o} : h[p] = f[p]
    BY <2>1
  <2>4. against_total[r][g] = SumFunction(f)
    BY DEF TrackersAreSums
  <2> HIDE DEF f, h
  <2>5. SumFunction(h) = SumFunction(f) - f[o] + h[o]
    BY <1>1, <2>2, <2>3, SumChange
  <2>6. against_total'[r][g] = against_total[r][g] - f[o] + h[o]
    BY <2>3 DEF Moved
  <2>7. against_total'[r][g] = SumFunction(h)
    BY <2>4, <2>5, <2>6
  <2> QED
    BY <2>7 DEF h
<1>3. outside_total'[r] = SumFunction([p \in Obligations |-> obligation'[p].outside[r]])
  <2> DEFINE f == [p \in Obligations |-> obligation[p].outside[r]]
             h == [p \in Obligations |-> obligation'[p].outside[r]]
  <2>1. f \in [Obligations -> Nat] /\ h \in [Obligations -> Nat]
    BY <1>1, PartNat
  <2>2. /\ f[o] = obligation[o].outside[r] /\ h[o] = obligation'[o].outside[r]
        /\ \A p \in Obligations \ {o} : h[p] = f[p]
    OBVIOUS
  <2>3. outside_total[r] = SumFunction(f)
    BY DEF TrackersAreSums
  <2> HIDE DEF f, h
  <2>4. SumFunction(h) = SumFunction(f) - f[o] + h[o]
    BY <1>1, <2>1, <2>2, SumChange
  <2>5. outside_total'[r] = outside_total[r] - f[o] + h[o]
    BY <2>2 DEF Moved
  <2>6. outside_total'[r] = SumFunction(h)
    BY <2>3, <2>4, <2>5
  <2> QED
    BY <2>6 DEF h
<1> QED
  BY <1>2, <1>3

\* New obligations have contributed nothing to empty counters.
LEMMA InitSums == Init => TrackersAreSums
<1> SUFFICES ASSUME Init, NEW r \in Reserves
             PROVE  /\ \A g \in Groups : against_total[r][g] =
                          SumFunction([p \in Obligations |-> Contribution(p, r, g)])
                    /\ outside_total[r] =
                          SumFunction([p \in Obligations |-> obligation[p].outside[r]])
  BY DEF TrackersAreSums
<1>1. \A p \in Obligations : obligation[p].group = NoGroup /\ obligation[p].outside[r] = 0
  BY DEF Init, NewObligation, Zero
<1>2. outside_total[r] = 0 /\ \A g \in Groups : against_total[r][g] = 0
  BY DEF Init, Zero
<1>3. ASSUME NEW g \in Groups
      PROVE  against_total[r][g] = SumFunction([p \in Obligations |-> Contribution(p, r, g)])
  <2> DEFINE f == [p \in Obligations |-> Contribution(p, r, g)]
  <2>1. f \in [Obligations -> Nat] /\ \A p \in Obligations : f[p] = 0
    BY <1>1, TrackerAssumption DEF Contribution
  <2> HIDE DEF f
  <2>2. SumFunction(f) = 0
    BY <2>1, TrackerAssumption, SumZero
  <2> QED
    BY <1>2, <2>2 DEF f
<1>4. outside_total[r] = SumFunction([p \in Obligations |-> obligation[p].outside[r]])
  <2> DEFINE f == [p \in Obligations |-> obligation[p].outside[r]]
  <2>1. f \in [Obligations -> Nat] /\ \A p \in Obligations : f[p] = 0
    BY <1>1
  <2> HIDE DEF f
  <2>2. SumFunction(f) = 0
    BY <2>1, TrackerAssumption, SumZero
  <2> QED
    BY <1>2, <2>2 DEF f
<1> QED
  BY <1>3, <1>4

\* Time changes neither counters nor contributions.
LEMMA SameSums ==
    ASSUME TrackersAreSums, UNCHANGED <<against_total, outside_total>>,
           \A p \in Obligations : /\ obligation'[p].group = obligation[p].group
                                  /\ obligation'[p].against = obligation[p].against
                                  /\ obligation'[p].outside = obligation[p].outside
    PROVE  TrackersAreSums'
<1> SUFFICES ASSUME NEW r \in Reserves
             PROVE  /\ \A g \in Groups : against_total'[r][g] =
                          SumFunction([p \in Obligations |-> Contribution(p, r, g)'])
                    /\ outside_total'[r] =
                          SumFunction([p \in Obligations |-> obligation'[p].outside[r]])
  BY DEF TrackersAreSums
<1>1. \A g \in Groups : [p \in Obligations |-> Contribution(p, r, g)']
                        = [p \in Obligations |-> Contribution(p, r, g)]
  BY DEF Contribution
<1>2. [p \in Obligations |-> obligation'[p].outside[r]]
      = [p \in Obligations |-> obligation[p].outside[r]]
  OBVIOUS
<1> QED
  BY <1>1, <1>2, Zenon DEF TrackersAreSums

\* Using an obligation changes none of its positions and contributions.
LEMMA UsedMoves ==
    ASSUME NEW c \in ObligationType
    PROVE  /\ Used(c).group = c.group /\ Used(c).deposited = c.deposited
           /\ Used(c).against = c.against /\ Used(c).outside = c.outside
           /\ Used(c).debt = c.debt
           /\ Owes(c) => Owes(Used(c))
           /\ \A ta, to, b, ta2, to2 :
                 Moved(ta, to, b, ta2, to2, c) => Moved(ta, to, b, ta2, to2, Used(c))
<1>1. /\ Used(c).group = c.group /\ Used(c).deposited = c.deposited
      /\ Used(c).against = c.against /\ Used(c).outside = c.outside
      /\ Used(c).debt = c.debt
  BY DEF Used, ObligationType
<1>2. Owes(c) => Owes(Used(c))
  BY <1>1 DEF Owes, GroupDebt
<1>3. \A r, g : Part(Used(c), r, g) = Part(c, r, g)
  BY <1>1 DEF Part
<1>4. \A ta, to, b, ta2, to2 :
         Moved(ta, to, b, ta2, to2, c) => Moved(ta, to, b, ta2, to2, Used(c))
  BY <1>1, <1>3 DEF Moved
<1> QED
  BY <1>1, <1>2, <1>4

\* A fresh obligation owes what it has contributed.
LEMMA FreshOwes ==
    ASSUME NEW b \in ObligationType, ExactWhenFresh(b), b.freshness = "fresh"
    PROVE  /\ Owes(b)
           /\ b.group # NoGroup =>
                 \A d \in b.deposited : GroupDebt(b, b.group) = b.against[d]
<1>1. b.group # NoGroup => \A d \in b.deposited : GroupDebt(b, b.group) = b.against[d]
  BY DEF ExactWhenFresh
<1>2. \A d \in b.deposited : b.against[d] \in Nat
  BY DEF ObligationType
<1> QED
  BY <1>1, <1>2 DEF Owes

\* What every step of obligation o must give: its contributions and the counters
\* move together, and it owes at most a token more than it contributes.
MovesWell(o) ==
    /\ Moved(against_total, outside_total, obligation[o],
             against_total', outside_total', obligation'[o])
    /\ Owes(obligation'[o])

\* In a group, the counter of each collateral is within its limit and holds all
\* that the obligation owes.
WithinLimit(o) ==
    LET b == obligation'[o]
    IN b.group # NoGroup =>
         \A d \in b.deposited : /\ against_total'[d][b.group] <= GroupLimit[d][b.group]
                                /\ GroupDebt(b, b.group) <= b.against[d]

\* refresh_obligation replaces what was contributed by what is owed.
LEMMA RefreshMoves ==
    ASSUME IInv, TrackersAreSums, NEW o \in Obligations,
           NEW interest \in [Reserves -> Interests \cup {0}],
           RefreshObligation(o, interest)
    PROVE  MovesWell(o)
<1> DEFINE a == obligation[o]
           b == WithInterest(a, interest)
           t == Tracked(b, b.group)
           c == [t EXCEPT !.freshness = "fresh"]
<1>1. interest \in [Reserves -> Nat]
  <2>1. Interests \cup {0} \subseteq Nat
    BY TrackerAssumption
  <2> QED
    BY <2>1
<1>2. /\ a \in ObligationType /\ NothingLeftBehind(a) /\ a.group \in Groups \cup {NoGroup}
      /\ against_total \in AgainstType /\ outside_total \in OutsideType
      /\ Covers(against_total, outside_total, a)
  BY InvFacts, SumsCover
<1>3. /\ b \in ObligationType /\ NothingLeftBehind(b)
      /\ b.group = a.group /\ b.against = a.against /\ b.outside = a.outside
  BY <1>1, <1>2, WithInterestFacts
<1>4. /\ obligation'[o] = c
      /\ against_total' = AgainstTracked(against_total, b, b.group)
      /\ outside_total' = OutsideTracked(outside_total, b, b.group)
  BY DEF RefreshObligation, IInv, TypeOK
<1>5. IInv' /\ obligation'[o].freshness = "fresh"
  BY RefreshKeeps
<1>6. c \in ObligationType /\ ExactWhenFresh(c) /\ c.freshness = "fresh"
  BY <1>4, <1>5 DEF IInv, Sound
<1> HIDE DEF b
<1>7. t \in ObligationType /\ t.group = b.group
  BY <1>2, <1>3, TrackedFacts DEF NothingLeftBehind
<1>8. c.group = b.group /\ c.against = t.against /\ c.outside = t.outside
  <2> HIDE DEF t
  <2> QED
    BY <1>7 DEF ObligationType
<1> HIDE DEF a, c
<1>9. Moved(against_total, outside_total, a, against_total', outside_total', c)
  BY <1>2, <1>3, <1>4, <1>6, <1>8, TrackedMoves
<1> QED
  BY <1>4, <1>6, <1>9, FreshOwes DEF MovesWell, a

\* deposit_obligation_collateral contributes all debt for a new collateral.
LEMMA DepositMoves ==
    ASSUME IInv, NEW o \in Obligations, NEW r \in Reserves,
           DepositObligationCollateral(o, r)
    PROVE  MovesWell(o)
<1> DEFINE b == obligation[o]
           g == b.group
           ta == against_total
           to == outside_total
<1>1. /\ b \in ObligationType /\ NothingLeftBehind(b) /\ ExactWhenFresh(b)
      /\ g \in Groups \cup {NoGroup} /\ ta \in AgainstType /\ to \in OutsideType
      /\ obligation \in [Obligations -> ObligationType]
  BY InvFacts DEF IInv, TypeOK
<1>2. b.freshness = "fresh"
  BY DEF DepositObligationCollateral, Fresh
<1>3. g # NoGroup => \A d \in b.deposited : GroupDebt(b, g) = b.against[d]
  BY <1>1, <1>2, FreshOwes
<1>4. \A q \in Reserves : \A h \in Groups : ta[q][h] \in Nat /\ to[q] \in Nat
  BY <1>1 DEF AgainstType, OutsideType
<1>5. \A q \in Reserves : \A h \in Groups :
         Part(b, q, h) \in Nat /\ b.against[q] \in Nat /\ b.outside[q] \in Nat
  BY <1>1, PartNat DEF ObligationType
<1>6. outside_total' = outside_total
  BY DEF DepositObligationCollateral
<1>7. CASE r \in b.deposited \/ g = NoGroup
  <2> DEFINE c == [b EXCEPT !.deposited = b.deposited \cup {r}]
  <2>1. obligation'[o] = Used(c) /\ against_total' = against_total
    BY <1>1, <1>7 DEF DepositObligationCollateral
  <2> HIDE DEF b
  <2>2. /\ c \in ObligationType
        /\ c.group = g /\ c.deposited = b.deposited \cup {r}
        /\ c.against = b.against /\ c.debt = b.debt /\ c.outside = b.outside
    BY <1>1 DEF ObligationType
  <2> HIDE DEF c
  <2>3. Owes(c)
    <3>1. GroupDebt(c, g) = GroupDebt(b, g)
      BY <2>2 DEF GroupDebt
    <3>2. \A d \in b.deposited : b.against[d] \in Nat
      BY <1>1 DEF ObligationType
    <3> QED
      BY <1>3, <1>7, <2>2, <3>1, <3>2 DEF Owes
  <2>4. \A q \in Reserves : \A h \in Groups : Part(c, q, h) = Part(b, q, h)
    BY <2>2 DEF Part
  <2>5. Moved(ta, to, b, ta, to, c)
    <3>1. to \in [Reserves -> Nat] /\ b.outside \in [Reserves -> Nat]
      BY <1>1 DEF OutsideType, ObligationType
    <3> HIDE DEF ta, to
    <3> QED
      BY <1>4, <1>5, <2>2, <2>4, <3>1 DEF Moved
  <2> QED
    BY <1>6, <2>1, <2>2, <2>3, <2>5, UsedMoves DEF MovesWell, b
<1>8. CASE ~(r \in b.deposited \/ g = NoGroup)
  <2> DEFINE n == GroupDebt(b, g)
             c == [b EXCEPT !.deposited = b.deposited \cup {r}, !.against[r] = n]
             ta2 == [against_total EXCEPT ![r][g] = @ + n]
  <2>1. obligation'[o] = Used(c) /\ against_total' = ta2
    BY <1>1, <1>8 DEF DepositObligationCollateral, OnNewDeposit
  <2>2. n \in Nat /\ g \in Groups
    BY <1>1, <1>8, GroupDebtNat
  <2>3. b.against \in [Reserves -> Nat] /\ b.deposited \subseteq Reserves
        /\ b.outside \in [Reserves -> Nat]
    BY <1>1 DEF ObligationType
  <2>4. b.against[r] = 0
    BY <1>1, <1>8 DEF NothingLeftBehind
  <2>5. ta \in [Reserves -> [Groups -> Nat]] /\ to \in [Reserves -> Nat]
    BY <1>1 DEF AgainstType, OutsideType
  <2>6. \A q \in Reserves : \A h \in Groups :
           ta2[q][h] = IF q = r /\ h = g THEN ta[q][h] + n ELSE ta[q][h]
    BY <2>2, <2>5
  <2> HIDE DEF b, n, ta2
  <2>7. c = [b EXCEPT !.deposited = b.deposited \cup {r}, !.against[r] = n]
    OBVIOUS
  <2> HIDE DEF c
  <2>8. /\ c.group = g /\ c.deposited = b.deposited \cup {r}
        /\ c.against = [b.against EXCEPT ![r] = n]
        /\ c.debt = b.debt /\ c.outside = b.outside
        /\ c.borrowing_disabled = b.borrowing_disabled
        /\ c.freshness = b.freshness
        /\ c = [group |-> c.group, deposited |-> c.deposited, against |-> c.against,
                debt |-> c.debt, outside |-> c.outside,
                borrowing_disabled |-> c.borrowing_disabled,
                freshness |-> c.freshness]
    BY <1>1, <2>7 DEF ObligationType
  <2>9. \A q \in Reserves : c.against[q] = IF q = r THEN n ELSE b.against[q]
    BY <2>3, <2>8
  <2>10. c \in ObligationType
    <3>1. c.against \in [Reserves -> Nat] /\ c.deposited \subseteq Reserves
      BY <2>2, <2>3, <2>8
    <3> QED
      BY <1>1, <2>8, <3>1 DEF ObligationType
  <2>11. Owes(c)
    <3>1. GroupDebt(c, g) = n
      BY <2>8 DEF GroupDebt, n
    <3>2. \A d \in b.deposited : n = b.against[d]
      BY <1>3, <1>8 DEF n
    <3>3. \A d \in c.deposited : c.against[d] = n
      BY <2>3, <2>8, <2>9, <3>2
    <3> QED
      BY <2>2, <2>8, <3>1, <3>3 DEF Owes
  <2>12. ASSUME NEW q \in Reserves, NEW h \in Groups
         PROVE  ta2[q][h] = ta[q][h] - Part(b, q, h) + Part(c, q, h)
    <3>1. CASE q = r /\ h = g
      <4>1. Part(b, q, h) = 0 /\ Part(c, q, h) = n
        BY <2>4, <2>8, <2>9, <3>1 DEF Part
      <4> QED
        BY <1>4, <2>2, <2>6, <3>1, <4>1
    <3>2. CASE ~(q = r /\ h = g)
      <4>1. Part(c, q, h) = Part(b, q, h)
        BY <2>8, <2>9, <3>2 DEF Part
      <4> QED
        BY <1>4, <1>5, <2>6, <3>2, <4>1
    <3> QED
      BY <3>1, <3>2
  <2>13. Moved(ta, to, b, ta2, to, c)
    BY <2>3, <2>5, <2>8, <2>12 DEF Moved
  <2> QED
    BY <1>6, <2>1, <2>10, <2>11, <2>13, UsedMoves DEF MovesWell, b
<1> QED
  BY <1>7, <1>8

\* A full withdrawal takes back the contribution for the collateral; what it
\* closes had contributed nothing else.
LEMMA WithdrawAllMoves ==
    ASSUME IInv, TrackersAreSums, NEW o \in Obligations, NEW d \in Reserves,
           WithdrawAll(o, d)
    PROVE  MovesWell(o)
<1> DEFINE b == obligation[o]
           left == WithoutCollateral(b, d)
<1>1. /\ b \in ObligationType /\ NothingLeftBehind(b) /\ ExactWhenFresh(b)
      /\ against_total \in AgainstType /\ outside_total \in OutsideType
      /\ Covers(against_total, outside_total, b)
      /\ obligation \in [Obligations -> ObligationType]
  BY InvFacts, SumsCover DEF IInv, TypeOK
<1>2. b.freshness = "fresh"
  BY DEF WithdrawAll, Fresh
<1>3. /\ against_total' = AgainstWithout(against_total, b, d)
      /\ outside_total' = outside_total
      /\ obligation'[o] = IF left.deposited = {} /\ Debts(left) = {} THEN NewObligation
                          ELSE Used(left)
  BY <1>1 DEF WithdrawAll
<1>4. left \in ObligationType /\ NothingLeftBehind(left)
  BY <1>1, WithoutCollateralFacts
<1>5. Moved(against_total, outside_total, b, against_total', outside_total', left)
  BY <1>1, <1>3, WithoutMoves DEF NothingLeftBehind
<1>6. /\ left.group = b.group /\ left.deposited = b.deposited \ {d}
      /\ left.against = [b.against EXCEPT ![d] = 0] /\ left.debt = b.debt
  BY <1>1 DEF WithoutCollateral, ObligationType
<1> HIDE DEF left
<1>7. CASE ~(left.deposited = {} /\ Debts(left) = {})
  <2>1. Owes(left)
    <3>1. \A e \in left.deposited : left.against[e] = b.against[e] /\ b.against[e] \in Nat
      BY <1>1, <1>6 DEF ObligationType
    <3>2. GroupDebt(left, b.group) = GroupDebt(b, b.group)
      BY <1>6 DEF GroupDebt
    <3>3. b.group # NoGroup => \A e \in b.deposited : GroupDebt(b, b.group) = b.against[e]
      BY <1>1, <1>2, FreshOwes
    <3> QED
      BY <1>6, <3>1, <3>2, <3>3 DEF Owes
  <2> QED
    BY <1>3, <1>4, <1>5, <1>7, <2>1, UsedMoves DEF MovesWell
<1>8. CASE left.deposited = {} /\ Debts(left) = {}
  <2> DEFINE c == NewObligation
  <2>1. c.group = NoGroup /\ c.outside = Zero
    BY DEF NewObligation
  <2>2. \A r \in Reserves : left.debt[r] = 0
    BY <1>4, <1>8 DEF Debts, ObligationType
  <2>3. \A r \in Reserves : left.against[r] = 0 /\ left.outside[r] = 0
    BY <1>4, <1>8, <2>2 DEF NothingLeftBehind
  <2>4. \A r \in Reserves : /\ c.outside[r] = left.outside[r]
                            /\ \A g \in Groups : Part(c, r, g) = Part(left, r, g)
    BY <2>1, <2>3, TrackerAssumption DEF Part, Zero
  <2>5. Moved(against_total, outside_total, b, against_total', outside_total', c)
    BY <1>5, <2>4 DEF Moved
  <2>6. Owes(c)
    BY <2>1 DEF Owes
  <2> QED
    BY <1>3, <1>8, <2>5, <2>6 DEF MovesWell
<1> QED
  BY <1>7, <1>8

\* Counters and contributions that stay have moved together.
LEMMA NothingMoved ==
    ASSUME NEW b \in ObligationType, NEW ta \in AgainstType, NEW to \in OutsideType
    PROVE  Moved(ta, to, b, ta, to, b)
<1>1. \A r \in Reserves : \A g \in Groups : ta[r][g] \in Nat /\ Part(b, r, g) \in Nat
  BY PartNat DEF AgainstType
<1>2. \A r \in Reserves : to[r] \in Nat /\ b.outside[r] \in Nat
  BY DEF OutsideType, ObligationType
<1> QED
  BY <1>1, <1>2 DEF Moved

\* A partial withdrawal moves nothing.
LEMMA WithdrawSomeMoves ==
    ASSUME IInv, NEW o \in Obligations, NEW d \in Reserves, WithdrawSome(o, d)
    PROVE  MovesWell(o)
<1> DEFINE b == obligation[o]
<1>1. /\ b \in ObligationType /\ ExactWhenFresh(b)
      /\ against_total \in AgainstType /\ outside_total \in OutsideType
  BY InvFacts
<1>2. b.freshness = "fresh" /\ obligation'[o] = Used(b)
  BY DEF WithdrawSome, Fresh, IInv, TypeOK
<1>3. UNCHANGED <<against_total, outside_total>>
  BY DEF WithdrawSome
<1> QED
  BY <1>1, <1>2, <1>3, NothingMoved, FreshOwes, UsedMoves DEF MovesWell

\* borrow_obligation_liquidity adds the borrowed amount, rounded up, on both
\* sides, within the limits.
LEMMA BorrowMoves ==
    ASSUME IInv, NEW o \in Obligations, NEW r \in Reserves, NEW f \in Borrows,
           BorrowObligationLiquidity(o, r, f)
    PROVE  MovesWell(o) /\ WithinLimit(o)
<1> DEFINE b == obligation[o]
           g == b.group
           n == ToCeil(f)
           ta == against_total
           to == outside_total
           lent == [b EXCEPT !.debt[r] = b.debt[r] + f]
<1>1. /\ b \in ObligationType /\ NothingLeftBehind(b) /\ ExactWhenFresh(b)
      /\ g \in Groups \cup {NoGroup}
      /\ ta \in AgainstType /\ to \in OutsideType
      /\ obligation \in [Obligations -> ObligationType]
  BY InvFacts DEF IInv, TypeOK
<1>2. f \in Nat
  BY TrackerAssumption
<1>3. n \in Nat
  BY <1>2, CeilNat
<1>4. /\ b.debt \in [Reserves -> Nat] /\ b.against \in [Reserves -> Nat]
      /\ b.outside \in [Reserves -> Nat] /\ b.deposited \subseteq Reserves
      /\ ta \in [Reserves -> [Groups -> Nat]] /\ to \in [Reserves -> Nat]
  BY <1>1 DEF ObligationType, AgainstType, OutsideType
<1>5. b.freshness = "fresh"
  BY DEF BorrowObligationLiquidity, Fresh
<1>6. IInv'
  BY BorrowKeeps
<1>7. ASSUME NEW q \in Reserves, NEW h \in Groups
      PROVE  Part(b, q, h) \in Nat /\ ta[q][h] \in Nat
  BY <1>1, <1>4, PartNat
<1>8. CASE g # NoGroup
  <2> DEFINE ag == [d \in Reserves |->
                      IF d \in b.deposited THEN b.against[d] + n ELSE b.against[d]]
             c == [lent EXCEPT !.against = ag]
             ta2 == [d \in Reserves |->
                       IF d \in b.deposited
                       THEN [ta[d] EXCEPT ![g] = ta[d][g] + n] ELSE ta[d]]
  <2>1. obligation' = [obligation EXCEPT ![o] = Used(c)]
    BY <1>8, Zenon DEF BorrowObligationLiquidity
  <2>2. /\ against_total' = ta2 /\ outside_total' = to /\ r = DebtReserve[g]
        /\ \A d \in b.deposited : ta[d][g] + n <= GroupLimit[d][g]
    BY <1>8 DEF BorrowObligationLiquidity
  <2>3. obligation'[o] = Used(c)
    BY <1>1, <2>1
  <2>4. \A d \in Reserves :
           ag[d] = IF d \in b.deposited THEN b.against[d] + n ELSE b.against[d]
    OBVIOUS
  <2>5. \A d \in Reserves : \A h \in Groups :
           ta2[d][h] = IF d \in b.deposited /\ h = g THEN ta[d][h] + n ELSE ta[d][h]
    BY <1>4
  <2>6. c = [[b EXCEPT !.debt[r] = b.debt[r] + f] EXCEPT !.against = ag]
    OBVIOUS
  <2>7. ag \in [Reserves -> Nat]
    BY <1>3, <1>4
  <2> HIDE DEF ag, c, b, n, ta2
  <2>8. /\ c.group = g /\ c.deposited = b.deposited /\ c.against = ag
        /\ c.debt = [b.debt EXCEPT ![r] = b.debt[r] + f] /\ c.outside = b.outside
        /\ c.borrowing_disabled = b.borrowing_disabled
        /\ c.freshness = b.freshness
        /\ c = [group |-> c.group, deposited |-> c.deposited, against |-> c.against,
                debt |-> c.debt, outside |-> c.outside,
                borrowing_disabled |-> c.borrowing_disabled,
                freshness |-> c.freshness]
    BY <1>1, <2>6 DEF ObligationType
  <2>9. c.debt \in [Reserves -> Nat] /\ c.debt[r] = b.debt[r] + f
    BY <1>2, <1>4, <2>8
  <2>10. c \in ObligationType
    BY <1>1, <2>7, <2>8, <2>9 DEF ObligationType
  <2>11. ASSUME NEW d \in c.deposited
         PROVE  GroupDebt(c, g) <= c.against[d]
    <3>1. b.against[d] = ToCeil(b.debt[r]) /\ ToCeil(b.debt[r]) \in Nat
      BY <1>1, <1>4, <1>5, <1>8, <2>2, <2>8, CeilNat DEF ExactWhenFresh, GroupDebt
    <3>2. GroupDebt(c, g) = ToCeil(b.debt[r] + f)
      BY <2>2, <2>9 DEF GroupDebt
    <3>3. ToCeil(b.debt[r] + f) <= ToCeil(b.debt[r]) + n
      BY <1>2, <1>4, CeilFacts DEF n
    <3>4. c.against[d] = b.against[d] + n
      BY <1>4, <2>4, <2>8
    <3> QED
      BY <3>1, <3>2, <3>3, <3>4
  <2>12. Owes(c)
    <3>1. GroupDebt(c, g) \in Nat /\ \A d \in c.deposited : c.against[d] \in Nat
      BY <1>1, <1>8, <2>10, GroupDebtNat DEF ObligationType
    <3> QED
      BY <2>8, <2>11, <3>1 DEF Owes
  <2>13. ASSUME NEW d \in Reserves, NEW h \in Groups
         PROVE  ta2[d][h] = ta[d][h] - Part(b, d, h) + Part(c, d, h)
    <3>1. CASE d \in b.deposited /\ h = g
      <4>1. Part(b, d, h) = b.against[d] /\ Part(c, d, h) = b.against[d] + n
        BY <2>4, <2>8, <3>1 DEF Part
      <4>2. ta2[d][h] = ta[d][h] + n
        BY <2>5, <3>1
      <4>3. ta[d][h] \in Nat /\ b.against[d] \in Nat
        BY <1>4
      <4> QED
        BY <1>3, <4>1, <4>2, <4>3
    <3>2. CASE ~(d \in b.deposited /\ h = g)
      <4>1. Part(c, d, h) = Part(b, d, h)
        BY <2>4, <2>8, <3>2 DEF Part
      <4>2. ta2[d][h] = ta[d][h]
        BY <2>5, <3>2
      <4> QED
        BY <1>7, <4>1, <4>2
    <3> QED
      BY <3>1, <3>2
  <2>14. Moved(ta, to, b, ta2, to, c)
    BY <1>4, <2>8, <2>13 DEF Moved
  <2>15. WithinLimit(o)
    <3>1. \A d \in b.deposited : ta2[d][g] = ta[d][g] + n
      BY <1>1, <1>4, <1>8, <2>5
    <3>2. \A d \in b.deposited : ta2[d][g] <= GroupLimit[d][g]
      BY <2>2, <3>1
    <3>3. /\ Used(c).group = g /\ Used(c).deposited = c.deposited
          /\ Used(c).against = c.against /\ GroupDebt(Used(c), g) = GroupDebt(c, g)
      BY <2>8, <2>10, UsedMoves DEF GroupDebt
    <3> QED
      BY <2>2, <2>3, <2>8, <2>11, <3>2, <3>3 DEF WithinLimit
  <2> QED
    BY <2>2, <2>3, <2>10, <2>12, <2>14, <2>15, UsedMoves DEF MovesWell, b
<1>9. CASE g = NoGroup
  <2> DEFINE c == [lent EXCEPT !.outside[r] = b.outside[r] + n]
  <2>1. /\ obligation' = [obligation EXCEPT ![o] = Used(c)]
        /\ outside_total' = [outside_total EXCEPT ![r] = outside_total[r] + n]
        /\ UNCHANGED against_total
    BY <1>9 DEF BorrowObligationLiquidity
  <2>2. obligation'[o] = Used(c)
    BY <1>1, <2>1
  <2>3. c = [[b EXCEPT !.debt[r] = b.debt[r] + f] EXCEPT !.outside[r] = b.outside[r] + n]
    OBVIOUS
  <2> HIDE DEF c, b, n
  <2>4. /\ c.group = g /\ c.against = b.against
        /\ c.outside = [b.outside EXCEPT ![r] = b.outside[r] + n]
        /\ c.deposited = b.deposited /\ c.debt = [b.debt EXCEPT ![r] = b.debt[r] + f]
        /\ c.borrowing_disabled = b.borrowing_disabled
        /\ c.freshness = b.freshness
        /\ c = [group |-> c.group, deposited |-> c.deposited, against |-> c.against,
                debt |-> c.debt, outside |-> c.outside,
                borrowing_disabled |-> c.borrowing_disabled,
                freshness |-> c.freshness]
    BY <1>1, <2>3 DEF ObligationType
  <2>5. c \in ObligationType
    <3>1. c.debt \in [Reserves -> Nat] /\ c.outside \in [Reserves -> Nat]
      BY <1>2, <1>3, <1>4, <2>4
    <3> QED
      BY <1>1, <2>4, <3>1 DEF ObligationType
  <2>6. \A d \in Reserves : \A h \in Groups : Part(c, d, h) = Part(b, d, h)
    BY <2>4 DEF Part
  <2>7. \A d \in Reserves : against_total'[d] = ta[d]
    BY <2>1
  <2>8. \A d \in Reserves : outside_total'[d] = to[d] - b.outside[d] + c.outside[d]
    BY <1>3, <1>4, <2>1, <2>4
  <2>9. \A d \in Reserves : \A h \in Groups :
           against_total'[d][h] = ta[d][h] - Part(b, d, h) + Part(c, d, h)
    BY <1>7, <2>6, <2>7
  <2>10. Moved(ta, to, b, against_total', outside_total', c)
    BY <2>8, <2>9 DEF Moved
  <2>11. Owes(c) /\ Used(c).group = NoGroup
    BY <1>9, <2>4, <2>5, UsedMoves DEF Owes
  <2> QED
    BY <2>2, <2>5, <2>10, <2>11, UsedMoves DEF MovesWell, WithinLimit, b
<1> QED
  BY <1>8, <1>9

\* repay_obligation_liquidity lowers both sides by the same amount.
LEMMA RepayMoves ==
    ASSUME IInv, TrackersAreSums, NEW o \in Obligations, NEW r \in Reserves,
           NEW f \in Settlements(obligation[o], r), RepayObligationLiquidity(o, r, f)
    PROVE  MovesWell(o)
<1> DEFINE b == obligation[o]
           n == ToCeil(f)
           c == Settled(RepaidTrackers(b, r, n), r, f)
<1>1. /\ b \in ObligationType /\ NothingLeftBehind(b) /\ ExactWhenFresh(b)
      /\ against_total \in AgainstType /\ outside_total \in OutsideType
      /\ Covers(against_total, outside_total, b)
      /\ obligation \in [Obligations -> ObligationType]
  BY InvFacts, SumsCover DEF IInv, TypeOK
<1>2. b.debt[r] \in Nat
  BY <1>1 DEF ObligationType
<1>3. f \in Nat /\ f <= b.debt[r]
  <2>1. \A a \in Repays : FromInt(a) \in Nat
    BY SFAssumption, TrackerAssumption DEF FromInt
  <2> QED
    BY <1>2, <2>1 DEF Settlements, MinOf
<1>4. /\ b.freshness = "fresh" /\ 0 < f
      /\ obligation'[o] = Used(c)
      /\ against_total' = AgainstRepaid(against_total, b, n)
      /\ outside_total' = OutsideRepaid(outside_total, b, r, n)
  BY <1>1, <1>3 DEF RepayObligationLiquidity, Fresh
<1>5. c \in ObligationType
  BY <1>1, <1>3, SettledFacts
<1>6. /\ Moved(against_total, outside_total, b, against_total', outside_total', c)
      /\ Owes(c)
  BY <1>1, <1>3, <1>4, RepaidMoves
<1> HIDE DEF c
<1> QED
  BY <1>4, <1>5, <1>6, UsedMoves DEF MovesWell

\* liquidate_obligation repays, and takes back what is still contributed for a
\* collateral it exhausts.
LEMMA LiquidateMoves ==
    ASSUME IInv, TrackersAreSums, NEW o \in Obligations, NEW r \in Reserves,
           NEW f \in 1 .. obligation[o].debt[r], NEW d \in Reserves,
           NEW all \in BOOLEAN, LiquidateObligation(o, r, f, d, all)
    PROVE  MovesWell(o)
<1> DEFINE b == obligation[o]
           n == ToCeil(f)
           p == RepaidTrackers(b, r, n)
           c == Settled(p, r, f)
           ta == AgainstRepaid(against_total, b, n)
           to == OutsideRepaid(outside_total, b, r, n)
<1>1. /\ b \in ObligationType /\ NothingLeftBehind(b) /\ ExactWhenFresh(b)
      /\ against_total \in AgainstType /\ outside_total \in OutsideType
      /\ Covers(against_total, outside_total, b)
      /\ obligation \in [Obligations -> ObligationType]
  BY InvFacts, SumsCover DEF IInv, TypeOK
<1>2. b.debt[r] \in Nat
  BY <1>1 DEF ObligationType
<1>3. f \in Nat /\ 0 < f /\ f <= b.debt[r]
  BY <1>2
<1>4. n \in Nat
  BY <1>3, CeilNat
<1>5. /\ b.freshness = "fresh"
      /\ obligation'[o] = Used(IF all THEN WithoutCollateral(c, d) ELSE c)
      /\ against_total' = IF all THEN AgainstWithout(ta, p, d) ELSE ta
      /\ outside_total' = to
  BY <1>1 DEF LiquidateObligation, Fresh, SeizedFrom
<1>6. /\ p \in ObligationType /\ c \in ObligationType /\ NothingLeftBehind(c)
      /\ c.group = b.group
  BY <1>1, <1>3, SettledFacts
<1>7. p.group = c.group /\ p.against = c.against
  <2> HIDE DEF n
  <2> QED
    BY <1>1, <1>3, <1>4, <1>6, RepaidValues
<1>8. Moved(against_total, outside_total, b, ta, to, c) /\ Owes(c)
  BY <1>1, <1>3, <1>5, RepaidMoves
<1> HIDE DEF n, p, c
<1>9. ta \in AgainstType /\ to \in OutsideType
  BY <1>1, <1>4, LoweredCounters
<1>10. Covers(ta, to, c)
  <2> HIDE DEF b, ta, to
  <2> QED
    BY <1>1, <1>6, <1>8, <1>9, MovedCovers
<1> HIDE DEF b, ta, to
<1>11. CASE ~all
  BY <1>5, <1>6, <1>8, <1>11, UsedMoves DEF MovesWell, b
<1>12. CASE all
  <2> DEFINE e == WithoutCollateral(c, d)
             ta2 == AgainstWithout(ta, p, d)
  <2>1. e \in ObligationType
    BY <1>6, WithoutCollateralFacts
  <2>2. Moved(ta, to, c, ta2, to, e)
    <3>1. c.group = NoGroup => c.against[d] = 0
      BY <1>6 DEF NothingLeftBehind
    <3> QED
      BY <1>6, <1>7, <1>9, <1>10, <3>1, WithoutMoves
  <2>3. /\ e.group = c.group /\ e.deposited = c.deposited \ {d}
        /\ e.against = [c.against EXCEPT ![d] = 0] /\ e.debt = c.debt
    BY <1>6 DEF WithoutCollateral, ObligationType
  <2>4. ta2 \in AgainstType
    BY <1>6, <1>4, <1>9, LoweredCounters
  <2> HIDE DEF e, ta2
  <2>5. Owes(e)
    <3>1. \A x \in e.deposited : x \in c.deposited /\ e.against[x] = c.against[x]
      BY <1>6, <2>3 DEF ObligationType
    <3>2. GroupDebt(e, e.group) = GroupDebt(c, c.group)
      BY <2>3 DEF GroupDebt
    <3> QED
      BY <1>8, <2>3, <3>1, <3>2 DEF Owes
  <2>6. Moved(against_total, outside_total, b, ta2, to, e)
    BY <1>1, <1>6, <1>8, <1>9, <2>1, <2>2, <2>4, MovedTwice
  <2>7. obligation'[o] = Used(e) /\ against_total' = ta2 /\ outside_total' = to
    BY <1>5, <1>12 DEF e, ta2
  <2> QED
    BY <2>1, <2>5, <2>6, <2>7, UsedMoves DEF MovesWell, b
<1> QED
  BY <1>11, <1>12

\* request_elevation_group takes all contributions back and makes the new ones,
\* within the limits.
LEMMA RequestMoves ==
    ASSUME IInv, TrackersAreSums, NEW o \in Obligations, NEW g \in Groups \cup {NoGroup},
           RequestElevationGroup(o, g)
    PROVE  MovesWell(o) /\ WithinLimit(o)
<1> DEFINE b == obligation[o]
           clean == Untracked(b)
           t == Tracked(clean, g)
           c == [t EXCEPT !.group = g]
           z == [clean EXCEPT !.group = g]
           ta == AgainstUntracked(against_total, b)
           to == OutsideUntracked(outside_total, b)
<1>1. /\ b \in ObligationType /\ NothingLeftBehind(b)
      /\ against_total \in AgainstType /\ outside_total \in OutsideType
      /\ Covers(against_total, outside_total, b)
      /\ obligation \in [Obligations -> ObligationType]
  BY InvFacts, SumsCover DEF IInv, TypeOK
<1>2. /\ clean \in ObligationType
      /\ clean.against = Zero /\ clean.outside = Zero
  BY <1>1, UntrackedFacts
<1>3. /\ obligation'[o] = Used(c)
      /\ against_total' = AgainstTracked(ta, clean, g)
      /\ outside_total' = OutsideTracked(to, clean, g)
      /\ WithinBorrowLimits(obligation'[o], g, against_total', outside_total')
  BY <1>1 DEF RequestElevationGroup
<1>4. IInv'
  BY RequestKeeps
<1>5. ta \in AgainstType /\ to \in OutsideType
  BY <1>1, UntrackedCounters
<1>6. against_total' \in AgainstType /\ outside_total' \in OutsideType
  BY <1>2, <1>3, <1>5, TrackedCounters
<1> HIDE DEF clean
<1>7. z \in ObligationType /\ z.group = g /\ z.against = Zero /\ z.outside = Zero
  BY <1>2 DEF ObligationType
<1>8. /\ t \in ObligationType
      /\ t.debt = clean.debt /\ t.deposited = clean.deposited
      /\ \A r \in clean.deposited : g # NoGroup => t.against[r] = GroupDebt(clean, g)
  <2>1. \A r \in Reserves : clean.against[r] = 0 /\ clean.outside[r] = 0
    BY <1>2 DEF Zero
  <2> QED
    BY <1>2, <2>1, TrackedFacts
<1>9. /\ c \in ObligationType
      /\ c.group = g /\ c.debt = t.debt /\ c.deposited = t.deposited
      /\ c.against = t.against /\ c.outside = t.outside
  <2> HIDE DEF t
  <2> QED
    BY <1>8 DEF ObligationType
<1> HIDE DEF b, c, z, ta, to
<1>10. Moved(against_total, outside_total, b, ta, to, z)
  BY <1>1, <1>7, UntrackedMoves DEF ta, to
<1>11. Covers(ta, to, z)
  BY <1>1, <1>5, <1>7, <1>10, MovedCovers
<1>12. Moved(ta, to, z, against_total', outside_total', c)
  BY <1>2, <1>3, <1>5, <1>7, <1>9, <1>11, TrackedMoves
<1>13. Moved(against_total, outside_total, b, against_total', outside_total', c)
  BY <1>1, <1>5, <1>6, <1>7, <1>9, <1>10, <1>12, MovedTwice
<1>14. ASSUME g # NoGroup, NEW d \in c.deposited
       PROVE  GroupDebt(c, g) = c.against[d] /\ c.against[d] \in Nat
  <2>1. GroupDebt(c, g) = GroupDebt(clean, g)
    BY <1>8, <1>9 DEF GroupDebt
  <2>2. c.against[d] \in Nat
    BY <1>9 DEF ObligationType
  <2> HIDE DEF t
  <2> QED
    BY <1>8, <1>9, <1>14, <2>1, <2>2
<1>15. Owes(c)
  BY <1>9, <1>14 DEF Owes
<1>16. WithinLimit(o)
  <2>1. /\ Used(c).group = g /\ Used(c).deposited = c.deposited
        /\ Used(c).against = c.against /\ GroupDebt(Used(c), g) = GroupDebt(c, g)
    BY <1>9, UsedMoves DEF GroupDebt
  <2>2. g # NoGroup => \A d \in c.deposited : against_total'[d][g] <= GroupLimit[d][g]
    BY <1>3, <2>1 DEF WithinBorrowLimits
  <2> QED
    BY <1>3, <1>14, <2>1, <2>2 DEF WithinLimit
<1> QED
  BY <1>3, <1>9, <1>13, <1>15, <1>16, UsedMoves DEF MovesWell, b

-----------------------------------------------------------------------------
(* Every step, and the theorems.                                                            *)

\* The state after initialisation is in the invariant.
LEMMA InitSound == Init => IInv
<1> SUFFICES ASSUME Init PROVE IInv
  OBVIOUS
<1>1. Sound(NewObligation)
  BY DEF Sound, NewObligation, ObligationType, NothingLeftBehind, ExactWhenFresh,
         Zero, Freshness
<1>2. NewObligation \in ObligationType
  BY <1>1 DEF Sound
<1> QED
  BY <1>1, <1>2 DEF Init, IInv, TypeOK, Zero

\* What EmodeCollateralBacksNoOutsideDebt asks of one obligation in one step.
EmodeRule(o) ==
    LET b == obligation'[o]
    IN TookDebt(o) /\ b.group = NoGroup /\ Debts(b) # {}
         => b.deposited \cap EmodeOnly = {}

\* An obligation that takes no debt, or is not left stale, took none.
LEMMA QuietTookNone ==
    ASSUME IInv, IInv', NEW o \in Obligations,
           NoNewDebt(o) \/ obligation'[o].freshness # "stale"
    PROVE  ~TookDebt(o)
<1>1. \A q \in Reserves : obligation[o].debt[q] \in Nat /\ obligation'[o].debt[q] \in Nat
  BY DEF IInv, TypeOK, ObligationType
<1>2. ASSUME NoNewDebt(o) PROVE ~TookDebt(o)
  <2>1. \A q \in Reserves : ~(obligation'[o].debt[q] > obligation[o].debt[q])
    BY <1>1, <1>2 DEF NoNewDebt
  <2> QED
    BY <1>2, <2>1 DEF NoNewDebt, TookDebt
<1> QED
  BY <1>2 DEF TookDebt

\* Then it is within the rule.
LEMMA QuietRule ==
    ASSUME IInv, IInv', NEW o \in Obligations,
           NoNewDebt(o) \/ obligation'[o].freshness # "stale"
    PROVE  EmodeRule(o)
BY QuietTookNone DEF EmodeRule

\* The operations on obligation o.
ActsOn(o) ==
    \/ Refresh(o)
    \/ \E r \in Reserves :
         \/ DepositObligationCollateral(o, r)
         \/ WithdrawAll(o, r)
         \/ WithdrawSome(o, r)
         \/ \E f \in Borrows : BorrowObligationLiquidity(o, r, f)
         \/ \E f \in Settlements(obligation[o], r) : RepayObligationLiquidity(o, r, f)
         \/ \E f \in 1..obligation[o].debt[r], d \in Reserves, all \in BOOLEAN :
               LiquidateObligation(o, r, f, d, all)
    \/ \E g \in Groups \cup {NoGroup} : RequestElevationGroup(o, g)

\* What a step of obligation o must give.
StepOf(o) ==
    /\ IInv' /\ EmodeRule(o)
    /\ \A p \in Obligations \ {o} : obligation'[p] = obligation[p]

\* Every step of an obligation keeps the invariant and the rule.
LEMMA ObligationStep ==
    ASSUME IInv, NEW o \in Obligations, ActsOn(o)
    PROVE  StepOf(o)
<1>1. obligation \in [Obligations -> ObligationType]
  BY DEF IInv, TypeOK
<1>2. CASE Refresh(o)
  <2>1. PICK interest \in [Reserves -> Interests \cup {0}] : RefreshObligation(o, interest)
    BY <1>2 DEF Refresh
  <2>2. IInv' /\ obligation'[o].freshness = "fresh"
    BY <2>1, RefreshKeeps
  <2>3. EmodeRule(o)
    BY <2>2, QuietRule
  <2>4. \A p \in Obligations \ {o} : obligation'[p] = obligation[p]
    BY <1>1, <2>1 DEF RefreshObligation
  <2> QED
    BY <2>2, <2>3, <2>4 DEF StepOf
<1>3. CASE \E r \in Reserves : \/ DepositObligationCollateral(o, r)
                              \/ WithdrawAll(o, r) \/ WithdrawSome(o, r)
  <2>1. PICK r \in Reserves : \/ DepositObligationCollateral(o, r)
                             \/ WithdrawAll(o, r) \/ WithdrawSome(o, r)
    BY <1>3
  <2>2. IInv'
    BY <2>1, DepositKeeps, WithdrawAllKeeps, WithdrawSomeKeeps
  <2>3. EmodeRule(o)
    BY <2>1, <2>2, CollateralTakesNoDebt, QuietRule
  <2>4. \A p \in Obligations \ {o} : obligation'[p] = obligation[p]
    BY <1>1, <2>1 DEF DepositObligationCollateral, WithdrawAll, WithdrawSome
  <2> QED
    BY <2>2, <2>3, <2>4 DEF StepOf
<1>4. ASSUME NEW r \in Reserves, NEW f \in Borrows, BorrowObligationLiquidity(o, r, f)
      PROVE  StepOf(o)
  <2>1. EmodeRule(o)
    BY <1>4, BorrowSeesCollateral DEF EmodeRule
  <2>2. \A p \in Obligations \ {o} : obligation'[p] = obligation[p]
    BY <1>1, <1>4 DEF BorrowObligationLiquidity
  <2> QED
    BY <1>4, <2>1, <2>2, BorrowKeeps DEF StepOf
<1>5. ASSUME NEW r \in Reserves, NEW f \in Settlements(obligation[o], r),
             RepayObligationLiquidity(o, r, f)
      PROVE  StepOf(o)
  <2>1. IInv' /\ EmodeRule(o)
    BY <1>5, RepayKeeps, QuietRule
  <2>2. \A p \in Obligations \ {o} : obligation'[p] = obligation[p]
    BY <1>1, <1>5 DEF RepayObligationLiquidity
  <2> QED
    BY <2>1, <2>2 DEF StepOf
<1>6. ASSUME NEW r \in Reserves, NEW f \in 1 .. obligation[o].debt[r],
             NEW d \in Reserves, NEW all \in BOOLEAN,
             LiquidateObligation(o, r, f, d, all)
      PROVE  StepOf(o)
  <2>1. IInv' /\ EmodeRule(o)
    BY <1>6, LiquidateKeeps, QuietRule
  <2>2. \A p \in Obligations \ {o} : obligation'[p] = obligation[p]
    BY <1>1, <1>6 DEF LiquidateObligation
  <2> QED
    BY <2>1, <2>2 DEF StepOf
<1>7. ASSUME NEW g \in Groups \cup {NoGroup}, RequestElevationGroup(o, g)
      PROVE  StepOf(o)
  <2>1. IInv' /\ EmodeRule(o)
    BY <1>7, RequestKeeps DEF EmodeRule
  <2>2. \A p \in Obligations \ {o} : obligation'[p] = obligation[p]
    BY <1>1, <1>7 DEF RequestElevationGroup
  <2> QED
    BY <2>1, <2>2 DEF StepOf
<1> QED
  BY <1>2, <1>3, <1>4, <1>5, <1>6, <1>7 DEF ActsOn

\* Every step keeps the invariant, and every obligation is within the rule.
LEMMA StepSound ==
    ASSUME IInv, [Next]_vars
    PROVE  IInv' /\ \A o \in Obligations : EmodeRule(o)
<1>1. obligation \in [Obligations -> ObligationType]
  BY DEF IInv, TypeOK
<1>2. ASSUME IInv', NEW o \in Obligations, obligation'[o] = obligation[o]
      PROVE  EmodeRule(o)
  <2>1. NoNewDebt(o)
    BY <1>1, <1>2 DEF NoNewDebt, ObligationType
  <2> QED
    BY <1>2, <2>1, QuietRule
<1>3. CASE NewSlot
  <2>1. \A o \in Obligations : obligation'[o].freshness = "due"
    BY <1>1, <1>3 DEF NewSlot, ObligationType
  <2> QED
    BY <1>3, <2>1, NewSlotKeeps, QuietRule
<1>4. ASSUME NEW o \in Obligations, StepOf(o)
      PROVE  IInv' /\ \A p \in Obligations : EmodeRule(p)
  BY <1>2, <1>4 DEF StepOf
<1>5. CASE UNCHANGED vars
  <2>1. IInv'
    BY <1>5 DEF vars, IInv, TypeOK
  <2> QED
    BY <1>2, <1>5, <2>1 DEF vars
<1>6. CASE Next /\ ~NewSlot
  <2>1. PICK o \in Obligations : ActsOn(o)
    BY <1>6, Zenon DEF Next, ActsOn
  <2>2. StepOf(o)
    BY <2>1, ObligationStep
  <2> QED
    BY <1>4, <2>2
<1> QED
  BY <1>3, <1>5, <1>6

\* The invariant of the counters: sums of what no obligation owes much more than.
SumInv == IInv /\ TrackersAreSums /\ \A o \in Obligations : Owes(obligation[o])

\* Every operation on an obligation moves contributions with counters, and takes
\* debt only within the limits.
LEMMA ObligationMoves ==
    ASSUME IInv, TrackersAreSums, NEW o \in Obligations, ActsOn(o), IInv'
    PROVE  MovesWell(o) /\ (TookDebt(o) => WithinLimit(o))
<1>1. CASE Refresh(o)
  <2>1. PICK interest \in [Reserves -> Interests \cup {0}] : RefreshObligation(o, interest)
    BY <1>1 DEF Refresh
  <2> QED
    BY <2>1, RefreshKeeps, RefreshMoves, QuietTookNone
<1>2. ASSUME NEW r \in Reserves, \/ DepositObligationCollateral(o, r)
                                \/ WithdrawAll(o, r) \/ WithdrawSome(o, r)
      PROVE  MovesWell(o) /\ ~TookDebt(o)
  BY <1>2, DepositMoves, WithdrawAllMoves, WithdrawSomeMoves, CollateralTakesNoDebt,
     QuietTookNone
<1>3. ASSUME NEW r \in Reserves, NEW f \in Borrows, BorrowObligationLiquidity(o, r, f)
      PROVE  MovesWell(o) /\ WithinLimit(o)
  BY <1>3, BorrowMoves
<1>4. ASSUME NEW r \in Reserves, NEW f \in Settlements(obligation[o], r),
             RepayObligationLiquidity(o, r, f)
      PROVE  MovesWell(o) /\ ~TookDebt(o)
  BY <1>4, RepayMoves, RepayKeeps, QuietTookNone
<1>5. ASSUME NEW r \in Reserves, NEW f \in 1 .. obligation[o].debt[r],
             NEW d \in Reserves, NEW all \in BOOLEAN,
             LiquidateObligation(o, r, f, d, all)
      PROVE  MovesWell(o) /\ ~TookDebt(o)
  BY <1>5, LiquidateMoves, LiquidateKeeps, QuietTookNone
<1>6. ASSUME NEW g \in Groups \cup {NoGroup}, RequestElevationGroup(o, g)
      PROVE  MovesWell(o) /\ WithinLimit(o)
  BY <1>6, RequestMoves
<1> QED
  BY <1>1, <1>2, <1>3, <1>4, <1>5, <1>6 DEF ActsOn

\* What is owed against a collateral after o has taken debt within its limit.
LEMMA ExposureBound ==
    ASSUME SumInv, SumInv', NEW o \in Obligations, NEW g \in Groups, NEW r \in Reserves,
           \A p \in Obligations \ {o} : obligation'[p] = obligation[p], WithinLimit(o),
           obligation'[o].group = g, r \in obligation'[o].deposited
    PROVE  ExposureAfter(r, g) <= GroupLimit[r][g] + Cardinality(Unrefreshed(o))
<1> DEFINE own == [p \in Obligations |->
                     IF obligation'[p].group = g /\ r \in obligation'[p].deposited
                     THEN ToCeil(obligation'[p].debt[DebtReserve[g]]) ELSE 0]
           cnt == [p \in Obligations |-> Contribution(p, r, g)']
           U == Unrefreshed(o)
<1>1. /\ obligation' \in [Obligations -> ObligationType] /\ IsFiniteSet(Obligations)
      /\ obligation \in [Obligations -> ObligationType]
      /\ against_total' \in [Reserves -> [Groups -> Nat]]
      /\ \A p \in Obligations : Owes(obligation'[p]) /\ ExactWhenFresh(obligation[p])
  BY TrackerAssumption DEF SumInv, IInv, TypeOK, Sound
<1>2. g # NoGroup
  BY TrackerAssumption
<1>3. \A p \in Obligations :
         /\ Contribution(p, r, g)' = Part(obligation'[p], r, g)
         /\ Part(obligation'[p], r, g) \in Nat
  BY <1>1, <1>2, PartNat DEF Contribution, Part
<1>4. \A p \in Obligations :
         IF obligation'[p].group = g /\ r \in obligation'[p].deposited
         THEN own[p] = GroupDebt(obligation'[p], g) /\ own[p] \in Nat
              /\ cnt[p] = obligation'[p].against[r]
         ELSE own[p] = 0
  BY <1>1, <1>2, <1>3, GroupDebtNat DEF GroupDebt, Part
<1>5. /\ own \in [Obligations -> Nat] /\ cnt \in [Obligations -> Nat]
      /\ U \in SUBSET Obligations
  <2>1. \A p \in Obligations : own[p] \in Nat /\ cnt[p] \in Nat
    BY <1>3, <1>4
  <2> QED
    BY <2>1 DEF Unrefreshed
<1>6. against_total'[r][g] = SumFunction(cnt)
  BY DEF SumInv, TrackersAreSums
<1>7. ExposureAfter(r, g) = SumFunction(own)
  BY DEF ExposureAfter
<1>8. /\ against_total'[r][g] <= GroupLimit[r][g]
      /\ GroupDebt(obligation'[o], g) <= obligation'[o].against[r]
  BY <1>2 DEF WithinLimit
<1> HIDE DEF own, cnt
<1>9. \A p \in U : own[p] <= cnt[p] + 1
  <2> SUFFICES ASSUME NEW p \in U PROVE own[p] <= cnt[p] + 1
    OBVIOUS
  <2>1. p \in Obligations
    BY <1>5
  <2>2. CASE obligation'[p].group = g /\ r \in obligation'[p].deposited
    BY <1>1, <1>2, <1>4, <2>1, <2>2 DEF Owes
  <2>3. CASE ~(obligation'[p].group = g /\ r \in obligation'[p].deposited)
    BY <1>4, <1>5, <2>1, <2>3
  <2> QED
    BY <2>2, <2>3
<1>10. \A p \in Obligations \ U : own[p] <= cnt[p]
  <2> SUFFICES ASSUME NEW p \in Obligations \ U PROVE own[p] <= cnt[p]
    OBVIOUS
  <2>1. CASE ~(obligation'[p].group = g /\ r \in obligation'[p].deposited)
    BY <1>4, <1>5, <2>1
  <2>2. CASE obligation'[p].group = g /\ r \in obligation'[p].deposited /\ p = o
    BY <1>4, <1>8, <2>2
  <2>3. CASE obligation'[p].group = g /\ r \in obligation'[p].deposited /\ p # o
    <3>1. obligation'[p] = obligation[p] /\ obligation[p].freshness = "fresh"
      BY <2>3 DEF Unrefreshed, Fresh
    <3>2. obligation[p].against[r] = GroupDebt(obligation[p], g)
      BY <1>1, <1>2, <2>3, <3>1 DEF ExactWhenFresh
    <3> QED
      BY <1>4, <1>5, <2>3, <3>1, <3>2
  <2> QED
    BY <2>1, <2>2, <2>3
<1>11. SumFunction(own) <= SumFunction(cnt) + Cardinality(U)
  BY <1>1, <1>5, <1>9, <1>10, SumExcess
<1>12. /\ SumFunction(own) \in Nat /\ SumFunction(cnt) \in Nat
       /\ GroupLimit[r][g] \in Nat /\ Cardinality(U) \in Nat
  BY <1>1, <1>2, <1>5, SumNat, TrackerAssumption, FS_Subset, FS_CardinalityType
<1> QED
  BY <1>6, <1>7, <1>8, <1>11, <1>12

\* What ExposureWithinLimit asks of one obligation in one step.
LimitRule(o) ==
    TookDebt(o) =>
      LET b == obligation'[o]
      IN b.group # NoGroup =>
           \A r \in b.deposited :
              ExposureAfter(r, b.group)
                 <= GroupLimit[r][b.group] + Cardinality(Unrefreshed(o))

\* Every step keeps the sums, and every obligation that takes debt is within
\* the limits.
LEMMA StepSums ==
    ASSUME SumInv, [Next]_vars
    PROVE  SumInv' /\ \A o \in Obligations : LimitRule(o)
<1>1. IInv /\ IInv' /\ TrackersAreSums /\ obligation \in [Obligations -> ObligationType]
  BY StepSound DEF SumInv, IInv, TypeOK
<1>2. ASSUME NEW o \in Obligations, obligation'[o] = obligation[o]
      PROVE  LimitRule(o)
  <2>1. NoNewDebt(o)
    BY <1>1, <1>2 DEF NoNewDebt, ObligationType
  <2> QED
    BY <1>1, <2>1, QuietTookNone DEF LimitRule
<1>3. CASE NewSlot
  <2>1. \A o \in Obligations :
           /\ obligation'[o].freshness = "due"
           /\ obligation'[o].group = obligation[o].group
           /\ obligation'[o].deposited = obligation[o].deposited
           /\ obligation'[o].against = obligation[o].against
           /\ obligation'[o].debt = obligation[o].debt
           /\ obligation'[o].outside = obligation[o].outside
    BY <1>1, <1>3 DEF NewSlot, ObligationType
  <2>2. UNCHANGED <<against_total, outside_total>>
    BY <1>3 DEF NewSlot
  <2>3. \A o \in Obligations : LimitRule(o)
    BY <1>1, <2>1, QuietTookNone DEF LimitRule
  <2>4. \A o \in Obligations : Owes(obligation'[o])
    BY <2>1 DEF SumInv, Owes, GroupDebt
  <2>5. TrackersAreSums'
    BY <1>1, <2>1, <2>2, SameSums
  <2> QED
    BY <1>1, <2>3, <2>4, <2>5 DEF SumInv
<1>4. ASSUME NEW o \in Obligations, ActsOn(o)
      PROVE  SumInv' /\ \A p \in Obligations : LimitRule(p)
  <2>1. \A p \in Obligations \ {o} : obligation'[p] = obligation[p]
    BY <1>1, <1>4, ObligationStep DEF StepOf
  <2>2. MovesWell(o) /\ (TookDebt(o) => WithinLimit(o))
    BY <1>1, <1>4, ObligationMoves
  <2>3. TrackersAreSums'
    BY <1>1, <2>1, <2>2, SumsFollow DEF MovesWell
  <2>4. \A p \in Obligations : Owes(obligation'[p])
    BY <2>1, <2>2 DEF SumInv, MovesWell
  <2>5. SumInv'
    BY <1>1, <2>3, <2>4 DEF SumInv
  <2>6. LimitRule(o)
    <3>1. obligation'[o] \in ObligationType
      BY <1>1 DEF IInv, TypeOK
    <3>2. /\ obligation'[o].group \in Groups \cup {NoGroup}
          /\ obligation'[o].deposited \subseteq Reserves
      BY <3>1 DEF ObligationType
    <3> QED
      BY <2>1, <2>2, <2>5, <3>2, ExposureBound DEF LimitRule
  <2> QED
    BY <1>2, <2>1, <2>5, <2>6
<1>5. CASE UNCHANGED vars
  <2>1. \A p \in Obligations : obligation'[p] = obligation[p]
    BY <1>5 DEF vars
  <2>2. TrackersAreSums'
    BY <1>1, <1>5, <2>1, SameSums DEF vars
  <2> QED
    BY <1>1, <1>2, <2>1, <2>2 DEF SumInv
<1> QED
  BY <1>3, <1>4, <1>5, Zenon DEF Next, ActsOn

\* New obligations owe nothing.
LEMMA InitSumInv == Init => SumInv
<1>1. ASSUME Init PROVE \A o \in Obligations : Owes(obligation[o])
  BY <1>1 DEF Init, NewObligation, Owes
<1> QED
  BY <1>1, InitSound, InitSums DEF SumInv

\* The inductive invariant of the counters holds in every reachable state.
THEOREM Inductive == Spec => []IInv
<1>1. IInv /\ [Next]_vars => IInv'
  BY StepSound
<1> QED
  BY <1>1, InitSound, PTL DEF Spec

\* No counter, contribution or debt is ever negative: repayments are capped by
\* the debt and contributions are lowered with saturation.
THEOREM TypeCorrect == Spec => []TypeOK
<1>1. IInv => TypeOK
  BY DEF IInv
<1> QED
  BY <1>1, Inductive, PTL

\* A refreshed obligation contributes exactly its debt to the counters it
\* belongs to and nothing to any other, for every market configuration.
THEOREM FreshTrackersAlwaysExact == Spec => []FreshTrackersExact
<1>1. IInv => FreshTrackersExact
  BY DEF IInv, Sound, NothingLeftBehind, ExactWhenFresh, FreshTrackersExact, Fresh
<1> QED
  BY <1>1, Inductive, PTL

\* Collateral reserved for groups never backs debt taken outside them.
THEOREM EmodeCollateralNeverBacksOutsideDebt == Spec => EmodeCollateralBacksNoOutsideDebt
<1> DEFINE Rules == \A o \in Obligations :
             LET b == obligation'[o]
             IN TookDebt(o) /\ b.group = NoGroup /\ Debts(b) # {}
                  => b.deposited \cap EmodeOnly = {}
<1>1. IInv /\ [Next]_vars => [Rules]_vars
  BY StepSound DEF EmodeRule
<1>2. Spec => [][Rules]_vars
  BY <1>1, Inductive, PTL DEF Spec
<1> QED
  BY <1>2 DEF EmodeCollateralBacksNoOutsideDebt

\* The counters' invariant holds in every reachable state.
THEOREM SumInductive == Spec => []SumInv
<1>1. SumInv /\ [Next]_vars => SumInv'
  BY StepSums
<1> QED
  BY <1>1, InitSumInv, PTL DEF Spec

\* Every counter of every reserve is the sum of what the obligations remember to
\* have contributed, in every market.
THEOREM TrackersAlwaysSums == Spec => []TrackersAreSums
<1>1. SumInv => TrackersAreSums
  BY DEF SumInv
<1> QED
  BY <1>1, SumInductive, PTL

\* Whoever takes debt in a group leaves what is really owed against each of its
\* collaterals within the limit.
THEOREM ExposureAlwaysWithinLimit == Spec => ExposureWithinLimit
<1> DEFINE Rules == \A o \in Obligations : TookDebt(o) =>
             LET b == obligation'[o]
             IN b.group # NoGroup =>
                  \A r \in b.deposited :
                     ExposureAfter(r, b.group)
                        <= GroupLimit[r][b.group] + Cardinality(Unrefreshed(o))
<1>1. SumInv /\ [Next]_vars => [Rules]_vars
  BY StepSums DEF LimitRule
<1>2. Spec => [][Rules]_vars
  BY <1>1, SumInductive, PTL DEF Spec
<1> QED
  BY <1>2 DEF ExposureWithinLimit
=============================================================================
