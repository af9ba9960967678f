------------------------- MODULE ActionClientProofs -------------------------
(***************************************************************************)
(* Proofs about ActionClient, for any reserves, farms, requests, starts and    *)
(* bounds: the stakes of an obligation follow its collateral, and a committed    *)
(* transaction has moved the positions as its request means.                      *)
(*                                                                               *)
(* The first half opens no builder of the client: the argument holds for every     *)
(* sequence of instructions. It follows the accounts through a transaction. A       *)
(* lending instruction moves at most the position of its first pair, and leaves      *)
(* the stakes alone. A V2 instruction refreshes that farm after its effect. A V1      *)
(* instruction has check_refresh find the refresh of that farm right behind it, so     *)
(* that after each instruction every stake follows but for at most the one the next    *)
(* instruction refreshes, and none is left over at the end.                             *)
(*                                                                                     *)
(* The second half opens all of them: whatever a builder puts around its lending        *)
(* instructions moves no position, those it lends with are what its request means,       *)
(* and the assembly of the lists keeps each exactly once and in order.                    *)
(*                                                                                         *)
(* The errors are compared with the empty string, which the SMT translation does            *)
(* not digest: Succeeds keeps it out of the steps that count instructions.                   *)
(***************************************************************************)
EXTENDS ActionClient, SumProofs, SequenceTheorems, TLAPS

-----------------------------------------------------------------------------
(* Positions.                                                                *)

\* The slots of an obligation account.
Slots(slots) ==
    /\ DOMAIN slots = 1 .. MaxSlots
    /\ \A i \in 1 .. MaxSlots :
           slots[i] = [reserve |-> slots[i].reserve, amount |-> slots[i].amount]

\* What the accounts of a user must be for the handlers to keep their farms in step:
\* an obligation that is not there has no collateral.
Fields == {"exists", "deposits", "borrows", "stakes", "group", "referrer", "error"}
Account(c) == Fields \subseteq DOMAIN c
Sound(c) ==
    /\ Account(c)
    /\ Slots(c.deposits)
    /\ c.exists \/ NoPosition(c.deposits)

\* The stake in the collateral farm of r, if there is one, is the position in r.
Follows(c, r) ==
    IF <<r, "Collateral">> \in DOMAIN c.stakes
    THEN c.stakes[<<r, "Collateral">>] = StakeFor(c, <<r, "Collateral">>)
    ELSE ~HasPosition(c.deposits, r)

\* Two accounts that differ in none of the fields the farms depend on,
Holds(c, d) ==
    /\ Account(d)
    /\ d.exists = c.exists /\ d.deposits = c.deposits /\ d.stakes = c.stakes

\* and in nothing else of the obligation.
Keeps(c, d) ==
    /\ Account(d)
    /\ d.exists = c.exists /\ d.deposits = c.deposits /\ d.stakes = c.stakes
    /\ d.borrows = c.borrows /\ d.group = c.group /\ d.referrer = c.referrer

\* What a handler leaves: these positions, and the group and referrer there were.
Leaves(c, d, positions) ==
    Positions(d) = positions /\ d.group = c.group /\ d.referrer = c.referrer

SamePosition(s, t, q) ==
    /\ HasPosition(t, q) <=> HasPosition(s, q)
    /\ AmountIn(t, q) = AmountIn(s, q)

\* The position in r has changed, and no stake and no other position has.
Moved(c, d, r) ==
    /\ Sound(d)
    /\ d.stakes = c.stakes
    /\ \A q \in Reserves \ {r} : SamePosition(c.deposits, d.deposits, q)

\* With a position in a slot changed and its reserve only between r and the
\* default key, the position in any other reserve is what it was.
LEMMA OtherPosition ==
    ASSUME NEW s, Slots(s), NEW t, Slots(t), NEW q, NEW i \in 1 .. MaxSlots,
           \A j \in 1 .. MaxSlots : j # i => t[j] = s[j],
           s[i].reserve # q, t[i].reserve # q
    PROVE  SamePosition(s, t, q)
<1> DEFINE In(x) == {j \in DOMAIN x : x[j].reserve = q}
<1>1. In(t) = In(s) /\ \A j \in In(s) : t[j] = s[j]
  BY DEF Slots
<1>2. HasPosition(t, q) <=> HasPosition(s, q)
  BY <1>1 DEF HasPosition
<1>3. AmountIn(t, q) = AmountIn(s, q)
  <2>1. CASE In(s) = {}
    BY <1>1, <2>1 DEF AmountIn
  <2>2. CASE In(s) # {}
    <3> DEFINE j == CHOOSE k \in In(s) : TRUE
    <3>1. j \in In(s)
      BY <2>2
    <3>2. AmountIn(s, q) = s[j].amount
      BY <2>2 DEF AmountIn
    <3>3. AmountIn(t, q) = t[j].amount
      BY <1>1, <2>2 DEF AmountIn
    <3> HIDE DEF j
    <3> QED
      BY <1>1, <3>1, <3>2, <3>3
  <2> QED
    BY <2>1, <2>2
<1> QED
  BY <1>2, <1>3 DEF SamePosition

\* Where a deposit goes: a slot of the reserve, or one that is free.
LEMMA AddToOthers ==
    ASSUME NEW s, Slots(s), NEW r, NEW amount, HasRoom(s, r)
    PROVE  /\ Slots(AddTo(s, r, amount))
           /\ \A q \in Reserves \ {r} : SamePosition(s, AddTo(s, r, amount), q)
<1> DEFINE i == IF HasPosition(s, r) THEN SlotOf(s, r) ELSE FreeSlot(s)
           t == AddTo(s, r, amount)
<1>1. i \in 1 .. MaxSlots /\ s[i].reserve \in {r, NullKey}
  <2>1. CASE HasPosition(s, r)
    BY <2>1 DEF HasPosition, SlotOf, Slots
  <2>2. CASE ~HasPosition(s, r)
    <3> DEFINE T == {k \in 1 .. MaxSlots : s[k].reserve = NullKey}
    <3>1. T # {} /\ T \in SUBSET Nat
      BY <2>2, SlotsAssumption DEF HasRoom, HasPosition, Slots
    <3>2. PICK k \in T : \A m \in T : k <= m
      <4> HIDE DEF T
      <4> QED
        BY <3>1, SmallestNat
    <3>3. /\ k \in DOMAIN s /\ s[k].reserve = NullKey
          /\ \A j \in DOMAIN s : j < k => s[j].reserve # NullKey
      BY <3>2, SlotsAssumption DEF Slots
    <3>4. FreeSlot(s) \in DOMAIN s /\ s[FreeSlot(s)].reserve = NullKey
      BY <3>3 DEF FreeSlot
    <3> QED
      BY <2>2, <3>4 DEF Slots
  <2> QED
    BY <2>1, <2>2
<1>2. t = [s EXCEPT ![i] = [reserve |-> r, amount |-> @.amount + amount]]
  BY DEF AddTo
<1> HIDE DEF i, t
<1>3. Slots(t) /\ t[i].reserve = r /\ \A j \in 1 .. MaxSlots : j # i => t[j] = s[j]
  BY <1>1, <1>2 DEF Slots
<1>4. ASSUME NEW q \in Reserves \ {r} PROVE SamePosition(s, t, q)
  BY <1>1, <1>3, <1>4, ReservesAssumption, OtherPosition
<1> QED
  BY <1>3, <1>4 DEF t

\* What is taken from a position leaves it smaller, or its slot free.
LEMMA TakeFromOthers ==
    ASSUME NEW s, Slots(s), NEW r, NEW amount, HasPosition(s, r)
    PROVE  /\ Slots(TakeFrom(s, r, amount))
           /\ \A q \in Reserves \ {r} : SamePosition(s, TakeFrom(s, r, amount), q)
<1> DEFINE i == SlotOf(s, r)
           t == TakeFrom(s, r, amount)
<1>1. i \in 1 .. MaxSlots /\ s[i].reserve = r
  BY DEF HasPosition, SlotOf, Slots
<1> DEFINE v == IF s[i].amount <= amount THEN EmptySlot
                ELSE [reserve |-> r, amount |-> s[i].amount - amount]
<1>2. t = [s EXCEPT ![i] = v]
  BY DEF TakeFrom
<1> HIDE DEF i, t
<1>3. /\ Slots(t) /\ t[i].reserve \in {r, NullKey}
      /\ \A j \in 1 .. MaxSlots : j # i => t[j] = s[j]
  <2>1. /\ DOMAIN t = 1 .. MaxSlots /\ t[i] = v
        /\ \A j \in 1 .. MaxSlots : j # i => t[j] = s[j]
    <3> HIDE DEF v
    <3> QED
      BY <1>1, <1>2 DEF Slots
  <2>2. t[i] = [reserve |-> t[i].reserve, amount |-> t[i].amount] /\ t[i].reserve \in {r, NullKey}
    BY <2>1 DEF EmptySlot
  <2> QED
    BY <2>1, <2>2 DEF Slots
<1>4. ASSUME NEW q \in Reserves \ {r} PROVE SamePosition(s, t, q)
  BY <1>1, <1>3, <1>4, ReservesAssumption, OtherPosition
<1> QED
  BY <1>3, <1>4 DEF t

-----------------------------------------------------------------------------
(* Stakes.                                                                   *)

\* The stake due is the position, of an obligation that has been closed as well.
LEMMA StakeIsPosition ==
    ASSUME NEW c, Sound(c), NEW q \in Reserves
    PROVE  StakeFor(c, <<q, "Collateral">>) = AmountIn(c.deposits, q)
<1>1. CASE c.exists
  BY <1>1 DEF StakeFor
<1>2. CASE ~c.exists
  <2>1. {i \in DOMAIN c.deposits : c.deposits[i].reserve = q} = {}
    BY <1>2, ReservesAssumption DEF Sound, NoPosition
  <2>2. AmountIn(c.deposits, q) = 0
    BY <2>1 DEF AmountIn
  <2> QED
    BY <1>2, <2>2 DEF StakeFor
<1> QED
  BY <1>1, <1>2

\* A stake keeps following a position that is left alone.
LEMMA MovedFollows ==
    ASSUME NEW c, Sound(c), NEW d, NEW r, Moved(c, d, r),
           NEW q \in FarmCollateral, q # r, Follows(c, q)
    PROVE  Follows(d, q)
<1>1. q \in Reserves \ {r}
  BY ReservesAssumption
<1>2. SamePosition(c.deposits, d.deposits, q) /\ d.stakes = c.stakes /\ Sound(d)
  BY <1>1 DEF Moved
<1>3. StakeFor(d, <<q, "Collateral">>) = StakeFor(c, <<q, "Collateral">>)
  BY <1>1, <1>2, StakeIsPosition DEF SamePosition
<1> QED
  BY <1>2, <1>3 DEF Follows, SamePosition

\* Accounts that keep what the farms depend on are sound, and their stakes follow.
LEMMA HoldsSound ==
    ASSUME NEW c, Sound(c), NEW d, Holds(c, d)
    PROVE  /\ Sound(d)
           /\ \A r : Moved(c, d, r)
           /\ \A q : Follows(c, q) => Follows(d, q)
BY DEF Holds, Sound, Moved, SamePosition, Follows, StakeFor

\* Whoever keeps the obligation keeps what the farms depend on,
LEMMA KeepsHolds ==
    ASSUME NEW c, NEW d, Keeps(c, d)
    PROVE  Holds(c, d)
BY DEF Keeps, Holds

\* so that the account stays sound and its farms in step.
LEMMA KeepsSound ==
    ASSUME NEW c, Sound(c), NEW d, Keeps(c, d)
    PROVE  /\ Sound(d)
           /\ \A r : Moved(c, d, r)
           /\ \A q : Follows(c, q) => Follows(d, q)
BY KeepsHolds, HoldsSound

\* Keeping the fields includes having them.
LEMMA KeepsAccount ==
    ASSUME NEW c, NEW d, Keeps(c, d)
    PROVE  Account(d)
BY DEF Keeps

\* Steps that keep these fields compose,
LEMMA KeepsTrans ==
    ASSUME NEW c, NEW d, NEW e, Keeps(c, d), Keeps(d, e)
    PROVE  Keeps(c, e)
BY DEF Keeps

\* and so do steps that move one and the same position.
LEMMA MovedTrans ==
    ASSUME NEW c, NEW d, NEW e, NEW r, Moved(c, d, r), Moved(d, e, r)
    PROVE  Moved(c, e, r)
BY DEF Moved, SamePosition

-----------------------------------------------------------------------------
(* What a handler does with the accounts unless it fails.                    *)

\* An error touches neither positions nor stakes.
LEMMA Failed ==
    ASSUME NEW c, Account(c), NEW e, e # ""
    PROVE  Fail(c, e).error # "" /\ Keeps(c, Fail(c, e)) /\ Keeps(c, c)
BY DEF Fail, Account, Fields, Keeps

\* A condition that is not met ends the transaction, one that is changes nothing.
LEMMA Required ==
    ASSUME NEW c, Account(c), NEW p, NEW e, e # ""
    PROVE  /\ Require(c, p, e).error = "" => p /\ Require(c, p, e) = c
           /\ Keeps(c, Require(c, p, e))
BY Failed DEF Require

\* The freshness checks pass only for an obligation that is there, and change nothing.
LEMMA CheckedFresh ==
    ASSUME NEW c, Account(c), NEW r
    PROVE  /\ Keeps(c, CheckFresh(c, r))
           /\ CheckFresh(c, r).error = "" => CheckFresh(c, r) = c /\ c.exists
<1> DEFINE d == Require(c, c.exists, "no obligation")
           e == Require(d, r \in c.resFresh, "ReserveStale")
           p == c.obFresh
<1>1. Keeps(c, d) /\ (d.error = "" => c.exists /\ d = c)
  BY Required
<1>2. Account(d)
  BY <1>1 DEF Keeps
<1>3. Keeps(d, e) /\ (e.error = "" => e = d)
  BY <1>2, Required
<1>4. Account(e)
  BY <1>3 DEF Keeps
<1>5. CheckFresh(c, r) = Require(e, p, "ObligationStale")
  BY DEF CheckFresh
<1> HIDE DEF d, e, p
<1>6. /\ Keeps(e, Require(e, p, "ObligationStale"))
      /\ Require(e, p, "ObligationStale").error = "" => Require(e, p, "ObligationStale") = e
  BY <1>4, Required
<1> QED
  BY <1>1, <1>3, <1>5, <1>6 DEF Keeps

\* Neither do the checks of the accounts an instruction carries.
LEMMA CheckedAccounts ==
    ASSUME NEW c, Account(c), NEW x
    PROVE  /\ CheckGroupReserves(c, x).error = "" => CheckGroupReserves(c, x) = c
           /\ Keeps(c, CheckGroupReserves(c, x))
           /\ CheckAccounts(c, x).error = "" => CheckAccounts(c, x) = c
           /\ Keeps(c, CheckAccounts(c, x))
<1>1. \A p : /\ Require(c, p, "InvalidAccountInput").error = ""
                   => Require(c, p, "InvalidAccountInput") = c
             /\ Keeps(c, Require(c, p, "InvalidAccountInput"))
             /\ Require(c, p, "AccountNotInitialized").error = ""
                   => Require(c, p, "AccountNotInitialized") = c
             /\ Keeps(c, Require(c, p, "AccountNotInitialized"))
  BY Required
<1> QED
  BY <1>1 DEF CheckGroupReserves, CheckAccounts

\* Moving tokens and marking as stale touch neither positions nor stakes.
LEMMA Transfers ==
    ASSUME NEW c, Account(c), NEW r, NEW amount
    PROVE  /\ Keeps(c, Pay(c, r, amount)) /\ (Pay(c, r, amount).error = "" => c.error = "")
           /\ Keeps(c, Receive(c, r, amount)) /\ Receive(c, r, amount).error = c.error
           /\ Keeps(c, Stale(c, r)) /\ Stale(c, r).error = c.error
<1>1. Keeps(c, Fail(c, "InsufficientFunds")) /\ Fail(c, "InsufficientFunds").error # ""
  BY Failed
<1>2. \A x : Keeps(c, [c EXCEPT !.bal = x]) /\ [c EXCEPT !.bal = x].error = c.error
  BY DEF Keeps, Account, Fields
<1>3. Keeps(c, c)
  BY DEF Keeps
<1>4. Keeps(c, Pay(c, r, amount)) /\ (Pay(c, r, amount).error = "" => c.error = "")
  BY <1>1, <1>2, <1>3 DEF Pay
<1>5. Keeps(c, Receive(c, r, amount)) /\ Receive(c, r, amount).error = c.error
  BY <1>2, <1>3 DEF Receive
<1>6. Keeps(c, Stale(c, r)) /\ Stale(c, r).error = c.error
  BY DEF Stale, Keeps, Account, Fields
<1> QED
  BY <1>4, <1>5, <1>6

\* A deposit of collateral moves the position in its reserve.
LEMMA DepositMoves ==
    ASSUME NEW c, Sound(c), NEW r, NEW x,
           deposit_obligation_collateral(c, r, x).error = ""
    PROVE  /\ Moved(c, deposit_obligation_collateral(c, r, x), r)
           /\ Leaves(c, deposit_obligation_collateral(c, r, x),
                     <<AddTo(c.deposits, r, x), c.borrows>>)
<1> DEFINE c0 == [c EXCEPT !.resFresh = @ \cup {r}]
           c1 == CheckFresh(c0, r)
           c2 == Require(c1, x > 0, "InvalidAmount")
           p == c2.group = 0 \/ Contains(ReserveGroups[r], c2.group)
           c3 == Require(c2, p, "InconsistentElevationGroup")
           room == HasRoom(c3.deposits, r)
           c4 == Require(c3, room, "ObligationReserveLimit")
           moved == [c4 EXCEPT !.deposits = AddTo(c4.deposits, r, x)]
           d == deposit_obligation_collateral(c, r, x)
<1>1. d = IF c4.error # "" THEN c4 ELSE Stale(moved, r)
  BY DEF deposit_obligation_collateral
<1>2. Keeps(c, c0)
  BY DEF Keeps, Sound, Account, Fields
<1>3. Keeps(c0, c1) /\ (c1.error = "" => c1 = c0 /\ c0.exists)
  BY <1>2, KeepsAccount, CheckedFresh
<1>4. Keeps(c1, c2) /\ (c2.error = "" => c2 = c1)
  BY <1>3, KeepsAccount, Required
<1>5. Keeps(c2, c3) /\ (c3.error = "" => c3 = c2)
  <2> HIDE DEF p, c2
  <2> QED
    BY <1>4, KeepsAccount, Required
<1>6. Keeps(c3, c4) /\ (c4.error = "" => c4 = c3 /\ room)
  <2>1. Account(c3)
    BY <1>5, KeepsAccount
  <2> HIDE DEF c3, room
  <2>2. /\ Fail(c3, "ObligationReserveLimit").error # ""
        /\ Keeps(c3, Fail(c3, "ObligationReserveLimit")) /\ Keeps(c3, c3)
    BY <2>1 DEF Fail, Account, Fields, Keeps
  <2> QED
    BY <2>2 DEF Require
<1> HIDE DEF c0, c1, c2, c3, c4, p, d, room
<1>7. c4.error = ""
  BY <1>1 DEF d
<1>8. c4 = c0 /\ c0.exists /\ HasRoom(c.deposits, r)
  BY <1>2, <1>3, <1>4, <1>5, <1>6, <1>7 DEF Keeps, room
<1>9. /\ Account(moved) /\ moved.deposits = AddTo(c.deposits, r, x)
      /\ moved.stakes = c.stakes /\ moved.exists /\ moved.borrows = c.borrows
      /\ moved.group = c.group /\ moved.referrer = c.referrer
  BY <1>2, <1>8 DEF Keeps, Account, Fields
<1> HIDE DEF moved
<1>10. d = Stale(moved, r) /\ Keeps(moved, d)
  BY <1>1, <1>7, <1>9, Transfers
<1>11. /\ Slots(AddTo(c.deposits, r, x))
       /\ \A q \in Reserves \ {r} : SamePosition(c.deposits, AddTo(c.deposits, r, x), q)
  BY <1>8, AddToOthers DEF Sound
<1>12. Moved(c, d, r)
  BY <1>9, <1>10, <1>11 DEF Moved, Sound, Keeps
<1>13. Leaves(c, d, <<AddTo(c.deposits, r, x), c.borrows>>)
  BY <1>9, <1>10 DEF Leaves, Positions, Keeps
<1> QED
  BY <1>12, <1>13 DEF d

\* So does a deposit of liquidity, once it is paid.
LEMMA DepositAndCollateralMoves ==
    ASSUME NEW c, Sound(c), NEW r, NEW amount,
           deposit_and_collateral(c, r, amount).error = ""
    PROVE  /\ Moved(c, deposit_and_collateral(c, r, amount), r)
           /\ Leaves(c, deposit_and_collateral(c, r, amount),
                     <<AddTo(c.deposits, r, (amount * RateNum) \div RateDen), c.borrows>>)
<1> DEFINE paid == Pay(c, r, amount)
           x == (amount * RateNum) \div RateDen
           d == deposit_obligation_collateral(paid, r, x)
<1>1. deposit_and_collateral(c, r, amount) = IF paid.error # "" THEN paid ELSE d
  BY DEF deposit_and_collateral
<1> HIDE DEF paid, x
<1>2. Keeps(c, paid)
  BY Transfers DEF paid, Sound
<1>3. Sound(paid) /\ Moved(c, paid, r)
  BY <1>2, KeepsSound
<1>4. Moved(paid, d, r) /\ Leaves(paid, d, <<AddTo(paid.deposits, r, x), paid.borrows>>)
  BY <1>1, <1>3, DepositMoves
<1> HIDE DEF d
<1>5. deposit_and_collateral(c, r, amount) = d
  BY <1>1
<1>6. Moved(c, d, r)
  BY <1>3, <1>4, MovedTrans
<1>7. Leaves(c, d, <<AddTo(c.deposits, r, x), c.borrows>>)
  BY <1>2, <1>4 DEF Leaves, Keeps
<1> QED
  BY <1>5, <1>6, <1>7 DEF x

\* Borrowing and repaying move no collateral.
LEMMA BorrowHolds ==
    ASSUME NEW c, Sound(c), NEW r, NEW amount, NEW remaining
    PROVE  LET d == borrow_obligation_liquidity(c, r, amount, remaining)
           IN /\ Holds(c, d)
              /\ d.error = "" => Leaves(c, d, <<c.deposits, AddTo(c.borrows, r, with_borrow_fee(r, amount))>>)
<1> DEFINE c1 == CheckFresh(c, r)
           p2 == ~NoPosition(c1.deposits)
           c2 == Require(c1, p2, "ObligationDepositsEmpty")
           p3 == c2.group = 0 \/ GroupDebtReserve[c2.group] = r
           c3 == Require(c2, p3, "ElevationGroupDebtReserve")
           p4 == ~c3.referrer \/ r \in c3.referrerStates
           c4 == Require(c3, p4, "ReferrerAccountMissing")
           p5 == HasRoom(c4.borrows, r)
           c5 == Require(c4, p5, "ObligationReserveLimit")
           p6 == fee_leaves(BorrowFee[r], amount)
           c6 == Require(c5, p6, "BorrowTooSmall")
           c7 == CheckGroupReserves(c6, remaining)
           owed == with_borrow_fee(r, amount)
           b == AddTo(c7.borrows, r, owed)
           lent == [c7 EXCEPT !.borrows = b]
           d == borrow_obligation_liquidity(c, r, amount, remaining)
<1>1. d = IF c7.error # "" THEN c7 ELSE Receive(Stale(lent, r), r, amount)
  BY DEF borrow_obligation_liquidity
<1> HIDE DEF p2, p3, p4, p5, p6, owed, b, d
<1>2. Keeps(c, c1) /\ (c1.error = "" => c1 = c)
  BY CheckedFresh DEF Sound
<1> HIDE DEF c1
<1>3. Keeps(c1, c2) /\ (c2.error = "" => c2 = c1)
  BY <1>2, KeepsAccount, Required
<1> HIDE DEF c2
<1>4. Keeps(c2, c3) /\ (c3.error = "" => c3 = c2)
  BY <1>3, KeepsAccount, Required
<1> HIDE DEF c3
<1>5. Keeps(c3, c4) /\ (c4.error = "" => c4 = c3)
  BY <1>4, KeepsAccount, Required
<1> HIDE DEF c4
<1>6. Keeps(c4, c5) /\ (c5.error = "" => c5 = c4)
  BY <1>5, KeepsAccount, Required
<1> HIDE DEF c5
<1>7. Keeps(c5, c6) /\ (c6.error = "" => c6 = c5)
  BY <1>6, KeepsAccount, Required
<1> HIDE DEF c6
<1>8. Keeps(c6, c7) /\ (c7.error = "" => c7 = c6)
  BY <1>7, KeepsAccount, CheckedAccounts
<1> HIDE DEF c7
<1>9. Holds(c7, lent)
  BY <1>8 DEF Keeps, Holds, Account, Fields
<1> HIDE DEF lent
<1>10. Keeps(lent, Stale(lent, r)) /\ Keeps(Stale(lent, r), Receive(Stale(lent, r), r, amount))
  BY <1>9, KeepsAccount, Transfers DEF Holds
<1>11. Keeps(c, c7)
  BY <1>2, <1>3, <1>4, <1>5, <1>6, <1>7, <1>8, KeepsTrans
<1>12. Holds(c, c7) /\ Holds(c, Receive(Stale(lent, r), r, amount))
  <2>1. Keeps(lent, Receive(Stale(lent, r), r, amount))
    BY <1>10, KeepsTrans
  <2> HIDE <1>10
  <2> QED
    BY <1>9, <1>11, <2>1 DEF Keeps, Holds
<1>13. Holds(c, d)
  BY <1>1, <1>12
<1>14. ASSUME d.error = "" PROVE Leaves(c, d, <<c.deposits, AddTo(c.borrows, r, owed)>>)
  <2>1. c7.error = ""
    BY <1>1, <1>14
  <2>2. c7 = c /\ d = Receive(Stale(lent, r), r, amount)
    BY <1>1, <1>2, <1>3, <1>4, <1>5, <1>6, <1>7, <1>8, <2>1
  <2>3. Leaves(c, lent, <<c.deposits, b>>)
    BY <1>9, <2>2 DEF lent, Leaves, Positions, Holds, Account, Fields, Sound
  <2>4. Keeps(lent, d)
    BY <1>10, <2>2, KeepsTrans
  <2> QED
    BY <2>2, <2>3, <2>4 DEF Leaves, Positions, Keeps, b
<1> QED
  BY <1>13, <1>14 DEF d, owed

\* A repayment that fails moves none either.
LEMMA RepayHolds ==
    ASSUME NEW c, Sound(c), NEW r, NEW amount, NEW remaining
    PROVE  LET d == repay_obligation_liquidity(c, r, amount, remaining)
           IN /\ Holds(c, d)
              /\ d.error = "" => Leaves(c, d, <<c.deposits, TakeFrom(c.borrows, r, amount)>>)
<1> DEFINE c1 == CheckFresh(c, r)
           p2 == HasPosition(c1.borrows, r)
           c2 == Require(c1, p2, "InvalidObligationLiquidity")
           c3 == CheckGroupReserves(c2, remaining)
           paid == Least(amount, AmountIn(c3.borrows, r))
           b == TakeFrom(c3.borrows, r, amount)
           cleared == [c3 EXCEPT !.borrows = b]
           d == repay_obligation_liquidity(c, r, amount, remaining)
<1>1. d = IF c3.error # "" THEN c3 ELSE Pay(Stale(cleared, r), r, paid)
  BY DEF repay_obligation_liquidity
<1> HIDE DEF p2, paid, b, d
<1>2. Keeps(c, c1) /\ (c1.error = "" => c1 = c)
  BY CheckedFresh DEF Sound
<1> HIDE DEF c1
<1>3. Keeps(c1, c2) /\ (c2.error = "" => c2 = c1)
  BY <1>2, KeepsAccount, Required
<1> HIDE DEF c2
<1>4. Keeps(c2, c3) /\ (c3.error = "" => c3 = c2)
  BY <1>3, KeepsAccount, CheckedAccounts
<1> HIDE DEF c3
<1>5. Holds(c3, cleared)
  BY <1>4 DEF Keeps, Holds, Account, Fields
<1> HIDE DEF cleared
<1>6. Keeps(cleared, Stale(cleared, r)) /\ Keeps(Stale(cleared, r), Pay(Stale(cleared, r), r, paid))
  BY <1>5, KeepsAccount, Transfers DEF Holds
<1>7. Keeps(cleared, Pay(Stale(cleared, r), r, paid))
  BY <1>6, KeepsTrans
<1>8. Holds(c, d)
  <2> HIDE <1>6
  <2>1. Keeps(c, c3)
    BY <1>2, <1>3, <1>4, KeepsTrans
  <2> QED
    BY <1>1, <1>5, <1>7, <2>1 DEF Keeps, Holds
<1>9. ASSUME d.error = "" PROVE Leaves(c, d, <<c.deposits, TakeFrom(c.borrows, r, amount)>>)
  <2>1. c3.error = ""
    BY <1>1, <1>9
  <2>2. c3 = c /\ d = Pay(Stale(cleared, r), r, paid)
    BY <1>1, <1>2, <1>3, <1>4, <2>1
  <2>3. Leaves(c, cleared, <<c.deposits, b>>)
    BY <1>5, <2>2 DEF cleared, Leaves, Positions, Holds, Account, Fields, Sound
  <2> QED
    BY <1>7, <2>2, <2>3 DEF Leaves, Positions, Keeps, b
<1> QED
  BY <1>8, <1>9 DEF d

\* A withdrawal moves the position in its reserve, and closes the obligation only
\* with the last one.
LEMMA WithdrawMoves ==
    ASSUME NEW c, Sound(c), NEW r, NEW amount, withdraw_and_redeem(c, r, amount).error = ""
    PROVE  /\ Moved(c, withdraw_and_redeem(c, r, amount), r)
           /\ Positions(withdraw_and_redeem(c, r, amount))
                 = <<TakeFrom(c.deposits, r, amount), c.borrows>>
           /\ withdraw_and_redeem(c, r, amount).referrer = c.referrer
<1> DEFINE c1 == CheckFresh(c, r)
           c2 == Require(c1, HasPosition(c.deposits, r), "ObligationCollateralEmpty")
           taken == Least(amount, AmountIn(c2.deposits, r))
           left == [c2 EXCEPT !.deposits = TakeFrom(c2.deposits, r, amount)]
           open == ~NoPosition(left.deposits) \/ ~NoPosition(left.borrows)
           group == IF open THEN left.group ELSE 0
           closed == [left EXCEPT !.exists = open, !.group = group]
           out == (taken * RateDen) \div RateNum
           d == withdraw_and_redeem(c, r, amount)
<1>1. d = IF c2.error # "" THEN c2
          ELSE IF NoPosition(left.deposits) /\ open THEN Fail(c2, "WithdrawalTooLarge")
          ELSE Receive(Stale(closed, r), r, out)
  BY DEF withdraw_and_redeem
<1> HIDE DEF taken, out, group, d
<1>2. Account(c) /\ d.error = ""
  BY DEF Sound, d
<1>3. Keeps(c, c1) /\ (c1.error = "" => c1 = c /\ c.exists)
  BY <1>2, CheckedFresh
<1> HIDE DEF c1
<1>4. Keeps(c1, c2) /\ (c2.error = "" => c2 = c1 /\ HasPosition(c.deposits, r))
  <2>1. Account(c1)
    BY <1>3, KeepsAccount
  <2>2. /\ Fail(c1, "ObligationCollateralEmpty").error # ""
        /\ Keeps(c1, Fail(c1, "ObligationCollateralEmpty")) /\ Keeps(c1, c1)
    BY <2>1 DEF Fail, Account, Fields, Keeps
  <2> QED
    BY <2>2 DEF Require
<1>5. c2.error = ""
  <2> HIDE DEF c2, left, open, closed
  <2> QED
    BY <1>1, <1>2
<1>6. c2 = c /\ c.exists /\ HasPosition(c.deposits, r)
  BY <1>3, <1>4, <1>5
<1> HIDE DEF c2
<1>7. Fail(c2, "WithdrawalTooLarge").error # ""
  BY <1>2, <1>6, Failed
<1>8. d = Receive(Stale(closed, r), r, out)
  <2> HIDE DEF left, open, closed
  <2> QED
    BY <1>1, <1>2, <1>5, <1>7
<1>9. /\ Account(left) /\ left.stakes = c.stakes
      /\ left.deposits = TakeFrom(c.deposits, r, amount)
      /\ left.borrows = c.borrows /\ left.referrer = c.referrer
  BY <1>2, <1>6 DEF Account, Fields
<1> HIDE DEF left
<1>10. open \/ NoPosition(left.deposits)
  OBVIOUS
<1>11. Account(closed) /\ closed.stakes = left.stakes /\ closed.deposits = left.deposits
       /\ closed.exists = open /\ closed.borrows = left.borrows /\ closed.referrer = left.referrer
  <2> HIDE DEF open
  <2> QED
    BY <1>9 DEF Account, Fields
<1> HIDE DEF closed
<1>12. closed.exists \/ NoPosition(closed.deposits)
  BY <1>10, <1>11
<1> HIDE DEF open
<1>13. Keeps(closed, Stale(closed, r)) /\ Keeps(Stale(closed, r), d)
  BY <1>8, <1>11, KeepsAccount, Transfers
<1>14. /\ Slots(closed.deposits)
       /\ \A q \in Reserves \ {r} : SamePosition(c.deposits, closed.deposits, q)
  BY <1>6, <1>9, <1>11, TakeFromOthers DEF Sound
<1>15. Moved(c, closed, r)
  BY <1>9, <1>11, <1>12, <1>14 DEF Moved, Sound
<1> QED
  <2>1. Keeps(closed, d)
    BY <1>13, KeepsTrans
  <2>2. Moved(closed, d, r)
    BY <1>15, <2>1, KeepsSound DEF Moved
  <2>3. Moved(c, d, r)
    BY <1>15, <2>2, MovedTrans
  <2>4. /\ Positions(d) = <<TakeFrom(c.deposits, r, amount), c.borrows>>
        /\ d.referrer = c.referrer
    BY <1>9, <1>11, <2>1 DEF Positions, Keeps
  <2> QED
    BY <2>3, <2>4 DEF d

\* A liquidation moves the position in the collateral it takes.
LEMMA LiquidateMoves ==
    ASSUME NEW c, Sound(c), NEW ix, liquidate(c, ix).error = ""
    PROVE  LET x == Least(ix.amount, Least(AmountIn(c.borrows, ix.reserve),
                                           AmountIn(c.deposits, ix.outflow)))
           IN /\ Moved(c, liquidate(c, ix), ix.outflow)
              /\ Leaves(c, liquidate(c, ix), <<TakeFrom(c.deposits, ix.outflow, x),
                                               TakeFrom(c.borrows, ix.reserve, x)>>)
<1> DEFINE owed == ix.reserve
           held == ix.outflow
           c1 == CheckFresh(c, owed)
           fresh == ix.outflow \in c.resFresh
           c2 == Require(c1, fresh, "ReserveStale")
           c3 == Require(c2, HasPosition(c2.borrows, owed), "InvalidObligationLiquidity")
           c4 == Require(c3, HasPosition(c3.deposits, held), "InvalidObligationCollateral")
           c5 == CheckGroupReserves(c4, ix.remaining)
           x == Least(ix.amount, Least(AmountIn(c5.borrows, owed),
                                       AmountIn(c5.deposits, held)))
           b == TakeFrom(c5.borrows, owed, x)
           moved == [c5 EXCEPT !.borrows = b, !.deposits = TakeFrom(c5.deposits, held, x)]
           s1 == Stale(moved, owed)
           s2 == Stale(s1, held)
           s3 == Pay(s2, owed, x)
           d == liquidate(c, ix)
<1>1. d = IF c5.error # "" THEN c5 ELSE Receive(s3, held, x)
  BY DEF liquidate
<1> HIDE DEF x, b, d, fresh, owed, held
<1>2. Account(c) /\ d.error = ""
  BY DEF Sound, d
<1>3. Keeps(c, c1) /\ (c1.error = "" => c1 = c /\ c.exists)
  BY <1>2, CheckedFresh
<1> HIDE DEF c1
<1>4. Keeps(c1, c2) /\ (c2.error = "" => c2 = c1)
  BY <1>3, KeepsAccount, Required
<1> HIDE DEF c2
<1>5. Keeps(c2, c3) /\ (c3.error = "" => c3 = c2)
  <2>1. Account(c2)
    BY <1>4, KeepsAccount
  <2>2. /\ Fail(c2, "InvalidObligationLiquidity").error # ""
        /\ Keeps(c2, Fail(c2, "InvalidObligationLiquidity")) /\ Keeps(c2, c2)
    BY <2>1 DEF Fail, Account, Fields, Keeps
  <2> QED
    BY <2>2 DEF Require
<1> HIDE DEF c3
<1>6. Keeps(c3, c4) /\ (c4.error = "" => c4 = c3 /\ HasPosition(c3.deposits, held))
  <2>1. Account(c3)
    BY <1>5, KeepsAccount
  <2>2. /\ Fail(c3, "InvalidObligationCollateral").error # ""
        /\ Keeps(c3, Fail(c3, "InvalidObligationCollateral")) /\ Keeps(c3, c3)
    BY <2>1 DEF Fail, Account, Fields, Keeps
  <2> QED
    BY <2>2 DEF Require
<1> HIDE DEF c4
<1>7. Keeps(c4, c5) /\ (c5.error = "" => c5 = c4)
  BY <1>6, KeepsAccount, CheckedAccounts
<1> HIDE DEF c5
<1>8. c5.error = "" /\ d = Receive(s3, held, x)
  <2> HIDE DEF s3
  <2> QED
    BY <1>1, <1>2
<1>9. c5 = c /\ c.exists /\ HasPosition(c.deposits, held)
  BY <1>3, <1>4, <1>5, <1>6, <1>7, <1>8
<1>10. /\ Account(moved) /\ moved.exists = c.exists /\ moved.stakes = c.stakes
       /\ moved.deposits = TakeFrom(c.deposits, held, x) /\ moved.borrows = b
       /\ moved.group = c.group /\ moved.referrer = c.referrer
  BY <1>2, <1>9 DEF Account, Fields
<1> HIDE DEF moved
<1>11. /\ Slots(moved.deposits)
       /\ \A q \in Reserves \ {held} : SamePosition(c.deposits, moved.deposits, q)
  BY <1>9, <1>10, TakeFromOthers DEF Sound
<1>12. Moved(c, moved, held)
  BY <1>9, <1>10, <1>11 DEF Moved, Sound
<1>13. Keeps(moved, s1)
  BY <1>10, Transfers
<1> HIDE DEF s1
<1>14. Keeps(s1, s2)
  BY <1>13, KeepsAccount, Transfers
<1> HIDE DEF s2
<1>15. Keeps(s2, s3)
  BY <1>14, KeepsAccount, Transfers
<1> HIDE DEF s3
<1>16. Keeps(s3, d)
  BY <1>8, <1>15, KeepsAccount, Transfers
<1>17. Keeps(moved, d)
  BY <1>13, <1>14, <1>15, <1>16, KeepsTrans
<1>18. Moved(c, d, held)
  BY <1>12, <1>17, KeepsSound, MovedTrans DEF Moved
<1>19. Leaves(c, d, <<TakeFrom(c.deposits, held, x), b>>)
  BY <1>10, <1>17 DEF Leaves, Positions, Keeps
<1>20. /\ b = TakeFrom(c.borrows, owed, x)
       /\ x = Least(ix.amount, Least(AmountIn(c.borrows, owed), AmountIn(c.deposits, held)))
  BY <1>9 DEF b, x
<1> QED
  BY <1>18, <1>19, <1>20 DEF d, held, owed

\* refresh_obligation touches neither positions nor stakes.
LEMMA RefreshKeeps ==
    ASSUME NEW c, Account(c), NEW remaining
    PROVE  Keeps(c, refresh_obligation(c, remaining))
<1>1. \A e : Keeps(c, Fail(c, e))
  BY DEF Fail, Account, Fields, Keeps
<1>2. Keeps(c, [c EXCEPT !.obFresh = TRUE])
  BY DEF Account, Fields, Keeps
<1> QED
  BY <1>1, <1>2 DEF refresh_obligation

\* The refreshes inside repayAndWithdrawAndRedeem.
LEMMA InnerRefreshes ==
    ASSUME NEW c, Account(c), NEW ix, NEW remaining
    PROVE  /\ Keeps(c, RefreshAfterRepay(c, ix))
           /\ Keeps(c, RefreshAfterWithdraw(c, ix, remaining))
<1> DEFINE p == HasPosition(c.borrows, ix.reserve) \/ ix.reserve = ix.outflow
           q == HasPosition(c.deposits, ix.outflow) \/ HasPosition(c.borrows, ix.outflow)
           c1 == IF p THEN [c EXCEPT !.resFresh = @ \cup {ix.reserve}] ELSE c
           c2 == IF q THEN [c EXCEPT !.resFresh = @ \cup {ix.outflow}] ELSE c
           s == IF ~HasPosition(c.deposits, ix.outflow) THEN RemoveFirst(remaining, ix.outflow)
                ELSE remaining
<1>1. /\ RefreshAfterRepay(c, ix) = refresh_obligation(c1, RemainingAfter(c, ix))
      /\ RefreshAfterWithdraw(c, ix, remaining) = refresh_obligation(c2, s)
  BY DEF RefreshAfterRepay, RefreshAfterWithdraw
<1> HIDE DEF s
<1>2. \A x : Keeps(c, [c EXCEPT !.resFresh = x]) /\ Keeps(c, c)
  BY DEF Account, Fields, Keeps
<1>3. Keeps(c, c1) /\ Keeps(c, c2)
  <2> HIDE DEF p, q
  <2> QED
    BY <1>2
<1> HIDE DEF c1, c2
<1>4. Account(c1) /\ Account(c2)
  BY <1>3 DEF Keeps
<1> QED
  BY <1>1, <1>3, <1>4, RefreshKeeps, KeepsTrans

\* A repayment and a withdrawal in one instruction.
LEMMA RepayAndWithdrawMoves ==
    ASSUME NEW c, Sound(c), NEW ix, repay_and_withdraw(c, ix).error = ""
    PROVE  /\ Moved(c, repay_and_withdraw(c, ix), ix.outflow)
           /\ Positions(repay_and_withdraw(c, ix))
                 = <<TakeFrom(c.deposits, ix.outflow, ix.outAmount),
                     TakeFrom(c.borrows, ix.reserve, ix.amount)>>
           /\ repay_and_withdraw(c, ix).referrer = c.referrer
<1> DEFINE repaid == repay_obligation_liquidity(c, ix.reserve, ix.amount, ix.remaining)
           refreshed == RefreshAfterRepay(repaid, ix)
           remaining == RemainingAfter(repaid, ix)
           taken == withdraw_and_redeem(refreshed, ix.outflow, ix.outAmount)
           again == RefreshAfterWithdraw(taken, ix, remaining)
           d == repay_and_withdraw(c, ix)
<1>1. d = IF repaid.error # "" THEN repaid
          ELSE IF refreshed.error # "" THEN refreshed
          ELSE IF taken.error # "" THEN taken
          ELSE IF ~taken.exists THEN taken
          ELSE Stale(again, ix.outflow)
  BY DEF repay_and_withdraw, WithdrawAfterRepay, OnSuccess
<1> DEFINE b == TakeFrom(c.borrows, ix.reserve, ix.amount)
<1>2. Holds(c, repaid) /\ (repaid.error = "" => Leaves(c, repaid, <<c.deposits, b>>))
  BY RepayHolds
<1> HIDE DEF b
<1> HIDE DEF repaid, d
<1>3. Keeps(repaid, refreshed)
  BY <1>2, InnerRefreshes DEF Holds
<1> HIDE DEF refreshed
<1>4. Holds(c, refreshed)
  BY <1>2, <1>3 DEF Holds, Keeps
<1>5. Sound(refreshed) /\ Moved(c, refreshed, ix.outflow)
  BY <1>4, HoldsSound
<1> DEFINE out == TakeFrom(refreshed.deposits, ix.outflow, ix.outAmount)
<1>6. taken.error = "" => /\ Moved(refreshed, taken, ix.outflow)
                          /\ Positions(taken) = <<out, refreshed.borrows>>
                          /\ taken.referrer = refreshed.referrer
  BY <1>5, WithdrawMoves
<1> HIDE DEF taken
<1>7. d.error = ""
  BY DEF d
<1>8. taken.error = "" /\ repaid.error = "" /\ (d = taken \/ d = Stale(again, ix.outflow))
  <2> HIDE DEF again
  <2> QED
    BY <1>1, <1>7
<1>9. Moved(c, taken, ix.outflow) /\ Sound(taken)
  BY <1>5, <1>6, <1>8, MovedTrans DEF Moved
<1>10. Keeps(taken, Stale(again, ix.outflow))
  <2>1. Account(taken)
    BY <1>9 DEF Sound
  <2>2. Keeps(taken, again)
    BY <2>1, InnerRefreshes
  <2> HIDE DEF again
  <2>3. Keeps(again, Stale(again, ix.outflow))
    BY <2>2, KeepsAccount, Transfers
  <2> QED
    BY <2>2, <2>3, KeepsTrans
<1> HIDE DEF again
<1>11. Moved(taken, Stale(again, ix.outflow), ix.outflow)
  BY <1>9, <1>10, KeepsSound
<1>12. Moved(c, d, ix.outflow)
  BY <1>8, <1>9, <1>11, MovedTrans
<1>13. Positions(taken) = <<TakeFrom(c.deposits, ix.outflow, ix.outAmount), b>>
       /\ taken.referrer = c.referrer
  BY <1>2, <1>3, <1>6, <1>8 DEF Leaves, Positions, Keeps
<1>14. Positions(d) = Positions(taken) /\ d.referrer = taken.referrer
  BY <1>8, <1>10 DEF Keeps, Positions
<1> QED
  BY <1>12, <1>13, <1>14 DEF d, b

-----------------------------------------------------------------------------
(* One lending instruction with its farms.                                   *)

\* The collateral whose position a lending instruction may move comes first among
\* its pairs.
First(ix) == Pairs(ix)[1]

\* An instruction concerns one or two reserves.
LEMMA PairsShape ==
    ASSUME NEW ix
    PROVE  \E p, q : Pairs(ix) = <<p>> \/ Pairs(ix) = <<p, q>>
<1>1. \/ Pairs(ix) = <<<<ix.reserve, "Collateral">>>>
      \/ Pairs(ix) = <<<<ix.outflow, "Collateral">>, <<ix.reserve, "Debt">>>>
      \/ Pairs(ix) = <<<<ix.reserve, "Debt">>>>
  BY DEF Pairs
<1> QED
  BY <1>1

\* A collateral farm that comes first is the first that must be refreshed.
LEMMA FirstRequired ==
    ASSUME NEW pairs, NEW p, NEW p2, pairs = <<p>> \/ pairs = <<p, p2>>,
           NEW q \in FarmCollateral, p = <<q, "Collateral">>
    PROVE  /\ Len(RequiredFarms(pairs)) \in Nat \ {0}
           /\ RequiredFarms(pairs)[1] = <<q, "Collateral">>
           /\ <<q, "Collateral">> \in ToSet(RequiredFarms(pairs))
<1>1. FarmOf(p[1], p[2]) # NoFarm
  BY DEF FarmOf, NoFarm
<1> DEFINE s == IF FarmOf(p2[1], p2[2]) = NoFarm THEN <<>> ELSE <<p2>>
<1>2. CASE pairs = <<p>>
  <2>1. Len(pairs) = 1 /\ pairs[1] = p
    BY <1>2
  <2>2. RequiredFarms(pairs) = <<p>>
    BY <1>1, <2>1 DEF RequiredFarms
  <2> QED
    BY <2>2 DEF ToSet
<1>3. CASE pairs = <<p, p2>>
  <2>1. Len(pairs) = 2 /\ pairs[1] = p /\ pairs[2] = p2
    BY <1>3
  <2>2. RequiredFarms(pairs) = <<p>> \o s
    BY <1>1, <2>1 DEF RequiredFarms
  <2> DEFINE S == {p, p2}
  <2>3. p \in S /\ p2 \in S
    OBVIOUS
  <2> HIDE DEF S
  <2>4. <<p>> \in Seq(S) /\ Len(<<p>>) = 1 /\ <<p>>[1] = p
    BY <2>3
  <2>5. s \in Seq(S)
    <3>1. <<>> \in Seq(S) /\ <<p2>> \in Seq(S)
      BY <2>3
    <3> QED
      BY <3>1
  <2> HIDE DEF s
  <2> DEFINE t == <<p>> \o s
  <2>6. t \in Seq(S) /\ Len(t) = 1 + Len(s) /\ t[1] = p
    <3>1. Len(s) \in Nat
      BY <2>5
    <3> QED
      BY <2>4, <2>5, <3>1, ConcatProperties
  <2> HIDE DEF t
  <2>7. Len(t) \in Nat \ {0} /\ DOMAIN t = 1 .. Len(t)
    BY <2>5, <2>6
  <2>8. p \in ToSet(t)
    BY <2>6, <2>7 DEF ToSet
  <2> QED
    BY <2>2, <2>6, <2>7, <2>8 DEF t
<1> QED
  BY <1>2, <1>3

\* In particular for the pairs of an instruction.
LEMMA FirstFarm ==
    ASSUME NEW ix, NEW q \in FarmCollateral, First(ix) = <<q, "Collateral">>
    PROVE  /\ Len(RequiredFarms(Pairs(ix))) \in Nat \ {0}
           /\ RequiredFarms(Pairs(ix))[1] = <<q, "Collateral">>
           /\ <<q, "Collateral">> \in ToSet(RequiredFarms(Pairs(ix)))
<1>1. PICK p, p2 : Pairs(ix) = <<p>> \/ Pairs(ix) = <<p, p2>>
  BY PairsShape
<1>2. p = <<q, "Collateral">>
  BY <1>1 DEF First
<1> QED
  BY <1>1, <1>2, FirstRequired

\* A refresh by the handler puts the farms of its pairs in step and no other out of it.
LEMMA FarmsRefreshed ==
    ASSUME NEW c, Sound(c), NEW pairs, WithFarmsRefreshed(c, pairs).error = ""
    PROVE  LET d == WithFarmsRefreshed(c, pairs)
           IN /\ Sound(d) /\ c.error = "" /\ Leaves(c, d, Positions(c))
              /\ \A q : Follows(c, q) \/ <<q, "Collateral">> \in ToSet(RequiredFarms(pairs))
                          => Follows(d, q)
<1> DEFINE d == WithFarmsRefreshed(c, pairs)
           farms == ToSet(RequiredFarms(pairs))
           users == DOMAIN c.stakes
           S == [f \in users |-> IF f \in farms THEN StakeFor(c, f) ELSE c.stakes[f]]
<1>1. d = IF farms \subseteq users THEN [c EXCEPT !.stakes = S] ELSE Fail(c, "no farm user state")
  BY DEF WithFarmsRefreshed
<1>2. Account(c)
  BY DEF Sound
<1>3. Fail(c, "no farm user state").error # ""
  BY <1>2 DEF Fail, Account, Fields
<1> HIDE DEF farms
<1>4. farms \subseteq users /\ d = [c EXCEPT !.stakes = S]
  <2> HIDE DEF S, d
  <2> QED
    BY <1>1, <1>3 DEF d
<1> HIDE DEF d
<1>5. /\ Account(d) /\ d.deposits = c.deposits /\ d.exists = c.exists
      /\ d.error = c.error /\ d.stakes = S
      /\ d.borrows = c.borrows /\ d.group = c.group /\ d.referrer = c.referrer
  <2> HIDE DEF S
  <2> QED
    BY <1>2, <1>4 DEF Account, Fields
<1>6. Sound(d) /\ c.error = "" /\ Leaves(c, d, Positions(c))
  BY <1>5 DEF Sound, Leaves, Positions, d
<1>7. \A q : StakeFor(d, <<q, "Collateral">>) = StakeFor(c, <<q, "Collateral">>)
  BY <1>5 DEF StakeFor
<1>8. ASSUME NEW q, Follows(c, q) \/ <<q, "Collateral">> \in farms
      PROVE  Follows(d, q)
  <2> DEFINE f == <<q, "Collateral">>
  <2>1. StakeFor(d, f) = StakeFor(c, f)
    BY <1>7
  <2>2. CASE f \in farms
    <3>1. f \in users /\ d.stakes[f] = StakeFor(c, f)
      BY <1>4, <1>5, <2>2
    <3>2. f \in DOMAIN d.stakes
      BY <1>5, <3>1
    <3> QED
      BY <2>1, <3>1, <3>2 DEF Follows
  <2>3. CASE f \notin farms
    <3>1. DOMAIN d.stakes = users /\ (f \in users => d.stakes[f] = c.stakes[f])
      BY <1>5, <2>3
    <3> QED
      BY <1>5, <1>8, <2>1, <2>3, <3>1 DEF Follows
  <2> QED
    BY <2>2, <2>3
<1> QED
  BY <1>6, <1>8 DEF d, farms

\* What a lending instruction does to deposits and borrows.
MoveOf(ix, p) ==
    LET x == Least(ix.amount, Least(AmountIn(p[2], ix.reserve), AmountIn(p[1], ix.outflow)))
    IN CASE ix.ix \in {"depositObligationCollateral", "depositObligationCollateralV2"} ->
                <<AddTo(p[1], ix.reserve, ix.amount), p[2]>>
         [] ix.ix \in {"depositReserveLiquidityAndObligationCollateral",
                       "depositReserveLiquidityAndObligationCollateralV2"} ->
                <<AddTo(p[1], ix.reserve, (ix.amount * RateNum) \div RateDen), p[2]>>
         [] ix.ix \in {"borrowObligationLiquidity", "borrowObligationLiquidityV2"} ->
                <<p[1], AddTo(p[2], ix.reserve, with_borrow_fee(ix.reserve, ix.amount))>>
         [] ix.ix \in {"repayObligationLiquidity", "repayObligationLiquidityV2"} ->
                <<p[1], TakeFrom(p[2], ix.reserve, ix.amount)>>
         [] ix.ix \in {V1Withdraw, V2Withdraw} ->
                <<TakeFrom(p[1], ix.reserve, ix.amount), p[2]>>
         [] ix.ix = "repayAndWithdrawAndRedeem" ->
                <<TakeFrom(p[1], ix.outflow, ix.outAmount), TakeFrom(p[2], ix.reserve, ix.amount)>>
         [] ix.ix \in {V1Liquidate, V2Liquidate} ->
                <<TakeFrom(p[1], ix.outflow, x), TakeFrom(p[2], ix.reserve, x)>>
         [] OTHER -> p

\* What an instruction leaves of the obligation: these positions, the referrer, and the
\* group, unless another one is asked for or a withdrawal may have closed the account.
Withdrawals == {V1Withdraw, V2Withdraw, "repayAndWithdrawAndRedeem"}
Performs(ix, c, d) ==
    /\ Positions(d) = MoveOf(ix, Positions(c))
    /\ d.referrer = c.referrer
    /\ \/ ix.ix \in Withdrawals
       \/ d.group = IF ix.ix = "requestElevationGroup" THEN ix.group ELSE c.group

\* The effect of a lending instruction leaves the stakes alone, and every collateral
\* position but the one of its first pair.
LEMMA EffectMoves ==
    ASSUME NEW c, Sound(c), NEW ix, ix.ix \in V1 \cup V2, Effect(c, ix).error = ""
    PROVE  /\ Sound(Effect(c, ix))
           /\ \A q \in FarmCollateral :
                 Follows(c, q) => Follows(Effect(c, ix), q) \/ First(ix) = <<q, "Collateral">>
           /\ Performs(ix, c, Effect(c, ix))
<1> DEFINE d == Effect(c, ix)
           p == Positions(c)
<1>0. p[1] = c.deposits /\ p[2] = c.borrows
  BY DEF Positions
<1> HIDE DEF p
<1> USE DEF V1, V2, V1Deposits, V2Deposits, V1Withdraw, V2Withdraw, V1Liquidate, V2Liquidate
<1>1. ASSUME NEW r, Moved(c, d, r), First(ix) = <<r, "Collateral">>
      PROVE  Sound(d) /\ \A q \in FarmCollateral :
                            Follows(c, q) => Follows(d, q) \/ First(ix) = <<q, "Collateral">>
  <2> HIDE DEF d
  <2>1. ASSUME NEW q \in FarmCollateral, Follows(c, q), q # r
        PROVE  Follows(d, q)
    BY <1>1, <2>1, MovedFollows
  <2> QED
    BY <1>1, <2>1 DEF Moved
<1>2. CASE ix.ix \in {"depositObligationCollateral", "depositObligationCollateralV2"}
  <2>1. d = deposit_obligation_collateral(c, ix.reserve, ix.amount)
    BY <1>2 DEF Effect
  <2>2. First(ix) = <<ix.reserve, "Collateral">>
    BY <1>2 DEF First, Pairs
  <2>3. Moved(c, d, ix.reserve) /\ Leaves(c, d, <<AddTo(p[1], ix.reserve, ix.amount), p[2]>>)
    BY <1>0, <2>1, DepositMoves
  <2>4. MoveOf(ix, p) = <<AddTo(p[1], ix.reserve, ix.amount), p[2]>>
    BY <1>2 DEF MoveOf
  <2> QED
    BY <1>1, <2>2, <2>3, <2>4 DEF Performs, Leaves, p
<1>3. CASE ix.ix \in {"depositReserveLiquidityAndObligationCollateral",
                      "depositReserveLiquidityAndObligationCollateralV2"}
  <2>1. d = deposit_and_collateral(c, ix.reserve, ix.amount)
        /\ First(ix) = <<ix.reserve, "Collateral">>
    BY <1>3 DEF Effect, First, Pairs
  <2> DEFINE x == (ix.amount * RateNum) \div RateDen
  <2>2. Moved(c, d, ix.reserve) /\ Leaves(c, d, <<AddTo(p[1], ix.reserve, x), p[2]>>)
    BY <1>0, <2>1, DepositAndCollateralMoves
  <2>3. MoveOf(ix, p) = <<AddTo(p[1], ix.reserve, x), p[2]>>
    BY <1>3 DEF MoveOf
  <2> HIDE DEF x
  <2> QED
    BY <1>1, <2>1, <2>2, <2>3 DEF Performs, Leaves, p
<1>4. CASE ix.ix \in {"borrowObligationLiquidity", "borrowObligationLiquidityV2"}
  <2>1. d = borrow_obligation_liquidity(c, ix.reserve, ix.amount, ix.remaining)
    BY <1>4 DEF Effect
  <2>2. /\ Holds(c, d)
        /\ d.error = "" => Leaves(c, d, <<p[1], AddTo(p[2], ix.reserve, with_borrow_fee(ix.reserve, ix.amount))>>)
    BY <1>0, <2>1, BorrowHolds
  <2>3. MoveOf(ix, p) = <<p[1], AddTo(p[2], ix.reserve, with_borrow_fee(ix.reserve, ix.amount))>>
    BY <1>4 DEF MoveOf
  <2> QED
    BY <2>2, <2>3, HoldsSound DEF Performs, Leaves, p
<1>5. CASE ix.ix \in {"repayObligationLiquidity", "repayObligationLiquidityV2"}
  <2>1. d = repay_obligation_liquidity(c, ix.reserve, ix.amount, ix.remaining)
    BY <1>5 DEF Effect
  <2>2. /\ Holds(c, d)
        /\ d.error = "" => Leaves(c, d, <<p[1], TakeFrom(p[2], ix.reserve, ix.amount)>>)
    BY <1>0, <2>1, RepayHolds
  <2>3. MoveOf(ix, p) = <<p[1], TakeFrom(p[2], ix.reserve, ix.amount)>>
    BY <1>5 DEF MoveOf
  <2> QED
    BY <2>2, <2>3, HoldsSound DEF Performs, Leaves, p
<1>6. CASE ix.ix \in {V1Withdraw, V2Withdraw}
  <2>1. d = withdraw_and_redeem(c, ix.reserve, ix.amount)
        /\ First(ix) = <<ix.reserve, "Collateral">>
    BY <1>6 DEF Effect, First, Pairs
  <2>2. /\ Moved(c, d, ix.reserve) /\ d.referrer = c.referrer
        /\ Positions(d) = <<TakeFrom(p[1], ix.reserve, ix.amount), p[2]>>
    <3> DEFINE e == withdraw_and_redeem(c, ix.reserve, ix.amount)
    <3>1. e.error = ""
      BY <2>1
    <3>2. /\ Moved(c, e, ix.reserve) /\ e.referrer = c.referrer
          /\ Positions(e) = <<TakeFrom(c.deposits, ix.reserve, ix.amount), c.borrows>>
      BY <3>1, WithdrawMoves
    <3> HIDE DEF d, e
    <3> QED
      BY <1>0, <2>1, <3>2 DEF d, e
  <2>3. MoveOf(ix, p) = <<TakeFrom(p[1], ix.reserve, ix.amount), p[2]>>
    BY <1>6 DEF MoveOf
  <2> QED
    BY <1>1, <1>6, <2>1, <2>2, <2>3 DEF Performs, Withdrawals, p
<1>7. CASE ix.ix = "repayAndWithdrawAndRedeem"
  <2>1. d = repay_and_withdraw(c, ix) /\ First(ix) = <<ix.outflow, "Collateral">>
    BY <1>7 DEF Effect, First, Pairs
  <2> DEFINE after == <<TakeFrom(p[1], ix.outflow, ix.outAmount), TakeFrom(p[2], ix.reserve, ix.amount)>>
  <2>2. Moved(c, d, ix.outflow) /\ d.referrer = c.referrer /\ Positions(d) = after
    BY <1>0, <2>1, RepayAndWithdrawMoves
  <2>3. MoveOf(ix, p) = after
    BY <1>7 DEF MoveOf
  <2> HIDE DEF after
  <2> QED
    BY <1>1, <1>7, <2>1, <2>2, <2>3 DEF Performs, Withdrawals, p
<1>8. CASE ix.ix \in {V1Liquidate, V2Liquidate}
  <2>1. d = liquidate(c, ix) /\ First(ix) = <<ix.outflow, "Collateral">>
    BY <1>8 DEF Effect, First, Pairs
  <2> DEFINE x == Least(ix.amount, Least(AmountIn(p[2], ix.reserve), AmountIn(p[1], ix.outflow)))
             after == <<TakeFrom(p[1], ix.outflow, x), TakeFrom(p[2], ix.reserve, x)>>
  <2>2. Moved(c, d, ix.outflow) /\ Leaves(c, d, after)
    BY <1>0, <2>1, LiquidateMoves
  <2>3. MoveOf(ix, p) = after
    BY <1>8 DEF MoveOf
  <2> HIDE DEF after
  <2> QED
    BY <1>1, <2>1, <2>2, <2>3 DEF Performs, Leaves, p
<1> QED
  BY <1>2, <1>3, <1>4, <1>5, <1>6, <1>7, <1>8

\* After i instructions of a transaction every stake follows, but for one whose
\* refresh is the next instruction.
InStep(c) == \A q \in FarmCollateral : Follows(c, q)
Steady(ixs, i, c) ==
    /\ Sound(c)
    /\ \A q \in FarmCollateral :
          \/ Follows(c, q)
          \/ i + 1 <= Len(ixs) /\ IsRefreshFarm(ixs[i + 1], <<q, "Collateral">>)

\* What check_refresh makes sure of behind the instruction.
LEMMA CheckedNeighbour ==
    ASSUME NEW ixs, Len(ixs) \in Nat, NEW i \in 1 .. Len(ixs), check_refresh(ixs, i, Pairs(ixs[i])),
           NEW q \in FarmCollateral, First(ixs[i]) = <<q, "Collateral">>
    PROVE  i + 1 <= Len(ixs) /\ IsRefreshFarm(ixs[i + 1], <<q, "Collateral">>)
<1> DEFINE farms == RequiredFarms(Pairs(ixs[i]))
           m == Len(farms)
<1>1. m \in Nat \ {0} /\ farms[1] = <<q, "Collateral">>
  BY FirstFarm
<1>2. i + m <= Len(ixs) /\ \A k \in 1 .. m : IsRefreshFarm(ixs[i + k], farms[k])
  BY DEF check_refresh
<1> HIDE DEF farms
<1>3. 1 \in 1 .. m
  BY <1>1
<1>4. IsRefreshFarm(ixs[i + 1], farms[1])
  BY <1>2, <1>3
<1> QED
  BY <1>1, <1>2, <1>4

\* A lending instruction that succeeds leaves no stake behind that the next instruction
\* does not refresh.
LEMMA LendingSteady ==
    ASSUME NEW c, Sound(c), InStep(c), NEW ixs, Len(ixs) \in Nat, NEW i \in 1 .. Len(ixs),
           ixs[i].ix \in V1 \cup V2, LendingStep(c, ixs, i).error = ""
    PROVE  /\ Steady(ixs, i, LendingStep(c, ixs, i))
           /\ Performs(ixs[i], c, LendingStep(c, ixs, i))
<1> DEFINE ix == ixs[i]
           pairs == Pairs(ix)
           d == LendingStep(c, ixs, i)
           c1 == CheckAccounts(c, ix)
<1>1. Account(c) /\ d.error = ""
  BY DEF Sound
<1>2. Keeps(c, c1) /\ (c1.error = "" => c1 = c)
  BY <1>1, CheckedAccounts
<1>3. CASE ix.ix \in V1
  <2> DEFINE p == check_refresh(ixs, i, pairs)
             c2 == Require(c1, p, "IncorrectInstructionInPosition")
  <2>1. d = IF c2.error # "" THEN c2 ELSE Effect(c2, ix)
    BY <1>3 DEF LendingStep, OnSuccess
  <2> HIDE DEF d, c1
  <2>2. c2.error = "" => c2 = c1 /\ p
    <3>1. Account(c1)
      BY <1>2, KeepsAccount
    <3>2. Fail(c1, "IncorrectInstructionInPosition").error # ""
      BY <3>1 DEF Fail, Account, Fields
    <3> HIDE DEF p
    <3> QED
      BY <3>2 DEF Require
  <2> HIDE DEF c2
  <2>3. c2 = c /\ p /\ d = Effect(c, ix) /\ Effect(c, ix).error = ""
    BY <1>1, <1>2, <2>1, <2>2
  <2> HIDE DEF p
  <2>4. /\ Sound(d) /\ Performs(ix, c, d)
        /\ \A q \in FarmCollateral : Follows(d, q) \/ First(ix) = <<q, "Collateral">>
    BY <1>3, <2>3, EffectMoves DEF InStep
  <2>5. ASSUME NEW q \in FarmCollateral, First(ix) = <<q, "Collateral">>
        PROVE  i + 1 <= Len(ixs) /\ IsRefreshFarm(ixs[i + 1], <<q, "Collateral">>)
    BY <2>3, <2>5, CheckedNeighbour DEF p
  <2> QED
    BY <2>4, <2>5 DEF Steady, d
<1>4. CASE ix.ix \in V2
  <2> DEFINE p == FarmsGiven(ix, pairs)
             c2 == Require(c1, p, "FarmAccountsMissing")
             c3 == WithFarmsRefreshed(c2, pairs)
             c4 == Effect(c3, ix)
             c5 == WithFarmsRefreshed(c4, pairs)
  <2>1. ix.ix \notin V1
    BY <1>4 DEF V1, V2, V1Deposits, V2Deposits, V1Withdraw, V2Withdraw, V1Liquidate, V2Liquidate
  <2>2. d = IF c2.error # "" THEN c2 ELSE IF c3.error # "" THEN c3
            ELSE IF c4.error # "" THEN c4 ELSE c5
    BY <2>1 DEF LendingStep, OnSuccess
  <2> HIDE DEF d, c1
  <2>3. c2.error = "" => c2 = c1
    <3>1. Account(c1)
      BY <1>2, KeepsAccount
    <3>2. Fail(c1, "FarmAccountsMissing").error # ""
      BY <3>1 DEF Fail, Account, Fields
    <3> HIDE DEF p
    <3> QED
      BY <3>2 DEF Require
  <2> HIDE DEF c2
  <2>4. /\ c2 = c /\ c3.error = "" /\ c4.error = "" /\ d = c5 /\ c5.error = ""
    <3> HIDE DEF c3, c4, c5
    <3> QED
      BY <1>1, <1>2, <2>2, <2>3
  <2>5. Sound(c3) /\ InStep(c3) /\ Leaves(c, c3, Positions(c))
    BY <2>4, FarmsRefreshed DEF InStep
  <2> HIDE DEF c3
  <2>6. /\ Sound(c4) /\ Performs(ix, c3, c4)
        /\ \A q \in FarmCollateral : Follows(c4, q) \/ First(ix) = <<q, "Collateral">>
    BY <1>4, <2>4, <2>5, EffectMoves DEF InStep
  <2> HIDE DEF c4
  <2>7. \A q \in FarmCollateral : Follows(c4, q)
                                  \/ <<q, "Collateral">> \in ToSet(RequiredFarms(pairs))
    BY <2>6, FirstFarm
  <2>8. Sound(d) /\ InStep(d) /\ Leaves(c4, d, Positions(c4))
    BY <2>4, <2>6, <2>7, FarmsRefreshed DEF InStep
  <2>9. Performs(ix, c, d)
    <3> HIDE DEF ix
    <3> QED
      BY <2>5, <2>6, <2>8 DEF Performs, Leaves
  <2> QED
    BY <2>8, <2>9 DEF Steady, InStep, d
<1> QED
  BY <1>3, <1>4

-----------------------------------------------------------------------------
(* The other instructions.                                                   *)

\* Asking for an elevation group touches neither positions nor stakes.
LEMMA RequestGroupHolds ==
    ASSUME NEW c, Account(c), NEW g, NEW remaining
    PROVE  LET d == request_elevation_group(c, g, remaining)
           IN /\ Holds(c, d) /\ d.borrows = c.borrows /\ d.referrer = c.referrer
              /\ d.error = "" => d.group = g
<1> DEFINE d == request_elevation_group(c, g, remaining)
           moved == [c EXCEPT !.group = g, !.obFresh = FALSE]
<1>1. ASSUME NEW e, e # "" PROVE Keeps(c, Fail(c, e)) /\ Fail(c, e).error # ""
  BY <1>1, Failed
<1>2. /\ Holds(c, moved) /\ moved.borrows = c.borrows /\ moved.referrer = c.referrer
      /\ moved.group = g
  BY DEF Account, Fields, Holds
<1>3. d = moved \/ \E e : e # "" /\ d = Fail(c, e)
  BY DEF request_elevation_group
<1> HIDE DEF d, moved
<1>4. CASE d = moved
  BY <1>2, <1>4 DEF d
<1>5. CASE \E e : e # "" /\ d = Fail(c, e)
  <2>1. PICK e : e # "" /\ d = Fail(c, e)
    BY <1>5
  <2>2. Keeps(c, d) /\ d.error # ""
    BY <1>1, <2>1
  <2> QED
    BY <2>2 DEF Keeps, Holds, d
<1> QED
  BY <1>3, <1>4, <1>5

\* Deposits into a reserve and what the token programs and the exchange do have no
\* part in the obligation.
LEMMA ReserveStepKeeps ==
    ASSUME NEW c, Account(c), NEW ix
    PROVE  Keeps(c, ReserveStep(c, ix))
<1> DEFINE c1 == CheckAccounts(c, ix)
           c2 == [c1 EXCEPT !.resFresh = @ \ {ix.reserve}]
           out == (ix.amount * RateDen) \div RateNum
           p == ix.reserve \in c1.resFresh
           q == ix.reserve \in c1.referrerStates
           c3 == Require(c1, p, "ReserveStale")
           c4 == Require(c3, q, "ReferrerAccountMissing")
<1>1. ReserveStep(c, ix) \in {c1, Pay(c2, ix.reserve, ix.amount), Receive(c2, ix.reserve, out), c4}
  BY DEF ReserveStep
<1>2. Keeps(c, c1) /\ Account(c1)
  BY CheckedAccounts, KeepsAccount
<1> HIDE DEF c1, out, p, q
<1>3. Keeps(c1, c2)
  BY <1>2 DEF Account, Fields, Keeps
<1> HIDE DEF c2
<1>4. Keeps(c2, Pay(c2, ix.reserve, ix.amount)) /\ Keeps(c2, Receive(c2, ix.reserve, out))
  BY <1>3, KeepsAccount, Transfers
<1>5. Keeps(c1, c3)
  BY <1>2, Required
<1> HIDE DEF c3
<1>6. Keeps(c3, c4)
  BY <1>5, KeepsAccount, Required
<1> HIDE DEF c4
<1>7. /\ Keeps(c, c4) /\ Keeps(c, Pay(c2, ix.reserve, ix.amount))
      /\ Keeps(c, Receive(c2, ix.reserve, out))
  BY <1>2, <1>3, <1>4, <1>5, <1>6 DEF Keeps
<1> QED
  BY <1>1, <1>2, <1>7

\* Neither do the instructions of the token and system programs,
LEMMA TokenStepKeeps ==
    ASSUME NEW c, Account(c), NEW ix
    PROVE  Keeps(c, TokenStep(c, ix))
<1> DEFINE p == ix.account \in c.atas
           c1 == Require(c, p, "AccountNotInitialized")
<1>1. Keeps(c, c1) /\ Keeps(c, c)
  <2> HIDE DEF p
  <2>1. Keeps(c, c1)
    BY Required
  <2> QED
    BY <2>1 DEF Keeps
<1>2. \A x, y : Keeps(c, [c EXCEPT !.atas = x, !.lamports = y])
  BY DEF Account, Fields, Keeps
<1>3. \A x, y : Keeps(c, [c EXCEPT !.lamports = x, !.sol = y])
  BY DEF Account, Fields, Keeps
<1> HIDE DEF c1
<1>4. \A x, y : Keeps(c, [c1 EXCEPT !.bal = x, !.lamports = y])
  BY <1>1 DEF Account, Fields, Keeps
<1>5. \A x, y, z, w : Keeps(c, [c1 EXCEPT !.atas = x, !.sol = y, !.bal = z, !.lamports = w])
  BY <1>1 DEF Account, Fields, Keeps
<1>6. CASE ix.ix = "createAta"
  BY <1>2, <1>6 DEF TokenStep
<1>7. CASE ix.ix = "transferLamports"
  BY <1>3, <1>7 DEF TokenStep
<1>8. CASE ix.ix = "syncNative"
  BY <1>4, <1>8 DEF TokenStep, c1
<1>9. CASE ix.ix = "closeAccount"
  BY <1>5, <1>9 DEF TokenStep, c1
<1>10. CASE ix.ix \notin {"createAta", "transferLamports", "syncNative", "closeAccount"}
  BY <1>1, <1>10 DEF TokenStep
<1> QED
  BY <1>6, <1>7, <1>8, <1>9, <1>10

\* So do the two halves of a flash loan.
LEMMA FlashKeeps ==
    ASSUME NEW c, Account(c), NEW ixs, NEW i
    PROVE  Keeps(c, flash_borrow(c, ixs, i)) /\ Keeps(c, flash_repay(c, ixs, i))
<1> DEFINE ix == ixs[i]
           p == flash_borrow_checks(ixs, i)
           c1 == Require(c, p, "FlashBorrow")
           q == Liquidity(ix.reserve) \in c1.atas
           c2 == Require(c1, q, "AccountNotInitialized")
           c3 == [c2 EXCEPT !.resFresh = @ \ {ix.reserve}]
           p1 == ix.index + 1 \in 1 .. i - 1 /\ Matches(ixs, ix.index + 1, i)
           d1 == Require(c, p1, "InvalidFlashRepay")
           fee == fee_of(FlashFee[ix.reserve], ix.amount)
           q1 == fee_leaves(FlashFee[ix.reserve], ix.amount)
           d2 == Require(d1, q1, "BorrowTooSmall")
           d3 == [d2 EXCEPT !.resFresh = @ \ {ix.reserve}]
           owed == ix.amount + fee
<1>1. flash_borrow(c, ixs, i) \in {c2, Receive(c3, ix.reserve, ix.amount)}
  BY DEF flash_borrow
<1>2. flash_repay(c, ixs, i) \in {d2, Pay(d3, ix.reserve, owed)}
  BY DEF flash_repay
<1> HIDE DEF p, q, p1, fee, q1, owed
<1>3. Keeps(c, c1) /\ Keeps(c, d1)
  BY Required
<1> HIDE DEF c1, d1
<1>4. Keeps(c1, c2) /\ Keeps(d1, d2)
  BY <1>3, KeepsAccount, Required
<1> HIDE DEF c2, d2
<1>5. Keeps(c2, c3) /\ Keeps(d2, d3)
  BY <1>4 DEF Account, Fields, Keeps
<1> HIDE DEF c3, d3
<1>6. Keeps(c3, Receive(c3, ix.reserve, ix.amount)) /\ Keeps(d3, Pay(d3, ix.reserve, owed))
  BY <1>5, KeepsAccount, Transfers
<1>7. Keeps(c, c2) /\ Keeps(c, d2)
  BY <1>3, <1>4, KeepsTrans
<1>8. Keeps(c, c3) /\ Keeps(c, d3)
  BY <1>5, <1>7, KeepsTrans
<1>9. Keeps(c, Receive(c3, ix.reserve, ix.amount)) /\ Keeps(c, Pay(d3, ix.reserve, owed))
  BY <1>6, <1>8, KeepsTrans
<1> QED
  BY <1>1, <1>2, <1>7, <1>9

\* and an exchange.
LEMMA SwapKeeps ==
    ASSUME NEW c, Account(c), NEW ix
    PROVE  Keeps(c, swap_step(c, ix))
<1> DEFINE p == {Liquidity(ix.in), Liquidity(ix.out)} \subseteq c.atas
           c1 == Require(c, p, "AccountNotInitialized")
           c2 == Pay(c1, ix.in, ix.amount)
<1>1. swap_step(c, ix) \in {c2, Receive(c2, ix.out, ix.gives)}
  BY DEF swap_step
<1> HIDE DEF p
<1>2. Keeps(c, c1)
  BY Required
<1> HIDE DEF c1
<1>3. Keeps(c1, c2)
  BY <1>2, KeepsAccount, Transfers
<1> HIDE DEF c2
<1>4. Keeps(c2, Receive(c2, ix.out, ix.gives))
  BY <1>3, KeepsAccount, Transfers
<1>5. Keeps(c, c2)
  BY <1>2, <1>3, KeepsTrans
<1>6. Keeps(c, Receive(c2, ix.out, ix.gives))
  BY <1>4, <1>5, KeepsTrans
<1> QED
  BY <1>1, <1>5, <1>6

\* An obligation is opened without positions, and a farm user is added before there
\* is a position to follow.
LEMMA InitFollows ==
    ASSUME NEW c, Sound(c), InStep(c), NEW ix, InitStep(c, ix).error = ""
    PROVE  /\ Sound(InitStep(c, ix)) /\ InStep(InitStep(c, ix))
           /\ Leaves(c, InitStep(c, ix), Positions(c))
<1> DEFINE d == InitStep(c, ix)
<1>1. Account(c) /\ d.error = ""
  BY DEF Sound
<1>2. CASE ix.ix = "initObligation"
  <2> DEFINE c1 == Require(c, ~c.exists, "already in use")
             c2 == Require(c1, c.metadata, "no user metadata")
  <2>1. d = [c2 EXCEPT !.exists = TRUE, !.obFresh = FALSE]
    BY <1>2 DEF InitStep
  <2> HIDE DEF d
  <2>2. Keeps(c, c1) /\ (c1.error = "" => c1 = c)
    <3> DEFINE p == ~c.exists
    <3> HIDE DEF p
    <3>1. Keeps(c, Require(c, p, "already in use"))
          /\ (Require(c, p, "already in use").error = "" => Require(c, p, "already in use") = c)
      BY <1>1, Required
    <3> QED
      BY <3>1 DEF p
  <2> HIDE DEF c1
  <2>3. Keeps(c1, c2) /\ (c2.error = "" => c2 = c1)
    BY <2>2, KeepsAccount, Required
  <2> HIDE DEF c2
  <2>4. c2.error = ""
    BY <1>1, <2>1, <2>3 DEF Keeps, Account, Fields
  <2>5. /\ Account(d) /\ d.deposits = c.deposits /\ d.stakes = c.stakes /\ d.exists
        /\ d.borrows = c.borrows /\ d.group = c.group /\ d.referrer = c.referrer
    BY <1>1, <2>1, <2>2, <2>3, <2>4 DEF Account, Fields
  <2>6. Sound(d)
    BY <2>5 DEF Sound
  <2>7. ASSUME NEW q \in FarmCollateral PROVE Follows(d, q)
    <3>1. q \in Reserves /\ Follows(c, q)
      BY ReservesAssumption DEF InStep
    <3>2. StakeFor(d, <<q, "Collateral">>) = StakeFor(c, <<q, "Collateral">>)
      BY <2>5, <2>6, <3>1, StakeIsPosition
    <3> QED
      BY <2>5, <3>1, <3>2 DEF Follows
  <2> QED
    BY <2>5, <2>6, <2>7 DEF InStep, Leaves, Positions, d
<1>3. CASE ix.ix \in {"initUserMetadata", "initReferrerTokenState"}
  <2> DEFINE p == ~c.metadata
             q == ix.reserve \notin c.referrerStates
             c1 == Require(c, p, "already in use")
             c2 == Require(c, q, "already in use")
  <2>1. \E x : d \in {[c1 EXCEPT !.metadata = TRUE], [c2 EXCEPT !.referrerStates = x]}
    BY <1>3 DEF InitStep
  <2> HIDE DEF d, p, q
  <2>2. Keeps(c, c1) /\ Keeps(c, c2)
    BY <1>1, Required
  <2> HIDE DEF c1, c2
  <2>3. Keeps(c, d)
    BY <2>1, <2>2 DEF Keeps, Account, Fields
  <2>4. Leaves(c, d, Positions(c))
    BY <2>3 DEF Keeps, Leaves, Positions
  <2> QED
    BY <2>3, <2>4, KeepsSound DEF InStep, d
<1>4. CASE ix.ix \notin {"initObligation", "initUserMetadata", "initReferrerTokenState"}
  <2> DEFINE f == <<ix.reserve, ix.kind>>
             S == [g \in DOMAIN c.stakes \cup {f} |-> IF g = f THEN 0 ELSE c.stakes[g]]
             p == ~c.exists \/ f \in DOMAIN c.stakes
  <2>1. d = IF p THEN Fail(c, "cannot initialize farm user") ELSE [c EXCEPT !.stakes = S]
    BY <1>4 DEF InitStep
  <2>2. Fail(c, "cannot initialize farm user").error # ""
    BY <1>1 DEF Fail, Account, Fields
  <2> HIDE DEF d
  <2>3. ~p /\ d = [c EXCEPT !.stakes = S]
    <3> HIDE DEF p, S
    <3> QED
      BY <1>1, <2>1, <2>2
  <2>4. /\ Account(d) /\ d.deposits = c.deposits /\ d.stakes = S /\ d.exists = c.exists
        /\ d.borrows = c.borrows /\ d.group = c.group /\ d.referrer = c.referrer
    <3> HIDE DEF S
    <3> QED
      BY <1>1, <2>3 DEF Account, Fields
  <2>5. Sound(d)
    BY <2>4 DEF Sound
  <2>6. ASSUME NEW q \in FarmCollateral PROVE Follows(d, q)
    <3> DEFINE g == <<q, "Collateral">>
    <3>1. q \in Reserves /\ Follows(c, q)
      BY ReservesAssumption DEF InStep
    <3>2. StakeFor(d, g) = StakeFor(c, g) /\ StakeFor(d, g) = AmountIn(d.deposits, q)
      BY <2>4, <2>5, <3>1, StakeIsPosition
    <3>3. CASE g = f
      <4>1. g \in DOMAIN d.stakes /\ d.stakes[g] = 0
        BY <2>4, <3>3
      <4>2. ~HasPosition(c.deposits, q)
        BY <2>3, <3>1, <3>3 DEF Follows
      <4>3. AmountIn(d.deposits, q) = 0
        BY <2>4, <4>2 DEF AmountIn, HasPosition
      <4> QED
        BY <3>2, <4>1, <4>3 DEF Follows
    <3>4. CASE g # f
      <4>1. g \in DOMAIN d.stakes <=> g \in DOMAIN c.stakes
        BY <2>4, <3>4
      <4>2. g \in DOMAIN c.stakes => d.stakes[g] = c.stakes[g]
        BY <2>4, <3>4
      <4> QED
        BY <2>4, <3>1, <3>2, <4>1, <4>2 DEF Follows
    <3> QED
      BY <3>3, <3>4
  <2>7. Leaves(c, d, Positions(c))
    BY <2>4 DEF Leaves, Positions
  <2> QED
    BY <2>5, <2>6, <2>7 DEF InStep, d
<1> QED
  BY <1>2, <1>3, <1>4

\* A refresh of a farm puts the stake it names in step and leaves the others alone.
LEMMA RefreshFollows ==
    ASSUME NEW c, Sound(c), NEW ix, refresh_obligation_farms_for_reserve(c, ix).error = "",
           \A q \in FarmCollateral : Follows(c, q) \/ IsRefreshFarm(ix, <<q, "Collateral">>)
    PROVE  /\ Sound(refresh_obligation_farms_for_reserve(c, ix))
           /\ InStep(refresh_obligation_farms_for_reserve(c, ix))
           /\ Leaves(c, refresh_obligation_farms_for_reserve(c, ix), Positions(c))
<1> DEFINE d == refresh_obligation_farms_for_reserve(c, ix)
           f == <<ix.keys[4], ix.kind>>
           v == StakeFor(c, f)
           S == [c.stakes EXCEPT ![f] = v]
           farm == FarmOf(ix.keys[4], ix.kind)
<1>1. d = IF farm = NoFarm THEN Fail(c, "NoFarmForReserve")
          ELSE IF ix.keys[5] # farm THEN Fail(c, "InvalidAccountInput")
          ELSE IF f \notin DOMAIN c.stakes THEN Fail(c, "no farm user state")
          ELSE [c EXCEPT !.stakes = S]
  BY DEF refresh_obligation_farms_for_reserve
<1>2. Account(c) /\ d.error = ""
  BY DEF Sound
<1>3. /\ Fail(c, "NoFarmForReserve").error # "" /\ Fail(c, "InvalidAccountInput").error # ""
      /\ Fail(c, "no farm user state").error # ""
  BY <1>2 DEF Fail, Account, Fields
<1> HIDE DEF d
<1>4. farm # NoFarm /\ ix.keys[5] = farm /\ f \in DOMAIN c.stakes /\ d = [c EXCEPT !.stakes = S]
  <2> HIDE DEF f, S, farm
  <2> QED
    BY <1>1, <1>2, <1>3
<1>5. /\ Account(d) /\ d.deposits = c.deposits /\ d.stakes = S /\ d.exists = c.exists
      /\ d.borrows = c.borrows /\ d.group = c.group /\ d.referrer = c.referrer
  <2> HIDE DEF S
  <2> QED
    BY <1>2, <1>4 DEF Account, Fields
<1>6. Sound(d)
  BY <1>5 DEF Sound
<1>7. ASSUME NEW q \in FarmCollateral PROVE Follows(d, q)
  <2> DEFINE g == <<q, "Collateral">>
  <2>1. StakeFor(d, g) = StakeFor(c, g)
    BY <1>5 DEF StakeFor
  <2>2. CASE g = f
    <3>1. g \in DOMAIN d.stakes /\ d.stakes[g] = v
      <4> HIDE DEF v, f, g
      <4> QED
        BY <1>4, <1>5, <2>2
    <3> QED
      BY <2>1, <2>2, <3>1 DEF Follows
  <2>3. CASE g # f
    <3>1. ASSUME IsRefreshFarm(ix, g) PROVE FALSE
      <4>1. \A k \in {<<2, Obligation>>, <<4, g[1]>>, <<5, FarmOf(g[1], g[2])>>} :
                ix.keys[k[1]] = k[2]
        BY <3>1 DEF IsRefreshFarm, SameKeys
      <4>2. <<4, g[1]>>[1] = 4 /\ <<4, g[1]>>[2] = q
            /\ <<5, FarmOf(g[1], g[2])>>[1] = 5
            /\ <<5, FarmOf(g[1], g[2])>>[2] = FarmOf(q, "Collateral")
        OBVIOUS
      <4>3. ix.keys[4] = q /\ ix.keys[5] = FarmOf(q, "Collateral")
        BY <4>1, <4>2
      <4>4. FarmOf(q, "Collateral") = <<"farm", q, "Collateral">>
        BY DEF FarmOf
      <4>5. farm = <<"farm", q, ix.kind>>
        BY <1>4, <4>3 DEF FarmOf
      <4>6. ix.kind = "Collateral"
        <5>1. <<"farm", q, ix.kind>> = <<"farm", q, "Collateral">>
          <6> HIDE DEF farm
          <6> QED
            BY <1>4, <4>3, <4>4, <4>5
        <5> QED
          BY <5>1
      <4> QED
        BY <2>3, <4>3, <4>6
    <3>2. Follows(c, q)
      BY <3>1
    <3>3. DOMAIN d.stakes = DOMAIN c.stakes /\ (g \in DOMAIN c.stakes => d.stakes[g] = c.stakes[g])
      <4> HIDE DEF v, f, g
      <4> QED
        BY <1>5, <2>3
    <3> QED
      BY <1>5, <2>1, <3>2, <3>3 DEF Follows
  <2> QED
    BY <2>2, <2>3
<1>8. Leaves(c, d, Positions(c))
  BY <1>5 DEF Leaves, Positions
<1> QED
  BY <1>6, <1>7, <1>8 DEF InStep, d

-----------------------------------------------------------------------------
(* A transaction.                                                            *)

\* No error so far.
Succeeds(c) == c.error = ""

\* One instruction of any kind.
LEMMA InstructionSteady ==
    ASSUME NEW ixs, Len(ixs) \in Nat, NEW i \in 1 .. Len(ixs), NEW c, Steady(ixs, i - 1, c),
           Succeeds(c), Succeeds(ExecuteIx(ixs, c, i))
    PROVE  Steady(ixs, i, ExecuteIx(ixs, c, i)) /\ Performs(ixs[i], c, ExecuteIx(ixs, c, i))
<1> DEFINE ix == ixs[i]
           d == ExecuteIx(ixs, c, i)
<1>1. Sound(c) /\ Account(c)
  BY DEF Steady, Sound
<1>2. \A q \in FarmCollateral : Follows(c, q) \/ IsRefreshFarm(ix, <<q, "Collateral">>)
  <2>1. ASSUME NEW m \in Nat, NEW j \in 1 .. m PROVE (j - 1) + 1 = j
    OBVIOUS
  <2>2. (i - 1) + 1 = i
    BY <2>1
  <2> QED
    BY <2>2 DEF Steady
<1>3. ASSUME ix.ix # "refreshObligationFarmsForReserve" PROVE InStep(c)
  BY <1>2, <1>3 DEF IsRefreshFarm, SameKeys, InStep
<1>4. ASSUME Sound(d), InStep(d) PROVE Steady(ixs, i, d)
  BY <1>4 DEF Steady, InStep
<1>a. ASSUME ~(ix.ix \in V1 \cup V2), ix.ix # "requestElevationGroup", Leaves(c, d, Positions(c))
      PROVE  Performs(ix, c, d)
  <2>1. MoveOf(ix, Positions(c)) = Positions(c)
    BY <1>a DEF MoveOf, V1, V2, V1Deposits, V2Deposits, V1Withdraw, V2Withdraw, V1Liquidate,
                V2Liquidate
  <2> HIDE DEF d, ix
  <2> QED
    BY <1>a, <2>1 DEF Performs, Leaves
<1>b. ASSUME Keeps(c, d) PROVE Leaves(c, d, Positions(c))
  BY <1>b DEF Keeps, Leaves, Positions
<1>5. ASSUME ix.ix # "refreshObligationFarmsForReserve", Keeps(c, d) \/ Holds(c, d)
      PROVE  Steady(ixs, i, d)
  <2> HIDE DEF d
  <2>1. InStep(c)
    BY <1>3, <1>5
  <2>2. Sound(d) /\ InStep(d)
    BY <1>1, <1>5, <2>1, KeepsSound, HoldsSound DEF InStep
  <2> QED
    BY <2>2 DEF Steady, InStep
<1>0. c.error = "" /\ d.error = ""
  BY DEF Succeeds
<1> USE DEF V1, V2, V1Deposits, V2Deposits, V1Withdraw, V2Withdraw, V1Liquidate, V2Liquidate
<1>6. CASE ix.ix \in V1 \cup V2
  <2>1. d = LendingStep(c, ixs, i)
    BY <1>0, <1>6 DEF ExecuteIx
  <2>2. InStep(c)
    BY <1>3, <1>6
  <2> QED
    BY <1>0, <1>1, <1>6, <2>1, <2>2, LendingSteady
<1>7. CASE ix.ix = "refreshReserve"
  <2>1. d = [c EXCEPT !.resFresh = @ \cup {ix.keys[1]}]
    BY <1>0, <1>7 DEF ExecuteIx
  <2>2. Keeps(c, d)
    BY <1>1, <2>1 DEF Keeps, Account, Fields
  <2> QED
    BY <1>a, <1>b, <1>5, <1>7, <2>2
<1>8. CASE ix.ix = "refreshObligation"
  <2>1. d = refresh_obligation(c, ix.remaining)
    BY <1>0, <1>8 DEF ExecuteIx
  <2> QED
    BY <1>a, <1>b, <1>1, <1>5, <1>8, <2>1, RefreshKeeps
<1>9. CASE ix.ix = "refreshObligationFarmsForReserve"
  <2>1. d = refresh_obligation_farms_for_reserve(c, ix)
    BY <1>0, <1>9 DEF ExecuteIx
  <2>2. Sound(d) /\ InStep(d) /\ Leaves(c, d, Positions(c))
    BY <1>0, <1>1, <1>2, <2>1, RefreshFollows
  <2> QED
    BY <1>a, <1>4, <1>9, <2>2
<1>10. CASE ix.ix = "requestElevationGroup"
  <2>1. d = request_elevation_group(c, ix.group, ix.remaining)
    BY <1>0, <1>10 DEF ExecuteIx
  <2> DEFINE e == request_elevation_group(c, ix.group, ix.remaining)
  <2>2. /\ Holds(c, e) /\ e.borrows = c.borrows /\ e.referrer = c.referrer
        /\ e.error = "" => e.group = ix.group
    <3>1. \A g, remaining :
             LET f == request_elevation_group(c, g, remaining)
             IN /\ Holds(c, f) /\ f.borrows = c.borrows /\ f.referrer = c.referrer
                /\ f.error = "" => f.group = g
      BY <1>1, RequestGroupHolds, Zenon
    <3> QED
      BY <3>1, Zenon
  <2>3. MoveOf(ix, Positions(c)) = Positions(c)
    BY <1>10 DEF MoveOf
  <2> HIDE DEF d, e
  <2>4. Positions(d) = Positions(c) /\ d.referrer = c.referrer /\ d.group = ix.group
    BY <1>0, <2>1, <2>2 DEF Holds, Positions, e
  <2>5. Performs(ix, c, d)
    BY <1>10, <2>3, <2>4 DEF Performs
  <2> QED
    BY <1>5, <1>10, <2>1, <2>2, <2>5 DEF d, e
<1>11. CASE ix.ix \in {"depositReserveLiquidity", "redeemReserveCollateral", "withdrawReferrerFees"}
  <2>1. d = ReserveStep(c, ix)
    BY <1>0, <1>11 DEF ExecuteIx
  <2> QED
    BY <1>a, <1>b, <1>1, <1>5, <1>11, <2>1, ReserveStepKeeps
<1>12. CASE ix.ix \in {"initObligation", "initUserMetadata", "initReferrerTokenState",
                       "initObligationFarmsForReserve"}
  <2>1. d = InitStep(c, ix)
    BY <1>0, <1>12 DEF ExecuteIx
  <2>2. InStep(c)
    BY <1>3, <1>12
  <2>3. Sound(d) /\ InStep(d) /\ Leaves(c, d, Positions(c))
    BY <1>0, <1>1, <2>1, <2>2, InitFollows
  <2> QED
    BY <1>a, <1>4, <1>12, <2>3
<1>13. CASE ix.ix = "flashBorrowReserveLiquidity"
  <2>1. d = flash_borrow(c, ixs, i)
    BY <1>0, <1>13 DEF ExecuteIx
  <2> QED
    BY <1>a, <1>b, <1>1, <1>5, <1>13, <2>1, FlashKeeps
<1>14. CASE ix.ix = "flashRepayReserveLiquidity"
  <2>1. d = flash_repay(c, ixs, i)
    BY <1>0, <1>14 DEF ExecuteIx
  <2> QED
    BY <1>a, <1>b, <1>1, <1>5, <1>14, <2>1, FlashKeeps
<1>15. CASE ix.ix = "swap"
  <2>1. d = swap_step(c, ix)
    BY <1>0, <1>15 DEF ExecuteIx
  <2> QED
    BY <1>a, <1>b, <1>1, <1>5, <1>15, <2>1, SwapKeeps
<1>16. CASE ~(\/ ix.ix \in V1 \cup V2
              \/ ix.ix \in {"refreshReserve", "refreshObligation",
                            "refreshObligationFarmsForReserve", "requestElevationGroup"}
              \/ ix.ix \in {"depositReserveLiquidity", "redeemReserveCollateral",
                            "withdrawReferrerFees"}
              \/ ix.ix \in {"initObligation", "initUserMetadata", "initReferrerTokenState",
                            "initObligationFarmsForReserve"}
              \/ ix.ix \in {"flashBorrowReserveLiquidity", "flashRepayReserveLiquidity", "swap"})
  <2>1. d = TokenStep(c, ix)
    BY <1>0, <1>16 DEF ExecuteIx
  <2> QED
    BY <1>a, <1>b, <1>1, <1>5, <1>16, <2>1, TokenStepKeeps
<1> QED
  BY <1>6, <1>7, <1>8, <1>9, <1>10, <1>11, <1>12, <1>13, <1>14, <1>15, <1>16

\* What Execute computes one instruction after the other.
ThenIx(d0, ixs, i) == CHOOSE r \in {ExecuteIx(ixs, d, i) : d \in {d0}} : TRUE
\* What the accounts are after each of the first n instructions.
Runs(f, c, ixs, n) ==
    f = [i \in 0 .. n |-> IF i = 0 THEN c ELSE ThenIx(f[i - 1], ixs, i)]

\* That recursion has a solution.
LEMMA RunsExist ==
    ASSUME NEW c, NEW ixs, NEW n \in Nat
    PROVE  \E f : Runs(f, c, ixs, n)
<1> DEFINE T == {k \in Nat : ~ \E f : Runs(f, c, ixs, k)}
<1>1. ASSUME T # {} PROVE FALSE
  <2>1. PICK k \in T : \A m \in T : k <= m
    <3>1. T \in SUBSET Nat
      OBVIOUS
    <3> HIDE DEF T
    <3> QED
      BY <1>1, <3>1, SmallestNat
  <2>2. CASE k = 0
    <3>1. Runs([i \in 0 .. 0 |-> c], c, ixs, 0)
      BY DEF Runs
    <3> QED
      BY <2>2, <3>1
  <2>3. CASE k # 0
    <3>1. k - 1 \in Nat /\ ~(k <= k - 1)
      BY <2>3
    <3>2. PICK f : Runs(f, c, ixs, k - 1)
      BY <2>1, <3>1
    <3> DEFINE g == [i \in 0 .. k |-> IF i = k THEN ThenIx(f[k - 1], ixs, k) ELSE f[i]]
    <3>3. ASSUME NEW i \in 0 .. k
          PROVE  g[i] = IF i = 0 THEN c ELSE ThenIx(g[i - 1], ixs, i)
      <4>1. i # 0 => i - 1 \in 0 .. k /\ i - 1 # k
        BY <3>1
      <4>2. CASE i # k
        <5>1. i \in 0 .. (k - 1) /\ g[i] = f[i]
          BY <3>1, <4>2
        <5>2. f[i] = IF i = 0 THEN c ELSE ThenIx(f[i - 1], ixs, i)
          BY <3>2, <5>1 DEF Runs
        <5> QED
          BY <4>1, <5>1, <5>2
      <4>3. CASE i = k
        BY <2>3, <4>1, <4>3
      <4> QED
        BY <4>2, <4>3
    <3>4. Runs(g, c, ixs, k)
      <4>1. g = [i \in 0 .. k |-> g[i]]
        OBVIOUS
      <4> HIDE DEF g
      <4> QED
        BY <3>3, <4>1 DEF Runs
    <3> QED
      BY <3>4
  <2> QED
    BY <2>2, <2>3
<1> QED
  BY <1>1

\* A transaction is a run of its instructions, each of them after those before it.
LEMMA ExecuteRun ==
    ASSUME NEW c, NEW ixs, Len(ixs) \in Nat
    PROVE  \E f : /\ f[0] = c
                  /\ \A i \in 1 .. Len(ixs) : f[i] = ExecuteIx(ixs, f[i - 1], i)
                  /\ Execute(c, ixs) = Committed(c, f[Len(ixs)])
<1> DEFINE n == Len(ixs)
           f == CHOOSE g : Runs(g, c, ixs, n)
<1>1. Runs(f, c, ixs, n)
  <2>1. \E g : Runs(g, c, ixs, n)
    BY RunsExist
  <2> QED
    BY <2>1, Zenon
<1>2. Execute(c, ixs) = Committed(c, f[n])
  BY DEF Execute, Runs, ThenIx
<1> HIDE DEF f
<1>3. f[0] = c
  BY <1>1 DEF Runs
<1>4. ASSUME NEW i \in 1 .. n PROVE f[i] = ExecuteIx(ixs, f[i - 1], i)
  <2>1. f[i] = CHOOSE r \in {ExecuteIx(ixs, d, i) : d \in {f[i - 1]}} : TRUE
    BY <1>1 DEF Runs, ThenIx
  <2>2. \A x : (CHOOSE r \in {ExecuteIx(ixs, d, i) : d \in {x}} : TRUE) = ExecuteIx(ixs, x, i)
    <3>1. ASSUME NEW x, NEW y PROVE (CHOOSE r \in {y} : TRUE) = y
      OBVIOUS
    <3>2. \A x : {ExecuteIx(ixs, d, i) : d \in {x}} = {ExecuteIx(ixs, x, i)}
      OBVIOUS
    <3> QED
      BY <3>1, <3>2
  <2> QED
    BY <2>1, <2>2
<1> QED
  BY <1>2, <1>3, <1>4

\* Whatever a transaction is made of, it ends with every stake in step, or it fails
\* and changes nothing.
LEMMA TransactionFollows ==
    ASSUME NEW c, Sound(c), InStep(c), Succeeds(c), NEW ixs, Len(ixs) \in Nat
    PROVE  Sound(Execute(c, ixs)) /\ InStep(Execute(c, ixs))
<1> DEFINE n == Len(ixs)
<1>1. PICK f : /\ f[0] = c
               /\ \A i \in 1 .. n : f[i] = ExecuteIx(ixs, f[i - 1], i)
               /\ Execute(c, ixs) = Committed(c, f[n])
  BY ExecuteRun
<1>0. n \in Nat
  OBVIOUS
<1> HIDE DEF n
<1> DEFINE Fine(i) == Succeeds(f[i]) => Steady(ixs, i, f[i])
           T == {i \in 0 .. n : ~Fine(i)}
<1>2. ASSUME T # {} PROVE FALSE
  <2>1. PICK i \in T : \A j \in T : i <= j
    <3>1. T \in SUBSET Nat
      BY <1>0
    <3> HIDE DEF T
    <3> QED
      BY <1>2, <3>1, SmallestNat
  <2>2. i # 0
    BY <1>1 DEF Steady, InStep
  <2>3. i \in 1 .. n /\ i - 1 \in 0 .. n /\ Fine(i - 1)
    BY <1>0, <2>1, <2>2
  <2>4. f[i] = ExecuteIx(ixs, f[i - 1], i)
    BY <1>1, <2>3
  <2>5. Succeeds(f[i - 1])
    <3>1. ASSUME ~Succeeds(f[i - 1]) PROVE FALSE
      <4>1. f[i] = f[i - 1]
        BY <2>4, <3>1 DEF ExecuteIx, Succeeds
      <4> QED
        BY <2>1, <3>1, <4>1
    <3> QED
      BY <3>1
  <2>6. Fine(i)
    BY <2>3, <2>4, <2>5, InstructionSteady DEF n
  <2> QED
    BY <2>1, <2>6
<1>3. Fine(n)
  BY <1>0, <1>2
<1>4. CASE Succeeds(f[n])
  <2>1. Execute(c, ixs) = f[n]
    BY <1>1, <1>4 DEF Committed, Succeeds
  <2>2. Steady(ixs, n, f[n]) /\ ~(n + 1 <= n)
    BY <1>0, <1>3, <1>4
  <2> QED
    BY <2>1, <2>2 DEF Steady, InStep, n
<1>5. CASE ~Succeeds(f[n])
  <2>1. Execute(c, ixs) = [c EXCEPT !.error = f[n].error]
    BY <1>1, <1>5 DEF Committed, Succeeds
  <2>2. Keeps(c, Execute(c, ixs))
    BY <2>1 DEF Sound, Account, Fields, Keeps
  <2> QED
    BY <2>2, KeepsSound DEF InStep
<1> QED
  BY <1>4, <1>5

-----------------------------------------------------------------------------
(* The steps.                                                                *)

\* The accounts of the user between transactions.
FarmInv == Sound(chain) /\ InStep(chain)

\* A new slot, refreshes elsewhere and other balances are no matter of the farms.
LEMMA NowKeeps ==
    ASSUME NEW c, Account(c)
    PROVE  /\ Keeps(c, Now(c)) /\ Succeeds(Now(c))
           /\ Keeps(c, AllFresh(c)) /\ \A x : Keeps(c, [c EXCEPT !.bal = x])
BY DEF Now, AllFresh, Keeps, Account, Fields, Succeeds

\* Accounts that keep what the farms depend on stay in step.
LEMMA KeepsInStep ==
    ASSUME NEW c, Sound(c), InStep(c), NEW d, Keeps(c, d) \/ Holds(c, d)
    PROVE  Sound(d) /\ InStep(d)
BY KeepsSound, HoldsSound DEF InStep

\* A new user has neither positions nor stakes, a user with positions has their stakes.
LEMMA StartFollows ==
    ASSUME Init
    PROVE  FarmInv
<1>1. ASSUME NEW b, chain = EmptyChain(b) PROVE FarmInv
  <2>1. /\ Account(chain)
        /\ chain.deposits = [i \in 1 .. MaxSlots |-> EmptySlot]
        /\ chain.stakes = [f \in {} |-> 0]
    BY <1>1 DEF EmptyChain, Account, Fields
  <2>2. Slots(chain.deposits) /\ NoPosition(chain.deposits)
    BY <2>1 DEF Slots, NoPosition, EmptySlot
  <2>3. ASSUME NEW q \in FarmCollateral PROVE Follows(chain, q)
    <3>1. DOMAIN chain.stakes = {}
      BY <2>1
    <3>2. ~HasPosition(chain.deposits, q)
      BY <2>2, ReservesAssumption DEF NoPosition, HasPosition
    <3> QED
      BY <3>1, <3>2 DEF Follows
  <2> QED
    BY <2>1, <2>2, <2>3 DEF FarmInv, Sound, InStep
<1>2. ASSUME NEW s \in Starts, chain = StartChain(s) PROVE FarmInv
  <2> DEFINE c == [EmptyChain(s.referrer) EXCEPT !.exists = TRUE, !.deposits = s.deposits,
                        !.borrows = s.borrows, !.group = s.group, !.metadata = TRUE]
             users == {f \in Reserves \X Kinds : FarmOf(f[1], f[2]) # NoFarm /\ StakeFor(c, f) > 0}
             S == [f \in users |-> StakeFor(c, f)]
             atas == {Liquidity(r) : r \in Reserves \ NativeReserves}
             states == IF s.referrer THEN ToSet(Keys(s.borrows)) ELSE {}
  <2>1. chain = [c EXCEPT !.stakes = S, !.atas = atas, !.referrerStates = states]
    BY <1>2 DEF StartChain
  <2>2. Account(c) /\ c.exists /\ c.deposits = s.deposits
    BY DEF EmptyChain, Account, Fields
  <2> HIDE DEF c, atas, states
  <2>3. /\ Account(chain) /\ chain.exists /\ chain.deposits = s.deposits /\ chain.stakes = S
    <3> HIDE DEF S
    <3> QED
      BY <2>1, <2>2 DEF Account, Fields
  <2>4. s.deposits \in [1 .. MaxSlots ->
                          {EmptySlot} \cup [reserve : Reserves, amount : Nat \ {0}]]
    BY StartsAssumption DEF Slot
  <2>5. Slots(s.deposits)
    <3>1. ASSUME NEW x, x \in {EmptySlot} \cup [reserve : Reserves, amount : Nat \ {0}]
          PROVE  x = [reserve |-> x.reserve, amount |-> x.amount]
      <4>1. CASE x = EmptySlot
        BY <4>1 DEF EmptySlot
      <4>2. CASE x \in [reserve : Reserves, amount : Nat \ {0}]
        BY <4>2
      <4> QED
        BY <3>1, <4>1, <4>2
    <3>2. DOMAIN s.deposits = 1 .. MaxSlots /\ \A i \in 1 .. MaxSlots :
              s.deposits[i] \in {EmptySlot} \cup [reserve : Reserves, amount : Nat \ {0}]
      BY <2>4
    <3> QED
      BY <3>1, <3>2 DEF Slots
  <2>6. \A f : f[2] = "Collateral" => StakeFor(chain, f) = StakeFor(c, f)
    BY <2>2, <2>3 DEF StakeFor
  <2>7. ASSUME NEW q \in FarmCollateral PROVE Follows(chain, q)
    <3> DEFINE f == <<q, "Collateral">>
    <3>1. /\ q \in Reserves /\ q # NullKey /\ f \in Reserves \X Kinds
          /\ f[1] = q /\ f[2] = "Collateral"
      BY ReservesAssumption DEF Kinds
    <3>2. FarmOf(q, "Collateral") # NoFarm
      BY DEF FarmOf, NoFarm
    <3>3. CASE f \in users
      BY <2>3, <2>6, <3>1, <3>3 DEF Follows
    <3>4. CASE f \notin users
      <4>1. ~(StakeFor(c, f) > 0)
        BY <3>1, <3>2, <3>4
      <4>2. StakeFor(c, f) = AmountIn(s.deposits, q)
        BY <2>2, <3>1 DEF StakeFor
      <4>3. ASSUME HasPosition(s.deposits, q) PROVE AmountIn(s.deposits, q) > 0
        <5> DEFINE In == {i \in DOMAIN s.deposits : s.deposits[i].reserve = q}
        <5>1. In # {}
          BY <4>3 DEF HasPosition
        <5>2. AmountIn(s.deposits, q) = s.deposits[CHOOSE i \in In : TRUE].amount
          BY <5>1 DEF AmountIn
        <5>3. (CHOOSE i \in In : TRUE) \in In
          BY <5>1
        <5>4. ASSUME NEW i \in In PROVE s.deposits[i].amount > 0
          <6>1. i \in 1 .. MaxSlots /\ s.deposits[i].reserve = q
            BY <2>4
          <6>2. s.deposits[i] # EmptySlot
            BY <3>1, <6>1 DEF EmptySlot
          <6>3. s.deposits[i] \in [reserve : Reserves, amount : Nat \ {0}]
            BY <2>4, <6>1, <6>2
          <6> QED
            BY <6>3
        <5> QED
          BY <5>2, <5>3, <5>4
      <4>4. ~HasPosition(chain.deposits, q)
        BY <2>3, <4>1, <4>2, <4>3
      <4>5. f \notin DOMAIN chain.stakes
        BY <2>3, <3>4
      <4> QED
        BY <4>4, <4>5 DEF Follows
    <3> QED
      BY <3>3, <3>4
  <2> QED
    BY <2>3, <2>5, <2>7 DEF FarmInv, Sound, InStep
<1> QED
  BY <1>1, <1>2 DEF Init

\* A transaction that is sent.
LEMMA SendFollows ==
    ASSUME FarmInv, Send
    PROVE  FarmInv'
<1> DEFINE end == Execute(Now(chain), tx.ixs)
<1>1. Len(tx.ixs) \in Nat /\ chain' = [Now(end) EXCEPT !.lamports = 0]
  BY StartsAssumption DEF Send
<1>2. Keeps(chain, Now(chain)) /\ Succeeds(Now(chain))
  BY NowKeeps DEF FarmInv, Sound
<1>3. Sound(Now(chain)) /\ InStep(Now(chain))
  BY <1>2, KeepsInStep DEF FarmInv
<1>4. Sound(end) /\ InStep(end)
  BY <1>1, <1>2, <1>3, TransactionFollows
<1> HIDE DEF end
<1>5. Keeps(end, Now(end))
  BY <1>4, NowKeeps DEF Sound
<1>6. Keeps(end, chain')
  BY <1>1, <1>5 DEF Keeps, Account, Fields
<1> QED
  BY <1>4, <1>6, KeepsInStep DEF FarmInv

\* What happens elsewhere leaves the accounts as another transaction does.
LEMMA ElsewhereFollows ==
    ASSUME NEW c, Sound(c), InStep(c), Elsewhere(c)
    PROVE  FarmInv'
<1>1. chain' = Now(c)
  BY DEF Elsewhere
<1>2. Keeps(c, Now(c))
  BY NowKeeps DEF Sound
<1> QED
  BY <1>1, <1>2, KeepsInStep DEF FarmInv

\* Another device, or a liquidator, moves positions as one lending instruction does, and
\* refreshes the farms of all it moves.
LEMMA LendElsewhereMoves ==
    ASSUME FarmInv, LendElsewhere
    PROVE  \E c, ix : /\ Sound(c) /\ InStep(c) /\ Elsewhere(c)
                      /\ Positions(c) = MoveOf(ix, Positions(chain))
<1> DEFINE fresh == AllFresh(chain)
           funded == Funded(chain)
           Done(ix) == Effect(funded, ix)
           Refreshed(ix) == WithFarmsRefreshed(Done(ix), Pairs(ix))
<1>1. Account(chain) /\ Sound(chain) /\ InStep(chain)
  BY DEF FarmInv, Sound
<1>2. PICK ix \in OtherIxs : /\ Done(ix).error = "" /\ Refreshed(ix).error = ""
                             /\ Elsewhere(LeavingFunds(Refreshed(ix)))
  BY DEF LendElsewhere
<1>3. ix.ix \in V1 \cup V2
  BY DEF OtherIxs, depositReserveLiquidityAndObligationCollateral,
         withdrawObligationCollateralAndRedeemReserveCollateral, borrowObligationLiquidity,
         repayObligationLiquidity, liquidateObligationAndRedeemReserveCollateral, Lending,
         V1, V1Deposits, V1Withdraw, V1Liquidate
<1>4. Keeps(chain, fresh)
  BY <1>1, NowKeeps
<1> HIDE DEF fresh
<1>5. Keeps(fresh, funded)
  BY <1>4, KeepsAccount, NowKeeps DEF Funded, fresh
<1> HIDE DEF funded
<1>6. Sound(funded) /\ InStep(funded) /\ Positions(funded) = Positions(chain)
  <2>1. Keeps(chain, funded)
    BY <1>4, <1>5, KeepsTrans
  <2> QED
    BY <1>1, <2>1, KeepsInStep DEF Keeps, Positions
<1> DEFINE d == Done(ix)
           e == Refreshed(ix)
           c == LeavingFunds(e)
<1>7. /\ Sound(d) /\ Positions(d) = MoveOf(ix, Positions(chain))
      /\ \A q \in FarmCollateral : Follows(d, q) \/ First(ix) = <<q, "Collateral">>
  BY <1>2, <1>3, <1>6, EffectMoves DEF InStep, Performs
<1>8. \A q \in FarmCollateral : Follows(d, q)
                                \/ <<q, "Collateral">> \in ToSet(RequiredFarms(Pairs(ix)))
  BY <1>7, FirstFarm
<1> HIDE DEF Done
<1>9. Sound(e) /\ InStep(e) /\ Leaves(d, e, Positions(d))
  BY <1>2, <1>7, <1>8, FarmsRefreshed DEF InStep
<1> HIDE DEF Refreshed
<1>10. Keeps(e, c)
  BY <1>9, NowKeeps DEF Sound, LeavingFunds
<1>11. Sound(c) /\ InStep(c) /\ Positions(c) = Positions(e)
  BY <1>9, <1>10, KeepsInStep DEF Keeps, Positions
<1> QED
  BY <1>2, <1>7, <1>9, <1>11 DEF Leaves

\* A group asked for elsewhere leaves the positions alone.
LEMMA GroupElsewhereHolds ==
    ASSUME FarmInv, GroupElsewhere
    PROVE  \E c : Holds(chain, c) /\ c.borrows = chain.borrows /\ Elsewhere(c)
<1> DEFINE fresh == AllFresh(chain)
           x == ExpectedRemaining(chain)
<1>1. PICK g : Elsewhere(request_elevation_group(fresh, g, x))
  BY DEF GroupElsewhere
<1>2. Keeps(chain, fresh)
  BY NowKeeps DEF FarmInv, Sound
<1> HIDE DEF fresh, x
<1>3. /\ Holds(fresh, request_elevation_group(fresh, g, x))
      /\ request_elevation_group(fresh, g, x).borrows = fresh.borrows
  BY <1>2, KeepsAccount, RequestGroupHolds
<1> QED
  BY <1>1, <1>2, <1>3 DEF Keeps, Holds

\* A wrapped SOL account made or closed elsewhere is none of the obligation's.
LEMMA WrapElsewhereKeeps ==
    ASSUME FarmInv, WrapElsewhere
    PROVE  \E c : Keeps(chain, c) /\ Elsewhere(c)
<1>1. Account(chain)
  BY DEF FarmInv, Sound
<1>2. PICK r, x, y :
          Elsewhere([chain EXCEPT !.atas = x, !.bal[r] = 0]) \/ Elsewhere([chain EXCEPT !.atas = y])
  BY DEF WrapElsewhere
<1>3. Keeps(chain, [chain EXCEPT !.atas = x, !.bal[r] = 0])
  BY <1>1 DEF Keeps, Account, Fields
<1>4. Keeps(chain, [chain EXCEPT !.atas = y])
  BY <1>1 DEF Keeps, Account, Fields
<1> QED
  BY <1>2, <1>3, <1>4

\* Every step keeps the stakes in step.
LEMMA NextFollows ==
    ASSUME FarmInv, [Next]_vars
    PROVE  FarmInv'
<1>0. Account(chain)
  BY DEF FarmInv, Sound
<1>1. CASE Load
  BY <1>1 DEF Load, FarmInv
<1>2. CASE Build
  BY <1>2 DEF Build, FarmInv
<1>3. CASE Send
  BY <1>3, SendFollows
<1>4. CASE Accrue
  <2>1. PICK i \in 1 .. MaxSlots : Elsewhere([chain EXCEPT !.borrows[i].amount = @ + 1])
    BY <1>4 DEF Accrue
  <2> DEFINE c == [chain EXCEPT !.borrows[i].amount = @ + 1]
  <2>2. Holds(chain, c)
    BY <1>0 DEF Holds, Account, Fields
  <2> HIDE DEF c
  <2>3. Sound(c) /\ InStep(c)
    BY <2>2, KeepsInStep DEF FarmInv
  <2> QED
    BY <2>1, <2>3, ElsewhereFollows DEF c
<1>5. CASE LendElsewhere
  BY <1>5, LendElsewhereMoves, ElsewhereFollows
<1>6. CASE GroupElsewhere
  <2>1. PICK c : Holds(chain, c) /\ Elsewhere(c)
    BY <1>6, GroupElsewhereHolds
  <2> QED
    BY <2>1, KeepsInStep, ElsewhereFollows DEF FarmInv
<1>7. CASE WrapElsewhere
  <2>1. PICK c : Keeps(chain, c) /\ Elsewhere(c)
    BY <1>7, WrapElsewhereKeeps
  <2> QED
    BY <2>1, KeepsInStep, ElsewhereFollows DEF FarmInv
<1>8. CASE UNCHANGED vars
  BY <1>8 DEF vars, FarmInv
<1> QED
  BY <1>1, <1>2, <1>3, <1>4, <1>5, <1>6, <1>7, <1>8 DEF Next

\* The accounts between transactions are sound and their stakes in step.
LEMMA FarmInductive == Spec => []FarmInv
<1>1. Init => FarmInv
  BY StartFollows
<1>2. FarmInv /\ [Next]_vars => FarmInv'
  BY NextFollows
<1> QED
  BY <1>1, <1>2, PTL DEF Spec

\* Whatever transactions the client builds and sends, from however old a view, and
\* whatever happens elsewhere in between: the stake of an obligation in the farm of a
\* collateral reserve is its position there.
THEOREM StakesAlwaysFollow == Spec => []StakesFollowCollateral
<1>1. FarmInv => StakesFollowCollateral
  BY DEF FarmInv, InStep, Follows, StakesFollowCollateral
<1> QED
  BY <1>1, FarmInductive, PTL

-----------------------------------------------------------------------------
(* Lists of reserves, and of instructions that move no position.             *)

List(s) == \E S : s \in Seq(S)

\* The instructions that move positions, and lists that have none of them.
Moves(ix) == ix.ix \in V1 \cup V2
Support(s) == \E S : s \in Seq(S) /\ \A x \in S : ~Moves(x)

\* A sequence over a set is one over a larger set.
LEMMA SeqWider ==
    ASSUME NEW S, NEW T, NEW s \in Seq(S), S \subseteq T
    PROVE  s \in Seq(T)
<1>1. Len(s) \in Nat /\ s = [i \in 1 .. Len(s) |-> s[i]] /\ \A i \in 1 .. Len(s) : s[i] \in T
  BY LenProperties, ElementOfSeq
<1> QED
  BY <1>1, IsASeq

\* What a sequence over a set is.
LEMMA SupportOver ==
    ASSUME NEW S, NEW s \in Seq(S)
    PROVE  List(s) /\ ((\A x \in S : ~Moves(x)) => Support(s))
BY DEF List, Support

\* Two lists after one another are a list,
LEMMA ListConcat ==
    ASSUME NEW s, NEW t, List(s), List(t)
    PROVE  List(s \o t)
<1>1. PICK S : s \in Seq(S)
  BY DEF List
<1>2. PICK T : t \in Seq(T)
  BY DEF List
<1>3. s \in Seq(S \cup T) /\ t \in Seq(S \cup T)
  BY <1>1, <1>2, SeqWider
<1>4. s \o t \in Seq(S \cup T)
  BY <1>3, ConcatProperties
<1> QED
  BY <1>4 DEF List

\* and of quiet lists a quiet one with the elements of both.
LEMMA SupportConcat ==
    ASSUME NEW s, NEW t, Support(s), Support(t)
    PROVE  Support(s \o t) /\ ToSet(s) \subseteq ToSet(s \o t) /\ ToSet(t) \subseteq ToSet(s \o t)
<1>1. PICK S : s \in Seq(S) /\ \A x \in S : ~Moves(x)
  BY DEF Support
<1>2. PICK T : t \in Seq(T) /\ \A x \in T : ~Moves(x)
  BY DEF Support
<1>3. s \in Seq(S \cup T) /\ t \in Seq(S \cup T)
  BY <1>1, <1>2, SeqWider
<1>4. s \o t \in Seq(S \cup T)
  BY <1>3, ConcatProperties
<1>5. \A x \in S \cup T : ~Moves(x)
  BY <1>1, <1>2
<1>6. Support(s \o t)
  BY <1>4, <1>5 DEF Support
<1>7. ASSUME NEW i \in DOMAIN s PROVE \E j \in DOMAIN (s \o t) : (s \o t)[j] = s[i]
  <2>1. i \in 1 .. Len(s) /\ i \in DOMAIN (s \o t) /\ (s \o t)[i] = s[i]
    BY <1>3, <1>4
  <2> QED
    BY <2>1
<1>8. ASSUME NEW i \in DOMAIN t PROVE \E j \in DOMAIN (s \o t) : (s \o t)[j] = t[i]
  <2>1. i + Len(s) \in DOMAIN (s \o t) /\ (s \o t)[i + Len(s)] = t[i]
    BY <1>3, <1>4
  <2> QED
    BY <2>1
<1> QED
  BY <1>6, <1>7, <1>8 DEF ToSet

\* Lists of no and of one element.
LEMMA SupportFew ==
    /\ List(<<>>) /\ Support(<<>>)
    /\ \A x : List(<<x>>)
    /\ \A x : ~Moves(x) => Support(<<x>>)
<1>2. ASSUME NEW x PROVE <<x>> \in Seq({x})
  OBVIOUS
<1>3. List(<<>>) /\ Support(<<>>)
  <2> DEFINE s == <<>>
             S == {}
  <2>1. s \in Seq(S) /\ \A y \in S : ~Moves(y)
    OBVIOUS
  <2> HIDE DEF s, S
  <2>2. List(s) /\ Support(s)
    BY <2>1, SupportOver
  <2> QED
    BY <2>2 DEF s
<1>4. ASSUME NEW x PROVE List(<<x>>) /\ (~Moves(x) => Support(<<x>>))
  <2> DEFINE s == <<x>>
             S == {x}
  <2>1. s \in Seq(S) /\ (~Moves(x) => \A y \in S : ~Moves(y))
    BY <1>2
  <2> HIDE DEF s, S
  <2>2. List(s) /\ (~Moves(x) => Support(s))
    BY <2>1, SupportOver
  <2> QED
    BY <2>2 DEF s
<1> QED
  BY <1>3, <1>4

\* Lists of two.
LEMMA SupportTwo ==
    ASSUME NEW x, NEW y
    PROVE  List(<<x, y>>) /\ (~Moves(x) /\ ~Moves(y) => Support(<<x, y>>))
<1> DEFINE s == <<x, y>>
           S == {x, y}
<1>1. s \in Seq(S) /\ (~Moves(x) /\ ~Moves(y) => \A z \in S : ~Moves(z))
  OBVIOUS
<1> HIDE DEF s, S
<1>2. List(s) /\ (~Moves(x) /\ ~Moves(y) => Support(s))
  BY <1>1, SupportOver
<1> QED
  BY <1>2 DEF s

\* One instruction for each element of a list.
LEMMA SupportMap ==
    ASSUME NEW s, List(s), NEW t, t = [i \in DOMAIN s |-> t[i]], \A i \in DOMAIN s : ~Moves(t[i])
    PROVE  Support(t)
<1>1. PICK S : s \in Seq(S)
  BY DEF List
<1> DEFINE T == {t[i] : i \in DOMAIN s}
<1>2. DOMAIN s = 1 .. Len(s) /\ Len(s) \in Nat
  BY <1>1, LenProperties
<1>3. t \in Seq(T)
  <2>1. \A i \in 1 .. Len(s) : t[i] \in T
    BY <1>2
  <2> HIDE DEF T
  <2> QED
    BY <1>2, <2>1, IsASeq
<1>4. \A x \in T : ~Moves(x)
  OBVIOUS
<1> QED
  BY <1>3, <1>4 DEF Support

\* What is left of a list when elements are dropped.
LEMMA ListSub ==
    ASSUME NEW s, List(s), NEW S
    PROVE  List(Kept(s, S)) /\ List(Without(s, S)) /\ List(PublicKeySet(s))
<1>1. PICK A : s \in Seq(A)
  BY DEF List
<1>2. List(Kept(s, S))
  <2> DEFINE t == [i \in DOMAIN s |-> IF s[i] \in S THEN <<s[i]>> ELSE <<>>]
  <2>1. t = [i \in DOMAIN s |-> t[i]]
    OBVIOUS
  <2>2. \A i \in DOMAIN s : t[i] = <<>> \/ (t[i] = <<s[i]>> /\ s[i] \in A)
    BY <1>1
  <2>3. Kept(s, S) = FlattenSeq(t)
    BY DEF Kept
  <2> HIDE DEF t
  <2>4. FlattenSeq(t) \in Seq(A \cap A)
    BY <1>1, <2>1, <2>2, SublistType
  <2> QED
    BY <2>3, <2>4 DEF List
<1>3. List(Without(s, S))
  <2> DEFINE t == [i \in DOMAIN s |-> IF s[i] \in S THEN <<>> ELSE <<s[i]>>]
  <2>1. t = [i \in DOMAIN s |-> t[i]]
    OBVIOUS
  <2>2. \A i \in DOMAIN s : t[i] = <<>> \/ (t[i] = <<s[i]>> /\ s[i] \in A)
    BY <1>1
  <2>3. Without(s, S) = FlattenSeq(t)
    BY DEF Without
  <2> HIDE DEF t
  <2>4. FlattenSeq(t) \in Seq(A \cap A)
    BY <1>1, <2>1, <2>2, SublistType
  <2> QED
    BY <2>3, <2>4 DEF List
<1>4. List(PublicKeySet(s))
  <2> DEFINE t == [i \in DOMAIN s |->
                     IF \E j \in 1 .. i - 1 : s[j] = s[i] THEN <<>> ELSE <<s[i]>>]
  <2>1. t = [i \in DOMAIN s |-> t[i]]
    OBVIOUS
  <2>2. \A i \in DOMAIN s : t[i] = <<>> \/ (t[i] = <<s[i]>> /\ s[i] \in A)
    BY <1>1
  <2>3. PublicKeySet(s) = FlattenSeq(t)
    BY DEF PublicKeySet
  <2> HIDE DEF t
  <2>4. FlattenSeq(t) \in Seq(A \cap A)
    BY <1>1, <2>1, <2>2, SublistType
  <2> QED
    BY <2>3, <2>4 DEF List
<1> QED
  BY <1>2, <1>3, <1>4

\* The reserves of the slots of an account.
LEMMA KeysList ==
    ASSUME NEW s, DOMAIN s = 1 .. MaxSlots
    PROVE  List(Keys(s))
<1> DEFINE t == [i \in DOMAIN s |-> s[i].reserve]
           T == {t[i] : i \in 1 .. MaxSlots}
<1>1. t = [i \in 1 .. MaxSlots |-> t[i]] /\ \A i \in 1 .. MaxSlots : t[i] \in T
  OBVIOUS
<1>2. Keys(s) = Without(t, {NullKey})
  BY DEF Keys
<1> HIDE DEF t, T
<1>3. t \in Seq(T)
  BY <1>1, IsASeq, SlotsAssumption
<1> QED
  BY <1>2, <1>3, ListSub DEF List

\* The instructions around the lending ones move no position.
LEMMA NoMoves ==
    /\ \A r : ~Moves(refreshReserve(r))
    /\ \A rem : ~Moves(refreshObligation(rem))
    /\ \A g, rem : ~Moves(requestElevationGroup(g, rem))
    /\ \A r, k, crank : ~Moves(refreshObligationFarmsForReserve(r, k, crank))
    /\ \A r, k : ~Moves(initObligationFarmsForReserve(r, k))
    /\ ~Moves(initObligation)
    /\ \A lut, ref : ~Moves(initUserMetadata(lut, ref))
    /\ \A r : ~Moves(initReferrerTokenState(r))
    /\ \A x : ~Moves(createAta(x)) /\ ~Moves(syncNative(x)) /\ ~Moves(closeAccount(x))
    /\ \A x, n : ~Moves(transferLamports(x, n))
    /\ ~Moves(computeBudget) /\ ~Moves(createLookupTable)
    /\ \A rs : ~Moves(refreshScopePrices(rs))
<1> DEFINE Names == {"refreshReserve", "refreshObligation", "requestElevationGroup",
                     "refreshObligationFarmsForReserve", "initObligationFarmsForReserve",
                     "initObligation", "initUserMetadata", "initReferrerTokenState", "createAta",
                     "syncNative", "closeAccount", "transferLamports", "computeBudget",
                     "createLookupTable", "refreshScopePrices"}
<1>1. Names \cap (V1 \cup V2) = {}
  BY DEF V1, V2, V1Deposits, V2Deposits, V1Withdraw, V2Withdraw, V1Liquidate, V2Liquidate
<1>2. ASSUME NEW x, x.ix \in Names PROVE ~Moves(x)
  <2> HIDE DEF Names
  <2> QED
    BY <1>1, <1>2 DEF Moves
<1>3. /\ \A r : refreshReserve(r).ix \in Names
      /\ \A rem : refreshObligation(rem).ix \in Names
      /\ \A g, rem : requestElevationGroup(g, rem).ix \in Names
      /\ \A r, k, crank : refreshObligationFarmsForReserve(r, k, crank).ix \in Names
      /\ \A r, k : initObligationFarmsForReserve(r, k).ix \in Names
  BY DEF refreshReserve, refreshObligation, requestElevationGroup,
         refreshObligationFarmsForReserve, initObligationFarmsForReserve
<1>4. /\ initObligation.ix \in Names
      /\ \A lut, ref : initUserMetadata(lut, ref).ix \in Names
      /\ \A r : initReferrerTokenState(r).ix \in Names
      /\ \A x : createAta(x).ix \in Names /\ syncNative(x).ix \in Names /\ closeAccount(x).ix \in Names
      /\ \A x, n : transferLamports(x, n).ix \in Names
      /\ computeBudget.ix \in Names /\ createLookupTable.ix \in Names
      /\ \A rs : refreshScopePrices(rs).ix \in Names
  BY DEF initObligation, initUserMetadata, initReferrerTokenState, createAta, syncNative,
         closeAccount, transferLamports, computeBudget, createLookupTable, refreshScopePrices
<1> QED
  BY <1>2, <1>3, <1>4

-----------------------------------------------------------------------------
(* An action under construction.                                             *)

Places == {"budget", "setup", "inBetween", "cleanup", "farmsCleanup"}
Fixed == {"q", "ob", "rpc", "reserve", "outflow", "amount", "outAmount", "referrer", "lending",
          "borrowReserves"}
ActionFields == Places \cup Fixed \cup {"error", "depositReserves", "preLoaded", "potentialGroup"}

\* Around the lending instructions there are only such that move nothing.
Framed(a) ==
    /\ DOMAIN a = ActionFields
    /\ \A w \in Places : Support(a[w])
    /\ List(a.depositReserves) /\ List(a.borrowReserves) /\ List(a.preLoaded)

\* Only what surrounds the lending instructions has been added to.
Frames(a, b) ==
    /\ Framed(b)
    /\ \A w \in Fixed : b[w] = a[w]
    /\ b.error = a.error \/ ~Succeeds(b)
    /\ ToSet(a.setup) \subseteq ToSet(b.setup)
    /\ b.preLoaded = a.preLoaded
    /\ a.preLoaded = <<>> => b.depositReserves = a.depositReserves

\* Adding nothing, and one thing after another.
LEMMA FramesSelf ==
    ASSUME NEW a, Framed(a)
    PROVE  Frames(a, a)
BY DEF Frames

\* What surrounds the lending instructions stays quiet.
LEMMA FramesFramed ==
    ASSUME NEW a, NEW b, Frames(a, b)
    PROVE  Framed(b)
BY DEF Frames

\* Additions one after the other are an addition.
LEMMA FramesTrans ==
    ASSUME NEW a, NEW b, NEW c, Frames(a, b), Frames(b, c)
    PROVE  Frames(a, c) /\ Framed(b) /\ Framed(c)
<1>1. c.error = a.error \/ ~Succeeds(c)
  <2>1. c.error = b.error => (Succeeds(b) <=> Succeeds(c))
    BY DEF Succeeds
  <2> QED
    BY <2>1 DEF Frames
<1> QED
  BY <1>1 DEF Frames

\* Instructions pushed to a list,
LEMMA PushFrames ==
    ASSUME NEW a, Framed(a), NEW where \in Places, NEW ixs, Support(ixs)
    PROVE  Frames(a, Push(a, where, ixs)) /\ Frames(a, Unshift(a, ixs))
<1>1. Frames(a, Push(a, where, ixs))
  <2> DEFINE b == Push(a, where, ixs)
  <2>1. DOMAIN b = ActionFields /\ b[where] = a[where] \o ixs
        /\ \A w \in ActionFields : w # where => b[w] = a[w]
    BY DEF Push, Framed, ActionFields
  <2> HIDE DEF b
  <2>2. Support(a[where] \o ixs) /\ ToSet(a[where]) \subseteq ToSet(a[where] \o ixs)
    BY SupportConcat DEF Framed
  <2>3. \A w \in Places : Support(b[w]) /\ ToSet(a[w]) \subseteq ToSet(b[w])
    BY <2>1, <2>2 DEF Framed, ActionFields
  <2>4. \A w \in ActionFields \ Places : b[w] = a[w]
    BY <2>1
  <2>5. /\ b["error"] = a["error"] /\ b["preLoaded"] = a["preLoaded"]
        /\ b["depositReserves"] = a["depositReserves"]
        /\ \A w \in Fixed : b[w] = a[w]
    BY <2>4 DEF ActionFields, Places, Fixed
  <2>6. "setup" \in Places
    BY DEF Places
  <2>7. List(b.borrowReserves)
    BY <2>5 DEF Framed, Fixed
  <2> QED
    BY <2>1, <2>3, <2>5, <2>6, <2>7 DEF Framed, Frames, b
<1>2. Frames(a, Unshift(a, ixs))
  <2> DEFINE b == Unshift(a, ixs)
             s == "setup"
  <2>1. DOMAIN b = ActionFields /\ b[s] = ixs \o a[s]
        /\ \A w \in ActionFields : w # s => b[w] = a[w]
    BY DEF Unshift, Framed, ActionFields, Places
  <2> HIDE DEF b, s
  <2>0. s \in Places
    BY DEF Places, s
  <2>2. Support(ixs \o a[s]) /\ ToSet(a[s]) \subseteq ToSet(ixs \o a[s])
    BY <2>0, SupportConcat DEF Framed
  <2>3. \A w \in Places : Support(b[w]) /\ ToSet(a[w]) \subseteq ToSet(b[w])
    BY <2>1, <2>2 DEF Framed, ActionFields
  <2>4. \A w \in ActionFields \ Places : b[w] = a[w]
    BY <2>0, <2>1
  <2>5. /\ b["error"] = a["error"] /\ b["preLoaded"] = a["preLoaded"]
        /\ b["depositReserves"] = a["depositReserves"]
        /\ \A w \in Fixed : b[w] = a[w]
    BY <2>4 DEF ActionFields, Places, Fixed
  <2>6. "setup" \in Places
    BY DEF Places
  <2>7. List(b.borrowReserves)
    BY <2>5 DEF Framed, Fixed
  <2> QED
    BY <2>1, <2>3, <2>5, <2>6, <2>7 DEF Framed, Frames, b
<1> QED
  BY <1>1, <1>2

\* an exception,
LEMMA ThrowFrames ==
    ASSUME NEW a, Framed(a), NEW m, m # ""
    PROVE  Frames(a, Throw(a, m)) /\ ~Succeeds(Throw(a, m))
<1> DEFINE b == [a EXCEPT !.error = m]
<1>1. DOMAIN b = ActionFields /\ b.error = m /\ \A w \in ActionFields : w # "error" => b[w] = a[w]
  BY DEF Framed, ActionFields
<1> HIDE DEF b
<1>2. Framed(b) /\ (\A w \in Fixed : b[w] = a[w]) /\ b.setup = a.setup
      /\ b.preLoaded = a.preLoaded /\ b.depositReserves = a.depositReserves
  <2>1. \A w \in Places \cup Fixed : b[w] = a[w]
    BY <1>1 DEF ActionFields, Places, Fixed
  <2>2. b["setup"] = a["setup"] /\ b["preLoaded"] = a["preLoaded"]
        /\ b["depositReserves"] = a["depositReserves"] /\ b["borrowReserves"] = a["borrowReserves"]
    BY <1>1 DEF ActionFields, Places, Fixed
  <2> QED
    BY <1>1, <2>1, <2>2 DEF Framed
<1>3. ~Succeeds(b)
  BY <1>1 DEF Succeeds
<1>4. Frames(a, b)
  BY <1>2, <1>3 DEF Frames
<1>5. Throw(a, m) = IF Succeeds(a) THEN b ELSE a
  BY DEF Throw, Succeeds, b
<1> QED
  BY <1>3, <1>4, <1>5, FramesSelf

\* and the list of deposit reserves brought up to date.
LEMMA AdditionalFrames ==
    ASSUME NEW a, Framed(a)
    PROVE  Frames(a, getAdditionalDepositReservesList(a))
<1> DEFINE more == Without(a.preLoaded, ToSet(a.depositReserves))
           b == getAdditionalDepositReservesList(a)
<1>1. b = [a EXCEPT !.depositReserves = @ \o more]
  BY DEF getAdditionalDepositReservesList
<1>2. List(more) /\ (a.preLoaded = <<>> => more = <<>>)
  <2>1. List(more)
    BY ListSub DEF Framed
  <2>2. ASSUME a.preLoaded = <<>> PROVE more = <<>>
    <3> DEFINE S == ToSet(a.depositReserves)
    <3>1. more = Without(<<>>, S)
      BY <2>2
    <3> HIDE DEF S
    <3>2. Without(<<>>, S) = <<>>
      BY DEF Without, FlattenSeq
    <3> QED
      BY <3>1, <3>2
  <2> QED
    BY <2>1, <2>2
<1> HIDE DEF more, b
<1>3. /\ DOMAIN b = ActionFields /\ b.depositReserves = a.depositReserves \o more
      /\ \A w \in ActionFields : w # "depositReserves" => b[w] = a[w]
  BY <1>1 DEF Framed, ActionFields
<1>4. List(a.depositReserves \o more)
  BY <1>2, ListConcat DEF Framed
<1>5. ASSUME a.preLoaded = <<>> PROVE b.depositReserves = a.depositReserves
  <2>1. PICK S : a.depositReserves \in Seq(S)
    BY DEF Framed, List
  <2> QED
    BY <1>2, <1>3, <1>5, <2>1, ConcatEmptySeq
<1>6. \A w \in Places \cup Fixed : b[w] = a[w]
  BY <1>3 DEF ActionFields, Places, Fixed
<1>7. b["setup"] = a["setup"] /\ b["preLoaded"] = a["preLoaded"] /\ b["error"] = a["error"]
      /\ b["borrowReserves"] = a["borrowReserves"]
  BY <1>3 DEF ActionFields, Places, Fixed
<1>8. Framed(b)
  BY <1>3, <1>4, <1>6, <1>7 DEF Framed
<1> QED
  BY <1>5, <1>6, <1>7, <1>8 DEF Frames, b

\* Refreshes of reserves and of the obligation, and requests for a group.
LEMMA RefreshReserveFrames ==
    ASSUME NEW a, Framed(a), NEW reserves, List(reserves), NEW where \in Places
    PROVE  Frames(a, addRefreshReserveIxs(a, reserves, where))
<1> DEFINE t == [i \in DOMAIN reserves |-> refreshReserve(reserves[i])]
<1>1. t = [i \in DOMAIN reserves |-> t[i]] /\ \A i \in DOMAIN reserves : ~Moves(t[i])
  BY NoMoves
<1>2. addRefreshReserveIxs(a, reserves, where) = Push(a, where, t)
  BY DEF addRefreshReserveIxs
<1> HIDE DEF t
<1>3. Support(t)
  BY <1>1, SupportMap
<1> QED
  BY <1>2, <1>3, PushFrames

\* A refresh of the obligation and a request for a group.
LEMMA RefreshObligationFrames ==
    ASSUME NEW a, Framed(a), NEW where \in Places, NEW skip, NEW g
    PROVE  /\ Frames(a, addRefreshObligationIx(a, where, skip))
           /\ Frames(a, addRequestElevationIx(a, g, where, skip))
<1> DEFINE b == getAdditionalDepositReservesList(a)
           x == refreshObligation(ObligationRemaining(b, skip))
           y == requestElevationGroup(g, ObligationRemaining(b, skip))
<1>1. Frames(a, b) /\ Framed(b)
  BY AdditionalFrames DEF Frames
<1>2. Support(<<x>>) /\ Support(<<y>>)
  BY NoMoves, SupportFew
<1>3. addRefreshObligationIx(a, where, skip) = Push(b, where, <<x>>)
  BY DEF addRefreshObligationIx
<1>4. addRequestElevationIx(a, g, where, skip) = Push(b, where, <<y>>)
  BY DEF addRequestElevationIx
<1> HIDE DEF b, x, y
<1>5. Frames(b, Push(b, where, <<x>>)) /\ Frames(b, Push(b, where, <<y>>))
  BY <1>1, <1>2, PushFrames
<1> QED
  BY <1>1, <1>3, <1>4, <1>5, FramesTrans

\* Refreshes of farms, before and after.
LEMMA FarmFrames ==
    ASSUME NEW a, Framed(a), NEW rs, List(rs), NEW where \in Places, NEW kind, NEW crank, NEW two
    PROVE  /\ Frames(a, addRefreshFarmsForReserve(a, rs, where, kind, crank, two))
           /\ where # "cleanup" =>
                 addRefreshFarmsForReserve(a, rs, where, kind, crank, two).cleanup = a.cleanup
<1> DEFINE own == WithFarm(rs, kind)
           t == FarmRefreshes(own, kind, crank)
<1>1. List(own)
  BY ListSub DEF WithFarm
<1>2. t = [i \in DOMAIN own |-> t[i]] /\ \A i \in DOMAIN own : ~Moves(t[i])
  <2> HIDE DEF own
  <2>1. t = [i \in DOMAIN own |-> refreshObligationFarmsForReserve(own[i], kind, crank)]
    BY DEF FarmRefreshes
  <2> HIDE DEF t
  <2> QED
    BY <2>1, NoMoves
<1>3. Support(t)
  <2> HIDE DEF t, own
  <2> QED
    BY <1>1, <1>2, SupportMap
<1>4. addRefreshFarmsForReserve(a, rs, where, kind, crank, two) = PushAround(a, t, where, two)
  BY DEF addRefreshFarmsForReserve
<1> HIDE DEF t, own
<1> DEFINE b == Push(a, where, t)
<1>5. Frames(a, b) /\ Framed(b)
  BY <1>3, PushFrames DEF Frames
<1>6. Frames(b, Push(b, "inBetween", t)) /\ Frames(b, Push(b, "farmsCleanup", t))
  <2> HIDE DEF b
  <2>1. "inBetween" \in Places /\ "farmsCleanup" \in Places
    BY DEF Places
  <2> QED
    BY <1>3, <1>5, <2>1, PushFrames
<1>7. PushAround(a, t, where, two) \in {Push(b, "inBetween", t), Push(b, "farmsCleanup", t), a}
  BY DEF PushAround
<1>8. where # "cleanup" => b.cleanup = a.cleanup /\ Push(b, "inBetween", t).cleanup = a.cleanup
                           /\ Push(b, "farmsCleanup", t).cleanup = a.cleanup
  BY DEF Push, Framed, ActionFields, Places
<1> HIDE DEF b
<1> QED
  BY <1>4, <1>5, <1>6, <1>7, <1>8, FramesTrans, FramesSelf

\* One more instruction of a kind that moves nothing.
LEMMA OneMore ==
    ASSUME NEW a, Framed(a), NEW where \in Places, NEW x, ~Moves(x)
    PROVE  Frames(a, Push(a, where, <<x>>)) /\ Frames(a, Unshift(a, <<x>>))
BY SupportFew, PushFrames

\* The farm of one reserve initialised,
LEMMA InitFarmFrames ==
    ASSUME NEW a, Framed(a), NEW r, NEW kind, NEW where \in Places
    PROVE  Frames(a, addInitObligationForFarm(a, r, kind, where))
<1> DEFINE x == initObligationFarmsForReserve(r, kind)
<1>1. addInitObligationForFarm(a, r, kind, where) \in {Push(a, where, <<x>>), a}
  BY DEF addInitObligationForFarm
<1>2. ~Moves(x)
  BY NoMoves
<1> HIDE DEF x
<1> QED
  BY <1>1, <1>2, OneMore, FramesSelf

\* and the farms of all the reserves of the action.
LEMMA InitFarmsFrames ==
    ASSUME NEW a, Framed(a), NEW action, NEW where \in Places
    PROVE  Frames(a, InitFarms(a, action, where))
<1> DEFINE I(b, r, kind) == addInitObligationForFarm(b, r, kind, where)
           O(b, kind) == IF a.outflow = NullKey THEN b ELSE I(b, a.outflow, kind)
           b1 == I(a, a.reserve, "Debt")
           b2 == I(a, a.reserve, "Collateral")
<1>1. InitFarms(a, action, where)
        \in {I(b1, a.outflow, "Collateral"), O(b2, "Debt"), b2, O(b1, "Collateral")}
  BY DEF InitFarms
<1>2. \A b, r, kind : Framed(b) => Frames(b, I(b, r, kind))
  BY InitFarmFrames
<1> HIDE DEF I
<1>3. Frames(a, b1) /\ Frames(a, b2) /\ Framed(b1) /\ Framed(b2)
  BY <1>2 DEF Frames
<1> HIDE DEF b1, b2
<1>4. Frames(b1, I(b1, a.outflow, "Collateral")) /\ Frames(b2, O(b2, "Debt"))
      /\ Frames(b1, O(b1, "Collateral"))
  BY <1>2, <1>3, FramesSelf
<1> HIDE DEF O
<1> QED
  BY <1>1, <1>3, <1>4, FramesTrans

\* Accounts that are made before anything else, and the compute budget.
LEMMA AccountFrames ==
    ASSUME NEW a, Framed(a), NEW lut, NEW r
    PROVE  /\ Frames(a, addInitObligationIxs(a))
           /\ Frames(a, addInitUserMetadataIxs(a, lut))
           /\ Frames(a, Push(a, "setup", <<createLookupTable>>))
           /\ Frames(a, InitReferrerIfMissing(a, r))
           /\ Frames(a, addComputeBudgetIxn(a))
<1>1. "setup" \in Places /\ "budget" \in Places
  BY DEF Places
<1>2. Frames(a, addInitObligationIxs(a))
  <2>1. Frames(a, Push(a, "setup", <<initObligation>>))
    BY <1>1, NoMoves, OneMore
  <2>2. addInitObligationIxs(a) \in {a, Push(a, "setup", <<initObligation>>)}
    BY DEF addInitObligationIxs
  <2> QED
    BY <2>1, <2>2, FramesSelf
<1>3. Frames(a, addInitUserMetadataIxs(a, lut))
  <2> DEFINE x == initUserMetadata(lut, a.referrer)
  <2>1. ~Moves(x)
    BY NoMoves
  <2>2. addInitUserMetadataIxs(a, lut) = Push(a, "setup", <<x>>)
    BY DEF addInitUserMetadataIxs
  <2> HIDE DEF x
  <2> QED
    BY <1>1, <2>1, <2>2, OneMore
<1>4. Frames(a, Push(a, "setup", <<createLookupTable>>))
  BY <1>1, NoMoves, OneMore
<1>5. Frames(a, InitReferrerIfMissing(a, r))
  <2> DEFINE x == initReferrerTokenState(r)
  <2>1. ~Moves(x)
    BY NoMoves
  <2>2. InitReferrerIfMissing(a, r) \in {a, Unshift(a, <<x>>)}
    BY DEF InitReferrerIfMissing, addInitReferrerTokenStateIx
  <2> HIDE DEF x
  <2> QED
    BY <1>1, <2>1, <2>2, OneMore, FramesSelf
<1>6. Frames(a, addComputeBudgetIxn(a))
  <2>1. Frames(a, Push(a, "budget", <<computeBudget>>))
    BY <1>1, NoMoves, OneMore
  <2>2. addComputeBudgetIxn(a) \in {a, Push(a, "budget", <<computeBudget>>)}
    BY DEF addComputeBudgetIxn
  <2> QED
    BY <2>1, <2>2, FramesSelf
<1> QED
  BY <1>2, <1>3, <1>4, <1>5, <1>6

\* The refresh of scope's prices in front.
LEMMA ScopeFrames ==
    ASSUME NEW a, Framed(a), NEW asked
    PROVE  /\ Frames(a, addScopeRefreshIxs(a)) /\ addScopeRefreshIxs(a).cleanup = a.cleanup
           /\ Frames(a, ScopeRefreshIf(asked, a)) /\ ScopeRefreshIf(asked, a).cleanup = a.cleanup
<1>1. PICK ids : addScopeRefreshIxs(a) \in {a, Unshift(a, <<refreshScopePrices(ids)>>)}
  BY DEF addScopeRefreshIxs
<1>2. "setup" \in Places
  BY DEF Places
<1>3. Frames(a, Unshift(a, <<refreshScopePrices(ids)>>))
  <2> DEFINE x == refreshScopePrices(ids)
  <2>1. ~Moves(x)
    BY NoMoves
  <2> HIDE DEF x
  <2>2. Frames(a, Unshift(a, <<x>>))
    BY <1>2, <2>1, OneMore
  <2> QED
    BY <2>2 DEF x
<1>4. Unshift(a, <<refreshScopePrices(ids)>>).cleanup = a.cleanup
  BY DEF Unshift, Framed, ActionFields, Places
<1>5. Frames(a, addScopeRefreshIxs(a)) /\ addScopeRefreshIxs(a).cleanup = a.cleanup
  BY <1>1, <1>3, <1>4, FramesSelf
<1> QED
  BY <1>5, FramesSelf DEF ScopeRefreshIf

\* Wrapped SOL: its account is funded, made or synced in front and closed at the end.
LEMMA WsolFrames ==
    ASSUME NEW a, Framed(a), NEW action
    PROVE  Frames(a, updateWSOLAccount(a, action))
<1> DEFINE account == Liquidity(IF Native(a.outflow) THEN a.outflow ELSE a.reserve)
           sends == action \in SendActions \/ (action = "liquidate" /\ Native(a.reserve))
           there == account \in a.rpc.atas
           lamports == (IF there THEN 0 ELSE RentExempt)
                       + (IF sends THEN SafeRepay(a, action) ELSE 0)
           x == transferLamports(account, lamports)
           y == syncNative(account)
           z == createAta(account)
           w == closeAccount(account)
           closed == [a EXCEPT !.cleanup = Append(@, w)]
           message == "Unable to find obligation borrow to repay"
           Cases == {a, Throw(a, message), Unshift(a, <<x>> \o <<y>>), Unshift(closed, <<x>>),
                     Unshift(closed, <<x>> \o <<z, y>>)}
<1>1. updateWSOLAccount(a, action) \in Cases
  BY DEF updateWSOLAccount
<1>2. ~Moves(x) /\ ~Moves(y) /\ ~Moves(z) /\ ~Moves(w)
  BY NoMoves
<1>3. Frames(a, Throw(a, message))
  BY ThrowFrames
<1> HIDE DEF x, y, z, w, message, account, there, sends, lamports
<1>4. closed = Push(a, "cleanup", <<w>>)
  <2>1. PICK S : a.cleanup \in Seq(S)
    BY DEF Framed, Support, Places
  <2>2. Append(a.cleanup, w) = a.cleanup \o <<w>>
    <3>1. a.cleanup \in Seq(S \cup {w}) /\ w \in S \cup {w}
      BY <2>1, SeqWider
    <3> HIDE <2>1
    <3> DEFINE T == S \cup {w}
    <3> HIDE DEF T
    <3> QED
      BY <3>1, AppendIsConcat DEF T
  <2> QED
    BY <2>2 DEF Push
<1> HIDE DEF closed
<1>5. "setup" \in Places /\ "cleanup" \in Places
  BY DEF Places
<1>6. Frames(a, closed) /\ Framed(closed)
  BY <1>2, <1>4, <1>5, OneMore, FramesFramed
<1>7. Support(<<x>>) /\ Support(<<y>>) /\ Support(<<z, y>>)
  BY <1>2, SupportFew, SupportTwo
<1>8. Support(<<x>> \o <<y>>) /\ Support(<<x>> \o <<z, y>>)
  BY <1>7, SupportConcat
<1>9. Frames(a, Unshift(a, <<x>> \o <<y>>))
  BY <1>5, <1>8, PushFrames
<1>10. Frames(closed, Unshift(closed, <<x>>)) /\ Frames(closed, Unshift(closed, <<x>> \o <<z, y>>))
  BY <1>5, <1>6, <1>7, <1>8, PushFrames
<1>11. Frames(a, Unshift(closed, <<x>>)) /\ Frames(a, Unshift(closed, <<x>> \o <<z, y>>))
  BY <1>6, <1>10, FramesTrans
<1> QED
  BY <1>1, <1>3, <1>9, <1>11, FramesSelf

\* Token accounts.
LEMMA CreateFrames ==
    ASSUME NEW a, Framed(a), NEW when, NEW accounts, List(accounts)
    PROVE  Frames(a, CreateAtas(a, when, accounts))
<1> DEFINE t == [i \in DOMAIN accounts |-> createAta(accounts[i])]
<1>1. t = [i \in DOMAIN accounts |-> t[i]] /\ \A i \in DOMAIN accounts : ~Moves(t[i])
  BY NoMoves
<1>2. CreateAtas(a, when, accounts) = IF when THEN Unshift(a, t) ELSE a
  BY DEF CreateAtas
<1> HIDE DEF t
<1>3. Support(t) /\ "setup" \in Places
  BY <1>1, SupportMap DEF Places
<1>4. Frames(a, Unshift(a, t))
  BY <1>3, PushFrames
<1> QED
  BY <1>2, <1>4, FramesSelf

\* The token accounts an action needs (addAtaIxs).
LEMMA AtaFrames ==
    ASSUME NEW a, Framed(a), NEW action
    PROVE  Frames(a, addAtaIxs(a, action))
<1> DEFINE r == a.reserve
           out == a.outflow
           a1 == IF Native(r) \/ Native(out) THEN updateWSOLAccount(a, action) ELSE a
           p2 == action \in {"withdraw", "borrow", "redeem"} /\ ~Native(r)
           a2 == CreateAtas(a1, p2, <<Liquidity(r)>>)
           p3 == action = "liquidate"
           a3 == CreateAtas(a2, p3, <<CToken(out), Liquidity(out)>>)
           p4 == /\ \/ action = "depositAndBorrow"
                    \/ action = "repayAndWithdraw" /\ ~Native(out)
                 /\ Liquidity(out) \notin a.rpc.atas
           a4 == CreateAtas(a3, p4, <<Liquidity(out)>>)
           p5 == action \in {"withdraw", "mint", "deposit", "repayAndWithdraw"}
           a5 == CreateAtas(a4, p5, <<Liquidity(r)>>)
           p6 == action = "mint"
           a6 == CreateAtas(a5, p6, <<CToken(r)>>)
<1>1. addAtaIxs(a, action) = a6
  BY DEF addAtaIxs
<1> HIDE DEF p2, p3, p4, p5, p6
<1>2. \A x, y : List(<<x>>) /\ List(<<x, y>>)
  BY SupportFew, SupportTwo
<1>3. Frames(a, a1) /\ Framed(a1)
  BY WsolFrames, FramesSelf, FramesFramed
<1> HIDE DEF a1
<1>4. Frames(a1, a2) /\ Framed(a2)
  BY <1>2, <1>3, CreateFrames, FramesFramed
<1> HIDE DEF a2
<1>5. Frames(a2, a3) /\ Framed(a3)
  BY <1>2, <1>4, CreateFrames, FramesFramed
<1> HIDE DEF a3
<1>6. Frames(a3, a4) /\ Framed(a4)
  BY <1>2, <1>5, CreateFrames, FramesFramed
<1> HIDE DEF a4
<1>7. Frames(a4, a5) /\ Framed(a5)
  BY <1>2, <1>6, CreateFrames, FramesFramed
<1> HIDE DEF a5
<1>8. Frames(a5, a6)
  BY <1>2, <1>7, CreateFrames
<1> HIDE DEF a6
<1> QED
  BY <1>1, <1>3, <1>4, <1>5, <1>6, <1>7, <1>8, FramesTrans

\* A reserve that is still to be deposited into may have been noted.
Carries(a, b) ==
    /\ Framed(b)
    /\ \A w \in Fixed : b[w] = a[w]
    /\ b.error = a.error \/ ~Succeeds(b)

\* It may be noted at any point.
LEMMA CarriesTrans ==
    ASSUME NEW a, NEW b, Frames(a, b) \/ Carries(a, b), NEW c, Frames(b, c) \/ Carries(b, c)
    PROVE  Carries(a, c) /\ Carries(a, b) /\ Framed(b)
<1>1. Carries(a, b) /\ Carries(b, c)
  BY DEF Frames, Carries
<1>2. c.error = b.error => (Succeeds(b) <=> Succeeds(c))
  BY DEF Succeeds
<1> QED
  BY <1>1, <1>2 DEF Carries

\* Only a deposit that a borrow follows notes its reserve.
LEMMA PreLoadCarries ==
    ASSUME NEW a, Framed(a), NEW action
    PROVE  /\ Carries(a, PreLoad(a, action))
           /\ action # "depositAndBorrow" => PreLoad(a, action) = a
<1> DEFINE b == [a EXCEPT !.preLoaded = Append(@, a.reserve)]
<1>1. PreLoad(a, action) \in {a, b} /\ (action # "depositAndBorrow" => PreLoad(a, action) = a)
  BY DEF PreLoad
<1>2. DOMAIN b = ActionFields /\ b.preLoaded = Append(a.preLoaded, a.reserve)
      /\ \A w \in ActionFields : w # "preLoaded" => b[w] = a[w]
  BY DEF Framed, ActionFields
<1> HIDE DEF b
<1>3. List(Append(a.preLoaded, a.reserve))
  <2>1. PICK S : a.preLoaded \in Seq(S)
    BY DEF Framed, List
  <2> DEFINE T == S \cup {a.reserve}
  <2>2. a.preLoaded \in Seq(T) /\ a.reserve \in T
    BY <2>1, SeqWider
  <2> HIDE DEF T
  <2>3. Append(a.preLoaded, a.reserve) \in Seq(T)
    BY <2>2, AppendProperties
  <2> QED
    BY <2>3 DEF List
<1>4. \A w \in Places \cup Fixed : b[w] = a[w]
  BY <1>2 DEF ActionFields, Places, Fixed
<1>5. b["depositReserves"] = a["depositReserves"] /\ b["error"] = a["error"]
      /\ b["borrowReserves"] = a["borrowReserves"]
  BY <1>2 DEF ActionFields, Places, Fixed
<1>6. Framed(b)
  BY <1>2, <1>3, <1>4, <1>5 DEF Framed
<1>7. Carries(a, b) /\ Carries(a, a)
  BY <1>4, <1>5, <1>6 DEF Carries
<1> QED
  BY <1>1, <1>7

\* A request for a group, with the refreshes it needs after it.
LEMMA RequestAndRefreshFrames ==
    ASSUME NEW a, Framed(a), NEW g, NEW others, List(others), NEW current, List(current),
           NEW where \in Places
    PROVE  Frames(a, RequestAndRefresh(a, g, others, current, where))
<1> DEFINE a1 == addRequestElevationIx(a, g, where, {})
           a2 == addRefreshReserveIxs(a1, others, where)
           a3 == addRefreshReserveIxs(a2, current, where)
           a4 == addRefreshObligationIx(a3, where, {})
<1>1. RequestAndRefresh(a, g, others, current, where) = a4
  BY DEF RequestAndRefresh
<1>2. Frames(a, a1) /\ Framed(a1)
  BY RefreshObligationFrames, FramesFramed
<1> HIDE DEF a1
<1>3. Frames(a1, a2) /\ Framed(a2)
  BY <1>2, RefreshReserveFrames, FramesFramed
<1> HIDE DEF a2
<1>4. Frames(a2, a3) /\ Framed(a3)
  BY <1>3, RefreshReserveFrames, FramesFramed
<1> HIDE DEF a3
<1>5. Frames(a3, a4)
  BY <1>4, RefreshObligationFrames
<1> HIDE DEF a4
<1> QED
  BY <1>1, <1>2, <1>3, <1>4, <1>5, FramesTrans

\* Which group is asked for, and where, is up to each operation.
LEMMA RequestOnRepayFrames ==
    ASSUME NEW a, Framed(a), NEW override, NEW others, List(others)
    PROVE  Frames(a, RequestGroupOnRepay(a, override, others))
<1> DEFINE a1 == addRefreshReserveIxs(a, others, "cleanup")
           a2 == addRefreshObligationIx(a1, "cleanup", {a.reserve})
           g == IF override = NoOverride THEN 0 ELSE override
           a3 == addRequestElevationIx(a2, g, "cleanup", {a.reserve})
           message == "Could not find debt reserve in obligation"
<1>1. RequestGroupOnRepay(a, override, others) \in {Throw(a, message), a3, a}
  BY DEF RequestGroupOnRepay
<1>0. "cleanup" \in Places
  BY DEF Places
<1>2. Frames(a, a1) /\ Framed(a1)
  BY <1>0, RefreshReserveFrames, FramesFramed
<1> HIDE DEF a1
<1>3. Frames(a1, a2) /\ Framed(a2)
  BY <1>0, <1>2, RefreshObligationFrames, FramesFramed
<1> HIDE DEF a2, g
<1>4. Frames(a2, a3)
  BY <1>0, <1>3, RefreshObligationFrames
<1>5. Frames(a, Throw(a, message))
  BY ThrowFrames
<1> HIDE DEF a3, message
<1> QED
  BY <1>1, <1>2, <1>3, <1>4, <1>5, FramesTrans, FramesSelf

\* A request for a group other than the current one,
LEMMA RequestIfOtherFrames ==
    ASSUME NEW a, Framed(a), NEW action, NEW g, NEW others, List(others),
           NEW current, List(current), NEW where \in Places
    PROVE  Frames(a, RequestIfOther(a, action, g, where, others, current))
<1> DEFINE b == [a EXCEPT !.potentialGroup = g]
           d == IF action = "borrow" THEN b ELSE a
           e == RequestAndRefresh(d, g, others, current, where)
<1>1. RequestIfOther(a, action, g, where, others, current) \in {e, a}
  BY DEF RequestIfOther
<1>2. DOMAIN b = ActionFields /\ \A w \in ActionFields : w # "potentialGroup" => b[w] = a[w]
  BY DEF Framed, ActionFields
<1> HIDE DEF b
<1>3. \A w \in Places \cup Fixed : b[w] = a[w]
  BY <1>2 DEF ActionFields, Places, Fixed
<1>4. b["depositReserves"] = a["depositReserves"] /\ b["error"] = a["error"]
      /\ b["borrowReserves"] = a["borrowReserves"] /\ b["preLoaded"] = a["preLoaded"]
      /\ b["setup"] = a["setup"]
  BY <1>2 DEF ActionFields, Places, Fixed
<1>5. Framed(b)
  BY <1>2, <1>3, <1>4 DEF Framed
<1>6. Frames(a, b)
  BY <1>3, <1>4, <1>5 DEF Frames
<1>7. Frames(a, d) /\ Framed(d)
  BY <1>5, <1>6, FramesSelf
<1> HIDE DEF d
<1>8. Frames(d, e)
  BY <1>7, RequestAndRefreshFrames
<1> HIDE DEF e
<1> QED
  BY <1>1, <1>7, <1>8, FramesTrans, FramesSelf

\* the group of a borrow,
LEMMA RequestOnBorrowFrames ==
    ASSUME NEW a, Framed(a), NEW action, NEW override, NEW others, List(others),
           NEW current, List(current)
    PROVE  Frames(a, RequestGroupOnBorrow(a, action, override, others, current))
<1> DEFINE where == IF action = "depositAndBorrow" /\ override = NoOverride
                    THEN "inBetween" ELSE "setup"
           coll == IF action = "borrow" THEN Keys(a.ob.deposits)[1] ELSE a.reserve
           debt == IF action = "borrow" THEN a.reserve ELSE a.outflow
           g == IF override # NoOverride THEN override ELSE BestElevationGroup(a, coll, debt)
           b == RequestIfOther(a, action, g, where, others, current)
           message == "no deposit to take the collateral's groups from"
<1>1. RequestGroupOnBorrow(a, action, override, others, current) \in {Throw(a, message), b}
  BY DEF RequestGroupOnBorrow
<1>2. where \in Places
  BY DEF Places
<1> HIDE DEF where, g
<1>3. Frames(a, b)
  BY <1>2, RequestIfOtherFrames
<1>4. Frames(a, Throw(a, message))
  BY ThrowFrames
<1> HIDE DEF b, message
<1> QED
  BY <1>1, <1>3, <1>4

\* and whatever group is asked for before the refreshes.
LEMMA RequestGroupFrames ==
    ASSUME NEW a, Framed(a), NEW action, NEW override, NEW others, List(others),
           NEW current, List(current)
    PROVE  Frames(a, RequestGroup(a, action, override, others, current))
<1> DEFINE closing == IF a.amount = U64_MAX THEN {a.reserve} ELSE {}
           b == addRefreshObligationIx(a, "cleanup", closing)
           d == addRequestElevationIx(b, override, "cleanup", closing)
           x1 == RequestGroupOnRepay(a, override, others)
           x2 == RequestGroupOnBorrow(a, action, override, others, current)
           x3 == RequestAndRefresh(a, override, others, current, "setup")
<1>1. RequestGroupOnWithdraw(a, override) = d
  BY DEF RequestGroupOnWithdraw
<1>2. RequestGroup(a, action, override, others, current)
        \in {x1, x2, x3, RequestGroupOnWithdraw(a, override), a}
  BY DEF RequestGroup
<1>3. "cleanup" \in Places /\ "setup" \in Places
  BY DEF Places
<1>4. Frames(a, x1) /\ Frames(a, x2) /\ Frames(a, x3)
  BY <1>3, RequestOnRepayFrames, RequestOnBorrowFrames, RequestAndRefreshFrames
<1> HIDE DEF closing, x1, x2, x3
<1>5. Frames(a, b) /\ Framed(b)
  BY <1>3, RefreshObligationFrames, FramesFramed
<1> HIDE DEF b
<1>6. Frames(b, d)
  BY <1>3, <1>5, RefreshObligationFrames
<1> HIDE DEF d
<1> QED
  BY <1>1, <1>2, <1>4, <1>5, <1>6, FramesTrans, FramesSelf

\* The reserves an action works on are a list.
LEMMA CurrentList ==
    ASSUME NEW a, NEW action
    PROVE  List(CurrentReserves(a, action)) /\ List(PublicKeySet(CurrentReserves(a, action)))
<1>1. CurrentReserves(a, action) \in {<<a.reserve, a.outflow>>, <<a.outflow, a.reserve>>, <<a.reserve>>}
  BY DEF CurrentReserves
<1>2. List(CurrentReserves(a, action))
  BY <1>1, SupportFew, SupportTwo
<1> QED
  BY <1>2, ListSub

\* The farms' refreshes of one lending instruction leave the cleanup alone.
LEMMA RefreshFarmsFrames ==
    ASSUME NEW a, Framed(a), NEW action, NEW where \in Places \ {"cleanup"}, NEW two
    PROVE  /\ Frames(a, RefreshFarms(a, action, where, two))
           /\ RefreshFarms(a, action, where, two).cleanup = a.cleanup
<1> DEFINE F(b, rs, kind, t) == addRefreshFarmsForReserve(b, rs, where, kind, "payer", t)
           current == CurrentReserves(a, action)
           b0 == F(a, <<a.outflow>>, "Collateral", FALSE)
           x1 == F(b0, <<a.reserve>>, "Debt", FALSE)
           x2 == F(a, current, "Collateral", two)
           x3 == F(a, current, "Debt", two)
           x4 == F(a, <<a.outflow>>, "Debt", FALSE)
           x5 == Throw(a, "Could not decide on refresh farm")
<1>1. RefreshFarms(a, action, where, two) \in {b0, x1, x2, x3, x4, x5}
  BY DEF RefreshFarms
<1>2. \A b, rs, kind, t : Framed(b) /\ List(rs) => /\ Frames(b, F(b, rs, kind, t))
                                                  /\ F(b, rs, kind, t).cleanup = b.cleanup
  BY FarmFrames
<1> HIDE DEF F
<1>3. List(current) /\ List(<<a.outflow>>) /\ List(<<a.reserve>>)
  BY CurrentList, SupportFew
<1>4. Frames(a, b0) /\ Framed(b0) /\ b0.cleanup = a.cleanup
  BY <1>2, <1>3, FramesFramed
<1> HIDE DEF b0, current
<1>5. Frames(b0, x1) /\ x1.cleanup = b0.cleanup
  BY <1>2, <1>3, <1>4
<1>6. /\ Frames(a, x2) /\ x2.cleanup = a.cleanup
      /\ Frames(a, x3) /\ x3.cleanup = a.cleanup
      /\ Frames(a, x4) /\ x4.cleanup = a.cleanup
  BY <1>2, <1>3
<1>7. Frames(a, x5)
  BY ThrowFrames
<1>8. x5.cleanup = a.cleanup
  <2>1. Throw(a, "Could not decide on refresh farm")
           \in {a, [a EXCEPT !.error = "Could not decide on refresh farm"]}
    BY DEF Throw
  <2>2. [a EXCEPT !.error = "Could not decide on refresh farm"].cleanup = a.cleanup
    BY DEF Framed, ActionFields, Places
  <2> QED
    BY <2>1, <2>2
<1> HIDE DEF x1, x2, x3, x4, x5
<1> QED
  BY <1>1, <1>4, <1>5, <1>6, <1>7, <1>8, FramesTrans

\* The refreshes of reserves, obligation and farms together.
LEMMA RefreshAllFrames ==
    ASSUME NEW a, Framed(a), NEW action, NEW where \in Places, NEW init, NEW others, List(others),
           NEW current, List(current)
    PROVE  Frames(a, RefreshAll(a, action, where, init, others, current))
<1> DEFINE a1 == addRefreshReserveIxs(a, others, where)
           a2 == IF init THEN InitFarms(a1, action, where) ELSE a1
           a3 == addRefreshReserveIxs(a2, current, where)
           repaid == RepaidBorrows(a, action, where)
           a4 == addRefreshObligationIx(a3, where, repaid)
           message == "Could not find debt reserve in obligation"
<1>1. RefreshAll(a, action, where, init, others, current) \in {Throw(a, message), a4}
  BY DEF RefreshAll
<1>2. Frames(a, a1) /\ Framed(a1)
  BY RefreshReserveFrames, FramesFramed
<1> HIDE DEF a1
<1>3. Frames(a1, a2) /\ Framed(a2)
  BY <1>2, InitFarmsFrames, FramesSelf, FramesFramed
<1> HIDE DEF a2
<1>4. Frames(a2, a3) /\ Framed(a3)
  BY <1>3, RefreshReserveFrames, FramesFramed
<1> HIDE DEF a3, repaid
<1>5. Frames(a3, a4)
  BY <1>4, RefreshObligationFrames
<1>6. Frames(a, Throw(a, message))
  BY ThrowFrames
<1> HIDE DEF a4, message
<1> QED
  BY <1>1, <1>2, <1>3, <1>4, <1>5, <1>6, FramesTrans

\* The reserves refreshed besides them are a list.
LEMMA OthersList ==
    ASSUME NEW a, Framed(a), NEW current
    PROVE  List(OtherReserves(a, current))
<1> DEFINE all == a.depositReserves \o a.borrowReserves
<1>1. List(all)
  BY ListConcat DEF Framed
<1> HIDE DEF all
<1>2. List(PublicKeySet(all))
  BY <1>1, ListSub
<1> QED
  BY <1>2, ListSub DEF OtherReserves, all

\* Refreshes, the request for a group and the farms,
LEMMA RefreshesForFrames ==
    ASSUME NEW a, Framed(a), NEW action, NEW where \in Places \ {"cleanup"}, NEW asked, NEW init,
           NEW two, NEW override, NEW current, List(current)
    PROVE  Frames(a, RefreshesFor(a, action, where, asked, init, two, override, current))
<1> DEFINE others == OtherReserves(a, current)
           a1 == RefreshAll(a, action, where, init, others, current)
           a2 == RequestIfAsked(asked, a1, action, override, others, current)
           a3 == FarmsUnlessV2(a2, action, where, two)
<1>1. RefreshesFor(a, action, where, asked, init, two, override, current) = a3
  BY DEF RefreshesFor, RefreshAndRequest
<1>2. List(others)
  BY OthersList
<1> HIDE DEF others
<1>3. Frames(a, a1) /\ Framed(a1)
  BY <1>2, RefreshAllFrames, FramesFramed
<1> HIDE DEF a1
<1>4. Frames(a1, a2) /\ Framed(a2)
  BY <1>2, <1>3, RequestGroupFrames, FramesSelf, FramesFramed DEF RequestIfAsked
<1> HIDE DEF a2
<1>5. Frames(a2, a3)
  BY <1>4, RefreshFarmsFrames, FramesSelf DEF FarmsUnlessV2
<1> HIDE DEF a3
<1> QED
  BY <1>1, <1>3, <1>4, <1>5, FramesTrans

\* with the token accounts before them,
LEMMA SupportFrames ==
    ASSUME NEW a, Framed(a), NEW action, NEW where \in Places \ {"cleanup"}, NEW asked, NEW init,
           NEW two, NEW override
    PROVE  LET b == addSupportIxsWithoutInitObligation(a, action, where, asked, init, two, override)
           IN Carries(a, b) /\ (action # "depositAndBorrow" => Frames(a, b))
<1> DEFINE a1 == IF a.q.ata THEN addAtaIxs(a, action) ELSE a
           current == PublicKeySet(CurrentReserves(a, action))
           a2 == PreLoad(a1, action)
           a3 == RefreshesFor(a2, action, where, asked, init, two, override, current)
           b == addSupportIxsWithoutInitObligation(a, action, where, asked, init, two, override)
<1>1. b \in {a1, a3}
  BY DEF addSupportIxsWithoutInitObligation, SupportIxs
<1>2. Frames(a, a1) /\ Framed(a1)
  BY AtaFrames, FramesSelf, FramesFramed
<1>3. List(current)
  BY CurrentList
<1> HIDE DEF a1, current, b
<1>4. /\ Carries(a1, a2) /\ Framed(a2)
      /\ action # "depositAndBorrow" => a2 = a1
  BY <1>2, PreLoadCarries DEF Carries
<1> HIDE DEF a2
<1>5. Frames(a2, a3)
  BY <1>3, <1>4, RefreshesForFrames
<1> HIDE DEF a3
<1>6. Carries(a1, a3)
  BY <1>4, <1>5, CarriesTrans
<1>7. Carries(a, a1) /\ Carries(a, a3)
  BY <1>2, <1>6, CarriesTrans
<1>8. action # "depositAndBorrow" => Frames(a, a3)
  BY <1>2, <1>4, <1>5, FramesTrans
<1>9. Carries(a, b) /\ (action # "depositAndBorrow" => Frames(a, b))
  BY <1>1, <1>2, <1>7, <1>8
<1> QED
  BY <1>9 DEF b

\* and with the accounts of the user before those.
LEMMA AddSupportFrames ==
    ASSUME NEW a, Framed(a), NEW action, action # "depositAndBorrow", NEW two, NEW override, NEW scope
    PROVE  Frames(a, addSupportIxs(a, action, two, override, scope))
<1> DEFINE lut == a.q.lut
           a0 == IF lut THEN Push(a, "setup", <<createLookupTable>>) ELSE a
           a1 == IF a.q.metadata /\ ~a.rpc.metadata THEN addInitUserMetadataIxs(a0, lut) ELSE a
           a2 == IF action \in {"mint", "redeem"} THEN a ELSE addInitObligationIxs(a1)
           asked == a.q.requestGroup
           a3 == addSupportIxsWithoutInitObligation(a2, action, "setup", asked, TRUE, two, override)
           a4 == ScopeRefreshIf(scope, a3)
<1>1. addSupportIxs(a, action, two, override, scope) = a4
  BY DEF addSupportIxs
<1>2. Frames(a, a0) /\ Framed(a0)
  BY AccountFrames, FramesSelf, FramesFramed
<1> HIDE DEF a0
<1>3. Frames(a, a1) /\ Framed(a1)
  BY <1>2, AccountFrames, FramesSelf, FramesFramed, FramesTrans
<1> HIDE DEF a1
<1>4. Frames(a, a2) /\ Framed(a2)
  BY <1>3, AccountFrames, FramesSelf, FramesFramed, FramesTrans
<1> HIDE DEF a2, asked
<1>5. Frames(a2, a3) /\ Framed(a3)
  <2>1. "setup" \in Places \ {"cleanup"}
    BY DEF Places
  <2> QED
    BY <1>4, <2>1, SupportFrames, FramesFramed
<1> HIDE DEF a3
<1>6. Frames(a3, a4)
  BY <1>5, ScopeFrames
<1> HIDE DEF a4
<1> QED
  BY <1>1, <1>4, <1>5, <1>6, FramesTrans

\* What goes between two lending instructions (addInBetweenIxs).
LEMMA InBetweenCarries ==
    ASSUME NEW a, Framed(a), NEW action
    PROVE  Carries(a, addInBetweenIxs(a, action))
<1>1. "inBetween" \in Places \ {"cleanup"}
  BY DEF Places
<1> QED
  BY <1>1, SupportFrames DEF addInBetweenIxs

\* The refresh of a whole obligation (addRefreshObligation).
LEMMA AddRefreshObligationFrames ==
    ASSUME NEW a, Framed(a)
    PROVE  Frames(a, addRefreshObligation(a))
<1> DEFINE all == PublicKeySet(a.depositReserves \o a.borrowReserves)
           ds == a.depositReserves
           bs == a.borrowReserves
           a1 == addRefreshReserveIxs(a, all, "setup")
           a2 == addRefreshFarmsForReserve(a1, ds, "setup", "Collateral", "crank", FALSE)
           a3 == addRefreshFarmsForReserve(a2, bs, "setup", "Debt", "crank", FALSE)
           a4 == addRefreshObligationIx(a3, "setup", {})
<1>1. addRefreshObligation(a) = a4
  BY DEF addRefreshObligation
<1>2. "setup" \in Places /\ List(all) /\ List(ds) /\ List(bs)
  BY ListConcat, ListSub DEF Framed, Places
<1> HIDE DEF all, ds, bs
<1>3. Frames(a, a1) /\ Framed(a1)
  BY <1>2, RefreshReserveFrames, FramesFramed
<1> HIDE DEF a1
<1>4. Frames(a1, a2) /\ Framed(a2)
  BY <1>2, <1>3, FarmFrames, FramesFramed
<1> HIDE DEF a2
<1>5. Frames(a2, a3) /\ Framed(a3)
  BY <1>2, <1>4, FarmFrames, FramesFramed
<1> HIDE DEF a3
<1>6. Frames(a3, a4)
  BY <1>2, <1>5, RefreshObligationFrames
<1> HIDE DEF a4
<1> QED
  BY <1>1, <1>3, <1>4, <1>5, <1>6, FramesTrans


-----------------------------------------------------------------------------
(* A transaction that goes through.                                          *)

\* What the accounts are after each instruction of a transaction.
RunOf(f, c, ixs) ==
    /\ f[0] = c
    /\ \A i \in 1 .. Len(ixs) : f[i] = ExecuteIx(ixs, f[i - 1], i)

\* When the last instruction has found no error, none has, and each of them did what
\* it does.
LEMMA RunPerforms ==
    ASSUME NEW c, Sound(c), InStep(c), Succeeds(c), NEW ixs, Len(ixs) \in Nat, NEW f,
           RunOf(f, c, ixs), Succeeds(f[Len(ixs)])
    PROVE  /\ \A i \in 0 .. Len(ixs) : Succeeds(f[i]) /\ Steady(ixs, i, f[i])
           /\ \A i \in 1 .. Len(ixs) : Performs(ixs[i], f[i - 1], f[i])
<1> DEFINE n == Len(ixs)
<1>0. n \in Nat /\ f[0] = c /\ Succeeds(f[n])
      /\ \A i \in 1 .. n : f[i] = ExecuteIx(ixs, f[i - 1], i)
  BY DEF RunOf
<1> HIDE DEF n
<1>1. ASSUME NEW i \in 1 .. n, ~Succeeds(f[i - 1]) PROVE ~Succeeds(f[i])
  <2>1. f[i] = ExecuteIx(ixs, f[i - 1], i)
    BY <1>0
  <2>2. f[i] = f[i - 1]
    BY <1>1, <2>1 DEF ExecuteIx, Succeeds
  <2> QED
    BY <1>1, <2>2
<1> DEFINE S == {k \in Nat : k <= n /\ ~Succeeds(f[n - k])}
<1>2. ASSUME S # {} PROVE FALSE
  <2>1. PICK k \in S : \A m \in S : k <= m
    <3>1. S \in SUBSET Nat
      OBVIOUS
    <3> HIDE DEF S
    <3> QED
      BY <1>2, <3>1, SmallestNat
  <2>2. k # 0
    BY <1>0, <2>1
  <2>3. /\ n - k + 1 \in 1 .. n /\ (n - k + 1) - 1 = n - k /\ k - 1 \in Nat /\ k - 1 <= n
        /\ n - (k - 1) = n - k + 1 /\ ~(k <= k - 1)
    BY <1>0, <2>1, <2>2
  <2>4. ~Succeeds(f[n - k + 1])
    BY <1>1, <2>1, <2>3
  <2> QED
    BY <2>1, <2>3, <2>4
<1>3. ASSUME NEW i \in 0 .. n PROVE Succeeds(f[i])
  <2>1. n - i \in Nat /\ n - i <= n /\ n - (n - i) = i
    BY <1>0
  <2> QED
    BY <1>2, <2>1
<1> HIDE DEF S
<1> DEFINE T == {i \in 0 .. n : ~Steady(ixs, i, f[i])}
<1>4. ASSUME NEW i \in 1 .. n, Steady(ixs, i - 1, f[i - 1])
      PROVE  Steady(ixs, i, f[i]) /\ Performs(ixs[i], f[i - 1], f[i])
  <2>1. i - 1 \in 0 .. n /\ i \in 0 .. n
    BY <1>0
  <2>2. Succeeds(f[i - 1]) /\ Succeeds(ExecuteIx(ixs, f[i - 1], i))
        /\ f[i] = ExecuteIx(ixs, f[i - 1], i)
    BY <1>0, <1>3, <2>1
  <2> QED
    BY <1>4, <2>2, InstructionSteady DEF n
<1>5. ASSUME T # {} PROVE FALSE
  <2>1. PICK i \in T : \A j \in T : i <= j
    <3>1. T \in SUBSET Nat
      BY <1>0
    <3> HIDE DEF T
    <3> QED
      BY <1>5, <3>1, SmallestNat
  <2>2. i # 0
    BY <1>0, <2>1 DEF Steady, InStep
  <2>3. i \in 1 .. n /\ i - 1 \in 0 .. n /\ ~(i <= i - 1)
    BY <1>0, <2>1, <2>2
  <2>4. Steady(ixs, i - 1, f[i - 1])
    BY <2>1, <2>3
  <2> QED
    BY <1>4, <2>1, <2>3, <2>4
<1>6. ASSUME NEW i \in 1 .. n PROVE Performs(ixs[i], f[i - 1], f[i])
  <2>1. i - 1 \in 0 .. n
    BY <1>0
  <2> QED
    BY <1>4, <1>5, <2>1
<1> QED
  BY <1>3, <1>5, <1>6 DEF n

\* Instructions that move nothing move nothing together.
LEMMA QuietRun ==
    ASSUME NEW ixs, NEW f, NEW k \in Nat, NEW l \in Nat, k <= l, l <= Len(ixs), Len(ixs) \in Nat,
           \A i \in 1 .. Len(ixs) : Performs(ixs[i], f[i - 1], f[i]),
           \A i \in k + 1 .. l : ~Moves(ixs[i])
    PROVE  Positions(f[l]) = Positions(f[k])
<1> DEFINE T == {i \in k .. l : Positions(f[i]) # Positions(f[k])}
<1>1. ASSUME T # {} PROVE FALSE
  <2>1. PICK i \in T : \A j \in T : i <= j
    <3>1. T \in SUBSET Nat
      OBVIOUS
    <3> HIDE DEF T
    <3> QED
      BY <1>1, <3>1, SmallestNat
  <2>2. i # k
    BY <2>1
  <2>3. i \in k + 1 .. l /\ i \in 1 .. Len(ixs) /\ i - 1 \in k .. l /\ ~(i <= i - 1)
    BY <2>1, <2>2
  <2>4. Positions(f[i - 1]) = Positions(f[k])
    BY <2>1, <2>3
  <2>5. ~Moves(ixs[i]) /\ Positions(f[i]) = MoveOf(ixs[i], Positions(f[i - 1]))
    BY <2>3 DEF Performs
  <2>6. \A p : MoveOf(ixs[i], p) = p
    BY <2>5 DEF Moves, MoveOf, V1, V2, V1Deposits, V2Deposits, V1Withdraw, V2Withdraw, V1Liquidate,
                V2Liquidate
  <2> QED
    BY <2>1, <2>4, <2>5, <2>6
<1> QED
  BY <1>1

\* The instructions of a transaction that move positions make of any positions what the
\* request means: there is none and it means none, or one, or one after another.
CarriesOut(ixs, q) ==
    \/ /\ \A i \in 1 .. Len(ixs) : ~Moves(ixs[i])
       /\ \A c : Meant(q, c) = Positions(c)
    \/ \E k \in 1 .. Len(ixs) :
          /\ \A i \in 1 .. Len(ixs) : i # k => ~Moves(ixs[i])
          /\ \A c : Meant(q, c) = MoveOf(ixs[k], Positions(c))
    \/ \E k, l \in 1 .. Len(ixs) :
          /\ k < l
          /\ \A i \in 1 .. Len(ixs) : i # k /\ i # l => ~Moves(ixs[i])
          /\ \A c : Meant(q, c) = MoveOf(ixs[l], MoveOf(ixs[k], Positions(c)))

\* Such a transaction, when it goes through, does what was meant.
LEMMA RunDelivers ==
    ASSUME NEW c, Sound(c), InStep(c), Succeeds(c), NEW ixs, Len(ixs) \in Nat, NEW f,
           RunOf(f, c, ixs), Succeeds(f[Len(ixs)]), NEW q, CarriesOut(ixs, q)
    PROVE  Positions(f[Len(ixs)]) = Meant(q, c)
<1> DEFINE n == Len(ixs)
<1>0. n \in Nat /\ f[0] = c /\ \A i \in 1 .. n : Performs(ixs[i], f[i - 1], f[i])
  BY RunPerforms DEF RunOf
<1>1. ASSUME NEW k \in Nat, NEW l \in Nat, k <= l, l <= n, \A i \in k + 1 .. l : ~Moves(ixs[i])
      PROVE  Positions(f[l]) = Positions(f[k])
  BY <1>0, <1>1, QuietRun
<1>2. ASSUME NEW k \in 1 .. n PROVE Positions(f[k]) = MoveOf(ixs[k], Positions(f[k - 1]))
  BY <1>0 DEF Performs
<1>3. CASE /\ \A i \in 1 .. n : ~Moves(ixs[i])
           /\ \A d : Meant(q, d) = Positions(d)
  <2>1. Positions(f[n]) = Positions(f[0])
    BY <1>0, <1>1, <1>3
  <2> QED
    BY <1>0, <1>3, <2>1
<1>4. ASSUME NEW k \in 1 .. n, \A i \in 1 .. n : i # k => ~Moves(ixs[i]),
             \A d : Meant(q, d) = MoveOf(ixs[k], Positions(d))
      PROVE  Positions(f[n]) = Meant(q, c)
  <2>1. k \in Nat /\ k - 1 \in Nat /\ 0 <= k - 1 /\ k - 1 <= n /\ k <= n
        /\ (\A i \in 0 + 1 .. k - 1 : i \in 1 .. n /\ i # k)
        /\ (\A i \in k + 1 .. n : i \in 1 .. n /\ i # k)
    BY <1>0
  <2>2. Positions(f[k - 1]) = Positions(f[0])
    BY <1>1, <1>4, <2>1
  <2>3. Positions(f[n]) = Positions(f[k])
    BY <1>0, <1>1, <1>4, <2>1
  <2> QED
    BY <1>0, <1>2, <1>4, <2>2, <2>3
<1>5. ASSUME NEW k \in 1 .. n, NEW l \in 1 .. n, k < l,
             \A i \in 1 .. n : i # k /\ i # l => ~Moves(ixs[i]),
             \A d : Meant(q, d) = MoveOf(ixs[l], MoveOf(ixs[k], Positions(d)))
      PROVE  Positions(f[n]) = Meant(q, c)
  <2>1. /\ k \in Nat /\ k - 1 \in Nat /\ 0 <= k - 1 /\ k - 1 <= n /\ k <= n
        /\ l \in Nat /\ l - 1 \in Nat /\ k <= l - 1 /\ l - 1 <= n /\ l <= n
        /\ (\A i \in 0 + 1 .. k - 1 : i \in 1 .. n /\ i # k /\ i # l)
        /\ (\A i \in k + 1 .. l - 1 : i \in 1 .. n /\ i # k /\ i # l)
        /\ (\A i \in l + 1 .. n : i \in 1 .. n /\ i # k /\ i # l)
    BY <1>0, <1>5
  <2>2. Positions(f[k - 1]) = Positions(f[0])
    BY <1>1, <1>5, <2>1
  <2>3. Positions(f[l - 1]) = Positions(f[k])
    BY <1>1, <1>5, <2>1
  <2>4. Positions(f[n]) = Positions(f[l])
    BY <1>0, <1>1, <1>5, <2>1
  <2> QED
    BY <1>0, <1>2, <1>5, <2>2, <2>3, <2>4
<1> QED
  BY <1>3, <1>4, <1>5 DEF CarriesOut

-----------------------------------------------------------------------------
(* How the lists of an action are put together.                              *)

\* A list with one instruction that may move positions, and one with two.
One(s, x) ==
    /\ List(s)
    /\ \E k \in 1 .. Len(s) : s[k] = x /\ \A i \in 1 .. Len(s) : i # k => ~Moves(s[i])
Two(s, x, y) ==
    /\ List(s)
    /\ \E k, l \in 1 .. Len(s) : /\ k < l /\ s[k] = x /\ s[l] = y
                                 /\ \A i \in 1 .. Len(s) : i # k /\ i # l => ~Moves(s[i])

\* A list of such that move nothing has none that does.
LEMMA SupportQuiet ==
    ASSUME NEW s, Support(s)
    PROVE  List(s) /\ \A i \in 1 .. Len(s) : ~Moves(s[i])
<1>1. PICK S : s \in Seq(S) /\ \A x \in S : ~Moves(x)
  BY DEF Support
<1>2. \A i \in 1 .. Len(s) : s[i] \in S
  BY <1>1, ElementOfSeq
<1> QED
  BY <1>1, <1>2 DEF List

\* The elements of two lists one after the other.
LEMMA ConcatIndex ==
    ASSUME NEW s, NEW t, List(s), List(t)
    PROVE  /\ Len(s) \in Nat /\ Len(t) \in Nat /\ Len(s \o t) = Len(s) + Len(t)
           /\ \A i \in 1 .. Len(s) : (s \o t)[i] = s[i]
           /\ \A i \in 1 .. Len(t) : (s \o t)[Len(s) + i] = t[i]
           /\ \A i \in 1 .. Len(s) + Len(t) : \/ i \in 1 .. Len(s)
                                              \/ i - Len(s) \in 1 .. Len(t)
<1>1. PICK S : s \in Seq(S)
  BY DEF List
<1>2. PICK T : t \in Seq(T)
  BY DEF List
<1>3. s \in Seq(S \cup T) /\ t \in Seq(S \cup T)
  BY <1>1, <1>2, SeqWider
<1>4. Len(s) \in Nat /\ Len(t) \in Nat
  BY <1>1, <1>2, LenProperties
<1>5. /\ Len(s \o t) = Len(s) + Len(t)
      /\ \A i \in 1 .. Len(s) + Len(t) :
            (s \o t)[i] = IF i <= Len(s) THEN s[i] ELSE t[i - Len(s)]
  BY <1>3, ConcatProperties
<1>6. ASSUME NEW i \in 1 .. Len(s) PROVE (s \o t)[i] = s[i]
  BY <1>4, <1>5
<1>7. ASSUME NEW i \in 1 .. Len(t) PROVE (s \o t)[Len(s) + i] = t[i]
  <2>1. Len(s) + i \in 1 .. Len(s) + Len(t) /\ ~(Len(s) + i <= Len(s)) /\ (Len(s) + i) - Len(s) = i
    BY <1>4
  <2> QED
    BY <1>5, <2>1
<1> QED
  BY <1>4, <1>5, <1>6, <1>7

\* A list that moves nothing in front or behind,
LEMMA OneAmong ==
    ASSUME NEW s, NEW t, NEW x, NEW y, Support(s)
    PROVE  /\ One(t, x) => One(s \o t, x) /\ One(t \o s, x)
           /\ Two(t, x, y) => Two(s \o t, x, y) /\ Two(t \o s, x, y)
<1>1. List(s) /\ \A i \in 1 .. Len(s) : ~Moves(s[i])
  BY SupportQuiet
<1>2. ASSUME List(t)
      PROVE  /\ Len(s) \in Nat /\ Len(t) \in Nat
             /\ Len(s \o t) = Len(s) + Len(t) /\ Len(t \o s) = Len(s) + Len(t)
             /\ List(s \o t) /\ List(t \o s)
             /\ \A i \in 1 .. Len(s) + Len(t) :
                   \/ i \in 1 .. Len(s) /\ (s \o t)[i] = s[i]
                   \/ i - Len(s) \in 1 .. Len(t) /\ (s \o t)[i] = t[i - Len(s)]
             /\ \A i \in 1 .. Len(s) + Len(t) :
                   \/ i \in 1 .. Len(t) /\ (t \o s)[i] = t[i]
                   \/ i - Len(t) \in 1 .. Len(s) /\ (t \o s)[i] = s[i - Len(t)]
             /\ \A i \in 1 .. Len(t) : /\ (t \o s)[i] = t[i] /\ i \in 1 .. Len(s) + Len(t)
                                       /\ (s \o t)[Len(s) + i] = t[i]
                                       /\ Len(s) + i \in 1 .. Len(s) + Len(t)
  <2>1. List(s \o t) /\ List(t \o s)
    BY <1>1, <1>2, ListConcat
  <2>2. /\ Len(s) \in Nat /\ Len(t) \in Nat /\ Len(s \o t) = Len(s) + Len(t)
        /\ \A i \in 1 .. Len(s) : (s \o t)[i] = s[i]
        /\ \A i \in 1 .. Len(t) : (s \o t)[Len(s) + i] = t[i]
    BY <1>1, <1>2, ConcatIndex
  <2>3. /\ Len(t \o s) = Len(t) + Len(s)
        /\ \A i \in 1 .. Len(t) : (t \o s)[i] = t[i]
        /\ \A i \in 1 .. Len(s) : (t \o s)[Len(t) + i] = s[i]
    BY <1>1, <1>2, ConcatIndex
  <2>4. ASSUME NEW i \in 1 .. Len(s) + Len(t)
        PROVE  \/ i \in 1 .. Len(s) /\ (s \o t)[i] = s[i]
               \/ i - Len(s) \in 1 .. Len(t) /\ (s \o t)[i] = t[i - Len(s)]
    <3>1. i \in 1 .. Len(s) \/ (i - Len(s) \in 1 .. Len(t) /\ Len(s) + (i - Len(s)) = i)
      BY <2>2
    <3> QED
      BY <2>2, <3>1
  <2>5. ASSUME NEW i \in 1 .. Len(s) + Len(t)
        PROVE  \/ i \in 1 .. Len(t) /\ (t \o s)[i] = t[i]
               \/ i - Len(t) \in 1 .. Len(s) /\ (t \o s)[i] = s[i - Len(t)]
    <3>1. i \in 1 .. Len(t) \/ (i - Len(t) \in 1 .. Len(s) /\ Len(t) + (i - Len(t)) = i)
      BY <2>2
    <3> QED
      BY <2>3, <3>1
  <2>6. \A i \in 1 .. Len(t) : i \in 1 .. Len(s) + Len(t) /\ Len(s) + i \in 1 .. Len(s) + Len(t)
    BY <2>2
  <2>7. Len(t \o s) = Len(s) + Len(t)
    BY <2>2, <2>3
  <2> QED
    BY <2>1, <2>2, <2>3, <2>4, <2>5, <2>6, <2>7
<1>3. ASSUME List(t), NEW k \in 1 .. Len(t), NEW l \in 1 .. Len(t),
             \A i \in 1 .. Len(t) : i # k /\ i # l => ~Moves(t[i])
      PROVE  /\ \A i \in 1 .. Len(s \o t) :
                   i # Len(s) + k /\ i # Len(s) + l => ~Moves((s \o t)[i])
             /\ \A i \in 1 .. Len(t \o s) : i # k /\ i # l => ~Moves((t \o s)[i])
  <2>1. ASSUME NEW i \in 1 .. Len(s) + Len(t), i # Len(s) + k, i # Len(s) + l
        PROVE  ~Moves((s \o t)[i])
    <3>1. CASE i \in 1 .. Len(s) /\ (s \o t)[i] = s[i]
      BY <1>1, <3>1
    <3>2. CASE i - Len(s) \in 1 .. Len(t) /\ (s \o t)[i] = t[i - Len(s)]
      <4>1. i - Len(s) # k /\ i - Len(s) # l
        BY <1>2, <1>3, <2>1
      <4> QED
        BY <1>3, <3>2, <4>1
    <3> QED
      BY <1>2, <1>3, <3>1, <3>2
  <2>2. ASSUME NEW i \in 1 .. Len(s) + Len(t), i # k, i # l
        PROVE  ~Moves((t \o s)[i])
    <3>1. CASE i \in 1 .. Len(t) /\ (t \o s)[i] = t[i]
      BY <1>3, <2>2, <3>1
    <3>2. CASE i - Len(t) \in 1 .. Len(s) /\ (t \o s)[i] = s[i - Len(t)]
      BY <1>1, <3>2
    <3> QED
      BY <1>2, <1>3, <3>1, <3>2
  <2> QED
    BY <1>2, <1>3, <2>1, <2>2
<1>4. ASSUME One(t, x) PROVE One(s \o t, x) /\ One(t \o s, x)
  <2>1. PICK k \in 1 .. Len(t) : t[k] = x /\ \A i \in 1 .. Len(t) : i # k => ~Moves(t[i])
    BY <1>4 DEF One
  <2>2. List(t)
    BY <1>4 DEF One
  <2>3. /\ \A i \in 1 .. Len(s \o t) : i # Len(s) + k => ~Moves((s \o t)[i])
        /\ \A i \in 1 .. Len(t \o s) : i # k => ~Moves((t \o s)[i])
    BY <1>3, <2>1, <2>2
  <2>4. /\ Len(s) + k \in 1 .. Len(s \o t) /\ (s \o t)[Len(s) + k] = x
        /\ k \in 1 .. Len(t \o s) /\ (t \o s)[k] = x
    BY <1>2, <2>1, <2>2
  <2>5. List(s \o t) /\ List(t \o s)
    BY <1>2, <2>2
  <2> QED
    BY <2>3, <2>4, <2>5 DEF One
<1>5. ASSUME Two(t, x, y) PROVE Two(s \o t, x, y) /\ Two(t \o s, x, y)
  <2>1. PICK k \in 1 .. Len(t), l \in 1 .. Len(t) :
            /\ k < l /\ t[k] = x /\ t[l] = y
            /\ \A i \in 1 .. Len(t) : i # k /\ i # l => ~Moves(t[i])
    BY <1>5 DEF Two
  <2>2. List(t)
    BY <1>5 DEF Two
  <2>3. /\ \A i \in 1 .. Len(s \o t) :
              i # Len(s) + k /\ i # Len(s) + l => ~Moves((s \o t)[i])
        /\ \A i \in 1 .. Len(t \o s) : i # k /\ i # l => ~Moves((t \o s)[i])
    BY <1>3, <2>1, <2>2
  <2>4. /\ Len(s) + k \in 1 .. Len(s \o t) /\ (s \o t)[Len(s) + k] = x
        /\ Len(s) + l \in 1 .. Len(s \o t) /\ (s \o t)[Len(s) + l] = y
        /\ k \in 1 .. Len(t \o s) /\ (t \o s)[k] = x
        /\ l \in 1 .. Len(t \o s) /\ (t \o s)[l] = y
    BY <1>2, <2>1, <2>2
  <2>5. List(s \o t) /\ List(t \o s)
    BY <1>2, <2>2
  <2>6. Len(s) + k < Len(s) + l
    BY <1>2, <2>1, <2>2
  <2> QED
    BY <2>1, <2>3, <2>4, <2>5, <2>6 DEF Two
<1> QED
  BY <1>4, <1>5

\* and one instruction after another.
LEMMA OneThenOne ==
    ASSUME NEW x, NEW y
    PROVE  /\ One(<<x>>, x)
           /\ \A s, t : One(s, x) /\ One(t, y) => Two(s \o t, x, y)
<1>1. One(<<x>>, x)
  <2>1. List(<<x>>)
    BY SupportFew
  <2>2. 1 \in 1 .. Len(<<x>>) /\ <<x>>[1] = x /\ \A i \in 1 .. Len(<<x>>) : i = 1
    OBVIOUS
  <2> QED
    BY <2>1, <2>2 DEF One
<1>2. ASSUME NEW s, NEW t, One(s, x), One(t, y) PROVE Two(s \o t, x, y)
  <2>0. List(s) /\ List(t)
    BY <1>2 DEF One
  <2>1. PICK k \in 1 .. Len(s) : s[k] = x /\ \A i \in 1 .. Len(s) : i # k => ~Moves(s[i])
    BY <1>2 DEF One
  <2>2. PICK l \in 1 .. Len(t) : t[l] = y /\ \A i \in 1 .. Len(t) : i # l => ~Moves(t[i])
    BY <1>2 DEF One
  <2>3. /\ Len(s) \in Nat /\ Len(t) \in Nat /\ Len(s \o t) = Len(s) + Len(t)
        /\ \A i \in 1 .. Len(s) : (s \o t)[i] = s[i]
        /\ \A i \in 1 .. Len(t) : (s \o t)[Len(s) + i] = t[i]
    BY <2>0, ConcatIndex
  <2>4. /\ k \in 1 .. Len(s) + Len(t) /\ (s \o t)[k] = x
        /\ Len(s) + l \in 1 .. Len(s) + Len(t) /\ (s \o t)[Len(s) + l] = y /\ k < Len(s) + l
    BY <2>1, <2>2, <2>3
  <2>5. ASSUME NEW i \in 1 .. Len(s) + Len(t), i # k, i # Len(s) + l
        PROVE  ~Moves((s \o t)[i])
    <3>1. CASE i \in 1 .. Len(s)
      BY <2>1, <2>3, <2>5, <3>1
    <3>2. CASE ~(i \in 1 .. Len(s))
      <4>1. i - Len(s) \in 1 .. Len(t) /\ i - Len(s) # l /\ Len(s) + (i - Len(s)) = i
        BY <2>3, <2>5, <3>2
      <4> QED
        BY <2>2, <2>3, <4>1
    <3> QED
      BY <3>1, <3>2
  <2>6. List(s \o t)
    BY <2>0, ListConcat
  <2> DEFINE u == s \o t
             m == Len(s) + l
  <2>7. /\ k \in 1 .. Len(u) /\ m \in 1 .. Len(u) /\ k < m /\ u[k] = x /\ u[m] = y /\ List(u)
        /\ \A i \in 1 .. Len(u) : i # k /\ i # m => ~Moves(u[i])
    BY <2>3, <2>4, <2>5, <2>6
  <2> HIDE DEF u, m
  <2>8. Two(u, x, y)
    BY <2>7 DEF Two
  <2> QED
    BY <2>8 DEF u
<1> QED
  BY <1>1, <1>2

\* The lending instructions of an action are what its request means.
Lends(l, q) ==
    \/ l = <<>> /\ \A c : Meant(q, c) = Positions(c)
    \/ \E x : l = <<x>> /\ \A c : Meant(q, c) = MoveOf(x, Positions(c))
    \/ \E x, y : l = <<x, y>> /\ \A c : Meant(q, c) = MoveOf(y, MoveOf(x, Positions(c)))

\* A transaction with as many such instructions carries the request out.
LEMMA OneCarriesOut ==
    ASSUME NEW s, NEW q, NEW x, NEW y
    PROVE  /\ Support(s) /\ (\A c : Meant(q, c) = Positions(c)) => CarriesOut(s, q)
           /\ One(s, x) /\ (\A c : Meant(q, c) = MoveOf(x, Positions(c))) => CarriesOut(s, q)
           /\ Two(s, x, y) /\ (\A c : Meant(q, c) = MoveOf(y, MoveOf(x, Positions(c))))
                 => CarriesOut(s, q)
<1>1. ASSUME Support(s), \A c : Meant(q, c) = Positions(c) PROVE CarriesOut(s, q)
  BY <1>1, SupportQuiet DEF CarriesOut
<1>2. ASSUME One(s, x), \A c : Meant(q, c) = MoveOf(x, Positions(c)) PROVE CarriesOut(s, q)
  <2>1. PICK k \in 1 .. Len(s) : s[k] = x /\ \A i \in 1 .. Len(s) : i # k => ~Moves(s[i])
    BY <1>2 DEF One
  <2> QED
    BY <1>2, <2>1 DEF CarriesOut
<1>3. ASSUME Two(s, x, y), \A c : Meant(q, c) = MoveOf(y, MoveOf(x, Positions(c)))
      PROVE  CarriesOut(s, q)
  <2>1. PICK k \in 1 .. Len(s), l \in 1 .. Len(s) :
            /\ k < l /\ s[k] = x /\ s[l] = y
            /\ \A i \in 1 .. Len(s) : i # k /\ i # l => ~Moves(s[i])
    BY <1>3 DEF Two
  <2> QED
    BY <1>3, <2>1 DEF CarriesOut
<1> QED
  BY <1>1, <1>2, <1>3

\* Whether it is taken from actionToIxs or sent with getTransactions, the transaction
\* carries out what the lending instructions are.
LEMMA Assembled ==
    ASSUME NEW a, Framed(a), NEW q, Lends(a.lending, q)
    PROVE  CarriesOut(actionToIxs(a), q) /\ CarriesOut(getTransactions(a), q)
<1> DEFINE budget == a.budget
           setup == a.setup
           between == a.inBetween
           cleanup == a.cleanup
           l == a.lending
           middle == actionToLendingIxs(a)
           both == getTransactions(a)
<1>1. Support(budget) /\ Support(setup) /\ Support(between) /\ Support(cleanup)
  BY DEF Framed, Places
<1>2. actionToIxs(a) = budget \o setup \o middle \o cleanup
  BY DEF actionToIxs
<1>3. middle = FlattenSeq([i \in DOMAIN l |->
                  IF i = Len(l) THEN <<l[i]>> ELSE <<l[i]>> \o between])
  BY DEF actionToLendingIxs
<1>4. both = IF Len(l) = 2 THEN setup \o <<l[1]>> \o between \o <<l[2]>> \o cleanup
             ELSE setup \o l \o cleanup
  BY DEF getTransactions
<1>5. Lends(l, q)
  OBVIOUS
<1> HIDE DEF budget, setup, between, cleanup, l, middle, both
<1>6. Support(budget \o setup)
  BY <1>1, SupportConcat
<1>7. ASSUME l = <<>>, \A c : Meant(q, c) = Positions(c)
      PROVE  CarriesOut(actionToIxs(a), q) /\ CarriesOut(both, q)
  <2>1. middle = <<>>
    BY <1>3, <1>7 DEF FlattenSeq
  <2> DEFINE none == <<>>
  <2>2. Support(none) /\ middle = none /\ l = none
    BY <1>7, <2>1, SupportFew
  <2>3. Len(l) # 2
    BY <1>7
  <2> HIDE DEF none
  <2>4. Support(actionToIxs(a)) /\ Support(both)
    BY <1>1, <1>2, <1>4, <1>6, <2>2, <2>3, SupportConcat
  <2> QED
    BY <1>7, <2>4, OneCarriesOut
<1>8. ASSUME NEW x, l = <<x>>, \A c : Meant(q, c) = MoveOf(x, Positions(c))
      PROVE  CarriesOut(actionToIxs(a), q) /\ CarriesOut(both, q)
  <2> DEFINE one == <<x>>
  <2>1. one \in Seq({x}) /\ Len(one) = 1 /\ DOMAIN one = {1} /\ one[1] = x
    OBVIOUS
  <2>2. middle = one
    <3>1. [i \in DOMAIN l |-> IF i = Len(l) THEN <<l[i]>> ELSE <<l[i]>> \o between] = <<one>>
      BY <1>8, <2>1
    <3> HIDE DEF one
    <3> QED
      BY <1>3, <2>1, <3>1, FlattenFew
  <2>3. One(one, x) /\ l = one
    BY <1>8, OneThenOne
  <2> HIDE DEF one
  <2>4. One(actionToIxs(a), x) /\ One(both, x)
    <3>1. One((budget \o setup) \o one, x) /\ One(setup \o one, x)
      BY <1>1, <1>6, <2>3, OneAmong
    <3>2. One(((budget \o setup) \o one) \o cleanup, x) /\ One((setup \o one) \o cleanup, x)
      BY <1>1, <3>1, OneAmong
    <3>3. Len(l) # 2
      BY <2>1, <2>3
    <3>4. both = (setup \o one) \o cleanup
      BY <1>4, <2>3, <3>3
    <3>5. actionToIxs(a) = ((budget \o setup) \o one) \o cleanup
      BY <1>2, <2>2
    <3> QED
      BY <3>2, <3>4, <3>5
  <2> QED
    BY <1>8, <2>4, OneCarriesOut
<1>9. ASSUME NEW x, NEW y, l = <<x, y>>,
             \A c : Meant(q, c) = MoveOf(y, MoveOf(x, Positions(c)))
      PROVE  CarriesOut(actionToIxs(a), q) /\ CarriesOut(both, q)
  <2> DEFINE one == <<x>>
             two == <<y>>
             first == one \o between
  <2>1. Len(l) = 2 /\ DOMAIN l = {1, 2} /\ <<l[1]>> = one /\ <<l[2]>> = two
    BY <1>9
  <2>2. One(one, x) /\ One(two, y)
    BY OneThenOne
  <2>3. [i \in DOMAIN l |-> IF i = Len(l) THEN <<l[i]>> ELSE <<l[i]>> \o between] = <<first, two>>
    BY <2>1
  <2> HIDE DEF one, two
  <2>4. One(first, x)
    BY <1>1, <2>2, OneAmong
  <2>5. middle = first \o two
    <3>1. PICK S : first \in Seq(S)
      BY <2>4 DEF One, List
    <3>2. PICK T : two \in Seq(T)
      BY <2>2 DEF One, List
    <3>3. first \in Seq(S \cup T) /\ two \in Seq(S \cup T)
      BY <3>1, <3>2, SeqWider
    <3> HIDE DEF first
    <3> QED
      BY <1>3, <2>3, <3>3, FlattenFew
  <2> HIDE DEF first
  <2>6. Two(middle, x, y)
    BY <2>2, <2>4, <2>5, OneThenOne
  <2>7. Two(actionToIxs(a), x, y)
    BY <1>1, <1>2, <1>6, <2>6, OneAmong
  <2>8. Two(both, x, y)
    <3>1. One(setup \o one, x)
      BY <1>1, <2>2, OneAmong
    <3>2. One((setup \o one) \o between, x)
      BY <1>1, <3>1, OneAmong
    <3>3. Two(((setup \o one) \o between) \o two, x, y)
      BY <2>2, <3>2, OneThenOne
    <3>4. Two((((setup \o one) \o between) \o two) \o cleanup, x, y)
      BY <1>1, <3>3, OneAmong
    <3> QED
      BY <1>4, <2>1, <3>4
  <2> QED
    BY <1>9, <2>7, <2>8, OneCarriesOut
<1> QED
  BY <1>5, <1>7, <1>8, <1>9 DEF Lends, both

-----------------------------------------------------------------------------
(* The builders.                                                             *)

\* An action whose lending instructions are still to be added,
Begun(a, q) ==
    /\ Framed(a)
    /\ a.q = q /\ a.reserve = q.reserve /\ a.outflow = q.outflow
    /\ a.amount = q.amount /\ a.outAmount = q.outAmount
    /\ a.lending = <<>>
\* and one that has them, unless the builder has thrown.
Ready(a, q) == Framed(a) /\ (Succeeds(a) => Lends(a.lending, q))

\* The obligation a client has loaded.
Shaped(ob) == DOMAIN ob.deposits = 1 .. MaxSlots /\ DOMAIN ob.borrows = 1 .. MaxSlots

\* What is added around them changes neither.
LEMMA StillBegun ==
    ASSUME NEW a, NEW b, NEW q, Frames(a, b) \/ Carries(a, b)
    PROVE  (Begun(a, q) => Begun(b, q)) /\ (Ready(a, q) => Ready(b, q))
<1>1. Framed(b) /\ (\A w \in Fixed : b[w] = a[w]) /\ (b.error = a.error \/ ~Succeeds(b))
  BY DEF Frames, Carries
<1>2. /\ b["q"] = a["q"] /\ b["reserve"] = a["reserve"] /\ b["outflow"] = a["outflow"]
      /\ b["amount"] = a["amount"] /\ b["outAmount"] = a["outAmount"]
      /\ b["lending"] = a["lending"]
  BY <1>1 DEF Fixed
<1>3. Succeeds(b) => Succeeds(a)
  BY <1>1 DEF Succeeds
<1> QED
  BY <1>1, <1>2, <1>3 DEF Begun, Ready

\* The constructor.
LEMMA NewBegun ==
    ASSUME NEW q, q.added \in Seq(Reserves), NEW ob, Shaped(ob), NEW rpc
    PROVE  /\ Begun(NewAction(q, ob, rpc), q)
           /\ \A x : Begun([NewAction(q, ob, rpc) EXCEPT !.referrer = x], q)
           /\ NewAction(q, ob, rpc).ob = ob /\ NewAction(q, ob, rpc).rpc = rpc
<1> DEFINE a == NewAction(q, ob, rpc)
           ds == IF ob.exists THEN Keys(ob.deposits) ELSE <<>>
           bs == IF ob.exists THEN Keys(ob.borrows) ELSE <<>>
<1>1. List(ds) /\ List(bs) /\ List(<<>>) /\ Support(<<>>)
  BY KeysList, SupportFew DEF Shaped
<1>2. /\ DOMAIN a = ActionFields
      /\ a.budget = <<>> /\ a.setup = <<>> /\ a.inBetween = <<>> /\ a.cleanup = <<>>
      /\ a.farmsCleanup = <<>> /\ a.depositReserves = ds /\ a.borrowReserves = bs
      /\ a.preLoaded = <<>> /\ a.lending = <<>> /\ a.q = q /\ a.ob = ob /\ a.rpc = rpc
      /\ a.reserve = q.reserve /\ a.outflow = q.outflow
      /\ a.amount = q.amount /\ a.outAmount = q.outAmount
  <2> HIDE DEF ds, bs
  <2> QED
    BY DEF NewAction, ActionFields, Places, Fixed, ds, bs
<1> HIDE DEF a, ds, bs
<1> DEFINE none == <<>>
<1>3. /\ DOMAIN a = ActionFields
      /\ a.budget = none /\ a.setup = none /\ a.inBetween = none /\ a.cleanup = none
      /\ a.farmsCleanup = none /\ a.depositReserves = ds /\ a.borrowReserves = bs
      /\ a.preLoaded = none /\ a.lending = none /\ List(none) /\ Support(none)
  BY <1>1, <1>2
<1>4. Framed(a)
  <2> HIDE DEF none
  <2> QED
    BY <1>1, <1>3 DEF Framed, Places
<1>5. Begun(a, q)
  BY <1>2, <1>4 DEF Begun
<1>6. ASSUME NEW x PROVE Begun([a EXCEPT !.referrer = x], q)
  <2> DEFINE b == [a EXCEPT !.referrer = x]
  <2>1. DOMAIN b = ActionFields /\ \A w \in ActionFields : w # "referrer" => b[w] = a[w]
    BY <1>2
  <2> HIDE DEF b
  <2>2. \A w \in Places : b[w] = a[w]
    BY <2>1 DEF ActionFields, Places
  <2>3. /\ b["q"] = a["q"] /\ b["reserve"] = a["reserve"] /\ b["outflow"] = a["outflow"]
        /\ b["amount"] = a["amount"] /\ b["outAmount"] = a["outAmount"]
        /\ b["lending"] = a["lending"] /\ b["preLoaded"] = a["preLoaded"]
        /\ b["depositReserves"] = a["depositReserves"]
        /\ b["borrowReserves"] = a["borrowReserves"]
    BY <2>1 DEF ActionFields, Fixed
  <2>4. Framed(b)
    BY <1>4, <2>1, <2>2, <2>3 DEF Framed
  <2>5. Begun(b, q)
    BY <1>5, <2>3, <2>4 DEF Begun
  <2> QED
    BY <2>5 DEF b
<1> QED
  BY <1>2, <1>5, <1>6 DEF a

\* Lists other than the lending ones may be set,
LEMMA SetReserves ==
    ASSUME NEW a, NEW q, Begun(a, q), NEW ds, List(ds)
    PROVE  Begun([a EXCEPT !.depositReserves = ds], q)
<1> DEFINE b == [a EXCEPT !.depositReserves = ds]
<1>1. /\ DOMAIN b = ActionFields /\ b.depositReserves = ds
      /\ \A w \in ActionFields : w # "depositReserves" => b[w] = a[w]
  BY DEF Begun, Framed, ActionFields
<1> HIDE DEF b
<1>2. \A w \in Places : b[w] = a[w]
  BY <1>1 DEF ActionFields, Places
<1>3. /\ b["q"] = a["q"] /\ b["reserve"] = a["reserve"] /\ b["outflow"] = a["outflow"]
      /\ b["amount"] = a["amount"] /\ b["outAmount"] = a["outAmount"]
      /\ b["lending"] = a["lending"] /\ b["preLoaded"] = a["preLoaded"]
      /\ b["borrowReserves"] = a["borrowReserves"]
  BY <1>1 DEF ActionFields, Fixed
<1>4. Framed(b)
  BY <1>1, <1>2, <1>3 DEF Begun, Framed
<1>5. Begun(b, q)
  BY <1>3, <1>4 DEF Begun
<1> QED
  BY <1>5 DEF b

\* and the lending instructions be pushed.
LEMMA LendingPushed ==
    ASSUME NEW a, Framed(a), NEW x
    PROVE  LET b == PushLending(a, x)
           IN /\ Framed(b) /\ b.lending = Append(a.lending, x) /\ b.error = a.error
              /\ b.q = a.q /\ b.reserve = a.reserve /\ b.outflow = a.outflow
              /\ b.amount = a.amount /\ b.outAmount = a.outAmount
              /\ b.depositReserves = a.depositReserves
<1> DEFINE b == PushLending(a, x)
<1>1. /\ DOMAIN b = ActionFields /\ b.lending = Append(a.lending, x)
      /\ \A w \in ActionFields : w # "lending" => b[w] = a[w]
  BY DEF Framed, ActionFields, Fixed, PushLending
<1> HIDE DEF b
<1>2. \A w \in Places : b[w] = a[w]
  BY <1>1 DEF ActionFields, Places
<1>3. /\ b["q"] = a["q"] /\ b["reserve"] = a["reserve"] /\ b["outflow"] = a["outflow"]
      /\ b["amount"] = a["amount"] /\ b["outAmount"] = a["outAmount"]
      /\ b["error"] = a["error"] /\ b["preLoaded"] = a["preLoaded"]
      /\ b["depositReserves"] = a["depositReserves"]
      /\ b["borrowReserves"] = a["borrowReserves"]
  BY <1>1 DEF ActionFields, Fixed
<1>4. Framed(b)
  BY <1>1, <1>2, <1>3 DEF Framed
<1> QED
  BY <1>1, <1>3, <1>4 DEF b

\* One lending instruction that is what the request means, or an exception.
LEMMA LendOne ==
    ASSUME NEW a, NEW q, Begun(a, q), NEW x, \A c : Meant(q, c) = MoveOf(x, Positions(c))
    PROVE  Ready(PushLending(a, x), q) /\ Ready(RequireObligation(a, PushLending(a, x)), q)
<1> DEFINE b == PushLending(a, x)
           d == RequireObligation(a, b)
           t == Throw(a, "obligation is null")
<1>1. Framed(a) /\ a.lending = <<>>
  BY DEF Begun
<1>2. Framed(b) /\ b.lending = <<x>>
  <2>1. Append(<<>>, x) = <<x>>
    OBVIOUS
  <2> QED
    BY <1>1, <2>1, LendingPushed
<1>3. d \in {b, t}
  BY DEF RequireObligation
<1>4. Framed(t) /\ ~Succeeds(t)
  BY <1>1, ThrowFrames, FramesFramed
<1> HIDE DEF b, t, d
<1>5. Lends(b.lending, q)
  BY <1>2 DEF Lends
<1> QED
  BY <1>2, <1>3, <1>4, <1>5 DEF Ready, b, d

\* A second one.
LEMMA LendSecond ==
    ASSUME NEW b, Framed(b), NEW x, b.lending = <<x>>, NEW q, NEW y,
           \A c : Meant(q, c) = MoveOf(y, MoveOf(x, Positions(c)))
    PROVE  Ready(PushLending(b, y), q)
<1>1. Append(<<x>>, y) = <<x, y>>
  <2> DEFINE s == Append(<<x>>, y)
             t == <<x, y>>
             S == {x, y}
  <2>1. <<x>> \in Seq(S) /\ t \in Seq(S) /\ Len(<<x>>) = 1 /\ Len(t) = 2
        /\ <<x>>[1] = x /\ t[1] = x /\ t[2] = y
    OBVIOUS
  <2>2. s \in Seq(S) /\ Len(s) = 2 /\ s[1] = x /\ s[2] = y
    BY <2>1, AppendProperties
  <2> HIDE DEF s, t, S
  <2>3. s = t
    BY <2>1, <2>2, SeqEqual
  <2> QED
    BY <2>3 DEF s, t
<1>2. Framed(PushLending(b, y)) /\ PushLending(b, y).lending = <<x, y>>
  BY <1>1, LendingPushed
<1>3. Lends(<<x, y>>, q)
  BY DEF Lends
<1> QED
  BY <1>2, <1>3 DEF Ready

\* What a request means is what the instructions of its kind do.
LEMMA MeantMoves ==
    ASSUME NEW q, NEW c, NEW x, NEW y
    PROVE  /\ /\ q.kind = "deposit" /\ x.reserve = q.reserve /\ x.amount = q.amount
              /\ x.ix \in {"depositReserveLiquidityAndObligationCollateral",
                           "depositReserveLiquidityAndObligationCollateralV2"}
              => Meant(q, c) = MoveOf(x, Positions(c))
           /\ /\ q.kind = "depositCollateral" /\ x.reserve = q.reserve /\ x.amount = q.amount
              /\ x.ix \in {"depositObligationCollateral", "depositObligationCollateralV2"}
              => Meant(q, c) = MoveOf(x, Positions(c))
           /\ /\ q.kind = "borrow" /\ x.reserve = q.reserve /\ x.amount = q.amount
              /\ x.ix \in {"borrowObligationLiquidity", "borrowObligationLiquidityV2"}
              => Meant(q, c) = MoveOf(x, Positions(c))
           /\ /\ q.kind = "repay" /\ x.reserve = q.reserve /\ x.amount = q.amount
              /\ x.ix \in {"repayObligationLiquidity", "repayObligationLiquidityV2"}
              => Meant(q, c) = MoveOf(x, Positions(c))
           /\ /\ q.kind = "withdraw" /\ x.reserve = q.reserve
              /\ x.amount = getWithdrawCollateralAmount(q.amount)
              /\ x.ix \in {V1Withdraw, V2Withdraw}
              => Meant(q, c) = MoveOf(x, Positions(c))
           /\ /\ q.kind = "liquidate" /\ x.reserve = q.reserve /\ x.amount = q.amount
              /\ x.outflow = q.outflow /\ x.ix \in {V1Liquidate, V2Liquidate}
              => Meant(q, c) = MoveOf(x, Positions(c))
           /\ /\ q.kind = "repayAndWithdrawV2" /\ x.reserve = q.reserve /\ x.amount = q.amount
              /\ x.outflow = q.outflow /\ x.outAmount = getWithdrawCollateralAmount(q.outAmount)
              /\ x.ix = "repayAndWithdrawAndRedeem"
              => Meant(q, c) = MoveOf(x, Positions(c))
           /\ /\ q.kind = "depositAndBorrow" /\ x.reserve = q.reserve /\ x.amount = q.amount
              /\ x.ix \in {"depositReserveLiquidityAndObligationCollateral",
                           "depositReserveLiquidityAndObligationCollateralV2"}
              /\ y.reserve = q.outflow /\ y.amount = q.outAmount
              /\ y.ix \in {"borrowObligationLiquidity", "borrowObligationLiquidityV2"}
              => Meant(q, c) = MoveOf(y, MoveOf(x, Positions(c)))
           /\ /\ q.kind = "repayAndWithdraw" /\ x.reserve = q.reserve /\ x.amount = q.amount
              /\ x.ix \in {"repayObligationLiquidity", "repayObligationLiquidityV2"}
              /\ y.reserve = q.outflow /\ y.amount = getWithdrawCollateralAmount(q.outAmount)
              /\ y.ix \in {V1Withdraw, V2Withdraw}
              => Meant(q, c) = MoveOf(y, MoveOf(x, Positions(c)))
           /\ /\ q.kind \notin {"deposit", "depositCollateral", "borrow", "repay", "withdraw",
                                "liquidate", "repayAndWithdrawV2", "depositAndBorrow",
                                "repayAndWithdraw"}
              => /\ Meant(q, c) = Positions(c)
                 /\ ~Moves(x) => Meant(q, c) = MoveOf(x, Positions(c))
<1> DEFINE p == Positions(c)
<1>0. p = <<c.deposits, c.borrows>> /\ p[1] = c.deposits /\ p[2] = c.borrows
  BY DEF Positions
<1> HIDE DEF p
<1> USE DEF V1Withdraw, V2Withdraw, V1Liquidate, V2Liquidate
<1>1. ASSUME q.kind = "deposit", x.reserve = q.reserve, x.amount = q.amount,
             x.ix \in {"depositReserveLiquidityAndObligationCollateral",
                       "depositReserveLiquidityAndObligationCollateralV2"}
      PROVE  Meant(q, c) = MoveOf(x, p)
  BY <1>0, <1>1 DEF Meant, MoveOf
<1>2. ASSUME q.kind = "depositCollateral", x.reserve = q.reserve, x.amount = q.amount,
             x.ix \in {"depositObligationCollateral", "depositObligationCollateralV2"}
      PROVE  Meant(q, c) = MoveOf(x, p)
  BY <1>0, <1>2 DEF Meant, MoveOf
<1>3. ASSUME q.kind = "borrow", x.reserve = q.reserve, x.amount = q.amount,
             x.ix \in {"borrowObligationLiquidity", "borrowObligationLiquidityV2"}
      PROVE  Meant(q, c) = MoveOf(x, p)
  BY <1>0, <1>3 DEF Meant, MoveOf
<1>4. ASSUME q.kind = "repay", x.reserve = q.reserve, x.amount = q.amount,
             x.ix \in {"repayObligationLiquidity", "repayObligationLiquidityV2"}
      PROVE  Meant(q, c) = MoveOf(x, p)
  BY <1>0, <1>4 DEF Meant, MoveOf
<1>5. ASSUME q.kind = "withdraw", x.reserve = q.reserve,
             x.amount = getWithdrawCollateralAmount(q.amount), x.ix \in {V1Withdraw, V2Withdraw}
      PROVE  Meant(q, c) = MoveOf(x, p)
  BY <1>0, <1>5 DEF Meant, MoveOf
<1>6. ASSUME q.kind = "liquidate", x.reserve = q.reserve, x.amount = q.amount,
             x.outflow = q.outflow, x.ix \in {V1Liquidate, V2Liquidate}
      PROVE  Meant(q, c) = MoveOf(x, p)
  BY <1>0, <1>6 DEF Meant, MoveOf
<1>7. ASSUME q.kind = "repayAndWithdrawV2", x.reserve = q.reserve, x.amount = q.amount,
             x.outflow = q.outflow, x.outAmount = getWithdrawCollateralAmount(q.outAmount),
             x.ix = "repayAndWithdrawAndRedeem"
      PROVE  Meant(q, c) = MoveOf(x, p)
  BY <1>0, <1>7 DEF Meant, MoveOf
<1>8. ASSUME q.kind = "depositAndBorrow", x.reserve = q.reserve, x.amount = q.amount,
             x.ix \in {"depositReserveLiquidityAndObligationCollateral",
                       "depositReserveLiquidityAndObligationCollateralV2"},
             y.reserve = q.outflow, y.amount = q.outAmount,
             y.ix \in {"borrowObligationLiquidity", "borrowObligationLiquidityV2"}
      PROVE  Meant(q, c) = MoveOf(y, MoveOf(x, p))
  <2> DEFINE d == AddTo(c.deposits, q.reserve, (q.amount * RateNum) \div RateDen)
             r == <<d, c.borrows>>
  <2>1. MoveOf(x, p) = r
    BY <1>0, <1>8 DEF MoveOf
  <2>2. r[1] = d /\ r[2] = c.borrows
    OBVIOUS
  <2>3. Meant(q, c) = <<d, AddTo(c.borrows, q.outflow, with_borrow_fee(q.outflow, q.outAmount))>>
    BY <1>8 DEF Meant
  <2> HIDE DEF r, d
  <2>4. MoveOf(y, r) = <<r[1], AddTo(r[2], y.reserve, with_borrow_fee(y.reserve, y.amount))>>
    BY <1>8 DEF MoveOf
  <2> QED
    BY <1>8, <2>1, <2>2, <2>3, <2>4
<1>9. ASSUME q.kind = "repayAndWithdraw", x.reserve = q.reserve, x.amount = q.amount,
             x.ix \in {"repayObligationLiquidity", "repayObligationLiquidityV2"},
             y.reserve = q.outflow, y.amount = getWithdrawCollateralAmount(q.outAmount),
             y.ix \in {V1Withdraw, V2Withdraw}
      PROVE  Meant(q, c) = MoveOf(y, MoveOf(x, p))
  <2> DEFINE b == TakeFrom(c.borrows, q.reserve, q.amount)
             r == <<c.deposits, b>>
             n == getWithdrawCollateralAmount(q.outAmount)
  <2>1. MoveOf(x, p) = r
    BY <1>0, <1>9 DEF MoveOf
  <2>2. r[1] = c.deposits /\ r[2] = b
    OBVIOUS
  <2>3. Meant(q, c) = <<TakeFrom(c.deposits, q.outflow, n), b>>
    BY <1>9 DEF Meant
  <2> HIDE DEF r, b, n
  <2>4. MoveOf(y, r) = <<TakeFrom(r[1], y.reserve, y.amount), r[2]>>
    BY <1>9 DEF MoveOf
  <2> QED
    BY <1>9, <2>1, <2>2, <2>3, <2>4 DEF n
<1>10. ASSUME q.kind \notin {"deposit", "depositCollateral", "borrow", "repay", "withdraw",
                             "liquidate", "repayAndWithdrawV2", "depositAndBorrow",
                             "repayAndWithdraw"}
       PROVE  Meant(q, c) = p /\ (~Moves(x) => Meant(q, c) = MoveOf(x, p))
  <2>1. Meant(q, c) = p
    BY <1>0, <1>10 DEF Meant
  <2>2. ~Moves(x) => MoveOf(x, p) = p
    BY DEF Moves, MoveOf, V1, V2, V1Deposits, V2Deposits
  <2> QED
    BY <2>1, <2>2
<1> QED
  BY <1>1, <1>2, <1>3, <1>4, <1>5, <1>6, <1>7, <1>8, <1>9, <1>10 DEF p

\* The lending instructions are for the reserves and amounts of the request: deposits and
\* withdrawals,
LEMMA AddsDeposits ==
    ASSUME NEW a, NEW q, Begun(a, q)
    PROVE  /\ q.kind = "deposit" => Ready(AddDeposit(a), q)
           /\ q.kind = "depositCollateral" => Ready(AddDepositCollateral(a), q)
           /\ q.kind = "withdraw" => Ready(AddWithdraw(a, getWithdrawCollateralAmount(q.amount)), q)
<1> DEFINE farms == FarmAccounts(a.reserve, "Collateral")
           n == getWithdrawCollateralAmount(q.amount)
           x1 == depositReserveLiquidityAndObligationCollateral(a.reserve, a.amount)
           x2 == depositReserveLiquidityAndObligationCollateralV2(a.reserve, a.amount, farms)
           y1 == depositObligationCollateral(a.reserve, a.amount)
           y2 == depositObligationCollateralV2(a.reserve, a.amount, farms)
           z1 == withdrawObligationCollateralAndRedeemReserveCollateral(a.reserve, n)
           z2 == withdrawObligationCollateralAndRedeemReserveCollateralV2(a.reserve, n, farms)
<1>0. a.reserve = q.reserve /\ a.amount = q.amount
  BY DEF Begun
<1>1. AddDeposit(a) \in {PushLending(a, x1), PushLending(a, x2)}
  BY DEF AddDeposit, addDepositIx, addDepositIxV2
<1>2. AddDepositCollateral(a) \in {PushLending(a, y1), PushLending(a, y2)}
  BY DEF AddDepositCollateral, addDepositObligationCollateralIx, addDepositObligationCollateralIxV2
<1>3. AddWithdraw(a, n) \in {PushLending(a, z1), PushLending(a, z2)}
  BY DEF AddWithdraw, addWithdrawIx, addWithdrawIxV2
<1>4. /\ \A x \in {x1, x2} : /\ x.reserve = q.reserve /\ x.amount = q.amount
                             /\ x.ix \in {"depositReserveLiquidityAndObligationCollateral",
                                          "depositReserveLiquidityAndObligationCollateralV2"}
      /\ \A x \in {y1, y2} : /\ x.reserve = q.reserve /\ x.amount = q.amount
                             /\ x.ix \in {"depositObligationCollateral",
                                          "depositObligationCollateralV2"}
      /\ \A x \in {z1, z2} : /\ x.reserve = q.reserve /\ x.amount = n
                             /\ x.ix \in {V1Withdraw, V2Withdraw}
  <2> HIDE DEF n, farms
  <2> QED
    BY <1>0 DEF depositReserveLiquidityAndObligationCollateral, V1Withdraw, V2Withdraw,
                depositReserveLiquidityAndObligationCollateralV2, depositObligationCollateral,
                depositObligationCollateralV2, withdrawObligationCollateralAndRedeemReserveCollateral,
                withdrawObligationCollateralAndRedeemReserveCollateralV2, Lending
<1> HIDE DEF farms, x1, x2, y1, y2, z1, z2
<1>5. ASSUME q.kind = "deposit" PROVE Ready(AddDeposit(a), q)
  <2>1. \A x \in {x1, x2} : \A c : Meant(q, c) = MoveOf(x, Positions(c))
    BY <1>4, <1>5, MeantMoves
  <2> QED
    BY <1>1, <2>1, LendOne
<1>6. ASSUME q.kind = "depositCollateral" PROVE Ready(AddDepositCollateral(a), q)
  <2>1. \A x \in {y1, y2} : \A c : Meant(q, c) = MoveOf(x, Positions(c))
    BY <1>4, <1>6, MeantMoves
  <2> QED
    BY <1>2, <2>1, LendOne
<1>7. ASSUME q.kind = "withdraw" PROVE Ready(AddWithdraw(a, n), q)
  <2>1. \A x \in {z1, z2} : \A c : Meant(q, c) = MoveOf(x, Positions(c))
    BY <1>4, <1>7, MeantMoves
  <2> QED
    BY <1>3, <2>1, LendOne
<1> QED
  BY <1>5, <1>6, <1>7

\* borrows, repayments and liquidations,
LEMMA AddsDebts ==
    ASSUME NEW a0, NEW q, Begun(a0, q)
    PROVE  /\ q.kind = "borrow" => Ready(AddBorrow(a0), q)
           /\ q.kind = "repay" => Ready(AddRepay(a0), q)
           /\ q.kind = "liquidate" => Ready(AddLiquidate(a0), q)
<1> DEFINE a == getAdditionalDepositReservesList(a0)
           debt == FarmAccounts(a.reserve, "Debt")
           farms == debt \cup FarmAccounts(a.outflow, "Collateral")
           ins == IF InGroup(a) THEN a.depositReserves ELSE <<>>
           rem == IF a.ob.group > 0 THEN a.depositReserves ELSE <<>>
           x1 == borrowObligationLiquidity(a.reserve, a.amount, ins)
           x2 == borrowObligationLiquidityV2(a.reserve, a.amount, debt, ins)
           y1 == repayObligationLiquidity(a.reserve, a.amount, rem)
           y2 == repayObligationLiquidityV2(a.reserve, a.amount, debt, rem)
           z1 == liquidateObligationAndRedeemReserveCollateral(
                     a.reserve, a.outflow, a.amount, a.outAmount, rem)
           z2 == liquidateObligationAndRedeemReserveCollateralV2(
                     a.reserve, a.outflow, a.amount, a.outAmount, farms, rem)
           Built(x) == RequireObligation(a, PushLending(a, x))
<1>1. AddBorrow(a0) \in {Built(x1), Built(x2)}
  <2> HIDE DEF a
  <2> QED
    BY DEF AddBorrow, addBorrowIx, addBorrowIxV2, a
<1>2. AddRepay(a0) \in {Built(y1), Built(y2)}
  BY DEF AddRepay, addRepayIx, addRepayIxV2
<1>3. AddLiquidate(a0) \in {Built(z1), Built(z2)}
  BY DEF AddLiquidate, addLiquidateIx, addLiquidateIxV2
<1>0. Begun(a, q)
  <2>1. Frames(a0, a)
    BY AdditionalFrames DEF Begun
  <2> HIDE DEF a
  <2> QED
    BY <2>1, StillBegun
<1> HIDE DEF a
<1>4. a.reserve = q.reserve /\ a.amount = q.amount /\ a.outflow = q.outflow
  BY <1>0 DEF Begun
<1> HIDE DEF debt, farms, ins, rem
<1>5. /\ \A x \in {x1, x2} : /\ x.reserve = q.reserve /\ x.amount = q.amount
                             /\ x.ix \in {"borrowObligationLiquidity",
                                          "borrowObligationLiquidityV2"}
      /\ \A x \in {y1, y2} : /\ x.reserve = q.reserve /\ x.amount = q.amount
                             /\ x.ix \in {"repayObligationLiquidity", "repayObligationLiquidityV2"}
      /\ \A x \in {z1, z2} : /\ x.reserve = q.reserve /\ x.amount = q.amount
                             /\ x.outflow = q.outflow /\ x.ix \in {V1Liquidate, V2Liquidate}
  BY <1>4 DEF borrowObligationLiquidity, borrowObligationLiquidityV2, repayObligationLiquidity,
              repayObligationLiquidityV2, liquidateObligationAndRedeemReserveCollateral,
              liquidateObligationAndRedeemReserveCollateralV2, V1Liquidate, V2Liquidate, Lending
<1> HIDE DEF x1, x2, y1, y2, z1, z2
<1>6. ASSUME q.kind = "borrow" PROVE Ready(AddBorrow(a0), q)
  <2>1. \A x \in {x1, x2} : \A c : Meant(q, c) = MoveOf(x, Positions(c))
    BY <1>5, <1>6, MeantMoves
  <2>2. Ready(Built(x1), q) /\ Ready(Built(x2), q)
    BY <1>0, <2>1, LendOne
  <2> QED
    BY <1>1, <2>2
<1>7. ASSUME q.kind = "repay" PROVE Ready(AddRepay(a0), q)
  <2>1. \A x \in {y1, y2} : \A c : Meant(q, c) = MoveOf(x, Positions(c))
    BY <1>5, <1>7, MeantMoves
  <2>2. Ready(Built(y1), q) /\ Ready(Built(y2), q)
    BY <1>0, <2>1, LendOne
  <2> QED
    BY <1>2, <2>2
<1>8. ASSUME q.kind = "liquidate" PROVE Ready(AddLiquidate(a0), q)
  <2>1. \A x \in {z1, z2} : \A c : Meant(q, c) = MoveOf(x, Positions(c))
    BY <1>5, <1>8, MeantMoves
  <2>2. Ready(Built(z1), q) /\ Ready(Built(z2), q)
    BY <1>0, <2>1, LendOne
  <2> QED
    BY <1>3, <2>2
<1> QED
  BY <1>6, <1>7, <1>8

\* a deposit and a borrow,
LEMMA AddsDepositAndBorrow ==
    ASSUME NEW a0, NEW q, Begun(a0, q), q.kind = "depositAndBorrow"
    PROVE  Ready(AddDepositAndBorrow(a0), q)
<1> DEFINE x1 == depositReserveLiquidityAndObligationCollateral(a0.reserve, a0.amount)
           x2 == depositReserveLiquidityAndObligationCollateralV2(
                     a0.reserve, a0.amount, FarmAccounts(a0.reserve, "Collateral"))
           D(x) == DepositReservesOrCurrent(PushLending(a0, x))
           B1(a) == borrowObligationLiquidity(a.outflow, a.outAmount, a.depositReserves)
           B2(a) == borrowObligationLiquidityV2(
                        a.outflow, a.outAmount, FarmAccounts(a.outflow, "Debt"), a.depositReserves)
<1>1. AddDepositAndBorrow(a0) \in {PushLending(D(x1), B1(D(x1))), PushLending(D(x2), B2(D(x2)))}
  BY DEF AddDepositAndBorrow, addDepositAndBorrowIx, addDepositAndBorrowIxV2, addDepositIx,
         addDepositIxV2
<1>2. \A x \in {x1, x2} : /\ x.reserve = q.reserve /\ x.amount = q.amount
                          /\ x.ix \in {"depositReserveLiquidityAndObligationCollateral",
                                       "depositReserveLiquidityAndObligationCollateralV2"}
  <2>1. a0.reserve = q.reserve /\ a0.amount = q.amount
    BY DEF Begun
  <2> QED
    BY <2>1 DEF depositReserveLiquidityAndObligationCollateral, Lending,
                depositReserveLiquidityAndObligationCollateralV2
<1> HIDE DEF x1, x2
<1>3. ASSUME NEW x
      PROVE  /\ Framed(D(x)) /\ D(x).lending = <<x>>
             /\ D(x).outflow = q.outflow /\ D(x).outAmount = q.outAmount
  <2> DEFINE b == PushLending(a0, x)
             d == getAdditionalDepositReservesList(b)
             one == <<d.reserve>>
             e == [d EXCEPT !.depositReserves = one]
  <2>1. D(x) \in {d, e}
    BY DEF DepositReservesOrCurrent
  <2>2. Append(<<>>, x) = <<x>>
    OBVIOUS
  <2>3. Framed(b) /\ b.lending = <<x>> /\ b.outflow = q.outflow /\ b.outAmount = q.outAmount
    BY <2>2, LendingPushed DEF Begun
  <2> HIDE DEF b
  <2>4. Frames(b, d)
    BY <2>3, AdditionalFrames
  <2> HIDE DEF d
  <2>5. Framed(d) /\ d.lending = <<x>> /\ d.outflow = q.outflow /\ d.outAmount = q.outAmount
    <3>1. /\ d["lending"] = b["lending"] /\ d["outflow"] = b["outflow"]
          /\ d["outAmount"] = b["outAmount"]
      BY <2>4 DEF Frames, Fixed
    <3> QED
      BY <2>3, <2>4, <3>1 DEF Frames
  <2>6. List(one)
    BY SupportFew
  <2> HIDE DEF one
  <2>7. Framed(e) /\ e.lending = <<x>> /\ e.outflow = q.outflow /\ e.outAmount = q.outAmount
    <3>1. /\ DOMAIN e = ActionFields /\ e.depositReserves = one
          /\ \A w \in ActionFields : w # "depositReserves" => e[w] = d[w]
      BY <2>5 DEF Framed, ActionFields
    <3> HIDE DEF e
    <3>2. \A w \in Places : e[w] = d[w]
      BY <3>1 DEF ActionFields, Places
    <3>3. /\ e["lending"] = d["lending"] /\ e["preLoaded"] = d["preLoaded"]
          /\ e["borrowReserves"] = d["borrowReserves"]
          /\ e["outflow"] = d["outflow"] /\ e["outAmount"] = d["outAmount"]
      BY <3>1 DEF ActionFields, Fixed
    <3> QED
      BY <2>5, <2>6, <3>1, <3>2, <3>3 DEF Framed
  <2> HIDE DEF e
  <2> QED
    BY <2>1, <2>5, <2>7
<1> HIDE DEF D
<1>4. ASSUME NEW x \in {x1, x2}, NEW y \in {B1(D(x)), B2(D(x))}
      PROVE  Ready(PushLending(D(x), y), q)
  <2>1. /\ y.reserve = q.outflow /\ y.amount = q.outAmount
        /\ y.ix \in {"borrowObligationLiquidity", "borrowObligationLiquidityV2"}
    BY <1>3 DEF borrowObligationLiquidity, borrowObligationLiquidityV2, Lending
  <2> HIDE DEF B1, B2
  <2>2. \A c : Meant(q, c) = MoveOf(y, MoveOf(x, Positions(c)))
    BY <1>2, <2>1, MeantMoves
  <2> QED
    BY <1>3, <2>2, LendSecond
<1> QED
  BY <1>1, <1>4

\* and a repayment and a withdrawal, as two instructions or as one.
LEMMA AddsRepayAndWithdraw ==
    ASSUME NEW a0, NEW q, Begun(a0, q)
    PROVE  LET n == getWithdrawCollateralAmount(q.outAmount)
           IN /\ q.kind = "repayAndWithdraw" => Ready(AddRepayAndWithdraw(a0, n), q)
              /\ q.kind = "repayAndWithdrawV2" => Ready(addRepayAndWithdrawV2Ixs(a0, n), q)
<1> DEFINE n == getWithdrawCollateralAmount(q.outAmount)
           a == getAdditionalDepositReservesList(a0)
           debt == FarmAccounts(a.reserve, "Debt")
           coll == FarmAccounts(a.outflow, "Collateral")
           x1 == repayObligationLiquidity(a.reserve, a.amount, a.depositReserves)
           x2 == repayObligationLiquidityV2(a.reserve, a.amount, debt, a.depositReserves)
           y1 == withdrawObligationCollateralAndRedeemReserveCollateral(a.outflow, n)
           y2 == withdrawObligationCollateralAndRedeemReserveCollateralV2(a.outflow, n, coll)
           z == repayAndWithdrawAndRedeem(a.reserve, a.outflow, a.amount, n, coll \cup debt,
                                          a.depositReserves \o a.borrowReserves)
<1>1. AddRepayAndWithdraw(a0, n) \in {PushLending(PushLending(a, x1), y1),
                                      PushLending(PushLending(a, x2), y2)}
  BY DEF AddRepayAndWithdraw, addRepayAndWithdrawIxs, addRepayAndWithdrawIxsV2
<1>2. addRepayAndWithdrawV2Ixs(a0, n) = PushLending(a, z)
  BY DEF addRepayAndWithdrawV2Ixs
<1>0. Begun(a, q)
  <2>1. Frames(a0, a)
    BY AdditionalFrames DEF Begun
  <2> HIDE DEF a
  <2> QED
    BY <2>1, StillBegun
<1> HIDE DEF a
<1>3. a.reserve = q.reserve /\ a.amount = q.amount /\ a.outflow = q.outflow /\ Framed(a)
      /\ a.lending = <<>>
  BY <1>0 DEF Begun
<1> HIDE DEF debt, coll, n
<1>4. /\ \A x \in {x1, x2} : /\ x.reserve = q.reserve /\ x.amount = q.amount
                             /\ x.ix \in {"repayObligationLiquidity", "repayObligationLiquidityV2"}
      /\ \A y \in {y1, y2} : /\ y.reserve = q.outflow /\ y.amount = n
                             /\ y.ix \in {V1Withdraw, V2Withdraw}
  BY <1>3 DEF repayObligationLiquidity, repayObligationLiquidityV2, V1Withdraw, V2Withdraw,
              withdrawObligationCollateralAndRedeemReserveCollateral,
              withdrawObligationCollateralAndRedeemReserveCollateralV2, Lending
<1>5. /\ z.reserve = q.reserve /\ z.amount = q.amount /\ z.outflow = q.outflow /\ z.outAmount = n
      /\ z.ix = "repayAndWithdrawAndRedeem"
  BY <1>3 DEF repayAndWithdrawAndRedeem, Lending
<1> HIDE DEF x1, x2, y1, y2, z
<1>6. ASSUME q.kind = "repayAndWithdraw" PROVE Ready(AddRepayAndWithdraw(a0, n), q)
  <2>1. ASSUME NEW x \in {x1, x2}, NEW y \in {y1, y2}
        PROVE  Ready(PushLending(PushLending(a, x), y), q)
    <3>1. \A c : Meant(q, c) = MoveOf(y, MoveOf(x, Positions(c)))
      BY <1>4, <1>6, MeantMoves DEF n
    <3>2. Append(<<>>, x) = <<x>>
      OBVIOUS
    <3>3. Framed(PushLending(a, x)) /\ PushLending(a, x).lending = <<x>>
      BY <1>3, <3>2, LendingPushed
    <3> QED
      BY <3>1, <3>3, LendSecond
  <2> QED
    BY <1>1, <2>1
<1>7. ASSUME q.kind = "repayAndWithdrawV2" PROVE Ready(addRepayAndWithdrawV2Ixs(a0, n), q)
  <2>1. \A c : Meant(q, c) = MoveOf(z, Positions(c))
    BY <1>5, <1>7, MeantMoves DEF n
  <2> QED
    BY <1>0, <1>2, <2>1, LendOne
<1> QED
  BY <1>6, <1>7 DEF n

\* The refreshes of the farms at the end.
LEMMA FinishCarries ==
    ASSUME NEW a, Framed(a)
    PROVE  Carries(a, Finish(a))
<1> DEFINE b == Finish(a)
           new == a.farmsCleanup \o a.cleanup
<1>1. /\ DOMAIN b = ActionFields /\ b.cleanup = new
      /\ \A w \in ActionFields : w # "cleanup" => b[w] = a[w]
  BY DEF Finish, addRefreshFarmsCleanupTxnIxsToCleanupIxs, Framed, ActionFields, Places
<1>2. Support(new)
  BY SupportConcat DEF Framed, Places
<1> HIDE DEF b, new
<1>3. \A w \in Places : Support(b[w])
  <2>1. ASSUME NEW w \in Places PROVE Support(b[w])
    <3>1. w \in ActionFields
      BY DEF ActionFields
    <3>2. CASE w = "cleanup"
      BY <1>1, <1>2, <3>2
    <3>3. CASE w # "cleanup"
      BY <1>1, <3>1, <3>3 DEF Framed
    <3> QED
      BY <3>2, <3>3
  <2> QED
    BY <2>1
<1>4. \A w \in Fixed : b[w] = a[w]
  BY <1>1 DEF ActionFields, Fixed
<1>5. /\ b["error"] = a["error"] /\ b["preLoaded"] = a["preLoaded"]
      /\ b["depositReserves"] = a["depositReserves"]
      /\ b["borrowReserves"] = a["borrowReserves"]
  BY <1>1 DEF ActionFields, Fixed
<1>6. Framed(b)
  BY <1>1, <1>3, <1>5 DEF Framed
<1> QED
  BY <1>4, <1>5, <1>6 DEF Carries, b

\* An action with its compute budget and a referrer's account,
LEMMA BudgetBegun ==
    ASSUME NEW a, NEW q, Begun(a, q), NEW r
    PROVE  Begun(addComputeBudgetIxn(a), q) /\ Begun(InitReferrerIfMissing(a, r), q)
<1>1. Framed(a)
  BY DEF Begun
<1> QED
  BY <1>1, AccountFrames, StillBegun

\* and with the instructions before the lending ones.
LEMMA SupportedBegun ==
    ASSUME NEW a, NEW q, Begun(a, q), NEW action, action # "depositAndBorrow", NEW two,
           NEW override, NEW scope
    PROVE  Begun(addSupportIxs(a, action, two, override, scope), q)
<1>1. Framed(a)
  BY DEF Begun
<1> QED
  BY <1>1, AddSupportFrames, StillBegun

\* What is done to an action that has its lending instructions.
LEMMA FinishedReady ==
    ASSUME NEW a, NEW q, Ready(a, q), NEW action
    PROVE  /\ Ready(Finish(a), q)
           /\ Ready(addScopeRefreshIxs(Finish(addInBetweenIxs(a, action))), q)
<1> DEFINE b == addInBetweenIxs(a, action)
           d == Finish(b)
<1>1. Framed(a)
  BY DEF Ready
<1>2. Ready(Finish(a), q)
  BY <1>1, FinishCarries, StillBegun
<1>3. Ready(b, q) /\ Framed(b)
  BY <1>1, InBetweenCarries, StillBegun DEF Ready
<1> HIDE DEF b
<1>4. Ready(d, q) /\ Framed(d)
  BY <1>3, FinishCarries, StillBegun DEF Ready
<1> HIDE DEF d
<1>5. Ready(addScopeRefreshIxs(d), q)
  BY <1>4, ScopeFrames, StillBegun
<1> QED
  BY <1>2, <1>5 DEF b, d

\* The builders of one lending instruction,
LEMMA BuildsOne ==
    ASSUME NEW q, q.added \in Seq(Reserves), NEW ob, Shaped(ob), NEW rpc
    PROVE  /\ q.kind = "deposit" => Ready(buildDepositTxns(q, ob, rpc), q)
           /\ q.kind = "borrow" => Ready(buildBorrowTxns(q, ob, rpc), q)
           /\ q.kind = "depositCollateral" =>
                 Ready(buildDepositObligationCollateralTxns(q, ob, rpc), q)
           /\ q.kind = "withdraw" => Ready(buildWithdrawTxns(q, ob, rpc), q)
           /\ q.kind = "repay" => Ready(buildRepayTxns(q, ob, rpc), q)
<1> DEFINE a0 == addComputeBudgetIxn(NewAction(q, ob, rpc))
           o == q.override
           sup(a, action, override) == addSupportIxs(a, action, FALSE, override, TRUE)
<1>1. Begun(a0, q)
  BY NewBegun, BudgetBegun
<1>2. /\ buildDepositTxns(q, ob, rpc) = Finish(AddDeposit(sup(a0, "deposit", o)))
      /\ buildBorrowTxns(q, ob, rpc) =
            Finish(AddBorrow(sup(InitReferrerIfMissing(a0, q.reserve), "borrow", o)))
      /\ buildDepositObligationCollateralTxns(q, ob, rpc) =
            Finish(AddDepositCollateral(sup(a0, "depositCollateral", NoOverride)))
      /\ buildRepayTxns(q, ob, rpc) = Finish(AddRepay(sup(a0, "repay", NoOverride)))
  BY DEF buildDepositTxns, buildBorrowTxns, buildDepositObligationCollateralTxns, buildRepayTxns
<1>3. buildWithdrawTxns(q, ob, rpc) =
         Finish(AddWithdraw(sup([a0 EXCEPT !.depositReserves = @ \o q.added], "withdraw", o),
                            getWithdrawCollateralAmount(q.amount)))
  BY DEF buildWithdrawTxns
<1> HIDE DEF a0
<1>4. Begun(InitReferrerIfMissing(a0, q.reserve), q)
  BY <1>1, BudgetBegun
<1>5. Begun([a0 EXCEPT !.depositReserves = @ \o q.added], q)
  <2> DEFINE ds == a0.depositReserves \o q.added
  <2>1. List(ds)
    BY <1>1, ListConcat DEF Begun, Framed, List
  <2>2. [a0 EXCEPT !.depositReserves = @ \o q.added] = [a0 EXCEPT !.depositReserves = ds]
    OBVIOUS
  <2> HIDE DEF ds
  <2> QED
    BY <1>1, <2>1, <2>2, SetReserves
<1>6. /\ \A x : Begun(sup(a0, "deposit", x), q) /\ Begun(sup(a0, "depositCollateral", x), q)
                /\ Begun(sup(a0, "repay", x), q)
      /\ Begun(sup(InitReferrerIfMissing(a0, q.reserve), "borrow", o), q)
      /\ Begun(sup([a0 EXCEPT !.depositReserves = @ \o q.added], "withdraw", o), q)
  BY <1>1, <1>4, <1>5, SupportedBegun
<1> HIDE DEF sup, o
<1>7. ASSUME q.kind = "deposit" PROVE Ready(buildDepositTxns(q, ob, rpc), q)
  BY <1>2, <1>6, <1>7, AddsDeposits, FinishedReady
<1>8. ASSUME q.kind = "borrow" PROVE Ready(buildBorrowTxns(q, ob, rpc), q)
  BY <1>2, <1>6, <1>8, AddsDebts, FinishedReady
<1>9. ASSUME q.kind = "depositCollateral"
      PROVE  Ready(buildDepositObligationCollateralTxns(q, ob, rpc), q)
  BY <1>2, <1>6, <1>9, AddsDeposits, FinishedReady
<1>10. ASSUME q.kind = "withdraw" PROVE Ready(buildWithdrawTxns(q, ob, rpc), q)
  BY <1>3, <1>6, <1>10, AddsDeposits, FinishedReady
<1>11. ASSUME q.kind = "repay" PROVE Ready(buildRepayTxns(q, ob, rpc), q)
  BY <1>2, <1>6, <1>11, AddsDebts, FinishedReady
<1> QED
  BY <1>7, <1>8, <1>9, <1>10, <1>11

\* those of two tokens,
LEMMA BuildsTwo ==
    ASSUME NEW q, q.added \in Seq(Reserves), NEW ob, Shaped(ob), NEW rpc
    PROVE  /\ q.kind = "depositAndBorrow" => Ready(buildDepositAndBorrowTxns(q, ob, rpc), q)
           /\ q.kind = "repayAndWithdraw" => Ready(buildRepayAndWithdrawTxns(q, ob, rpc), q)
           /\ q.kind = "liquidate" => Ready(buildLiquidateTxns(q, ob, rpc), q)
           /\ Ready(buildDepositAndWithdrawV2Txns(q, ob, rpc), q)
<1> DEFINE new == NewAction(q, ob, rpc)
           a0 == addComputeBudgetIxn(new)
           n == getWithdrawCollateralAmount(q.outAmount)
           sup(a, action, two, scope) == addSupportIxs(a, action, two, NoOverride, scope)
           s1 == sup(InitReferrerIfMissing(a0, q.outflow), "deposit", TRUE, FALSE)
           s2 == sup(a0, "repay", TRUE, FALSE)
           s3 == sup(a0, "liquidate", FALSE, TRUE)
           bad == Throw(new, "Invalid action")
<1>1. Begun(new, q)
  BY NewBegun
<1>2. /\ buildDepositAndBorrowTxns(q, ob, rpc) =
            addScopeRefreshIxs(Finish(addInBetweenIxs(AddDepositAndBorrow(s1), "depositAndBorrow")))
      /\ buildRepayAndWithdrawTxns(q, ob, rpc) =
            addScopeRefreshIxs(
                Finish(addInBetweenIxs(AddRepayAndWithdraw(s2, n), "repayAndWithdraw")))
      /\ buildLiquidateTxns(q, ob, rpc) = Finish(AddLiquidate(s3))
      /\ buildDepositAndWithdrawV2Txns(q, ob, rpc) = bad
  BY DEF buildDepositAndBorrowTxns, buildRepayAndWithdrawTxns, buildLiquidateTxns,
         buildDepositAndWithdrawV2Txns, initializeMultiTokenAction, MultiTokenActions
<1> HIDE DEF new
<1>3. Begun(a0, q)
  BY <1>1, BudgetBegun
<1> HIDE DEF a0
<1>4. Begun(InitReferrerIfMissing(a0, q.outflow), q)
  BY <1>3, BudgetBegun
<1>5. Begun(s1, q) /\ Begun(s2, q) /\ Begun(s3, q)
  BY <1>3, <1>4, SupportedBegun
<1>6. Ready(bad, q)
  <2>1. Framed(bad) /\ ~Succeeds(bad)
    BY <1>1, ThrowFrames, FramesFramed DEF Begun
  <2> QED
    BY <2>1 DEF Ready
<1> HIDE DEF s1, s2, s3, bad
<1>7. ASSUME q.kind = "depositAndBorrow" PROVE Ready(buildDepositAndBorrowTxns(q, ob, rpc), q)
  BY <1>2, <1>5, <1>7, AddsDepositAndBorrow, FinishedReady
<1>8. ASSUME q.kind = "repayAndWithdraw" PROVE Ready(buildRepayAndWithdrawTxns(q, ob, rpc), q)
  BY <1>2, <1>5, <1>8, AddsRepayAndWithdraw, FinishedReady
<1>9. ASSUME q.kind = "liquidate" PROVE Ready(buildLiquidateTxns(q, ob, rpc), q)
  BY <1>2, <1>5, <1>9, AddsDebts, FinishedReady
<1> QED
  BY <1>2, <1>6, <1>7, <1>8, <1>9

\* the one of both in one instruction, which sets useV2,
LEMMA BuildsRepayAndWithdrawV2 ==
    ASSUME NEW q0 \in Requests, q0.kind = "repayAndWithdrawV2", NEW ob, Shaped(ob), NEW rpc
    PROVE  Ready(buildRepayAndWithdrawV2Txns(q0, ob, rpc), q0)
<1> DEFINE q == [q0 EXCEPT !.useV2 = TRUE]
           new == NewAction(q, ob, rpc)
           a0 == addComputeBudgetIxn(new)
           a1 == addSupportIxs(a0, "repayAndWithdrawV2", TRUE, NoOverride, TRUE)
           n == getWithdrawCollateralAmount(q.outAmount)
           b == addRepayAndWithdrawV2Ixs(a1, n)
<1>1. buildRepayAndWithdrawV2Txns(q0, ob, rpc) = b
  BY DEF buildRepayAndWithdrawV2Txns, initializeMultiTokenAction, MultiTokenActions
<1>2. /\ q.kind = q0.kind /\ q.reserve = q0.reserve /\ q.outflow = q0.outflow
      /\ q.amount = q0.amount /\ q.outAmount = q0.outAmount /\ q.added = q0.added
      /\ q0.added \in Seq(Reserves)
  BY RequestsAssumption
<1> HIDE DEF q
<1>3. Begun(new, q)
  BY <1>2, NewBegun
<1> HIDE DEF new
<1>4. Begun(a0, q)
  BY <1>3, BudgetBegun
<1> HIDE DEF a0
<1>5. Begun(a1, q)
  BY <1>4, SupportedBegun
<1> HIDE DEF a1
<1>6. Ready(b, q)
  BY <1>2, <1>5, AddsRepayAndWithdraw
<1> HIDE DEF b
<1>7. \A c : Meant(q, c) = Meant(q0, c)
  BY <1>2 DEF Meant
<1>8. Lends(b.lending, q) => Lends(b.lending, q0)
  BY <1>7 DEF Lends
<1> QED
  BY <1>1, <1>6, <1>8 DEF Ready

\* and the ones that leave the positions alone.
LEMMA BuildsNone ==
    ASSUME NEW q, q.added \in Seq(Reserves), NEW ob, Shaped(ob), NEW rpc,
           q.kind \notin {"deposit", "depositCollateral", "borrow", "repay", "withdraw",
                          "liquidate", "repayAndWithdrawV2", "depositAndBorrow",
                          "repayAndWithdraw"}
    PROVE  /\ Ready(buildRefreshObligationTxns(q, ob, rpc), q)
           /\ Ready(buildRequestElevationGroupTxns(q, ob, rpc), q)
           /\ Ready(buildDepositReserveLiquidityTxns(q, ob, rpc), q)
           /\ Ready(buildRedeemReserveCollateralTxns(q, ob, rpc), q)
<1> DEFINE n0 == NewAction(q, ob, rpc)
           n1 == NewActionOnDeposit(q, ob, rpc)
           a0 == addComputeBudgetIxn(n0)
           b0 == addComputeBudgetIxn(n1)
           a1 == addRefreshObligation(b0)
           a2 == addRequestElevationIx(a1, q.override, "setup", {})
           s1 == addSupportIxs(a0, "mint", FALSE, NoOverride, TRUE)
           s2 == addSupportIxs(a0, "redeem", FALSE, NoOverride, TRUE)
           x1 == depositReserveLiquidity(s1.reserve, s1.amount)
           x2 == redeemReserveCollateral(s2.reserve, s2.amount)
<1>1. /\ buildRefreshObligationTxns(q, ob, rpc) = a1
      /\ buildRequestElevationGroupTxns(q, ob, rpc) = a2
      /\ buildDepositReserveLiquidityTxns(q, ob, rpc) = Finish(PushLending(s1, x1))
      /\ buildRedeemReserveCollateralTxns(q, ob, rpc) = Finish(PushLending(s2, x2))
  BY DEF buildRefreshObligationTxns, buildRequestElevationGroupTxns,
         buildDepositReserveLiquidityTxns, buildRedeemReserveCollateralTxns,
         addDepositReserveLiquidityIx, addRedeemReserveCollateralIx
<1>2. Begun(a0, q) /\ Begun(b0, q)
  <2> DEFINE t == Throw(n0, "no deposit to take a mint from")
  <2>1. Begun(n0, q) /\ Framed(n0)
    BY NewBegun DEF Begun
  <2>2. n1 \in {n0, t}
    BY DEF NewActionOnDeposit
  <2> HIDE DEF n0, n1
  <2>3. Begun(t, q)
    BY <2>1, ThrowFrames, StillBegun
  <2> HIDE DEF t
  <2> QED
    BY <2>1, <2>2, <2>3, BudgetBegun
<1> HIDE DEF a0, b0
<1>3. Begun(s1, q) /\ Begun(s2, q)
  BY <1>2, SupportedBegun
<1>4. Begun(a1, q)
  <2>1. Framed(b0)
    BY <1>2 DEF Begun
  <2> QED
    BY <1>2, <2>1, AddRefreshObligationFrames, StillBegun
<1> HIDE DEF a1, s1, s2
<1>5. Begun(a2, q)
  <2>1. Framed(a1) /\ "setup" \in Places
    BY <1>4 DEF Begun, Places
  <2>2. Frames(a1, a2)
    BY <2>1, RefreshObligationFrames
  <2> HIDE DEF a2
  <2> QED
    BY <1>4, <2>2, StillBegun
<1> HIDE DEF a2
<1>6. ASSUME NEW a, Begun(a, q) PROVE Ready(a, q)
  <2>1. \A c : Meant(q, c) = Positions(c)
    BY MeantMoves
  <2>2. Lends(<<>>, q)
    BY <2>1 DEF Lends
  <2> QED
    BY <1>6, <2>2 DEF Begun, Ready
<1>7. ~Moves(x1) /\ ~Moves(x2)
  BY DEF depositReserveLiquidity, redeemReserveCollateral, Lending, Moves, V1, V2, V1Deposits,
         V2Deposits, V1Withdraw, V2Withdraw, V1Liquidate, V2Liquidate
<1> HIDE DEF x1, x2
<1>8. \A x \in {x1, x2} : \A c : Meant(q, c) = MoveOf(x, Positions(c))
  BY <1>7, MeantMoves
<1>9. Ready(PushLending(s1, x1), q) /\ Ready(PushLending(s2, x2), q)
  BY <1>3, <1>8, LendOne
<1>10. Ready(Finish(PushLending(s1, x1)), q) /\ Ready(Finish(PushLending(s2, x2)), q)
  BY <1>9, FinishedReady
<1> QED
  BY <1>1, <1>4, <1>5, <1>6, <1>10

\* The fees of a referrer.
LEMMA BuildsFees ==
    ASSUME NEW q, q.added \in Seq(Reserves), NEW ob, Shaped(ob), NEW rpc,
           q.kind \notin {"deposit", "depositCollateral", "borrow", "repay", "withdraw",
                          "liquidate", "repayAndWithdrawV2", "depositAndBorrow",
                          "repayAndWithdraw"}
    PROVE  Ready(buildWithdrawReferrerFeeTxns(q, ob, rpc), q)
<1> DEFINE none == [ob EXCEPT !.exists = FALSE]
           a == [NewAction(q, none, rpc) EXCEPT !.referrer = FALSE]
           y == createAta(Liquidity(q.reserve))
           a1 == Push(a, "setup", <<y>>)
           rs == <<q.reserve>>
           a2 == addRefreshReserveIxs(a1, rs, "setup")
           x == withdrawReferrerFees(a2.reserve)
<1>1. buildWithdrawReferrerFeeTxns(q, ob, rpc) = PushLending(a2, x)
  BY DEF buildWithdrawReferrerFeeTxns, addWithdrawReferrerFeesIxs
<1>2. Shaped(none)
  <2>1. none.deposits = ob.deposits /\ none.borrows = ob.borrows
    BY DEF Shaped
  <2> HIDE DEF none
  <2> QED
    BY <2>1 DEF Shaped
<1> HIDE DEF none
<1>3. Begun(a, q)
  BY <1>2, NewBegun
<1> HIDE DEF a
<1>4. "setup" \in Places /\ Framed(a) /\ ~Moves(y) /\ List(rs)
  BY <1>3, NoMoves, SupportFew DEF Begun, Places
<1>5. Frames(a, a1)
  BY <1>4, OneMore
<1> HIDE DEF a1, rs
<1>6. Begun(a1, q) /\ Framed(a1)
  BY <1>3, <1>5, StillBegun, FramesFramed
<1>7. Frames(a1, a2)
  BY <1>4, <1>6, RefreshReserveFrames
<1> HIDE DEF a2
<1>8. Begun(a2, q)
  BY <1>6, <1>7, StillBegun
<1>9. ~Moves(x)
  BY DEF withdrawReferrerFees, Lending, Moves, V1, V2, V1Deposits,
         V2Deposits, V1Withdraw, V2Withdraw, V1Liquidate, V2Liquidate
<1> HIDE DEF x
<1>10. \A c : Meant(q, c) = MoveOf(x, Positions(c))
  BY <1>9, MeantMoves
<1> QED
  BY <1>1, <1>8, <1>10, LendOne

\* Whatever is asked for, the action has the instructions that are meant.
LEMMA BuildsReady ==
    ASSUME NEW q \in Requests, Shaped(view)
    PROVE  Ready(BuildAction(q), q)
<1>1. q.added \in Seq(Reserves)
  BY RequestsAssumption
<1> DEFINE rpc == Rpc(chain)
           k == q.kind
           Moving == {"deposit", "depositCollateral", "borrow", "repay", "withdraw", "liquidate",
                      "repayAndWithdrawV2", "depositAndBorrow", "repayAndWithdraw"}
           Still == {"refreshObligation", "requestElevationGroup", "mint", "redeem"}
<1>2. CASE k \in {"deposit", "borrow", "depositCollateral", "withdraw", "repay"}
  <2>1. BuildAction(q) = CASE k = "deposit" -> buildDepositTxns(q, view, rpc)
                           [] k = "borrow" -> buildBorrowTxns(q, view, rpc)
                           [] k = "depositCollateral" ->
                                 buildDepositObligationCollateralTxns(q, view, rpc)
                           [] k = "withdraw" -> buildWithdrawTxns(q, view, rpc)
                           [] k = "repay" -> buildRepayTxns(q, view, rpc)
    BY <1>2 DEF BuildAction
  <2> HIDE DEF rpc
  <2> QED
    BY <1>1, <1>2, <2>1, BuildsOne
<1>3. CASE k \in {"depositAndBorrow", "repayAndWithdraw", "liquidate", "depositAndWithdraw"}
  <2>1. BuildAction(q) = CASE k = "depositAndBorrow" -> buildDepositAndBorrowTxns(q, view, rpc)
                           [] k = "repayAndWithdraw" -> buildRepayAndWithdrawTxns(q, view, rpc)
                           [] k = "liquidate" -> buildLiquidateTxns(q, view, rpc)
                           [] k = "depositAndWithdraw" ->
                                 buildDepositAndWithdrawV2Txns(q, view, rpc)
    BY <1>3 DEF BuildAction
  <2> HIDE DEF rpc
  <2> QED
    BY <1>1, <1>3, <2>1, BuildsTwo
<1>4. CASE k = "repayAndWithdrawV2"
  <2>1. BuildAction(q) = buildRepayAndWithdrawV2Txns(q, view, rpc)
    BY <1>4 DEF BuildAction
  <2> HIDE DEF rpc
  <2> QED
    BY <1>4, <2>1, BuildsRepayAndWithdrawV2
<1>5. CASE k \in Still
  <2>1. BuildAction(q) = CASE k = "refreshObligation" -> buildRefreshObligationTxns(q, view, rpc)
                           [] k = "requestElevationGroup" ->
                                 buildRequestElevationGroupTxns(q, view, rpc)
                           [] k = "mint" -> buildDepositReserveLiquidityTxns(q, view, rpc)
                           [] k = "redeem" -> buildRedeemReserveCollateralTxns(q, view, rpc)
    BY <1>5 DEF BuildAction
  <2> HIDE DEF rpc
  <2>2. k \notin Moving
    BY <1>5
  <2> QED
    BY <1>1, <1>5, <2>1, <2>2, BuildsNone
<1>6. CASE k \notin Moving \cup Still \cup {"depositAndWithdraw"}
  <2>1. BuildAction(q) = buildWithdrawReferrerFeeTxns(q, view, rpc)
    BY <1>6 DEF BuildAction
  <2> HIDE DEF rpc
  <2> QED
    BY <1>1, <1>6, <2>1, BuildsFees
<1> QED
  BY <1>2, <1>3, <1>4, <1>5, <1>6

-----------------------------------------------------------------------------
(* The steps.                                                                *)

\* What was built is what was meant; and obligations have all their slots.
BuiltInv ==
    /\ FarmInv
    /\ Shaped(chain) /\ Shaped(view)
    /\ tx.status = "built" => "status" \in DOMAIN tx /\ CarriesOut(tx.ixs, tx.q)

\* Moves of positions leave the slots.
LEMMA MeantShaped ==
    ASSUME NEW c, Shaped(c), NEW q, NEW d, Positions(d) = Meant(q, c)
    PROVE  Shaped(d)
<1>1. \A s, r, n : /\ DOMAIN AddTo(s, r, n) = DOMAIN s /\ DOMAIN TakeFrom(s, r, n) = DOMAIN s
  BY DEF AddTo, TakeFrom
<1>2. ASSUME NEW s, NEW t, Meant(q, c) = <<s, t>>, DOMAIN s = 1 .. MaxSlots, DOMAIN t = 1 .. MaxSlots
      PROVE  Shaped(d)
  BY <1>2 DEF Positions, Shaped
<1> DEFINE ds == c.deposits
           bs == c.borrows
           deposited == AddTo(ds, q.reserve, (q.amount * RateNum) \div RateDen)
           repaid == TakeFrom(bs, q.reserve, q.amount)
           seized == Least(q.amount, Least(AmountIn(bs, q.reserve), AmountIn(ds, q.outflow)))
           owed1 == with_borrow_fee(q.reserve, q.amount)
           owed2 == with_borrow_fee(q.outflow, q.outAmount)
           n1 == getWithdrawCollateralAmount(q.amount)
           n2 == getWithdrawCollateralAmount(q.outAmount)
           D == {ds, deposited, AddTo(ds, q.reserve, q.amount), TakeFrom(ds, q.reserve, n1),
                 TakeFrom(ds, q.outflow, n2), TakeFrom(ds, q.outflow, seized)}
           B == {bs, AddTo(bs, q.reserve, owed1), repaid, AddTo(bs, q.outflow, owed2),
                 TakeFrom(bs, q.reserve, seized)}
<1>3. \E s \in D, t \in B : Meant(q, c) = <<s, t>>
  <2> DEFINE M == {<<s, t>> : s \in D, t \in B}
  <2>1. \A s \in D, t \in B : <<s, t>> \in M
    OBVIOUS
  <2> DEFINE m == Meant(q, c)
  <2>2. \/ m = <<deposited, bs>>
        \/ m = <<AddTo(ds, q.reserve, q.amount), bs>>
        \/ m = <<ds, AddTo(bs, q.reserve, owed1)>>
        \/ m = <<ds, repaid>>
        \/ m = <<TakeFrom(ds, q.reserve, n1), bs>>
        \/ m = <<deposited, AddTo(bs, q.outflow, owed2)>>
        \/ m = <<TakeFrom(ds, q.outflow, n2), repaid>>
        \/ m = <<TakeFrom(ds, q.outflow, seized), TakeFrom(bs, q.reserve, seized)>>
        \/ m = <<ds, bs>>
    <3> HIDE DEF n1, n2, owed1, owed2, deposited, repaid, seized
    <3> QED
      BY DEF Meant, n1, n2, owed1, owed2, deposited, repaid, seized
  <2> HIDE DEF m, deposited, repaid, seized, n1, n2, owed1, owed2, ds, bs
  <2>3. m \in M
    BY <2>2
  <2> QED
    BY <2>3 DEF m
<1>4. \A s \in D \cup B : DOMAIN s = 1 .. MaxSlots
  <2> HIDE DEF seized, n1, n2, owed1, owed2
  <2> QED
    BY <1>1 DEF Shaped
<1> HIDE DEF D, B
<1> QED
  BY <1>2, <1>3, <1>4

\* Accounts that keep the positions keep the slots.
LEMMA KeepsShaped ==
    ASSUME NEW c, Shaped(c), NEW d, Keeps(c, d) \/ Positions(d) = Positions(c)
    PROVE  Shaped(d)
BY DEF Keeps, Shaped, Positions

\* A new user, and one with positions.
LEMMA StartShaped ==
    ASSUME Init
    PROVE  BuiltInv
<1>1. FarmInv
  BY StartFollows
<1>2. Shaped(chain)
  <2>1. ASSUME NEW b, chain = EmptyChain(b) PROVE Shaped(chain)
    BY <2>1 DEF EmptyChain, Shaped
  <2>2. ASSUME NEW s \in Starts, chain = StartChain(s) PROVE Shaped(chain)
    <3> DEFINE c == [EmptyChain(s.referrer) EXCEPT !.exists = TRUE, !.deposits = s.deposits,
                          !.borrows = s.borrows, !.group = s.group, !.metadata = TRUE]
               users == {f \in Reserves \X Kinds :
                            FarmOf(f[1], f[2]) # NoFarm /\ StakeFor(c, f) > 0}
               S == [f \in users |-> StakeFor(c, f)]
               atas == {Liquidity(r) : r \in Reserves \ NativeReserves}
               states == IF s.referrer THEN ToSet(Keys(s.borrows)) ELSE {}
    <3>1. chain = [c EXCEPT !.stakes = S, !.atas = atas, !.referrerStates = states]
      BY <2>2 DEF StartChain
    <3>2. /\ c.deposits = s.deposits /\ c.borrows = s.borrows
          /\ "deposits" \in DOMAIN c /\ "borrows" \in DOMAIN c
      BY DEF EmptyChain
    <3> HIDE DEF c, S, atas, states
    <3>3. chain.deposits = s.deposits /\ chain.borrows = s.borrows
      BY <3>1, <3>2
    <3>4. DOMAIN s.deposits = 1 .. MaxSlots /\ DOMAIN s.borrows = 1 .. MaxSlots
      BY StartsAssumption
    <3> QED
      BY <3>3, <3>4 DEF Shaped
  <2> QED
    BY <2>1, <2>2 DEF Init
<1>3. Shaped(view)
  <2>1. view.deposits = chain.deposits /\ view.borrows = chain.borrows
    BY DEF Init, Snapshot
  <2> QED
    BY <1>2, <2>1 DEF Shaped
<1>4. tx.status # "built"
  BY DEF Init, NoTx
<1> QED
  BY <1>1, <1>2, <1>3, <1>4 DEF BuiltInv

\* A transaction that is sent and goes through has done what was meant.
LEMMA SendDelivers ==
    ASSUME BuiltInv, Send
    PROVE  /\ tx'.status \in {"committed", "failed"}
           /\ tx'.status = "committed" => Positions(chain') = Meant(tx.q, chain)
           /\ tx'.status = "failed" => Positions(chain') = Positions(chain)
<1> DEFINE c == Now(chain)
           ixs == tx.ixs
           end == Execute(c, ixs)
<1>1. /\ tx.status = "built" /\ Len(ixs) \in Nat /\ chain' = [Now(end) EXCEPT !.lamports = 0]
      /\ tx' = [tx EXCEPT !.status = IF end.error = "" THEN "committed" ELSE "failed",
                          !.error = end.error]
  BY StartsAssumption DEF Send
<1>2. Keeps(chain, c) /\ Succeeds(c)
  BY NowKeeps DEF BuiltInv, FarmInv, Sound
<1>3. Sound(c) /\ InStep(c) /\ Account(c)
  BY <1>2, KeepsInStep DEF BuiltInv, FarmInv, Sound
<1>4. Sound(end)
  BY <1>1, <1>2, <1>3, TransactionFollows
<1>5. PICK f : RunOf(f, c, ixs) /\ end = Committed(c, f[Len(ixs)])
  BY <1>1, ExecuteRun DEF RunOf
<1>6. "status" \in DOMAIN tx /\ CarriesOut(ixs, tx.q)
  BY <1>1 DEF BuiltInv
<1>7. tx'.status = IF Succeeds(end) THEN "committed" ELSE "failed"
  BY <1>1, <1>6 DEF Succeeds
<1> HIDE DEF end, c, ixs
<1>8. Positions(chain') = Positions(end)
  <2>1. Keeps(end, Now(end))
    BY <1>4, NowKeeps DEF Sound
  <2> QED
    BY <1>1, <2>1 DEF Keeps, Account, Fields, Positions
<1>9. \A q : Meant(q, c) = Meant(q, chain)
  <2>1. c.deposits = chain.deposits /\ c.borrows = chain.borrows
    BY <1>2 DEF Keeps
  <2> QED
    BY <2>1 DEF Meant
<1>10. ASSUME Succeeds(end) PROVE Positions(end) = Meant(tx.q, chain)
  <2>1. Succeeds(f[Len(ixs)]) /\ end = f[Len(ixs)]
    <3>1. ASSUME ~Succeeds(f[Len(ixs)]) PROVE FALSE
      <4> DEFINE e == f[Len(ixs)].error
      <4>1. end = [c EXCEPT !.error = e]
        BY <1>5, <3>1 DEF Committed, Succeeds
      <4> HIDE DEF e
      <4>2. end.error = e
        BY <1>3, <4>1 DEF Account, Fields
      <4> QED
        BY <1>10, <3>1, <4>2 DEF Succeeds, e
    <3>2. end = f[Len(ixs)]
      BY <1>5, <3>1 DEF Committed, Succeeds
    <3> QED
      BY <3>1, <3>2
  <2>2. Positions(f[Len(ixs)]) = Meant(tx.q, c)
    BY <1>1, <1>2, <1>3, <1>5, <1>6, <2>1, RunDelivers
  <2> QED
    BY <1>9, <2>1, <2>2
<1>11. ASSUME ~Succeeds(end) PROVE Positions(end) = Positions(chain)
  <2> DEFINE e == f[Len(ixs)].error
  <2>1. end = [c EXCEPT !.error = e]
    BY <1>5, <1>11 DEF Committed, Succeeds
  <2> HIDE DEF e
  <2>2. Positions(end) = Positions(c)
    BY <1>3, <2>1 DEF Account, Fields, Positions
  <2> QED
    BY <1>2, <2>2 DEF Keeps, Positions
<1> QED
  BY <1>7, <1>8, <1>10, <1>11

\* What happens elsewhere leaves the slots.
LEMMA ElsewhereShaped ==
    ASSUME NEW c, Account(c), Shaped(c), Elsewhere(c)
    PROVE  Shaped(chain')
<1>1. chain' = Now(c)
  BY DEF Elsewhere
<1>2. Keeps(c, Now(c))
  BY NowKeeps
<1> QED
  BY <1>1, <1>2, KeepsShaped

\* So does what lending instruction there ever is.
LEMMA MoveShaped ==
    ASSUME NEW c, Shaped(c), NEW ix, NEW d, Slots(d.deposits),
           Positions(d) = MoveOf(ix, Positions(c))
    PROVE  Shaped(d)
<1> DEFINE p == Positions(c)
           m == MoveOf(ix, p)
<1>1. \A s, r, n : /\ DOMAIN AddTo(s, r, n) = DOMAIN s /\ DOMAIN TakeFrom(s, r, n) = DOMAIN s
  BY DEF AddTo, TakeFrom
<1>2. p[2] = c.borrows
  BY DEF Positions
<1> HIDE DEF p
<1>3. \/ m[2] = p[2]
      \/ \E r, n : m[2] = AddTo(p[2], r, n)
      \/ \E r, n : m[2] = TakeFrom(p[2], r, n)
  BY DEF MoveOf
<1> HIDE DEF m
<1>4. d.borrows = m[2]
  BY DEF Positions, m, p
<1>5. DOMAIN d.borrows = 1 .. MaxSlots
  BY <1>1, <1>2, <1>3, <1>4 DEF Shaped
<1> QED
  BY <1>5 DEF Shaped, Slots

\* A transaction that is built is what was meant.
LEMMA BuildMeans ==
    ASSUME BuiltInv, Build
    PROVE  tx'.status = "built" => "status" \in DOMAIN tx' /\ CarriesOut(tx'.ixs, tx'.q)
<1> DEFINE St(a) == IF a.error = "" THEN "built" ELSE "threw"
           Ixs(q, a) == IF a.error # "" THEN <<>>
                        ELSE IF q.viaIxs THEN actionToIxs(a) ELSE getTransactions(a)
           Tx(q, a) == [status |-> St(a), q |-> q, error |-> a.error, ixs |-> Ixs(q, a),
                        from |-> view, rpc |-> Rpc(chain)]
<1>1. PICK q \in Requests : \E a \in {BuildAction(q)} : tx' = Tx(q, a)
  BY DEF Build
<1> DEFINE a == BuildAction(q)
<1>2. Ready(a, q)
  BY BuildsReady DEF BuiltInv
<1> HIDE DEF a, St, Ixs, Tx
<1>3. tx' = Tx(q, a)
  BY <1>1 DEF a
<1>4. "status" \in DOMAIN tx' /\ tx'.q = q /\ tx'.status = St(a) /\ tx'.ixs = Ixs(q, a)
  BY <1>3 DEF Tx
<1>5. ASSUME tx'.status = "built" PROVE CarriesOut(tx'.ixs, tx'.q)
  <2>1. Succeeds(a) /\ tx'.ixs \in {actionToIxs(a), getTransactions(a)}
    BY <1>4, <1>5 DEF Succeeds, St, Ixs
  <2>2. CarriesOut(actionToIxs(a), q) /\ CarriesOut(getTransactions(a), q)
    BY <1>2, <2>1, Assembled DEF Ready
  <2> QED
    BY <1>4, <2>1, <2>2
<1> QED
  BY <1>4, <1>5

\* Every step keeps it so.
LEMMA NextBuilt ==
    ASSUME BuiltInv, [Next]_vars
    PROVE  BuiltInv'
<1>0. FarmInv /\ FarmInv' /\ Account(chain) /\ Shaped(chain) /\ Shaped(view)
  BY NextFollows DEF BuiltInv, FarmInv, Sound
<1>1. ASSUME Elsewhere(chain) \/ (view' = view /\ tx' = tx), Shaped(chain') PROVE BuiltInv'
  BY <1>0, <1>1 DEF BuiltInv, Elsewhere
<1>2. CASE Load
  <2>1. /\ view'.deposits = chain.deposits /\ view'.borrows = chain.borrows
        /\ chain' = chain /\ tx'.status # "built"
    BY <1>2 DEF Load, Snapshot, NoTx
  <2>2. Shaped(view')
    BY <1>0, <2>1 DEF Shaped
  <2> QED
    BY <1>0, <2>1, <2>2 DEF BuiltInv
<1>3. CASE Build
  <2>1. chain' = chain /\ view' = view
    BY <1>3 DEF Build
  <2> QED
    BY <1>0, <1>3, <2>1, BuildMeans DEF BuiltInv
<1>4. CASE Send
  <2>1. /\ tx'.status \in {"committed", "failed"}
        /\ Positions(chain') \in {Meant(tx.q, chain), Positions(chain)}
    BY <1>4, SendDelivers
  <2>2. Shaped(chain')
    BY <1>0, <2>1, MeantShaped, KeepsShaped
  <2>3. view' = view
    BY <1>4 DEF Send
  <2> QED
    BY <1>0, <2>1, <2>2, <2>3 DEF BuiltInv
<1>5. CASE Accrue
  <2>1. PICK i \in 1 .. MaxSlots : Elsewhere([chain EXCEPT !.borrows[i].amount = @ + 1])
    BY <1>5 DEF Accrue
  <2> DEFINE c == [chain EXCEPT !.borrows[i].amount = @ + 1]
  <2>2. Account(c) /\ c.deposits = chain.deposits /\ DOMAIN c.borrows = DOMAIN chain.borrows
    BY <1>0 DEF Account, Fields
  <2>3. Shaped(c)
    BY <1>0, <2>2 DEF Shaped
  <2> HIDE DEF c
  <2>4. Shaped(chain')
    BY <2>1, <2>2, <2>3, ElsewhereShaped DEF c
  <2> QED
    BY <1>1, <2>1, <2>4 DEF Elsewhere
<1>6. CASE LendElsewhere
  <2>1. PICK c, ix : /\ Sound(c) /\ Elsewhere(c)
                     /\ Positions(c) = MoveOf(ix, Positions(chain))
    BY <1>0, <1>6, LendElsewhereMoves
  <2>2. Account(c) /\ Shaped(c)
    BY <1>0, <2>1, MoveShaped DEF Sound
  <2>3. Shaped(chain')
    BY <2>1, <2>2, ElsewhereShaped
  <2> QED
    BY <1>1, <2>1, <2>3 DEF Elsewhere
<1>7. CASE GroupElsewhere
  <2>1. PICK c : Holds(chain, c) /\ c.borrows = chain.borrows /\ Elsewhere(c)
    BY <1>0, <1>7, GroupElsewhereHolds
  <2>2. Account(c) /\ Shaped(c)
    BY <1>0, <2>1 DEF Holds, Shaped
  <2>3. Shaped(chain')
    BY <2>1, <2>2, ElsewhereShaped
  <2> QED
    BY <1>1, <2>1, <2>3 DEF Elsewhere
<1>8. CASE WrapElsewhere
  <2>1. PICK c : Keeps(chain, c) /\ Elsewhere(c)
    BY <1>0, <1>8, WrapElsewhereKeeps
  <2>2. Shaped(chain')
    BY <1>0, <2>1, KeepsAccount, KeepsShaped, ElsewhereShaped
  <2> QED
    BY <1>1, <2>1, <2>2 DEF Elsewhere
<1>9. CASE UNCHANGED vars
  BY <1>0, <1>9 DEF vars, BuiltInv
<1> QED
  BY <1>2, <1>3, <1>4, <1>5, <1>6, <1>7, <1>8, <1>9 DEF Next

\* However old the data a transaction was built from and whatever has happened since, if
\* it goes through it has made of the positions, as they were then, exactly what its
\* request means.
THEOREM CommitsAsMeant == Spec => CommitsWhatWasMeant
<1>1. Init => BuiltInv
  BY StartShaped
<1>2. BuiltInv /\ [Next]_vars => BuiltInv'
  BY NextBuilt
<1>3. BuiltInv /\ [Next]_vars
         => [Send /\ tx'.status = "committed" => Positions(chain') = Meant(tx.q, chain)]_vars
  BY SendDelivers
<1> QED
  BY <1>1, <1>2, <1>3, PTL DEF Spec, CommitsWhatWasMeant

=============================================================================
