---------------------------- MODULE DebtTrackers ----------------------------
(***************************************************************************)
(* Elevation groups and the counters that limit what may be borrowed in     *)
(* them.  A reserve counts, per group, the debt that obligations of the     *)
(* group have taken against collateral in it, and the debt taken from it    *)
(* outside all groups.  An obligation remembers what it has contributed to  *)
(* each counter.  Both sides are changed by different instructions, in      *)
(* whole tokens rounded up, while debts are fractions that grow; the        *)
(* counters are lowered with a saturating subtraction that hides a          *)
(* disagreement instead of reporting it.                                    *)
(*                                                                         *)
(* What collateral and debt are worth is left to the environment: a borrow, *)
(* withdrawal or liquidation may have any amount.  Interest is any of       *)
(* Interests, once per slot (Reserve shows that a fresh debt is current).   *)
(***************************************************************************)
EXTENDS Fraction, FiniteSets, Functions

CONSTANTS
    Obligations,
    Reserves,
    Groups,          \* ids of the elevation groups
    NoGroup,         \* ELEVATION_GROUP_NONE
    DebtReserve,     \* [Groups -> Reserves]: elevation_group.debt_reserve
    Members,         \* [Groups -> SUBSET Reserves]: config.elevation_groups
    MaxCollaterals,  \* [Groups -> Nat]: max_reserves_as_collateral
    EmodeOnly,       \* reserves with disable_usage_as_coll_outside_emode
    GroupLimit,      \* [Reserves -> [Groups -> Nat]]:
                     \* borrow_limit_against_this_collateral_in_elevation_group
    OutsideLimit,    \* [Reserves -> Nat]: borrow_limit_outside_elevation_group
    Dust,            \* the largest debt, sf, whose market value rounds to zero
    Borrows,         \* sf amounts that may be borrowed
    Repays,          \* token amounts that may be repaid or forgiven
    Interests,       \* sf amounts of interest between two refreshes
    MaxDebt          \* bound: the largest debt explored, sf

ASSUME TrackerAssumption ==
    /\ IsFiniteSet(Obligations)
    /\ NoGroup \notin Groups
    /\ DebtReserve \in [Groups -> Reserves]
    /\ Members \in [Groups -> SUBSET Reserves]
    /\ MaxCollaterals \in [Groups -> Nat]
    /\ EmodeOnly \subseteq Reserves
    /\ GroupLimit \in [Reserves -> [Groups -> Nat]]
    /\ OutsideLimit \in [Reserves -> Nat]
    /\ Dust \in Nat
    /\ Borrows \subseteq Nat \ {0} /\ Repays \subseteq Nat \ {0}
    /\ Interests \subseteq Nat /\ MaxDebt \in Nat

VARIABLES
    obligation,     \* [Obligations -> obligation record]
    against_total,  \* [Reserves -> [Groups -> Nat]]:
                    \* borrowed_amounts_against_this_reserve_in_elevation_groups
    outside_total   \* [Reserves -> Nat]: borrowed_amount_outside_elevation_group

vars == <<obligation, against_total, outside_total>>

\* `due': a slot has passed since the last refresh; `stale': used since then.
Freshness == {"due", "stale", "fresh"}

ObligationType ==
    [group : Groups \cup {NoGroup},
     deposited : SUBSET Reserves,
     against : [Reserves -> Nat],    \* borrowed_amount_against_this_collateral_...
     debt : [Reserves -> Nat],       \* borrowed_amount_sf
     outside : [Reserves -> Nat],    \* borrowed_amount_outside_elevation_groups
     borrowing_disabled : BOOLEAN,
     freshness : Freshness]

TypeOK ==
    /\ obligation \in [Obligations -> ObligationType]
    /\ against_total \in [Reserves -> [Groups -> Nat]]
    /\ outside_total \in [Reserves -> Nat]

Zero == [r \in Reserves |-> 0]

\* init_obligation; also what a closed obligation is when it is used again
NewObligation ==
    [group |-> NoGroup, deposited |-> {}, against |-> Zero, debt |-> Zero,
     outside |-> Zero, borrowing_disabled |-> FALSE, freshness |-> "due"]

Init ==
    /\ obligation = [o \in Obligations |-> NewObligation]
    /\ against_total = [r \in Reserves |-> [g \in Groups |-> 0]]
    /\ outside_total = Zero

Debts(b) == {r \in Reserves : b.debt[r] > 0}

\* borrow_factor_adjusted_debt_value_sf > 0
HasDebtValue(b) == \E r \in Reserves : b.debt[r] > Dust

\* Mutant: a fraction of a token is not counted.
GroupDebtFloor(b, g) == ToFloor(b.debt[DebtReserve[g]])

\* The debt counted against each collateral of an obligation in group g.
GroupDebt(b, g) == ToCeil(b.debt[DebtReserve[g]])
-----------------------------------------------------------------------------
(* Refreshing.                                                              *)

\* The conditions under which an obligation can be in group g.
FitsGroup(b, g) ==
    g # NoGroup =>
        /\ Debts(b) \subseteq Members[g] \cap {DebtReserve[g]}
        /\ b.deposited \subseteq Members[g] \ {DebtReserve[g]}
        /\ Cardinality(b.deposited) <= MaxCollaterals[g]

Retrack(total, old, new) == SaturatingSub(total, old) + new

\* Mutant: the flag is not computed again.
BorrowingDisabledAsBefore(b, g) == b.borrowing_disabled

BorrowingDisabled(b, g) == g = NoGroup /\ b.deposited \cap EmodeOnly # {}

\* What refresh_obligation_borrows and _deposits do for group g: replace every
\* contribution of the obligation by the debt it has now.
Tracked(b, g) ==
    [b EXCEPT
       !.against = [r \in Reserves |->
          IF g # NoGroup /\ r \in b.deposited THEN GroupDebt(b, g) ELSE @[r]],
       !.outside = [r \in Reserves |->
          IF g = NoGroup /\ r \in Debts(b) THEN ToCeil(b.debt[r]) ELSE @[r]],
       !.borrowing_disabled = BorrowingDisabled(b, g)]

AgainstTracked(totals, b, g) ==
    [r \in Reserves |-> [q \in Groups |->
       IF q = g /\ r \in b.deposited
       THEN Retrack(totals[r][q], b.against[r], GroupDebt(b, g))
       ELSE totals[r][q]]]

OutsideTracked(totals, b, g) ==
    [r \in Reserves |->
       IF g = NoGroup /\ r \in Debts(b)
       THEN Retrack(totals[r], b.outside[r], ToCeil(b.debt[r]))
       ELSE totals[r]]

\* ObligationLiquidity::accrue_interest on every position
WithInterest(b, interest) ==
    [b EXCEPT !.debt = [r \in Reserves |->
                          IF r \in Debts(b) THEN @[r] + interest[r] ELSE 0]]

RefreshObligation(o, interest) ==
    LET b == WithInterest(obligation[o], interest)
    IN /\ obligation[o].freshness # "due" => interest = Zero
       /\ \A r \in Reserves : b.debt[r] <= MaxDebt
       /\ FitsGroup(b, b.group)
       /\ obligation' = [obligation EXCEPT
             ![o] = [Tracked(b, b.group) EXCEPT !.freshness = "fresh"]]
       /\ against_total' = AgainstTracked(against_total, b, b.group)
       /\ outside_total' = OutsideTracked(outside_total, b, b.group)
-----------------------------------------------------------------------------
(* Collateral.                                                              *)

Fresh(o) == obligation[o].freshness = "fresh"

Used(b) == [b EXCEPT !.freshness = "stale"]

\* update_elevation_group_debt_trackers_on_new_deposit: all debt counts against r.
OnNewDeposit(b, r) ==
    [b EXCEPT !.deposited = @ \cup {r}, !.against[r] = GroupDebt(b, b.group)]

\* deposit_obligation_collateral; more of a collateral it already has changes
\* no counter, and a new one is counted without asking for its limit.
DepositObligationCollateral(o, r) ==
    LET b == obligation[o]
        g == b.group
    IN /\ Fresh(o)
       /\ g = NoGroup /\ r \in EmodeOnly => ~HasDebtValue(b)
       /\ g # NoGroup => r \in Members[g]
       /\ IF r \in b.deposited \/ g = NoGroup
          THEN /\ obligation' = [obligation EXCEPT
                     ![o] = Used([b EXCEPT !.deposited = @ \cup {r}])]
               /\ UNCHANGED against_total
          ELSE /\ r # DebtReserve[g]
               /\ Cardinality(b.deposited) + 1 <= MaxCollaterals[g]
               /\ obligation' = [obligation EXCEPT
                     ![o] = Used(OnNewDeposit(b, r))]
               /\ against_total' = [against_total EXCEPT ![r][g] = @ + GroupDebt(b, g)]
       /\ UNCHANGED outside_total

\* The obligation and the counters after collateral d is gone.
WithoutCollateral(b, d) ==
    [b EXCEPT !.deposited = @ \ {d}, !.against[d] = 0]
AgainstWithout(totals, b, d) ==
    IF b.group = NoGroup THEN totals
    ELSE [totals EXCEPT ![d][b.group] = SaturatingSub(@, b.against[d])]

\* withdraw_obligation_collateral of all of d; the handler closes an obligation
\* that has become empty.
WithdrawAll(o, d) ==
    LET b == obligation[o]
        left == WithoutCollateral(b, d)
    IN /\ Fresh(o) /\ d \in b.deposited
       /\ obligation' = [obligation EXCEPT ![o] =
             IF left.deposited = {} /\ Debts(left) = {} THEN NewObligation
             ELSE Used(left)]
       /\ against_total' = AgainstWithout(against_total, b, d)
       /\ UNCHANGED outside_total

WithdrawSome(o, d) ==
    /\ Fresh(o) /\ d \in obligation[o].deposited
    /\ obligation' = [obligation EXCEPT ![o] = Used(@)]
    /\ UNCHANGED <<against_total, outside_total>>
-----------------------------------------------------------------------------
(* Debt.                                                                    *)

BorrowObligationLiquidity(o, r, borrow_f) ==
    LET b == obligation[o]
        g == b.group
        amount == ToCeil(borrow_f)
        lent == [b EXCEPT !.debt[r] = @ + borrow_f]
    IN /\ Fresh(o) /\ b.deposited # {}
       /\ lent.debt[r] <= MaxDebt
       /\ \/ /\ g # NoGroup
             /\ r \in Members[g] /\ r = DebtReserve[g]
             /\ \A d \in b.deposited : against_total[d][g] + amount <= GroupLimit[d][g]
             /\ obligation' = [obligation EXCEPT ![o] =
                   Used([lent EXCEPT !.against = [d \in Reserves |->
                           IF d \in b.deposited THEN @[d] + amount ELSE @[d]]])]
             /\ against_total' = [d \in Reserves |->
                   IF d \in b.deposited
                   THEN [against_total[d] EXCEPT ![g] = @ + amount]
                   ELSE against_total[d]]
             /\ UNCHANGED outside_total
          \/ /\ g = NoGroup
             /\ ~b.borrowing_disabled
             /\ outside_total[r] + amount <= OutsideLimit[r]
             /\ obligation' = [obligation EXCEPT ![o] =
                   Used([lent EXCEPT !.outside[r] = @ + amount])]
             /\ outside_total' = [outside_total EXCEPT ![r] = @ + amount]
             /\ UNCHANGED against_total

\* update_elevation_group_debt_trackers_on_repay, obligation and counters
RepaidTrackers(b, r, amount) ==
    IF b.group # NoGroup
    THEN [b EXCEPT !.against = [d \in Reserves |->
             IF d \in b.deposited THEN SaturatingSub(@[d], amount) ELSE @[d]]]
    ELSE [b EXCEPT !.outside[r] = SaturatingSub(@, amount)]
AgainstRepaid(totals, b, amount) ==
    IF b.group = NoGroup THEN totals
    ELSE [d \in Reserves |->
            IF d \in b.deposited
            THEN [totals[d] EXCEPT ![b.group] = SaturatingSub(@, amount)]
            ELSE totals[d]]
OutsideRepaid(totals, b, r, amount) ==
    IF b.group = NoGroup THEN [totals EXCEPT ![r] = SaturatingSub(@, amount)]
    ELSE totals

\* obligation.repay: a settled position is erased, its contribution with it.
Settled(b, r, settle_f) ==
    IF settle_f = b.debt[r]
    THEN [b EXCEPT !.debt[r] = 0, !.outside[r] = 0]
    ELSE [b EXCEPT !.debt[r] = @ - settle_f]

\* Mutant: more may be repaid than is owed.
SettlementsUncapped(b, r) == {FromInt(a) : a \in Repays} \cup {b.debt[r]}

\* What a repayment may settle: whole tokens, or the whole debt.
Settlements(b, r) ==
    {MinOf(FromInt(a), b.debt[r]) : a \in Repays} \cup {b.debt[r]}

\* repay_obligation_liquidity, and socialize_loss when there is no collateral.
RepayObligationLiquidity(o, r, settle_f) ==
    LET b == obligation[o]
        amount == ToCeil(settle_f)
    IN /\ Fresh(o)
       /\ r \in Debts(b) /\ settle_f > 0
       /\ obligation' = [obligation EXCEPT
             ![o] = Used(Settled(RepaidTrackers(b, r, amount), r, settle_f))]
       /\ against_total' = AgainstRepaid(against_total, b, amount)
       /\ outside_total' = OutsideRepaid(outside_total, b, r, amount)

\* Mutant: the contribution is remembered before the repayment lowers it.
SeizedFromStale(b, repaid) == b

\* What a liquidation gives back to the counter of a collateral it exhausts:
\* the contribution as the repayment just before has left it.
SeizedFrom(b, repaid) == repaid

\* liquidate_obligation: repayment, then collateral d, all of it or some.
LiquidateObligation(o, r, settle_f, d, all) ==
    LET b == obligation[o]
        amount == ToCeil(settle_f)
        repaid == RepaidTrackers(b, r, amount)
        against == AgainstRepaid(against_total, b, amount)
        settled == Settled(repaid, r, settle_f)
    IN /\ Fresh(o) /\ d \in b.deposited
       /\ settle_f > 0 /\ settle_f <= b.debt[r]
       /\ obligation' = [obligation EXCEPT
             ![o] = Used(IF all THEN WithoutCollateral(settled, d) ELSE settled)]
       /\ against_total' = IF all THEN AgainstWithout(against, SeizedFrom(b, repaid), d)
                           ELSE against
       /\ outside_total' = OutsideRepaid(outside_total, b, r, amount)
-----------------------------------------------------------------------------
(* Changing the group.                                                      *)

\* Mutant: the obligation keeps what its counters have given back.
UntrackedForgotten(b) == b

\* reset_elevation_group_debts: the obligation takes back what it contributed.
Untracked(b) ==
    IF b.group # NoGroup
    THEN [b EXCEPT !.against = [r \in Reserves |->
                                  IF r \in b.deposited THEN 0 ELSE @[r]]]
    ELSE [b EXCEPT !.outside = [r \in Reserves |->
                                  IF r \in Debts(b) THEN 0 ELSE @[r]]]
AgainstUntracked(totals, b) ==
    IF b.group = NoGroup THEN totals
    ELSE [r \in Reserves |->
            IF r \in b.deposited
            THEN [totals[r] EXCEPT ![b.group] = SaturatingSub(@, b.against[r])]
            ELSE totals[r]]
OutsideUntracked(totals, b) ==
    IF b.group # NoGroup THEN totals
    ELSE [r \in Reserves |->
            IF r \in Debts(b) THEN SaturatingSub(totals[r], b.outside[r])
            ELSE totals[r]]

\* check_elevation_group_borrow_limit_constraints
WithinBorrowLimits(b, g, against, outside) ==
    IF g = NoGroup
    THEN /\ \A r \in Debts(b) : outside[r] <= OutsideLimit[r]
         /\ Debts(b) # {} => ~b.borrowing_disabled
    ELSE \A r \in b.deposited : against[r][g] <= GroupLimit[r][g]

RequestElevationGroup(o, g) ==
    LET b == obligation[o]
        clean == Untracked(b)
    IN /\ Fresh(o) /\ b.deposited # {}
       /\ g # b.group
       /\ g # NoGroup => MaxCollaterals[g] > 0
       /\ FitsGroup(b, g)
       /\ obligation' = [obligation EXCEPT
             ![o] = Used([Tracked(clean, g) EXCEPT !.group = g])]
       /\ against_total' = AgainstTracked(AgainstUntracked(against_total, b), clean, g)
       /\ outside_total' = OutsideTracked(OutsideUntracked(outside_total, b), clean, g)
       /\ WithinBorrowLimits(obligation'[o], g, against_total', outside_total')

NewSlot ==
    /\ obligation' = [o \in Obligations |->
                        [obligation[o] EXCEPT !.freshness = "due"]]
    /\ UNCHANGED <<against_total, outside_total>>

-----------------------------------------------------------------------------
Refresh(o) ==
    \E interest \in [Reserves -> Interests \cup {0}] : RefreshObligation(o, interest)

Next ==
    \/ NewSlot
    \/ \E o \in Obligations :
          \/ Refresh(o)
          \/ \E r \in Reserves :
                \/ DepositObligationCollateral(o, r)
                \/ WithdrawAll(o, r)
                \/ WithdrawSome(o, r)
                \/ \E f \in Borrows : BorrowObligationLiquidity(o, r, f)
                \/ \E f \in Settlements(obligation[o], r) : RepayObligationLiquidity(o, r, f)
                \/ \E f \in 1..obligation[o].debt[r], d \in Reserves, all \in BOOLEAN :
                      LiquidateObligation(o, r, f, d, all)
          \/ \E g \in Groups \cup {NoGroup} : RequestElevationGroup(o, g)

Spec == Init /\ [][Next]_vars
-----------------------------------------------------------------------------
(* Properties.                                                              *)

\* What obligation o has contributed to the counter of collateral r in group g.
Contribution(o, r, g) ==
    IF obligation[o].group = g THEN obligation[o].against[r] ELSE 0

\* Every counter of a reserve is the sum of what the obligations remember to
\* have put into it: no sequence of borrows, repayments, seizures, deposits and
\* changes of group loses or leaks a contribution through the saturating
\* subtractions of update_elevation_group_debt_trackers_on_repay,
\* _on_full_withdraw, refresh_obligation_* and reset_elevation_group_debts.
TrackersAreSums ==
    \A r \in Reserves :
        /\ \A g \in Groups :
              against_total[r][g] =
                SumFunction([o \in Obligations |-> Contribution(o, r, g)])
        /\ outside_total[r] =
              SumFunction([o \in Obligations |-> obligation[o].outside[r]])

\* A refreshed obligation contributes its exact debt, in tokens rounded up, to
\* each counter it belongs to and nothing to any other: the premise under which
\* update_elevation_group_debt_trackers_on_repay may subtract.
FreshTrackersExact ==
    \A o \in Obligations : Fresh(o) =>
        LET b == obligation[o]
        IN \A r \in Reserves :
             /\ b.against[r] = IF b.group # NoGroup /\ r \in b.deposited
                               THEN GroupDebt(b, b.group) ELSE 0
             /\ b.outside[r] = IF b.group = NoGroup THEN ToCeil(b.debt[r]) ELSE 0

\* An obligation whose group was just chosen or whose debt was just raised by a
\* borrow (a refresh, which adds interest, ends fresh).
TookDebt(o) ==
    LET b == obligation[o]
    IN /\ obligation'[o].freshness = "stale"
       /\ \/ \E r \in Reserves : obligation'[o].debt[r] > b.debt[r]
          \/ obligation'[o].group # b.group

\* The debt really owed against collateral r in group g, after the step.
ExposureAfter(r, g) ==
    SumFunction([o \in Obligations |->
        IF obligation'[o].group = g /\ r \in obligation'[o].deposited
        THEN ToCeil(obligation'[o].debt[DebtReserve[g]]) ELSE 0])

\* The obligations besides o that are not refreshed: each may owe a token more
\* than it contributes, from a liquidation that settled a fraction of one.
Unrefreshed(o) == {p \in Obligations \ {o} : ~Fresh(p)}

\* Taking debt in a group, by a borrow or by entering it, leaves the debt really
\* owed against every collateral used within that collateral's limit, up to one
\* token for each other obligation that is not refreshed: the limits that
\* update_elevation_group_debt_trackers_on_borrow and
\* check_elevation_group_borrow_limit_constraints check are on counters, this is
\* on debts.
ExposureWithinLimit ==
    [][\A o \in Obligations : TookDebt(o) =>
         LET b == obligation'[o]
         IN b.group # NoGroup =>
              \A r \in b.deposited :
                 ExposureAfter(r, b.group)
                    <= GroupLimit[r][b.group] + Cardinality(Unrefreshed(o))]_vars

\* Collateral that counts only inside a group never backs debt taken outside:
\* not when it was deposited after the flag borrowing_disabled was computed, nor
\* when an obligation leaves its group with debt.
EmodeCollateralBacksNoOutsideDebt ==
    [][\A o \in Obligations :
         LET b == obligation'[o]
         IN TookDebt(o) /\ b.group = NoGroup /\ Debts(b) # {}
              => b.deposited \cap EmodeOnly = {}]_vars

=============================================================================
