----------------------------- MODULE KlendChain -----------------------------
(***************************************************************************)
(* What the program makes of the transactions KaminoAction builds: one        *)
(* operator per handler, from the accounts before an instruction to the        *)
(* accounts after it, and their fold over a transaction. A handler that        *)
(* returns an error names it in "error", and the whole transaction is undone.  *)
(*                                                                          *)
(* Kept of the handlers: the position and account checks of check_refresh,     *)
(* the remaining accounts, freshness, the obligation's slots, the stakes in    *)
(* the farms, the existence of the token accounts and the balances of the      *)
(* tracked ones. Health, limits and prices are left out: a transaction  *)
(* here fails only for what its sender wrote into it.                           *)
(***************************************************************************)
EXTENDS KaminoAction

CONSTANTS Tracked,   \* the reserves whose token account of the user has its balance modelled
          MaxSlots,  \* slots of the obligation's deposits and of its borrows
          BorrowFee, \* reserve -> its origination fee, as <<numerator, denominator>>
          FlashFee   \* reserve -> its flash loan fee

ASSUME SlotsAssumption == MaxSlots \in Nat

\* the accounts of one user before any instruction; obligation accounts have a
\* fixed number of slots and a removed position leaves a hole
EmptySlot == [reserve |-> NullKey, amount |-> 0]

EmptyChain(referred) ==
    [exists |-> FALSE, deposits |-> [i \in 1 .. MaxSlots |-> EmptySlot],
     borrows |-> [i \in 1 .. MaxSlots |-> EmptySlot], group |-> 0, referrer |-> referred,
     resFresh |-> {}, obFresh |-> FALSE, stakes |-> [f \in {} |-> 0], atas |-> {},
     lamports |-> 0, sol |-> 0, bal |-> [r \in Tracked |-> 0], referrerStates |-> {}, metadata |-> FALSE, error |-> ""]

Snapshot(c) == [exists |-> c.exists, deposits |-> c.deposits, borrows |-> c.borrows,
                group |-> c.group, referrer |-> c.referrer]

\* what getAccountInfo tells a builder
Rpc(c) == [referrer |-> c.referrer, farmUsers |-> DOMAIN c.stakes,
           referrerStates |-> c.referrerStates, metadata |-> c.metadata, atas |-> c.atas]

\* a transaction runs in a later slot than the ones before it
Now(c) == [c EXCEPT !.resFresh = {}, !.obFresh = FALSE, !.sol = 0, !.error = ""]

Fail(c, e) == IF c.error = "" THEN [c EXCEPT !.error = e] ELSE c
Require(c, p, e) == IF p THEN c ELSE Fail(c, e)

Stale(c, r) == [c EXCEPT !.resFresh = @ \ {r}, !.obFresh = FALSE]

-----------------------------------------------------------------------------
(* check_refresh: neighbours of a V1 instruction in the transaction *)

SameKeys(ix, name, keyAt) ==
    /\ ix.ix = name
    /\ \A k \in keyAt : ix.keys[k[1]] = k[2]

IsRefreshReserve(ix, r) == SameKeys(ix, "refreshReserve", {<<1, r>>})
IsRefreshObligation(ix) == SameKeys(ix, "refreshObligation", {<<2, Obligation>>})
IsRefreshFarm(ix, f) ==
    SameKeys(ix, "refreshObligationFarmsForReserve",
             {<<2, Obligation>>, <<4, f[1]>>, <<5, FarmOf(f[1], f[2])>>})

\* pairs: the reserves of the instruction, each with the kind of its farm
RequiredFarms(pairs) ==
    LET Required(p) == IF FarmOf(p[1], p[2]) = NoFarm THEN <<>> ELSE <<p>>
    IN IF Len(pairs) = 1 THEN Required(pairs[1]) ELSE Required(pairs[1]) \o Required(pairs[2])

check_refresh(ixs, i, pairs) ==
    LET n == IF Len(pairs) = 2 /\ pairs[1][1] = pairs[2][1] THEN 1 ELSE Len(pairs)
        farms == RequiredFarms(pairs)
        m == Len(farms)
        first == i - (n + 1 + m)
    IN /\ first >= 1
       /\ i + m <= Len(ixs)
       /\ \A k \in 1 .. n : IsRefreshReserve(ixs[first + k - 1], pairs[k][1])
       /\ IsRefreshObligation(ixs[first + n])
       /\ \A k \in 1 .. m : /\ IsRefreshFarm(ixs[first + n + k], farms[k])
                            /\ IsRefreshFarm(ixs[i + k], farms[k])

\* the farm accounts a V2 instruction must carry instead
FarmsGiven(ix, pairs) == \A p \in ToSet(RequiredFarms(pairs)) : p \in ix.farms

-----------------------------------------------------------------------------
(* Farms: the stake of an obligation follows its position *)

StakeFor(c, f) ==
    IF ~c.exists THEN 0
    ELSE AmountIn(IF f[2] = "Collateral" THEN c.deposits ELSE c.borrows, f[1])

\* an obligation with positions, farms in step with them and its accounts in place
StartChain(s) ==
    LET c == [EmptyChain(s.referrer) EXCEPT !.exists = TRUE, !.deposits = s.deposits, !.borrows = s.borrows,
                                !.group = s.group, !.metadata = TRUE]
        users == {f \in Reserves \X Kinds : FarmOf(f[1], f[2]) # NoFarm /\ StakeFor(c, f) > 0}
    IN [c EXCEPT !.stakes = [f \in users |-> StakeFor(c, f)],
                 !.atas = {Liquidity(r) : r \in Reserves \ NativeReserves},
                 !.referrerStates = IF s.referrer THEN ToSet(Keys(s.borrows)) ELSE {}]

\* the reserve must have a farm of the kind that is asked for, and it be the one passed
refresh_obligation_farms_for_reserve(c, ix) ==
    LET f == <<ix.keys[4], ix.kind>>
        farm == FarmOf(f[1], f[2])
    IN IF farm = NoFarm THEN Fail(c, "NoFarmForReserve")
       ELSE IF ix.keys[5] # farm THEN Fail(c, "InvalidAccountInput")
       ELSE IF f \notin DOMAIN c.stakes THEN Fail(c, "no farm user state")
       ELSE [c EXCEPT !.stakes[f] = StakeFor(c, f)]

\* before and after the effect of a V2 instruction the effect runs between two
\* refreshes; the second one is what remains visible
WithFarmsRefreshed(c, pairs) ==
    LET farms == ToSet(RequiredFarms(pairs))
        users == DOMAIN c.stakes
    IN IF farms \subseteq users
       THEN [c EXCEPT !.stakes = [f \in users |-> IF f \in farms THEN StakeFor(c, f) ELSE c.stakes[f]]]
       ELSE Fail(c, "no farm user state")

-----------------------------------------------------------------------------
(* Obligation slots *)

SlotOf(slots, r) == CHOOSE i \in DOMAIN slots : slots[i].reserve = r
FreeSlot(slots) ==
    CHOOSE i \in DOMAIN slots : /\ slots[i].reserve = NullKey
                                /\ \A j \in DOMAIN slots : j < i => slots[j].reserve # NullKey

AddTo(slots, r, amount) ==
    LET i == IF HasPosition(slots, r) THEN SlotOf(slots, r) ELSE FreeSlot(slots)
    IN [slots EXCEPT ![i] = [reserve |-> r, amount |-> @.amount + amount]]

TakeFrom(slots, r, amount) ==
    LET i == SlotOf(slots, r)
    IN [slots EXCEPT ![i] = IF @.amount <= amount THEN EmptySlot
                            ELSE [reserve |-> r, amount |-> @.amount - amount]]

\* deposits_empty, borrows_empty
NoPosition(slots) == \A i \in DOMAIN slots : slots[i].reserve = NullKey

HasRoom(slots, r) == HasPosition(slots, r) \/ HasPosition(slots, NullKey)
Least(x, y) == IF x <= y THEN x ELSE y

-----------------------------------------------------------------------------
(* Refreshes *)

ExpectedRemaining(c) ==
    LET borrows == Keys(c.borrows)
    IN Keys(c.deposits) \o borrows
       \o IF c.referrer THEN [i \in DOMAIN borrows |-> ReferrerTokenState[borrows[i]]]
                        ELSE <<>>

PositionsFresh(c) == ToSet(Keys(c.deposits) \o Keys(c.borrows)) \subseteq c.resFresh

refresh_obligation(c, remaining) ==
    IF ~c.exists THEN Fail(c, "no obligation")
    ELSE IF Len(remaining) # Len(ExpectedRemaining(c)) THEN Fail(c, "InvalidAccountInput")
    ELSE IF remaining # ExpectedRemaining(c) THEN Fail(c, "InvalidAccountInput")
    ELSE IF ~PositionsFresh(c) THEN Fail(c, "ReserveStale")
    ELSE [c EXCEPT !.obFresh = TRUE]

InElevationGroup(c, g) ==
    /\ \A r \in ToSet(Keys(c.deposits)) : Contains(ReserveGroups[r], g)
    /\ \A r \in ToSet(Keys(c.borrows)) : Contains(ReserveGroups[r], g) /\ GroupDebtReserve[g] = r

request_elevation_group(c, g, remaining) ==
    IF ~c.exists THEN Fail(c, "no obligation")
    ELSE IF remaining # ExpectedRemaining(c) THEN Fail(c, "InvalidAccountInput")
    ELSE IF ~c.obFresh THEN Fail(c, "ObligationStale")
    ELSE IF NoPosition(c.deposits) THEN Fail(c, "ObligationDepositsEmpty")
    ELSE IF c.group = g THEN Fail(c, "ElevationGroupAlreadyActivated")
    ELSE IF ~PositionsFresh(c) THEN Fail(c, "ReserveStale")
    ELSE IF g # 0 /\ ~InElevationGroup(c, g) THEN Fail(c, "InconsistentElevationGroup")
    ELSE [c EXCEPT !.group = g, !.obFresh = FALSE]

-----------------------------------------------------------------------------
(* Lending operations *)

CheckFresh(c, r) ==
    Require(Require(Require(c, c.exists, "no obligation"),
                    r \in c.resFresh, "ReserveStale"), c.obFresh, "ObligationStale")

\* the group's debt is tracked on each deposit reserve, passed in slot order
CheckGroupReserves(c, remaining) ==
    LET n == Len(Keys(c.deposits))
    IN Require(c, c.group = 0 \/ (/\ Len(remaining) >= n
                                  /\ SubSeq(remaining, 1, n) = Keys(c.deposits)),
               "InvalidAccountInput")

CheckAccounts(c, ix) == Require(c, ix.accounts \subseteq c.atas, "AccountNotInitialized")

\* a transfer out of and into the user's token account
Pay(c, r, amount) ==
    IF r \notin Tracked THEN c
    ELSE IF c.bal[r] < amount THEN Fail(c, "InsufficientFunds")
    ELSE [c EXCEPT !.bal[r] = @ - amount]
Receive(c, r, amount) == IF r \in Tracked THEN [c EXCEPT !.bal[r] = @ + amount] ELSE c

\* calculate_fees at a rate: rounded half up, and at least one; before it is rounded it
\* must leave something of the amount
fee_of(rate, amount) ==
    IF rate[1] = 0 \/ amount = 0 THEN 0
    ELSE Max({1, (2 * amount * rate[1] + rate[2]) \div (2 * rate[2])})
fee_leaves(rate, amount) == rate[1] = 0 \/ amount = 0 \/ (amount > 1 /\ rate[1] < rate[2])

\* what is owed for an amount received
with_borrow_fee(r, amount) == amount + fee_of(BorrowFee[r], amount)

deposit_obligation_collateral(c0, r, collateral) ==
    LET fresh == [c0 EXCEPT !.resFresh = @ \cup {r}]
        c1 == Require(CheckFresh(fresh, r), collateral > 0, "InvalidAmount")
        c2 == Require(c1, c1.group = 0 \/ Contains(ReserveGroups[r], c1.group),
                      "InconsistentElevationGroup")
        c == Require(c2, HasRoom(c2.deposits, r), "ObligationReserveLimit")
    IN IF c.error # "" THEN c
       ELSE Stale([c EXCEPT !.deposits = AddTo(@, r, collateral)], r)

\* the handlers refresh the reserve themselves, the obligation must be fresh
deposit_and_collateral(c, r, amount) ==
    LET paid == Pay(c, r, amount)
    IN IF paid.error # "" THEN paid
       ELSE deposit_obligation_collateral(paid, r, (amount * RateNum) \div RateDen)

borrow_obligation_liquidity(c0, r, amount, remaining) ==
    LET c1 == CheckFresh(c0, r)
        c2 == Require(c1, ~NoPosition(c1.deposits), "ObligationDepositsEmpty")
        c3 == Require(c2, c2.group = 0 \/ GroupDebtReserve[c2.group] = r,
                      "ElevationGroupDebtReserve")
        c4 == Require(c3, ~c3.referrer \/ r \in c3.referrerStates, "ReferrerAccountMissing")
        c5 == Require(c4, HasRoom(c4.borrows, r), "ObligationReserveLimit")
        c6 == Require(c5, fee_leaves(BorrowFee[r], amount), "BorrowTooSmall")
        c == CheckGroupReserves(c6, remaining)
    IN IF c.error # "" THEN c
       ELSE Receive(Stale([c EXCEPT !.borrows = AddTo(@, r, with_borrow_fee(r, amount))], r), r, amount)

repay_obligation_liquidity(c0, r, amount, remaining) ==
    LET c1 == CheckFresh(c0, r)
        c2 == Require(c1, HasPosition(c1.borrows, r), "InvalidObligationLiquidity")
        c == CheckGroupReserves(c2, remaining)
        paid == Least(amount, AmountIn(c.borrows, r))
    IN IF c.error # "" THEN c
       ELSE Pay(Stale([c EXCEPT !.borrows = TakeFrom(@, r, amount)], r), r, paid)

withdraw_and_redeem(c0, r, amount) ==
    LET c == Require(CheckFresh(c0, r), HasPosition(c0.deposits, r), "ObligationCollateralEmpty")
        taken == Least(amount, AmountIn(c.deposits, r))
        left == [c EXCEPT !.deposits = TakeFrom(@, r, amount)]
        open == ~NoPosition(left.deposits) \/ ~NoPosition(left.borrows)
    IN IF c.error # "" THEN c
       ELSE IF NoPosition(left.deposits) /\ open THEN Fail(c, "WithdrawalTooLarge")
       ELSE Receive(Stale([left EXCEPT !.exists = open, !.group = IF open THEN @ ELSE 0], r), r,
                    (taken * RateDen) \div RateNum)

WithoutLast(s, k) ==
    LET at == {i \in DOMAIN s : s[i] = k}
    IN IF at = {} THEN s ELSE RemoveAt(s, CHOOSE i \in at : \A j \in at : j <= i)

\* what a handler goes on with unless an error has ended the transaction
OnSuccess(c, Continue(_)) == IF c.error # "" THEN c ELSE Continue(c)

\* the accounts passed on once the repaid debt is closed
RemainingAfter(c, ix) ==
    IF HasPosition(c.borrows, ix.reserve) THEN ix.remaining
    ELSE SelectSeq(WithoutLast(ix.remaining, ix.reserve),
                   LAMBDA k : k # ReferrerTokenState[ix.reserve])

RefreshAfterRepay(c, ix) ==
    refresh_obligation(
        IF HasPosition(c.borrows, ix.reserve) \/ ix.reserve = ix.outflow
        THEN [c EXCEPT !.resFresh = @ \cup {ix.reserve}] ELSE c, RemainingAfter(c, ix))

RefreshAfterWithdraw(c, ix, remaining) ==
    LET full == ~HasPosition(c.deposits, ix.outflow)
    IN refresh_obligation(
           IF ~full \/ HasPosition(c.borrows, ix.outflow)
           THEN [c EXCEPT !.resFresh = @ \cup {ix.outflow}] ELSE c,
           IF full THEN RemoveFirst(remaining, ix.outflow) ELSE remaining)

WithdrawAfterRepay(c, ix, remaining) ==
    OnSuccess(withdraw_and_redeem(c, ix.outflow, ix.outAmount),
         LAMBDA taken : IF ~taken.exists THEN taken
                        ELSE Stale(RefreshAfterWithdraw(taken, ix, remaining), ix.outflow))

repay_and_withdraw(c, ix) ==
    OnSuccess(repay_obligation_liquidity(c, ix.reserve, ix.amount, ix.remaining),
         LAMBDA repaid :
             OnSuccess(RefreshAfterRepay(repaid, ix),
                  LAMBDA refreshed : WithdrawAfterRepay(refreshed, ix, RemainingAfter(repaid, ix))))

\* a liquidator repays debt and takes as much collateral, priced one for one
liquidate(c0, ix) ==
    LET c1 == Require(CheckFresh(c0, ix.reserve), ix.outflow \in c0.resFresh, "ReserveStale")
        c2 == Require(c1, HasPosition(c1.borrows, ix.reserve), "InvalidObligationLiquidity")
        c3 == Require(c2, HasPosition(c2.deposits, ix.outflow), "InvalidObligationCollateral")
        c == CheckGroupReserves(c3, ix.remaining)
        x == Least(ix.amount, Least(AmountIn(c.borrows, ix.reserve), AmountIn(c.deposits, ix.outflow)))
        moved == [c EXCEPT !.borrows = TakeFrom(@, ix.reserve, x),
                           !.deposits = TakeFrom(@, ix.outflow, x)]
    IN IF c.error # "" THEN c
       ELSE Receive(Pay(Stale(Stale(moved, ix.reserve), ix.outflow), ix.reserve, x), ix.outflow, x)

-----------------------------------------------------------------------------
(* One instruction. Pairs(ix) are the reserves and farm kinds it concerns.       *)

V1Deposits == {"depositReserveLiquidityAndObligationCollateral", "depositObligationCollateral"}
V2Deposits == {"depositReserveLiquidityAndObligationCollateralV2", "depositObligationCollateralV2"}
V1Withdraw == "withdrawObligationCollateralAndRedeemReserveCollateral"
V2Withdraw == "withdrawObligationCollateralAndRedeemReserveCollateralV2"
V1Liquidate == "liquidateObligationAndRedeemReserveCollateral"
V2Liquidate == "liquidateObligationAndRedeemReserveCollateralV2"

V1 == V1Deposits \cup {V1Withdraw, V1Liquidate, "borrowObligationLiquidity",
                       "repayObligationLiquidity"}
V2 == V2Deposits \cup {V2Withdraw, V2Liquidate, "borrowObligationLiquidityV2",
                       "repayObligationLiquidityV2", "repayAndWithdrawAndRedeem"}

Pairs(ix) ==
    CASE ix.ix \in V1Deposits \cup V2Deposits \cup {V1Withdraw, V2Withdraw} ->
            <<<<ix.reserve, "Collateral">>>>
      [] ix.ix \in {V1Liquidate, V2Liquidate, "repayAndWithdrawAndRedeem"} ->
            <<<<ix.outflow, "Collateral">>, <<ix.reserve, "Debt">>>>
      [] OTHER -> <<<<ix.reserve, "Debt">>>>

Effect(c, ix) ==
    CASE ix.ix \in {"depositObligationCollateral", "depositObligationCollateralV2"} ->
            deposit_obligation_collateral(c, ix.reserve, ix.amount)
      [] ix.ix \in {"depositReserveLiquidityAndObligationCollateral",
                    "depositReserveLiquidityAndObligationCollateralV2"} ->
            deposit_and_collateral(c, ix.reserve, ix.amount)
      [] ix.ix \in {"borrowObligationLiquidity", "borrowObligationLiquidityV2"} ->
            borrow_obligation_liquidity(c, ix.reserve, ix.amount, ix.remaining)
      [] ix.ix \in {"repayObligationLiquidity", "repayObligationLiquidityV2"} ->
            repay_obligation_liquidity(c, ix.reserve, ix.amount, ix.remaining)
      [] ix.ix \in {V1Withdraw, V2Withdraw} -> withdraw_and_redeem(c, ix.reserve, ix.amount)
      [] ix.ix = "repayAndWithdrawAndRedeem" -> repay_and_withdraw(c, ix)
      [] OTHER -> liquidate(c, ix)

\* Mutant: the farms are refreshed before the effect only.
LendingStepStakesBefore(c, ixs, i) ==
    LET ix == ixs[i]
        c1 == Require(CheckAccounts(c, ix), FarmsGiven(ix, Pairs(ix)) \/ ix.ix \in V1,
                      "FarmAccountsMissing")
        c2 == IF c1.error # "" THEN c1 ELSE WithFarmsRefreshed(c1, Pairs(ix))
    IN IF c2.error # "" THEN c2 ELSE Effect(c2, ix)

\* V1: the neighbours refresh the farms; V2: the handler does, before and after
LendingStep(c, ixs, i) ==
    LET ix == ixs[i]
        Refreshed(d) == WithFarmsRefreshed(d, Pairs(ix))
        Applied(d) == Effect(d, ix)
        AppliedAndRefreshed(d) == OnSuccess(Applied(d), Refreshed)
        RefreshedAround(d) == OnSuccess(Refreshed(d), AppliedAndRefreshed)
    IN IF ix.ix \in V1
       THEN OnSuccess(Require(CheckAccounts(c, ix), check_refresh(ixs, i, Pairs(ix)),
                         "IncorrectInstructionInPosition"), Applied)
       ELSE OnSuccess(Require(CheckAccounts(c, ix), FarmsGiven(ix, Pairs(ix)), "FarmAccountsMissing"),
                 RefreshedAround)

\* reserve liquidity for collateral tokens, without an obligation
ReserveStep(c0, ix) ==
    LET c == CheckAccounts(c0, ix)
        r == ix.reserve
    IN IF c.error # "" THEN c
       ELSE CASE ix.ix = "depositReserveLiquidity" ->
                    Pay([c EXCEPT !.resFresh = @ \ {r}], r, ix.amount)
              [] ix.ix = "redeemReserveCollateral" ->
                    Receive([c EXCEPT !.resFresh = @ \ {r}], r, (ix.amount * RateDen) \div RateNum)
              [] OTHER -> Require(Require(c, r \in c.resFresh, "ReserveStale"),
                                  r \in c.referrerStates, "ReferrerAccountMissing")

IsWsol(account) == \E r \in NativeReserves : account = Liquidity(r)

\* instructions of the token and system programs: lamports sent ahead to an account
\* that does not exist pay its rent first, the rest becomes its balance when synced
TokenStep(c, ix) ==
    CASE ix.ix = "createAta" ->
            [c EXCEPT !.atas = @ \cup {ix.account},
                      !.lamports = IF IsWsol(ix.account) /\ ix.account \notin c.atas
                                   THEN @ - Least(@, RentExempt) ELSE @]
      [] ix.ix = "transferLamports" ->
            [c EXCEPT !.lamports = @ + ix.lamports, !.sol = @ - ix.lamports]
      [] ix.ix = "syncNative" ->
            [Require(c, ix.account \in c.atas, "AccountNotInitialized")
                EXCEPT !.bal[ix.account[2]] = @ + c.lamports, !.lamports = 0]
      [] ix.ix = "closeAccount" ->
            [Require(c, ix.account \in c.atas, "AccountNotInitialized")
                EXCEPT !.atas = @ \ {ix.account}, !.sol = @ + c.bal[ix.account[2]] + c.lamports,
                       !.bal[ix.account[2]] = 0, !.lamports = 0]
      [] OTHER -> c

InitStep(c, ix) ==
    CASE ix.ix = "initObligation" ->
            [Require(Require(c, ~c.exists, "already in use"), c.metadata, "no user metadata")
                EXCEPT !.exists = TRUE, !.obFresh = FALSE]
      [] ix.ix = "initUserMetadata" ->
            [Require(c, ~c.metadata, "already in use") EXCEPT !.metadata = TRUE]
      [] ix.ix = "initReferrerTokenState" ->
            [Require(c, ix.reserve \notin c.referrerStates, "already in use")
                EXCEPT !.referrerStates = @ \cup {ix.reserve}]
      [] OTHER ->
            LET f == <<ix.reserve, ix.kind>>
            IN IF ~c.exists \/ f \in DOMAIN c.stakes THEN Fail(c, "cannot initialize farm user")
               ELSE [c EXCEPT !.stakes = [g \in DOMAIN c.stakes \cup {f} |->
                                             IF g = f THEN 0 ELSE c.stakes[g]]]

-----------------------------------------------------------------------------
(* Flash loans: each half looks for the other among the transaction's instructions *)

Matches(ixs, b, r) ==
    /\ ixs[b].ix = "flashBorrowReserveLiquidity" /\ ixs[r].ix = "flashRepayReserveLiquidity"
    /\ ixs[b].reserve = ixs[r].reserve /\ ixs[b].amount = ixs[r].amount
    /\ ixs[r].index = b - 1

flash_borrow_checks(ixs, i) ==
    LET later == {j \in i + 1 .. Len(ixs) : ixs[j].ix = "flashRepayReserveLiquidity"}
    IN /\ \A j \in i + 1 .. Len(ixs) : ixs[j].ix # "flashBorrowReserveLiquidity"
       /\ Cardinality(later) = 1 /\ \A j \in later : Matches(ixs, i, j)

flash_borrow(c0, ixs, i) ==
    LET ix == ixs[i]
        c1 == Require(c0, flash_borrow_checks(ixs, i), "FlashBorrow")
        c == Require(c1, Liquidity(ix.reserve) \in c1.atas, "AccountNotInitialized")
    IN IF c.error # "" THEN c
       ELSE Receive([c EXCEPT !.resFresh = @ \ {ix.reserve}], ix.reserve, ix.amount)

flash_repay(c0, ixs, i) ==
    LET ix == ixs[i]
        b == ix.index + 1
        c1 == Require(c0, b \in 1 .. i - 1 /\ Matches(ixs, b, i), "InvalidFlashRepay")
        fee == fee_of(FlashFee[ix.reserve], ix.amount)
        c == Require(c1, fee_leaves(FlashFee[ix.reserve], ix.amount), "BorrowTooSmall")
    IN IF c.error # "" THEN c
       ELSE Pay([c EXCEPT !.resFresh = @ \ {ix.reserve}], ix.reserve, ix.amount + fee)

\* an exchange of one token for another, with what the market gives for it
swap_step(c, ix) ==
    LET paid == Pay(Require(c, {Liquidity(ix.in), Liquidity(ix.out)} \subseteq c.atas,
                            "AccountNotInitialized"), ix.in, ix.amount)
    IN IF paid.error # "" THEN paid ELSE Receive(paid, ix.out, ix.gives)

ExecuteIx(ixs, c, i) ==
    LET ix == ixs[i]
    IN IF c.error # "" THEN c
       ELSE CASE ix.ix \in V1 \cup V2 -> LendingStep(c, ixs, i)
              [] ix.ix = "refreshReserve" -> [c EXCEPT !.resFresh = @ \cup {ix.keys[1]}]
              [] ix.ix = "refreshObligation" -> refresh_obligation(c, ix.remaining)
              [] ix.ix = "refreshObligationFarmsForReserve" ->
                    refresh_obligation_farms_for_reserve(c, ix)
              [] ix.ix = "requestElevationGroup" ->
                    request_elevation_group(c, ix.group, ix.remaining)
              [] ix.ix \in {"depositReserveLiquidity", "redeemReserveCollateral",
                            "withdrawReferrerFees"} -> ReserveStep(c, ix)
              [] ix.ix \in {"initObligation", "initUserMetadata", "initReferrerTokenState",
                            "initObligationFarmsForReserve"} -> InitStep(c, ix)
              [] ix.ix = "flashBorrowReserveLiquidity" -> flash_borrow(c, ixs, i)
              [] ix.ix = "flashRepayReserveLiquidity" -> flash_repay(c, ixs, i)
              [] ix.ix = "swap" -> swap_step(c, ix)
              [] OTHER -> TokenStep(c, ix)

\* the accounts after a transaction, or the accounts before it and the error
Committed(c, end) == IF end.error # "" THEN [c EXCEPT !.error = end.error] ELSE end

Execute(c, ixs) ==
    LET after[n \in 0 .. Len(ixs)] ==
            IF n = 0 THEN c ELSE CHOOSE r \in {ExecuteIx(ixs, d, n) : d \in {after[n - 1]}} : TRUE
    IN Committed(c, after[Len(ixs)])

=============================================================================
