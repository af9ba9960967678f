------------------------------ MODULE Reserve -------------------------------
(***************************************************************************)
(* One reserve of a lending market and everything that moves its tokens:    *)
(* deposits and redemptions, borrows and repayments of several obligations, *)
(* liquidations, flash loans, protocol and referrer fees, interest, and     *)
(* socialised losses.  An action is a whole instruction handler; a handler  *)
(* that returns an error or panics reverts its transaction and therefore is *)
(* not a step.                                                              *)
(*                                                                         *)
(* Left to other modules or to the environment: the value of an            *)
(* obligation's collateral (it only decides how much may be borrowed or     *)
(* liquidated: any amount here), elevation groups and asset tiers, and the  *)
(* oracles (a refresh may obtain any price level).                          *)
(***************************************************************************)
EXTENDS ReserveOps, LastUpdate, WithdrawalCapOps, FiniteSets, Functions

CONSTANTS
    Obligations,        \* obligations that may borrow from the reserve
    Referrers,          \* referrers with a ReferrerTokenState for the reserve
    ReferrerOf,         \* [Obligations -> Referrers \cup {NoReferrer}]
    NoReferrer,
    MinInitialDeposit,  \* lending_market.min_initial_deposit_amount
    UtilizationLimit,   \* utilization_limit_block_borrowing_above, sf; 0 = off
    VariableBases,      \* per-slot variable rates the curve may produce, sf
    ReferralRates,      \* values of lending_market.referral_fee_bps, sf
    DepositCap,         \* initial config.deposit_withdrawal_cap
    DebtCap,            \* initial config.debt_withdrawal_cap
    Amounts,            \* u64 amounts passed by users
    U64Max,             \* u64::MAX: the largest balance and the "everything" amount
    BorrowPowers,       \* sf amounts an obligation's collateral can support
    PriceLevels,        \* price levels the oracles may deliver
    MaxSlot             \* bound: last slot explored

ASSUME ReserveAssumption ==
    /\ ReferrerOf \in [Obligations -> Referrers \cup {NoReferrer}]
    /\ IsFiniteSet(Referrers) /\ NoReferrer \notin Referrers
    /\ MinInitialDeposit \in Nat \ {0}
    /\ UtilizationLimit \in Nat
    /\ VariableBases \subseteq Nat
    /\ ReferralRates \subseteq 0 .. SF
    /\ DepositCap \in WithdrawalCapsType /\ DebtCap \in WithdrawalCapsType
    /\ Amounts \subseteq Nat
    /\ U64Max \in Nat \ {0} /\ MinInitialDeposit <= U64Max
    /\ BorrowPowers \subseteq Nat
    /\ PriceLevels \subseteq PriceLevel
    /\ MaxSlot \in Nat \ {0}

VARIABLES
    slot,          \* Clock: slot and unix timestamp advance together
    liquidity,     \* reserve.liquidity
    supply,        \* reserve.collateral.mint_total_supply
    version,       \* reserve.version: "current" or "deprecated" (u64::MAX)
    last_update,   \* reserve.last_update
    crossed,       \* {deposit,borrow}_limit_crossed_timestamp
    caps,          \* config.{deposit,debt}_withdrawal_cap
    borrow,        \* [Obligations -> position in this reserve]
    unclaimed,     \* [Referrers -> amount_unclaimed_sf]
    referral,      \* lending_market.referral_fee_bps, sf
    flash,         \* amounts of the flash loans open in the transaction
    vault,         \* tokens in the liquidity supply vault
    circulating    \* collateral tokens in accounts, obligations included

market == <<unclaimed, referral, flash>>
pool == <<liquidity, supply, version, last_update, crossed, caps>>
vars == <<slot, pool, borrow, market, vault, circulating>>

BorrowType ==
    [borrowed_amount_sf : Nat, cumulative_borrow_rate_bsf : Nat,
     last_update : LastUpdateType]

\* ObligationLiquidity::default()
NoBorrow(lu) ==
    [borrowed_amount_sf |-> 0, cumulative_borrow_rate_bsf |-> 0, last_update |-> lu]

TypeOK ==
    /\ slot \in Nat
    /\ liquidity \in LiquidityType
    /\ supply \in Nat
    /\ version \in {"current", "deprecated"}
    /\ last_update \in LastUpdateType
    /\ crossed \in [deposit : Nat, borrow : Nat]
    /\ caps \in [deposit : WithdrawalCapsType, debt : WithdrawalCapsType]
    /\ borrow \in [Obligations -> BorrowType]
    /\ unclaimed \in [Referrers -> Nat]
    /\ referral \in 0 .. SF
    /\ flash \subseteq Nat
    /\ vault \in Nat
    /\ circulating \in Nat

\* init_reserve: the first deposit is the market's own; its collateral tokens
\* are counted in mint_total_supply and given to nobody.
Init ==
    /\ slot = 1
    /\ liquidity = NewReserveLiquidity(MinInitialDeposit)
    /\ supply = MinInitialDeposit
    /\ version = "current"
    /\ last_update = NewLastUpdate(1)
    /\ crossed = [deposit |-> 0, borrow |-> 0]
    /\ caps = [deposit |-> DepositCap, debt |-> DebtCap]
    /\ borrow = [o \in Obligations |-> NoBorrow(NewLastUpdate(1))]
    /\ unclaimed = [r \in Referrers |-> 0]
    /\ referral \in ReferralRates
    /\ flash = {}
    /\ vault = MinInitialDeposit
    /\ circulating = 0
-----------------------------------------------------------------------------
(* Refreshing.                                                              *)

SlotsElapsed == slot - last_update.slot

\* The liquidity after refresh_reserve; the rate curve needs a total supply.
Refreshed(variable_base) ==
    AccrueInterest(liquidity, SlotsElapsed, variable_base, referral)
CanAccrue == SlotsElapsed > 0 => TotalSupply(liquidity) >= 0

LimitTimestamps(l) ==
    [deposit |-> IF ~DepositLimitCrossed(l) THEN 0
                 ELSE IF crossed.deposit = 0 THEN slot ELSE crossed.deposit,
     borrow  |-> IF ~BorrowLimitCrossed(l) THEN 0
                 ELSE IF crossed.borrow = 0 THEN slot ELSE crossed.borrow]

\* A refresh without oracle keeps the price status unless the price is too old.
KeptPriceLevels == {last_update.price_status, 0}

ReserveFresh(min_price_status) == ~IsStale(last_update, slot, min_price_status)
ObligationFresh(o, min_price_status) ==
    ~IsStale(borrow[o].last_update, slot, min_price_status)

\* Balances are u64 and additions to them checked.
FitsU64(l) == l.available_amount <= U64Max

\* The end of every handler that used the reserve's amounts.
ReserveUsed(level) == last_update' = MarkStale(UpdateSlot(slot, level))

\* refresh_reserve and refresh_reserves_batch: with a price from the oracles,
\* or without when the saved one is recent enough or updates are skipped.
RefreshReserve(variable_base, level) ==
    /\ version = "current"
    /\ CanAccrue
    /\ liquidity' = Refreshed(variable_base)
    /\ last_update' = UpdateSlot(slot, level)
    /\ crossed' = LimitTimestamps(liquidity')
    /\ UNCHANGED <<slot, supply, version, caps, borrow, market, vault, circulating>>

\* update_reserve_config accrues at the old config and leaves the reserve stale.
\* It is the one refresh that a deprecated reserve still gets.  The values it
\* writes are constants here; only the accrual and the staleness are modelled.
UpdateReserveConfig(variable_base, level) ==
    /\ CanAccrue
    /\ level \in KeptPriceLevels
    /\ liquidity' = Refreshed(variable_base)
    /\ ReserveUsed(level)
    /\ UNCHANGED <<slot, supply, version, crossed, caps, borrow, market, vault,
                   circulating>>

\* ObligationLiquidity::accrue_interest; the rate of a reserve never falls.
Accrued(b) ==
    IF liquidity.cumulative_borrow_rate_bsf > b.cumulative_borrow_rate_bsf
    THEN [b EXCEPT !.borrowed_amount_sf =
                      (@ * liquidity.cumulative_borrow_rate_bsf)
                         \div b.cumulative_borrow_rate_bsf,
                   !.cumulative_borrow_rate_bsf =
                      liquidity.cumulative_borrow_rate_bsf]
    ELSE b

HasBorrow(o) == borrow[o].borrowed_amount_sf > 0

\* The part of a borrower's new interest that is due to a referrer.
FixedDebt(o) ==
    Mul(borrow[o].borrowed_amount_sf,
        CompoundedInterest(FixedBase, slot - borrow[o].last_update.slot))
      - borrow[o].borrowed_amount_sf
NewDebt(o) ==
    Accrued(borrow[o]).borrowed_amount_sf - borrow[o].borrowed_amount_sf

\* accumulate_referrer_fees fails with ...DueToSlotsMismatch otherwise.
ReferralComputable(o) ==
    liquidity.absolute_referral_rate_sf # 0 => FixedDebt(o) <= NewDebt(o)

ReferralShare(o) ==
    MinOf(Mul(NewDebt(o) - FixedDebt(o), liquidity.absolute_referral_rate_sf),
          liquidity.pending_referrer_fees_sf)

\* refresh_obligation: the reserve must be fresh when the obligation owes it.
RefreshObligation(o, level) ==
    /\ HasBorrow(o) =>
         /\ version = "current"
         /\ ReserveFresh(NONE)
         /\ ReferralComputable(o)
         /\ level <= last_update.price_status
    /\ borrow' = [borrow EXCEPT ![o] =
          [(IF HasBorrow(o) THEN Accrued(@) ELSE @)
             EXCEPT !.last_update = UpdateSlot(slot, level)]]
    /\ IF ~HasBorrow(o) \/ liquidity.absolute_referral_rate_sf = 0
       THEN UNCHANGED <<liquidity, unclaimed>>
       ELSE IF ReferrerOf[o] # NoReferrer /\ referral > 0
            THEN /\ liquidity' = [liquidity EXCEPT
                       !.pending_referrer_fees_sf = @ - ReferralShare(o),
                       !.accumulated_referrer_fees_sf = @ + ReferralShare(o)]
                 /\ unclaimed' = [unclaimed EXCEPT
                       ![ReferrerOf[o]] = @ + ReferralShare(o)]
            ELSE /\ liquidity' = [liquidity EXCEPT
                       !.pending_referrer_fees_sf = @ - ReferralShare(o),
                       !.accumulated_protocol_fees_sf = @ + ReferralShare(o)]
                 /\ UNCHANGED unclaimed
    /\ UNCHANGED <<slot, supply, version, last_update, crossed, caps, referral,
                   flash, vault, circulating>>
-----------------------------------------------------------------------------
(* Depositors.                                                              *)

\* A disabled cap's counter is write-only: it is read again only after the
\* owner enables the cap, which this module does not model.
CapStep(kind, amount, action) ==
    /\ CapAllows(caps[kind], amount, slot, action)
    /\ caps' = IF Enabled(caps[kind])
               THEN [caps EXCEPT ![kind] = CapAfter(@, amount, slot, action)]
               ELSE caps

\* deposit_reserve_liquidity: the collateral is rounded down, then the payment
\* is recomputed from it and rounded up.
DepositReserveLiquidity(amount, variable_base, level) ==
    LET l == Refreshed(variable_base)
        collateral_amount == LiquidityToCollateral(l, supply, amount)
        liquidity_amount == CollateralToLiquidityCeil(l, supply, collateral_amount)
    IN /\ version = "current"
       /\ amount # 0
       /\ CanAccrue
       /\ level \in KeptPriceLevels
       /\ liquidity_amount <= amount
       /\ FromInt(liquidity_amount) + TotalSupply(l) <= FromInt(DepositLimit)
       /\ CapStep("deposit", liquidity_amount, "Remove")
       /\ liquidity' = Deposited(l, liquidity_amount)
       /\ supply' = supply + collateral_amount
       /\ FitsU64(liquidity') /\ supply' <= U64Max
       /\ vault' = vault + liquidity_amount
       /\ circulating' = circulating + collateral_amount
       /\ ReserveUsed(level)
       /\ UNCHANGED <<slot, version, crossed, borrow, market>>

\* redeem_reserve_collateral on liquidity l; collateral is burnt from a holder.
Redeem(l, collateral_amount, liquidity_amount) ==
    /\ collateral_amount # 0
    /\ collateral_amount <= supply /\ collateral_amount <= circulating
    /\ liquidity_amount <= l.available_amount
    /\ liquidity' = Withdrawn(l, liquidity_amount)
    /\ supply' = supply - collateral_amount
    /\ circulating' = circulating - collateral_amount
    /\ crossed' = LimitTimestamps(liquidity')

RedeemReserveCollateral(collateral_amount, variable_base, level) ==
    LET l == Refreshed(variable_base)
        liquidity_amount == CollateralToLiquidity(l, supply, collateral_amount)
    IN /\ version = "current"
       /\ CanAccrue
       /\ level \in KeptPriceLevels
       /\ Redeem(l, collateral_amount, liquidity_amount)
       /\ vault' = vault - liquidity_amount
       /\ CapStep("deposit", liquidity_amount, "Add")
       /\ ReserveUsed(level)
       /\ UNCHANGED <<slot, version, borrow, market>>
-----------------------------------------------------------------------------
(* Borrowers.                                                               *)

HasReferrer(o) == ReferrerOf[o] # NoReferrer

\* calculate_borrow: the booked debt for a requested amount
BorrowAmount(o, amount, power) ==
    IF amount = U64Max
    THEN MinOf(power, MinOf(SaturatingSub(FromInt(BorrowLimit),
                                          liquidity.borrowed_amount_sf),
                            FromInt(liquidity.available_amount)))
    ELSE FromInt(amount + TotalFee(FromInt(amount), BorrowFee, FALSE))

BorrowObligationLiquidity(o, amount, power) ==
    LET max == amount = U64Max
        borrow_f == BorrowAmount(o, amount, power)
        fee_base == IF max THEN borrow_f ELSE FromInt(amount)
        fee == TotalFee(fee_base, BorrowFee, max)
        referrer_fee == ReferrerFee(fee_base, BorrowFee, max, referral, HasReferrer(o))
        receive_amount == IF max THEN ToFloor(borrow_f) - fee ELSE amount
        lent == ReferrerFeeKept(Borrowed(liquidity, borrow_f), referrer_fee)
    IN /\ version = "current"
       /\ amount # 0
       /\ ReserveFresh(ALL_CHECKS)
       /\ max \/ FromInt(amount) + liquidity.borrowed_amount_sf <= FromInt(BorrowLimit)
       /\ ObligationFresh(o, ALL_CHECKS)
       /\ liquidity.borrowed_amount_sf < FromInt(BorrowLimit)
       /\ FeesAllow(fee_base, BorrowFee, max)
       /\ borrow_f <= power
       /\ CapStep("debt", ToCeil(borrow_f), "Add")
       /\ receive_amount > 0
       /\ ToFloor(borrow_f) <= liquidity.available_amount
       /\ UtilizationLimit # 0 /\ TotalSupply(lent) # 0 =>
            Div(lent.borrowed_amount_sf, TotalSupply(lent)) < UtilizationLimit
       /\ liquidity' = lent
       /\ FitsU64(lent)
       /\ unclaimed' = IF HasReferrer(o)
                       THEN [unclaimed EXCEPT ![ReferrerOf[o]] = @ + FromInt(referrer_fee)]
                       ELSE unclaimed
       /\ borrow' = [borrow EXCEPT ![o] =
             [borrowed_amount_sf |-> @.borrowed_amount_sf + borrow_f,
              cumulative_borrow_rate_bsf |->
                 IF HasBorrow(o) THEN @.cumulative_borrow_rate_bsf
                 ELSE liquidity.cumulative_borrow_rate_bsf,
              last_update |-> MarkStale(@.last_update)]]
       /\ vault' = vault - (receive_amount + fee - referrer_fee)
       /\ last_update' = MarkStale(last_update)
       /\ UNCHANGED <<slot, supply, version, crossed, referral, flash, circulating>>

\* obligation.repay empties the slot of a position that is fully settled.
Settle(o, position, settle_f) ==
    LET lu == MarkStale(position.last_update)
    IN borrow' = [borrow EXCEPT ![o] =
          IF settle_f = position.borrowed_amount_sf THEN NoBorrow(lu)
          ELSE [position EXCEPT !.borrowed_amount_sf = @ - settle_f,
                                !.last_update = lu]]

RepayObligationLiquidity(o, amount) ==
    LET position == Accrued(borrow[o])
        debt == position.borrowed_amount_sf
        settle_f == IF amount = U64Max THEN debt ELSE MinOf(FromInt(amount), debt)
    IN /\ version = "current"
       /\ amount # 0
       /\ ReserveFresh(NONE) /\ ObligationFresh(o, NONE)
       /\ HasBorrow(o)
       /\ CapStep("debt", ToCeil(settle_f), "Remove")
       /\ liquidity' = Repaid(liquidity, ToCeil(settle_f), settle_f)
       /\ FitsU64(liquidity')
       /\ Settle(o, position, settle_f)
       /\ vault' = vault + ToCeil(settle_f)
       /\ last_update' = MarkStale(last_update)
       /\ UNCHANGED <<slot, supply, version, crossed, market, circulating>>

\* A position in any reserve changes the obligation's collateral: the
\* obligation, and the reserve deposited into, must be refreshed again.
DepositObligationCollateral(o, variable_base, level) ==
    /\ version = "current"
    /\ CanAccrue
    /\ ObligationFresh(o, NONE)
    /\ level \in KeptPriceLevels
    /\ liquidity' = Refreshed(variable_base)
    /\ borrow' = [borrow EXCEPT ![o].last_update = MarkStale(@)]
    /\ ReserveUsed(level)
    /\ UNCHANGED <<slot, supply, version, crossed, caps, market, vault, circulating>>

WithdrawObligationCollateral(o) ==
    /\ ObligationFresh(o, IF HasBorrow(o) THEN ALL_CHECKS ELSE NONE)
    /\ borrow' = [borrow EXCEPT ![o].last_update = MarkStale(@)]
    /\ UNCHANGED <<slot, pool, market, vault, circulating>>
-----------------------------------------------------------------------------
(* Liquidation (liquidate_obligation, post_liquidate_redeem).  The reserve   *)
(* is the one repaid, the one the collateral is taken from, or both.  What   *)
(* the liquidation value decides (settle_f, withdraw_amount) is any amount.  *)

Liquidatable(o) ==
    /\ version = "current"
    /\ ReserveFresh(LIQUIDATION_CHECKS) /\ ObligationFresh(o, LIQUIDATION_CHECKS)

\* The debt is taken as the last refresh left it; no cap is charged.
RepaidByLiquidator(o, settle_f) ==
    /\ settle_f > 0 /\ settle_f <= borrow[o].borrowed_amount_sf
    /\ Settle(o, borrow[o], settle_f)

\* As much of the seized collateral as the pool can pay is redeemed, outside
\* the withdrawal cap; if it can pay nothing the liquidator gets collateral
\* tokens instead and the reserve, just refreshed, stays fresh.
RedeemSeized(l, withdraw_amount, level, paid_in) ==
    LET redeemable == LiquidityToCollateral(l, supply, l.available_amount)
        collateral_amount == MinOf(withdraw_amount, redeemable)
        liquidity_amount == CollateralToLiquidity(l, supply, collateral_amount)
    IN \/ /\ collateral_amount # 0
          /\ Redeem(l, collateral_amount, liquidity_amount)
          /\ vault' = vault + paid_in - liquidity_amount
          /\ ReserveUsed(level)
       \/ /\ collateral_amount = 0
          /\ liquidity' = l
          /\ vault' = vault + paid_in
          /\ last_update' = UpdateSlot(slot, level)
          /\ UNCHANGED <<supply, circulating, crossed>>

LiquidateRepay(o, settle_f) ==
    /\ Liquidatable(o)
    /\ RepaidByLiquidator(o, settle_f)
    /\ liquidity' = Repaid(liquidity, ToCeil(settle_f), settle_f)
    /\ FitsU64(liquidity')
    /\ vault' = vault + ToCeil(settle_f)
    /\ last_update' = MarkStale(last_update)
    /\ UNCHANGED <<slot, supply, version, crossed, caps, market, circulating>>

LiquidateRedeem(o, withdraw_amount, level) ==
    /\ Liquidatable(o)
    /\ level \in KeptPriceLevels
    /\ RedeemSeized(liquidity, withdraw_amount, level, 0)
    /\ borrow' = [borrow EXCEPT ![o].last_update = MarkStale(@)]
    /\ UNCHANGED <<slot, version, caps, market>>

LiquidateSameReserve(o, settle_f, withdraw_amount, level) ==
    /\ Liquidatable(o)
    /\ level \in KeptPriceLevels
    /\ RepaidByLiquidator(o, settle_f)
    /\ FitsU64(Repaid(liquidity, ToCeil(settle_f), settle_f))
    /\ RedeemSeized(Repaid(liquidity, ToCeil(settle_f), settle_f),
                    withdraw_amount, level, ToCeil(settle_f))
    /\ UNCHANGED <<slot, version, caps, market>>

\* socialize_loss by the risk council, on an obligation without collateral.  A
\* loss of everything the depositors own retires the reserve for good.
SocializeLoss(o, amount) ==
    LET forgive_f == MinOf(FromInt(amount), borrow[o].borrowed_amount_sf)
    IN /\ ReserveFresh(ALL_CHECKS) /\ ObligationFresh(o, ALL_CHECKS)
       /\ HasBorrow(o)
       /\ forgive_f <= liquidity.borrowed_amount_sf
       /\ version' = IF LossTakesSupply(liquidity, forgive_f)
                     THEN "deprecated" ELSE version
       /\ liquidity' = Forgiven(liquidity, forgive_f)
       /\ Settle(o, borrow[o], forgive_f)
       /\ last_update' = MarkStale(last_update)
       /\ UNCHANGED <<slot, supply, crossed, caps, market, vault, circulating>>
-----------------------------------------------------------------------------
(* Flash loans.  FlashLoan shows that the instruction checks pair every      *)
(* borrow with one repayment of the same amount in the same transaction; the *)
(* instructions in between are ordinary ones, and no time passes.            *)

FlashBorrow(amount, variable_base, level) ==
    LET l == Refreshed(variable_base)
    IN /\ flash = {}
       /\ version = "current"
       /\ FlashFee # U64Max   \* u64::MAX switches flash loans off
       /\ CanAccrue
       /\ level \in KeptPriceLevels
       /\ amount <= l.available_amount
       /\ liquidity' = Borrowed(l, FromInt(amount))
       /\ flash' = {amount}
       /\ vault' = vault - amount
       /\ ReserveUsed(level)
       /\ UNCHANGED <<slot, supply, version, crossed, caps, borrow, unclaimed,
                      referral, circulating>>

FlashRepay(amount, r) ==
    LET fee_base == FromInt(amount)
        referrer_fee == ReferrerFee(fee_base, FlashFee, FALSE, referral, r # NoReferrer)
        repaid == Repaid(liquidity, amount, FromInt(amount))
    IN /\ amount \in flash
       /\ FeesAllow(fee_base, FlashFee, FALSE)
       /\ crossed' = LimitTimestamps(repaid)
       /\ liquidity' = ReferrerFeeKept(repaid, referrer_fee)
       /\ FitsU64(repaid) /\ FitsU64(liquidity')
       /\ unclaimed' = IF r # NoReferrer
                       THEN [unclaimed EXCEPT ![r] = @ + FromInt(referrer_fee)]
                       ELSE unclaimed
       /\ flash' = {}
       /\ vault' = vault + amount + referrer_fee
       /\ last_update' = MarkStale(last_update)
       /\ UNCHANGED <<slot, supply, version, caps, borrow, referral, circulating>>
-----------------------------------------------------------------------------
(* Fees and administration.                                                 *)

\* redeem_fees does not look at the version: a retired reserve is protected
\* only by never being fresh again.
RedeemFees ==
    LET amount == RedeemableFees(liquidity)
    IN /\ ReserveFresh(NONE)
       /\ amount # 0
       /\ liquidity' = FeesRedeemed(liquidity, amount)
       /\ vault' = vault - amount
       /\ last_update' = MarkStale(last_update)
       /\ UNCHANGED <<slot, supply, version, crossed, caps, borrow, market,
                      circulating>>

WithdrawReferrerFees(r) ==
    LET amount == WithdrawableReferrerFees(liquidity, unclaimed[r])
    IN /\ ReserveFresh(ALL_CHECKS)
       /\ amount # 0
       /\ liquidity' = ReferrerFeesWithdrawn(liquidity, amount)
       /\ unclaimed' = [unclaimed EXCEPT ![r] = @ - FromInt(amount)]
       /\ vault' = vault - amount
       /\ last_update' = MarkStale(last_update)
       /\ UNCHANGED <<slot, supply, version, crossed, caps, borrow, referral,
                      flash, circulating>>

UpdateReferralFee(rate) ==
    /\ referral' = rate
    /\ UNCHANGED <<slot, pool, borrow, unclaimed, flash, vault, circulating>>

Tick ==
    /\ flash = {}
    /\ slot < MaxSlot
    /\ slot' = slot + 1
    /\ UNCHANGED <<pool, borrow, market, vault, circulating>>

Next ==
    \/ Tick
    \/ \E v \in VariableBases, p \in PriceLevels \cup KeptPriceLevels :
          RefreshReserve(v, p) \/ UpdateReserveConfig(v, p)
    \/ \E o \in Obligations, p \in PriceLevels : RefreshObligation(o, p)
    \/ \E a \in Amounts, v \in VariableBases, p \in KeptPriceLevels :
          \/ DepositReserveLiquidity(a, v, p)
          \/ RedeemReserveCollateral(a, v, p)
          \/ FlashBorrow(a, v, p)
    \/ \E o \in Obligations, a \in Amounts \cup {U64Max}, w \in BorrowPowers :
          BorrowObligationLiquidity(o, a, w)
    \/ \E o \in Obligations, a \in Amounts \cup {U64Max} :
          RepayObligationLiquidity(o, a)
    \/ \E o \in Obligations : WithdrawObligationCollateral(o)
    \/ \E o \in Obligations, v \in VariableBases, p \in KeptPriceLevels :
          DepositObligationCollateral(o, v, p)
    \/ \E o \in Obligations : \E f \in 1 .. borrow[o].borrowed_amount_sf :
          LiquidateRepay(o, f)
    \/ \E o \in Obligations, c \in 1 .. circulating, p \in KeptPriceLevels :
          LiquidateRedeem(o, c, p)
    \/ \E o \in Obligations, c \in 1 .. circulating, p \in KeptPriceLevels :
          \E f \in 1 .. borrow[o].borrowed_amount_sf :
             LiquidateSameReserve(o, f, c, p)
    \/ \E o \in Obligations, a \in Amounts : SocializeLoss(o, a)
    \/ \E a \in flash, r \in Referrers \cup {NoReferrer} : FlashRepay(a, r)
    \/ RedeemFees
    \/ \E r \in Referrers : WithdrawReferrerFees(r)
    \/ \E q \in ReferralRates : UpdateReferralFee(q)

Spec == Init /\ [][Next]_vars
-----------------------------------------------------------------------------
(* Properties.                                                              *)

\* The reserve's books are the tokens: the vault holds available_amount, which
\* the handlers' post-transfer checks only compare as a difference, and the
\* collateral tokens in circulation are the supply without the seed deposit.
BooksMatchTokens ==
    /\ vault = liquidity.available_amount
    /\ supply = MinInitialDeposit + circulating

\* Depositors of a live reserve always own something, so the exchange rate is
\* never the 1:1 fallback again and total_supply() never underflows, whatever
\* rounding, fees and interest have done.
Solvent == version = "current" => TotalSupply(liquidity) > 0

\* liquidate_obligation and socialize_loss use a debt without accruing it: a
\* fresh obligation must already carry the reserve's current borrow rate.
FreshDebtIsCurrent ==
    \A o \in Obligations :
        HasBorrow(o) /\ ObligationFresh(o, NONE) =>
            borrow[o].cumulative_borrow_rate_bsf = liquidity.cumulative_borrow_rate_bsf

\* A reserve retired by socialize_loss never pays anybody again.  redeem_fees
\* and withdraw_referrer_fees do not look at the version: only the staleness
\* that no refresh clears any more stops them.
RetirementIsFinal ==
    [][version = "deprecated" =>
         /\ version' = "deprecated"
         /\ vault' >= vault
         /\ \A o \in Obligations :
               borrow'[o].borrowed_amount_sf = borrow[o].borrowed_amount_sf]_vars

\* The reserve implements the share pool: no operation but a socialised loss
\* lowers the liquidity behind one collateral token.
Pool == INSTANCE SharePool WITH
    Seed <- MinInitialDeposit, SeedAssets <- FromInt(MinInitialDeposit),
    assets <- TotalSupply(liquidity), owed <- liquidity.borrowed_amount_sf,
    shares <- supply,
    open <- (version = "current")

SharesNeverDiluted == Pool!PoolSpec

\* Every sf unit of referrer fees the reserve keeps aside is claimable by
\* exactly one referrer: interest shares, borrow fees and flash-loan fees add
\* to both ledgers and a withdrawal takes from both.
ReferrerFeesBacked == liquidity.accumulated_referrer_fees_sf = SumFunction(unclaimed)

\* "Cannot calculate referral amount due to slots mismatch" (lib.rs): with the
\* reserve refreshed in this slot and the obligation's interest counted since
\* its own last refresh there is no mismatch, so the error should not occur.
ReferralFailsOnlyOnSlotsMismatch ==
    \A o \in Obligations :
        HasBorrow(o) /\ version = "current" /\ ReserveFresh(NONE) =>
            ReferralComputable(o)

=============================================================================
