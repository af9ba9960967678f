----------------------------- MODULE ReserveOps -----------------------------
(***************************************************************************)
(* The arithmetic of state/reserve.rs: what the pool owes and is owed       *)
(* (ReserveLiquidity), the price of a collateral token                      *)
(* (CollateralExchangeRate), interest (compound_interest) and fees          *)
(* (ReserveFees).  Pure operators; `l' is always a liquidity record.        *)
(***************************************************************************)
EXTENDS Fraction

CONSTANTS
    TakeRate,         \* protocol_take_rate_pct as an sf fraction
    FixedBase,        \* host_fixed_interest_rate_bps, per slot, sf
    BorrowFee,        \* fees.borrow_fee_sf
    FlashFee,         \* fees.flash_loan_fee_sf
    DepositLimit,     \* config.deposit_limit, tokens
    BorrowLimit       \* config.borrow_limit, tokens

ASSUME ReserveConfigAssumption ==
    /\ TakeRate \in 0 .. SF
    /\ FixedBase \in Nat /\ BorrowFee \in Nat /\ FlashFee \in Nat
    /\ DepositLimit \in Nat /\ BorrowLimit \in Nat

LiquidityType ==
    [available_amount : Nat,
     borrowed_amount_sf : Nat,
     accumulated_protocol_fees_sf : Nat,
     accumulated_referrer_fees_sf : Nat,
     pending_referrer_fees_sf : Nat,
     absolute_referral_rate_sf : Nat,
     cumulative_borrow_rate_bsf : Nat]

NewReserveLiquidity(initial_amount) ==
    [available_amount |-> initial_amount,
     borrowed_amount_sf |-> 0,
     accumulated_protocol_fees_sf |-> 0,
     accumulated_referrer_fees_sf |-> 0,
     pending_referrer_fees_sf |-> 0,
     absolute_referral_rate_sf |-> 0,
     cumulative_borrow_rate_bsf |-> SF]

\* Mutant: fees that were only accrued still count as the depositors'.
TotalSupplyWithPending(l) ==
    FromInt(l.available_amount) + l.borrowed_amount_sf
        - l.accumulated_protocol_fees_sf - l.accumulated_referrer_fees_sf

\* What belongs to the depositors.  In the code a negative result panics.
TotalSupply(l) ==
    FromInt(l.available_amount) + l.borrowed_amount_sf
        - l.accumulated_protocol_fees_sf - l.accumulated_referrer_fees_sf
        - l.pending_referrer_fees_sf

DepositLimitCrossed(l) == TotalSupply(l) > FromInt(DepositLimit)
BorrowLimitCrossed(l) == l.borrowed_amount_sf > FromInt(BorrowLimit)
-----------------------------------------------------------------------------
(* CollateralExchangeRate: 1:1 for an empty pool, else supply per liquidity. *)

IsInitialRate(l, supply) == supply = 0 \/ TotalSupply(l) = 0
RateCollateral(l, supply) == IF IsInitialRate(l, supply) THEN 1 ELSE supply
RateLiquidity(l, supply) == IF IsInitialRate(l, supply) THEN SF ELSE TotalSupply(l)

\* Mutant: a redemption is rounded in the user's favour.
CollateralToLiquidityRoundedUp(l, supply, c) ==
    ToCeil((c * RateLiquidity(l, supply)) \div RateCollateral(l, supply))

CollateralToLiquidity(l, supply, c) ==
    ToFloor((c * RateLiquidity(l, supply)) \div RateCollateral(l, supply))

CollateralToLiquidityCeil(l, supply, c) ==
    ToCeil((c * RateLiquidity(l, supply) + RateCollateral(l, supply) - 1)
             \div RateCollateral(l, supply))

LiquidityToCollateral(l, supply, a) ==
    ToFloor((FromInt(RateCollateral(l, supply) * a) * SF)
              \div RateLiquidity(l, supply))
-----------------------------------------------------------------------------
(* Interest.  `base' is a per-slot rate: rate / SLOTS_PER_YEAR in the code.  *)

\* approximate_compounded_interest: exact powers up to four slots, then the
\* first terms of the binomial series.
CompoundedInterest(base, slots) ==
    LET one == SF + base
        two == Mul(one, one)
    IN CASE slots = 0 -> SF
         [] slots = 1 -> one
         [] slots = 2 -> two
         [] slots = 3 -> Mul(two, one)
         [] slots = 4 -> Mul(two, two)
         [] OTHER -> LET b2 == Mul(base, base)
                         b3 == Mul(b2, base)
                     IN SF + base * slots
                          + (b2 * slots * (slots - 1)) \div 2
                          + (b3 * slots * (slots - 1) * (slots - 2)) \div 6

\* compound_interest, given the two compounded rates.
Compound(l, rate, fixed_rate, referral_rate) ==
    LET debt == l.borrowed_amount_sf
        new_debt == Mul(debt, rate)
        fixed_host_fee == Mul(debt, fixed_rate) - debt
        net_new_variable_debt == new_debt - debt - fixed_host_fee
        variable_protocol_fee == Mul(net_new_variable_debt, TakeRate)
        absolute_referral_rate == Mul(TakeRate, referral_rate)
        max_referrers_fees == Mul(net_new_variable_debt, absolute_referral_rate)
    IN [available_amount |-> l.available_amount,
        borrowed_amount_sf |-> new_debt,
        accumulated_protocol_fees_sf |->
            l.accumulated_protocol_fees_sf + fixed_host_fee
              + variable_protocol_fee - max_referrers_fees,
        accumulated_referrer_fees_sf |-> l.accumulated_referrer_fees_sf,
        pending_referrer_fees_sf |->
            l.pending_referrer_fees_sf + max_referrers_fees,
        absolute_referral_rate_sf |-> absolute_referral_rate,
        cumulative_borrow_rate_bsf |-> Mul(l.cumulative_borrow_rate_bsf, rate)]

\* accrue_interest: nothing is charged twice for one slot.
AccrueInterest(l, slots_elapsed, variable_base, referral_rate) ==
    IF slots_elapsed > 0
    THEN Compound(l, CompoundedInterest(variable_base + FixedBase, slots_elapsed),
                     CompoundedInterest(FixedBase, slots_elapsed), referral_rate)
    ELSE l
-----------------------------------------------------------------------------
(* Fees of a borrow or a flash loan.                                         *)

FeeRateFor(fee, inclusive) == IF inclusive THEN Div(fee, fee + SF) ELSE fee

\* calculate_fees charges a fee when a rate is set: at least one token.
FeeAmount(amount_f, fee, inclusive) ==
    MaxOf(Mul(amount_f, FeeRateFor(fee, inclusive)), SF)

\* calculate_fees fails with BorrowTooSmall when the fee eats the amount.
FeesAllow(amount_f, fee, inclusive) ==
    fee > 0 /\ amount_f > 0 => FeeAmount(amount_f, fee, inclusive) < amount_f

TotalFee(amount_f, fee, inclusive) ==
    IF fee > 0 /\ amount_f > 0
    THEN ToRound(FeeAmount(amount_f, fee, inclusive)) ELSE 0

ReferrerFee(amount_f, fee, inclusive, referral_rate, has_referrer) ==
    IF fee > 0 /\ amount_f > 0 /\ has_referrer /\ referral_rate > 0
    THEN IF referral_rate = SF
         THEN TotalFee(amount_f, fee, inclusive)
         ELSE ToFloor(Mul(FeeAmount(amount_f, fee, inclusive), referral_rate))
    ELSE 0
-----------------------------------------------------------------------------
(* Changes to ReserveLiquidity.                                              *)

Deposited(l, amount) == [l EXCEPT !.available_amount = @ + amount]
Withdrawn(l, amount) == [l EXCEPT !.available_amount = @ - amount]

\* liquidity.borrow hands out whole tokens and books the exact fraction.
Borrowed(l, borrow_f) ==
    [l EXCEPT !.available_amount = @ - ToFloor(borrow_f),
              !.borrowed_amount_sf = @ + borrow_f]

\* Mutant: the position's debt is trusted never to exceed the pool's.
RepaidUncapped(l, repay_amount, settle_f) ==
    [l EXCEPT !.available_amount = @ + repay_amount,
              !.borrowed_amount_sf = @ - settle_f]

\* liquidity.repay: the settled debt is capped by what the pool is owed.
Repaid(l, repay_amount, settle_f) ==
    [l EXCEPT !.available_amount = @ + repay_amount,
              !.borrowed_amount_sf = @ - MinOf(settle_f, @)]

RedeemableFees(l) ==
    MinOf(l.available_amount, ToFloor(l.accumulated_protocol_fees_sf))

FeesRedeemed(l, amount) ==
    [l EXCEPT !.available_amount = @ - amount,
              !.accumulated_protocol_fees_sf = @ - FromInt(amount)]

WithdrawableReferrerFees(l, unclaimed_sf) ==
    MinOf(ToFloor(MinOf(unclaimed_sf, l.accumulated_referrer_fees_sf)),
          l.available_amount)

\* Mutant: only the referrer's own account is debited.
ReferrerFeesLeftReserved(l, amount) ==
    [l EXCEPT !.available_amount = @ - amount]

ReferrerFeesWithdrawn(l, amount) ==
    [l EXCEPT !.available_amount = @ - amount,
              !.accumulated_referrer_fees_sf = @ - FromInt(amount)]

\* Mutant: the referrer's share is booked as if it had left the vault.
ReferrerFeeBookedAway(l, fee) ==
    [l EXCEPT !.accumulated_referrer_fees_sf = @ + FromInt(fee)]

\* add_referrer_fee followed by available_amount += referrer_fee: the tokens of
\* a referrer's share stay in the vault until the referrer collects them.
ReferrerFeeKept(l, fee) ==
    [l EXCEPT !.available_amount = @ + fee,
              !.accumulated_referrer_fees_sf = @ + FromInt(fee)]

\* Mutant: a loss of exactly everything leaves the reserve open.
LossExceedsSupply(l, amount_f) == amount_f > TotalSupply(l)

LossTakesSupply(l, amount_f) == amount_f >= TotalSupply(l)

Forgiven(l, amount_f) == [l EXCEPT !.borrowed_amount_sf = @ - amount_f]

=============================================================================
