---------------------------- MODULE ConfigChain ----------------------------
(***************************************************************************)
(* What the program makes of the administrator's instructions: creating a   *)
(* market and a reserve, and changing their configurations. A chain is a     *)
(* market, or none, and one reserve of it, or none; a transaction is its       *)
(* payer and its instructions, which take effect together or not at all. An      *)
(* elevation group has no flag for new loans here, and the refresh that precedes   *)
(* an update of a reserve is in the module Reserve.                                 *)
(***************************************************************************)
EXTENDS KaminoManager, FiniteSets

CONSTANTS ReserveAddress,
          DEFAULT_MIN_DEPOSIT_AMOUNT, MIN_INITIAL_DEPOSIT_AMOUNT,
          GroupIds             \* elevation groups, 1..n

ASSUME GroupsAssumption == IsFiniteSet(GroupIds) /\ GroupIds = 1 .. Cardinality(GroupIds)

FULL_BPS == 10000
NoGroup == [id |-> 0, maxLiquidationBonusBps |-> 0, ltvPct |-> 0, liquidationThresholdPct |-> 0,
            debtReserve |-> NullKey, maxReservesAsCollateral |-> 255]

Ok(c) == [ok |-> TRUE, c |-> c]
Refused(c) == [ok |-> FALSE, c |-> c]

-----------------------------------------------------------------------------
(* state/lending_market.rs, state/token_info.rs, utils/borrow_rate_curve.rs *)

InitLendingMarket(owner) ==
    [lendingMarketOwner |-> owner, lendingMarketOwnerCached |-> NullKey, referralFeeBps |-> 0,
     emergencyMode |-> 0, autodeleverageEnabled |-> 0, borrowDisabled |-> 0,
     priceRefreshTriggerToMaxAgePct |-> 0, liquidationMaxDebtCloseFactorPct |-> 20,
     insolvencyRiskUnhealthyLtvPct |-> 95, minFullLiquidationValueThreshold |-> 2,
     maxLiquidatableDebtMarketValueAtOnce |-> 500000, globalAllowedBorrowValue |-> 45000000,
     riskCouncil |-> NullKey, elevationGroups |-> [i \in GroupIds |-> NoGroup],
     minNetValueInObligationSf |-> <<1, 0>>, minValueSkipLiquidationLtvChecks |-> 0, name |-> NullKey,
     minValueSkipLiquidationBfChecks |-> 0, individualAutodeleverageMarginCallPeriodSecs |-> 0,
     minInitialDepositAmount |-> DEFAULT_MIN_DEPOSIT_AMOUNT]

\* handler_init_reserve.rs: hidden, every limit 0, with the market's first deposit
InitReserve(m) ==
    [config |-> [ZeroConfig EXCEPT !.status = 2], available |-> m.minInitialDepositAmount,
     borrowed |-> 0, supply |-> m.minInitialDepositAmount]

IsEnabled(key) == key # NullKey
IsChain(chain) == chain # NoChain

TokenInfoIsValid(c) ==
    /\ IsEnabled(c.scopePriceFeed) => IsChain(c.scopeChain)
    /\ \/ IsEnabled(c.scopePriceFeed)
       \/ IsEnabled(c.switchboardFeed)
       \/ IsEnabled(c.pythPrice)

IsTwapConfigValid(c) ==
    c.maxTwapDivergenceBps > 0 =>
        /\ c.maxAgeTwapSeconds # 0
        /\ IsEnabled(c.scopePriceFeed) => IsChain(c.scopeTwap)
        /\ IsEnabled(c.switchboardFeed) => IsEnabled(c.switchboardTwap)

\* the points after the last given one repeat it
CurveIsValid(pts) ==
    /\ pts[1][1] = 0
    /\ pts[Len(pts)][1] = 10000
    /\ \A i \in 1..(Len(pts) - 1) :
          /\ IF pts[i][1] = 10000 THEN pts[i + 1][1] = 10000 ELSE pts[i][1] < pts[i + 1][1]
          /\ pts[i][2] <= pts[i + 1][2]

AutodeleverageIsValid(c) ==
    c.autodeleverageEnabled # 0 => /\ c.deleveragingMarginCallPeriodSecs # 0
                                   /\ c.deleveragingThresholdDecreaseBpsPerDay # 0
                                   /\ c.deleveragingBonusIncreaseBpsPerDay # 0

\* validate_reserve_config but for the market's elevation groups; the tiers are
\* 0 regular, 1 isolated collateral, 2 isolated debt
OwnConfigIsValid(c) ==
    /\ c.status \in 0..2
    /\ c.loanToValuePct < 100
    /\ c.maxLiquidationBonusBps <= FULL_BPS
    /\ c.loanToValuePct <= c.liquidationThresholdPct /\ c.liquidationThresholdPct <= 100
    /\ c.borrowFee < FULL_BPS
    /\ c.protocolLiquidationFeePct <= 100 /\ c.protocolTakeRatePct <= 100
    /\ TokenInfoIsValid(c) /\ IsTwapConfigValid(c)
    /\ c.badDebtLiquidationBonusBps < 100
    /\ c.minLiquidationBonusBps <= c.maxLiquidationBonusBps
    /\ c.borrowFactorPct >= 100
    /\ AutodeleverageIsValid(c)
    /\ c.assetTier = 2 => c.loanToValuePct = 0 /\ c.liquidationThresholdPct = 0
    /\ c.assetTier = 1 => c.borrowLimit = 0
    /\ c.borrowLimitOutsideElevationGroup # U64_MAX => c.borrowLimitOutsideElevationGroup <= c.borrowLimit
    /\ c.utilizationLimitBlockBorrowingAbovePct <= 100
    /\ CurveIsValid(c.borrowRateCurve)

GroupAdmits(g, c) ==
    /\ g.liquidationThresholdPct # 0 /\ g.ltvPct # 0
    /\ g.debtReserve # NullKey
    /\ g.debtReserve # ReserveAddress =>
           /\ g.maxLiquidationBonusBps <= c.maxLiquidationBonusBps
           /\ g.liquidationThresholdPct >= c.liquidationThresholdPct
           /\ g.ltvPct >= c.loanToValuePct
           /\ g.ltvPct <= g.liquidationThresholdPct
           /\ g.liquidationThresholdPct <= 100
    /\ g.maxReservesAsCollateral # 0

validate_reserve_config(c, m) ==
    /\ OwnConfigIsValid(c)
    /\ \A i \in c.elevationGroups : i \in GroupIds /\ GroupAdmits(m.elevationGroups[i], c)

-----------------------------------------------------------------------------
(* handler_update_reserve_config.rs *)

\* no bytes where a value is expected: the program panics
Decodes(ix) == ix.value # NoBytes

update_reserve_config(c, ix) ==
    IF ix.mode = "entire" THEN ix.value[1] ELSE [c EXCEPT ![ix.mode] = ix.value[1]]

\* what a handler that forgot the limits would let pass
MaySkipUnused(r, c, m) ==
    r.available <= m.minInitialDepositAmount /\ r.borrowed = 0 /\ r.supply <= m.minInitialDepositAmount

MaySkip(r, c, m) ==
    /\ r.available <= m.minInitialDepositAmount
    /\ r.borrowed = 0
    /\ r.supply <= m.minInitialDepositAmount
    /\ c.depositLimit = 0 /\ c.borrowLimit = 0

UpdateReserveConfig(chain, ix) ==
    LET m == chain.market[1]
        r == chain.reserve[1]
        accepted(c) == IF ix.skip THEN MaySkip(r, c, m) ELSE validate_reserve_config(c, m)
    IN IF chain.reserve # <<>> /\ Decodes(ix) /\ \E c \in {update_reserve_config(r.config, ix)} : accepted(c)
       THEN Ok([chain EXCEPT !.reserve[1].config = update_reserve_config(@, ix)])
       ELSE Refused(chain)

-----------------------------------------------------------------------------
(* handler_update_lending_market.rs, handler_update_lending_market_owner.rs *)

GroupIsValid(g) ==
    /\ g.id \in GroupIds
    /\ g.liquidationThresholdPct \in 1..99
    /\ g.ltvPct <= g.liquidationThresholdPct
    /\ g.maxLiquidationBonusBps <= FULL_BPS
    /\ g.debtReserve # NullKey /\ g.maxReservesAsCollateral # 0
    /\ g.liquidationThresholdPct * (FULL_BPS + g.maxLiquidationBonusBps) <= 100 * FULL_BPS

MarketAccepts(mode, v) ==
    CASE mode \in {"emergencyMode", "autodeleverageEnabled", "borrowDisabled"} -> v \in {0, 1}
      [] mode \in {"liquidationMaxDebtCloseFactorPct", "insolvencyRiskUnhealthyLtvPct"} -> v \in 5..100
      [] mode \in {"maxLiquidatableDebtMarketValueAtOnce", "minFullLiquidationValueThreshold",
                   MarginCallPeriod} -> v # 0
      [] mode = "elevationGroups" -> GroupIsValid(v)
      [] mode = "referralFeeBps" -> v <= FULL_BPS
      [] mode = "priceRefreshTriggerToMaxAgePct" -> v <= 100
      [] mode = "minInitialDepositAmount" -> v >= MIN_INITIAL_DEPOSIT_AMOUNT
      [] OTHER -> TRUE

UpdateLendingMarket(chain, ix) ==
    IF ~MarketAccepts(ix.mode, ix.value) THEN Refused(chain)
    ELSE IF ix.mode = "elevationGroups"
         THEN Ok([chain EXCEPT !.market[1].elevationGroups[ix.value.id] = ix.value])
         ELSE Ok([chain EXCEPT !.market[1][ix.mode] = ix.value])

\* what a handler that exchanged the two would do
OwnerExchanged(m) ==
    [m EXCEPT !.lendingMarketOwner = m.lendingMarketOwnerCached, !.lendingMarketOwnerCached = m.lendingMarketOwner]

OwnerAccepted(m) == [m EXCEPT !.lendingMarketOwner = m.lendingMarketOwnerCached]

-----------------------------------------------------------------------------
\* the account that an instruction requires to sign, as its constraints name it
Authority(chain, ix) ==
    IF ix.ix = "updateLendingMarketOwner" THEN chain.market[1].lendingMarketOwnerCached
    ELSE chain.market[1].lendingMarketOwner

\* the accounts of a reserve are derived from its mint, and can be created once
ConfigStep(chain, ix) ==
    CASE ix.ix = "initReserve" ->
             IF chain.reserve = <<>> THEN Ok([chain EXCEPT !.reserve = <<InitReserve(chain.market[1])>>])
             ELSE Refused(chain)
      [] ix.ix = "updateReserveConfig" -> UpdateReserveConfig(chain, ix)
      [] ix.ix = "updateLendingMarket" -> UpdateLendingMarket(chain, ix)
      [] OTHER -> Ok([chain EXCEPT !.market[1] = OwnerAccepted(@)])

\* A market's account is a new one each time: once there is a market, another one is
\* created beside it, which no command names.
CreateLendingMarket(chain, owner) ==
    IF chain.market = <<>> THEN Ok([chain EXCEPT !.market = <<InitLendingMarket(owner)>>]) ELSE Ok(chain)

\* one instruction: the accounts it names must be the market's, and must have signed
Apply(chain, ix, payer) ==
    IF ix.ix = "initLendingMarket" THEN CreateLendingMarket(chain, ix.signer)
    ELSE IF chain.market # <<>> /\ ix.signer = payer /\ Authority(chain, ix) = ix.signer
         THEN ConfigStep(chain, ix)
         ELSE Refused(chain)

\* an instruction runs unless one before it was refused
Then(e, ix, payer) == IF e.ok THEN Apply(e.c, ix, payer) ELSE e

Executed(chain, tx) ==
    LET after[n \in 0 .. Len(tx.ixs)] ==
            IF n = 0 THEN Ok(chain)
            ELSE CHOOSE r \in {Then(e, tx.ixs[n], tx.payer) : e \in {after[n - 1]}} : TRUE
        end == after[Len(tx.ixs)]
    IN IF end.ok THEN end ELSE Refused(chain)

=============================================================================
