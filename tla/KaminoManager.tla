--------------------------- MODULE KaminoManager ---------------------------
(***************************************************************************)
(* The administrator's side of the client: manager.ts, the configuration    *)
(* part of reserve.ts, managerTypes.ts, and the files of the manager's       *)
(* command line. A reserve's configuration is a record of its leaf fields,    *)
(* and an update is an instruction for each field that differs, in the order   *)
(* the fields are visited; the mode of an instruction is the field's name.      *)
(*                                                                             *)
(* A withdrawal cap is its <<capacity, interval length>> and, in a field of     *)
(* its own, its current total; the start of its interval is left out. A chain    *)
(* of price sources is the ids before the padding. A u128 is its bytes, lowest     *)
(* first. The decimal digits a fee is written with in a file are left out.          *)
(***************************************************************************)
EXTENDS Integers, Sequences, SequencesExt

CONSTANTS U64_MAX, MAX_SAFE_INTEGER,   \* of the program, and of a JavaScript number
          MIN_INITIAL_DEPOSIT,
          MarketChunk,                 \* market updates in one transaction
          MintFactor                   \* lamports in a token

ASSUME ManagerAssumption == MarketChunk \in Nat \ {0}

NullKey == "null"
NoChain == <<>>
NoBytes == <<>>

\* the elements of s that are in S, in their order
Kept(s, S) == FlattenSeq([i \in DOMAIN s |-> IF s[i] \in S THEN <<s[i]>> ELSE <<>>])

Built(ixs) == [err |-> "", ixs |-> ixs]
Thrown(why) == [err |-> why, ixs |-> <<>>]

-----------------------------------------------------------------------------
(* The fields in the order of ReserveConfig.toEncodable *)

RiskKeys == <<"status", "assetTier", "hostFixedInterestRateBps", "protocolTakeRatePct",
              "protocolLiquidationFeePct", "loanToValuePct", "liquidationThresholdPct",
              "minLiquidationBonusBps", "maxLiquidationBonusBps", "badDebtLiquidationBonusBps">>
RateKeys == <<"deleveragingMarginCallPeriodSecs", "deleveragingThresholdDecreaseBpsPerDay",
              "borrowFee", "flashLoanFee", "borrowRateCurve", "borrowFactorPct",
              "depositLimit", "borrowLimit">>
TokenInfoKeys == <<"name", "lower", "upper", "exp", "maxTwapDivergenceBps", "maxAgePriceSeconds",
                   "maxAgeTwapSeconds", "scopeChain", "scopeTwap", "switchboardFeed",
                   "switchboardTwap", "pythPrice", "blockPriceUsage", "scopePriceFeed">>
CapKeys == <<"depositCap", "depositCapTotal", "debtCap", "debtCapTotal">>
ElevationKeys == <<"elevationGroups", "disableUsageAsCollOutsideEmode",
                   "utilizationLimitBlockBorrowingAbovePct", "autodeleverageEnabled",
                   "borrowLimitOutsideElevationGroup", "borrowLimitAgainstGroup",
                   "deleveragingBonusIncreaseBpsPerDay">>
ReserveKeys == RiskKeys \o RateKeys \o TokenInfoKeys \o CapKeys \o ElevationKeys

CapOf == [depositCapTotal |-> "depositCap", debtCapTotal |-> "debtCap"]

\* handleConfigUpdate: a field is sent when it differs; a cap's total only when the cap does not
Differs(key, old, new) ==
    /\ old[key] # new[key]
    /\ key \in DOMAIN CapOf => old[CapOf[key]] = new[CapOf[key]]

\* the fields that pass through toNumber, which throws beyond the safe integers
NumberKeys == {"deleveragingMarginCallPeriodSecs", "deleveragingThresholdDecreaseBpsPerDay",
               "borrowFee", "flashLoanFee", "borrowFactorPct", "lower", "upper", "exp",
               "maxTwapDivergenceBps", "maxAgePriceSeconds", "maxAgeTwapSeconds",
               "borrowLimitOutsideElevationGroup", "deleveragingBonusIncreaseBpsPerDay"}
ListKeys == {"depositCap", "debtCap", "borrowLimitAgainstGroup"}

\* a cap's total is encoded as if it were the cap, and BigInt(undefined) throws
Encodable(key, value) ==
    /\ key \notin DOMAIN CapOf
    /\ key \in NumberKeys => value <= MAX_SAFE_INTEGER
    /\ key \in ListKeys => \A i \in DOMAIN value : value[i] <= MAX_SAFE_INTEGER

\* the host rate has no case of its own, and is sent as no bytes
updateReserveConfigEncodedValue(key, value) ==
    IF key = "hostFixedInterestRateBps" THEN NoBytes ELSE <<value>>

updateReserveConfigIx(market, key, value, skip) ==
    [ix |-> "updateReserveConfig", signer |-> market.lendingMarketOwner, mode |-> key,
     value |-> value, skip |-> skip]

updateEntireReserveConfigIx(market, config) == updateReserveConfigIx(market, "entire", <<config>>, FALSE)

modeMatches(key) == key \in {"scopePriceFeed", "scopeChain", "scopeTwap", "exp", "maxTwapDivergenceBps",
                             "maxAgePriceSeconds", "maxAgeTwapSeconds"}

FirstAmong(keys, first) == Kept(keys, first) \o Kept(keys, Range(keys) \ first)

\* sorting the feed to the front without its chain
sortIxnsByPriorityFeedFirst(keys) == FirstAmong(keys, {"scopePriceFeed"})

sortIxnsByPriority(keys) == FirstAmong(keys, {"scopeChain", "scopePriceFeed"})

SortedKeys == sortIxnsByPriority(ReserveKeys)

\* validation of the price fields is skipped for any reserve short of liquidity
skipValidation(key, reserve) == modeMatches(key) /\ reserve.available < MIN_INITIAL_DEPOSIT

\* one for each field that differs; the sort is stable, and the fields are sorted here before
parseForChangesReserveConfigAndGetIxs(market, reserve, config) ==
    LET differs(k) == Differs(k, reserve.config, config)
        ixn(k) == updateReserveConfigIx(market, k, updateReserveConfigEncodedValue(k, config[k]),
                                        skipValidation(k, reserve))
    IN IF \A k \in Range(ReserveKeys) : differs(k) => Encodable(k, config[k])
       THEN Built(FlattenSeq([i \in DOMAIN SortedKeys |->
                                 IF differs(SortedKeys[i]) THEN <<ixn(SortedKeys[i])>> ELSE <<>>]))
       ELSE Thrown("value")

\* reserve: none on chain, or one. Without one, the branches for no reserve are not reached
updateReserveIxs(market, reserve, config, updateEntireConfig) ==
    IF reserve = <<>> \/ updateEntireConfig
    THEN Built(<<updateEntireReserveConfigIx(market, config)>>)
    ELSE parseForChangesReserveConfigAndGetIxs(market, reserve[1], config)

-----------------------------------------------------------------------------
(* A new reserve *)

\* a price feed names some of a scope account with its chains, a pyth and a switchboard account
getReserveOracleConfigs(feed) ==
    LET has(k) == k \in DOMAIN feed
        given(k) == IF has(k) THEN feed[k] ELSE NullKey
        scoped(k) == IF has("scope") THEN feed[k] ELSE NoChain
    IN [pythPrice |-> given("pyth"),
        switchboardFeed |-> given("switchboard"),
        switchboardTwap |-> IF has("switchboard") THEN given("switchboardTwap") ELSE NullKey,
        scopePriceFeed |-> given("scope"), scopeChain |-> scoped("chain"), scopeTwap |-> scoped("twap")]

FlatCurve(rate) == <<<<0, rate>>, <<10000, rate>>>>

\* the object that every asset's parameters start from, and share
DefaultConfigParams ==
    [loanToValuePct |-> 70, maxLiquidationBonusBps |-> 500, minLiquidationBonusBps |-> 200,
     badDebtLiquidationBonusBps |-> 10, liquidationThresholdPct |-> 75, borrowFee |-> 0,
     flashLoanFee |-> 0, protocolTakeRate |-> 0, elevationGroups |-> {}, priceFeed |-> <<>>,
     borrowLimit |-> 1000, depositLimit |-> 1000, borrowRateCurve |-> FlatCurve(1000),
     maxAgePriceSeconds |-> 180, maxAgeTwapSeconds |-> 240]

\* the constructors write their fields into the shared object
Overwritten(params, fields) == [k \in DOMAIN params |-> IF k \in DOMAIN fields THEN fields[k] ELSE params[k]]
AssetReserveConfig(params, f) ==
    Overwritten(params, [priceFeed |-> f.priceFeed, loanToValuePct |-> f.loanToValuePct,
                         liquidationThresholdPct |-> f.liquidationThresholdPct,
                         borrowRateCurve |-> f.borrowRateCurve, depositLimit |-> f.depositLimit,
                         borrowLimit |-> f.borrowLimit])
CollateralConfig(params, f) ==
    Overwritten(params, [priceFeed |-> f.priceFeed, loanToValuePct |-> f.loanToValuePct,
                         liquidationThresholdPct |-> f.liquidationThresholdPct, borrowLimit |-> 0])
DebtConfig(params, f) ==
    Overwritten(params, [priceFeed |-> f.priceFeed, borrowRateCurve |-> f.borrowRateCurve])

\* every field 0 or absent, as a configuration starts
ZeroConfig ==
    [k \in Range(ReserveKeys) |->
        CASE k \in {"depositCap", "debtCap"} -> <<0, 0>>
          [] k = "borrowRateCurve" -> FlatCurve(0)
          [] k \in {"scopeChain", "scopeTwap"} -> NoChain
          [] k \in {"name", "switchboardFeed", "switchboardTwap", "pythPrice", "scopePriceFeed"} -> NullKey
          [] k \in {"elevationGroups"} -> {}
          [] k = "borrowLimitAgainstGroup" -> <<0>>
          [] OTHER -> 0]

buildReserveConfig(params, name) ==
    LET feed == getReserveOracleConfigs(params.priceFeed)
        fields == [params EXCEPT !.depositLimit = @ * MintFactor, !.borrowLimit = @ * MintFactor]
        fixed == [protocolTakeRatePct |-> params.protocolTakeRate, name |-> name, borrowFactorPct |-> 100,
                  deleveragingThresholdDecreaseBpsPerDay |-> 24, deleveragingBonusIncreaseBpsPerDay |-> 100]
    IN Overwritten(Overwritten(Overwritten(ZeroConfig, fields), feed), fixed)

createReserveIxs(owner) == <<[ix |-> "initReserve", signer |-> owner]>>
createMarketIxs(admin) == <<[ix |-> "initLendingMarket", signer |-> admin]>>

\* first the account, then its whole configuration: no reserve is there to compare with
addAssetToMarketIxs(market, admin, config) ==
    <<createReserveIxs(admin), updateReserveIxs(market, <<>>, config, FALSE).ixs>>

\* oracle: [scope, chain, maxAge]; twap: none or one
updateReserveScopeOracleConfigurationIxs(market, reserve, oracle, twap, buffer) ==
    LET feed == getReserveOracleConfigs([scope |-> oracle.scope, chain |-> <<oracle.id>>,
                                         twap |-> IF twap = <<>> THEN NoChain ELSE <<twap[1].id>>])
        old == reserve.config
        config == [old EXCEPT !.scopePriceFeed = feed.scopePriceFeed, !.scopeChain = feed.scopeChain,
                              !.scopeTwap = feed.scopeTwap,
                              !.maxAgePriceSeconds = oracle.maxAge + buffer,
                              !.maxAgeTwapSeconds = IF twap = <<>> THEN @ ELSE twap[1].maxAge + buffer]
    IN updateReserveIxs(market, <<reserve>>, config, FALSE)

-----------------------------------------------------------------------------
(* Configuration files *)

\* both write the liquidation fee where the take rate belongs; a file holds no cap totals
parseReserveConfigToFile(config) == [config EXCEPT !.protocolTakeRatePct = config.protocolLiquidationFeePct]
parseReserveConfigFromFile(file) ==
    [file EXCEPT !.protocolTakeRatePct = file.protocolLiquidationFeePct,
                 !.depositCapTotal = 0, !.debtCapTotal = 0]

-----------------------------------------------------------------------------
(* The market's fields in the order of LendingMarket.toJSON *)

MarketKeys == <<"lendingMarketOwner", "lendingMarketOwnerCached", "referralFeeBps", "emergencyMode",
                "autodeleverageEnabled", "borrowDisabled", "priceRefreshTriggerToMaxAgePct",
                "liquidationMaxDebtCloseFactorPct", "insolvencyRiskUnhealthyLtvPct",
                "minFullLiquidationValueThreshold", "maxLiquidatableDebtMarketValueAtOnce",
                "globalAllowedBorrowValue", "riskCouncil", "elevationGroups",
                "minNetValueInObligationSf", "minValueSkipLiquidationLtvChecks", "name",
                "minValueSkipLiquidationBfChecks", "individualAutodeleverageMarginCallPeriodSecs",
                "minInitialDepositAmount">>
MarketNumberKeys == {"minFullLiquidationValueThreshold", "maxLiquidatableDebtMarketValueAtOnce",
                     "globalAllowedBorrowValue", "minValueSkipLiquidationLtvChecks",
                     "minValueSkipLiquidationBfChecks", "individualAutodeleverageMarginCallPeriodSecs",
                     "minInitialDepositAmount"}
MarginCallPeriod == "individualAutodeleverageMarginCallPeriodSecs"

\* the two owners have one mode; the lowest byte of a u128 is written last
updateMarketConfigEncodedValue(key, value) ==
    IF key = "minNetValueInObligationSf" THEN Reverse(value) ELSE value

updateMarketConfigIx(market, mode, value) ==
    [ix |-> "updateLendingMarket", signer |-> market.lendingMarketOwner, mode |-> mode, value |-> value]

GroupsChanged(market, newMarket) ==
    LET ids == DOMAIN market.elevationGroups
    IN Kept([i \in ids |-> i], {i \in ids : market.elevationGroups[i] # newMarket.elevationGroups[i]})

\* The margin call period is compared by reference: it is sent when the new market was
\* read from a file, and not when it was copied from the old one.
updateLendingMarketConfig(market, key, newMarket, fromFile) ==
    LET send(mode) == <<updateMarketConfigIx(market, mode, updateMarketConfigEncodedValue(key, newMarket[key]))>>
        changed == GroupsChanged(market, newMarket)
    IN IF key = "elevationGroups"
       THEN [i \in DOMAIN changed |->
                updateMarketConfigIx(market, "elevationGroups", newMarket.elevationGroups[changed[i]])]
       ELSE IF key = MarginCallPeriod THEN (IF fromFile THEN send(key) ELSE <<>>)
       ELSE IF market[key] = newMarket[key] THEN <<>>
       ELSE send(IF key = "lendingMarketOwner" THEN "lendingMarketOwnerCached" ELSE key)

updateLendingMarketIxs(market, newMarket, fromFile) ==
    LET ixs(key) == updateLendingMarketConfig(market, key, newMarket, fromFile)
    IN IF \/ Len(GroupsChanged(market, newMarket)) > 1
          \/ \E key \in MarketNumberKeys : ixs(key) # <<>> /\ newMarket[key] > MAX_SAFE_INTEGER
       THEN Thrown("market")
       ELSE Built(FlattenSeq([i \in DOMAIN MarketKeys |-> ixs(MarketKeys[i])]))

updateLendingMarketOwnerIxs(market) ==
    <<[ix |-> "updateLendingMarketOwner", signer |-> market.lendingMarketOwnerCached]>>

\* a market file is sent a few instructions at a time
InChunks(ixs) ==
    LET n == (Len(ixs) + MarketChunk - 1) \div MarketChunk
        last(i) == IF i = n THEN Len(ixs) ELSE i * MarketChunk
    IN [i \in 1..n |-> SubSeq(ixs, (i - 1) * MarketChunk + 1, last(i))]

=============================================================================
