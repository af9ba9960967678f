---------------------------- MODULE KaminoVault ----------------------------
(***************************************************************************)
(* KaminoVaultClient of ts-client/src/classes/vault.ts: the instructions it   *)
(* builds for a vault, and what it works out of a vault's holdings. A vault V  *)
(* is a record of the account's fields, its allocation a sequence of slots in   *)
(* which a removed reserve leaves a hole; m is the loaded reserves, tables the   *)
(* lookup tables, c the accounts of the owners. An operation returns            *)
(* [err, ixs]: what it throws, or the instructions. Token accounts that are      *)
(* created idempotently are left out, wrapped SOL is not.                        *)
(***************************************************************************)
EXTENDS KaminoReserve, KvaultIxs

CONSTANTS Factor,               \* 10 ^ decimals, of the token and of the shares
          SECONDS_PER_YEAR,
          SlotMs,               \* recentSlotDurationMs
          VAULT_INITIAL_DEPOSIT,
          ChunkSize,            \* of the extensions of a lookup table
          MaxRounds             \* bound: rounds of the allocation loop that are followed

NoTable == <<>>
LamportsToTokens(x) == Over(x, Dec(Factor))
Fail(message) == [err |-> message, ixs |-> <<>>]
Done(ixs) == [err |-> "", ixs |-> ixs]

\* new BN(x.toString()) refuses a fraction
WithInteger(x, ixs) == IF IsInt(x) THEN Done(ixs) ELSE Fail("Invalid character")

-----------------------------------------------------------------------------
(* The allocation *)

Used(V) == Kept(V.alloc, {a \in ToSet(V.alloc) : a.reserve # NullKey})
getVaultReserves(V) == [i \in DOMAIN Used(V) |-> Used(V)[i].reserve]
ReserveSet(V) == {V.alloc[i].reserve : i \in DOMAIN V.alloc} \ {NullKey}
getVaultAllocations(V) ==
    [r \in ReserveSet(V) |-> CHOOSE a \in ToSet(V.alloc) : a.reserve = r]
WeightSum(V) == SumOf(LAMBDA r : Dec(getVaultAllocations(V)[r].weight), ReserveSet(V))
getAllocationsDistribuionPct(V) ==
    [r \in ReserveSet(V) |-> Over(Dec(100 * getVaultAllocations(V)[r].weight), WeightSum(V))]
hasFarm(V) == V.farm # NullKey
getVaultFeesPct(V) ==
    [managementFeePct |-> Ratio(V.mgmtBps, 100), performanceFeePct |-> Ratio(V.perfBps, 100)]

-----------------------------------------------------------------------------
(* Holdings *)

CTokensIn(V, r) == Dec(getVaultAllocations(V)[r].ctokens)

\* the referral fee out of the reserve's absolute rate; the fraction is floored to 0
\* before it is taken for basis points, unless the referrer gets all of the fee
ReferralBps(R) == IF R.takeRatePct = 0 THEN 0
                  ELSE Floor(Over(R.absoluteReferralRate, PctToDec(R.takeRatePct)))

\* Mutant: the rate as of the last refresh of the reserve.
getSuppliedInReserveLoaded(V, R, r, slot) ==
    LamportsToTokens(Over(CTokensIn(V, r), getCollateralExchangeRate(R)))
getSuppliedInReserve(V, R, r, slot) ==
    LamportsToTokens(Over(CTokensIn(V, r), getEstimatedCollateralExchangeRate(R, slot, ReferralBps(R))))

\* slot 0: none was passed. Past the current slot the fees to come are added, with
\* milliseconds for seconds and the previous assets in tokens among lamports
HoldingsOf(V, inReserve, invested, slot, now) ==
    LET prevAum == LamportsToTokens(V.prevAum)
        mgmt == Times(prevAum, Ratio((slot - now) * SlotMs * V.mgmtBps, SECONDS_PER_YEAR * 10000))
        earned == Minus(Minus(Plus(invested, Dec(V.available)), prevAum), mgmt)
        toCome == IF slot > now THEN Plus(mgmt, Times(earned, BpsToDec(V.perfBps))) ELSE Zero
    IN [available |-> fromLamports(V.available, Factor),
        invested |-> LamportsToTokens(invested),
        investedInReserves |-> [r \in ReserveSet(V) |-> LamportsToTokens(inReserve[r])],
        totalAUMIncludingFees |-> LamportsToTokens(Plus(Dec(V.available), invested)),
        pendingFees |-> LamportsToTokens(Plus(V.fees, toCome))]

HoldingsIn(V, inReserve, slot, now) ==
    HoldingsOf(V, inReserve, SumOf(LAMBDA r : inReserve[r], ReserveSet(V)), slot, now)

getVaultHoldings(V, m, slot, now) ==
    HoldingsIn(V, [r \in ReserveSet(V) |->
                      Over(CTokensIn(V, r),
                           IF slot # 0 THEN getEstimatedCollateralExchangeRate(m[r], slot, 0)
                           ELSE getCollateralExchangeRate(m[r]))], slot, now)

NetAum(h) == Minus(h.totalAUMIncludingFees, h.pendingFees)

getTokensPerShareSingleVault(V, m, slot, now) ==
    IF V.issued = 0 THEN Zero
    ELSE Over(NetAum(getVaultHoldings(V, m, slot, now)), fromLamports(V.issued, Factor))

Priced(V, h, price) ==
    [holdings |-> h,
     availableUSD |-> Times(h.available, price),
     investedUSD |-> Times(h.invested, price),
     investedInReservesUSD |-> [r \in ReserveSet(V) |-> Times(h.investedInReserves[r], price)],
     totalUSDIncludingFees |-> Times(h.totalAUMIncludingFees, price),
     pendingFeesUSD |-> Times(h.pendingFees, price)]
getVaultHoldingsWithPrice(V, price, m, slot, now) ==
    Priced(V, getVaultHoldings(V, m, slot, now), price)

LentOut(V, invested, borrowed) ==
    [totalInvested |-> invested, totalBorrowed |-> borrowed,
     utilizationRatio |-> IF invested = Zero THEN Zero
                          ELSE Over(borrowed, Plus(invested, fromLamports(V.available, Factor)))]
LentOutOf(V, inReserve, used) ==
    LentOut(V, SumOf(LAMBDA r : inReserve[r], ReserveSet(V)),
            SumOf(LAMBDA r : Times(inReserve[r], used[r]), ReserveSet(V)))
getTotalBorrowedAndInvested(V, m, slot) ==
    LentOutOf(V, [r \in ReserveSet(V) |->
                     LamportsToTokens(Over(CTokensIn(V, r),
                                           getEstimatedCollateralExchangeRate(m[r], slot, 0)))],
              [r \in ReserveSet(V) |-> getEstimatedUtilizationRatio(m[r], slot, 0)])

DetailsOf(R, slot, supplied, used) ==
    [supplyAPR |-> calculateSupplyAPR(R, slot, 0), utilizationRatio |-> used,
     liquidationThresholdPct |-> R.liquidationPct,
     totalBorrowedAmount |-> R.borrowed, market |-> R.market,
     suppliedAmount |-> supplied, amountBorrowedFromSupplied |-> Times(supplied, used)]
getVaultReservesDetails(V, m, slot) ==
    [r \in ReserveSet(V) |->
        DetailsOf(m[r], slot, getSuppliedInReserve(V, m[r], r, slot),
                  getEstimatedUtilizationRatio(m[r], slot, 0))]

\* the lowest threshold of the market's active collaterals; the highest starts at
\* 100, which no threshold exceeds
getVaultCollaterals(V, m) ==
    [r \in ReserveSet(V) |->
        LET others == {o \in Reserves \ {r} : /\ m[o].market = m[r].market
                                              /\ m[o].liquidationPct > 0
                                              /\ m[o].status = "active"}
        IN [reservesAsCollateral |-> others, maxLTVPct |-> 100,
            minLTVPct |-> IF others = {} THEN 0
                          ELSE Min({m[o].liquidationPct : o \in others})]]

\* yearly rates stand for the compounded ones
APYOf(V, gross) ==
    LET keep(bps) == Minus(One, BpsToDec(bps))
    IN [grossAPY |-> gross, netAPY |-> Times(Times(gross, keep(V.perfBps)), keep(V.mgmtBps))]
getVaultTheoreticalAPY(V, m, slot) ==
    LET weighted(r) == Times(calculateSupplyAPR(m[r], slot, 0), Dec(getVaultAllocations(V)[r].weight))
    IN IF WeightSum(V) = Zero THEN [grossAPY |-> Zero, netAPY |-> Zero]
       ELSE APYOf(V, Over(SumOf(weighted, ReserveSet(V)), WeightSum(V)))

OverviewOf(V, price, m, slot, now, t) ==
    [holdingsUSD |-> getVaultHoldingsWithPrice(V, price, m, slot, now),
     reservesOverview |-> getVaultReservesDetails(V, m, slot),
     vaultCollaterals |-> getVaultCollaterals(V, m),
     theoreticalSupplyAPY |-> getVaultTheoreticalAPY(V, m, slot),
     totalBorrowed |-> t.totalBorrowed, utilizationRatio |-> t.utilizationRatio,
     totalSupplied |-> t.totalInvested]
getVaultOverview(V, price, m, slot, now) ==
    OverviewOf(V, price, m, slot, now, getTotalBorrowedAndInvested(V, m, slot))

WithInterest(V, h) ==
    [holdings |-> h,
     earnedInterest |-> Minus(Minus(h.totalAUMIncludingFees, LamportsToTokens(V.prevAum)),
                              LamportsToTokens(V.fees))]
calculateSimulatedHoldingsWithInterest(V, m, slot, now) ==
    WithInterest(V, getVaultHoldings(V, m, slot, now))

calculateSimulatedFees(V, m, slot, now, seconds) ==
    [managementFee |-> Times(LamportsToTokens(V.prevAum),
                             Ratio((seconds - V.lastCharge) * V.mgmtBps, SECONDS_PER_YEAR * 10000)),
     performanceFee |-> Times(calculateSimulatedHoldingsWithInterest(V, m, slot, now).earnedInterest,
                              BpsToDec(V.perfBps))]

-----------------------------------------------------------------------------
(* Where the tokens should be *)

\* One reserve of a round: over is what the round started with. A reserve that takes
\* its cap leaves the sum, also in the rounds after; with a sum of 0 the target is
\* infinite, except that a weight of 0 (or nothing left over) over that sum is not a
\* number, which this leaves out: it takes a round in which every weight has reached a
\* cap. The cap is in lamports, the amounts are in tokens.
AllotTo(V, s, r, over) ==
    LET a == getVaultAllocations(V)[r]
        target == IF s.sum = Zero THEN s.left
                  ELSE Least2(Over(Times(Dec(a.weight), over), s.sum), s.left)
        amount == IF a.cap > 0 THEN Least2(target, Dec(a.cap)) ELSE target
    IN [left |-> Minus(s.left, amount),
        sum |-> IF a.cap > 0 /\ amount = Dec(a.cap) THEN Minus(s.sum, Dec(a.weight)) ELSE s.sum,
        dist |-> [x \in DOMAIN s.dist \cup {r} |->
                     IF x # r THEN s.dist[x] ELSE IF r \in DOMAIN s.dist THEN Plus(s.dist[r], amount)
                     ELSE amount]]

\* rounds follow as long as more than one token is left
Round(V, s) ==
    IF LessThan(One, s.left) THEN FoldLeft(LAMBDA t, r : AllotTo(V, t, r, s.left), s, getVaultReserves(V))
    ELSE s
Rounds(V, s, n) ==
    LET after[k \in 0 .. n] == IF k = 0 THEN s ELSE Round(V, after[k - 1])
    IN after[n].dist

\* empty when no more than one token is held: the loop is not entered
getVaultComputedReservesAllocation(V, m, slot, now) ==
    IF \A r \in ReserveSet(V) : getVaultAllocations(V)[r].weight = 0
    THEN [r \in ReserveSet(V) |-> Zero]
    ELSE Rounds(V, [left |-> NetAum(getVaultHoldings(V, m, slot, now)), sum |-> WeightSum(V),
                    dist |-> [r \in {} |-> Zero]], MaxRounds)

-----------------------------------------------------------------------------
(* Lookup tables *)

Owner(k) == <<"owner", k>>
VaultKeys(ks) == {<<"vault", k>> : k \in ks}
ReserveKeys(r, ks) == {<<r, k>> : k \in ks}
FarmKeys(r) == (IF r \in FarmCollateral THEN ReserveKeys(r, {"farmCollateral"}) ELSE {})
                   \cup (IF r \in FarmDebt THEN ReserveKeys(r, {"farmDebt"}) ELSE {})

getReserveAccountsToInsertInLut(R, r) ==
    {<<R.market, "market">>} \cup FarmKeys(r)
        \cup ReserveKeys(r, {"mint", "supplyVault", "feeVault", "collateralMint", "collateralSupply"})

initLookupTableIx(payer, slot) == createTable(payer, slot)

getAccountsInLUT(tables, lut) == IF lut \in DOMAIN tables THEN tables[lut].keys ELSE {}
Missing(tables, lut) == lut \notin DOMAIN tables

\* a chunk of at most ChunkSize of the keys that are not there yet, for each extension:
\* what is left to do before it but not after it
WithoutOne(keys) == keys \ {CHOOSE k \in keys : TRUE}
insertIntoLookupTableIxs(payer, lut, keys, present) ==
    LET todo == keys \ present
        chunks == (Cardinality(todo) + ChunkSize - 1) \div ChunkSize
        rest[n \in 0 .. Cardinality(todo)] == IF n = 0 THEN todo ELSE WithoutOne(rest[n - 1])
        Left(i) == IF i = 0 THEN todo ELSE IF i = chunks THEN {} ELSE rest[i * ChunkSize]
    IN [i \in 1 .. chunks |-> extendTable(payer, lut, Left(i - 1) \ Left(i))]

-----------------------------------------------------------------------------
(* The administrator's instructions *)

\* the reserves of the allocation go with every instruction of the program
updateVaultConfigIx(V, field, value, signer) ==
    updateVaultConfig(signer, field, value, getVaultReserves(V))

\* a farm that does not exist yet leaves the table alone; a table that is not there throws
updateVaultConfigIxs(V, tables, field, value, signer, farms) ==
    LET config == updateVaultConfigIx(V, field, value, signer)
        keys == CASE field = "pending" -> {Owner(value)}
                  [] field = "farm" /\ value \in farms ->
                         VaultKeys({value, "farmVault", "farmAuthority", "sharesMint", "globalConfig"})
                  [] OTHER -> {}
    IN IF keys = {} \/ (field = "farm" /\ Missing(tables, V.lut)) THEN Done(<<config>>)
       ELSE IF Missing(tables, V.lut) THEN Fail("Lookup table not found")
       ELSE Done(<<config>> \o insertIntoLookupTableIxs(V.admin, V.lut, keys,
                                                        getAccountsInLUT(tables, V.lut)))

setVaultFarmIxs(V, tables, farm, errorOnOverride, farms) ==
    IF hasFarm(V) /\ errorOnOverride THEN Fail("Vault already has a farm")
    ELSE updateVaultConfigIxs(V, tables, "farm", farm, V.admin, farms)

updateUninitialisedVaultConfigIx(admin, field, value) == updateVaultConfig(admin, field, value, <<>>)

\* the instructions of the first transaction and of the one after, which fills the table
createVaultIxs(admin, perfBps, mgmtBps, slot, native) ==
    LET lut == <<admin, slot>>
        fee(field, bps) == IF bps > 0 THEN <<updateUninitialisedVaultConfigIx(admin, field, bps)>> ELSE <<>>
        wrap == IF native THEN <<wrapSol(admin, VAULT_INITIAL_DEPOSIT)>> ELSE <<>>
        keys == {Owner(admin)} \cup VaultKeys({"vault", "tokenMint", "tokenProgram", "authority",
                    "sharesMint", "system", "rent", "token", "klend", "instructions"})
    IN <<wrap \o <<initVault(admin), updateUninitialisedVaultConfigIx(admin, "lut", lut)>>
              \o fee("perfBps", perfBps) \o fee("mgmtBps", mgmtBps) \o <<initLookupTableIx(admin, slot)>>,
         insertIntoLookupTableIxs(admin, lut, keys, {})>>

updateReserveAllocationIxs(V, m, tables, r, weight, capTokens) ==
    LET keys == ReserveKeys(r, {"reserve", "ctokenVault"})
                    \cup getReserveAccountsToInsertInLut(m[r], r) \cup {<<m[r].market, "authority">>}
    IN IF Missing(tables, V.lut) THEN Fail("Lookup table not found")
       ELSE Done(<<updateReserveAllocation(V.admin, r, weight, Floor(toLamports(capTokens, Factor)))>>
                     \o insertIntoLookupTableIxs(V.admin, V.lut, keys, getAccountsInLUT(tables, V.lut)))

removeReserveFromAllocationIx(V, r) ==
    IF r \notin ReserveSet(V) THEN <<>>
    ELSE <<removeAllocation(V.admin, r)>>

\* Mutant: the vault keeps the table of its former administrator.
acceptVaultOwnershipIxsKeepsTable(V, tables, slot) ==
    [err |-> "", accept |-> updateAdmin(V.pending),
     init |-> initLookupTableIx(V.pending, slot), fill |-> <<>>]

\* a table is its creator's: the new administrator gets one of their own, filled with
\* what the old one held but for the former administrator, and sets it
acceptVaultOwnershipIxs(V, tables, slot) ==
    LET new == <<V.pending, slot>>
        held == getAccountsInLUT(tables, V.lut) \ {Owner(V.admin)}
    IN [err |-> IF Missing(tables, V.lut) THEN "Lookup table not found" ELSE "",
        accept |-> updateAdmin(V.pending),
        init |-> initLookupTableIx(V.pending, slot),
        fill |-> insertIntoLookupTableIxs(V.pending, new, held, {})
                     \o <<updateVaultConfigIx(V, "lut", new, V.pending)>>]

\* a setup when the vault has no table, and the extensions, one transaction each
syncVaultLookupTableIxs(V, m, tables, slot) ==
    LET none == V.lut = NoTable
        lut == IF none THEN <<V.admin, slot>> ELSE V.lut
        keys == {Owner(V.admin)}
                    \cup VaultKeys({"vault", "authority", "tokenMint", "tokenVault", "sharesMint",
                                    "tokenProgram", "klend"})
                    \cup (UNION {ReserveKeys(r, {"reserve", "ctokenVault", "supplyVault", "feeVault",
                                                 "collateralMint", "collateralSupply"})
                                     \cup {<<m[r].market, "market">>} \cup FarmKeys(r) : r \in ReserveSet(V)})
                    \cup (IF hasFarm(V) THEN VaultKeys({V.farm}) ELSE {})
    IN [err |-> IF ~none /\ Missing(tables, lut) THEN "Lookup table not found" ELSE "",
        setup |-> IF none THEN <<initLookupTableIx(V.admin, slot),
                                 updateVaultConfigIx(V, "lut", lut, V.admin)>> ELSE <<>>,
        sync |-> insertIntoLookupTableIxs(V.admin, lut, keys, IF none THEN {} ELSE getAccountsInLUT(tables, lut))]

giveUpPendingFeesIx(V, maxTokens) ==
    WithInteger(toLamports(maxTokens, Factor),
                <<giveUpPendingFees(V.admin, Floor(toLamports(maxTokens, Factor)))>>)

-----------------------------------------------------------------------------
(* Deposits, withdrawals and stakes *)

getFarmStakeIxs(owner, lamports, farm, staker) ==
    (IF staker THEN <<>> ELSE <<createFarmUser(owner)>>) \o <<stake(owner, farm, lamports)>>
getFarmUnstakeIx(owner, lamports, farm) == unstake(owner, farm, lamports)
getFarmWithdrawUnstakedDepositIx(owner, farm) == withdrawUnstaked(owner, farm)
getFarmUnstakeAndWithdrawIxs(owner, lamports, farm) ==
    <<getFarmUnstakeIx(owner, lamports, farm), getFarmWithdrawUnstakedDepositIx(owner, farm)>>

\* all of the owner's shares when no amount is given; hasFarm is not awaited here
stakeSharesIxs(V, owner, shares, farms, staker) ==
    LET lamports == IF shares = <<>> THEN Dec(U64_MAX) ELSE toLamports(shares[1], Factor)
    IN IF Leq(lamports, Zero) THEN Done(<<>>)
       ELSE IF V.farm \notin farms THEN Fail("Farm state not found")
       ELSE Done(getFarmStakeIxs(owner, Floor(lamports), V.farm, staker))

depositIxs(V, owner, tokens, native, farms, staker) ==
    LET lamports == toLamports(tokens, Factor)
        wrap == IF native THEN <<wrapSol(owner, Ceil(lamports))>> ELSE <<>>
        staking == IF hasFarm(V) THEN stakeSharesIxs(V, owner, <<>>, farms, staker) ELSE Done(<<>>)
    IN IF staking.err # "" THEN staking
       ELSE WithInteger(lamports, wrap \o <<deposit(owner, Floor(lamports), getVaultReserves(V))>> \o staking.ixs)

\* in the order of the slots; the liquidity is the reserve's as of its last refresh
getReserveAllocationAvailableLiquidityToWithdraw(V, m, slot) ==
    [i \in DOMAIN Used(V) |->
        LET r == Used(V)[i].reserve
        IN [reserve |-> r,
            free |-> Least2(Over(Dec(Used(V)[i].ctokens),
                                 getEstimatedCollateralExchangeRate(m[r], slot, ReferralBps(m[r]))),
                            m[r].available)]]

MostFirst(s) ==
    LET before(i, j) == LessThan(s[j].free, s[i].free) \/ (s[i].free = s[j].free /\ i < j)
        order == SetToSortSeq(DOMAIN s, before)
    IN [k \in DOMAIN s |-> s[order[k]]]

\* Mutant: what the vault has available is not added to the first reserve's part.
TakenReserveOnly(left, free, first, available) == Least2(left, free)

\* what a reserve gives of what is left; the first also takes what is available, which
\* then counts a second time against what is left
Taken(left, free, first, available) ==
    IF first THEN Plus(Least2(left, free), available) ELSE Least2(left, free)

withdrawIx(V, owner, r, lamports) == withdraw(owner, r, lamports, getVaultReserves(V))
withdrawFromAvailableIx(owner, lamports) == withdrawFromAvailable(owner, lamports)
withdrawPendingFeesIx(V, r) == withdrawPendingFees(V.admin, r, getVaultReserves(V))

\* the reserves a withdrawal takes from, and the shares for each
PartsOf(s, due, available, sharesPerToken) ==
    LET TakenAt(n, left) == Taken(left, s[n].free, n = 1, available)
        LeftBy(n, left) == IF LessThan(Zero, left) THEN Minus(left, TakenAt(n, left)) ELSE left
        left[n \in 0 .. Len(s)] == IF n = 0 THEN due ELSE LeftBy(n, left[n - 1])
        part(n) == [reserve |-> s[n].reserve,
                    shares |-> Dec(Ceil(Times(TakenAt(n, left[n - 1]), sharesPerToken)))]
    IN FlattenSeq([n \in DOMAIN s |-> IF LessThan(Zero, left[n - 1]) THEN <<part(n)>> ELSE <<>>])
WithdrawParts(V, lamports, left, perShare, free) ==
    IF LessThan(Zero, left) THEN PartsOf(MostFirst(free), left, Dec(V.available), Over(One, perShare))
    ELSE <<[reserve |-> V.alloc[1].reserve, shares |-> lamports]>>

\* every part but the last is given the share amount itself, in tokens
IxnsOfParts(V, owner, shares, parts) ==
    LET sharesOf(i) == IF i = Len(parts) THEN parts[i].shares ELSE shares
    IN IF \E i \in DOMAIN parts : parts[i].reserve = NullKey THEN Fail("Reserve not found in vault reserves map")
       ELSE IF \E i \in DOMAIN parts : ~IsInt(sharesOf(i)) THEN Fail("Invalid character")
       ELSE Done([i \in DOMAIN parts |-> withdrawIx(V, owner, parts[i].reserve, Floor(sharesOf(i)))])

IxnsAtRate(V, owner, shares, perShare, free) ==
    LET lamports == toLamports(shares, Factor)
    IN IxnsOfParts(V, owner, shares,
                   WithdrawParts(V, lamports, Minus(Times(lamports, perShare), Dec(V.available)),
                                 perShare, free))

wihdrdrawWithReserveIxns(V, m, owner, shares, slot, now) ==
    IxnsAtRate(V, owner, shares, getTokensPerShareSingleVault(V, m, slot, now),
               getReserveAllocationAvailableLiquidityToWithdraw(V, m, slot))

withdrawFromAvailableIxns(V, owner, shares) ==
    WithInteger(toLamports(shares, Factor),
                <<withdrawFromAvailableIx(owner, Floor(toLamports(shares, Factor)))>>)

After(ixs, out) == IF out.err # "" THEN out ELSE Done(ixs \o out.ixs)
withdrawIxs(V, m, owner, shares, slot, now, farms) ==
    IF hasFarm(V) /\ V.farm \notin farms THEN Fail("Farm state not found")
    ELSE After(IF hasFarm(V) THEN getFarmUnstakeAndWithdrawIxs(owner, Floor(toLamports(shares, Factor)), V.farm)
               ELSE <<>>,
               IF ReserveSet(V) # {} THEN wihdrdrawWithReserveIxns(V, m, owner, shares, slot, now)
               ELSE withdrawFromAvailableIxns(V, owner, shares))

\* as many reserves as it takes to make up for what is not available
FeesTakenFrom(s, due) ==
    LET LeftBy(n, left) == IF LessThan(Zero, left) THEN Minus(left, s[n].free) ELSE left
        left[n \in 0 .. Len(s)] == IF n = 0 THEN due ELSE LeftBy(n, left[n - 1])
    IN FlattenSeq([n \in DOMAIN s |->
                      IF LessThan(Zero, left[n - 1]) THEN <<s[n].reserve>> ELSE <<>>])
FeesIxsFrom(V, from) ==
    IF \E i \in DOMAIN from : from[i] = NullKey THEN Fail("Reserve not found")
    ELSE Done([i \in DOMAIN from |-> withdrawPendingFeesIx(V, from[i])])
withdrawPendingFeesIxs(V, m, slot) ==
    LET left == Minus(V.fees, Dec(V.available))
    IN FeesIxsFrom(V, IF LessThan(Zero, left)
                      THEN FeesTakenFrom(
                               MostFirst(getReserveAllocationAvailableLiquidityToWithdraw(V, m, slot)), left)
                      ELSE IF V.alloc = <<>> THEN <<NullKey>> ELSE <<V.alloc[1].reserve>>)

getUserSharesBalanceSingleVault(V, unstaked, staked) ==
    LET inFarm == IF hasFarm(V) THEN fromLamports(staked, Factor) ELSE Zero
    IN [unstakedShares |-> fromLamports(unstaked, Factor), stakedShares |-> inFarm,
        totalShares |-> Plus(fromLamports(unstaked, Factor), inFarm)]

-----------------------------------------------------------------------------
(* Investing *)

investSingleReserveIxs(V, payer, r) ==
    <<invest(payer, r, getVaultReserves(V))>>

\* Mutant: the reserves that are short of tokens come first.
OrderedInvestsFirst(out, in) == in \o out
\* those that give tokens back come before those that take them
Ordered(out, in) == out \o in

\* rates and targets as of the reserves' last refreshes
InvestTowards(V, m, payer, target) ==
    LET held(r) == LamportsToTokens(Over(CTokensIn(V, r), getCollateralExchangeRate(m[r])))
        off(r) == Leq(Dec(V.minInvest), Abs(toLamports(Minus(target[r], held(r)), Factor)))
        moved == {r \in ReserveSet(V) : off(r)}
        less == {r \in moved : LessThan(target[r], held(r))}
        order == Ordered(Kept(getVaultReserves(V), less), Kept(getVaultReserves(V), moved \ less))
    IN IF ReserveSet(V) = {} THEN Fail("No reserves found for the vault")
       ELSE IF ~(ReserveSet(V) \subseteq DOMAIN target) THEN Fail("computedAllocation is undefined")
       ELSE Done(FlattenSeq([i \in DOMAIN order |-> investSingleReserveIxs(V, payer, order[i])]))
investAllReservesIxs(V, m, payer, now) ==
    InvestTowards(V, m, payer, getVaultComputedReservesAllocation(V, m, 0, now))

=============================================================================
