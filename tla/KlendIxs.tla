------------------------------ MODULE KlendIxs ------------------------------
(***************************************************************************)
(* The instructions the client sends, as the generated builders of          *)
(* ts-client/src/idl_codegen/instructions make them. An instruction is its   *)
(* name, the accounts another instruction or the program looks at, its       *)
(* amount, and the remaining accounts the caller appends to its keys.         *)
(*                                                                          *)
(* The keys of the three refresh instructions are kept in order, because     *)
(* check_refresh of the program compares accounts by their position.         *)
(* Accounts that every instruction takes from the same reserve (mints,       *)
(* vaults, authorities, programs) are determined by the reserve and left out. *)
(* "accounts" are the user's token accounts the instruction moves tokens      *)
(* through, "farms" the farm user states that a V2 instruction refreshes.     *)
(***************************************************************************)
EXTENDS Sequences

CONSTANTS Reserves,          \* addresses of the market's reserves
          FarmCollateral,    \* the reserves whose farmCollateral is set
          FarmDebt,          \* the reserves whose farmDebt is set
          ReferrerTokenState \* reserve -> address of the referrer's token state

\* PublicKey.default, the obligation's address, the program's own address
NullKey == "default"
Obligation == "obligation"
LendingMarket == "market"
NoFarm == <<>>

\* PublicKey.default is the address of no reserve
ASSUME ReservesAssumption == NullKey \notin Reserves /\ FarmCollateral \subseteq Reserves

Kinds == {"Collateral", "Debt"}

\* get_farm(kind): the farm of a reserve, or the default key
FarmOf(r, kind) ==
    IF r \in (IF kind = "Collateral" THEN FarmCollateral ELSE FarmDebt)
    THEN <<"farm", r, kind>> ELSE NoFarm

\* the farms an account list {obligationFarmUserState, reserveFarmState} names:
\* the program's id (no farm) when the reserve has none
FarmAccounts(r, kind) == IF FarmOf(r, kind) = NoFarm THEN {} ELSE {<<r, kind>>}

\* a user's token accounts for the liquidity and the collateral of a reserve
Liquidity(r) == <<"liquidity", r>>
CToken(r) == <<"collateral", r>>

Lending(name, reserve, outflow, amount, outAmount, accounts, farms, remaining) ==
    [ix |-> name, reserve |-> reserve, outflow |-> outflow, amount |-> amount,
     outAmount |-> outAmount, accounts |-> accounts, farms |-> farms,
     remaining |-> remaining]

-----------------------------------------------------------------------------
refreshReserve(reserve) ==
    [ix |-> "refreshReserve", keys |-> <<reserve, LendingMarket>>]

refreshObligation(remaining) ==
    [ix |-> "refreshObligation", keys |-> <<LendingMarket, Obligation>>,
     remaining |-> remaining]

refreshObligationFarmsForReserve(reserve, kind, crank) ==
    [ix |-> "refreshObligationFarmsForReserve", kind |-> kind,
     keys |-> <<crank, Obligation, "authority", reserve, FarmOf(reserve, kind),
                <<reserve, kind>>, LendingMarket>>]

requestElevationGroup(group, remaining) ==
    [ix |-> "requestElevationGroup", group |-> group, remaining |-> remaining]

initObligation == [ix |-> "initObligation"]
initUserMetadata(lut, referrer) ==
    [ix |-> "initUserMetadata", lookupTable |-> lut, referrer |-> referrer]
initReferrerTokenState(reserve) == [ix |-> "initReferrerTokenState", reserve |-> reserve]
initObligationFarmsForReserve(reserve, kind) ==
    [ix |-> "initObligationFarmsForReserve", reserve |-> reserve, kind |-> kind]

-----------------------------------------------------------------------------
depositReserveLiquidity(r, amount) ==
    Lending("depositReserveLiquidity", r, r, amount, 0,
            {Liquidity(r), CToken(r)}, {}, <<>>)

redeemReserveCollateral(r, amount) ==
    Lending("redeemReserveCollateral", r, r, amount, 0,
            {Liquidity(r), CToken(r)}, {}, <<>>)

depositReserveLiquidityAndObligationCollateral(r, amount) ==
    Lending("depositReserveLiquidityAndObligationCollateral", r, r, amount, 0,
            {Liquidity(r)}, {}, <<>>)

depositReserveLiquidityAndObligationCollateralV2(r, amount, farms) ==
    Lending("depositReserveLiquidityAndObligationCollateralV2", r, r, amount, 0,
            {Liquidity(r)}, farms, <<>>)

depositObligationCollateral(r, amount) ==
    Lending("depositObligationCollateral", r, r, amount, 0, {CToken(r)}, {}, <<>>)

depositObligationCollateralV2(r, amount, farms) ==
    Lending("depositObligationCollateralV2", r, r, amount, 0, {CToken(r)}, farms, <<>>)

borrowObligationLiquidity(r, amount, remaining) ==
    Lending("borrowObligationLiquidity", r, r, amount, 0, {Liquidity(r)}, {}, remaining)

borrowObligationLiquidityV2(r, amount, farms, remaining) ==
    Lending("borrowObligationLiquidityV2", r, r, amount, 0, {Liquidity(r)}, farms, remaining)

withdrawObligationCollateralAndRedeemReserveCollateral(r, amount) ==
    Lending("withdrawObligationCollateralAndRedeemReserveCollateral", r, r, amount, 0,
            {Liquidity(r)}, {}, <<>>)

withdrawObligationCollateralAndRedeemReserveCollateralV2(r, amount, farms) ==
    Lending("withdrawObligationCollateralAndRedeemReserveCollateralV2", r, r, amount, 0,
            {Liquidity(r)}, farms, <<>>)

repayObligationLiquidity(r, amount, remaining) ==
    Lending("repayObligationLiquidity", r, r, amount, 0, {Liquidity(r)}, {}, remaining)

repayObligationLiquidityV2(r, amount, farms, remaining) ==
    Lending("repayObligationLiquidityV2", r, r, amount, 0, {Liquidity(r)}, farms, remaining)

repayAndWithdrawAndRedeem(repay, withdraw, amount, collateral, farms, remaining) ==
    Lending("repayAndWithdrawAndRedeem", repay, withdraw, amount, collateral,
            {Liquidity(repay), Liquidity(withdraw)}, farms, remaining)

liquidateObligationAndRedeemReserveCollateral(repay, withdraw, amount, min, remaining) ==
    Lending("liquidateObligationAndRedeemReserveCollateral", repay, withdraw, amount, min,
            {Liquidity(repay), CToken(withdraw), Liquidity(withdraw)}, {}, remaining)

liquidateObligationAndRedeemReserveCollateralV2(repay, withdraw, amount, min, farms, remaining) ==
    Lending("liquidateObligationAndRedeemReserveCollateralV2", repay, withdraw, amount, min,
            {Liquidity(repay), CToken(withdraw), Liquidity(withdraw)}, farms, remaining)

withdrawReferrerFees(r) ==
    Lending("withdrawReferrerFees", r, r, 0, 0, {Liquidity(r)}, {}, <<>>)

\* the flash loan's pair: the repayment names the position of its borrow, counted from 0
flashBorrowReserveLiquidity(r, amount) ==
    [ix |-> "flashBorrowReserveLiquidity", reserve |-> r, amount |-> amount]
flashRepayReserveLiquidity(r, amount, index) ==
    [ix |-> "flashRepayReserveLiquidity", reserve |-> r, amount |-> amount, index |-> index]

-----------------------------------------------------------------------------
\* token and system programs and the exchange, as the client uses them
swap(in, out, amount) == [ix |-> "swap", in |-> in, out |-> out, amount |-> amount]
createAta(account) == [ix |-> "createAta", account |-> account]
transferLamports(account, lamports) ==
    [ix |-> "transferLamports", account |-> account, lamports |-> lamports]
syncNative(account) == [ix |-> "syncNative", account |-> account]
closeAccount(account) == [ix |-> "closeAccount", account |-> account]
computeBudget == [ix |-> "computeBudget"]
createLookupTable == [ix |-> "createLookupTable"]
refreshScopePrices(reserves) == [ix |-> "refreshScopePrices", reserves |-> reserves]

=============================================================================
