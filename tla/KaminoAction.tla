---------------------------- MODULE KaminoAction ----------------------------
(***************************************************************************)
(* KaminoAction of ts-client/src/classes/action.ts: how the client turns a    *)
(* request ("repay all of this and withdraw that") into the instructions of    *)
(* one transaction. An action is a record with the class's instruction lists;  *)
(* each add... method is an operator from an action to the next one. "error"  *)
(* is the message of the exception that ended the building, "" while none has. *)
(*                                                                          *)
(* A request q has the arguments of the build...Txns function it names. "ob"   *)
(* is the KaminoObligation the client holds, as read at an earlier time; "rpc" *)
(* is the chain as getAccountInfo shows it while building.                      *)
(***************************************************************************)
EXTENDS KlendIxs, Integers, FiniteSets, SequencesExt

CONSTANTS U64_MAX,           \* the amount that stands for "all"
          NativeReserves,    \* the reserves of NATIVE_MINT (at most one)
          ScopeReserves,     \* the reserves priced by scope
          GroupIds,          \* ids of the market's elevation groups, 1 ..
          GroupDebtReserve,  \* group -> its debtReserve
          GroupLtv,          \* group -> its ltvPct
          ReserveGroups,     \* reserve -> config.elevationGroups, a sequence of ids or 0
          RentExempt,        \* lamports of an empty token account
          SolPadding,        \* SOL_PADDING_FOR_INTEREST
          RateNum, RateDen   \* collateral tokens per liquidity token

NoOverride == -1

\* filter: the elements of a list that are in S, in order
Kept(s, S) == FlattenSeq([i \in DOMAIN s |-> IF s[i] \in S THEN <<s[i]>> ELSE <<>>])
Without(s, S) == FlattenSeq([i \in DOMAIN s |-> IF s[i] \in S THEN <<>> ELSE <<s[i]>>])

\* the keys of a Map built from the slots of the account, in slot order
Keys(slots) == Without([i \in DOMAIN slots |-> slots[i].reserve], {NullKey})

AmountIn(slots, r) ==
    LET used == {i \in DOMAIN slots : slots[i].reserve = r}
    IN IF used = {} THEN 0 ELSE slots[CHOOSE i \in used : TRUE].amount

HasPosition(slots, r) == \E i \in DOMAIN slots : slots[i].reserve = r

\* new PublicKeySet(items).toArray(): first occurrences, in order
PublicKeySet(items) ==
    FlattenSeq([i \in DOMAIN items |->
                  IF \E j \in 1 .. i - 1 : items[j] = items[i] THEN <<>> ELSE <<items[i]>>])

-----------------------------------------------------------------------------
(* Building blocks *)

\* initialize, initializeMultiTokenAction, loadObligation, constructor
NewAction(q, ob, rpc) ==
    [q |-> q, ob |-> ob, rpc |-> rpc, error |-> "",
     reserve |-> q.reserve, outflow |-> q.outflow,
     amount |-> q.amount, outAmount |-> q.outAmount,
     referrer |-> IF ob.exists THEN ob.referrer ELSE rpc.referrer,
     budget |-> <<>>, setup |-> <<>>, inBetween |-> <<>>, lending |-> <<>>,
     cleanup |-> <<>>, farmsCleanup |-> <<>>,
     depositReserves |-> IF ob.exists THEN Keys(ob.deposits) ELSE <<>>,
     borrowReserves |-> IF ob.exists THEN Keys(ob.borrows) ELSE <<>>,
     preLoaded |-> <<>>, potentialGroup |-> 0]

Throw(a, message) == IF a.error = "" THEN [a EXCEPT !.error = message] ELSE a

MultiTokenActions == {"liquidate", "depositAndBorrow", "repayAndWithdraw", "repayAndWithdrawV2"}

initializeMultiTokenAction(action, q, ob, rpc) ==
    LET a == NewAction(q, ob, rpc)
    IN IF action \in MultiTokenActions THEN a ELSE Throw(a, "Invalid action")

\* push to setupIxs, inBetweenIxs or cleanupIxs
Push(a, where, ixs) == [a EXCEPT ![where] = @ \o ixs]
Unshift(a, ixs) == [a EXCEPT !.setup = ixs \o @]
PushLending(a, ix) == [a EXCEPT !.lending = Append(@, ix)]

\* getAdditionalDepositReservesList: pushes to this.depositReserves itself
getAdditionalDepositReservesList(a) ==
    [a EXCEPT !.depositReserves = @ \o Without(a.preLoaded, ToSet(@))]

addRefreshReserveIxs(a, reserves, where) ==
    Push(a, where, [i \in DOMAIN reserves |-> refreshReserve(reserves[i])])

\* deposits, borrows and the referrer's token states that follow the fixed keys
ObligationRemaining(a, skip) ==
    LET borrows == Without(a.borrowReserves, skip)
    IN Without(a.depositReserves, skip) \o borrows
       \o IF a.referrer THEN [i \in DOMAIN borrows |-> ReferrerTokenState[borrows[i]]]
                        ELSE <<>>

addRefreshObligationIx(a0, where, skip) ==
    LET a == getAdditionalDepositReservesList(a0)
    IN Push(a, where, <<refreshObligation(ObligationRemaining(a, skip))>>)

addRequestElevationIx(a0, group, where, skip) ==
    LET a == getAdditionalDepositReservesList(a0)
    IN Push(a, where, <<requestElevationGroup(group, ObligationRemaining(a, skip))>>)

WithFarm(reserves, kind) == Kept(reserves, {r \in ToSet(reserves) : FarmOf(r, kind) # NoFarm})

FarmRefreshes(rs, kind, crank) ==
    [i \in DOMAIN rs |-> refreshObligationFarmsForReserve(rs[i], kind, crank)]

\* the refreshes go before and after the instruction; of two, between them as well
PushAround(a, ixs, where, twoTokenAction) ==
    IF where = "setup" /\ twoTokenAction THEN Push(Push(a, where, ixs), "inBetween", ixs)
    ELSE IF where = "cleanup" THEN a
    ELSE Push(Push(a, where, ixs), "farmsCleanup", ixs)

addRefreshFarmsForReserve(a, reserves, where, kind, crank, twoTokenAction) ==
    PushAround(a, FarmRefreshes(WithFarm(reserves, kind), kind, crank), where, twoTokenAction)

addRefreshFarmsCleanupTxnIxsToCleanupIxs(a) ==
    [a EXCEPT !.cleanup = a.farmsCleanup \o @]

addInitObligationForFarm(a, r, kind, where) ==
    IF FarmOf(r, kind) # NoFarm /\ <<r, kind>> \notin a.rpc.farmUsers /\ where # "cleanup"
    THEN Push(a, where, <<initObligationFarmsForReserve(r, kind)>>)
    ELSE a

addInitObligationIxs(a) ==
    IF a.ob.exists THEN a ELSE Push(a, "setup", <<initObligation>>)

addInitUserMetadataIxs(a, lut) == Push(a, "setup", <<initUserMetadata(lut, a.referrer)>>)

addInitReferrerTokenStateIx(a, r) == Unshift(a, <<initReferrerTokenState(r)>>)

\* the referrer's token state of a reserve is created by the first referred borrow
InitReferrerIfMissing(a, r) ==
    IF a.referrer /\ r \notin a.rpc.referrerStates
    THEN addInitReferrerTokenStateIx(a, r) ELSE a

addComputeBudgetIxn(a) == IF a.q.budget THEN Push(a, "budget", <<computeBudget>>) ELSE a

addScopeRefreshIxs(a) ==
    LET all == PublicKeySet(a.depositReserves \o a.borrowReserves \o <<a.reserve>>
                            \o (IF a.outflow # NullKey THEN <<a.outflow>> ELSE <<>>)
                            \o a.preLoaded)
        ids == Kept(all, ScopeReserves)
    IN IF a.q.scope /\ ids # <<>> THEN Unshift(a, <<refreshScopePrices(ids)>>) ELSE a
ScopeRefreshIf(asked, a) == IF asked THEN addScopeRefreshIxs(a) ELSE a

-----------------------------------------------------------------------------
(* Token accounts *)

Native(r) == r \in NativeReserves

SendActions == {"deposit", "repay", "repayAndWithdrawV2", "mint"}

\* Mutant: the debt as loaded, without a padding for the interest until execution.
SafeRepayUnpadded(a, action) ==
    IF a.ob.exists /\ action \in {"repay", "repayAndWithdrawV2"} /\ a.amount = U64_MAX
    THEN AmountIn(a.ob.borrows, a.reserve) ELSE a.amount

\* what wrapping all of a SOL debt takes: the debt as estimated, and a padding
SafeRepay(a, action) ==
    IF /\ a.ob.exists
       /\ action \in {"repay", "repayAndWithdrawV2"}
       /\ a.amount = U64_MAX
    THEN AmountIn(a.ob.borrows, a.reserve) + SolPadding
    ELSE a.amount

\* Mutant: the account made for the transaction is not closed at its end.
updateWSOLAccountLeftOpen(a, action) ==
    LET account == Liquidity(IF Native(a.outflow) THEN a.outflow ELSE a.reserve)
        lamports == (IF account \in a.rpc.atas THEN 0 ELSE RentExempt)
                    + (IF action \in SendActions THEN SafeRepay(a, action) ELSE 0)
    IN IF action \in {"depositAndBorrow", "repayAndWithdraw"} THEN a
       ELSE Unshift(a, <<transferLamports(account, lamports), createAta(account),
                         syncNative(account)>>)

updateWSOLAccount(a, action) ==
    LET account == Liquidity(IF Native(a.outflow) THEN a.outflow ELSE a.reserve)
        there == account \in a.rpc.atas
        sends == action \in SendActions \/ (action = "liquidate" /\ Native(a.reserve))
        lamports == (IF there THEN 0 ELSE RentExempt)
                    + (IF sends THEN SafeRepay(a, action) ELSE 0)
        funded == <<transferLamports(account, lamports)>>
        closed == [a EXCEPT !.cleanup = Append(@, closeAccount(account))]
    IN IF action \in {"depositAndBorrow", "repayAndWithdraw"} THEN a
       ELSE IF /\ a.ob.exists /\ action \in {"repay", "repayAndWithdrawV2"}
               /\ a.amount = U64_MAX /\ ~HasPosition(a.ob.borrows, a.reserve)
            THEN Throw(a, "Unable to find obligation borrow to repay")
       ELSE IF there /\ sends THEN Unshift(a, funded \o <<syncNative(account)>>)
       ELSE IF there THEN Unshift(closed, funded)
       ELSE Unshift(closed, funded \o <<createAta(account), syncNative(account)>>)

CreateAtas(a, when, accounts) ==
    IF when THEN Unshift(a, [i \in DOMAIN accounts |-> createAta(accounts[i])]) ELSE a

\* each list of token accounts to create is put in front of the ones before it
addAtaIxs(a0, action) ==
    LET r == a0.reserve
        out == a0.outflow
        a1 == IF Native(r) \/ Native(out) THEN updateWSOLAccount(a0, action) ELSE a0
        a2 == CreateAtas(a1, action \in {"withdraw", "borrow", "redeem"} /\ ~Native(r),
                         <<Liquidity(r)>>)
        a3 == CreateAtas(a2, action = "liquidate", <<CToken(out), Liquidity(out)>>)
        a4 == CreateAtas(a3, /\ \/ action = "depositAndBorrow"
                                \/ action = "repayAndWithdraw" /\ ~Native(out)
                             /\ Liquidity(out) \notin a0.rpc.atas, <<Liquidity(out)>>)
        a5 == CreateAtas(a4, action \in {"withdraw", "mint", "deposit", "repayAndWithdraw"},
                         <<Liquidity(r)>>)
    IN CreateAtas(a5, action = "mint", <<CToken(r)>>)

-----------------------------------------------------------------------------
(* Support instructions: setup, in between, cleanup *)

SupportedActions ==
    {"depositCollateral", "deposit", "withdraw", "borrow", "liquidate", "repay",
     "depositAndBorrow", "repayAndWithdraw", "repayAndWithdrawV2", "refreshObligation",
     "depositAndWithdraw"}

CurrentReserves(a, action) ==
    IF action \in {"depositAndBorrow", "repayAndWithdraw", "repayAndWithdrawV2"}
    THEN <<a.reserve, a.outflow>>
    ELSE IF action = "liquidate" /\ a.outflow # a.reserve THEN <<a.outflow, a.reserve>>
    ELSE <<a.reserve>>

\* the reserve deposited into by the first of two instructions is not yet one of
\* the obligation's deposits
PreLoad(a, action) ==
    IF action = "depositAndBorrow" /\ ~(a.ob.exists /\ HasPosition(a.ob.deposits, a.reserve))
    THEN [a EXCEPT !.preLoaded = Append(@, a.reserve)] ELSE a

InitFarms(a, action, where) ==
    LET Init(b, r, kind) == addInitObligationForFarm(b, r, kind, where)
        Outflow(b, kind) == IF a.outflow = NullKey THEN b ELSE Init(b, a.outflow, kind)
    IN CASE action = "liquidate" ->
                Init(Init(a, a.reserve, "Debt"), a.outflow, "Collateral")
         [] action \in {"depositAndBorrow", "depositCollateral", "withdraw", "deposit"} ->
                Outflow(Init(a, a.reserve, "Collateral"), "Debt")
         [] action = "depositAndWithdraw" -> Init(a, a.reserve, "Collateral")
         [] OTHER -> Outflow(Init(a, a.reserve, "Debt"), "Collateral")

\* the group of collateral and debt with the highest loan-to-value, when it is
\* another one than the obligation's; -1 otherwise
BestElevationGroup(a, collReserve, debtReserve) ==
    LET common == SelectSeq(ReserveGroups[collReserve],
                      LAMBDA g : /\ Contains(ReserveGroups[debtReserve], g)
                                 /\ g # 0 /\ GroupDebtReserve[g] = debtReserve)
        Better(prev, curr) == IF prev # NoOverride /\ GroupLtv[prev] > GroupLtv[curr]
                              THEN prev ELSE curr
        best == FoldLeft(Better, NoOverride, common)
    IN IF common = <<>> \/ (a.ob.exists /\ best = a.ob.group) THEN NoOverride ELSE best

\* refreshing again what a request for an elevation group has made stale
RequestAndRefresh(a, group, others, current, where) ==
    LET a1 == addRequestElevationIx(a, group, where, {})
        a2 == addRefreshReserveIxs(a1, others, where)
        a3 == addRefreshReserveIxs(a2, current, where)
    IN addRefreshObligationIx(a3, where, {})

\* Mutant: a repayment of exactly the debt does not count as a full one.
RequestGroupOnRepayStrict(a, override, others) ==
    LET a1 == addRefreshReserveIxs(a, others, "cleanup")
        a2 == addRefreshObligationIx(a1, "cleanup", {a.reserve})
    IN IF ~a.ob.exists \/ ~HasPosition(a.ob.borrows, a.reserve)
       THEN Throw(a, "Could not find debt reserve in obligation")
       ELSE IF /\ AmountIn(a.ob.borrows, a.reserve) < a.amount
               /\ Len(a.borrowReserves) = 1 /\ a.ob.group # 0
       THEN addRequestElevationIx(a2, 0, "cleanup", {a.reserve})
       ELSE a

RequestGroupOnRepay(a, override, others) ==
    LET debt == AmountIn(a.ob.borrows, a.reserve)
        a1 == addRefreshReserveIxs(a, others, "cleanup")
        a2 == addRefreshObligationIx(a1, "cleanup", {a.reserve})
    IN IF ~a.ob.exists \/ ~HasPosition(a.ob.borrows, a.reserve)
       THEN Throw(a, "Could not find debt reserve in obligation")
       ELSE IF debt <= a.amount /\ Len(a.borrowReserves) = 1 /\ a.ob.group # 0
       THEN addRequestElevationIx(a2, IF override = NoOverride THEN 0 ELSE override,
                                  "cleanup", {a.reserve})
       ELSE a

RequestIfOther(a, action, group, where, others, current) ==
    IF group # NoOverride /\ ~(a.ob.exists /\ a.ob.group = group)
    THEN RequestAndRefresh(IF action = "borrow" THEN [a EXCEPT !.potentialGroup = group] ELSE a,
                           group, others, current, where)
    ELSE a

RequestGroupOnBorrow(a, action, override, others, current) ==
    LET where == IF action = "depositAndBorrow" /\ override = NoOverride
                 THEN "inBetween" ELSE "setup"
        coll == IF action = "borrow" THEN Keys(a.ob.deposits)[1] ELSE a.reserve
        debt == IF action = "borrow" THEN a.reserve ELSE a.outflow
    IN IF action = "borrow" /\ override = NoOverride
          /\ (~a.ob.exists \/ Keys(a.ob.deposits) = <<>>)
       THEN Throw(a, "no deposit to take the collateral's groups from")
       ELSE RequestIfOther(a, action,
                           IF override # NoOverride THEN override
                           ELSE BestElevationGroup(a, coll, debt),
                           where, others, current)

RequestGroupOnWithdraw(a, override) ==
    LET closing == IF a.amount = U64_MAX THEN {a.reserve} ELSE {}
    IN addRequestElevationIx(addRefreshObligationIx(a, "cleanup", closing),
                             override, "cleanup", closing)

RequestGroup(a, action, override, others, current) ==
    CASE action \in {"repay", "repayAndWithdrawV2"} -> RequestGroupOnRepay(a, override, others)
      [] action \in {"depositAndBorrow", "borrow"} ->
            RequestGroupOnBorrow(a, action, override, others, current)
      [] action = "deposit" /\ override # NoOverride /\ ~(a.ob.exists /\ a.ob.group = override) ->
            RequestAndRefresh(a, override, others, current, "setup")
      [] action = "withdraw" /\ override # NoOverride -> RequestGroupOnWithdraw(a, override)
      [] OTHER -> a

\* farms refreshed before and after a V1 instruction
RefreshFarms(a, action, where, twoTokenAction) ==
    LET FarmsOf(b, rs, kind, two) == addRefreshFarmsForReserve(b, rs, where, kind, "payer", two)
        current == CurrentReserves(a, action)
    IN IF where = "setup"
       THEN CASE action = "liquidate" ->
                    FarmsOf(FarmsOf(a, <<a.outflow>>, "Collateral", FALSE), <<a.reserve>>, "Debt", FALSE)
              [] action \in {"depositAndBorrow", "depositCollateral", "withdraw", "deposit"} ->
                    FarmsOf(a, current, "Collateral", twoTokenAction)
              [] action \in {"repayAndWithdraw", "borrow", "repay"} ->
                    FarmsOf(a, current, "Debt", twoTokenAction)
              [] OTHER -> Throw(a, "Could not decide on refresh farm")
       ELSE CASE action = "depositAndBorrow" -> FarmsOf(a, <<a.outflow>>, "Debt", FALSE)
              [] action = "repayAndWithdraw" -> FarmsOf(a, <<a.outflow>>, "Collateral", FALSE)
              [] OTHER -> Throw(a, "Could not decide on refresh farm")

\* a debt that the first of two instructions repays is gone at the second
RepaidBorrows(a, action, where) ==
    IF action = "repayAndWithdraw" /\ where = "inBetween"
       /\ AmountIn(a.ob.borrows, a.reserve) <= a.amount
    THEN {a.reserve} ELSE {}

OtherReserves(a, current) ==
    Without(PublicKeySet(a.depositReserves \o a.borrowReserves), ToSet(current))

\* reserves, then farm accounts to create, then the obligation
RefreshAll(a, action, where, initFarms, others, current) ==
    LET a1 == addRefreshReserveIxs(a, others, where)
        a2 == addRefreshReserveIxs(IF initFarms THEN InitFarms(a1, action, where) ELSE a1,
                                   current, where)
    IN IF action = "repayAndWithdraw" /\ where = "inBetween"
          /\ ~(a.ob.exists /\ HasPosition(a.ob.borrows, a.reserve))
       THEN Throw(a, "Could not find debt reserve in obligation")
       ELSE addRefreshObligationIx(a2, where, RepaidBorrows(a, action, where))

FarmsUnlessV2(a, action, where, twoTokenAction) ==
    IF a.q.useV2 THEN a ELSE RefreshFarms(a, action, where, twoTokenAction)

RequestIfAsked(asked, a, action, override, others, current) ==
    IF asked THEN RequestGroup(a, action, override, others, current) ELSE a

RefreshAndRequest(a, action, where, requestGroup, initFarms, override, others, current) ==
    RequestIfAsked(requestGroup, RefreshAll(a, action, where, initFarms, others, current),
                   action, override, others, current)

RefreshesFor(a, action, where, requestGroup, initFarms, twoTokenAction, override, current) ==
    FarmsUnlessV2(RefreshAndRequest(a, action, where, requestGroup, initFarms, override,
                                    OtherReserves(a, current), current),
                  action, where, twoTokenAction)

SupportIxs(a, action, where, requestGroup, initFarms, twoTokenAction, override, current) ==
    IF action \notin SupportedActions THEN a
    ELSE RefreshesFor(PreLoad(a, action), action, where, requestGroup, initFarms, twoTokenAction,
                      override, current)

addSupportIxsWithoutInitObligation(a, action, where, requestGroup, initFarms, twoTokenAction, override) ==
    SupportIxs(IF a.q.ata THEN addAtaIxs(a, action) ELSE a, action, where, requestGroup, initFarms,
               twoTokenAction, override, PublicKeySet(CurrentReserves(a, action)))

addSupportIxs(a, action, twoTokenAction, override, withScope) ==
    LET lut == a.q.lut
        a1 == IF a.q.metadata /\ ~a.rpc.metadata
              THEN addInitUserMetadataIxs(
                       IF lut THEN Push(a, "setup", <<createLookupTable>>) ELSE a, lut)
              ELSE a
        a2 == IF action \in {"mint", "redeem"} THEN a ELSE addInitObligationIxs(a1)
    IN ScopeRefreshIf(withScope,
           addSupportIxsWithoutInitObligation(a2, action, "setup", a.q.requestGroup, TRUE,
                                              twoTokenAction, override))

addInBetweenIxs(a, action) ==
    addSupportIxsWithoutInitObligation(a, action, "inBetween", a.q.requestGroup, FALSE,
                                       FALSE, NoOverride)

addRefreshObligation(a) ==
    LET a1 == addRefreshReserveIxs(a, PublicKeySet(a.depositReserves \o a.borrowReserves), "setup")
        a2 == addRefreshFarmsForReserve(a1, a.depositReserves, "setup", "Collateral", "crank", FALSE)
        a3 == addRefreshFarmsForReserve(a2, a.borrowReserves, "setup", "Debt", "crank", FALSE)
    IN addRefreshObligationIx(a3, "setup", {})

-----------------------------------------------------------------------------
(* Lending instructions. A V2 instruction carries the farm accounts that a V1   *)
(* transaction refreshes with instructions of its own.                           *)

addDepositReserveLiquidityIx(a) == PushLending(a, depositReserveLiquidity(a.reserve, a.amount))
addRedeemReserveCollateralIx(a) == PushLending(a, redeemReserveCollateral(a.reserve, a.amount))

addDepositIx(a) ==
    PushLending(a, depositReserveLiquidityAndObligationCollateral(a.reserve, a.amount))
addDepositIxV2(a) ==
    PushLending(a, depositReserveLiquidityAndObligationCollateralV2(
                       a.reserve, a.amount, FarmAccounts(a.reserve, "Collateral")))

addDepositObligationCollateralIx(a) ==
    PushLending(a, depositObligationCollateral(a.reserve, a.amount))
addDepositObligationCollateralIxV2(a) ==
    PushLending(a, depositObligationCollateralV2(
                       a.reserve, a.amount, FarmAccounts(a.reserve, "Collateral")))

\* obligations in an elevation group need their deposit reserves to be passed
InGroup(a) == a.ob.exists /\ (a.ob.group > 0 \/ a.potentialGroup > 0)
RequireObligation(a, built) ==
    IF a.ob.exists THEN built ELSE Throw(a, "obligation is null")

addBorrowIx(a0) ==
    LET a == getAdditionalDepositReservesList(a0)
    IN RequireObligation(a, PushLending(a, borrowObligationLiquidity(
           a.reserve, a.amount, IF InGroup(a) THEN a.depositReserves ELSE <<>>)))
addBorrowIxV2(a0) ==
    LET a == getAdditionalDepositReservesList(a0)
    IN RequireObligation(a, PushLending(a, borrowObligationLiquidityV2(
           a.reserve, a.amount, FarmAccounts(a.reserve, "Debt"),
           IF InGroup(a) THEN a.depositReserves ELSE <<>>)))

addWithdrawIx(a, collateral) ==
    PushLending(a, withdrawObligationCollateralAndRedeemReserveCollateral(a.reserve, collateral))
addWithdrawIxV2(a, collateral) ==
    PushLending(a, withdrawObligationCollateralAndRedeemReserveCollateralV2(
                       a.reserve, collateral, FarmAccounts(a.reserve, "Collateral")))

addRepayIx(a0) ==
    LET a == getAdditionalDepositReservesList(a0)
    IN RequireObligation(a, PushLending(a, repayObligationLiquidity(
           a.reserve, a.amount, IF a.ob.group > 0 THEN a.depositReserves ELSE <<>>)))
addRepayIxV2(a0) ==
    LET a == getAdditionalDepositReservesList(a0)
    IN RequireObligation(a, PushLending(a, repayObligationLiquidityV2(
           a.reserve, a.amount, FarmAccounts(a.reserve, "Debt"),
           IF a.ob.group > 0 THEN a.depositReserves ELSE <<>>)))

\* the borrow's deposit reserves fall back to the reserve deposited into; pushing
\* to the list pushes to this.depositReserves
DepositReservesOrCurrent(a0) ==
    LET a == getAdditionalDepositReservesList(a0)
    IN IF a.depositReserves = <<>> THEN [a EXCEPT !.depositReserves = <<a.reserve>>] ELSE a

addDepositAndBorrowIx(a0) ==
    LET a == DepositReservesOrCurrent(addDepositIx(a0))
    IN PushLending(a, borrowObligationLiquidity(a.outflow, a.outAmount, a.depositReserves))
addDepositAndBorrowIxV2(a0) ==
    LET a == DepositReservesOrCurrent(addDepositIxV2(a0))
    IN PushLending(a, borrowObligationLiquidityV2(
           a.outflow, a.outAmount, FarmAccounts(a.outflow, "Debt"), a.depositReserves))

addRepayAndWithdrawIxs(a0, collateral) ==
    LET a == getAdditionalDepositReservesList(a0)
        repaid == PushLending(a, repayObligationLiquidity(a.reserve, a.amount, a.depositReserves))
    IN PushLending(repaid, withdrawObligationCollateralAndRedeemReserveCollateral(
                               a.outflow, collateral))
addRepayAndWithdrawIxsV2(a0, collateral) ==
    LET a == getAdditionalDepositReservesList(a0)
        repaid == PushLending(a, repayObligationLiquidityV2(
                      a.reserve, a.amount, FarmAccounts(a.reserve, "Debt"), a.depositReserves))
    IN PushLending(repaid, withdrawObligationCollateralAndRedeemReserveCollateralV2(
                       a.outflow, collateral, FarmAccounts(a.outflow, "Collateral")))

\* one instruction for both; only reserves are passed on to its inner refreshes
addRepayAndWithdrawV2Ixs(a0, collateral) ==
    LET a == getAdditionalDepositReservesList(a0)
    IN PushLending(a, repayAndWithdrawAndRedeem(
           a.reserve, a.outflow, a.amount, collateral,
           FarmAccounts(a.outflow, "Collateral") \cup FarmAccounts(a.reserve, "Debt"),
           a.depositReserves \o a.borrowReserves))

addLiquidateIx(a0) ==
    LET a == getAdditionalDepositReservesList(a0)
    IN RequireObligation(a, PushLending(a, liquidateObligationAndRedeemReserveCollateral(
           a.reserve, a.outflow, a.amount, a.outAmount,
           IF a.ob.group > 0 THEN a.depositReserves ELSE <<>>)))
addLiquidateIxV2(a0) ==
    LET a == getAdditionalDepositReservesList(a0)
    IN RequireObligation(a, PushLending(a, liquidateObligationAndRedeemReserveCollateralV2(
           a.reserve, a.outflow, a.amount, a.outAmount,
           FarmAccounts(a.reserve, "Debt") \cup FarmAccounts(a.outflow, "Collateral"),
           IF a.ob.group > 0 THEN a.depositReserves ELSE <<>>)))

addWithdrawReferrerFeesIxs(a) == PushLending(a, withdrawReferrerFees(a.reserve))

\* collateral tokens worth an amount of liquidity, rounded up; "all" stays "all"
getWithdrawCollateralAmount(amount) ==
    IF amount = U64_MAX THEN amount ELSE (amount * RateNum + RateDen - 1) \div RateDen

-----------------------------------------------------------------------------
(* One operator per build...Txns function *)

\* these two are made for the mint of the obligation's first deposit
NewActionOnDeposit(q, ob, rpc) ==
    LET a == NewAction(q, ob, rpc)
    IN IF ob.exists /\ Keys(ob.deposits) # <<>> THEN a
       ELSE Throw(a, "no deposit to take a mint from")

buildRefreshObligationTxns(q, ob, rpc) ==
    addRefreshObligation(addComputeBudgetIxn(NewActionOnDeposit(q, ob, rpc)))

buildRequestElevationGroupTxns(q, ob, rpc) ==
    addRequestElevationIx(buildRefreshObligationTxns(q, ob, rpc), q.override, "setup", {})

Finish(a) == addRefreshFarmsCleanupTxnIxsToCleanupIxs(a)

\* the V2 instruction or the V1 one, as the caller asks
AddDeposit(a) == IF a.q.useV2 THEN addDepositIxV2(a) ELSE addDepositIx(a)
AddBorrow(a) == IF a.q.useV2 THEN addBorrowIxV2(a) ELSE addBorrowIx(a)
AddDepositCollateral(a) ==
    IF a.q.useV2 THEN addDepositObligationCollateralIxV2(a)
    ELSE addDepositObligationCollateralIx(a)
AddWithdraw(a, collateral) ==
    IF a.q.useV2 THEN addWithdrawIxV2(a, collateral) ELSE addWithdrawIx(a, collateral)
AddRepay(a) == IF a.q.useV2 THEN addRepayIxV2(a) ELSE addRepayIx(a)
AddDepositAndBorrow(a) ==
    IF a.q.useV2 THEN addDepositAndBorrowIxV2(a) ELSE addDepositAndBorrowIx(a)
AddRepayAndWithdraw(a, collateral) ==
    IF a.q.useV2 THEN addRepayAndWithdrawIxsV2(a, collateral)
    ELSE addRepayAndWithdrawIxs(a, collateral)
AddLiquidate(a) == IF a.q.useV2 THEN addLiquidateIxV2(a) ELSE addLiquidateIx(a)

buildDepositTxns(q, ob, rpc) ==
    Finish(AddDeposit(addSupportIxs(addComputeBudgetIxn(NewAction(q, ob, rpc)), "deposit", FALSE,
                                    q.override, TRUE)))

buildBorrowTxns(q, ob, rpc) ==
    LET a0 == InitReferrerIfMissing(addComputeBudgetIxn(NewAction(q, ob, rpc)), q.reserve)
        a == addSupportIxs(a0, "borrow", FALSE, q.override, TRUE)
    IN Finish(AddBorrow(a))

buildDepositReserveLiquidityTxns(q, ob, rpc) ==
    Finish(addDepositReserveLiquidityIx(
        addSupportIxs(addComputeBudgetIxn(NewAction(q, ob, rpc)), "mint", FALSE, NoOverride, TRUE)))

buildRedeemReserveCollateralTxns(q, ob, rpc) ==
    Finish(addRedeemReserveCollateralIx(
        addSupportIxs(addComputeBudgetIxn(NewAction(q, ob, rpc)), "redeem", FALSE, NoOverride, TRUE)))

buildDepositObligationCollateralTxns(q, ob, rpc) ==
    LET a == addSupportIxs(addComputeBudgetIxn(NewAction(q, ob, rpc)), "depositCollateral", FALSE,
                           NoOverride, TRUE)
    IN Finish(AddDepositCollateral(a))

\* q.added: reserves deposited into by earlier instructions of the same transaction
buildWithdrawTxns(q, ob, rpc) ==
    LET a0 == addComputeBudgetIxn(NewAction(q, ob, rpc))
        a1 == [a0 EXCEPT !.depositReserves = @ \o q.added]
        a == addSupportIxs(a1, "withdraw", FALSE, q.override, TRUE)
    IN Finish(AddWithdraw(a, getWithdrawCollateralAmount(q.amount)))

\* Mutant: "all" is replaced by the debt as it was loaded.
buildRepayTxnsLoadedDebt(q0, ob, rpc) ==
    LET q == [q0 EXCEPT !.amount = Min({q0.amount, AmountIn(ob.borrows, q0.reserve)})]
        a == addSupportIxs(NewAction(q, ob, rpc), "repay", FALSE, NoOverride, TRUE)
    IN Finish(AddRepay(a))

buildRepayTxns(q, ob, rpc) ==
    LET a == addSupportIxs(addComputeBudgetIxn(NewAction(q, ob, rpc)), "repay", FALSE,
                           NoOverride, TRUE)
    IN Finish(AddRepay(a))

buildDepositAndBorrowTxns(q, ob, rpc) ==
    LET a0 == InitReferrerIfMissing(
                  addComputeBudgetIxn(initializeMultiTokenAction("depositAndBorrow", q, ob, rpc)),
                  q.outflow)
        a1 == addSupportIxs(a0, "deposit", TRUE, NoOverride, FALSE)
        a2 == AddDepositAndBorrow(a1)
    IN addScopeRefreshIxs(Finish(addInBetweenIxs(a2, "depositAndBorrow")))

buildRepayAndWithdrawTxns(q, ob, rpc) ==
    LET a0 == addComputeBudgetIxn(initializeMultiTokenAction("repayAndWithdraw", q, ob, rpc))
        a1 == addSupportIxs(a0, "repay", TRUE, NoOverride, FALSE)
        a2 == AddRepayAndWithdraw(a1, getWithdrawCollateralAmount(q.outAmount))
    IN addScopeRefreshIxs(Finish(addInBetweenIxs(a2, "repayAndWithdraw")))

\* always sent with V2 instructions, and without the final farm refreshes
buildRepayAndWithdrawV2Txns(q0, ob, rpc) ==
    LET q == [q0 EXCEPT !.useV2 = TRUE]
        a0 == addComputeBudgetIxn(initializeMultiTokenAction("repayAndWithdrawV2", q, ob, rpc))
        a1 == addSupportIxs(a0, "repayAndWithdrawV2", TRUE, NoOverride, TRUE)
    IN addRepayAndWithdrawV2Ixs(a1, getWithdrawCollateralAmount(q.outAmount))

\* initializeMultiTokenAction knows no such action
buildDepositAndWithdrawV2Txns(q, ob, rpc) ==
    initializeMultiTokenAction("depositAndWithdraw", q, ob, rpc)

buildLiquidateTxns(q, ob, rpc) ==
    LET a0 == addComputeBudgetIxn(initializeMultiTokenAction("liquidate", q, ob, rpc))
        a == addSupportIxs(a0, "liquidate", FALSE, NoOverride, TRUE)
    IN Finish(AddLiquidate(a))

\* the action is made without a referrer, so no referrer state is ever created here
buildWithdrawReferrerFeeTxns(q, ob, rpc) ==
    LET a == [NewAction(q, [ob EXCEPT !.exists = FALSE], rpc) EXCEPT !.referrer = FALSE]
        a1 == Push(a, "setup", <<createAta(Liquidity(q.reserve))>>)
    IN addWithdrawReferrerFeesIxs(addRefreshReserveIxs(a1, <<q.reserve>>, "setup"))

-----------------------------------------------------------------------------
(* The instructions of the transaction *)

actionToLendingIxs(a) ==
    FlattenSeq([i \in DOMAIN a.lending |->
                  IF i = Len(a.lending) THEN <<a.lending[i]>> ELSE <<a.lending[i]>> \o a.inBetween])

actionToIxs(a) == a.budget \o a.setup \o actionToLendingIxs(a) \o a.cleanup

\* what sendTransactions and simulateTransactions send
getTransactions(a) ==
    IF Len(a.lending) = 2
    THEN a.setup \o <<a.lending[1]>> \o a.inBetween \o <<a.lending[2]>> \o a.cleanup
    ELSE a.setup \o a.lending \o a.cleanup

=============================================================================
