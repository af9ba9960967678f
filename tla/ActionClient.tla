---------------------------- MODULE ActionClient ----------------------------
(***************************************************************************)
(* A user's client and the chain. The client loads the obligation, builds a    *)
(* transaction from what it loaded, and sends it; between these steps interest *)
(* accrues, the same user acts from another device, and a liquidator comes, so *)
(* that the transaction meets accounts other than the ones it was built for.   *)
(***************************************************************************)
EXTENDS KlendChain

CONSTANTS Requests,          \* the requests a user makes: records with the builder's arguments
          MaxAmount,         \* bound on the size of a position
          MaxIxs,            \* the instructions a transaction has room for
          MaxSteps,          \* bound on the transactions built and the moves made elsewhere
          Starts             \* what an obligation starts with: [deposits, borrows, group, referrer]

\* a slot in use holds a positive amount, and no other one holds the same reserve
Slot == {EmptySlot} \cup [reserve : Reserves, amount : Nat \ {0}]
OneSlotEach(slots) ==
    \A i, j \in 1 .. MaxSlots : slots[i].reserve = slots[j].reserve => i = j \/ slots[i] = EmptySlot

ASSUME StartsAssumption ==
    /\ MaxIxs \in Nat
    /\ \A s \in Starts : /\ s.deposits \in [1 .. MaxSlots -> Slot]
                         /\ s.borrows \in [1 .. MaxSlots -> Slot]
                         /\ OneSlotEach(s.deposits) /\ OneSlotEach(s.borrows)

\* the arguments of the build...Txns functions
ASSUME RequestsAssumption ==
    \A q \in Requests :
        q \in [kind : STRING, reserve : Reserves, outflow : Reserves \cup {NullKey},
               amount : Nat, outAmount : Nat, useV2 : BOOLEAN, requestGroup : BOOLEAN,
               override : Nat \cup {NoOverride}, ata : BOOLEAN, metadata : BOOLEAN, lut : BOOLEAN,
               budget : BOOLEAN, scope : BOOLEAN, viaIxs : BOOLEAN, added : Seq(Reserves)]

VARIABLES chain,    \* the accounts of the user
          view,     \* the KaminoObligation the client has loaded
          tx,       \* the transaction built last, and what it was built for
          steps     \* the transactions built and the moves made elsewhere so far

vars == <<chain, view, tx, steps>>

NoTx == [status |-> "none"]

BuildAction(q) ==
    CASE q.kind = "refreshObligation" -> buildRefreshObligationTxns(q, view, Rpc(chain))
      [] q.kind = "requestElevationGroup" -> buildRequestElevationGroupTxns(q, view, Rpc(chain))
      [] q.kind = "deposit" -> buildDepositTxns(q, view, Rpc(chain))
      [] q.kind = "borrow" -> buildBorrowTxns(q, view, Rpc(chain))
      [] q.kind = "mint" -> buildDepositReserveLiquidityTxns(q, view, Rpc(chain))
      [] q.kind = "redeem" -> buildRedeemReserveCollateralTxns(q, view, Rpc(chain))
      [] q.kind = "depositCollateral" -> buildDepositObligationCollateralTxns(q, view, Rpc(chain))
      [] q.kind = "withdraw" -> buildWithdrawTxns(q, view, Rpc(chain))
      [] q.kind = "repay" -> buildRepayTxns(q, view, Rpc(chain))
      [] q.kind = "depositAndBorrow" -> buildDepositAndBorrowTxns(q, view, Rpc(chain))
      [] q.kind = "repayAndWithdraw" -> buildRepayAndWithdrawTxns(q, view, Rpc(chain))
      [] q.kind = "repayAndWithdrawV2" -> buildRepayAndWithdrawV2Txns(q, view, Rpc(chain))
      [] q.kind = "depositAndWithdraw" -> buildDepositAndWithdrawV2Txns(q, view, Rpc(chain))
      [] q.kind = "liquidate" -> buildLiquidateTxns(q, view, Rpc(chain))
      [] OTHER -> buildWithdrawReferrerFeeTxns(q, view, Rpc(chain))

Init ==
    /\ chain \in {EmptyChain(b) : b \in BOOLEAN} \cup {StartChain(s) : s \in Starts}
    /\ view = Snapshot(chain)
    /\ tx = NoTx
    /\ steps = 0

Load ==
    /\ tx.status # "built"
    /\ view' = Snapshot(chain)
    /\ tx' = NoTx
    /\ UNCHANGED <<chain, steps>>

Build ==
    /\ tx.status = "none"
    /\ steps < MaxSteps
    /\ steps' = steps + 1
    /\ \E q \in Requests :
           \E a \in {BuildAction(q)} :
               tx' = [status |-> IF a.error = "" THEN "built" ELSE "threw", q |-> q,
                      error |-> a.error,
                      ixs |-> IF a.error # "" THEN <<>>
                              ELSE IF q.viaIxs THEN actionToIxs(a) ELSE getTransactions(a),
                      from |-> view, rpc |-> Rpc(chain)]
    /\ UNCHANGED <<chain, view>>

Bounded(c) ==
    \A i \in 1 .. MaxSlots : c.deposits[i].amount <= MaxAmount /\ c.borrows[i].amount <= MaxAmount

Send ==
    /\ tx.status = "built"
    /\ Len(tx.ixs) \in 0 .. MaxIxs
    /\ \E end \in {Execute(Now(chain), tx.ixs)} :
          /\ Bounded(end)
          /\ chain' = [Now(end) EXCEPT !.lamports = 0]
          /\ tx' = [tx EXCEPT !.status = IF end.error = "" THEN "committed" ELSE "failed",
                              !.error = end.error]
    /\ UNCHANGED <<view, steps>>

-----------------------------------------------------------------------------
(* What happens elsewhere *)

Elsewhere(c) ==
    /\ steps < MaxSteps
    /\ Bounded(c)
    /\ steps' = steps + 1
    /\ chain' = Now(c)
    /\ UNCHANGED <<view, tx>>

Accrue ==
    \E i \in 1 .. MaxSlots :
        /\ chain.borrows[i].reserve # NullKey
        /\ Elsewhere([chain EXCEPT !.borrows[i].amount = @ + 1])

AllFresh(c) == [c EXCEPT !.resFresh = Reserves, !.obFresh = TRUE]

\* paid for and paid out elsewhere: what the user's accounts here hold stays as it is
Rich == [r \in Tracked |-> U64_MAX]
Funded(c) == [AllFresh(c) EXCEPT !.bal = Rich]
LeavingFunds(c) == [c EXCEPT !.bal = chain.bal]

\* the instructions of another device, and of a liquidator, for all or a part of a position
OtherIxs ==
    LET passed == Keys(chain.deposits)
        Amounts == 1 .. MaxAmount
    IN {depositReserveLiquidityAndObligationCollateral(r, n) : r \in Reserves, n \in Amounts}
       \cup {withdrawObligationCollateralAndRedeemReserveCollateral(r, n) : r \in Reserves, n \in Amounts}
       \cup {borrowObligationLiquidity(r, n, passed) : r \in Reserves, n \in Amounts}
       \cup {repayObligationLiquidity(r, n, passed) : r \in Reserves, n \in Amounts}
       \cup {liquidateObligationAndRedeemReserveCollateral(r, s, n, 0, passed) :
                r \in Reserves, s \in Reserves, n \in Amounts}

\* each runs with its own refreshes, before and after
LendElsewhere ==
    \E ix \in OtherIxs :
        LET done == Effect(Funded(chain), ix)
            c == WithFarmsRefreshed(done, Pairs(ix))
        IN /\ done.error = "" /\ c.error = ""
           /\ Elsewhere(LeavingFunds(c))

GroupElsewhere ==
    \E g \in GroupIds \cup {0} :
        LET c == request_elevation_group(AllFresh(chain), g, ExpectedRemaining(chain))
        IN /\ c.error = ""
           /\ Elsewhere(c)

\* the user's wrapped SOL account is made or closed by another program
WrapElsewhere ==
    \E r \in NativeReserves :
        LET account == Liquidity(r)
        IN Elsewhere(IF account \in chain.atas
                     THEN [chain EXCEPT !.atas = @ \ {account}, !.bal[r] = 0]
                     ELSE [chain EXCEPT !.atas = @ \cup {account}])

Next == Load \/ Build \/ Send \/ Accrue \/ LendElsewhere \/ GroupElsewhere \/ WrapElsewhere

Spec == Init /\ [][Next]_vars

-----------------------------------------------------------------------------
(* Properties *)

\* Nothing that the builder looked at has changed since: the obligation as it was
\* loaded, up to interest within the padding, and the accounts as they were read.
Grown(old, new) ==
    \A i \in 1 .. MaxSlots : /\ new[i].reserve = old[i].reserve
                             /\ new[i].amount - old[i].amount \in 0 .. SolPadding

BuiltForThis ==
    /\ tx.from.exists = chain.exists /\ tx.from.deposits = chain.deposits
    /\ tx.from.group = chain.group /\ Grown(tx.from.borrows, chain.borrows)
    /\ tx.rpc = Rpc(chain)

\* The bare operation a request stands for, on accounts that are all there, funded
\* and fresh: what the user meant, without any of the instructions around it.
Prepared(c) ==
    [AllFresh(c) EXCEPT !.exists = TRUE, !.bal = Rich, !.referrerStates = Reserves]

\* a group the user names is asked for first, or last when collateral leaves
AskGroup(q, c) ==
    IF q.override = NoOverride \/ c.error # "" \/ (c.group = q.override /\ q.kind # "withdraw") THEN c
    ELSE request_elevation_group(c, q.override, ExpectedRemaining(c))

Intended(q, c0) ==
    LET c1 == Prepared(c0)
        c == IF q.kind \in {"borrow", "deposit"} THEN Prepared(AskGroup(q, c1)) ELSE c1
        Borrow(d, r, n) == borrow_obligation_liquidity(d, r, n, Keys(d.deposits))
        Repay(d, r, n) == repay_obligation_liquidity(d, r, n, Keys(d.deposits))
        Withdraw(d, r, n) == withdraw_and_redeem(d, r, getWithdrawCollateralAmount(n))
        Then(d) == IF d.error = "" THEN Prepared(d) ELSE d
    IN CASE q.kind = "deposit" -> deposit_and_collateral(c, q.reserve, q.amount)
         [] q.kind = "depositCollateral" ->
                deposit_obligation_collateral(
                    Require(c, CToken(q.reserve) \in c.atas, "no tokens"), q.reserve, q.amount)
         [] q.kind = "borrow" -> Borrow(c, q.reserve, q.amount)
         [] q.kind = "repay" -> Repay(c, q.reserve, q.amount)
         [] q.kind = "withdraw" -> AskGroup(q, Then(Withdraw(c, q.reserve, q.amount)))
         [] q.kind = "depositAndBorrow" ->
                Borrow(Then(deposit_and_collateral(c, q.reserve, q.amount)), q.outflow, q.outAmount)
         [] q.kind \in {"repayAndWithdraw", "repayAndWithdrawV2"} ->
                Withdraw(Then(Repay(c, q.reserve, q.amount)), q.outflow, q.outAmount)
         [] q.kind = "liquidate" ->
                liquidate(c, liquidateObligationAndRedeemReserveCollateral(
                                 q.reserve, q.outflow, q.amount, q.outAmount, Keys(c.deposits)))
         [] q.kind = "redeem" -> Require(c, CToken(q.reserve) \in c.atas, "no tokens")
         [] q.kind = "withdrawReferrerFee" -> Require(c, q.reserve \in c0.referrerStates, "no fees")
         [] q.kind = "mint" -> c
         [] q.kind = "requestElevationGroup" ->
                request_elevation_group(Require(c, c0.exists, "no obligation"), q.override,
                                        ExpectedRemaining(c))
         [] OTHER -> Require(c, c0.exists, "no obligation")

Positions(c) == <<c.deposits, c.borrows>>

\* What a request makes of the positions, in terms of the amounts in their slots alone.
Meant(q, c) ==
    LET d == c.deposits
        b == c.borrows
        deposited == AddTo(d, q.reserve, (q.amount * RateNum) \div RateDen)
        repaid == TakeFrom(b, q.reserve, q.amount)
        Withdrawn(r, n) == TakeFrom(d, r, getWithdrawCollateralAmount(n))
        seized == Least(q.amount, Least(AmountIn(b, q.reserve), AmountIn(d, q.outflow)))
    IN CASE q.kind = "deposit" -> <<deposited, b>>
         [] q.kind = "depositCollateral" -> <<AddTo(d, q.reserve, q.amount), b>>
         [] q.kind = "borrow" -> <<d, AddTo(b, q.reserve, with_borrow_fee(q.reserve, q.amount))>>
         [] q.kind = "repay" -> <<d, repaid>>
         [] q.kind = "withdraw" -> <<Withdrawn(q.reserve, q.amount), b>>
         [] q.kind = "depositAndBorrow" -> 
                <<deposited, AddTo(b, q.outflow, with_borrow_fee(q.outflow, q.outAmount))>>
         [] q.kind \in {"repayAndWithdraw", "repayAndWithdrawV2"} ->
                <<Withdrawn(q.outflow, q.outAmount), repaid>>
         [] q.kind = "liquidate" ->
                <<TakeFrom(d, q.outflow, seized), TakeFrom(b, q.reserve, seized)>>
         [] OTHER -> <<d, b>>

\* The cases the builders do not handle.
\* A reserve deposited into for the first time goes to the first free slot, the
\* builder expects it behind the deposits there are.
FillsHole(q, c) ==
    /\ q.kind = "depositAndBorrow" /\ ~HasPosition(c.deposits, q.reserve)
    /\ \E i, j \in 1 .. MaxSlots : i < j /\ c.deposits[i] = EmptySlot /\ c.deposits[j] # EmptySlot

\* A debt repaid in full is left out of the next refresh, and a deposit in the same
\* reserve with it; repayAndWithdrawAndRedeem leaves that reserve stale.
RepaysOwnCollateral(q, c) ==
    /\ \/ q.kind \in {"repayAndWithdraw", "repayAndWithdrawV2"}
       \/ q.kind = "repay" /\ q.requestGroup /\ c.group # 0
    /\ HasPosition(c.deposits, q.reserve)
    /\ AmountIn(c.borrows, q.reserve) <= q.amount

\* An elevation group is left with a deposit only; a liquidator may have taken the last one.
NoCollateralLeft(q, c) ==
    q.kind = "repay" /\ q.requestGroup /\ c.group # 0 /\ NoPosition(c.deposits)

\* An amount that covered the debt when it was loaded no longer does.
OutgrownByInterest(q, c, loaded) ==
    /\ q.kind \in {"repay", "repayAndWithdraw", "repayAndWithdrawV2"}
    /\ q.amount \in AmountIn(loaded.borrows, q.reserve) .. AmountIn(c.borrows, q.reserve) - 1

\* The group is chosen for one collateral and one debt, whatever else the obligation has.
HeldOutsideGroup(q, c) ==
    /\ q.requestGroup /\ q.override = NoOverride /\ q.kind \in {"borrow", "depositAndBorrow"}
    /\ \E g \in GroupIds : ~InElevationGroup(c, g)

\* After repayAndWithdrawAndRedeem the collateral's reserve is stale or the obligation
\* closed when the group is to be left.
LeavesGroupAfterWithdraw(q, c) ==
    /\ q.kind = "repayAndWithdrawV2" /\ q.requestGroup /\ c.group # 0
    /\ AmountIn(c.borrows, q.reserve) <= q.amount

\* repayAndWithdrawAndRedeem is given the reserves and not the referrer's token states.
NeedsReferrerStates(q, c) ==
    /\ q.kind = "repayAndWithdrawV2" /\ c.referrer
    /\ Keys(repay_obligation_liquidity(Prepared(c), q.reserve, q.amount, Keys(c.deposits)).borrows)
           # <<>>

\* A group asked for with a withdrawal needs the reserve withdrawn from refreshed again,
\* unless it is closed and no debt is in it.
KeepsWithdrawnReserve(q, c) ==
    /\ q.kind = "withdraw" /\ q.requestGroup /\ q.override # NoOverride
    /\ q.amount # U64_MAX \/ HasPosition(c.borrows, q.reserve)

\* The borrow that follows a deposit is built before that reserve joins the deposits.
NewCollateralInGroup(q, c) ==
    /\ q.kind = "depositAndBorrow" /\ (q.requestGroup \/ c.group # 0)
    /\ Keys(c.deposits) # <<>> /\ ~HasPosition(c.deposits, q.reserve)

NotHandled(q, c, loaded) ==
    \/ NewCollateralInGroup(q, c)
    \/ LeavesGroupAfterWithdraw(q, c) \/ NeedsReferrerStates(q, c) \/ KeepsWithdrawnReserve(q, c)
    \/ FillsHole(q, c) \/ RepaysOwnCollateral(q, c) \/ NoCollateralLeft(q, c)
    \/ OutgrownByInterest(q, c, loaded) \/ HeldOutsideGroup(q, c)

\* A transaction built from what the accounts are when it runs does not fail.
FreshBuildExecutes ==
    [][Send /\ BuiltForThis /\ Intended(tx.q, chain).error = "" /\ ~NotHandled(tx.q, chain, tx.from)
           => tx'.status = "committed"]_vars

\* However old the data it was built from, a transaction that goes through does to
\* the obligation's positions exactly what its request means at that moment: each amount
\* asked for once, on the positions as they are then, and nothing else.
CommitsWhatWasMeant ==
    [][Send /\ tx'.status = "committed" => Positions(chain') = Meant(tx.q, chain)]_vars

\* Farms follow collateral: whatever was committed, by V1 instructions with their
\* neighbours or by V2 instructions with farm accounts, the stake of every farm of a
\* collateral reserve is the obligation's position in it.
StakesFollowCollateral ==
    \A r \in FarmCollateral :
        LET f == <<r, "Collateral">>
        IN IF f \in DOMAIN chain.stakes THEN chain.stakes[f] = StakeFor(chain, f)
           ELSE ~HasPosition(chain.deposits, r)

\* A transaction leaves no wrapped SOL account behind that was there neither when it was
\* built nor when it runs, and takes nothing out of one that was and
\* stays. (A referrer's fees are left there.)
WrappedSolAccountedFor ==
    [][Send /\ tx'.status = "committed" /\ tx.q.kind # "withdrawReferrerFee" =>
           \A r \in NativeReserves :
               /\ Liquidity(r) \in chain'.atas => Liquidity(r) \in chain.atas \cup tx.rpc.atas
               /\ Liquidity(r) \in chain'.atas => chain'.bal[r] >= chain.bal[r]]_vars

\* A repayment with requestElevationGroup that clears the last debt also leaves the
\* elevation group, as long as the debt has not become less since it was loaded: it may have
\* grown, and the group been entered meanwhile. (A repayment built as one of a part, which
\* another repayment or a liquidation makes one of the whole, leaves the group as it is.)
LastRepayLeavesGroup ==
    [][LET q == tx.q
       IN Send /\ tx'.status = "committed" /\ q.kind = "repay" /\ q.requestGroup
          /\ AmountIn(chain.borrows, q.reserve) >= AmountIn(tx.from.borrows, q.reserve)
          /\ Keys(chain'.borrows) = <<>> => chain'.group = 0]_vars

=============================================================================
