---------------------------- MODULE FlashClient ----------------------------
(***************************************************************************)
(* A user's leveraged operations: the client loads the market and the          *)
(* obligation, builds an operation with a quote of the exchange and sends it,   *)
(* while prices move and the debt grows. The exchange gives what the price of    *)
(* the moment is worth, less a slippage of its own choosing.                     *)
(***************************************************************************)
EXTENDS CollateralOps

CONSTANTS Operations,  \* the requests of the user
          StartChains, \* the accounts it may start from
          Prices,      \* price vectors: reserve -> decimal
          Market,      \* reserve -> its record, but for the price
          Slippages,   \* what an exchange may keep, as a fraction
          MaxSteps     \* bound on the actions of a behaviour

VARIABLES chain, price, view, tx, steps
vars == <<chain, price, view, tx, steps>>

None == [status |-> "none"]
At(prices) == [r \in Reserves |-> [Market[r] EXCEPT !.price = prices[r]]]

\* the account as KaminoObligation decodes it; no interest is due on the debts
Decoded(snap) ==
    [deposits |-> snap.deposits, group |-> snap.group,
     borrows |-> [i \in DOMAIN snap.borrows |->
                     [reserve |-> snap.borrows[i].reserve, amount |-> Dec(snap.borrows[i].amount),
                      stamp |-> One]]]

OperationOn(p, m, snap, rpc, o, quote) ==
    CASE p.kind = "deposit" -> getDepositWithLeverageIxns(m, p, snap, rpc, quote)
      [] p.kind = "withdraw" -> getWithdrawWithLeverageIxns(m, p, snap, rpc, quote)
      [] p.kind = "adjust" -> getAdjustLeverageIxns(m, p, snap, rpc, quote, o.pos.leverage)
      [] p.kind = "repayWithColl" -> getRepayWithCollIxs(m, p, snap, rpc, o, quote)
      [] OTHER -> getSwapCollIxns(m, p, snap, rpc, o, quote)

Operation(p, m, snap, rpc, now) ==
    OperationOn(p, m, snap, rpc, LoadObligation(m, Decoded(snap), 0),
                PriceOf(now, p.coll, IF p.kind = "swapColl" THEN p.target ELSE p.debt))

\* what the exchange gives for each swap of a transaction
Quoted(ixs, slippage) ==
    LET m == At(price)
        Gives(ix) == Floor(toLamports(Over(Times(fromLamports(ix.amount, m[ix.in].factor),
                                                 PriceOf(m, ix.in, ix.out)), OnePlus(slippage)),
                                      m[ix.out].factor))
    IN [i \in DOMAIN ixs |->
           IF ixs[i].ix = "swap"
           THEN [ix |-> "swap", in |-> ixs[i].in, out |-> ixs[i].out, amount |-> ixs[i].amount,
                 gives |-> Gives(ixs[i])]
           ELSE ixs[i]]

-----------------------------------------------------------------------------
Init ==
    /\ chain \in StartChains
    /\ price \in Prices
    /\ view = None /\ tx = None /\ steps = 0

Step == steps < MaxSteps /\ steps' = steps + 1

Load ==
    /\ Step /\ tx.status # "built"
    /\ view' = [status |-> "loaded", snap |-> Snapshot(chain), price |-> price]
    /\ UNCHANGED <<chain, price, tx>>

\* what a position of one collateral and one debt is worth, in the selected token
Equity(m, snap, p) ==
    Minus(Times(DepositedIn(m, snap, p.coll), PriceOf(m, p.coll, p.selected)),
          Times(BorrowedFrom(m, snap, p.debt), PriceOf(m, p.debt, p.selected)))
\* a multiply or leverage obligation is one of a single collateral and a single debt
Dedicated(p, snap) ==
    ToSet(Keys(snap.deposits)) \subseteq {p.coll} /\ ToSet(Keys(snap.borrows)) \subseteq {p.debt}
Offered(p) ==
    LET snap == view.snap
    IN /\ p.kind \in {"deposit", "withdraw", "adjust"} => Dedicated(p, snap)
       /\ p.kind # "deposit" => HasPosition(snap.deposits, p.coll)
       /\ p.kind \in {"withdraw", "adjust", "repayWithColl"} => HasPosition(snap.borrows, p.debt)
       /\ p.kind = "withdraw" /\ ~p.closing => Leq(p.amount, Equity(At(view.price), snap, p))
       /\ p.kind = "repayWithColl" /\ p.closing => Leq(BorrowedFrom(Market, snap, p.debt), p.amount)

Build(p) ==
    /\ Step /\ view.status = "loaded" /\ tx.status # "built" /\ Offered(p)
    /\ \E built \in {Operation(p, At(view.price), view.snap, Rpc(chain), At(price))} :
           tx' = [status |-> IF built.error = "" THEN "built" ELSE "refused", p |-> p, ixs |-> built.ixs,
                  error |-> built.error, from |-> view, quoted |-> price]
    /\ UNCHANGED <<chain, price, view>>

Send(slippage) ==
    /\ Step /\ tx.status = "built"
    /\ \E end \in {Execute(Now(chain), Quoted(tx.ixs, slippage))} :
           /\ tx' = [tx EXCEPT !.status = IF end.error = "" THEN "committed" ELSE "failed",
                               !.error = end.error]
           /\ chain' = [end EXCEPT !.error = "", !.resFresh = {}, !.obFresh = FALSE]
    /\ UNCHANGED <<price, view>>

PriceMove == Step /\ price' \in Prices \ {price} /\ UNCHANGED <<chain, view, tx>>

\* a lamport of interest on every debt
Accrue ==
    /\ Step /\ Keys(chain.borrows) # <<>>
    /\ chain' = [chain EXCEPT !.borrows = [i \in DOMAIN @ |->
                    IF @[i].reserve = NullKey THEN @[i] ELSE [@[i] EXCEPT !.amount = @ + 1]]]
    /\ UNCHANGED <<price, view, tx>>

Next ==
    \/ Load \/ PriceMove \/ Accrue
    \/ \E p \in Operations : Build(p)
    \/ \E s \in Slippages : Send(s)

Spec == Init /\ [][Next]_vars

-----------------------------------------------------------------------------
\* what the user holds of a token outside the market
Wallet(c, r) == c.bal[r] + IF Native(r) THEN c.sol + c.lamports ELSE 0

Fresh == tx.from.snap = Snapshot(chain) /\ tx.from.price = price /\ tx.quoted = price

\* The user's share of a deposit, in lamports rounded up; nothing else is to be spent.
Asked(p, r) ==
    IF p.kind = "deposit" /\ r = p.selected THEN Ceil(toLamports(p.amount, Market[r].factor)) ELSE 0

\* Repaying with collateral and swapping collateral leave nothing for slippage.
Tolerated(p, slippage) == p.kind \in {"deposit", "withdraw", "adjust"} \/ slippage = Zero

\* The one case the client does not prepare for: a group requested after a withdrawal
\* that leaves part of the collateral needs that reserve refreshed again.
GroupAfterPart(p, c) ==
    p.kind = "swapColl" /\ ~p.closing /\ elevationGroupIdToRequestAfterWithdraw(p, Snapshot(c),
        mustRemoveElevationGroupBeforeDeposit(p, Snapshot(c))) # NoOverride

\* An operation built from what holds when it runs goes through at a slippage within the
\* one it allows for, and takes from the wallet no more than was asked for.
FreshOperationPays ==
    [][\A s \in Slippages :
          Send(s) /\ Fresh /\ Tolerated(tx.p, s) /\ ~GroupAfterPart(tx.p, chain) =>
              /\ tx'.status = "committed"
              /\ \A r \in Reserves : Wallet(chain', r) >= Wallet(Now(chain), r) - Asked(tx.p, r)]_vars

\* A position opened by a deposit has the leverage that was asked for, at the price
\* quoted, up to one lamport of collateral and one of debt, and beyond it by no more than
\* the borrow's origination fee, rounded up; a closing withdrawal leaves no position.
LandsOnTarget ==
    [][\A s \in Slippages : Send(s) /\ tx'.status = "committed" =>
          LET p == tx.p
              m == At(tx.quoted)
              debt == BorrowedFrom(m, chain', p.debt)
              coll == DepositedIn(m, chain', p.coll)
              value == Times(Times(coll, PriceOf(m, p.coll, p.debt)), Minus(p.leverage, One))
              unit == Plus(Times(p.leverage, Ratio(1, m[p.debt].factor)),
                           Times(Ratio(1, m[p.coll].factor), Times(PriceOf(m, p.coll, p.debt), p.leverage)))
              fee == IF m[p.debt].borrowFee = Zero THEN Zero
                     ELSE Plus(Times(Plus(value, unit), m[p.debt].borrowFee),
                               Times(p.leverage, Ratio(1, m[p.debt].factor)))
          IN /\ p.kind = "deposit" /\ ~chain.exists /\ p.coll \notin KTokens =>
                    /\ Leq(value, Plus(Times(debt, p.leverage), unit))
                    /\ Leq(Times(debt, p.leverage), Plus(Plus(value, unit), fee))
             /\ p.kind = "withdraw" /\ p.closing => ~chain'.exists]_vars

\* A collateral swap ends in the elevation group that was asked for, whichever one it had
\* to leave on the way, and with every collateral in it.
SwapEndsInGroup ==
    [][\A s \in Slippages : Send(s) /\ tx'.status = "committed" /\ tx.p.kind = "swapColl" =>
          /\ chain'.group = tx.p.group
          /\ chain'.group # 0 => /\ InElevationGroup(chain', chain'.group)
                                 /\ Len(Keys(chain'.deposits)) <= GroupMaxCollaterals[chain'.group]]_vars

=============================================================================
