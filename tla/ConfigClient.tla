---------------------------- MODULE ConfigClient ----------------------------
(***************************************************************************)
(* The manager's command line at work: an administrator sets up a market and *)
(* a reserve, brings both to the configurations in two files by running the    *)
(* update commands until nothing is left to do, and hands the market over to     *)
(* another administrator. A command reads the chain, builds its transactions       *)
(* and sends them one after the other (client_kamino_manager.ts,                     *)
(* sendTransactionsUtils.ts): a refused one ends the command; one that is not          *)
(* confirmed in time counts as sent, and may be lost or arrive late.                    *)
(*                                                                                      *)
(* A command run with a key that is not the owner's is refused and changes nothing:       *)
(* the commands here are run by whoever is the owner when they read the chain.              *)
(***************************************************************************)
EXTENDS ConfigChain

CONSTANTS Starts,          \* a chain; a reserve file, entire or not, and a market file; a budget
          Admins, Creator,
          Assets,          \* described for a new reserve: a kind and its fields
          Oracle,          \* a price source to change to, and the buffer for its age
          Buffer,
          DebtCap,         \* the borrow limit of update-reserve-config-debt-cap
          NewName,
          MaxEdits         \* the largest bound on edits among the starts

\* a reserve's configuration and a market, with all their fields
IsConfig(c) == Range(ReserveKeys) \subseteq DOMAIN c
IsMarket(m) == Range(MarketKeys) \subseteq DOMAIN m /\ DOMAIN m.elevationGroups = GroupIds
IsReserve(r) == {"config", "available", "borrowed", "supply"} \subseteq DOMAIN r /\ IsConfig(r.config)

Usable(c) == c.depositLimit > 0 \/ c.borrowLimit > 0

\* An administrator holds the key of the market's owner, nobody else has been named yet, a
\* reserve is the market's, and one that can be used was validated.
StartAssumed(s) ==
    /\ DOMAIN s.chain = {"market", "reserve"}
    /\ s.chain.market # <<>> =>
          \E m \in {s.chain.market[1]} :
              /\ s.chain.market = <<m>> /\ IsMarket(m)
              /\ m.lendingMarketOwner \in Admins /\ m.lendingMarketOwnerCached = NullKey
    /\ s.chain.reserve # <<>> =>
          \E r \in {s.chain.reserve[1]} :
              /\ s.chain.reserve = <<r>> /\ s.chain.market # <<>>
              /\ IsReserve(r) /\ (Usable(r.config) => OwnConfigIsValid(r.config))
    /\ DOMAIN s.files = {"reserve", "entire", "market"} /\ IsConfig(s.files.reserve)

ASSUME ConfigAssumption ==
    /\ Creator \in Admins /\ NullKey \notin Admins
    /\ \A s \in Starts : StartAssumed(s)

VARIABLES chain,
          files,     \* the reserve's file, whether it is sent entire, and the market's file
          params,    \* DefaultConfigParams, shared by every described asset
          plan,      \* for each command running, the transactions it still has to send
          late,      \* transactions that were not confirmed in time
          offeredBy, \* who signed the last change of the pending owner
          budget     \* how many transactions may yet be lost, other things be done
                     \* (edits), and handovers be accepted

vars == <<chain, files, params, plan, late, offeredBy, budget>>

Commands == {"setup", "reserve", "market", "owner"}

Init == /\ \E s \in Starts : chain = s.chain /\ files = s.files /\ budget = s.budget
        /\ params = DefaultConfigParams
        /\ plan = [k \in Commands |-> <<>>]
        /\ late = {}
        /\ offeredBy = NullKey

market == chain.market[1]
reserve == chain.reserve[1]
HasMarket == chain.market # <<>>
HasReserve == chain.reserve # <<>>
Owner == market.lendingMarketOwner

Spend(what) == budget[what] > 0 /\ budget' = [budget EXCEPT ![what] = @ - 1]

\* a command with its transactions, when nothing was thrown and there is something to send
Send(k, payer, txs) ==
    /\ plan[k] = <<>>
    /\ plan' = [plan EXCEPT ![k] = [i \in DOMAIN txs |-> [payer |-> payer, ixs |-> txs[i]]]]
    /\ UNCHANGED <<chain, late, offeredBy>>
SendOne(k, built) == \E b \in {built} : b.err = "" /\ b.ixs # <<>> /\ Send(k, Owner, <<b.ixs>>)

-----------------------------------------------------------------------------
(* Commands *)

CreateMarket ==
    /\ ~HasMarket
    /\ Send("setup", Creator, <<createMarketIxs(Creator)>>)
    /\ UNCHANGED <<files, params, budget>>

\* a constructor of managerTypes.ts, before the asset is added
Describe(a) ==
    /\ ~HasReserve
    /\ params' = CASE a.kind = "asset" -> AssetReserveConfig(params, a.fields)
                   [] a.kind = "collateral" -> CollateralConfig(params, a.fields)
                   [] OTHER -> DebtConfig(params, a.fields)
    /\ Spend("edits")
    /\ UNCHANGED <<chain, files, plan, late, offeredBy>>

\* with the described parameters, or with the file (AssetReserveConfigCli)
AddAsset(fromFile) ==
    /\ HasMarket /\ ~HasReserve
    /\ LET config == IF fromFile THEN parseReserveConfigFromFile(files.reserve)
                     ELSE buildReserveConfig(params, NewName)
       IN Send("setup", Owner, addAssetToMarketIxs(market, Owner, config))
    /\ UNCHANGED <<files, params, budget>>

Goal == parseReserveConfigFromFile(files.reserve)
ReserveDone == HasReserve /\ \A k \in DOMAIN Goal \ DOMAIN CapOf : reserve.config[k] = Goal[k]
OwnerKeys == {"lendingMarketOwner", "lendingMarketOwnerCached"}
MarketDone == HasMarket /\ \A k \in DOMAIN market \ OwnerKeys : market[k] = files.market[k]

UpdateReserve ==
    /\ HasReserve /\ ~ReserveDone
    /\ SendOne("reserve", updateReserveIxs(market, chain.reserve, Goal, files.entire))
    /\ UNCHANGED <<files, params, budget>>

UpdateMarket ==
    /\ HasMarket /\ ~MarketDone
    /\ \E b \in {updateLendingMarketIxs(market, files.market, TRUE)} :
           b.err = "" /\ Send("market", Owner, InChunks(b.ixs))
    /\ UNCHANGED <<files, params, budget>>

AcceptOwnership ==
    /\ HasMarket
    /\ market.lendingMarketOwnerCached \in Admins
    /\ Send("owner", market.lendingMarketOwnerCached, <<updateLendingMarketOwnerIxs(market)>>)
    /\ Spend("accepts")
    /\ UNCHANGED <<files, params>>

\* the other edits, each of them once in a while
Edited == Spend("edits") /\ UNCHANGED params

Rename ==
    /\ HasMarket /\ Edited
    /\ SendOne("market", updateLendingMarketIxs(market, [market EXCEPT !.name = NewName], FALSE))
    /\ UNCHANGED files
SetDebtCap ==
    /\ HasReserve /\ Edited
    /\ SendOne("reserve", updateReserveIxs(market, chain.reserve,
                                           [reserve.config EXCEPT !.borrowLimit = DebtCap], FALSE))
    /\ UNCHANGED files
RetuneOracle(twap) ==
    /\ HasReserve /\ Edited
    /\ SendOne("reserve", updateReserveScopeOracleConfigurationIxs(market, reserve, Oracle, twap, Buffer))
    /\ UNCHANGED files
DownloadConfigs ==
    /\ HasReserve /\ Edited
    /\ files' = [files EXCEPT !.reserve = parseReserveConfigToFile(reserve.config), !.market = market]
    /\ UNCHANGED <<chain, plan, late, offeredBy>>

-----------------------------------------------------------------------------
(* The sender, and the chain *)

Offers(tx) == \E i \in DOMAIN tx.ixs :
    tx.ixs[i].ix = "updateLendingMarket" /\ tx.ixs[i].mode = "lendingMarketOwnerCached"

\* what the chain made of it
Take(tx, e) == /\ chain' = e.c
               /\ offeredBy' = IF e.ok /\ Offers(tx) THEN tx.payer ELSE offeredBy

\* the next transaction of a command lands, or is refused and ends the command
Land(k) ==
    /\ plan[k] # <<>>
    /\ \E e \in {Executed(chain, Head(plan[k]))} :
           /\ Take(Head(plan[k]), e)
           /\ plan' = [plan EXCEPT ![k] = IF e.ok THEN Tail(@) ELSE <<>>]
    /\ UNCHANGED <<files, params, late, budget>>

\* it is not confirmed: the sender logs it and returns the signature, as if it were
Unconfirmed(k) ==
    /\ plan[k] # <<>> /\ Spend("lost")
    /\ late' = late \cup {Head(plan[k])}
    /\ plan' = [plan EXCEPT ![k] = Tail(@)]
    /\ UNCHANGED <<chain, files, params, offeredBy>>
LandLate ==
    \E tx \in late : /\ Take(tx, Executed(chain, tx))
                     /\ late' = late \ {tx}
                     /\ UNCHANGED <<files, params, plan, budget>>
Expire ==
    \E tx \in late : /\ late' = late \ {tx}
                     /\ UNCHANGED <<chain, files, params, plan, offeredBy, budget>>

\* what others do with the reserve
Use(r) == /\ Edited
          /\ chain' = [chain EXCEPT !.reserve[1] = r]
          /\ UNCHANGED <<files, plan, late, offeredBy>>
OthersDeposit ==
    /\ HasReserve /\ reserve.available + reserve.borrowed < reserve.config.depositLimit
    /\ Use([reserve EXCEPT !.available = @ + 1, !.supply = @ + 1])
OthersBorrow ==
    /\ HasReserve /\ reserve.available > 0 /\ reserve.borrowed < reserve.config.borrowLimit
    /\ LET cap == reserve.config.debtCap
           counted == cap[2] # 0
       IN /\ counted => reserve.config.debtCapTotal < cap[1]
          /\ Use([reserve EXCEPT !.available = @ - 1, !.borrowed = @ + 1,
                                 !.config.debtCapTotal = IF counted THEN @ + 1 ELSE @])

Next == \/ CreateMarket \/ UpdateReserve \/ UpdateMarket \/ AcceptOwnership
        \/ Rename \/ SetDebtCap \/ DownloadConfigs
        \/ \E a \in Assets : Describe(a)
        \/ \E fromFile \in BOOLEAN : AddAsset(fromFile)
        \/ \E twap \in {<<>>, <<Oracle>>} : RetuneOracle(twap)
        \/ \E k \in Commands : Land(k) \/ Unconfirmed(k)
        \/ LandLate \/ Expire \/ OthersDeposit \/ OthersBorrow

\* The administrator runs the two update commands again as long as they have something to
\* do, and what was sent is taken up: only so many transactions are lost.
Fairness == /\ WF_vars(UpdateReserve)
            /\ WF_vars(UpdateMarket)
            /\ \A k \in Commands : WF_vars(Land(k))

Spec == Init /\ [][Next]_vars /\ Fairness

-----------------------------------------------------------------------------
(* Properties *)

\* Updates by difference that no number of runs completes, because fields that move
\* together are sent one by one, each of them validated with the rest as it is.
OrderMatters(old, new) ==
    LET changed(k) == old[k] # new[k]
        scope(c) == IsEnabled(c.scopePriceFeed)
    IN \/ new.loanToValuePct > old.liquidationThresholdPct
       \/ new.minLiquidationBonusBps > old.maxLiquidationBonusBps
       \/ changed("assetTier") /\ new.assetTier = 2 /\ old.liquidationThresholdPct # 0
       \/ changed("assetTier") /\ new.assetTier = 1 /\ old.borrowLimit # 0
       \/ old.borrowLimitOutsideElevationGroup # U64_MAX
              /\ new.borrowLimit < old.borrowLimitOutsideElevationGroup
       \/ old.autodeleverageEnabled # 0 /\ ~AutodeleverageIsValid([new EXCEPT !.autodeleverageEnabled = 1])
       \/ new.autodeleverageEnabled # 0 /\ old.deleveragingBonusIncreaseBpsPerDay = 0
       \/ scope(old) /\ ~IsChain(new.scopeChain)
       \/ scope(old) /\ ~scope(new) /\ ~IsEnabled(old.switchboardFeed) /\ ~IsEnabled(old.pythPrice)
       \/ ~scope(old) /\ IsEnabled(old.switchboardFeed) /\ ~IsEnabled(new.switchboardFeed)
              /\ ~scope(new) /\ ~IsEnabled(old.pythPrice)
       \/ new.maxTwapDivergenceBps # 0 /\ ~IsTwapConfigValid([old EXCEPT !.maxTwapDivergenceBps = 1])
       \/ old.elevationGroups # new.elevationGroups

\* what the client cannot encode, and the price fields of a reserve short of liquidity
CannotSend(r, new) ==
    \E k \in DOMAIN new :
        /\ Differs(k, r.config, new)
        /\ \/ ~Encodable(k, new[k])
           \/ updateReserveConfigEncodedValue(k, new[k]) = NoBytes
           \/ skipValidation(k, r)

GoalIsValid == HasMarket /\ validate_reserve_config(Goal, market)

\* The updates that are expected to go through: any valid configuration sent entire, and
\* by difference one that starts from a valid configuration and is none of the above.
ReserveHandled ==
    /\ HasReserve /\ ~ReserveDone /\ GoalIsValid
    /\ \/ files.entire
       \/ /\ validate_reserve_config(reserve.config, market)
          /\ ~OrderMatters(reserve.config, Goal)
          /\ ~CannotSend(reserve, Goal)

\* of the market: values the program accepts, one elevation group, the margin call period set
MarketHandled ==
    /\ HasMarket /\ ~MarketDone
    /\ LET b == updateLendingMarketIxs(market, files.market, TRUE)
       IN b.err = "" /\ \A i \in DOMAIN b.ixs : MarketAccepts(b.ixs[i].mode, b.ixs[i].value)
    /\ Reverse(files.market.minNetValueInObligationSf) = files.market.minNetValueInObligationSf
           \/ files.market.minNetValueInObligationSf = market.minNetValueInObligationSf

\* An administrator who keeps running the update commands gets the reserve and the market to
\* what the files say, unless somebody uses the reserve or edits something else meanwhile:
\* whatever part of a command was refused, lost, or arrived late and twice, and whoever
\* owns the market by then, the next run sends what is left and no step of it is refused
\* (updateReserveIxs, updateLendingMarketIxs).
UpdateConverges ==
    \A n \in 0..MaxEdits :
        /\ (ReserveHandled /\ budget.edits = n) ~> (ReserveDone \/ budget.edits # n \/ ~GoalIsValid)
        /\ (MarketHandled /\ budget.edits = n) ~> (MarketDone \/ budget.edits # n)

\* A reserve that takes deposits or lends has a configuration that validate_reserve_config
\* accepts by itself, though the handler skips the validation when asked to.
UsableReserveIsValid ==
    HasReserve /\ Usable(reserve.config) => OwnConfigIsValid(reserve.config)

\* The market passes only to whom its owner of that moment has named: a former owner, or a
\* transaction that was signed before the handover and lands after it, gets nothing back.
OwnerIsNamed ==
    [][HasMarket /\ chain'.market[1].lendingMarketOwner # Owner
           => /\ offeredBy = Owner
              /\ chain'.market[1].lendingMarketOwner = market.lendingMarketOwnerCached]_vars

=============================================================================
