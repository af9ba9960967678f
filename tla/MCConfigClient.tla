--------------------------- MODULE MCConfigClient ---------------------------
(***************************************************************************)
(* Two administrators, one reserve. The starts are an empty chain, and       *)
(* reserves in use whose files ask for updates of each kind: fields that may   *)
(* be sent in any order, fields for which the order matters, a change of price   *)
(* source, caps, a number too large to send, an invalid price configuration of     *)
(* a reserve that nobody has used yet.                                              *)
(***************************************************************************)
EXTENDS ConfigClient

MCPyth == [pyth |-> "pyth"]
MCScope == [scope |-> "scope", chain |-> <<1>>, twap |-> NoChain]

MCParams(feed) == [DefaultConfigParams EXCEPT !.priceFeed = feed, !.depositLimit = 3, !.borrowLimit = 2]
MCBase(feed) == buildReserveConfig(MCParams(feed), "token")

MCMarket == [InitLendingMarket("o1") EXCEPT !.individualAutodeleverageMarginCallPeriodSecs = 1]
MCGroup == [id |-> 1, maxLiquidationBonusBps |-> 500, ltvPct |-> 80, liquidationThresholdPct |-> 85,
            debtReserve |-> "other", maxReservesAsCollateral |-> 1]

\* offers the market to o2 among other changes; changes that need one transaction; the
\* first deposit and a group; a byte order that is read back otherwise
MCHandover == [MCMarket EXCEPT !.lendingMarketOwnerCached = "o2", !.referralFeeBps = 10, !.emergencyMode = 1]
MCPaused == [MCMarket EXCEPT !.borrowDisabled = 1]
MCGrouped == [MCMarket EXCEPT !.elevationGroups[1] = MCGroup, !.minInitialDepositAmount = 1]
MCNetValue == [MCMarket EXCEPT !.minNetValueInObligationSf = <<2, 0>>]

MCLive(config, n) == [market |-> <<MCMarket>>,
                      reserve |-> <<[config |-> config, available |-> n, borrowed |-> 0, supply |-> n]>>]
MCStart(c, file, entire, m, lost, edits, accepts) ==
    [chain |-> c, files |-> [reserve |-> file, entire |-> entire, market |-> m],
     budget |-> [lost |-> lost, edits |-> edits, accepts |-> accepts]]

MCRiskier(c) == [c EXCEPT !.loanToValuePct = 80, !.liquidationThresholdPct = 85]
MCSafer(c) == [c EXCEPT !.loanToValuePct = 60, !.minLiquidationBonusBps = 300, !.borrowLimit = 1,
                        !.borrowLimitOutsideElevationGroup = 1, !.borrowFee = 5]
MCScoped(c) == [c EXCEPT !.scopePriceFeed = "scope", !.scopeChain = <<1>>, !.pythPrice = NullKey]
MCCapped(c) == [c EXCEPT !.debtCap = <<1, 5>>]
MCLarge(c) == [c EXCEPT !.borrowLimitOutsideElevationGroup = U64_MAX]
MCNoSource(c) == [c EXCEPT !.scopePriceFeed = "scope"]
MCIn(c) == [c EXCEPT !.elevationGroups = {1}]

MCPythBase == MCBase(MCPyth)
MCScopeBase == MCBase(MCScope)

MCStarts ==
    {MCStart([market |-> <<>>, reserve |-> <<>>], MCScopeBase, FALSE, MCHandover, 0, 1, 0),
     MCStart([market |-> <<>>, reserve |-> <<>>], MCScopeBase, TRUE, MCHandover, 1, 0, 1)}
    \cup {MCStart(MCLive(MCPythBase, 2), MCSafer(MCPythBase), FALSE, MCHandover, 1, 0, 2),
          MCStart(MCLive(MCPythBase, 2), MCRiskier(MCPythBase), TRUE, MCHandover, 1, 0, 2),
          MCStart(MCLive(MCPythBase, 2), MCRiskier(MCPythBase), FALSE, MCPaused, 1, 1, 0),
          MCStart(MCLive(MCPythBase, 2), MCScoped(MCPythBase), FALSE, MCPaused, 1, 1, 0),
          MCStart(MCLive(MCScopeBase, 2), MCCapped(MCScopeBase), FALSE, MCPaused, 1, 1, 0),
          MCStart(MCLive(MCScopeBase, 2), MCLarge(MCScopeBase), FALSE, MCNetValue, 0, 1, 0),
          MCStart(MCLive(MCPythBase, 1), MCNoSource(MCPythBase), FALSE, MCGrouped, 0, 1, 0),
          MCStart(MCLive(MCPythBase, 2), MCIn(MCPythBase), TRUE, MCGrouped, 1, 0, 0)}

MCAssets == {[kind |-> "asset", fields |-> [priceFeed |-> MCPyth, loanToValuePct |-> 60,
                                            liquidationThresholdPct |-> 65, borrowRateCurve |-> FlatCurve(10),
                                            depositLimit |-> 3, borrowLimit |-> 2]],
             [kind |-> "collateral", fields |-> [priceFeed |-> MCScope, loanToValuePct |-> 60,
                                                 liquidationThresholdPct |-> 65]],
             [kind |-> "debt", fields |-> [priceFeed |-> MCPyth, borrowRateCurve |-> FlatCurve(10)]]}
MCOracle == [scope |-> "scope2", id |-> 2, maxAge |-> 5]

=============================================================================
