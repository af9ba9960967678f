SPECIFICATION Spec
CONSTANTS
  Reserves <- MCReserves
  FarmCollateral = {"SOL", "JUP"}
  FarmDebt = {"USDC"}
  ReferrerTokenState <- MCReferrerTokenState
  U64_MAX = 99
  NativeReserves = {"SOL"}
  ScopeReserves = {"SOL"}
  GroupIds = {1}
  GroupDebtReserve <- MCGroupDebtReserve
  GroupLtv <- MCGroupLtv
  ReserveGroups <- MCReserveGroups
  RentExempt = 1
  SolPadding = 1
  RateNum = 3
  RateDen = 2
  Requests <- MCRequests
  Starts <- MCStarts
  MaxSlots = 2
  MaxAmount = 3
  MaxSteps = 2
  MaxIxs = 40
  Tracked = {"SOL"}
  BorrowFee <- MCBorrowFee
  FlashFee <- MCFlashFee
INVARIANT StakesFollowCollateral
PROPERTIES FreshBuildExecutes CommitsWhatWasMeant WrappedSolAccountedFor LastRepayLeavesGroup
CHECK_DEADLOCK FALSE
