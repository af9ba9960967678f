SPECIFICATION Spec
CONSTANTS
  Reserves <- MCReserves
  FarmCollateral = {}
  FarmDebt = {}
  ReferrerTokenState <- MCReferrerTokenState
  U64_MAX = 99999
  NativeReserves = {"SOL"}
  ScopeReserves = {}
  GroupIds = {1}
  GroupDebtReserve <- MCGroupDebtReserve
  GroupLtv <- MCGroupLtv
  GroupLiquidationLtv <- MCGroupLiquidationLtv
  ReserveGroups <- MCReserveGroups
  RentExempt = 1
  SolPadding = 1
  RateNum = 1
  RateDen = 1
  SLOTS_PER_YEAR = 1
  SLOTS_PER_DAY = 2
  INITIAL_COLLATERAL_RATE <- MCRate
  SLOTS_PER_SECOND = 2
  ReferralFeeBps = 0
  RateLimb = 16
  FRACTION_ONE = 1024
  Markets <- MCMarkets
  Obligations <- MCObligations
  DebtReserve = "USDC"
  CollReserve = "SOL"
  OtherAmounts = {5}
  MaxSlot = 3
  MaxSteps = 2
INVARIANTS DebtNeverUnderstated EstimateIsTheRefresh MaxBorrowIsTheMost MaxWithdrawFits
CHECK_DEADLOCK FALSE
