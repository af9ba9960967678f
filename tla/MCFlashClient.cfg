SPECIFICATION Spec
CONSTANTS
  Reserves <- MCReserves
  FarmCollateral = {"SOL"}
  FarmDebt = {"USDC"}
  ReferrerTokenState <- MCReferrerTokenState
  U64_MAX = 99999
  NativeReserves = {"SOL"}
  ScopeReserves = {"SOL"}
  GroupIds = {1, 2}
  GroupDebtReserve <- MCGroupDebtReserve
  GroupLtv <- MCGroupLtv
  GroupLiquidationLtv <- MCGroupLiquidationLtv
  GroupMaxCollaterals <- MCGroupMaxCollaterals
  ReserveGroups <- MCReserveGroups
  RentExempt = 1
  SolPadding = 1
  RateNum = 2
  RateDen = 1
  SLOTS_PER_YEAR = 10
  SLOTS_PER_DAY = 2
  INITIAL_COLLATERAL_RATE <- MCRate
  SLOTS_PER_SECOND = 2
  ReferralFeeBps = 0
  RateLimb = 16
  FRACTION_ONE = 1024
  MaxSlots = 2
  Tracked <- MCReserves
  BorrowFee <- MCBorrowFee
  FlashFee <- MCFlashFee
  Slippage <- MCSlippage
  KTokens = {"KAB"}
  Strategy <- MCStrategy
  BalanceToWrap = 2
  Operations <- MCOperations
  StartChains <- MCStartChains
  Prices <- MCPrices
  Market <- MCMarket
  Slippages <- MCSlippages
  MaxSteps = 4
PROPERTIES FreshOperationPays LandsOnTarget SwapEndsInGroup
CHECK_DEADLOCK FALSE
