SPECIFICATION Spec
CONSTANTS
  Reserves <- MCReserves
  FarmCollateral = {"A"}
  FarmDebt = {}
  ReferrerTokenState <- MCReferrerTokenState
  U64_MAX = 99999
  NativeReserves = {}
  ScopeReserves = {}
  GroupIds = {1}
  GroupDebtReserve <- MCGroupDebtReserve
  GroupLtv <- MCGroupLtv
  ReserveGroups <- MCReserveGroups
  RentExempt = 1
  SolPadding = 1
  RateNum = 1
  RateDen = 1
  SLOTS_PER_YEAR = 10
  SLOTS_PER_DAY = 2
  INITIAL_COLLATERAL_RATE <- MCRate
  SLOTS_PER_SECOND = 2
  Factor = 10
  SECONDS_PER_YEAR = 100
  SlotMs = 10
  VAULT_INITIAL_DEPOSIT = 10
  ChunkSize = 20
  MaxRounds = 3
  Farms = {"farm"}
  SlotSeconds = 10
  NoVault <- MCNoVault
  Chains <- MCChains
  Admin = "admin"
  Next2 = "next"
  User = "user"
  WrappedSol = TRUE
  Fee = 1000
  TokenAmounts <- MCTokens
  ShareAmounts <- MCShares
  Allocations <- MCAllocations
  BorrowedFrom = {"A"}
  BorrowAmount = 40
  MaxSlot = 2
  MaxOps = 2
  MaxBorrows = 1
INVARIANTS WithdrawPays CrankSettles TableFollowsVault OverviewAgrees
CHECK_DEADLOCK FALSE
