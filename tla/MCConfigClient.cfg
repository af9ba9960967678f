SPECIFICATION Spec
CONSTANTS
  U64_MAX = 1000000
  MAX_SAFE_INTEGER = 100000
  MIN_INITIAL_DEPOSIT = 2
  MarketChunk = 2
  MintFactor = 1
  ReserveAddress = "reserve"
  DEFAULT_MIN_DEPOSIT_AMOUNT = 2
  MIN_INITIAL_DEPOSIT_AMOUNT = 1
  GroupIds = {1}
  Starts <- MCStarts
  Admins = {"o1", "o2"}
  Creator = "o1"
  Assets <- MCAssets
  Oracle <- MCOracle
  Buffer = 1
  DebtCap = 1
  NewName = "name"
  MaxEdits = 1
INVARIANT UsableReserveIsValid
PROPERTIES OwnerIsNamed UpdateConverges
CHECK_DEADLOCK FALSE
