SPECIFICATION Spec
CONSTANTS
    SF = 2
    TakeRate = 1
    FixedBase = 0
    BorrowFee = 1
    FlashFee = 1
    DepositLimit = 4
    BorrowLimit = 3
    I64Max = 7
    o1 = o1
    o2 = o2
    r1 = r1
    Obligations = {o1}
    Referrers = {r1}
    ReferrerOf <- MCReferrerOf
    NoReferrer = NoReferrer
    MinInitialDeposit = 1
    UtilizationLimit = 0
    VariableBases = {1}
    ReferralRates = {0,2}
    DepositCap <- MCNoCap
    DebtCap <- MCNoCap
    Amounts = {2}
    U64Max = 3
    BorrowPowers = {6}
    PriceLevels = {2}
    MaxSlot = 2
INVARIANTS BooksMatchTokens ReferrerFeesBacked
PROPERTY SharesNeverDiluted
CHECK_DEADLOCK FALSE
