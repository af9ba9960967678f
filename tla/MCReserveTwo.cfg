SPECIFICATION Spec
CONSTANTS
    SF = 2
    TakeRate = 2
    FixedBase = 0
    BorrowFee = 0
    FlashFee = 0
    DepositLimit = 3
    BorrowLimit = 3
    I64Max = 7
    o1 = o1
    o2 = o2
    r1 = r1
    Obligations = {o1, o2}
    Referrers = {r1}
    ReferrerOf <- MCReferrerOf
    NoReferrer = NoReferrer
    MinInitialDeposit = 2
    UtilizationLimit = 0
    VariableBases = {1}
    ReferralRates = {2}
    DepositCap <- MCSmallCap
    DebtCap <- MCSmallCap
    Amounts = {1}
    U64Max = 3
    BorrowPowers = {3}
    PriceLevels = {2}
    MaxSlot = 2
INVARIANT FreshDebtIsCurrent
CHECK_DEADLOCK FALSE
