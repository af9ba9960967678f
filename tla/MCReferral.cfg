SPECIFICATION Spec
CONSTANTS
    SF = 4
    TakeRate = 4
    FixedBase = 1
    BorrowFee = 0
    FlashFee = 0
    DepositLimit = 3
    BorrowLimit = 4
    I64Max = 7
    o1 = o1
    o2 = o2
    r1 = r1
    Obligations = {o1}
    Referrers = {r1}
    ReferrerOf <- MCReferrerOf
    NoReferrer = NoReferrer
    MinInitialDeposit = 2
    UtilizationLimit = 0
    VariableBases = {0}
    ReferralRates = {4}
    DepositCap <- MCNoCap
    DebtCap <- MCNoCap
    Amounts = {2}
    U64Max = 9
    BorrowPowers = {40}
    PriceLevels = {2}
    MaxSlot = 3
INVARIANT ReferralFailsOnlyOnSlotsMismatch
CHECK_DEADLOCK FALSE
