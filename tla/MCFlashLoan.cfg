\* Transactions of up to three instructions, this program's and others'.
SPECIFICATION Spec
CONSTANTS
    r1 = r1
    r2 = r2
    a1 = a1
    a2 = a2
    b1 = b1
    Reserves = {r1, r2}
    Accounts = {a1, a2, b1}
    ReserveAt <- MCReserveAt
    Amounts = {1, 2}
    MaxIndex = 2
    MaxLen = 3
    Transactions <- MCTransactions
INVARIANTS
    TypeOK
    NoLoanOutlivesItsTransaction
PROPERTIES
    LoansNeverOverlap
