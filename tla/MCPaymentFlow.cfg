SPECIFICATION Spec
CONSTANTS
    ana = ana
    i1 = i1
    i2 = i2
    dep = dep
    Clients = {ana}
    Requests = {r1, r2}
    Invoices = {i1, i2}
    Deletions = {d1}
    References = {dep}
    Deposits <- MCDeposits
    Amounts <- MCAmounts
    Inputs <- AllInputs
INVARIANTS
    TypeOK
    SuccessIsSettled
    RecordedIsPaid
    MoneyHasOneUse
    NothingDangles
PROPERTIES
    KeepsContract
CHECK_DEADLOCK FALSE
