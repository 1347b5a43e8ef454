SPECIFICATION Spec
CONSTANTS
    ana = ana
    i1 = i1
    i2 = i2
    dep = dep
    Clients = {ana}
    Requests = {r1, r2}
    Invoices = {i1}
    Deletions = {d1}
    References = {dep}
    Deposits <- MCDeposits
    Amounts <- MCAmounts
    Inputs <- RoundingInputs
INVARIANTS
    PartialIsRegistered
CHECK_DEADLOCK FALSE
