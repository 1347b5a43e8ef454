SPECIFICATION FairSpec
CONSTANTS
    ana = ana
    i1 = i1
    i2 = i2
    dep = dep
    Clients = {ana}
    Requests = {r1, r2}
    Invoices = {i1, i2}
    Deletions = {d1, d2}
    References = {dep}
    Deposits <- MCDeposits
    Amounts <- MCAmounts
    Inputs <- LiveInputs
PROPERTIES
    RequestsAnswered
    DeletionsAnswered
CHECK_DEADLOCK FALSE
