SPECIFICATION BankSpec
CONSTANTS
    Requests = {r1, r2}
    dep = dep
    ghost = ghost
    References <- MCReferences
    Deposits <- MCDeposits
    Charges <- MCCharges
INVARIANTS
    CreditedOnce
CHECK_DEADLOCK FALSE
