SPECIFICATION BankFairSpec
CONSTANTS
    Requests = {r1, r2, r3}
    dep = dep
    ghost = ghost
    References <- MCReferences
    Deposits <- MCDeposits
    Charges <- MCCharges
INVARIANTS
    BankTypeOK
    CreditsAreFunded
    RowsTellOutcome
PROPERTIES
    NoLateCredit
    BankCallsEnd
CHECK_DEADLOCK FALSE
