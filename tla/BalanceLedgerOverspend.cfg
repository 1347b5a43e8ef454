SPECIFICATION Spec
CONSTANTS
    Clients = {ana}
    Txns = {t1, t2}
    Calls = {k1, k2}
    Amounts <- MCAmounts
INVARIANTS
    NoOverspend
CHECK_DEADLOCK FALSE
