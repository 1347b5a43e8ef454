SPECIFICATION FairSpec
CONSTANTS
    Clients = {ana, luis}
    Txns = {t1, t2}
    Calls = {k1, k2}
    Amounts <- MCAmounts
INVARIANTS
    TypeOK
    Conserved
    RowsPaired
    AllOrNothing
    OldestFirst
    MovementsChain
PROPERTIES
    OnlyDrawnDown
    KeepsAccount
    CallsEnd
CHECK_DEADLOCK FALSE
