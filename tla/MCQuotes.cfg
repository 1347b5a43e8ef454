SPECIFICATION Spec
CONSTANTS
    ra = ra
    rb = rb
    Rates = {ra, rb}
    Updates = {1, 2}
    EarlierRows <- MCEarlierRows
    MaxAttempts = 2
    MaxChanges = 1
    Payments = {1, 2}
    Bcv <- MCBcv
    Amounts = {99, 123}
    Balances = {0, 33, 120, 400}
    IspConfigs <- MCIspConfigs
    MaxStarted = 4
INVARIANTS
    QuotesTypeOK
    QuoteSettles
    TransactionNamesItsRate
PROPERTIES
    LatestIsWhatWasRead
    UpdatesEnd
CHECK_DEADLOCK FALSE
