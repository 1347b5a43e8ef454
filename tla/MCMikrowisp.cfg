SPECIFICATION ManagerFairSpec
CONSTANTS
    first = first
    second = second
    other = other
    i1 = i1
    i2 = i2
    Tasks <- MCTasks
    Invoices = {i1, i2}
    InvoiceOf <- MCInvoiceOf
    References = {ref1, ref2}
INVARIANTS
    MikrowispTypeOK
    AnsweredIsPaid
    OnePaymentPerTask
PROPERTIES
    PostsEnd
CHECK_DEADLOCK FALSE
