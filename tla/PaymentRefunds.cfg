CONSTANTS
    pix = pix
    passenger = passenger
    driver = driver
    first = first
    second = second
    reasonA = reasonA
    reasonB = reasonB
    Payments = {pix}
    Cancelers = {passenger, driver}
    Settlers = {first, second}
    Reasons = {reasonA, reasonB}
    None = none
    Budgets <- SomeOfEach
SPECIFICATION FairSpec
INVARIANTS TypeOK OneKnownRefund OnlyRetryAsksAgain DebtIsRecorded CanceledIsPaidBack OrphanIsTracked
PROPERTIES OrphanIsRefunded
CHECK_DEADLOCK FALSE
