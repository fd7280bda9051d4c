CONSTANTS
    pix = pix
    passenger = passenger
    driver = driver
    first = first
    second = second
    reasonA = reasonA
    reasonB = reasonB
    Payments = {pix}
    Cancelers = {passenger, driver}
    Settlers = {first, second}
    Reasons = {reasonA, reasonB}
    None = none
    Budgets <- OneOfEach
SPECIFICATION FairSpec

PROPERTIES NeverRefundsSettled
CHECK_DEADLOCK FALSE
