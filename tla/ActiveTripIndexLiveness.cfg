\* One driver, one booking, two tokens, in a Redis that may evict, under the
\* fairness of time alone.
CONSTANTS
    Driver = {d1}
    Booking = {b1}
    Token = {t1, t2}
    None = none
    TripTTL = 2
    RenewThreshold = 1
    Eviction = TRUE
    WindowTTL <- MCAgingTTL
SPECIFICATION FairSpec
PROPERTIES OnlyHolderEndsWindow NoNewRideWhileHeld WindowOpensOnIdleDriver StuckLeaseOnlyAges AbandonedWindowOnlyAges GoneRideLetsGo AbandonedWindowEnds
