\* One driver, two bookings that compete for the driver, two tokens.
CONSTANTS
    Driver = {d1}
    Booking = {b1, b2}
    Token = {t1, t2}
    None = none
    TripTTL = 2
    RenewThreshold = 1
    Eviction = FALSE
    WindowTTL <- MCWindowTTL
SPECIFICATION Spec
SYMMETRY MCSymmetry
INVARIANTS TypeOK WindowsExclusive CustomerNamesCurrentTrip IndexAgreesWithHash
PROPERTIES ImplementsDriverHold
