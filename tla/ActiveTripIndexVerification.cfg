\* A recovery that clears the index of a ride that goes on.
CONSTANTS
    Driver = {d1}
    Booking = {b1}
    Token = {t1}
    None = none
    TripTTL = 9
    RenewThreshold = 4
    Eviction = FALSE
    WindowTTL <- MCWindowTTL
SPECIFICATION Spec
INVARIANTS NoVerificationDuringRide
