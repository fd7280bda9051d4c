\* Offers, accepts and recoveries of two rides of one driver, all overlapping
\* and dying anywhere.
CONSTANTS
    Driver = {d1}
    Booking = {b1, b2}
    Slot = {s1, s2}
    None = none
    Ops <- Contention
    Fragile <- Contention
    Serialized = FALSE
SPECIFICATION Spec
SYMMETRY MCSymmetry
PROPERTIES OthersUntouched
\* Rides end.
CHECK_DEADLOCK FALSE
