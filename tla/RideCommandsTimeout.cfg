\* The response timer of one driver and the accept of another.
CONSTANTS
    Driver = {d1, d2}
    Booking = {b1}
    Slot = {s1, s2}
    None = none
    Ops <- Offering
    Fragile = {}
    Serialized = FALSE
SPECIFICATION Spec
SYMMETRY MCSymmetry
PROPERTIES OnlyRecoveryReopens
\* Rides end.
CHECK_DEADLOCK FALSE
