\* A cancellation that checked the ride before it started.
CONSTANTS
    Driver = {d1}
    Booking = {b1}
    Slot = {s1, s2}
    None = none
    Ops <- Starting
    Fragile = {}
    Serialized = FALSE
SPECIFICATION Spec
SYMMETRY MCSymmetry
PROPERTIES StartedIsNotCanceled
\* Rides end.
CHECK_DEADLOCK FALSE
