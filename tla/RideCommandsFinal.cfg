\* An accept that meets a cancellation half-way.
CONSTANTS
    Driver = {d1}
    Booking = {b1}
    Slot = {s1, s2}
    None = none
    Ops <- Canceling
    Fragile = {}
    Serialized = FALSE
SPECIFICATION Spec
SYMMETRY MCSymmetry
PROPERTIES FinalStatesStayFinal
\* Rides end.
CHECK_DEADLOCK FALSE
