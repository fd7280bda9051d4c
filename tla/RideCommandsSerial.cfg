\* One driver, two bookings, two commands at a time on different bookings.
CONSTANTS
    Driver = {d1}
    Booking = {b1, b2}
    Slot = {s1, s2}
    None = none
    Ops <- Op
    Fragile <- Robust
    Serialized = TRUE
SPECIFICATION Spec
SYMMETRY MCSymmetry
INVARIANTS TypeOK OneRidePerDriver RideIsIndexed NoRefundedRide
PROPERTIES ImplementsLifecycle FinalStatesStayFinal OnlyRecoveryReopens StartedIsNotCanceled
\* Rides end.
CHECK_DEADLOCK FALSE
