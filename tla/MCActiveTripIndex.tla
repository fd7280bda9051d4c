-------------------------- MODULE MCActiveTripIndex --------------------------
(* ActiveTripIndex on small sets of drivers, bookings and tokens.           *)
EXTENDS ActiveTripIndex, TLC

MCWindowTTL == [verification |-> 1, policy |-> 1]
\* A window that ages before it ends.
MCAgingTTL == [verification |-> 2, policy |-> 1]
MCSymmetry == Permutations(Driver) \cup Permutations(Booking) \cup Permutations(Token)
=============================================================================
