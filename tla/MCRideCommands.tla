---------------------------- MODULE MCRideCommands ----------------------------
(* RideCommands on small sets of drivers, bookings and commands under way.  *)
EXTENDS RideCommands, TLC

\* A cancellation or a recovery that dies half-way is the subject of other runs.
Robust == Op \ {"cancel", "recover"}
Contention == {"offer", "accept", "recover"}
Canceling == {"offer", "accept", "cancel"}
Offering == {"offer", "timeout", "accept"}
Starting == {"offer", "accept", "arrive", "start", "cancel"}
MCSymmetry == Permutations(Driver) \cup Permutations(Booking) \cup Permutations(Slot)
=============================================================================
