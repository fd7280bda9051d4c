---------------------------- MODULE RideLifecycle ----------------------------
(***************************************************************************)
(* What the ride commands promise together: a ride is accepted by one free  *)
(* driver, is run by that driver, and ends once.                            *)
(***************************************************************************)
CONSTANTS Driver, Booking, None

VARIABLES phase,   \* phase of each booking
          driver   \* the driver who runs it

vars == <<phase, driver>>

Live == {"accepted", "arrived", "started"}

Init ==
    /\ phase = [b \in Booking |-> "open"]
    /\ driver = [b \in Booking |-> None]

Busy(d) == \E b \in Booking : driver[b] = d /\ phase[b] \in Live

Accept(b, d) ==
    /\ phase[b] = "open"
    /\ ~Busy(d)
    /\ phase' = [phase EXCEPT ![b] = "accepted"]
    /\ driver' = [driver EXCEPT ![b] = d]

Go(b, from, to) ==
    /\ phase[b] = from
    /\ phase' = [phase EXCEPT ![b] = to]
    /\ UNCHANGED driver

Arrive(b) == Go(b, "accepted", "arrived")
Start(b) == Go(b, "arrived", "started")
Complete(b) == Go(b, "started", "completed")

\* Only before the ride starts; the driver, if there is one, is free again.
Cancel(b) ==
    /\ phase[b] \in {"open", "accepted", "arrived"}
    /\ phase' = [phase EXCEPT ![b] = "canceled"]
    /\ driver' = [driver EXCEPT ![b] = None]

\* The driver of an accepted ride is lost: the ride is open again.
Recover(b) ==
    /\ phase[b] = "accepted"
    /\ phase' = [phase EXCEPT ![b] = "open"]
    /\ driver' = [driver EXCEPT ![b] = None]

Next == \E b \in Booking :
    \/ \E d \in Driver : Accept(b, d)
    \/ Arrive(b)
    \/ Start(b)
    \/ Complete(b)
    \/ Cancel(b)
    \/ Recover(b)

Spec == Init /\ [][Next]_vars
=============================================================================
