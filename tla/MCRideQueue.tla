---------------------------- MODULE MCRideQueue ----------------------------
EXTENDS RideQueue

CONSTANTS r1, r2, r3, g1, g2

TwoRegions == [r \in Rides |-> IF r = r1 THEN g1 ELSE g2]

OneOfEach == {[removals |-> 1, requests |-> 0, dispatches |-> 0, faults |-> 0],
              [removals |-> 0, requests |-> 1, dispatches |-> 1, faults |-> 0],
              [removals |-> 0, requests |-> 0, dispatches |-> 0, faults |-> 1]}

=============================================================================
