\* One ride of any kind, two workers, the sweep of one of them, one retry, two
\* automatic attempts and two faults.
CONSTANTS
    Rides = {r1}
    Workers = {w1, w2}
    Sweepers = {w1}
    None = none
    MaxLegs = 2
    MaxRetries = 1
    MaxAttempts = 2
    MaxFaults = 2
SPECIFICATION FairSpec
INVARIANTS TypeOK UncreditedLeavesTrace
PROPERTIES ImplementsDriverCredits PendingClearedOnlyOnceCredited PendingFeeSettles EventSettles
CHECK_DEADLOCK FALSE
