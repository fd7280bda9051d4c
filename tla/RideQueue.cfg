CONSTANTS
    r1 = r1
    r2 = r2
    r3 = r3
    g1 = g1
    g2 = g2
    Rides = {r1, r2, r3}
    Regions = {g1, g2}
    Replicas = {p1, p2}
    None = none
    Dead = dead
    RegionOf <- TwoRegions
    Budgets <- OneOfEach
SPECIFICATION FairSpec
INVARIANTS TypeOK ClaimedOnce WaitingRideIsFindable
PROPERTIES WorkerKeepsItsClaims QueuedRideIsTaken ClaimedBatchIsDrained
