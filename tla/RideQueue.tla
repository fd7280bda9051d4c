------------------------------ MODULE RideQueue ------------------------------
(***************************************************************************)
(* The regional queues of paid rides and the processes that empty them.     *)
(*                                                                          *)
(* ride-queue-manager.js keeps, per region, a sorted set of pending rides,  *)
(* a hash of active ones, and one set that indexes the regions with pending *)
(* rides.  On every replica a queue worker, if it holds the leader lease of *)
(* redis-leader-lease.js, visits the indexed regions, claims their rides    *)
(* and starts a driver search for each; and response-handler.js claims on   *)
(* behalf of a driver who has just refused a ride, without any lease.  The  *)
(* dispatch that follows a payment starts a search without any claim.       *)
(*                                                                          *)
(* One action is one Redis call.  No region has more pending rides, and no  *)
(* index more regions, than a batch takes (10 and 50 in the code).  A crash,*)
(* a lost lease, a command that fails, a reply that does not arrive and an  *)
(* error that makes a loop skip a ride are faults; the removals of rides,   *)
(* the requests of drivers, the dispatches and the faults of a behaviour    *)
(* are bounded by one of Budgets.  The checks and the write of              *)
(* startGradualSearch, and the check and the write of a state, are one step *)
(* (RideCommands takes the latter apart).                                   *)
(***************************************************************************)
EXTENDS Naturals

CONSTANTS Rides, Regions, Replicas, None,
          Dead,          \* stands for the token of a process that is gone
          RegionOf,      \* the geohash cell of the pickup of a ride
          Budgets        \* how many removals, requests of drivers, dispatches
                         \* and faults may meet; nothing bounds them in the code

ASSUME RegionAssumption == RegionOf \in [Rides -> Regions]

ASSUME BudgetAssumption ==
    Budgets \subseteq [removals : Nat, requests : Nat, dispatches : Nat, faults : Nat]

ASSUME NoneAssumption ==
    /\ {None, Dead} \cap (Rides \cup Regions \cup Replicas) = {}
    /\ None # Dead

VARIABLES state,     \* of booking:R: "open" is PENDING or SEARCHING, which all
                     \* treat alike here, "stale" is open while another booking
                     \* is the customer's, "gone" any state without a search
          pending,   \* ride_queue:G:pending, all regions together
          active,    \* ride_queue:G:active
          search,    \* rides handed over to startGradualSearch
          index,     \* activeRegionsSetKey
          lease,     \* whose token the leader key holds; Dead is no one's
          held,      \* replicas that believe they lead
          thread,    \* worker and driver requests of each replica
          removal,   \* dequeueRide of a ride that ends or is canceled
          dropped,   \* claimed rides that a crash, a lost reply or an error
                     \* of the worker left without a search
          unqueued,  \* rides the queue never took, or that the worker removed
                     \* because another booking was the customer's
          budget     \* of what is left of the bounds

queueVars == <<pending, active, index>>
leaseVars == <<lease, held>>
rideVars == <<state, search>>
lostVars == <<dropped, unqueued>>
vars == <<queueVars, leaseVars, rideVars, thread, removal, lostVars, budget>>

-----------------------------------------------------------------------------
Threads == Replicas \X {"worker", "driver"}
Idle == [at |-> "idle", todo |-> {}, region |-> None, batch |-> {}, got |-> {}]

At(t, s) == thread[t].at = s
IsWorker(t) == t[2] = "worker"
Worker(p) == <<p, "worker">>
In(g) == {r \in Rides : RegionOf[r] = g}

Goto(t, s) == thread' = [thread EXCEPT ![t].at = s]
Rest(t) == thread' = [thread EXCEPT ![t] = Idle]
Spend(k) == budget[k] > 0 /\ budget' = [budget EXCEPT ![k] = budget[k] - 1]
Fault == Spend("faults")

Init ==
    /\ state = [r \in Rides |-> "none"]
    /\ pending = {} /\ active = {} /\ search = {}
    /\ index = {}
    /\ lease = None /\ held = {}
    /\ thread = [t \in Threads |-> Idle]
    /\ removal = [r \in Rides |-> "none"]
    /\ dropped = {} /\ unqueued = {}
    /\ budget \in Budgets

-----------------------------------------------------------------------------
(* A ride enters the queue and leaves it.                                   *)

\* A defect: a pickup without a geohash cell.
EnqueueWithoutRegion(r) ==
    /\ state[r] = "none"
    /\ state' = [state EXCEPT ![r] = "open"]
    /\ pending' = pending \cup {r}
    /\ index' = index \cup {None}
    /\ UNCHANGED <<active, search, leaseVars, lostVars, thread, removal, budget>>

\* enqueueRide: one pipeline of HSET, ZADD and SADD, of which any may fail: the
\* errors of its commands are not read.
Enqueue(r) ==
    /\ state[r] = "none"
    /\ \E failed \in SUBSET {"hset", "zadd", "sadd"} :
        /\ state' = [state EXCEPT ![r] = IF "hset" \in failed THEN "gone" ELSE "open"]
        /\ pending' = pending \cup {x \in {r} : "zadd" \notin failed}
        /\ unqueued' = unqueued \cup {x \in {r} : "zadd" \in failed}
        /\ index' = index \cup {g \in {RegionOf[r]} : "sadd" \notin failed}
        /\ IF failed = {} THEN UNCHANGED budget ELSE Fault
    /\ UNCHANGED <<active, search, leaseVars, dropped, thread, removal>>

\* The pointer of the customer moves on to another booking although this one
\* could not be superseded; it is current again when the other one has ended.
Outdate(r) ==
    /\ state[r] = "open" /\ Fault
    /\ state' = [state EXCEPT ![r] = "stale"]
    /\ UNCHANGED <<queueVars, search, leaseVars, lostVars, thread, removal>>

CurrentAgain(r) ==
    /\ state[r] = "stale"
    /\ state' = [state EXCEPT ![r] = "open"]
    /\ UNCHANGED <<queueVars, search, leaseVars, lostVars, thread, removal, budget>>

Waits(r) == state[r] \in {"open", "stale"}

\* An accept, a supersedence or an end without drivers first changes the
\* state; the cancel handler, and the cleanup of a ride that waited for too
\* long, dequeue before the cancellation is decided.
EndRide(r) ==
    /\ Waits(r) /\ removal[r] = "none"
    /\ Spend("removals")
    /\ state' = [state EXCEPT ![r] = "gone"]
    /\ removal' = [removal EXCEPT ![r] = "zrem"]
    /\ UNCHANGED <<queueVars, search, leaseVars, lostVars, thread>>

StartCancel(r) ==
    /\ Waits(r) /\ removal[r] = "none"
    /\ Spend("removals")
    /\ removal' = [removal EXCEPT ![r] = "zrem"]
    /\ UNCHANGED <<queueVars, rideVars, leaseVars, lostVars, thread>>

\* CancelRideCommand cancels the ride or refuses (no refund, for instance).
DecideCancel(r) ==
    /\ removal[r] = "decide"
    /\ removal' = [removal EXCEPT ![r] = "done"]
    /\ \/ state' = [state EXCEPT ![r] = "gone"]
       \/ UNCHANGED state
    /\ UNCHANGED <<queueVars, search, leaseVars, lostVars, thread, budget>>

\* dequeueRide: ZREM, HDEL and the two calls of refreshRegionActivity.
RemoveStep(r) ==
    /\ \/ /\ removal[r] = "zrem"
          /\ pending' = pending \ {r}
          /\ removal' = [removal EXCEPT ![r] = "hdel"]
          /\ UNCHANGED <<active, index>>
       \/ /\ removal[r] = "hdel"
          /\ active' = active \ {r}
          /\ removal' = [removal EXCEPT ![r] = "count"]
          /\ UNCHANGED <<pending, index>>
       \/ /\ removal[r] = "count"
          /\ removal' = [removal EXCEPT ![r] =
                 IF pending \cap In(RegionOf[r]) = {} THEN "srem" ELSE "sadd"]
          /\ UNCHANGED queueVars
       \/ /\ removal[r] \in {"sadd", "srem"}
          /\ index' = IF removal[r] = "sadd" THEN index \cup {RegionOf[r]}
                                             ELSE index \ {RegionOf[r]}
          /\ removal' = [removal EXCEPT ![r] =
                 IF state[r] = "gone" THEN "done" ELSE "decide"]
          /\ UNCHANGED <<pending, active>>
    /\ UNCHANGED <<rideVars, leaseVars, lostVars, thread, budget>>

\* The process that removes the ride dies, as each removal may.
AbandonRemoval(r) ==
    /\ removal[r] \notin {"none", "done"}
    /\ removal' = [removal EXCEPT ![r] = "done"]
    /\ UNCHANGED <<queueVars, rideVars, leaseVars, lostVars, thread, budget>>

-----------------------------------------------------------------------------
(* The leader lease.                                                        *)

\* The key of a dead or doubting owner runs out; that of a live one only
\* when its process was paused past the TTL.
LeaseExpires ==
    /\ lease # None
    /\ \/ lease \notin held /\ UNCHANGED budget
       \/ lease \in held /\ Fault
    /\ lease' = None
    /\ UNCHANGED <<queueVars, rideVars, held, lostVars, thread, removal>>

\* The renewal timer finds another token; an error of Redis counts as that.
RenewFails(p) ==
    /\ p \in held
    /\ \/ lease # p /\ UNCHANGED budget
       \/ lease = p /\ Fault
    /\ held' = held \ {p}
    /\ UNCHANGED <<queueVars, rideVars, lease, lostVars, thread, removal>>

\* stop(): the lease is given back, a cycle under way goes on to its guard.
Release(p) ==
    /\ p \in held /\ Fault
    /\ held' = held \ {p}
    /\ lease' = IF lease = p THEN None ELSE lease
    /\ UNCHANGED <<queueVars, rideVars, lostVars, thread, removal>>

Visit(t, gs) ==
    thread' = [thread EXCEPT ![t] =
        IF gs = {} THEN Idle ELSE [Idle EXCEPT !.at = "guard", !.todo = gs]]

\* runProcessingCycle: a replica that believes it leads asks Redis, another
\* one tries SET NX.
Lead(p) ==
    /\ At(Worker(p), "idle")
    /\ lease = IF p \in held THEN p ELSE None
    /\ lease' = p /\ held' = held \cup {p}

\* It does not lead: the next cycle tries again.
Follow(p) ==
    /\ At(Worker(p), "idle") /\ p \in held /\ lease # p
    /\ held' = held \ {p}
    /\ UNCHANGED <<queueVars, rideVars, lease, lostVars, thread, removal, budget>>

\* The leader takes the regions of getActiveRegions from the index (the
\* regions it cached for two seconds are those of a cycle that began then).
Visits(p) ==
    /\ Lead(p)
    /\ Visit(Worker(p), index)
    /\ UNCHANGED <<queueVars, rideVars, lostVars, removal, budget>>

\* A defect: the scan looks for the wrong keys.
ReconcileNothing(p) ==
    /\ Lead(p)
    /\ index = {}
    /\ thread' = [thread EXCEPT ![Worker(p)] = [Idle EXCEPT !.at = "heal"]]
    /\ UNCHANGED <<queueVars, rideVars, lostVars, removal, budget>>

\* An empty index, when the interval for it has passed: the regions of the
\* keyspace, which Heal then adds to the index.
Reconcile(p) ==
    /\ Lead(p)
    /\ index = {}
    /\ thread' = [thread EXCEPT ![Worker(p)] =
           [Idle EXCEPT !.at = "heal", !.todo = {RegionOf[r] : r \in pending}]]
    /\ UNCHANGED <<queueVars, rideVars, lostVars, removal, budget>>

Heal(p) ==
    LET t == Worker(p) IN
    /\ At(t, "heal")
    /\ index' = index \cup thread[t].todo
    /\ Visit(t, thread[t].todo)
    /\ UNCHANGED <<pending, active, rideVars, leaseVars, lostVars, removal, budget>>

\* leadershipGuard before each region: the cycle ends once the lease is lost.
Guard(p) ==
    LET t == Worker(p) IN
    /\ At(t, "guard")
    /\ \/ /\ p \in held /\ lease = p /\ UNCHANGED held
          /\ \E g \in thread[t].todo :
                 thread' = [thread EXCEPT ![t] =
                     [Idle EXCEPT !.at = "fetch", !.region = g, !.todo = thread[t].todo \ {g}]]
       \/ /\ ~(p \in held /\ lease = p)
          /\ held' = held \ {p} /\ Rest(t)
    /\ UNCHANGED <<queueVars, rideVars, lease, lostVars, removal, budget>>

-----------------------------------------------------------------------------
(* Claims.                                                                  *)

\* sendNextRideToDriver, for a driver in region g, when something is pending.
AskNext(p, g) ==
    LET t == <<p, "driver">> IN
    /\ At(t, "idle") /\ pending \cap In(g) # {}
    /\ Spend("requests")
    /\ thread' = [thread EXCEPT ![t] = [Idle EXCEPT !.at = "fetch", !.region = g]]
    /\ UNCHANGED <<queueVars, rideVars, leaseVars, lostVars, removal>>

\* getPendingRides.
Fetch(t) ==
    /\ At(t, "fetch")
    /\ LET rs == pending \cap In(thread[t].region) IN
       thread' = [thread EXCEPT ![t] =
           [thread[t] EXCEPT !.batch = rs, !.at = IF rs = {} THEN "count" ELSE "claim"]]
    /\ UNCHANGED <<queueVars, rideVars, leaseVars, lostVars, removal, budget>>

\* CLAIM_PENDING_RIDE_SCRIPT on one ride of the batch.
Claims(r) == r \in pending /\ Waits(r)

\* A defect: the ride stays in the pending queue.
ClaimScriptKeeping(r) ==
    /\ UNCHANGED pending
    /\ active' = IF Claims(r) THEN active \cup {r} ELSE active

\* A defect: the ride is not put into the active queue.
ClaimScriptForgetting(r) ==
    /\ pending' = pending \ {r}
    /\ UNCHANGED active

ClaimScript(r) ==
    \/ /\ r \notin pending
       /\ UNCHANGED <<pending, active>>
    \/ /\ r \in pending /\ ~Claims(r)
       /\ pending' = pending \ {r}
       /\ active' = active \ {r}
    \/ /\ Claims(r)
       /\ pending' = pending \ {r}
       /\ active' = active \cup {r}

\* moveToActive; the reply of the script may be lost.
Claim(t, r) ==
    /\ At(t, "claim") /\ r \in thread[t].batch
    /\ ClaimScript(r)
    /\ \E heard \in BOOLEAN :
        /\ IF heard \/ ~Claims(r) THEN UNCHANGED <<dropped, budget>>
                                  ELSE Fault /\ dropped' = dropped \cup {r}
        /\ thread' = [thread EXCEPT ![t] = [thread[t] EXCEPT
               !.batch = thread[t].batch \ {r},
               !.got = thread[t].got \cup {x \in {r} : heard /\ Claims(r)},
               !.at = IF thread[t].batch = {r} THEN "count" ELSE "claim"]]
    /\ UNCHANGED <<index, rideVars, leaseVars, unqueued, removal>>

\* refreshRegionActivity: ZCARD, and then SADD or SREM; errors are logged.
Count(t) ==
    /\ At(t, "count")
    /\ Goto(t, IF pending \cap In(thread[t].region) = {} THEN "srem" ELSE "sadd")
    /\ UNCHANGED <<queueVars, rideVars, leaseVars, lostVars, removal, budget>>

Refresh(t) ==
    /\ thread[t].at \in {"sadd", "srem"}
    /\ \/ UNCHANGED index /\ Fault
       \/ UNCHANGED budget /\ At(t, "sadd") /\ index' = index \cup {thread[t].region}
       \/ UNCHANGED budget /\ At(t, "srem") /\ index' = index \ {thread[t].region}
    /\ Goto(t, IF IsWorker(t) THEN "drain" ELSE "offer")
    /\ UNCHANGED <<pending, active, rideVars, leaseVars, lostVars, removal>>

-----------------------------------------------------------------------------
(* Searches.                                                                *)

\* startGradualSearch starts a search for a ride that still waits, is its
\* customer's current one and has no search yet.
Searchable(r) == state[r] = "open" /\ r \notin search

\* triggerDispatchAfterPayment, of a booking created as paid for instance, and
\* the listener of ride.requested: no claim, whatever queue the ride is in.
Dispatch(r) ==
    /\ Searchable(r) /\ Spend("dispatches")
    /\ search' = search \cup {r}
    /\ UNCHANGED <<queueVars, state, leaseVars, lostVars, thread, removal>>

LetGo(t, r) == thread' = [thread EXCEPT ![t].got = thread[t].got \ {r}]

LetGoOfBatch(t, s) ==
    thread' = [thread EXCEPT ![t] = [thread[t] EXCEPT
        !.at = s, !.batch = {}, !.got = thread[t].got \ thread[t].batch]]

\* A defect: an error in one ride ends the batch.
DrainOne(t) ==
    /\ At(t, "drain")
    /\ \/ thread[t].got = {} /\ UNCHANGED search
       \/ \E r \in thread[t].got : search' = search \cup {x \in {r} : Searchable(x)}
    /\ Visit(t, thread[t].todo)
    /\ UNCHANGED <<queueVars, state, leaseVars, lostVars, removal, budget>>

\* The worker goes through the rides it claimed, even when the lease has been
\* lost meanwhile, and starts a search for each that can have one.  A ride of
\* a customer who has another booking is taken out of the queue; one whose
\* data are incomplete, or in whose handling something fails, is skipped.
Drain(t) ==
    /\ At(t, "drain")
    /\ \/ /\ thread[t].got = {}
          /\ Visit(t, thread[t].todo)
          /\ UNCHANGED <<search, dropped, budget>>
       \/ \E r \in thread[t].got :
           \/ /\ state[r] # "stale"
              /\ search' = search \cup {x \in {r} : Searchable(x)}
              /\ LetGo(t, r)
              /\ UNCHANGED <<dropped, budget>>
           \/ /\ state[r] = "stale"
              /\ thread' = [thread EXCEPT ![t].at = "unqueue", ![t].batch = {r}]
              /\ UNCHANGED <<search, dropped, budget>>
           \/ /\ Fault
              /\ dropped' = dropped \cup {r}
              /\ LetGo(t, r)
              /\ UNCHANGED search
    /\ UNCHANGED <<queueVars, state, leaseVars, unqueued, removal>>

\* ZREM and HDEL of dequeueRide, which logs an error and goes on; of a claimed
\* ride ZREM finds nothing (ClaimedOnce).  The index of the region follows.
Unqueue(t) ==
    /\ At(t, "unqueue")
    /\ \/ /\ pending' = pending \ thread[t].batch
          /\ active' = active \ thread[t].batch
          /\ unqueued' = unqueued \cup thread[t].batch
          /\ LetGoOfBatch(t, "count")
          /\ UNCHANGED dropped
       \/ /\ dropped' = dropped \cup thread[t].batch
          /\ LetGoOfBatch(t, "drain")
          /\ UNCHANGED <<pending, active, unqueued>>
    /\ UNCHANGED <<index, rideVars, leaseVars, removal, budget>>

\* sendNextRideToDriver goes on with at most one ride: one it claimed and
\* the driver can take, or else one of the active queue of the region.
Offer(t) ==
    /\ At(t, "offer")
    /\ \/ \E r \in thread[t].got \cup (active \cap In(thread[t].region)) :
              Searchable(r) /\ search' = search \cup {r}
       \/ UNCHANGED search
    /\ Rest(t)
    /\ UNCHANGED <<queueVars, state, leaseVars, lostVars, removal, budget>>

Step(t) ==
    \/ Fetch(t)
    \/ \E r \in Rides : Claim(t, r)
    \/ Count(t)
    \/ Refresh(t)
    \/ Drain(t)
    \/ Unqueue(t)
    \/ Offer(t)

\* A replica dies and comes back with a new token and no memory.
Crash(p) ==
    /\ Fault
    /\ thread' = [t \in Threads |-> IF t[1] = p THEN Idle ELSE thread[t]]
    /\ dropped' = dropped \cup UNION {thread[t].got : t \in {u \in Threads : u[1] = p}}
    /\ held' = held \ {p}
    /\ lease' = IF lease = p THEN Dead ELSE lease
    /\ UNCHANGED <<queueVars, rideVars, unqueued, removal>>

Cycle(p) == Visits(p) \/ Follow(p) \/ Guard(p) \/ Heal(p) \/ Step(Worker(p))

Request(p) == Step(<<p, "driver">>)

Next ==
    \/ \E r \in Rides : \/ Enqueue(r) \/ Outdate(r) \/ CurrentAgain(r) \/ Dispatch(r)
                        \/ EndRide(r) \/ StartCancel(r) \/ DecideCancel(r)
                        \/ RemoveStep(r) \/ AbandonRemoval(r)
    \/ \E p \in Replicas : \/ Cycle(p) \/ Request(p) \/ Reconcile(p)
                           \/ RenewFails(p) \/ Release(p) \/ Crash(p)
                           \/ \E g \in Regions : AskNext(p, g)
    \/ LeaseExpires

Spec == Init /\ [][Next]_vars

\* The interval of the worker, the reconciliation clock and the TTL of the
\* lease keep running.  Nothing obliges passengers, drivers, their requests or
\* a removal that was begun to go on.
Fairness ==
    /\ \A p \in Replicas : WF_vars(Cycle(p)) /\ SF_vars(Reconcile(p))
    /\ WF_vars(LeaseExpires /\ UNCHANGED budget)

FairSpec == Spec /\ Fairness

-----------------------------------------------------------------------------
(* Properties.                                                              *)

TypeOK ==
    /\ state \in [Rides -> {"none", "open", "stale", "gone"}]
    /\ pending \subseteq Rides /\ active \subseteq Rides /\ search \subseteq Rides
    /\ index \subseteq Regions
    /\ lease \in Replicas \cup {None, Dead} /\ held \subseteq Replicas
    /\ thread \in [Threads ->
           [at : {"idle", "heal", "guard", "fetch", "claim", "count", "sadd", "srem",
                  "drain", "unqueue", "offer"},
            todo : SUBSET Regions, region : Regions \cup {None},
            batch : SUBSET Rides, got : SUBSET Rides]]
    /\ removal \in [Rides -> {"none", "zrem", "hdel", "count", "sadd", "srem", "decide", "done"}]
    /\ dropped \subseteq Rides /\ unqueued \subseteq Rides
    /\ budget \in [removals : Nat, requests : Nat, dispatches : Nat, faults : Nat]

\* No ride is claimed twice, although two replicas may take each other for
\* dead and drivers' requests claim without a lease: two calls never hold the
\* same claim, and what was claimed is not offered to be claimed again.  A ride
\* that a dispatch searches may still be pending.
ClaimedOnce ==
    /\ \A t, u \in Threads : t # u => thread[t].got \cap thread[u].got = {}
    /\ \A t \in Threads : thread[t].got \cap pending = {}
    /\ pending \cap (active \cup dropped) = {}

\* A ride that waits for a search can be found, by a worker in the pending
\* queue or by the next free driver in the active one, whatever was claimed,
\* skipped, crashed or dequeued for other rides.  The exceptions are its own
\* dequeuing, for a cancellation (which may have been refused afterwards) or
\* while its customer had another booking, and a ZADD that failed.
WaitingRideIsFindable ==
    \A r \in Rides :
        Searchable(r) /\ removal[r] = "none" /\ r \notin unqueued
            => r \in pending \cup active

\* A pending ride is claimed or removed in the end, whatever happens to the
\* region index and to the leader.
QueuedRideIsTaken == \A r \in Rides : r \in pending ~> r \notin pending

Resolved(r) == r \in search \/ state[r] = "gone" \/ r \in dropped \/ r \in unqueued

\* A worker lets go of a ride it claimed only when the ride is searched, is
\* gone, was dequeued for another booking of the customer, or is itself the one
\* an error or the death of the worker hit: neither a lost lease, nor the error
\* of another ride, nor the next region makes it forget the rest of its batch.
WorkerKeepsItsClaims ==
    [][\A p \in Replicas : \A r \in Rides :
          r \in thread[Worker(p)].got /\ r \notin thread'[Worker(p)].got
              => Resolved(r)']_vars

\* So what a worker claimed gets its search or one of those outcomes, even if
\* the worker loses the lease and other rides of the batch fail.
ClaimedBatchIsDrained ==
    \A r \in Rides : (\E p \in Replicas : r \in thread[Worker(p)].got) ~> Resolved(r)

=============================================================================
