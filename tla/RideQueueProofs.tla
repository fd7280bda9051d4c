--------------------------- MODULE RideQueueProofs ---------------------------
(***************************************************************************)
(* Proofs about RideQueue, for any rides, regions, replicas and bounds.     *)
(***************************************************************************)
EXTENDS RideQueue, TLAPS

\* Type correctness, with what the region of a busy call is.
Typed ==
    /\ TypeOK
    /\ \A t \in Threads : thread[t].at \notin {"idle", "heal", "guard"}
           => thread[t].region \in Regions

LEMMA TypedInit == Init => Typed
BY RegionAssumption, BudgetAssumption DEF Init, Typed, TypeOK, Idle, Threads, At

\* The set of thread records, and the updates that stay within it.
Records ==
    [at : {"idle", "heal", "guard", "fetch", "claim", "count", "sadd", "srem",
           "drain", "unqueue", "offer"},
     todo : SUBSET Regions, region : Regions \cup {None},
     batch : SUBSET Rides, got : SUBSET Rides]

LEMMA SpendTyped ==
    ASSUME TypeOK, NEW k \in {"removals", "requests", "dispatches", "faults"}, Spend(k)
    PROVE  budget' \in [removals : Nat, requests : Nat, dispatches : Nat, faults : Nat]
BY DEF TypeOK, Spend

LEMMA IdleRecord == Idle \in Records
BY DEF Idle, Records

\* Visit makes a record of a set of regions.
LEMMA VisitTyped ==
    ASSUME TypeOK, NEW t \in Threads, NEW gs \in SUBSET Regions, Visit(t, gs)
    PROVE  /\ thread' \in [Threads -> Records]
           /\ \A u \in Threads : u # t => thread'[u] = thread[u]
           /\ thread'[t].at \in {"idle", "guard"} /\ thread'[t].got = {}
<1>1. thread \in [Threads -> Records]
    BY DEF TypeOK, Records
<1>2. [Idle EXCEPT !.at = "guard", !.todo = gs] \in Records
    BY DEF Idle, Records
<1>3. [Idle EXCEPT !.at = "guard", !.todo = gs].at = "guard"
      /\ [Idle EXCEPT !.at = "guard", !.todo = gs].got = {}
    BY DEF Idle
<1>4. Idle.at = "idle" /\ Idle.got = {}
    BY DEF Idle
<1>. QED
    BY <1>1, <1>2, <1>3, <1>4, IdleRecord DEF Visit

\* The steps of the two kinds of calls, with what they do to their thread.
Moves(t) ==
    /\ \A u \in Threads : u # t => thread'[u] = thread[u]
    /\ thread' \in [Threads -> Records]
    /\ thread'[t].region \in Regions \/ thread'[t].at \in {"idle", "guard", "heal"}

LEMMA CycleMoves ==
    ASSUME Typed, NEW p \in Replicas,
           Visits(p) \/ Follow(p) \/ Guard(p) \/ Heal(p) \/ Reconcile(p)
    PROVE  \/ UNCHANGED thread
           \/ /\ Moves(Worker(p))
              /\ thread'[Worker(p)].got = {}
              /\ thread'[Worker(p)].at \in {"idle", "heal", "guard", "fetch"}
<1>1. Worker(p) \in Threads
    BY DEF Worker, Threads
<1>2. thread \in [Threads -> Records]
    BY DEF Typed, TypeOK, Records
<1>3. CASE Visits(p)
    BY <1>1, <1>3, VisitTyped DEF Visits, Moves, Typed, TypeOK
<1>4. CASE Follow(p)
    BY <1>4 DEF Follow
<1>5. CASE Guard(p)
    <2>1. CASE Rest(Worker(p))
        BY <1>1, <1>2, <2>1, IdleRecord DEF Rest, Moves, Idle
    <2>2. ASSUME NEW g \in thread[Worker(p)].todo,
                 thread' = [thread EXCEPT ![Worker(p)] =
                     [Idle EXCEPT !.at = "fetch", !.region = g,
                                  !.todo = thread[Worker(p)].todo \ {g}]]
          PROVE  Moves(Worker(p)) /\ thread'[Worker(p)].got = {} /\ thread'[Worker(p)].at = "fetch"
        <3>1. thread[Worker(p)].todo \in SUBSET Regions
            BY <1>1, <1>2 DEF Records
        <3>2. [Idle EXCEPT !.at = "fetch", !.region = g,
                           !.todo = thread[Worker(p)].todo \ {g}] \in Records
            BY <2>2, <3>1 DEF Idle, Records
        <3>3. thread'[Worker(p)].region = g /\ thread'[Worker(p)].got = {}
              /\ thread'[Worker(p)].at = "fetch"
            BY <1>1, <1>2, <2>2 DEF Idle
        <3>. QED
            BY <1>1, <1>2, <2>2, <3>1, <3>2, <3>3 DEF Moves
    <2>. QED
        BY <1>5, <2>1, <2>2 DEF Guard
<1>6. CASE Heal(p)
    <2>1. thread[Worker(p)].todo \in SUBSET Regions
        BY <1>1, <1>2 DEF Records
    <2>. QED
        BY <1>1, <1>6, <2>1, VisitTyped DEF Heal, Moves, Typed
<1>7. CASE Reconcile(p)
    <2>1. {RegionOf[r] : r \in pending} \in SUBSET Regions
        BY RegionAssumption DEF Typed, TypeOK
    <2>2. [Idle EXCEPT !.at = "heal", !.todo = {RegionOf[r] : r \in pending}] \in Records
        BY <2>1 DEF Idle, Records
    <2>3. thread'[Worker(p)].at = "heal" /\ thread'[Worker(p)].got = {}
        BY <1>1, <1>2, <1>7 DEF Reconcile, Idle
    <2>. QED
        BY <1>1, <1>2, <1>7, <2>2, <2>3 DEF Reconcile, Moves
<1>. QED
    BY <1>3, <1>4, <1>5, <1>6, <1>7

LEMMA StepMoves ==
    ASSUME Typed, NEW t \in Threads, Step(t)
    PROVE  Moves(t)
<1>1. thread \in [Threads -> Records] /\ thread[t] \in Records
    BY DEF Typed, TypeOK, Records
<1>2. CASE Fetch(t)
    <2>. DEFINE rs == pending \cap In(thread[t].region)
                new == [thread[t] EXCEPT !.batch = rs,
                                         !.at = IF rs = {} THEN "count" ELSE "claim"]
    <2>1. rs \in SUBSET Rides
        BY DEF Typed, TypeOK
    <2>2. new \in Records /\ new.region = thread[t].region
        BY <1>1, <2>1 DEF Records
    <2>. QED
        BY <1>1, <1>2, <2>2 DEF Fetch, Moves, Typed, At
<1>3. ASSUME NEW r \in Rides, Claim(t, r) PROVE Moves(t)
    <2>1. PICK heard \in BOOLEAN :
              thread' = [thread EXCEPT ![t] = [thread[t] EXCEPT
                  !.batch = thread[t].batch \ {r},
                  !.got = thread[t].got \cup {x \in {r} : heard /\ Claims(r)},
                  !.at = IF thread[t].batch = {r} THEN "count" ELSE "claim"]]
        BY <1>3 DEF Claim
    <2>. DEFINE b == thread[t].batch \ {r}
                c == thread[t].got \cup {x \in {r} : heard /\ Claims(r)}
                d == IF thread[t].batch = {r} THEN "count" ELSE "claim"
    <2>2. b \in SUBSET Rides /\ c \in SUBSET Rides /\ d \in {"count", "claim"}
        BY <1>1 DEF Records
    <2>3. thread' = [thread EXCEPT ![t] = [thread[t] EXCEPT !.batch = b, !.got = c, !.at = d]]
        BY <2>1
    <2>. HIDE DEF b, c, d
    <2>4. /\ [thread[t] EXCEPT !.batch = b, !.got = c, !.at = d] \in Records
          /\ [thread[t] EXCEPT !.batch = b, !.got = c, !.at = d].region = thread[t].region
        BY <1>1, <2>2 DEF Records
    <2>. QED
        BY <1>1, <1>3, <2>3, <2>4 DEF Moves, Typed, At, Claim
<1>4. CASE Count(t)
    <2>1. \E a \in {"sadd", "srem"} : Goto(t, a)
        BY <1>4 DEF Count
    <2>. QED
        BY <1>1, <1>4, <2>1 DEF Count, Goto, Moves, Typed, At, Records
<1>5. CASE Refresh(t)
    <2>1. \E a \in {"drain", "offer"} : Goto(t, a)
        BY <1>5 DEF Refresh
    <2>. QED
        BY <1>1, <1>5, <2>1 DEF Refresh, Goto, Moves, Typed, Records
<1>6. CASE Drain(t)
    <2>1. CASE Visit(t, thread[t].todo)
        BY <1>1, <2>1, VisitTyped DEF Moves, Typed, Records
    <2>2. ASSUME NEW r \in thread[t].got, LetGo(t, r) PROVE Moves(t)
        BY <1>1, <1>6, <2>2 DEF LetGo, Moves, Typed, Records, Drain, At
    <2>3. ASSUME NEW r \in thread[t].got,
                 thread' = [thread EXCEPT ![t].at = "unqueue", ![t].batch = {r}]
          PROVE  Moves(t)
        BY <1>1, <1>6, <2>3 DEF Moves, Typed, Records, Drain, At
    <2>. QED
        BY <1>6, <2>1, <2>2, <2>3 DEF Drain
<1>8. CASE Unqueue(t)
    <2>1. PICK a \in {"count", "drain"} : LetGoOfBatch(t, a)
        BY <1>8 DEF Unqueue
    <2>. DEFINE new == [thread[t] EXCEPT !.at = a, !.batch = {}, !.got = thread[t].got \ thread[t].batch]
    <2>2. new \in Records /\ new.region = thread[t].region
        BY <1>1 DEF Records
    <2>. QED
        BY <1>1, <1>8, <2>1, <2>2 DEF Unqueue, LetGoOfBatch, Moves, Typed, At
<1>7. CASE Offer(t)
    BY <1>1, <1>7, IdleRecord DEF Offer, Rest, Moves, Idle
<1>. QED
    BY <1>2, <1>3, <1>4, <1>5, <1>6, <1>7, <1>8 DEF Step

LEMMA MovesTyped ==
    ASSUME Typed, NEW t \in Threads, Moves(t)
    PROVE  /\ thread' \in [Threads -> Records]
           /\ \A u \in Threads :
                  thread'[u].at \notin {"idle", "heal", "guard"}
                      => thread'[u].region \in Regions
BY DEF Typed, Moves, At

LEMMA TypedStep == Typed /\ [Next]_vars => Typed'
<1>. SUFFICES ASSUME Typed, [Next]_vars PROVE Typed'
    OBVIOUS
<1>. USE DEF queueVars, leaseVars, rideVars, lostVars
<1>0. thread \in [Threads -> Records]
    BY DEF Typed, TypeOK, Records
<1>1. CASE UNCHANGED vars
    BY <1>1 DEF vars, Typed, TypeOK, At
<1>2. ASSUME NEW r \in Rides,
             \/ Enqueue(r) \/ Outdate(r) \/ CurrentAgain(r) \/ Dispatch(r)
             \/ EndRide(r) \/ StartCancel(r)
             \/ DecideCancel(r) \/ RemoveStep(r) \/ AbandonRemoval(r)
      PROVE  Typed'
    <2>0. RegionOf[r] \in Regions
        BY RegionAssumption
    <2>1. CASE Enqueue(r)
        BY <2>0, <2>1, SpendTyped DEF Enqueue, Typed, TypeOK, At, Fault
    <2>2. CASE EndRide(r)
        BY <2>2, SpendTyped DEF EndRide, Typed, TypeOK, At
    <2>3. CASE StartCancel(r)
        BY <2>3, SpendTyped DEF StartCancel, Typed, TypeOK, At
    <2>4. CASE DecideCancel(r)
        BY <2>4 DEF DecideCancel, Typed, TypeOK, At
    <2>5. CASE RemoveStep(r)
        BY <2>0, <2>5 DEF RemoveStep, Typed, TypeOK, At
    <2>6. CASE AbandonRemoval(r)
        BY <2>6 DEF AbandonRemoval, Typed, TypeOK, At
    <2>7. CASE Outdate(r)
        BY <2>7, SpendTyped DEF Outdate, Typed, TypeOK, At, Fault
    <2>8. CASE CurrentAgain(r)
        BY <2>8 DEF CurrentAgain, Typed, TypeOK, At
    <2>9. CASE Dispatch(r)
        BY <2>9, SpendTyped DEF Dispatch, Typed, TypeOK, At
    <2>. QED
        BY <1>2, <2>1, <2>2, <2>3, <2>4, <2>5, <2>6, <2>7, <2>8, <2>9
<1>3. ASSUME NEW p \in Replicas,
             Visits(p) \/ Follow(p) \/ Guard(p) \/ Heal(p) \/ Reconcile(p)
      PROVE  Typed'
    <2>1. Worker(p) \in Threads
        BY DEF Worker, Threads
    <2>2. /\ thread' \in [Threads -> Records]
          /\ \A u \in Threads :
                 thread'[u].at \notin {"idle", "heal", "guard"}
                     => thread'[u].region \in Regions
        BY <1>0, <1>3, <2>1, CycleMoves, MovesTyped DEF Typed, At
    <2>3. UNCHANGED <<state, pending, active, search, removal, lostVars, budget>>
        BY <1>3 DEF Visits, Follow, Guard, Heal, Reconcile
    <2>4. lease' \in Replicas \cup {None, Dead} /\ held' \subseteq Replicas
        BY <1>3 DEF Visits, Follow, Guard, Heal, Reconcile, Lead, Typed, TypeOK
    <2>5. index' \subseteq Regions
        BY <1>0, <1>3, <2>1 DEF Visits, Follow, Guard, Heal, Reconcile, Typed, TypeOK, Records
    <2>. QED
        BY <2>2, <2>3, <2>4, <2>5 DEF Typed, TypeOK, Records, At
<1>4. ASSUME NEW t \in Threads, Step(t) PROVE Typed'
    <2>1. /\ thread' \in [Threads -> Records]
          /\ \A u \in Threads :
                 thread'[u].at \notin {"idle", "heal", "guard"}
                     => thread'[u].region \in Regions
        BY <1>4, StepMoves, MovesTyped
    <2>2. UNCHANGED <<state, lease, held, removal>>
        BY <1>4 DEF Step, Fetch, Claim, Count, Refresh, Drain, Unqueue, Offer
    <2>3. pending' \subseteq Rides /\ active' \subseteq Rides
        BY <1>4 DEF Step, Fetch, Claim, ClaimScript, Count, Refresh, Drain, Unqueue, Offer, Typed, TypeOK
    <2>4. search' \subseteq Rides
        <3>1. thread[t].got \in SUBSET Rides
            BY <1>0, <1>4 DEF Records
        <3>2. CASE Drain(t)
            BY <3>1, <3>2 DEF Drain, Typed, TypeOK
        <3>3. CASE Offer(t)
            BY <3>1, <3>3 DEF Offer, Typed, TypeOK
        <3>. QED
            BY <1>4, <3>2, <3>3 DEF Step, Fetch, Claim, Count, Refresh, Unqueue, Typed, TypeOK
    <2>5. dropped' \subseteq Rides /\ unqueued' \subseteq Rides
        <3>1. thread[t].got \in SUBSET Rides /\ thread[t].batch \in SUBSET Rides
            BY <1>0, <1>4 DEF Records
        <3>. QED
            BY <1>4, <3>1 DEF Step, Fetch, Claim, Count, Refresh, Drain, Unqueue, Offer, Typed, TypeOK
    <2>6. budget' \in [removals : Nat, requests : Nat, dispatches : Nat, faults : Nat]
        BY <1>4, SpendTyped DEF Step, Fetch, Claim, Count, Refresh, Drain, Unqueue, Offer, Typed, TypeOK, Fault
    <2>7. index' \subseteq Regions
        BY <1>4 DEF Step, Fetch, Claim, Count, Refresh, Drain, Unqueue, Offer, Typed, TypeOK, At
    <2>. QED
        BY <2>1, <2>2, <2>3, <2>4, <2>5, <2>6, <2>7 DEF Typed, TypeOK, Records, At
<1>5. ASSUME NEW p \in Replicas, RenewFails(p) \/ Release(p) PROVE Typed'
    BY <1>5, SpendTyped DEF RenewFails, Release, Typed, TypeOK, At, Fault
<1>6. ASSUME NEW p \in Replicas, Crash(p) PROVE Typed'
    <2>1. thread' \in [Threads -> Records]
        BY <1>0, <1>6, IdleRecord DEF Crash
    <2>2. \A u \in Threads : thread'[u].at # "idle" => thread'[u] = thread[u]
        BY <1>0, <1>6 DEF Crash, Idle
    <2>3. dropped' \subseteq Rides
        BY <1>0, <1>6 DEF Crash, Typed, TypeOK, Records
    <2>4. budget' \in [removals : Nat, requests : Nat, dispatches : Nat, faults : Nat]
        BY <1>6, SpendTyped DEF Crash, Fault, Typed
    <2>. QED
        BY <1>6, <2>1, <2>2, <2>3, <2>4 DEF Crash, Typed, TypeOK, Records, At
<1>7. ASSUME NEW p \in Replicas, NEW g \in Regions, AskNext(p, g) PROVE Typed'
    <2>1. <<p, "driver">> \in Threads
        BY DEF Threads
    <2>2. [Idle EXCEPT !.at = "fetch", !.region = g] \in Records
        BY DEF Idle, Records
    <2>3. budget' \in [removals : Nat, requests : Nat, dispatches : Nat, faults : Nat]
        BY <1>7, SpendTyped DEF AskNext, Typed
    <2>4. [Idle EXCEPT !.at = "fetch", !.region = g].region = g
        BY DEF Idle
    <2>. QED
        BY <1>0, <1>7, <2>1, <2>2, <2>3, <2>4 DEF AskNext, Typed, TypeOK, Records, At
<1>8. CASE LeaseExpires
    BY <1>8, SpendTyped DEF LeaseExpires, Typed, TypeOK, At, Fault
<1>9. \A p \in Replicas : <<p, "driver">> \in Threads /\ Worker(p) \in Threads
    BY DEF Worker, Threads
<1>. QED
    BY <1>1, <1>2, <1>3, <1>4, <1>5, <1>6, <1>7, <1>8, <1>9 DEF Next, Cycle, Request

\* Every variable keeps its type: the calls of all replicas only ever count
\* regions that exist and never spend more than their bounds.
THEOREM TypeCorrect == Spec => []TypeOK
<1>1. Typed => TypeOK
    BY DEF Typed
<1>. QED
    BY <1>1, TypedInit, TypedStep, PTL DEF Spec

-----------------------------------------------------------------------------
(* Claims.  A ride that was never queued is nowhere: without that, Enqueue   *)
(* could put a ride into the pending queue that somebody has claimed.        *)

Claimed ==
    /\ Typed
    /\ ClaimedOnce
    /\ \A t \in Threads : At(t, "unqueue") => thread[t].batch \subseteq thread[t].got
    /\ \A r \in Rides : state[r] = "none" =>
           /\ r \notin pending \cup active \cup dropped
           /\ \A t \in Threads : r \notin thread[t].got

LEMMA ClaimedInit == Init => Claimed
BY TypedInit DEF Init, Claimed, ClaimedOnce, Idle, At

\* Only a claim adds to what a call holds; what a worker takes out of the
\* queue it holds.
Shrinks ==
    \A t \in Threads :
        /\ thread'[t].got \subseteq thread[t].got
        /\ thread'[t].at = "unqueue" => thread'[t].batch \subseteq thread'[t].got

LEMMA CycleShrinks ==
    ASSUME Claimed, NEW p \in Replicas,
           Visits(p) \/ Follow(p) \/ Guard(p) \/ Heal(p) \/ Reconcile(p)
    PROVE  Shrinks
BY CycleMoves DEF Claimed, Moves, Shrinks, At

LEMMA StepShrinks ==
    ASSUME Claimed, NEW t \in Threads,
           Fetch(t) \/ Count(t) \/ Refresh(t) \/ Drain(t) \/ Unqueue(t) \/ Offer(t)
    PROVE  Shrinks
<1>1. /\ thread \in [Threads -> Records] /\ thread[t] \in Records
      /\ \A u \in Threads : thread[u].at = "unqueue" => thread[u].batch \subseteq thread[u].got
    BY DEF Claimed, Typed, TypeOK, Records, At
<1>2. CASE Fetch(t)
    <2>1. PICK b \in SUBSET Rides, a \in {"count", "claim"} :
              thread' = [thread EXCEPT ![t] = [thread[t] EXCEPT !.batch = b, !.at = a]]
        BY <1>2 DEF Fetch, Claimed, Typed, TypeOK
    <2>2. /\ [thread[t] EXCEPT !.batch = b, !.at = a].got = thread[t].got
          /\ [thread[t] EXCEPT !.batch = b, !.at = a].at # "unqueue"
        BY <1>1 DEF Records
    <2>. QED
        BY <1>1, <2>1, <2>2 DEF Shrinks
<1>3. CASE Count(t)
    BY <1>1, <1>3 DEF Count, Goto, Shrinks, Records
<1>4. CASE Refresh(t)
    BY <1>1, <1>4 DEF Refresh, Goto, Shrinks, Records
<1>5. CASE Drain(t)
    <2>1. CASE Visit(t, thread[t].todo)
        BY <1>1, <2>1, VisitTyped DEF Shrinks, Claimed, Typed, Records
    <2>2. ASSUME NEW r \in thread[t].got, LetGo(t, r) PROVE Shrinks
        BY <1>1, <1>5, <2>2 DEF LetGo, Shrinks, Records, Drain, At
    <2>3. ASSUME NEW r \in thread[t].got,
                 thread' = [thread EXCEPT ![t].at = "unqueue", ![t].batch = {r}]
          PROVE  Shrinks
        BY <1>1, <2>3 DEF Shrinks, Records
    <2>. QED
        BY <1>5, <2>1, <2>2, <2>3 DEF Drain
<1>7. CASE Unqueue(t)
    <2>1. PICK a \in {"count", "drain"} : LetGoOfBatch(t, a)
        BY <1>7 DEF Unqueue
    <2>. DEFINE new == [thread[t] EXCEPT !.at = a, !.batch = {}, !.got = thread[t].got \ thread[t].batch]
    <2>2. new.at = a /\ new.got = thread[t].got \ thread[t].batch
        BY <1>1 DEF Records
    <2>. QED
        BY <1>1, <2>1, <2>2 DEF LetGoOfBatch, Shrinks
<1>6. CASE Offer(t)
    <2>1. Idle.got = {} /\ Idle.at = "idle"
        BY DEF Idle
    <2>. QED
        BY <1>1, <1>6, <2>1 DEF Offer, Rest, Shrinks
<1>. QED
    BY <1>2, <1>3, <1>4, <1>5, <1>6, <1>7

\* A step that puts nothing into the pending queue and claims nothing keeps
\* claims apart, if what it adds elsewhere was claimed before.
LEMMA QuietStep ==
    ASSUME Claimed, Typed', Shrinks, pending' \subseteq pending,
           active' \subseteq active,
           dropped' \subseteq dropped \cup UNION {thread[t].got : t \in Threads},
           \A r \in Rides : state'[r] = "none" => state[r] = "none"
    PROVE  Claimed'
<1>1. ClaimedOnce'
    BY DEF Claimed, ClaimedOnce, Shrinks
<1>2. ASSUME NEW r \in Rides, state'[r] = "none"
      PROVE  /\ r \notin pending' \cup active' \cup dropped'
             /\ \A t \in Threads : r \notin thread'[t].got
    BY <1>2 DEF Claimed, Shrinks
<1>. QED
    BY <1>1, <1>2 DEF Claimed, Shrinks, At

LEMMA ClaimStep ==
    ASSUME Claimed, Typed', NEW t \in Threads, NEW r \in Rides, Claim(t, r)
    PROVE  Claimed'
<1>1. thread \in [Threads -> Records] /\ thread[t] \in Records
    BY DEF Claimed, Typed, TypeOK, Records
<1>2. PICK heard \in BOOLEAN :
          /\ IF heard \/ ~Claims(r) THEN UNCHANGED <<dropped, budget>>
                                    ELSE Fault /\ dropped' = dropped \cup {r}
          /\ thread' = [thread EXCEPT ![t] = [thread[t] EXCEPT
                 !.batch = thread[t].batch \ {r},
                 !.got = thread[t].got \cup {x \in {r} : heard /\ Claims(r)},
                 !.at = IF thread[t].batch = {r} THEN "count" ELSE "claim"]]
    BY DEF Claim
<1>3. /\ thread'[t].got = thread[t].got \cup {x \in {r} : heard /\ Claims(r)}
      /\ thread'[t].at # "unqueue"
      /\ \A u \in Threads : u # t => thread'[u] = thread[u]
    <2>. DEFINE b == thread[t].batch \ {r}
                c == thread[t].got \cup {x \in {r} : heard /\ Claims(r)}
                d == IF thread[t].batch = {r} THEN "count" ELSE "claim"
    <2>1. thread' = [thread EXCEPT ![t] = [thread[t] EXCEPT !.batch = b, !.got = c, !.at = d]]
        BY <1>2
    <2>2. d \in {"count", "claim"}
        OBVIOUS
    <2>3. SUFFICES /\ thread'[t].got = c /\ thread'[t].at # "unqueue"
                   /\ \A u \in Threads : u # t => thread'[u] = thread[u]
        OBVIOUS
    <2>. HIDE DEF b, c, d
    <2>4. [thread[t] EXCEPT !.batch = b, !.got = c, !.at = d].got = c
          /\ [thread[t] EXCEPT !.batch = b, !.got = c, !.at = d].at = d
        BY <1>1 DEF Records
    <2>. QED
        BY <1>1, <2>1, <2>2, <2>4
<1>4. UNCHANGED <<state, search>>
    BY DEF Claim, rideVars
<1>5. CASE Claims(r)
    <2>1. pending' = pending \ {r} /\ active' = active \cup {r}
          /\ r \in pending /\ state[r] # "none"
        BY <1>5 DEF Claim, ClaimScript, Claims, Waits
    <2>2. dropped' \subseteq dropped \cup {r} /\ (heard => dropped' = dropped)
        BY <1>2
    <2>3. \A u \in Threads : thread'[u].got \subseteq thread[u].got \cup {r}
        BY <1>3
    <2>4. \A u \in Threads : u # t => r \notin thread'[u].got
        BY <1>3, <2>1 DEF Claimed, ClaimedOnce
    <2>5. ClaimedOnce'
        <3>1. ASSUME NEW u \in Threads, NEW v \in Threads, u # v
              PROVE  thread'[u].got \cap thread'[v].got = {}
            <4>1. thread[u].got \cap thread[v].got = {}
                BY <3>1 DEF Claimed, ClaimedOnce
            <4>. QED
                BY <2>3, <2>4, <3>1, <4>1
        <3>2. \A u \in Threads : thread'[u].got \cap pending' = {}
            BY <2>1, <2>3 DEF Claimed, ClaimedOnce
        <3>3. pending' \cap (active' \cup dropped') = {}
            BY <1>4, <2>1, <2>2 DEF Claimed, ClaimedOnce
        <3>. QED
            BY <3>1, <3>2, <3>3 DEF ClaimedOnce
    <2>6. \A u \in Threads : thread'[u].at = "unqueue" => thread'[u].batch \subseteq thread'[u].got
        BY <1>3 DEF Claimed, At
    <2>. QED
        BY <1>4, <2>1, <2>2, <2>3, <2>5, <2>6 DEF Claimed, At
<1>6. CASE ~Claims(r)
    <2>1. pending' \subseteq pending /\ active' \subseteq active
        BY <1>6 DEF Claim, ClaimScript, Claims
    <2>2. Shrinks /\ dropped' = dropped
        BY <1>2, <1>3, <1>6 DEF Shrinks, Claimed, At
    <2>. QED
        BY <1>4, <2>1, <2>2, QuietStep
<1>. QED
    BY <1>5, <1>6

LEMMA ClaimedStep == Claimed /\ [Next]_vars => Claimed'
<1>. SUFFICES ASSUME Claimed, [Next]_vars PROVE Claimed'
    OBVIOUS
<1>. USE DEF queueVars, leaseVars, rideVars, lostVars
<1>0. Typed /\ Typed' /\ thread \in [Threads -> Records]
    BY TypedStep DEF Claimed, Typed, TypeOK, Records
<1>a. UNCHANGED thread => Shrinks
    BY DEF Shrinks, Claimed, At
<1>1. CASE UNCHANGED vars
    BY <1>0, <1>1, <1>a, QuietStep DEF vars
<1>2. ASSUME NEW r \in Rides, Enqueue(r) PROVE Claimed'
    <2>1. PICK x \in {"open", "gone"} :
              /\ state[r] = "none" /\ state' = [state EXCEPT ![r] = x]
              /\ pending' \subseteq pending \cup {r}
              /\ UNCHANGED <<active, dropped, thread>>
        <3>1. PICK failed \in SUBSET {"hset", "zadd", "sadd"} :
                  /\ state' = [state EXCEPT ![r] = IF "hset" \in failed THEN "gone" ELSE "open"]
                  /\ pending' = pending \cup {y \in {r} : "zadd" \notin failed}
            BY <1>2 DEF Enqueue
        <3>. QED
            BY <1>2, <3>1 DEF Enqueue
    <2>2. ClaimedOnce'
        BY <2>1 DEF Claimed, ClaimedOnce
    <2>3. state \in [Rides -> {"none", "open", "stale", "gone"}]
        BY <1>0 DEF Typed, TypeOK
    <2>. QED
        BY <1>0, <1>a, <2>1, <2>2, <2>3 DEF Claimed, Shrinks, At
<1>3. ASSUME NEW r \in Rides,
             \/ Outdate(r) \/ CurrentAgain(r) \/ Dispatch(r) \/ EndRide(r) \/ StartCancel(r)
             \/ DecideCancel(r) \/ RemoveStep(r) \/ AbandonRemoval(r)
      PROVE  Claimed'
    <2>1. /\ pending' \subseteq pending /\ active' \subseteq active
          /\ UNCHANGED <<dropped, thread>>
        BY <1>3 DEF Outdate, CurrentAgain, Dispatch, EndRide, StartCancel, DecideCancel,
                    RemoveStep, AbandonRemoval
    <2>2. \A x \in Rides : state'[x] = "none" => state[x] = "none"
        BY <1>0, <1>3
        DEF Outdate, CurrentAgain, Dispatch, EndRide, StartCancel, DecideCancel, RemoveStep, AbandonRemoval, Typed, TypeOK
    <2>. QED
        BY <1>0, <1>a, <2>1, <2>2, QuietStep
<1>4. ASSUME NEW p \in Replicas,
             Visits(p) \/ Follow(p) \/ Guard(p) \/ Heal(p) \/ Reconcile(p)
      PROVE  Claimed'
    <2>1. UNCHANGED <<state, pending, active, dropped>>
        BY <1>4 DEF Visits, Follow, Guard, Heal, Reconcile
    <2>. QED
        BY <1>0, <1>4, <2>1, CycleShrinks, QuietStep
<1>5. ASSUME NEW t \in Threads, Step(t) PROVE Claimed'
    <2>1. CASE Fetch(t) \/ Count(t) \/ Refresh(t) \/ Drain(t) \/ Unqueue(t) \/ Offer(t)
        <3>1. UNCHANGED state /\ pending' \subseteq pending /\ active' \subseteq active
            BY <2>1 DEF Fetch, Count, Refresh, Drain, Unqueue, Offer
        <3>2. dropped' \subseteq dropped \cup UNION {thread[u].got : u \in Threads}
            <4>1. CASE Unqueue(t)
                BY <4>1 DEF Unqueue, Claimed
            <4>. QED
                BY <2>1, <4>1 DEF Fetch, Count, Refresh, Drain, Offer
        <3>. QED
            BY <1>0, <2>1, <3>1, <3>2, StepShrinks, QuietStep
    <2>. QED
        BY <1>0, <1>5, <2>1, ClaimStep DEF Step
<1>6. ASSUME NEW p \in Replicas, RenewFails(p) \/ Release(p) PROVE Claimed'
    BY <1>0, <1>6, <1>a, QuietStep DEF RenewFails, Release
<1>7. ASSUME NEW p \in Replicas, NEW g \in Regions, AskNext(p, g) PROVE Claimed'
    <2>1. [Idle EXCEPT !.at = "fetch", !.region = g].got = {}
        BY DEF Idle
    <2>2. Shrinks
        BY <1>0, <1>7, <2>1 DEF AskNext, Shrinks, Claimed, At, Idle
    <2>. QED
        BY <1>0, <1>7, <2>2, QuietStep DEF AskNext
<1>8. CASE LeaseExpires
    BY <1>0, <1>8, <1>a, QuietStep DEF LeaseExpires
<1>9. ASSUME NEW p \in Replicas, Crash(p) PROVE Claimed'
    <2>1. /\ UNCHANGED <<state, pending, active>>
          /\ dropped' \subseteq dropped \cup UNION {thread[t].got : t \in Threads}
        BY <1>9 DEF Crash
    <2>2. Idle.got = {} /\ Idle.at = "idle"
        BY DEF Idle
    <2>3. Shrinks
        BY <1>0, <1>9, <2>2 DEF Crash, Shrinks, Claimed, At
    <2>. QED
        BY <1>0, <2>1, <2>3, QuietStep
<1>b. \A p \in Replicas : <<p, "driver">> \in Threads /\ Worker(p) \in Threads
    BY DEF Worker, Threads
<1>. QED
    BY <1>1, <1>2, <1>3, <1>4, <1>5, <1>6, <1>7, <1>8, <1>9, <1>b DEF Next, Cycle, Request

\* No ride is claimed twice, by any number of replicas and drivers' requests,
\* whoever holds the lease and however it is lost: the exclusion of
\* CLAIM_PENDING_RIDE_SCRIPT does not rest on the leader.
THEOREM ClaimsAreExclusive == Spec => []ClaimedOnce
<1>1. Claimed => ClaimedOnce
    BY DEF Claimed
<1>. QED
    BY <1>1, ClaimedInit, ClaimedStep, PTL DEF Spec

-----------------------------------------------------------------------------
(* Waiting rides.                                                           *)

\* A ride that is not its customer's current one may become it again: it is
\* to be found as well.
Findable ==
    /\ Typed
    /\ \A r \in Rides :
           Waits(r) /\ r \notin search /\ removal[r] = "none" /\ r \notin unqueued
               => r \in pending \cup active

LEMMA FindableInit == Init => Findable
BY TypedInit DEF Init, Findable, Waits

\* A step that makes no ride wait, and that takes no waiting ride out of both
\* queues.
LEMMA CalmStep ==
    ASSUME Findable, Typed', UNCHANGED <<state, removal>>, search \subseteq search',
           unqueued \subseteq unqueued',
           \A r \in pending \cup active :
               Waits(r) => r \in pending' \cup active' \cup unqueued'
    PROVE  Findable'
BY DEF Findable, Waits

LEMMA FindableStep == Findable /\ [Next]_vars => Findable'
<1>. SUFFICES ASSUME Findable, [Next]_vars PROVE Findable'
    OBVIOUS
<1>. USE DEF queueVars, leaseVars, rideVars, lostVars
<1>0. Typed /\ Typed'
    BY TypedStep DEF Findable
<1>1. CASE UNCHANGED vars
    BY <1>0, <1>1, CalmStep DEF vars
<1>2. ASSUME NEW r \in Rides, Enqueue(r) PROVE Findable'
    <2>1. state \in [Rides -> {"none", "open", "stale", "gone"}] /\ UNCHANGED <<active, search, removal>>
        BY <1>0, <1>2 DEF Typed, TypeOK, Enqueue
    <2>2. \A x \in Rides \ {r} : state'[x] = state[x]
        BY <1>2, <2>1 DEF Enqueue
    <2>3. r \in pending' \/ r \in unqueued'
        BY <1>2 DEF Enqueue
    <2>4. pending \subseteq pending' /\ unqueued \subseteq unqueued'
        BY <1>2 DEF Enqueue
    <2>. QED
        BY <1>0, <2>1, <2>2, <2>3, <2>4 DEF Findable, Waits
<1>3. ASSUME NEW r \in Rides,
             \/ EndRide(r) \/ StartCancel(r) \/ DecideCancel(r) \/ AbandonRemoval(r)
             \/ Outdate(r) \/ CurrentAgain(r) \/ Dispatch(r)
      PROVE  Findable'
    BY <1>0, <1>3 DEF EndRide, StartCancel, DecideCancel, AbandonRemoval, Outdate, CurrentAgain,
                      Dispatch, Findable, Waits, Typed, TypeOK
<1>4. ASSUME NEW r \in Rides, RemoveStep(r) PROVE Findable'
    <2>1. removal[r] # "none" /\ removal'[r] # "none"
          /\ \A x \in Rides \ {r} : removal'[x] = removal[x]
        BY <1>0, <1>4 DEF RemoveStep, Typed, TypeOK
    <2>2. /\ UNCHANGED <<state, search, unqueued>>
          /\ \A x \in (pending \cup active) \ {r} : x \in pending' \cup active'
        BY <1>4 DEF RemoveStep
    <2>. QED
        BY <1>0, <2>1, <2>2 DEF Findable, Waits
<1>5. ASSUME NEW p \in Replicas,
             \/ Visits(p) \/ Follow(p) \/ Guard(p) \/ Heal(p) \/ Reconcile(p)
             \/ RenewFails(p) \/ Release(p) \/ Crash(p)
             \/ \E g \in Regions : AskNext(p, g)
      PROVE  Findable'
    <2>1. UNCHANGED <<state, pending, active, search, removal, unqueued>>
        BY <1>5 DEF Visits, Follow, Guard, Heal, Reconcile, RenewFails, Release, Crash, AskNext
    <2>. QED
        BY <1>0, <2>1, CalmStep
<1>6. ASSUME NEW t \in Threads, Step(t) PROVE Findable'
    <2>1. UNCHANGED <<state, removal>> /\ search \subseteq search' /\ unqueued \subseteq unqueued'
        BY <1>6 DEF Step, Fetch, Claim, Count, Refresh, Drain, Unqueue, Offer
    <2>2. \A r \in pending \cup active : Waits(r) => r \in pending' \cup active' \cup unqueued'
        <3>1. ASSUME NEW x \in Rides, Claim(t, x), NEW r \in pending \cup active, Waits(r)
              PROVE  r \in pending' \cup active'
            BY <3>1 DEF Claim, ClaimScript, Claims
        <3>2. CASE Fetch(t) \/ Count(t) \/ Refresh(t) \/ Drain(t) \/ Offer(t)
            BY <3>2 DEF Fetch, Count, Refresh, Drain, Offer
        <3>3. CASE Unqueue(t)
            BY <3>3 DEF Unqueue
        <3>. QED
            BY <1>6, <3>1, <3>2, <3>3 DEF Step
    <2>. QED
        BY <1>0, <2>1, <2>2, CalmStep
<1>7. CASE LeaseExpires
    BY <1>0, <1>7, CalmStep DEF LeaseExpires
<1>8. \A p \in Replicas : <<p, "driver">> \in Threads /\ Worker(p) \in Threads
    BY DEF Worker, Threads
<1>. QED
    BY <1>1, <1>2, <1>3, <1>4, <1>5, <1>6, <1>7, <1>8 DEF Next, Cycle, Request

\* A ride that waits for a search is in one of its queues, unless its ZADD
\* failed or it was itself dequeued: neither a claim, nor an error or a crash
\* of the worker, nor the removal of another ride loses it.
THEOREM WaitingRidesAreFindable == Spec => []WaitingRideIsFindable
<1>1. Findable => WaitingRideIsFindable
    BY DEF Findable, WaitingRideIsFindable, Searchable, Waits
<1>. QED
    BY <1>1, FindableInit, FindableStep, PTL DEF Spec

-----------------------------------------------------------------------------
(* What a worker holds.  Rides are held only between a claim and the end of *)
(* the batch, and a worker never takes the way of a driver's request, which *)
(* may let rides go.                                                        *)

Holding ==
    /\ Claimed
    /\ \A t \in Threads :
           thread[t].got # {} =>
               thread[t].at \notin {"idle", "heal", "guard", "fetch"}
    /\ \A t \in Threads : IsWorker(t) => thread[t].at # "offer"

LEMMA HoldingInit == Init => Holding
BY ClaimedInit DEF Init, Holding, Idle

\* Nothing is held where a call does not go on from a claim.
Settled(t) ==
    /\ thread'[t].got # {} =>
           thread'[t].at \notin {"idle", "heal", "guard", "fetch"}
    /\ IsWorker(t) => thread'[t].at # "offer"

LEMMA CycleSettles ==
    ASSUME Typed, NEW p \in Replicas,
           Visits(p) \/ Follow(p) \/ Guard(p) \/ Heal(p) \/ Reconcile(p)
    PROVE  UNCHANGED thread \/ (Moves(Worker(p)) /\ Settled(Worker(p)))
BY CycleMoves DEF Settled

\* The steps of a call by themselves.
LEMMA StepSettles ==
    ASSUME Holding, NEW t \in Threads, Step(t)
    PROVE  Settled(t)
<1>1. thread \in [Threads -> Records] /\ thread[t] \in Records
    BY DEF Holding, Claimed, Typed, TypeOK, Records
<1>2. CASE Fetch(t)
    <2>. DEFINE b == pending \cap In(thread[t].region)
                a == IF b = {} THEN "count" ELSE "claim"
    <2>1. /\ thread' = [thread EXCEPT ![t] = [thread[t] EXCEPT !.batch = b, !.at = a]]
          /\ a \in {"count", "claim"} /\ At(t, "fetch")
        BY <1>2 DEF Fetch
    <2>. HIDE DEF a, b
    <2>2. /\ [thread[t] EXCEPT !.batch = b, !.at = a].at = a
          /\ [thread[t] EXCEPT !.batch = b, !.at = a].got = thread[t].got
        BY <1>1 DEF Records
    <2>. QED
        BY <1>1, <2>1, <2>2 DEF Settled
<1>3. ASSUME NEW r \in Rides, Claim(t, r) PROVE Settled(t)
    <2>1. PICK heard \in BOOLEAN :
              thread' = [thread EXCEPT ![t] = [thread[t] EXCEPT
                  !.batch = thread[t].batch \ {r},
                  !.got = thread[t].got \cup {x \in {r} : heard /\ Claims(r)},
                  !.at = IF thread[t].batch = {r} THEN "count" ELSE "claim"]]
        BY <1>3 DEF Claim
    <2>. DEFINE b == thread[t].batch \ {r}
                c == thread[t].got \cup {x \in {r} : heard /\ Claims(r)}
                a == IF thread[t].batch = {r} THEN "count" ELSE "claim"
    <2>2. /\ thread' = [thread EXCEPT ![t] = [thread[t] EXCEPT !.batch = b, !.got = c, !.at = a]]
          /\ a \in {"count", "claim"}
        BY <2>1
    <2>. HIDE DEF a, b, c
    <2>3. [thread[t] EXCEPT !.batch = b, !.got = c, !.at = a].at = a
        BY <1>1 DEF Records
    <2>. QED
        BY <1>1, <2>2, <2>3 DEF Settled
<1>4. CASE Count(t)
    BY <1>1, <1>4 DEF Count, Goto, Settled, Records
<1>5. CASE Refresh(t)
    BY <1>1, <1>5 DEF Refresh, Goto, Settled, Records
<1>6. CASE Drain(t)
    <2>1. CASE Visit(t, thread[t].todo)
        BY <1>1, <2>1, VisitTyped DEF Holding, Claimed, Typed, Records, Settled
    <2>2. ASSUME NEW r \in thread[t].got, LetGo(t, r) PROVE Settled(t)
        BY <1>1, <1>6, <2>2 DEF LetGo, Drain, At, Records, Settled
    <2>3. ASSUME NEW r \in thread[t].got,
                 thread' = [thread EXCEPT ![t].at = "unqueue", ![t].batch = {r}]
          PROVE  Settled(t)
        BY <1>1, <2>3 DEF Records, Settled
    <2>. QED
        BY <1>6, <2>1, <2>2, <2>3 DEF Drain
<1>8. CASE Unqueue(t)
    <2>1. PICK a \in {"count", "drain"} : LetGoOfBatch(t, a)
        BY <1>8 DEF Unqueue
    <2>. DEFINE new == [thread[t] EXCEPT !.at = a, !.batch = {}, !.got = thread[t].got \ thread[t].batch]
    <2>2. new.at = a
        BY <1>1 DEF Records
    <2>. QED
        BY <1>1, <2>1, <2>2 DEF LetGoOfBatch, Settled
<1>7. CASE Offer(t)
    BY <1>1, <1>7 DEF Offer, Rest, Idle, Settled
<1>. QED
    BY <1>2, <1>3, <1>4, <1>5, <1>6, <1>7, <1>8 DEF Step

LEMMA HoldingStep == Holding /\ [Next]_vars => Holding'
<1>. SUFFICES ASSUME Holding, [Next]_vars PROVE Holding'
    OBVIOUS
<1>0. Claimed /\ Claimed' /\ Typed /\ thread \in [Threads -> Records]
    BY ClaimedStep DEF Holding, Claimed, Typed, TypeOK, Records
<1>1. CASE UNCHANGED thread
    BY <1>0, <1>1 DEF Holding
<1>2. ASSUME NEW t \in Threads, Moves(t), Settled(t) PROVE Holding'
    BY <1>0, <1>2 DEF Holding, Moves, Settled
<1>3. ASSUME NEW p \in Replicas,
             Visits(p) \/ Follow(p) \/ Guard(p) \/ Heal(p) \/ Reconcile(p)
      PROVE  Holding'
    <2>1. Worker(p) \in Threads
        BY DEF Worker, Threads
    <2>. QED
        BY <1>0, <1>1, <1>2, <1>3, <2>1, CycleSettles
<1>4. ASSUME NEW t \in Threads, Step(t) PROVE Holding'
    BY <1>0, <1>2, <1>4, StepMoves, StepSettles
<1>5. ASSUME NEW p \in Replicas, NEW g \in Regions, AskNext(p, g) PROVE Holding'
    <2>1. /\ [Idle EXCEPT !.at = "fetch", !.region = g].got = {}
          /\ [Idle EXCEPT !.at = "fetch", !.region = g].at = "fetch"
        BY DEF Idle
    <2>2. \A t \in Threads : t # <<p, "driver">> => thread'[t] = thread[t]
        BY <1>0, <1>5 DEF AskNext
    <2>3. <<p, "driver">> \in Threads =>
              /\ thread'[<<p, "driver">>].got = {}
              /\ thread'[<<p, "driver">>].at = "fetch"
        BY <1>0, <1>5, <2>1 DEF AskNext
    <2>. QED
        BY <1>0, <2>2, <2>3 DEF Holding
<1>6. ASSUME NEW p \in Replicas, Crash(p) PROVE Holding'
    <2>1. Idle.got = {} /\ Idle.at = "idle"
        BY DEF Idle
    <2>. QED
        BY <1>0, <1>6, <2>1 DEF Crash, Holding
<1>7. ASSUME NEW r \in Rides,
             \/ Enqueue(r) \/ Outdate(r) \/ CurrentAgain(r) \/ Dispatch(r)
             \/ EndRide(r) \/ StartCancel(r)
             \/ DecideCancel(r) \/ RemoveStep(r) \/ AbandonRemoval(r)
      PROVE  UNCHANGED thread
    BY <1>7 DEF Enqueue, Outdate, CurrentAgain, Dispatch, EndRide, StartCancel, DecideCancel, RemoveStep, AbandonRemoval
<1>8. ASSUME NEW p \in Replicas, RenewFails(p) \/ Release(p) PROVE UNCHANGED thread
    BY <1>8 DEF RenewFails, Release
<1>9. LeaseExpires \/ UNCHANGED vars => UNCHANGED thread
    BY DEF LeaseExpires, vars
<1>10. \A p \in Replicas : <<p, "driver">> \in Threads /\ Worker(p) \in Threads
    BY DEF Worker, Threads
<1>. QED
    BY <1>1, <1>3, <1>4, <1>5, <1>6, <1>7, <1>8, <1>9, <1>10 DEF Next, Cycle, Request

\* The step of a call that lets go of a ride.
LEMMA LettingGo ==
    ASSUME Holding, NEW t \in Threads, IsWorker(t), Step(t),
           NEW r \in Rides, r \in thread[t].got, r \notin thread'[t].got
    PROVE  Resolved(r)'
<1>1. thread \in [Threads -> Records] /\ thread[t] \in Records
    BY DEF Holding, Claimed, Typed, TypeOK, Records
<1>2. ~Fetch(t) /\ ~Offer(t)
    BY DEF Holding, Fetch, Offer, At
<1>3. ASSUME NEW x \in Rides, Claim(t, x) PROVE FALSE
    <2>1. PICK b, c, a : /\ thread[t].got \subseteq c
                         /\ thread' = [thread EXCEPT ![t] =
                                [thread[t] EXCEPT !.batch = b, !.got = c, !.at = a]]
        BY <1>3 DEF Claim
    <2>2. [thread[t] EXCEPT !.batch = b, !.got = c, !.at = a].got = c
        BY <1>1 DEF Records
    <2>. QED
        BY <1>1, <2>1, <2>2
<1>4. CASE Count(t) \/ Refresh(t)
    BY <1>1, <1>4 DEF Count, Refresh, Goto, Records
<1>5. CASE Drain(t)
    <2>1. PICK x \in thread[t].got :
              /\ LetGo(t, x)
              /\ \/ /\ state[x] # "stale"
                    /\ search' = search \cup {y \in {x} : Searchable(y)}
                 \/ dropped' = dropped \cup {x}
        <3>1. ASSUME NEW x \in thread[t].got,
                     thread' = [thread EXCEPT ![t].at = "unqueue", ![t].batch = {x}]
              PROVE  FALSE
            BY <1>1, <3>1 DEF Records
        <3>. QED
            BY <1>5, <3>1 DEF Drain
    <2>2. x = r
        BY <1>1, <2>1 DEF LetGo, Records
    <2>3. state[r] # "none"
        BY DEF Holding, Claimed
    <2>4. state[r] \in {"open", "stale", "gone"} /\ state' = state
        BY <1>5, <2>3 DEF Holding, Claimed, Typed, TypeOK, Drain
    <2>. QED
        BY <2>1, <2>2, <2>4 DEF Searchable, Resolved
<1>6. CASE Unqueue(t)
    <2>1. PICK a : LetGoOfBatch(t, a)
        BY <1>6 DEF Unqueue
    <2>. DEFINE new == [thread[t] EXCEPT !.at = a, !.batch = {}, !.got = thread[t].got \ thread[t].batch]
    <2>2. new.got = thread[t].got \ thread[t].batch
        BY <1>1 DEF Records
    <2>3. r \in thread[t].batch
        BY <1>1, <2>1, <2>2 DEF LetGoOfBatch
    <2>. QED
        BY <1>6, <2>3 DEF Unqueue, Resolved
<1>. QED
    BY <1>2, <1>3, <1>4, <1>5, <1>6 DEF Step

\* A worker forgets no ride it claimed, whatever happens to its lease and to the
\* rest of the batch: a ride without a search was dequeued for another booking
\* of its customer, met an error of its own, or was held by a worker that died.
THEOREM ClaimsAreKept == Spec => WorkerKeepsItsClaims
<1>. DEFINE Kept == \A p \in Replicas : \A r \in Rides :
                        r \in thread[Worker(p)].got /\ r \notin thread'[Worker(p)].got
                            => Resolved(r)'
<1>1. Holding /\ [Next]_vars => Kept
    <2>. SUFFICES ASSUME Holding, [Next]_vars, NEW p \in Replicas, NEW r \in Rides,
                         r \in thread[Worker(p)].got, r \notin thread'[Worker(p)].got
                  PROVE  Resolved(r)'
        OBVIOUS
    <2>0. /\ \A q \in Replicas : Worker(q) \in Threads /\ IsWorker(Worker(q))
          /\ \A q \in Replicas : Worker(q) # Worker(p) => q # p
          /\ \A q \in Replicas : <<q, "driver">> \in Threads /\ <<q, "driver">> # Worker(p)
          /\ Typed /\ thread \in [Threads -> Records]
        BY DEF Worker, Threads, IsWorker, Holding, Claimed, Typed, TypeOK, Records
    <2>1. ASSUME NEW t \in Threads, Step(t) PROVE Resolved(r)'
        <3>1. t = Worker(p)
            BY <2>0, <2>1, StepMoves DEF Moves
        <3>. QED
            BY <2>0, <2>1, <3>1, LettingGo
    <2>2. ASSUME NEW q \in Replicas,
                 Visits(q) \/ Follow(q) \/ Guard(q) \/ Heal(q) \/ Reconcile(q)
          PROVE  FALSE
        <3>1. thread[Worker(q)].at \in {"idle", "guard", "heal"}
            BY <2>2 DEF Visits, Follow, Guard, Heal, Reconcile, Lead, At
        <3>2. q # p
            BY <2>0, <3>1 DEF Holding
        <3>3. Worker(q) # Worker(p)
            BY <3>2 DEF Worker
        <3>. QED
            BY <2>0, <2>2, <3>3, CycleMoves DEF Moves
    <2>3. ASSUME NEW q \in Replicas, NEW g \in Regions, AskNext(q, g) PROVE FALSE
        BY <2>0, <2>3 DEF AskNext
    <2>4. ASSUME NEW q \in Replicas, Crash(q) PROVE Resolved(r)'
        <3>1. Worker(p)[1] = q
            BY <2>0, <2>4 DEF Crash
        <3>2. r \in dropped'
            BY <2>0, <2>4, <3>1 DEF Crash
        <3>. QED
            BY <3>2 DEF Resolved
    <2>5. ASSUME UNCHANGED thread PROVE FALSE
        BY <2>5
    <2>6. ASSUME NEW x \in Rides,
                 \/ Enqueue(x) \/ Outdate(x) \/ CurrentAgain(x) \/ Dispatch(x)
                 \/ EndRide(x) \/ StartCancel(x)
                 \/ DecideCancel(x) \/ RemoveStep(x) \/ AbandonRemoval(x)
          PROVE  UNCHANGED thread
        BY <2>6 DEF Enqueue, Outdate, CurrentAgain, Dispatch, EndRide, StartCancel, DecideCancel, RemoveStep, AbandonRemoval
    <2>7. ASSUME NEW q \in Replicas, RenewFails(q) \/ Release(q) PROVE UNCHANGED thread
        BY <2>7 DEF RenewFails, Release
    <2>8. LeaseExpires \/ UNCHANGED vars => UNCHANGED thread
        BY DEF LeaseExpires, vars
    <2>. QED
        BY <2>0, <2>1, <2>2, <2>3, <2>4, <2>5, <2>6, <2>7, <2>8 DEF Next, Cycle, Request
<1>2. Holding /\ [Next]_vars => [Kept]_vars
    BY <1>1
<1>. QED
    BY <1>2, HoldingInit, HoldingStep, PTL DEF Spec, WorkerKeepsItsClaims

=============================================================================
