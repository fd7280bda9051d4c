-------------------------- MODULE BillingWorkerProofs --------------------------
(***************************************************************************)
(* Proofs about BillingWorker for any rides, workers and bounds.  The first *)
(* section says what a step does to the threads; Books is the inductive     *)
(* invariant behind the money (TypeOK, what each step of the handler has    *)
(* established), Traces the one behind the events.                          *)
(***************************************************************************)
EXTENDS BillingWorker, TLAPS

ThreadState == [at : Steps, ride : Rides \cup {None}, leg : 1..MaxLegs, n : Nat]

\* The threads other than t are where they were.
Others(t) == \A u \in Threads : u # t => thread'[u] = thread[u]

-----------------------------------------------------------------------------
(* What a step does to the thread that takes it.                            *)

\* A thread that moves on keeps its ride and its counters.
LEMMA GotoMoves ==
    ASSUME TypeOK, NEW t \in Threads, NEW s \in Steps, Goto(t, s)
    PROVE  /\ thread' \in [Threads -> ThreadState]
           /\ Others(t)
           /\ thread'[t].at = s
           /\ thread'[t].ride = thread[t].ride
           /\ thread'[t].leg = thread[t].leg
           /\ thread'[t].n = thread[t].n
<1>1. thread[t] \in ThreadState
    BY DEF TypeOK, ThreadState
<1>2. [thread[t] EXCEPT !.at = s] \in ThreadState
    BY <1>1 DEF ThreadState
<1>3. thread' = [thread EXCEPT ![t] = [thread[t] EXCEPT !.at = s]]
    BY DEF Goto
<1>4. thread' \in [Threads -> ThreadState] /\ thread'[t] = [thread[t] EXCEPT !.at = s]
    BY <1>2, <1>3 DEF TypeOK, ThreadState
<1>. QED
    BY <1>1, <1>3, <1>4 DEF Others, TypeOK, ThreadState

\* A thread that is done holds no ride.
LEMMA RestMoves ==
    ASSUME TypeOK, NEW t \in Threads, Rest(t)
    PROVE  /\ thread' \in [Threads -> ThreadState]
           /\ Others(t)
           /\ thread'[t] = Idle
<1>1. Idle \in ThreadState
    BY BoundsAssumption DEF Idle, ThreadState, Steps
<1>. QED
    BY <1>1 DEF Rest, Others, TypeOK, ThreadState

\* The fields of an idle thread.
LEMMA IdleFields ==
    /\ Idle.at = "idle" /\ Idle.ride = None /\ Idle.leg = 1 /\ Idle.n = 0
    BY DEF Idle

\* A thread that starts checks its ride first.
LEMMA StartMoves ==
    ASSUME TypeOK, NEW t \in Threads, NEW r \in Rides \cup {None}, NEW k \in Nat, Start(t, r, k)
    PROVE  /\ thread' \in [Threads -> ThreadState]
           /\ Others(t)
           /\ thread'[t].at = "check" /\ thread'[t].ride = r
           /\ thread'[t].leg = 1 /\ thread'[t].n = k
<1>. DEFINE fresh == [at |-> "check", ride |-> r, leg |-> 1, n |-> k]
<1>1. fresh \in ThreadState
    BY BoundsAssumption DEF ThreadState, Steps
<1>2. thread' \in [Threads -> ThreadState] /\ thread'[t] = fresh /\ Others(t)
    BY <1>1 DEF Start, Others, TypeOK, ThreadState
<1>. QED
    BY <1>2

\* A success: to the acknowledgement, or done.
LEMMA SucceedMoves ==
    ASSUME TypeOK, NEW t \in Threads, Succeed(t)
    PROVE  /\ thread' \in [Threads -> ThreadState]
           /\ Others(t)
           /\ \/ /\ IsStream(t)
                 /\ thread'[t].at = "ack" /\ thread'[t].ride = thread[t].ride
                 /\ thread'[t].leg = thread[t].leg /\ thread'[t].n = thread[t].n
              \/ ~IsStream(t) /\ thread'[t] = Idle
<1>1. "ack" \in Steps
    BY DEF Steps
<1>2. CASE IsStream(t)
    BY <1>1, <1>2, GotoMoves DEF Succeed
<1>3. CASE ~IsStream(t)
    BY <1>3, RestMoves DEF Succeed
<1>. QED
    BY <1>2, <1>3

\* A failure: the next try, the dead letter, or the count of the sweep.
LEMMA FailureMoves ==
    ASSUME TypeOK, NEW t \in Threads, AfterFailure(t)
    PROVE  /\ thread' \in [Threads -> ThreadState]
           /\ Others(t)
           /\ thread'[t].ride = thread[t].ride
           /\ \/ ~IsStream(t) /\ thread'[t].at = "register" /\ thread'[t].n = thread[t].n
              \/ IsStream(t) /\ thread'[t].at = "check" /\ thread'[t].leg = 1
              \/ IsStream(t) /\ thread'[t].at = "dlq"
<1>1. thread[t].n \in Nat /\ thread[t].ride \in Rides \cup {None}
    BY DEF TypeOK
<1>2. "register" \in Steps /\ "dlq" \in Steps
    BY DEF Steps
<1>3. CASE ~IsStream(t) /\ Goto(t, "register")
    BY <1>2, <1>3, GotoMoves
<1>4. CASE IsStream(t) /\ Goto(t, "dlq")
    BY <1>2, <1>4, GotoMoves
<1>5. CASE IsStream(t) /\ Start(t, RideOf(t), thread[t].n + 1)
    <2>1. thread[t].n + 1 \in Nat
        BY <1>1
    <2>. QED
        BY <1>1, <1>5, <2>1, StartMoves DEF RideOf
<1>. QED
    BY <1>3, <1>4, <1>5 DEF AfterFailure

\* The next leg of the same ride.
LEMMA NextLegMoves ==
    ASSUME TypeOK, NEW t \in Threads, NextLeg(t), thread[t].leg < MaxLegs
    PROVE  /\ thread' \in [Threads -> ThreadState]
           /\ Others(t)
           /\ thread'[t].at = thread[t].at
           /\ thread'[t].ride = thread[t].ride
           /\ thread'[t].leg = thread[t].leg + 1
           /\ thread'[t].n = thread[t].n
<1>1. thread[t] \in ThreadState
    BY DEF TypeOK, ThreadState
<1>2. [thread[t] EXCEPT !.leg = thread[t].leg + 1] \in ThreadState
    BY <1>1, BoundsAssumption DEF ThreadState
<1>3. thread' = [thread EXCEPT ![t] = [thread[t] EXCEPT !.leg = thread[t].leg + 1]]
    BY DEF NextLeg
<1>4. /\ thread' \in [Threads -> ThreadState]
      /\ thread'[t] = [thread[t] EXCEPT !.leg = thread[t].leg + 1]
    BY <1>2, <1>3 DEF TypeOK, ThreadState
<1>. QED
    BY <1>1, <1>3, <1>4 DEF Others, TypeOK, ThreadState

\* A new key: the settlement, the first leg, or the result.
LEMMA BeginMoves ==
    ASSUME TypeOK, NEW t \in Threads, Begin(t)
    PROVE  /\ thread' \in [Threads -> ThreadState]
           /\ Others(t)
           /\ thread'[t].ride = thread[t].ride
           /\ thread'[t].leg = thread[t].leg
           /\ thread'[t].n = thread[t].n
           /\ \/ thread'[t].at = "ledger" /\ Posts(RideOf(t))
              \/ thread'[t].at = "credit" /\ ~Posts(RideOf(t))
              \/ thread'[t].at = "cache" /\ kind[RideOf(t)] = "review"
<1>1. "ledger" \in Steps /\ "credit" \in Steps /\ "cache" \in Steps
    BY DEF Steps
<1>2. CASE Posts(RideOf(t)) /\ Goto(t, "ledger")
    BY <1>1, <1>2, GotoMoves
<1>3. CASE kind[RideOf(t)] = "legs" /\ Goto(t, "credit")
    BY <1>1, <1>3, GotoMoves DEF Posts
<1>4. CASE kind[RideOf(t)] = "review" /\ Goto(t, "cache")
    BY <1>1, <1>4, GotoMoves
<1>. QED
    BY <1>2, <1>3, <1>4 DEF Begin

-----------------------------------------------------------------------------
(* Types, with what a thread holds besides.                                 *)

ThreadsHold ==
    \A t \in Threads :
        /\ At(t, "idle") \/ RideOf(t) \in Rides
        /\ IsStream(t) \/ thread[t].n < MaxAttempts
        /\ At(t, "register") => ~IsStream(t)
        /\ At(t, "check") \/ At(t, "cached") \/ At(t, "ledger") => thread[t].leg = 1

Typed == TypeOK /\ ThreadsHold

\* A counted fault stays within its bound.
LEMMA FaultTyped ==
    ASSUME TypeOK
    PROVE  /\ Fault => faults' \in 0..MaxFaults
           /\ UNCHANGED faults => faults' \in 0..MaxFaults
    BY BoundsAssumption DEF TypeOK, Fault

\* The initial state is typed.
LEMMA TypedInit == Init => Typed
<1>1. Idle \in ThreadState
    BY BoundsAssumption DEF Idle, ThreadState, Steps
<1>. SUFFICES ASSUME Init PROVE Typed
    OBVIOUS
<1>2. TypeOK
    BY <1>1, BoundsAssumption DEF Init, TypeOK, ThreadState
<1>3. ThreadsHold
    BY <1>1, BoundsAssumption, IdleFields DEF Init, ThreadsHold, At, RideOf, IsStream
<1>. QED
    BY <1>2, <1>3 DEF Typed

\* The commands, and the ends of the keys, move no thread.
LEMMA TypedCommands ==
    ASSUME Typed, NEW r \in Rides,
           RecordPending(r) \/ Publish(r) \/ ExpireMarker(r) \/ ExpireResult(r)
    PROVE  Typed'
<1>. USE DEF Typed
<1>1. thread' = thread /\ kind' = kind
    BY DEF RecordPending, Publish, ExpireMarker, ExpireResult
<1>2. ThreadsHold'
    BY <1>1 DEF ThreadsHold, At, RideOf, IsStream
<1>3. CASE RecordPending(r)
    <2>1. pending' \in [Rides -> 0..MaxAttempts \cup {None}] /\ faults' \in 0..MaxFaults
        BY <1>3, FaultTyped, BoundsAssumption DEF RecordPending, TypeOK
    <2>. QED
        BY <1>1, <1>2, <1>3, <2>1 DEF RecordPending, TypeOK, keyVars, bookVars
<1>4. CASE Publish(r)
    <2>1. faults' \in 0..MaxFaults
        BY <1>4, FaultTyped DEF Publish
    <2>. QED
        BY <1>1, <1>2, <1>4, <2>1 DEF Publish, TypeOK, keyVars, bookVars
<1>5. CASE ExpireMarker(r)
    BY <1>1, <1>2, <1>5 DEF ExpireMarker, TypeOK, streamVars, bookVars
<1>6. CASE ExpireResult(r)
    BY <1>1, <1>2, <1>6 DEF ExpireResult, TypeOK, streamVars, bookVars
<1>. QED
    BY <1>3, <1>4, <1>5, <1>6

\* A thread that starts on a ride.
LEMMA TypedStarts ==
    ASSUME Typed, NEW r \in Rides, NEW t \in Threads,
           Read(t, r) \/ Reclaim(t, r) \/ Sweep(t, r)
    PROVE  Typed'
<1>. USE DEF Typed
<1>1. PICK k \in Nat : Start(t, r, k) /\ (IsStream(t) \/ k < MaxAttempts)
    <2>1. 0 \in Nat
        OBVIOUS
    <2>2. CASE Read(t, r) \/ Reclaim(t, r)
        BY <2>1, <2>2 DEF Read, Reclaim
    <2>3. CASE Sweep(t, r)
        <3>1. pending[r] \in Nat /\ pending[r] < MaxAttempts
            BY <2>3, BoundsAssumption DEF Sweep, TypeOK
        <3>. QED
            BY <2>3, <3>1 DEF Sweep
    <2>. QED
        BY <2>2, <2>3
<1>2. thread' \in [Threads -> ThreadState] /\ ThreadsHold'
    BY <1>1, StartMoves DEF ThreadsHold, At, RideOf, IsStream, Others
<1>3. CASE Read(t, r)
    BY <1>2, <1>3 DEF Read, TypeOK, keyVars, bookVars, ThreadState
<1>4. CASE Reclaim(t, r)
    BY <1>2, <1>4 DEF Reclaim, TypeOK, streamVars, keyVars, bookVars, ThreadState
<1>5. CASE Sweep(t, r)
    BY <1>2, <1>5 DEF Sweep, TypeOK, streamVars, keyVars, bookVars, ThreadState
<1>. QED
    BY <1>2, <1>3, <1>4, <1>5

\* What a thread holds after a step of its handler, and after its last step.
LEMMA HoldsAfter ==
    ASSUME Typed, NEW t \in Threads, Handle(t) \/ Finish(t)
    PROVE  /\ thread' \in [Threads -> ThreadState]
           /\ ThreadsHold'
           /\ Others(t)
           /\ thread'[t] = Idle \/ thread'[t].ride = thread[t].ride
           /\ RideOf(t) \in Rides
<1>. USE DEF Typed
<1>1. /\ RideOf(t) \in Rides
      /\ thread[t].leg \in 1..MaxLegs
      /\ LastLeg(RideOf(t)) \in 1..MaxLegs
    BY BoundsAssumption DEF ThreadsHold, At, Handle, Finish, SkipSmallFee, CheckAndSet,
        Duplicate, PostSettlement, CreditDriver, CacheResult, ClearPending, FailReleasing,
        MoveToDLQ, Acknowledge, RegisterAttempt, TypeOK, LastLeg
<1>2. /\ "clear" \in Steps /\ "cached" \in Steps /\ "credit" \in Steps
      /\ "release" \in Steps /\ "cache" \in Steps /\ "ack" \in Steps
    BY DEF Steps
<1>3. \/ \E s \in Steps : Goto(t, s) /\ s \notin {"check", "cached", "ledger", "register"}
      \/ Goto(t, "cached") /\ At(t, "check")
      \/ Begin(t) /\ (At(t, "check") \/ At(t, "cached"))
      \/ Succeed(t) \/ AfterFailure(t) \/ Rest(t)
      \/ NextLeg(t) /\ thread[t].leg < MaxLegs /\ At(t, "credit")
    <2>1. CASE SkipSmallFee(t) \/ PostSettlement(t) \/ MoveToDLQ(t)
        BY <1>2, <2>1 DEF SkipSmallFee, PostSettlement, MoveToDLQ
    <2>2. CASE CheckAndSet(t)
        BY <2>2 DEF CheckAndSet
    <2>3. CASE Duplicate(t) \/ CacheResult(t)
        BY <1>2, <2>3 DEF Duplicate, CacheResult
    <2>4. CASE CreditDriver(t)
        <3>1. CASE NextLeg(t) /\ thread[t].leg < LastLeg(RideOf(t))
            BY <1>1, <2>4, <3>1, BoundsAssumption DEF CreditDriver
        <3>2. CASE Goto(t, "cache") \/ Goto(t, "release")
            BY <1>2, <3>2
        <3>. QED
            BY <2>4, <3>1, <3>2 DEF CreditDriver
    <2>5. CASE ClearPending(t) \/ FailReleasing(t) \/ Acknowledge(t) \/ RegisterAttempt(t)
        BY <2>5 DEF ClearPending, FailReleasing, Acknowledge, RegisterAttempt
    <2>. QED
        BY <2>1, <2>2, <2>3, <2>4, <2>5 DEF Handle, Finish
<1>4. /\ thread' \in [Threads -> ThreadState]
      /\ Others(t)
      /\ \/ thread'[t] = Idle
         \/ /\ thread'[t].ride = thread[t].ride
            /\ IsStream(t) \/ thread'[t].n = thread[t].n
            /\ thread'[t].at = "register" => ~IsStream(t)
            /\ thread'[t].at \in {"check", "cached", "ledger"} => thread'[t].leg = 1
    <2>1. CASE \E s \in Steps : Goto(t, s) /\ s \notin {"check", "cached", "ledger", "register"}
        BY <2>1, GotoMoves
    <2>2. CASE Goto(t, "cached") /\ At(t, "check")
        BY <1>2, <2>2, GotoMoves DEF ThreadsHold
    <2>3. CASE Begin(t) /\ (At(t, "check") \/ At(t, "cached"))
        BY <2>3, BeginMoves DEF ThreadsHold
    <2>4. CASE Succeed(t)
        BY <2>4, SucceedMoves
    <2>5. CASE AfterFailure(t)
        BY <2>5, FailureMoves
    <2>6. CASE Rest(t)
        BY <2>6, RestMoves
    <2>7. CASE NextLeg(t) /\ thread[t].leg < MaxLegs /\ At(t, "credit")
        BY <2>7, NextLegMoves DEF At
    <2>. QED
        BY <1>3, <2>1, <2>2, <2>3, <2>4, <2>5, <2>6, <2>7
<1>5. ThreadsHold'
    <2>. SUFFICES ASSUME NEW u \in Threads
                  PROVE  (/\ At(u, "idle") \/ RideOf(u) \in Rides
                          /\ IsStream(u) \/ thread[u].n < MaxAttempts
                          /\ At(u, "register") => ~IsStream(u)
                          /\ At(u, "check") \/ At(u, "cached") \/ At(u, "ledger")
                                => thread[u].leg = 1)'
        BY DEF ThreadsHold
    <2>1. CASE u # t
        BY <1>4, <2>1 DEF Others, ThreadsHold, At, RideOf, IsStream
    <2>2. CASE u = t /\ thread'[t] = Idle
        BY <2>2, IdleFields, BoundsAssumption DEF At, RideOf, IsStream
    <2>3. CASE u = t /\ thread'[t] # Idle
        BY <1>1, <1>4, <2>3 DEF ThreadsHold, At, RideOf, IsStream
    <2>. QED
        BY <2>1, <2>2, <2>3
<1>. QED
    BY <1>1, <1>4, <1>5

\* A step of the handler, or the last step of a thread.
LEMMA TypedHandle ==
    ASSUME Typed, NEW t \in Threads, Handle(t) \/ Finish(t)
    PROVE  Typed'
<1>. USE DEF Typed
<1>1. thread' \in [Threads -> ThreadState] /\ ThreadsHold' /\ RideOf(t) \in Rides
    BY HoldsAfter
<1>2. thread[t].n \in Nat /\ thread[t].leg \in 1..MaxLegs
    BY DEF TypeOK
<1>3. CASE SkipSmallFee(t)
    BY <1>1, <1>3 DEF SkipSmallFee, TypeOK, streamVars, keyVars, bookVars, ThreadState
<1>4. CASE CheckAndSet(t)
    <2>1. marker' \subseteq Rides /\ faults' \in 0..MaxFaults
        BY <1>1, <1>4, FaultTyped DEF CheckAndSet, TypeOK
    <2>. QED
        BY <1>1, <1>4, <2>1 DEF CheckAndSet, TypeOK, streamVars, bookVars, ThreadState
<1>5. CASE Duplicate(t)
    <2>1. faults' \in 0..MaxFaults
        BY <1>5, FaultTyped DEF Duplicate
    <2>. QED
        BY <1>1, <1>5, <2>1 DEF Duplicate, TypeOK, streamVars, keyVars, bookVars, ThreadState
<1>6. CASE PostSettlement(t)
    <2>1. ledger' \subseteq Rides /\ faults' \in 0..MaxFaults
        BY <1>1, <1>6, FaultTyped DEF PostSettlement, TypeOK
    <2>. QED
        BY <1>1, <1>6, <2>1 DEF PostSettlement, TypeOK, streamVars, keyVars, ThreadState
<1>7. CASE CreditDriver(t)
    <2>. DEFINE p == <<RideOf(t), thread[t].leg>>
    <2>1. p \in Rides \X (1..MaxLegs) /\ faults' \in 0..MaxFaults
        BY <1>1, <1>2, <1>7, FaultTyped DEF CreditDriver
    <2>2. ApplyCredit(p) \/ UNCHANGED <<credits, balance>>
        BY <1>7 DEF CreditDriver
    <2>. HIDE DEF p
    <2>3. /\ credits' \subseteq Rides \X (1..MaxLegs)
          /\ balance' \in [Rides \X (1..MaxLegs) -> Nat]
        BY <2>1, <2>2 DEF ApplyCredit, TypeOK
    <2>. QED
        BY <1>1, <1>7, <2>1, <2>3 DEF CreditDriver, TypeOK, streamVars, keyVars, ThreadState
<1>8. CASE CacheResult(t)
    <2>1. result' \subseteq Rides /\ faults' \in 0..MaxFaults
        BY <1>1, <1>8, FaultTyped DEF CacheResult, TypeOK
    <2>. QED
        BY <1>1, <1>8, <2>1 DEF CacheResult, TypeOK, streamVars, bookVars, ThreadState
<1>9. CASE ClearPending(t)
    <2>1. pending' \in [Rides -> 0..MaxAttempts \cup {None}] /\ faults' \in 0..MaxFaults
        BY <1>1, <1>9, FaultTyped DEF ClearPending, TypeOK
    <2>. QED
        BY <1>1, <1>9, <2>1 DEF ClearPending, TypeOK, streamVars, keyVars, bookVars, ThreadState
<1>10. CASE FailReleasing(t)
    <2>1. marker' \subseteq Rides /\ dropped' \subseteq Rides /\ faults' \in 0..MaxFaults
        BY <1>1, <1>10, FaultTyped DEF FailReleasing, TypeOK
    <2>. QED
        BY <1>1, <1>10, <2>1 DEF FailReleasing, TypeOK, streamVars, bookVars, ThreadState
<1>11. CASE MoveToDLQ(t)
    <2>1. dlq' \subseteq Rides /\ dropped' \subseteq Rides /\ faults' \in 0..MaxFaults
        BY <1>1, <1>11, FaultTyped DEF MoveToDLQ, TypeOK
    <2>. QED
        BY <1>1, <1>11, <2>1 DEF MoveToDLQ, TypeOK, keyVars, bookVars, ThreadState
<1>12. CASE Acknowledge(t)
    <2>1. faults' \in 0..MaxFaults
        BY <1>12, FaultTyped DEF Acknowledge
    <2>. QED
        BY <1>1, <1>12, <2>1 DEF Acknowledge, TypeOK, keyVars, bookVars, ThreadState
<1>13. CASE RegisterAttempt(t)
    <2>1. faults' \in 0..MaxFaults
        BY <1>13, FaultTyped DEF RegisterAttempt
    <2>2. CASE UNCHANGED pending
        BY <1>1, <1>13, <2>1, <2>2
           DEF RegisterAttempt, TypeOK, streamVars, keyVars, bookVars, ThreadState
    <2>3. CASE pending' = [pending EXCEPT ![RideOf(t)] = thread[t].n + 1] /\ ~IsStream(t)
        <3>1. thread[t].n + 1 \in 0..MaxAttempts
            BY <1>2, <2>3, BoundsAssumption DEF ThreadsHold
        <3>2. pending' \in [Rides -> 0..MaxAttempts \cup {None}]
            BY <2>3, <3>1 DEF TypeOK
        <3>. QED
            BY <1>1, <1>13, <2>1, <3>2
               DEF RegisterAttempt, TypeOK, streamVars, keyVars, bookVars, ThreadState
    <2>. QED
        BY <1>13, <2>2, <2>3 DEF RegisterAttempt, ThreadsHold
<1>. QED
    BY <1>3, <1>4, <1>5, <1>6, <1>7, <1>8, <1>9, <1>10, <1>11, <1>12, <1>13 DEF Handle, Finish

\* A crash leaves the threads of the worker idle.
LEMMA TypedCrash ==
    ASSUME Typed, NEW w \in Workers, Crash(w)
    PROVE  Typed'
<1>. USE DEF Typed
<1>1. Idle \in ThreadState
    BY BoundsAssumption DEF Idle, ThreadState, Steps
<1>2. /\ thread' \in [Threads -> ThreadState]
      /\ \A t \in Threads : thread'[t] = Idle \/ thread'[t] = thread[t]
    BY <1>1 DEF Crash, TypeOK, ThreadState
<1>3. ThreadsHold'
    BY <1>2, IdleFields, BoundsAssumption DEF ThreadsHold, At, RideOf, IsStream
<1>4. dropped' \subseteq Rides /\ faults' \in 0..MaxFaults
    BY FaultTyped DEF Crash, TypeOK
<1>. QED
    BY <1>2, <1>3, <1>4 DEF Crash, TypeOK, streamVars, keyVars, bookVars, ThreadState

\* Every step keeps the types.
LEMMA TypedStep == Typed /\ [Next]_vars => Typed'
<1>. SUFFICES ASSUME Typed, [Next]_vars PROVE Typed'
    OBVIOUS
<1>1. CASE UNCHANGED vars
    BY <1>1 DEF vars, streamVars, keyVars, bookVars, Typed, TypeOK, ThreadsHold, At, RideOf,
        IsStream
<1>2. CASE Next
    BY <1>2, TypedCommands, TypedStarts, TypedHandle, TypedCrash DEF Next
<1>. QED
    BY <1>1, <1>2

\* In every reachable state each variable holds what the code can store: no
\* sweep counts past the automatic attempts, no loop runs past the last leg.
THEOREM TypeCorrect == Spec => []TypeOK
<1>1. Typed => TypeOK
    BY DEF Typed
<1>. QED
    BY <1>1, TypedInit, TypedStep, PTL DEF Spec
-----------------------------------------------------------------------------
(* The money.                                                               *)

\* A balance is touched exactly by the transactions that leave a document.
PaidOnce ==
    \A p \in Rides \X (1..MaxLegs) : balance[p] = IF p \in credits THEN 1 ELSE 0

PostedFirst == \A p \in credits : Posts(p[1]) => p[1] \in ledger

\* What a thread has established where it is.
Established(t) ==
    /\ At(t, "ledger") => Posts(RideOf(t))
    /\ At(t, "credit") =>
          /\ Posts(RideOf(t)) => RideOf(t) \in ledger
          /\ thread[t].leg <= LastLeg(RideOf(t))
          /\ \A l \in Legs(RideOf(t)) : l < thread[t].leg => <<RideOf(t), l>> \in credits
    /\ At(t, "cache") \/ At(t, "clear") => Credited(RideOf(t))

Books ==
    /\ Typed
    /\ PaidOnce
    /\ PostedFirst
    /\ \A t \in Threads : Established(t)
    /\ \A r \in result : Credited(r)

\* What is credited or posted stays so, whatever happens.
Keeps == kind' = kind /\ credits \subseteq credits' /\ ledger \subseteq ledger'

LEMMA StaysEstablished ==
    ASSUME Keeps
    PROVE  /\ \A r : Credited(r) => Credited(r)'
           /\ \A t : thread'[t] = thread[t] /\ Established(t) => Established(t)'
    BY DEF Keeps, Credited, Legs, LastLeg, Established, Posts, At, RideOf

\* An idle thread has nothing to establish.
LEMMA IdleEstablished ==
    ASSUME NEW t, thread'[t] = Idle PROVE Established(t)'
    BY IdleFields DEF Established, At

\* The initial books are empty.
LEMMA BooksInit == Init => Books
<1>. SUFFICES ASSUME Init PROVE Books
    OBVIOUS
<1>1. Typed
    BY TypedInit
<1>2. \A t \in Threads : At(t, "idle")
    BY IdleFields DEF Init, At
<1>. QED
    BY <1>1, <1>2 DEF Books, PaidOnce, PostedFirst, Established, At, Init

\* The books are kept by every step that credits and posts nothing and moves
\* threads only to places where nothing has to be established.
LEMMA BooksKept ==
    ASSUME Books, Typed', kind' = kind, UNCHANGED bookVars,
           \A t \in Threads : Established(t)',
           \A r \in result' : Credited(r)
    PROVE  Books'
<1>1. Keeps
    BY DEF Keeps, bookVars
<1>2. \A r \in result' : Credited(r)'
    BY <1>1, StaysEstablished
<1>3. PaidOnce' /\ PostedFirst'
    BY DEF Books, PaidOnce, PostedFirst, Posts, bookVars
<1>. QED
    BY <1>2, <1>3 DEF Books

\* A thread that moved to one of the other places has nothing to establish.
LEMMA OthersEstablished ==
    ASSUME Books, Keeps, NEW t \in Threads, Others(t),
           Established(t)'
    PROVE  \A u \in Threads : Established(u)'
    BY StaysEstablished DEF Others, Books

\* The steps of the handler and of the loops.
LEMMA BooksHandle ==
    ASSUME Books, NEW t \in Threads, Handle(t) \/ Finish(t)
    PROVE  Books'
<1>1. Typed /\ TypeOK
    BY DEF Books, Typed
<1>2. Typed' /\ Others(t) /\ RideOf(t) \in Rides
    BY <1>1, HoldsAfter, TypedHandle
<1>3. /\ "clear" \in Steps /\ "cached" \in Steps /\ "credit" \in Steps
      /\ "release" \in Steps /\ "cache" \in Steps /\ "ack" \in Steps
    BY DEF Steps
<1>. DEFINE Quiet == kind' = kind /\ UNCHANGED bookVars /\ result' = result
<1>4. ASSUME Quiet, Established(t)' PROVE Books'
    <2>1. Keeps /\ \A r \in result' : Credited(r)
        BY <1>4 DEF Keeps, bookVars, Books
    <2>. QED
        BY <1>2, <1>4, <2>1, BooksKept, OthersEstablished
<1>5. ASSUME Keeps, \/ thread'[t] = Idle
                    \/ thread'[t].at \in {"check", "cached", "release", "ack", "dlq", "register"}
      PROVE  Established(t)'
    BY <1>5, IdleEstablished DEF Established, At
<1>6. CASE SkipSmallFee(t)
    <2>1. Quiet /\ Credited(RideOf(t)) /\ Keeps
        BY <1>6 DEF SkipSmallFee, keyVars, Credited, Legs, Keeps, bookVars
    <2>2. Established(t)'
        BY <1>1, <1>3, <1>6, <2>1, GotoMoves, StaysEstablished
           DEF SkipSmallFee, Established, At, RideOf
    <2>. QED
        BY <1>4, <2>1, <2>2
<1>7. ASSUME CheckAndSet(t) \/ Duplicate(t), Begin(t) PROVE Established(t)'
    <2>1. Keeps /\ thread[t].leg = 1
        BY <1>1, <1>7 DEF CheckAndSet, Duplicate, Keeps, bookVars, Typed, ThreadsHold
    <2>2. kind[RideOf(t)] = "review" => Credited(RideOf(t))
        BY DEF Credited, Legs
    <2>3. LastLeg(RideOf(t)) \in Nat /\ 1 <= LastLeg(RideOf(t))
        BY BoundsAssumption DEF LastLeg
    <2>4. LastLeg(RideOf(t))' = LastLeg(RideOf(t)) /\ Legs(RideOf(t))' = Legs(RideOf(t))
        BY <1>1, <1>7, BeginMoves, <2>1 DEF LastLeg, Legs, Keeps, RideOf
    <2>5. \A l \in Legs(RideOf(t)) : ~(l < 1)
        BY <2>3 DEF Legs
    <2>6. RideOf(t)' = RideOf(t) /\ thread'[t].leg = 1
        BY <1>1, <1>7, <2>1, BeginMoves DEF RideOf
    <2>7. CASE thread'[t].at = "ledger" /\ Posts(RideOf(t))
        BY <2>1, <2>6, <2>7 DEF Established, At, Posts, Keeps
    <2>8. CASE thread'[t].at = "credit" /\ ~Posts(RideOf(t))
        BY <2>1, <2>3, <2>4, <2>5, <2>6, <2>8 DEF Established, At, Posts, Keeps
    <2>9. CASE thread'[t].at = "cache" /\ kind[RideOf(t)] = "review"
        BY <2>1, <2>2, <2>6, <2>9, StaysEstablished DEF Established, At
    <2>. QED
        BY <1>1, <1>7, <2>7, <2>8, <2>9, BeginMoves
<1>8. CASE CheckAndSet(t)
    <2>1. Quiet /\ Keeps
        BY <1>8 DEF CheckAndSet, Keeps, bookVars
    <2>2. CASE Begin(t)
        BY <1>4, <1>7, <1>8, <2>1, <2>2
    <2>3. CASE Goto(t, "cached")
        BY <1>1, <1>3, <1>4, <1>5, <2>1, <2>3, GotoMoves
    <2>. QED
        BY <1>8, <2>2, <2>3 DEF CheckAndSet
<1>9. CASE Duplicate(t)
    <2>1. Quiet /\ Keeps
        BY <1>9 DEF Duplicate, Keeps, bookVars, keyVars
    <2>2. CASE Begin(t)
        BY <1>4, <1>7, <1>9, <2>1, <2>2
    <2>3. CASE Succeed(t)
        BY <1>1, <1>4, <1>5, <2>1, <2>3, SucceedMoves
    <2>4. CASE RideOf(t) \in result /\ Goto(t, "clear")
        <3>1. Credited(RideOf(t))
            BY <2>4 DEF Books
        <3>2. Established(t)'
            BY <1>1, <1>3, <2>1, <2>4, <3>1, GotoMoves, StaysEstablished
               DEF Established, At, RideOf
        <3>. QED
            BY <1>4, <2>1, <3>2
    <2>. QED
        BY <1>9, <2>2, <2>3, <2>4 DEF Duplicate
<1>10. CASE PostSettlement(t)
    <2>1. Keeps /\ UNCHANGED <<credits, balance, result>>
        BY <1>10 DEF PostSettlement, Keeps, keyVars
    <2>2. Established(t)'
        <3>1. CASE Goto(t, "release")
            BY <1>1, <1>3, <1>5, <2>1, <3>1, GotoMoves
        <3>2. CASE ledger' = ledger \cup {RideOf(t)} /\ Goto(t, "credit")
            <4>1. thread[t].leg = 1
                BY <1>1, <1>10 DEF PostSettlement, Typed, ThreadsHold
            <4>2. LastLeg(RideOf(t)) \in Nat /\ 1 <= LastLeg(RideOf(t))
                BY BoundsAssumption DEF LastLeg
            <4>3. /\ RideOf(t)' = RideOf(t) /\ thread'[t].leg = 1
                  /\ LastLeg(RideOf(t))' = LastLeg(RideOf(t))
                  /\ Legs(RideOf(t))' = Legs(RideOf(t))
                  /\ thread'[t].at = "credit"
                BY <1>1, <1>3, <2>1, <3>2, <4>1, GotoMoves DEF LastLeg, Legs, Keeps, RideOf
            <4>4. \A l \in Legs(RideOf(t)) : ~(l < 1)
                BY <4>2 DEF Legs
            <4>. QED
                BY <3>2, <4>2, <4>3, <4>4 DEF Established, At
        <3>. QED
            BY <1>10, <3>1, <3>2 DEF PostSettlement
    <2>3. \A u \in Threads : Established(u)'
        BY <1>2, <2>1, <2>2, OthersEstablished
    <2>4. PaidOnce' /\ PostedFirst' /\ \A r \in result' : Credited(r)'
        BY <2>1, StaysEstablished DEF Books, PaidOnce, PostedFirst, Posts, Keeps
    <2>. QED
        BY <1>2, <2>3, <2>4 DEF Books
<1>11. CASE CreditDriver(t)
    <2>. DEFINE r == RideOf(t)
                l == thread[t].leg
                p == <<r, l>>
    <2>1. p \in Rides \X (1..MaxLegs) /\ l \in 1..MaxLegs /\ At(t, "credit")
        BY <1>1, <1>2, <1>11 DEF CreditDriver, TypeOK
    <2>2. ApplyCredit(p) \/ UNCHANGED <<credits, balance>>
        BY <1>11 DEF CreditDriver
    <2>3. Keeps /\ ledger' = ledger /\ result' = result
        BY <1>11, <2>2 DEF CreditDriver, ApplyCredit, Keeps, keyVars
    <2>4. Posts(r) => r \in ledger
        BY <2>1 DEF Books, Established
    <2>5. PaidOnce'
        <3>1. balance \in [Rides \X (1..MaxLegs) -> Nat] /\ PaidOnce
            BY <1>1 DEF TypeOK, Books
        <3>. HIDE DEF p
        <3>2. CASE UNCHANGED <<credits, balance>>
            BY <3>1, <3>2 DEF PaidOnce
        <3>3. CASE p \notin credits /\ credits' = credits \cup {p}
                   /\ balance' = [balance EXCEPT ![p] = balance[p] + 1]
            BY <2>1, <3>1, <3>3 DEF PaidOnce
        <3>. QED
            BY <2>2, <3>2, <3>3 DEF ApplyCredit
    <2>6. PostedFirst'
        <3>1. \A q \in credits' : q \in credits \/ q = p
            BY <2>2 DEF ApplyCredit
        <3>. QED
            BY <2>3, <2>4, <3>1 DEF PostedFirst, Books, Posts, Keeps
    <2>7. Established(t)'
        <3>1. CASE Goto(t, "release")
            BY <1>1, <1>3, <1>5, <2>3, <3>1, GotoMoves
        <3>2. CASE ApplyCredit(p) /\ l < LastLeg(r) /\ NextLeg(t)
            <4>1. p \in credits'
                BY <3>2 DEF ApplyCredit
            <4>2. LastLeg(r) \in 1..MaxLegs
                BY BoundsAssumption DEF LastLeg
            <4>3. l < MaxLegs
                BY <2>1, <3>2, <4>2, BoundsAssumption
            <4>4. /\ thread'[t].at = "credit" /\ RideOf(t)' = r /\ thread'[t].leg = l + 1
                BY <1>1, <2>1, <3>2, <4>3, NextLegMoves DEF At, RideOf
            <4>5. LastLeg(r)' = LastLeg(r) /\ Legs(r)' = Legs(r)
                BY <2>3, <4>4 DEF LastLeg, Legs, Keeps
            <4>6. \A k \in Legs(r) : k < l + 1 => <<r, k>> \in credits'
                <5>1. \A k \in Legs(r) : k < l => <<r, k>> \in credits
                    BY <2>1 DEF Books, Established
                <5>2. \A k \in Legs(r) : k \in Nat
                    BY <4>2 DEF Legs
                <5>. QED
                    BY <2>1, <2>3, <4>1, <5>1, <5>2 DEF Keeps
            <4>. QED
                BY <2>1, <2>3, <2>4, <3>2, <4>2, <4>4, <4>5, <4>6
                   DEF Established, At, Posts, Keeps
        <3>3. CASE ApplyCredit(p) /\ ~(l < LastLeg(r)) /\ Goto(t, "cache")
            <4>1. p \in credits'
                BY <3>3 DEF ApplyCredit
            <4>2. l = LastLeg(r)
                <5>1. LastLeg(r) \in 1..MaxLegs /\ l <= LastLeg(r)
                    BY <2>1, BoundsAssumption DEF LastLeg, Books, Established
                <5>. QED
                    BY <2>1, <3>3, <5>1
            <4>3. \A k \in Legs(r) : k <= l
                BY <4>2 DEF Legs
            <4>4. \A k \in Legs(r) : <<r, k>> \in credits'
                <5>1. \A k \in Legs(r) : k < l => <<r, k>> \in credits
                    BY <2>1 DEF Books, Established
                <5>2. \A k \in Legs(r) : k \in Nat
                    BY DEF Legs
                <5>. QED
                    BY <2>1, <2>3, <4>1, <4>3, <5>1, <5>2 DEF Keeps
            <4>5. thread'[t].at = "cache" /\ RideOf(t)' = r
                BY <1>1, <1>3, <3>3, GotoMoves DEF RideOf
            <4>6. Legs(r)' = Legs(r)
                BY <2>3, <4>5 DEF Legs, LastLeg, Keeps
            <4>. QED
                BY <4>4, <4>5, <4>6 DEF Established, At, Credited
        <3>. QED
            BY <1>11, <3>1, <3>2, <3>3 DEF CreditDriver
    <2>8. \A u \in Threads : Established(u)'
        BY <1>2, <2>3, <2>7, OthersEstablished
    <2>9. \A x \in result' : Credited(x)'
        BY <2>3, StaysEstablished DEF Books
    <2>. QED
        BY <1>2, <2>5, <2>6, <2>8, <2>9 DEF Books
<1>12. CASE CacheResult(t)
    <2>1. Keeps /\ kind' = kind /\ UNCHANGED bookVars
        BY <1>12 DEF CacheResult, Keeps, bookVars
    <2>2. Credited(RideOf(t))
        BY <1>12 DEF CacheResult, Books, Established
    <2>3. \A r \in result' : Credited(r)
        BY <1>12, <2>2 DEF CacheResult, Books
    <2>4. Established(t)'
        <3>1. CASE Goto(t, "clear")
            BY <1>1, <1>3, <2>1, <2>2, <3>1, GotoMoves, StaysEstablished
               DEF Established, At, RideOf
        <3>2. CASE Succeed(t)
            BY <1>1, <1>5, <2>1, <3>2, SucceedMoves
        <3>. QED
            BY <1>12, <3>1, <3>2 DEF CacheResult
    <2>. QED
        BY <1>2, <2>1, <2>3, <2>4, BooksKept, OthersEstablished
<1>13. CASE ClearPending(t)
    <2>1. Quiet /\ Keeps /\ Succeed(t)
        BY <1>13 DEF ClearPending, Keeps, bookVars, keyVars
    <2>. QED
        BY <1>1, <1>4, <1>5, <2>1, SucceedMoves
<1>14. CASE FailReleasing(t)
    <2>1. Quiet /\ Keeps /\ AfterFailure(t)
        BY <1>14 DEF FailReleasing, Keeps, bookVars
    <2>. QED
        BY <1>1, <1>4, <1>5, <2>1, FailureMoves
<1>15. CASE MoveToDLQ(t)
    <2>1. Quiet /\ Keeps /\ (Goto(t, "ack") \/ Rest(t))
        BY <1>15 DEF MoveToDLQ, Keeps, bookVars, keyVars
    <2>. QED
        BY <1>1, <1>3, <1>4, <1>5, <2>1, GotoMoves, RestMoves
<1>16. CASE Acknowledge(t) \/ RegisterAttempt(t)
    <2>1. Quiet /\ Keeps /\ Rest(t)
        BY <1>16 DEF Acknowledge, RegisterAttempt, Keeps, bookVars, keyVars
    <2>. QED
        BY <1>1, <1>4, <1>5, <2>1, RestMoves
<1>. QED
    BY <1>6, <1>8, <1>9, <1>10, <1>11, <1>12, <1>13, <1>14, <1>15, <1>16 DEF Handle, Finish

\* Commands, new keys of time, starting threads and crashes write no books.
LEMMA BooksElsewhere ==
    ASSUME Books,
           \/ \E r \in Rides :
                 \/ RecordPending(r) \/ Publish(r) \/ ExpireMarker(r) \/ ExpireResult(r)
                 \/ \E t \in Threads : Read(t, r) \/ Reclaim(t, r) \/ Sweep(t, r)
           \/ \E w \in Workers : Crash(w)
    PROVE  Books'
<1>1. Typed /\ TypeOK
    BY DEF Books, Typed
<1>2. Typed'
    BY <1>1, TypedCommands, TypedStarts, TypedCrash
<1>3. /\ kind' = kind /\ UNCHANGED bookVars
      /\ \A r \in result' : Credited(r)
    BY DEF RecordPending, Publish, ExpireMarker, ExpireResult, Read, Reclaim, Sweep, Crash,
        bookVars, keyVars, Books
<1>4. Keeps
    BY <1>3 DEF Keeps, bookVars
<1>5. \A t \in Threads : Established(t)'
    <2>1. CASE thread' = thread
        BY <1>4, <2>1, StaysEstablished DEF Books
    <2>2. CASE \E t \in Threads, r \in Rides, k \in Nat : Start(t, r, k)
        <3>1. PICK t \in Threads, r \in Rides, k \in Nat : Start(t, r, k)
            BY <2>2
        <3>2. Others(t) /\ thread'[t].at = "check"
            BY <1>1, <3>1, StartMoves
        <3>. QED
            BY <1>4, <3>2, OthersEstablished DEF Established, At
    <2>3. CASE \A t \in Threads : thread'[t] = Idle \/ thread'[t] = thread[t]
        BY <1>4, <2>3, StaysEstablished, IdleEstablished DEF Books
    <2>4. ASSUME NEW t \in Threads, NEW r \in Rides, Sweep(t, r)
          PROVE  pending[r] \in Nat
        BY <1>1, <2>4, BoundsAssumption DEF Sweep, TypeOK
    <2>5. 0 \in Nat
        OBVIOUS
    <2>6. CASE \E t \in Threads, r \in Rides : Read(t, r) \/ Reclaim(t, r) \/ Sweep(t, r)
        BY <2>2, <2>4, <2>5, <2>6 DEF Read, Reclaim, Sweep
    <2>7. CASE \E w \in Workers : Crash(w)
        BY <2>3, <2>7 DEF Crash
    <2>8. CASE \E r \in Rides :
                  RecordPending(r) \/ Publish(r) \/ ExpireMarker(r) \/ ExpireResult(r)
        BY <2>1, <2>8 DEF RecordPending, Publish, ExpireMarker, ExpireResult
    <2>. QED
        BY <2>6, <2>7, <2>8
<1>. QED
    BY <1>2, <1>3, <1>5, BooksKept

\* Every step keeps the books.
LEMMA BooksStep == Books /\ [Next]_vars => Books'
<1>. SUFFICES ASSUME Books, [Next]_vars PROVE Books'
    OBVIOUS
<1>1. CASE UNCHANGED vars
    <2>1. Typed'
        BY <1>1, TypedStep DEF Books
    <2>2. Keeps /\ kind' = kind /\ UNCHANGED bookVars /\ thread' = thread /\ result' = result
        BY <1>1 DEF vars, keyVars, bookVars, Keeps
    <2>3. \A t \in Threads : Established(t)'
        BY <2>2, StaysEstablished DEF Books
    <2>4. \A r \in result' : Credited(r)
        BY <2>2 DEF Books
    <2>. QED
        BY <2>1, <2>2, <2>3, <2>4, BooksKept
<1>2. CASE Next
    BY <1>2, BooksHandle, BooksElsewhere DEF Next
<1>. QED
    BY <1>1, <1>2

\* A balance holds each leg exactly as often as there is a credit document
\* for it, which is at most once, whatever retries, duplicates and crashes.
THEOREM BooksAreRight == Spec => []Books
<1>. QED
    BY BooksInit, BooksStep, PTL DEF Spec

\* Only a thread that knows the fee credited clears a pending entry.
LEMMA ClearedWhenCredited ==
    ASSUME Books, [Next]_vars
    PROVE  \A r \in Rides :
               pending[r] # None /\ pending'[r] = None => Credited(r)
<1>. SUFFICES ASSUME NEW r \in Rides, pending[r] # None, pending'[r] = None
              PROVE  Credited(r)
    OBVIOUS
<1>1. TypeOK /\ 0 # None /\ \A n \in Nat : n # None
    BY NoneAssumption DEF Books, Typed
<1>2. PICK t \in Threads : ClearPending(t) \/ RegisterAttempt(t)
    <2>1. pending' # pending
        OBVIOUS
    <2>2. ASSUME NEW x \in Rides PROVE ~RecordPending(x)
        BY <1>1 DEF RecordPending, TypeOK
    <2>. QED
        BY <2>1, <2>2 DEF Next, vars, Publish, ExpireMarker, ExpireResult, Read, Reclaim,
            Sweep, Crash, Handle, Finish, SkipSmallFee, CheckAndSet, Duplicate,
            PostSettlement, CreditDriver, CacheResult, FailReleasing, MoveToDLQ, Acknowledge
<1>3. thread[t].n + 1 \in Nat
    BY <1>1 DEF TypeOK
<1>4. ~RegisterAttempt(t)
    BY <1>1, <1>3 DEF RegisterAttempt, TypeOK
<1>5. ClearPending(t) /\ RideOf(t) = r
    BY <1>1, <1>2, <1>4 DEF ClearPending, TypeOK
<1>. QED
    BY <1>5 DEF ClearPending, Books, Established

\* A pending cancellation fee goes away only once it is credited: the promise
\* of cancellation-credit-pending-service.js, for every number of workers.
THEOREM PendingOutlivesCredit == Spec => PendingClearedOnlyOnceCredited
<1>1. Books /\ [Next]_vars =>
        [\A r \in Rides : pending[r] # None /\ pending'[r] = None => Credited(r)]_vars
    BY ClearedWhenCredited
<1>. QED
    BY <1>1, BooksAreRight, PTL DEF Spec, PendingClearedOnlyOnceCredited

\* A settlement posted by a worker is the abstract Post, a credit the abstract
\* Pay; a replayed transaction and every other step change nothing.
LEMMA RefinesStep ==
    ASSUME Books, [Next]_vars
    PROVE  [Credits!Next]_<<{r \in Rides : Posts(r)}, ledger, balance>>
<1>. DEFINE due == {r \in Rides : Posts(r)}
<1>1. TypeOK
    BY DEF Books, Typed
<1>2. kind' = kind
    BY DEF Next, vars, RecordPending, Publish, ExpireMarker, ExpireResult, Read, Reclaim,
        Sweep, Crash, Handle, Finish, SkipSmallFee, CheckAndSet, Duplicate, PostSettlement,
        CreditDriver, CacheResult, ClearPending, FailReleasing, MoveToDLQ, Acknowledge,
        RegisterAttempt
<1>3. due' = due
    BY <1>2 DEF Posts
<1>4. CASE UNCHANGED <<ledger, balance>>
    BY <1>3, <1>4
<1>5. ASSUME NEW t \in Threads, PostSettlement(t)
      PROVE  UNCHANGED <<ledger, balance>> \/ (Credits!Post(RideOf(t)) /\ RideOf(t) \in Rides)
    <2>1. RideOf(t) \in Rides /\ Posts(RideOf(t)) /\ UNCHANGED balance
        BY <1>5 DEF PostSettlement, Books, Typed, ThreadsHold, Established, At
    <2>2. CASE RideOf(t) \in ledger
        BY <1>5, <2>1, <2>2 DEF PostSettlement
    <2>3. CASE RideOf(t) \notin ledger
        BY <1>3, <1>5, <2>1, <2>3 DEF PostSettlement, Credits!Post
    <2>. QED
        BY <2>2, <2>3
<1>6. ASSUME NEW t \in Threads, CreditDriver(t)
      PROVE  \/ UNCHANGED <<ledger, balance>>
             \/ \E p \in Rides \X (1..MaxLegs) : Credits!Pay(p)
    <2>. DEFINE p == <<RideOf(t), thread[t].leg>>
    <2>1. p \in Rides \X (1..MaxLegs) /\ p[1] = RideOf(t) /\ UNCHANGED ledger
        BY <1>1, <1>6 DEF CreditDriver, TypeOK, Books, Typed, ThreadsHold, At
    <2>2. RideOf(t) \in Rides /\ (Posts(RideOf(t)) => RideOf(t) \in ledger)
        BY <1>6, <2>1 DEF CreditDriver, Books, Established
    <2>3. UNCHANGED balance \/ (p \notin credits /\ balance' = [balance EXCEPT ![p] = balance[p] + 1])
        BY <1>6 DEF CreditDriver, ApplyCredit
    <2>4. p \notin credits => balance[p] = 0
        BY <2>1 DEF Books, PaidOnce
    <2>. HIDE DEF p
    <2>5. CASE p \notin credits /\ balance' = [balance EXCEPT ![p] = balance[p] + 1]
        <3>. balance[p] + 1 = 1
            BY <2>4, <2>5
        <3>1. balance' = [balance EXCEPT ![p] = 1]
            BY <2>5, Zenon
        <3>2. Credits!Pay(p)
            BY <1>3, <2>1, <2>2, <2>4, <2>5, <3>1 DEF Credits!Pay
        <3>. QED
            BY <2>1, <3>2
    <2>. QED
        BY <2>1, <2>3, <2>5
<1>7. UNCHANGED <<ledger, balance>> \/ \E t \in Threads : PostSettlement(t) \/ CreditDriver(t)
    BY DEF Next, vars, bookVars, RecordPending, Publish, ExpireMarker, ExpireResult, Read,
        Reclaim, Sweep, Crash, Handle, Finish, SkipSmallFee, CheckAndSet, Duplicate,
        CacheResult, ClearPending, FailReleasing, MoveToDLQ, Acknowledge, RegisterAttempt
<1>. QED
    BY <1>4, <1>5, <1>6, <1>7 DEF Credits!Next

\* The workers implement the promise of DriverCredits: one settlement, one
\* payment per leg, in that order, for any rides, workers, legs and faults.
THEOREM Refinement == Spec => ImplementsDriverCredits
<1>1. Init => Credits!Init
    BY DEF Init, Credits!Init, Posts
<1>2. Books /\ [Next]_vars => [Credits!Next]_<<{r \in Rides : Posts(r)}, ledger, balance>>
    BY RefinesStep
<1>. QED
    BY <1>1, <1>2, BooksAreRight, PTL DEF Spec, ImplementsDriverCredits, Credits!Spec

-----------------------------------------------------------------------------
(* The events.                                                              *)

Accounted(r) == Credited(r) \/ r \in dlq \/ pending[r] # None \/ r \in dropped

\* Where a thread may hold the marker, and where it has still to give its ride
\* an outcome.
Working == {"ledger", "credit", "cache", "release"}
Responsible == Working \cup {"check", "dlq", "register"}

HasWorker(r, S) == \E u \in Threads : RideOf(u) = r /\ thread[u].at \in S
Held(r) == Accounted(r) \/ HasWorker(r, Working)
Claimed(r) == Accounted(r) \/ HasWorker(r, Responsible)

Traces ==
    /\ Books
    /\ \A t \in Threads : ~IsStream(t) /\ ~At(t, "idle") =>
          pending[RideOf(t)] # None \/ Credited(RideOf(t))
    /\ \A r \in marker : Held(r)
    /\ \A t \in Threads : At(t, "cached") \/ At(t, "ack") => Claimed(RideOf(t))
    /\ \A r \in Rides : event[r] = "acked" => Claimed(r)

\* The initial state has neither markers nor events.
LEMMA TracesInit == Init => Traces
<1>. SUFFICES ASSUME Init PROVE Traces
    OBVIOUS
<1>1. \A t \in Threads : At(t, "idle")
    BY IdleFields DEF Init, At
<1>. QED
    BY <1>1, BooksInit DEF Traces, Init, At

\* What a step has to show: an accounted ride stays accounted, a thread hands
\* over what it was responsible for, a marker has a holder, and what is newly
\* acknowledged was claimed.
LEMMA TracesKept ==
    ASSUME Traces, Books',
           \A r \in Rides : Accounted(r) => Accounted(r)',
           \A r \in Rides : HasWorker(r, Responsible) => Claimed(r)',
           \A r \in Rides : HasWorker(r, Working) => Held(r)' \/ r \notin marker',
           \A r \in marker' : r \in marker \/ Held(r)',
           \A u \in Threads : thread'[u].at \in {"cached", "ack"} => Claimed(thread'[u].ride),
           \A r \in Rides : event'[r] = "acked" => Claimed(r),
           \A u \in Threads : ~IsStream(u) /\ thread'[u].at # "idle" =>
               (pending[RideOf(u)] # None \/ Credited(RideOf(u)))'
    PROVE  Traces'
<1>1. \A u \in Threads : thread'[u].at \in {"cached", "ack"} => thread'[u].ride \in Rides
    BY DEF Books, Typed, ThreadsHold, At, RideOf
<1>2. ASSUME NEW r \in Rides, Claimed(r) PROVE Claimed(r)'
    <2>1. CASE Accounted(r)
        BY <2>1 DEF Claimed
    <2>2. CASE HasWorker(r, Responsible)
        BY <2>2
    <2>. QED
        BY <1>2, <2>1, <2>2 DEF Claimed
<1>3. \A r \in marker' : Held(r)'
    <2>. SUFFICES ASSUME NEW r \in marker', r \in marker PROVE Held(r)'
        OBVIOUS
    <2>1. r \in Rides
        BY DEF Traces, Books, Typed, TypeOK
    <2>2. Accounted(r) \/ HasWorker(r, Working)
        BY DEF Traces, Held
    <2>3. CASE Accounted(r)
        BY <2>1, <2>3 DEF Held
    <2>4. CASE HasWorker(r, Working)
        BY <2>1, <2>4
    <2>. QED
        BY <2>2, <2>3, <2>4
<1>4. \A u \in Threads : (At(u, "cached") \/ At(u, "ack") => Claimed(RideOf(u)))'
    BY <1>1, <1>2 DEF At, RideOf
<1>5. \A r \in Rides : (event[r] = "acked" => Claimed(r))'
    BY <1>2
<1>6. \A t \in Threads : (~IsStream(t) /\ ~At(t, "idle") =>
          pending[RideOf(t)] # None \/ Credited(RideOf(t)))'
    BY DEF IsStream, At
<1>. QED
    BY <1>3, <1>4, <1>5, <1>6 DEF Traces

\* No step undoes a credit, a dead letter or a dropped ride, and a pending fee
\* ends as a credit.
LEMMA StaysAccounted ==
    ASSUME Books, Next
    PROVE  /\ Keeps
           /\ dlq \subseteq dlq' /\ dropped \subseteq dropped'
           /\ \A r \in Rides : Credited(r) => Credited(r)'
           /\ \A r \in Rides : pending[r] # None => pending'[r] # None \/ Credited(r)'
           /\ \A r \in Rides : Accounted(r) => Accounted(r)'
<1>1. Keeps
    BY DEF Keeps, Next, bookVars, RecordPending, Publish, ExpireMarker, ExpireResult, Read,
        Reclaim, Sweep, Crash, Handle, Finish, SkipSmallFee, CheckAndSet, Duplicate,
        PostSettlement, CreditDriver, ApplyCredit, CacheResult, ClearPending, FailReleasing,
        MoveToDLQ, Acknowledge, RegisterAttempt
<1>2. dlq \subseteq dlq' /\ dropped \subseteq dropped'
    BY DEF Next, streamVars, RecordPending, Publish, ExpireMarker, ExpireResult, Read,
        Reclaim, Sweep, Crash, Handle, Finish, SkipSmallFee, CheckAndSet, Duplicate,
        PostSettlement, CreditDriver, CacheResult, ClearPending, FailReleasing,
        MoveToDLQ, Acknowledge, RegisterAttempt
<1>3. \A r \in Rides : Credited(r) => Credited(r)'
    BY <1>1, StaysEstablished
<1>4. \A r \in Rides : pending[r] # None => pending'[r] # None \/ Credited(r)'
    BY <1>3, ClearedWhenCredited
<1>. QED
    BY <1>1, <1>2, <1>3, <1>4 DEF Accounted

\* A step of the handler or of a loop.
LEMMA TracesHandle ==
    ASSUME Traces, NEW t \in Threads, Handle(t) \/ Finish(t)
    PROVE  Traces'
<1>1. Books /\ Typed /\ TypeOK /\ Next
    BY DEF Traces, Books, Typed, Next
<1>2. Books' /\ Others(t) /\ RideOf(t) \in Rides
    BY <1>1, BooksHandle, HoldsAfter
<1>. PICK r \in Rides : r = RideOf(t)
    BY <1>2
<1>. DEFINE Moves(S) == thread'[t].ride = r /\ thread'[t].at \in S
            Backed == \E v \in Threads \ {t} : RideOf(v) = r /\ thread[v].at \in Working
<1>3. /\ dlq \subseteq dlq' /\ dropped \subseteq dropped'
      /\ Credited(r) => Accounted(r)'
      /\ \A x \in Rides : Accounted(x) => Accounted(x)'
      /\ \A x \in Rides : pending[x] # None => pending'[x] # None \/ Credited(x)'
      /\ \A x \in Rides : Credited(x) => Credited(x)'
    BY <1>1, <1>2, StaysAccounted DEF Accounted
<1>4. /\ "clear" \in Steps /\ "cached" \in Steps /\ "credit" \in Steps
      /\ "release" \in Steps /\ "cache" \in Steps /\ "ack" \in Steps
    BY DEF Steps
<1>5. Begin(t) => Moves(Working)
    BY <1>1, BeginMoves DEF Working, RideOf
\* The step of t, place by place: what t was responsible for, what it knew of
\* the marker, and what it now says about its ride.
<1>6. /\ thread[t].at \in Responsible => Moves(Responsible) \/ Accounted(r)' \/ Backed
      /\ thread[t].at \in Working => Moves(Working) \/ Accounted(r)' \/ r \notin marker'
      /\ marker' = marker \/ marker' = marker \ {r}
           \/ (marker' = marker \cup {r} /\ Moves(Working))
    <2>. USE DEF Responsible, Working, At
    <2>1. CASE SkipSmallFee(t)
        <3>1. Credited(r)
            BY <2>1 DEF SkipSmallFee, Credited, Legs
        <3>. QED
            BY <1>3, <2>1, <3>1 DEF SkipSmallFee, keyVars
    <2>2. CASE CheckAndSet(t)
        <3>1. CASE Begin(t)
            BY <1>5, <2>2, <3>1 DEF CheckAndSet
        <3>2. CASE r \in marker /\ marker' = marker
            <4>1. Accounted(r) \/ HasWorker(r, Working)
                BY <3>2 DEF Traces, Held
            <4>2. HasWorker(r, Working) => Backed
                BY <2>2 DEF CheckAndSet, HasWorker
            <4>. QED
                BY <1>2, <1>3, <2>2, <3>2, <4>1, <4>2 DEF CheckAndSet
        <3>. QED
            BY <2>2, <3>1, <3>2 DEF CheckAndSet
    <2>3. CASE Duplicate(t)
        BY <2>3 DEF Duplicate, keyVars
    <2>4. CASE PostSettlement(t)
        <3>1. Moves(Working)
            BY <1>1, <1>4, <2>4, GotoMoves DEF PostSettlement, RideOf
        <3>. QED
            BY <2>4, <3>1 DEF PostSettlement, keyVars
    <2>5. CASE CreditDriver(t)
        <3>1. thread[t].leg < LastLeg(r) => thread[t].leg < MaxLegs
            BY <1>1, BoundsAssumption DEF LastLeg, TypeOK
        <3>2. Moves(Working)
            BY <1>1, <1>4, <2>5, <3>1, GotoMoves, NextLegMoves DEF CreditDriver, RideOf
        <3>. QED
            BY <2>5, <3>2 DEF CreditDriver, keyVars
    <2>6. CASE CacheResult(t) \/ ClearPending(t)
        <3>1. Credited(r)
            BY <1>1, <2>6 DEF CacheResult, ClearPending, Books, Established
        <3>. QED
            BY <1>3, <2>6, <3>1 DEF CacheResult, ClearPending, keyVars
    <2>7. CASE FailReleasing(t)
        <3>1. Moves({"register", "check", "dlq"})
            BY <1>1, <2>7, FailureMoves DEF FailReleasing, RideOf
        <3>2. r \notin marker' \/ Accounted(r)'
            BY <2>7 DEF FailReleasing, Accounted
        <3>. QED
            BY <2>7, <3>1, <3>2 DEF FailReleasing
    <2>8. CASE MoveToDLQ(t)
        <3>1. Accounted(r)'
            BY <2>8 DEF MoveToDLQ, Accounted
        <3>. QED
            BY <2>8, <3>1 DEF MoveToDLQ, keyVars
    <2>9. CASE Acknowledge(t)
        BY <2>9 DEF Acknowledge, keyVars
    <2>10. CASE RegisterAttempt(t)
        <3>1. pending[r] # None \/ Credited(r)
            BY <1>1, <2>10 DEF RegisterAttempt, Traces, Typed, ThreadsHold
        <3>2. Accounted(r)'
            BY <1>2, <1>3, <3>1 DEF Accounted
        <3>. QED
            BY <2>10, <3>2 DEF RegisterAttempt, keyVars
    <2>. QED
        BY <2>1, <2>2, <2>3, <2>4, <2>5, <2>6, <2>7, <2>8, <2>9, <2>10 DEF Handle, Finish
<1>7. /\ thread'[t].at \in {"cached", "ack"} => thread'[t].ride = r /\ Claimed(r)
      /\ \A x \in Rides : event'[x] = "acked" => event[x] = "acked" \/ (x = r /\ At(t, "ack"))
    <2>1. /\ thread'[t] = Idle \/ thread'[t].ride = r
          /\ Idle.at = "idle"
        BY <1>1, HoldsAfter, IdleFields DEF RideOf
    <2>2. thread[t].at \in Responsible \cup {"cached", "ack", "clear"}
        BY DEF Handle, Finish, SkipSmallFee, CheckAndSet, Duplicate, PostSettlement,
            CreditDriver, CacheResult, ClearPending, FailReleasing, MoveToDLQ, Acknowledge,
            RegisterAttempt, At, Responsible, Working
    <2>3. Claimed(r)
        <3>1. CASE thread[t].at \in Responsible
            BY <3>1 DEF Claimed, HasWorker
        <3>2. CASE thread[t].at \in {"cached", "ack"}
            BY <3>2 DEF Traces, At
        <3>3. CASE thread[t].at = "clear"
            BY <1>1, <3>3 DEF Books, Established, At, Claimed, Accounted
        <3>. QED
            BY <2>2, <3>1, <3>2, <3>3
    <2>4. \A x \in Rides : event'[x] = "acked" => event[x] = "acked" \/ (x = r /\ At(t, "ack"))
        <3>1. event' = event \/ Acknowledge(t)
            BY DEF Handle, Finish, SkipSmallFee, CheckAndSet, Duplicate, PostSettlement,
                CreditDriver, CacheResult, ClearPending, FailReleasing, MoveToDLQ,
                RegisterAttempt, streamVars
        <3>. QED
            <4>1. CASE event' = event
                BY <4>1
            <4>2. CASE event' = [event EXCEPT ![r] = "acked"] /\ At(t, "ack")
                BY <1>1, <4>2 DEF TypeOK
            <4>. QED
                BY <3>1, <4>1, <4>2 DEF Acknowledge
    <2>. QED
        BY <2>1, <2>3, <2>4
<1>8. ASSUME NEW x \in Rides, HasWorker(x, Responsible) PROVE Claimed(x)'
    <2>1. PICK u \in Threads : RideOf(u) = x /\ thread[u].at \in Responsible
        BY <1>8 DEF HasWorker
    <2>2. ASSUME NEW v \in Threads, v # t, RideOf(v) = x, thread[v].at \in Responsible
          PROVE  Claimed(x)'
        BY <1>2, <2>2 DEF Others, Claimed, HasWorker, RideOf
    <2>3. CASE u = t /\ Moves(Responsible)
        BY <2>1, <2>3 DEF Claimed, HasWorker, RideOf
    <2>4. CASE u = t /\ Accounted(r)'
        BY <2>1, <2>4 DEF Claimed
    <2>5. CASE u = t /\ Backed
        BY <2>1, <2>2, <2>5 DEF Responsible
    <2>. QED
        BY <1>6, <2>1, <2>2, <2>3, <2>4, <2>5
<1>9. ASSUME NEW x \in Rides, HasWorker(x, Working) PROVE Held(x)' \/ x \notin marker'
    <2>1. PICK u \in Threads : RideOf(u) = x /\ thread[u].at \in Working
        BY <1>9 DEF HasWorker
    <2>2. CASE u # t
        BY <1>2, <2>1, <2>2 DEF Others, Held, HasWorker, RideOf
    <2>3. CASE u = t /\ Moves(Working)
        BY <2>1, <2>3 DEF Held, HasWorker, RideOf
    <2>4. CASE u = t /\ (Accounted(r)' \/ r \notin marker')
        BY <2>1, <2>4 DEF Held
    <2>. QED
        BY <1>6, <2>1, <2>2, <2>3, <2>4
<1>10. \A x \in marker' : x \in marker \/ Held(x)'
    BY <1>6 DEF Held, HasWorker, RideOf
<1>11. \A u \in Threads : thread'[u].at \in {"cached", "ack"} => Claimed(thread'[u].ride)
    BY <1>2, <1>7 DEF Others, Traces, At, RideOf
<1>12. \A x \in Rides : event'[x] = "acked" => Claimed(x)
    BY <1>7 DEF Traces, At
<1>13. \A u \in Threads : ~IsStream(u) /\ thread'[u].at # "idle" =>
           (pending[RideOf(u)] # None \/ Credited(RideOf(u)))'
    <2>. SUFFICES ASSUME NEW u \in Threads, ~IsStream(u), thread'[u].at # "idle"
                  PROVE  (pending[RideOf(u)] # None \/ Credited(RideOf(u)))'
        OBVIOUS
    <2>1. thread[u].at # "idle" /\ thread'[u].ride = RideOf(u) /\ RideOf(u) \in Rides
        <3>1. CASE u # t
            BY <1>1, <1>2, <3>1 DEF Others, RideOf, Typed, ThreadsHold, At
        <3>2. CASE u = t
            <4>1. thread[t].at # "idle"
                BY DEF Handle, Finish, SkipSmallFee, CheckAndSet, Duplicate, PostSettlement,
                    CreditDriver, CacheResult, ClearPending, FailReleasing, MoveToDLQ,
                    Acknowledge, RegisterAttempt, At
            <4>. QED
                BY <1>1, <1>2, <3>2, <4>1, HoldsAfter, IdleFields DEF RideOf
        <3>. QED
            BY <3>1, <3>2
    <2>2. pending[RideOf(u)] # None \/ Credited(RideOf(u))
        BY <2>1 DEF Traces, At
    <2>3. RideOf(u)' = RideOf(u)
        BY <2>1 DEF RideOf
    <2>. QED
        BY <1>3, <2>1, <2>2, <2>3
<1>. QED
    BY <1>2, <1>3, <1>8, <1>9, <1>10, <1>11, <1>12, <1>13, TracesKept

\* A thread that starts becomes responsible; nobody else moves.
LEMMA TracesStarts ==
    ASSUME Traces, NEW r \in Rides, NEW t \in Threads,
           Read(t, r) \/ Reclaim(t, r) \/ Sweep(t, r)
    PROVE  Traces'
<1>1. Books /\ Typed /\ TypeOK /\ Next /\ Books'
    BY BooksElsewhere DEF Traces, Books, Typed, Next
<1>2. /\ thread[t].at = "idle" /\ UNCHANGED <<kind, pending, marker, dlq, credits, dropped>>
      /\ \A x \in Rides : event'[x] = "acked" => event[x] = "acked"
    BY <1>1 DEF Read, Reclaim, Sweep, At, streamVars, keyVars, bookVars, TypeOK
<1>3. PICK k \in Nat : Start(t, r, k)
    <2>1. 0 \in Nat /\ (Sweep(t, r) => pending[r] \in Nat)
        BY <1>1, BoundsAssumption DEF Sweep, TypeOK
    <2>. QED
        BY <2>1 DEF Read, Reclaim, Sweep
<1>4. Others(t) /\ thread'[t].at = "check" /\ thread'[t].ride = r
    BY <1>1, <1>3, StartMoves
<1>5. \A x : (Accounted(x) <=> Accounted(x)') /\ (Credited(x) <=> Credited(x)')
    BY <1>2 DEF Accounted, Credited, Legs, LastLeg
<1>6. "idle" \notin Responsible /\ "idle" \notin Working
    BY DEF Responsible, Working
<1>7. \A S, x : "idle" \notin S /\ HasWorker(x, S) => HasWorker(x, S)'
    BY <1>2, <1>4 DEF HasWorker, Others, RideOf
<1>8. \A u \in Threads : ~IsStream(u) /\ thread'[u].at # "idle" =>
          (pending[RideOf(u)] # None \/ Credited(RideOf(u)))'
    <2>1. ASSUME NEW u \in Threads, u # t, ~IsStream(u), thread'[u].at # "idle"
          PROVE  (pending[RideOf(u)] # None \/ Credited(RideOf(u)))'
        BY <1>2, <1>4, <1>5, <2>1 DEF Traces, Others, At, RideOf
    <2>2. ~IsStream(t) => pending'[r] # None
        BY <1>2 DEF Read, Reclaim, Sweep
    <2>. QED
        BY <1>4, <2>1, <2>2 DEF RideOf
<1>9. \A u \in Threads : thread'[u].at \in {"cached", "ack"} => Claimed(thread'[u].ride)
    BY <1>4 DEF Others, Traces, At, RideOf
<1>10. \A x \in Rides : HasWorker(x, Responsible) => Claimed(x)'
    BY <1>6, <1>7 DEF Claimed
<1>11. \A x \in Rides : HasWorker(x, Working) => Held(x)'
    BY <1>6, <1>7 DEF Held
<1>12. \A x \in Rides : event'[x] = "acked" => Claimed(x)
    BY <1>2 DEF Traces
<1>. QED
    BY <1>1, <1>2, <1>5, <1>8, <1>9, <1>10, <1>11, <1>12, TracesKept

\* The commands and the ends of the keys move no thread.
LEMMA TracesCommands ==
    ASSUME Traces, NEW r \in Rides,
           RecordPending(r) \/ Publish(r) \/ ExpireMarker(r) \/ ExpireResult(r)
    PROVE  Traces'
<1>1. Books /\ Typed /\ TypeOK /\ Next /\ Books'
    BY BooksElsewhere DEF Traces, Books, Typed, Next
<1>2. /\ thread' = thread /\ marker' \subseteq marker
      /\ \A x \in Rides : event'[x] = "acked" => event[x] = "acked"
    BY <1>1 DEF RecordPending, Publish, ExpireMarker, ExpireResult, streamVars, keyVars, TypeOK
<1>3. /\ \A x \in Rides : Accounted(x) => Accounted(x)'
      /\ \A x \in Rides : pending[x] # None \/ Credited(x) => (pending[x] # None \/ Credited(x))'
    BY <1>1, StaysAccounted
<1>4. \A S, x : HasWorker(x, S) <=> HasWorker(x, S)'
    BY <1>2 DEF HasWorker, RideOf
<1>5. \A u \in Threads : ~IsStream(u) /\ thread'[u].at # "idle" =>
          (pending[RideOf(u)] # None \/ Credited(RideOf(u)))'
    <2>. SUFFICES ASSUME NEW u \in Threads, ~IsStream(u), thread'[u].at # "idle"
                  PROVE  (pending[RideOf(u)] # None \/ Credited(RideOf(u)))'
        OBVIOUS
    <2>1. PICK x \in Rides : x = RideOf(u) /\ x = RideOf(u)'
        BY <1>1, <1>2 DEF Typed, ThreadsHold, At, RideOf
    <2>2. pending[x] # None \/ Credited(x)
        BY <1>2, <2>1 DEF Traces, At
    <2>3. (pending[x] # None \/ Credited(x))'
        BY <1>3, <2>2
    <2>. QED
        BY <2>1, <2>3
<1>6. \A u \in Threads : thread'[u].at \in {"cached", "ack"} => Claimed(thread'[u].ride)
    BY <1>2 DEF Traces, At, RideOf
<1>7. \A x \in Rides : HasWorker(x, Responsible) => Claimed(x)'
    BY <1>4 DEF Claimed
<1>8. \A x \in Rides : HasWorker(x, Working) => Held(x)'
    BY <1>4 DEF Held
<1>9. \A x \in Rides : event'[x] = "acked" => Claimed(x)
    BY <1>2 DEF Traces
<1>. QED
    BY <1>1, <1>2, <1>3, <1>5, <1>6, <1>7, <1>8, <1>9, TracesKept

\* The rides of a worker that dies are dropped.
LEMMA TracesCrash ==
    ASSUME Traces, NEW w \in Workers, Crash(w)
    PROVE  Traces'
<1>1. Books /\ Typed /\ TypeOK /\ Next /\ Books'
    BY BooksElsewhere DEF Traces, Books, Typed, Next
<1>2. UNCHANGED <<kind, pending, marker, dlq, credits, event>>
    BY DEF Crash, streamVars, keyVars, bookVars
<1>3. \A u \in Threads : thread'[u] = thread[u] \/ (thread'[u] = Idle /\ u[1] = w)
    <2>1. thread' = [u \in Threads |-> IF u[1] = w THEN Idle ELSE thread[u]]
        BY DEF Crash
    <2>. QED
        BY <2>1
<1>4. \A u \in Threads, x \in Rides : u[1] = w /\ RideOf(u) = x => x \in dropped'
    BY DEF Crash
<1>5. \A x \in Rides : Accounted(x) => Accounted(x)'
    BY <1>1, StaysAccounted
<1>6. \A S : \A x \in Rides : HasWorker(x, S) => HasWorker(x, S)' \/ Accounted(x)'
    <2>. SUFFICES ASSUME NEW S, NEW x \in Rides, HasWorker(x, S)
                  PROVE  HasWorker(x, S)' \/ Accounted(x)'
        OBVIOUS
    <2>1. PICK u \in Threads : RideOf(u) = x /\ thread[u].at \in S
        BY DEF HasWorker
    <2>. QED
        BY <1>3, <1>4, <2>1 DEF HasWorker, Accounted, RideOf
<1>7. \A u \in Threads : ~IsStream(u) /\ thread'[u].at # "idle" =>
          (pending[RideOf(u)] # None \/ Credited(RideOf(u)))'
    BY <1>2, <1>3, IdleFields DEF Traces, At, RideOf, Credited, Legs, LastLeg
<1>8. \A u \in Threads : thread'[u].at \in {"cached", "ack"} => Claimed(thread'[u].ride)
    BY <1>3, IdleFields DEF Traces, At, RideOf
<1>9. \A x \in Rides : HasWorker(x, Responsible) => Claimed(x)'
    BY <1>6 DEF Claimed
<1>10. \A x \in Rides : HasWorker(x, Working) => Held(x)'
    BY <1>6 DEF Held
<1>11. \A x \in Rides : event'[x] = "acked" => Claimed(x)
    BY <1>2 DEF Traces
<1>. QED
    BY <1>1, <1>2, <1>5, <1>7, <1>8, <1>9, <1>10, <1>11, TracesKept

\* Every step keeps the traces.
LEMMA TracesStep == Traces /\ [Next]_vars => Traces'
<1>. SUFFICES ASSUME Traces, [Next]_vars PROVE Traces'
    OBVIOUS
<1>1. CASE UNCHANGED vars
    <2>1. Books'
        BY <1>1, BooksStep DEF Traces
    <2>. QED
        BY <1>1, <2>1 DEF Traces, vars, streamVars, keyVars, bookVars, Held, Claimed, Accounted,
            HasWorker, RideOf, At, IsStream, Credited, Legs, LastLeg
<1>2. CASE Next
    BY <1>2, TracesCommands, TracesStarts, TracesHandle, TracesCrash DEF Next
<1>. QED
    BY <1>1, <1>2

\* However deliveries, sweeps and retries overlap, an acknowledged event whose
\* ride is not credited has left a dead letter, a pending fee or a worker
\* behind, unless a worker died on it or failed at its last write.
THEOREM NothingVanishes == Spec => []UncreditedLeavesTrace
<1>1. Traces => UncreditedLeavesTrace
    BY DEF Traces, UncreditedLeavesTrace, Claimed, Accounted, HasWorker, Busy
<1>. QED
    BY <1>1, TracesInit, TracesStep, PTL DEF Spec
=============================================================================
