----------------------------- MODULE BillingWorker -----------------------------
(***************************************************************************)
(* How a finished or canceled ride becomes money of a driver.               *)
(*                                                                          *)
(* A command leaves an event in the stream ride_events (and, for a          *)
(* cancellation fee, an entry of billing:cancellation_credit_pending).      *)
(* Billing workers take events from a consumer group, retry, reclaim what   *)
(* another consumer left behind, give up into a dead-letter stream; the     *)
(* sweep of each worker goes over the pending fees.  Both run the same      *)
(* handler under an idempotency key (marker and cached result), which posts *)
(* the settlement and credits the driver in Firestore.                      *)
(*                                                                          *)
(* One action is one Redis call or one Firestore transaction.  A fault of   *)
(* either (an error, a reply that is lost) and a crash of a worker are      *)
(* counted in faults; MaxFaults bounds them.                                *)
(***************************************************************************)
EXTENDS Naturals

CONSTANTS Rides, Workers, None,
          Sweepers,      \* the workers whose sweep runs too (all, in the code)
          MaxLegs,       \* the most legs a ride is settled in
          MaxRetries,    \* WorkerManager.maxRetries
          MaxAttempts,   \* MAX_AUTOMATIC_ATTEMPTS of the sweep
          MaxFaults

ASSUME BoundsAssumption ==
    /\ MaxLegs \in Nat \ {0}
    /\ MaxRetries \in Nat
    /\ MaxAttempts \in Nat \ {0}
    /\ MaxFaults \in Nat

ASSUME SweepersAssumption == Sweepers \subseteq Workers

ASSUME NoneAssumption == None \notin Rides \cup Nat

VARIABLES kind,      \* what the ride owes; fixed in the initial state
          pending,   \* attempts of the pending cancellation fee, or None
          event,     \* the ride's event in ride_events and its consumer group
          dlq,       \* rides with an entry in ride_events_dlq
          marker,    \* idempotency:K, rides that have it
          result,    \* idempotency:result:K, rides that have it
          ledger,    \* rides whose settlement is posted
          credits,   \* credit documents <<ride, leg>> of the drivers
          balance,   \* how often <<ride, leg>> was added to a balance
          thread,    \* the stream loop and the sweep of each worker
          dropped,   \* rides a worker left without an outcome: it died, or
                     \* could not release the marker or write the dead letter
          faults

streamVars == <<event, dlq>>
keyVars == <<marker, result>>
bookVars == <<ledger, credits, balance>>
vars == <<kind, pending, streamVars, keyVars, bookVars, thread, dropped, faults>>

-----------------------------------------------------------------------------
\* ride: one settled leg; legs: several legs (no settlement is posted);
\* review: settled by hand; cancel: a cancellation fee; small: a fee that
\* does not exceed the provider's cost.
Kinds == {"ride", "legs", "review", "cancel", "small"}
Fee == {"cancel", "small"}

LastLeg(r) == IF kind[r] = "legs" THEN MaxLegs ELSE 1
Legs(r) == IF kind[r] \in {"review", "small"} THEN {} ELSE 1..LastLeg(r)
Credited(r) == \A l \in Legs(r) : <<r, l>> \in credits
Posts(r) == kind[r] \in {"ride", "cancel"}

Threads == Workers \X {"stream"} \cup Sweepers \X {"sweep"}
Steps == {"idle", "check", "cached", "ledger", "credit", "cache", "clear",
          "release", "dlq", "ack", "register"}
Idle == [at |-> "idle", ride |-> None, leg |-> 1, n |-> 0]

At(t, s) == thread[t].at = s
RideOf(t) == thread[t].ride
IsStream(t) == t[2] = "stream"
Busy(r) == \E t \in Threads : RideOf(t) = r

Goto(t, s) == thread' = [thread EXCEPT ![t].at = s]
Rest(t) == thread' = [thread EXCEPT ![t] = Idle]
Start(t, r, k) ==
    thread' = [thread EXCEPT ![t] = [at |-> "check", ride |-> r, leg |-> 1, n |-> k]]

NextLeg(t) == thread' = [thread EXCEPT ![t].leg = thread[t].leg + 1]

\* The handler returned a success: the stream acknowledges, the sweep goes on.
Succeed(t) == IF IsStream(t) THEN Goto(t, "ack") ELSE Rest(t)

Fault == faults < MaxFaults /\ faults' = faults + 1

Init ==
    /\ kind \in [Rides -> Kinds]
    /\ pending = [r \in Rides |-> None]
    /\ event = [r \in Rides |-> "none"]
    /\ dlq = {}
    /\ marker = {} /\ result = {}
    /\ ledger = {} /\ credits = {}
    /\ balance = [p \in Rides \X (1..MaxLegs) |-> 0]
    /\ thread = [t \in Threads |-> Idle]
    /\ dropped = {}
    /\ faults = 0

-----------------------------------------------------------------------------
(* The commands.                                                            *)

\* recordPendingCancellationCredit, before the event; an error is only logged.
RecordPending(r) ==
    /\ event[r] = "none" /\ kind[r] \in Fee
    /\ event' = [event EXCEPT ![r] = "recorded"]
    /\ \/ pending' = [pending EXCEPT ![r] = 0] /\ UNCHANGED faults
       \/ Fault /\ UNCHANGED pending
    /\ UNCHANGED <<kind, dlq, keyVars, bookVars, thread, dropped>>

\* eventBus.publish.  recordEvent swallows an error, a command that died here
\* is answered as an idempotent replay without an event: the event is lost.
Publish(r) ==
    /\ \/ event[r] = "recorded"
       \/ event[r] = "none" /\ kind[r] \notin Fee
    /\ \/ event' = [event EXCEPT ![r] = "new"] /\ UNCHANGED faults
       \/ event' = [event EXCEPT ![r] = "lost"] /\ Fault
    /\ UNCHANGED <<kind, pending, dlq, keyVars, bookVars, thread, dropped>>

-----------------------------------------------------------------------------
(* The two loops of a worker.                                               *)

\* XREADGROUP of a new event, or XAUTOCLAIM of one delivered and not yet
\* acknowledged.  The back-offs of processWithRetry last about as long as the
\* minimum idle time, so its consumer may still be at work on it.
Read(t, r) ==
    /\ IsStream(t) /\ At(t, "idle")
    /\ event[r] = "new"
    /\ event' = [event EXCEPT ![r] = "delivered"]
    /\ Start(t, r, 0)
    /\ UNCHANGED <<kind, pending, dlq, keyVars, bookVars, dropped, faults>>

Reclaim(t, r) ==
    /\ IsStream(t) /\ At(t, "idle")
    /\ event[r] = "delivered"
    /\ Start(t, r, 0)
    /\ UNCHANGED <<kind, pending, streamVars, keyVars, bookVars, dropped, faults>>

\* sweepPendingCancellationCredits: the entry is a snapshot, whose attempts
\* are written back as they were read.
Sweep(t, r) ==
    /\ ~IsStream(t) /\ At(t, "idle")
    /\ pending[r] # None /\ pending[r] < MaxAttempts
    /\ Start(t, r, pending[r])
    /\ UNCHANGED <<kind, pending, streamVars, keyVars, bookVars, dropped, faults>>

\* Fault: an event out of retries is acknowledged without a dead letter.
AfterFailureGivingUp(t) ==
    \/ ~IsStream(t) /\ Goto(t, "register")
    \/ IsStream(t) /\ thread[t].n < MaxRetries /\ Start(t, RideOf(t), thread[t].n + 1)
    \/ IsStream(t) /\ thread[t].n >= MaxRetries /\ Goto(t, "ack")

\* processWithRetry after a failure: the stream retries, then gives up into
\* the dead-letter stream; the sweep registers the attempt.
AfterFailure(t) ==
    \/ ~IsStream(t) /\ Goto(t, "register")
    \/ IsStream(t) /\ thread[t].n < MaxRetries /\ Start(t, RideOf(t), thread[t].n + 1)
    \/ IsStream(t) /\ thread[t].n >= MaxRetries /\ Goto(t, "dlq")

\* moveToDLQ, then the acknowledgement; an error leaves the event delivered.
MoveToDLQ(t) ==
    /\ At(t, "dlq")
    /\ \/ dlq' = dlq \cup {RideOf(t)} /\ Goto(t, "ack") /\ UNCHANGED <<dropped, faults>>
       \/ /\ Fault /\ Rest(t)
          /\ dropped' = dropped \cup {RideOf(t)}
          /\ UNCHANGED dlq
    /\ UNCHANGED <<kind, pending, event, keyVars, bookVars>>

\* XACK; an error leaves the event in the pending list of the group.
Acknowledge(t) ==
    /\ At(t, "ack")
    /\ Rest(t)
    /\ \/ event' = [event EXCEPT ![RideOf(t)] = "acked"] /\ UNCHANGED faults
       \/ Fault /\ UNCHANGED event
    /\ UNCHANGED <<kind, pending, dlq, keyVars, bookVars, dropped>>

\* registerPendingAttempt writes the snapshot back, even over an entry that
\* was cleared or counted higher since.
RegisterAttempt(t) ==
    /\ At(t, "register")
    /\ Rest(t)
    /\ \/ pending' = [pending EXCEPT ![RideOf(t)] = thread[t].n + 1] /\ UNCHANGED faults
       \/ Fault /\ UNCHANGED pending
    /\ UNCHANGED <<kind, streamVars, keyVars, bookVars, dropped>>

-----------------------------------------------------------------------------
(* The handler: processCancellationCredit and the ride.completed listener.  *)

\* What follows a new idempotency key.
Begin(t) ==
    \/ Posts(RideOf(t)) /\ Goto(t, "ledger")
    \/ kind[RideOf(t)] = "legs" /\ Goto(t, "credit")
    \/ kind[RideOf(t)] = "review" /\ Goto(t, "cache")

\* idempotencyService.checkAndSet: SET NX; on an error the request is taken
\* as new, whether or not the marker was set.
CheckAndSet(t) ==
    LET r == RideOf(t) IN
    /\ At(t, "check") /\ kind[r] # "small"
    /\ \/ /\ r \notin marker
          /\ marker' = marker \cup {r}
          /\ Begin(t) /\ UNCHANGED faults
       \/ /\ r \in marker
          /\ Goto(t, "cached") /\ UNCHANGED <<marker, faults>>
       \/ /\ Fault /\ Begin(t)
          /\ marker' \in {marker, marker \cup {r}}
    /\ UNCHANGED <<kind, pending, streamVars, result, bookVars, dropped>>

\* A fee below the provider's cost has nothing to credit.
SkipSmallFee(t) ==
    /\ At(t, "check") /\ kind[RideOf(t)] = "small"
    /\ Goto(t, "clear")
    /\ UNCHANGED <<kind, pending, streamVars, keyVars, bookVars, dropped, faults>>

\* Fault: the pending fee is cleared on every duplicate, finished or not.
DuplicateAlwaysClears(t) ==
    /\ At(t, "cached")
    /\ IF kind[RideOf(t)] = "cancel" THEN Goto(t, "clear") ELSE Succeed(t)
    /\ UNCHANGED <<kind, pending, streamVars, keyVars, bookVars, dropped, faults>>

\* A duplicate: a cached result says that the credit was finished; without
\* one the event is still acknowledged, and the sweep leaves the entry alone.
\* The GET is inside the try of checkAndSet: an error makes it new again.
Duplicate(t) ==
    LET r == RideOf(t) IN
    /\ At(t, "cached")
    /\ \/ /\ r \in result
          /\ IF kind[r] = "cancel" THEN Goto(t, "clear") ELSE Succeed(t)
          /\ UNCHANGED faults
       \/ /\ r \notin result
          /\ Succeed(t) /\ UNCHANGED faults
       \/ Fault /\ Begin(t)
    /\ UNCHANGED <<kind, pending, streamVars, keyVars, bookVars, dropped>>

\* Fault: the driver is credited although the ledger refused the settlement.
PostSettlementBestEffort(t) ==
    LET r == RideOf(t) IN
    /\ At(t, "ledger")
    /\ Goto(t, "credit")
    /\ \/ ledger' = ledger \cup {r} /\ UNCHANGED faults
       \/ Fault /\ UNCHANGED ledger
    /\ UNCHANGED <<kind, pending, streamVars, keyVars, credits, balance, dropped>>

\* recordRideSettlement, recordCancellationSettlement: a transaction on the
\* document of the event.  A failure may have committed.
PostSettlement(t) ==
    LET r == RideOf(t) IN
    /\ At(t, "ledger")
    /\ \/ ledger' = ledger \cup {r} /\ Goto(t, "credit") /\ UNCHANGED faults
       \/ /\ Fault /\ Goto(t, "release")
          /\ ledger' \in {ledger, ledger \cup {r}}
    /\ UNCHANGED <<kind, pending, streamVars, keyVars, credits, balance, dropped>>

\* Fault: the credit document is not looked for in the transaction.
ApplyCreditBlindly(p) ==
    /\ credits' = credits \cup {p}
    /\ balance' = [balance EXCEPT ![p] = @ + 1]

\* The transaction of creditDriverBalance.
ApplyCredit(p) ==
    IF p \in credits THEN UNCHANGED <<credits, balance>>
    ELSE /\ credits' = credits \cup {p}
         /\ balance' = [balance EXCEPT ![p] = @ + 1]

\* Fault: the loop over the legs runs once too often.
CreditDriverPastTheEnd(t) ==
    LET r == RideOf(t)
        l == thread[t].leg IN
    /\ At(t, "credit")
    /\ ApplyCredit(<<r, l>>)
    /\ IF l <= LastLeg(r) THEN NextLeg(t) ELSE Goto(t, "cache")
    /\ UNCHANGED <<kind, pending, streamVars, keyVars, ledger, dropped, faults>>

\* One leg after the other.  A failure may have committed; the settlement of
\* a ride also fails after its credit while the passenger's refund is pending.
CreditDriver(t) ==
    LET r == RideOf(t)
        l == thread[t].leg IN
    /\ At(t, "credit")
    /\ \/ /\ ApplyCredit(<<r, l>>)
          /\ IF l < LastLeg(r) THEN NextLeg(t) ELSE Goto(t, "cache")
          /\ UNCHANGED faults
       \/ /\ Fault /\ Goto(t, "release")
          /\ ApplyCredit(<<r, l>>) \/ UNCHANGED <<credits, balance>>
    /\ UNCHANGED <<kind, pending, streamVars, keyVars, ledger, dropped>>

\* cacheResult; an error is swallowed.
CacheResult(t) ==
    LET r == RideOf(t) IN
    /\ At(t, "cache")
    /\ IF kind[r] = "cancel" THEN Goto(t, "clear") ELSE Succeed(t)
    /\ \/ result' = result \cup {r} /\ UNCHANGED faults
       \/ Fault /\ UNCHANGED result
    /\ UNCHANGED <<kind, pending, streamVars, marker, bookVars, dropped>>

\* Fault: the pending entry of a finished fee is left to the sweep.
ClearPendingNever(t) ==
    /\ At(t, "clear")
    /\ Succeed(t)
    /\ UNCHANGED <<kind, pending, streamVars, keyVars, bookVars, dropped, faults>>

\* clearCancellationCreditPending; an error is swallowed.
ClearPending(t) ==
    /\ At(t, "clear")
    /\ Succeed(t)
    /\ \/ pending' = [pending EXCEPT ![RideOf(t)] = None] /\ UNCHANGED faults
       \/ Fault /\ UNCHANGED pending
    /\ UNCHANGED <<kind, streamVars, keyVars, bookVars, dropped>>

\* Fault: a branch throws without releasing the marker.
FailHoldingMarker(t) ==
    /\ At(t, "release")
    /\ AfterFailure(t)
    /\ UNCHANGED <<kind, pending, streamVars, keyVars, bookVars, dropped, faults>>

\* releaseInflight and the throw; an error is swallowed.
FailReleasing(t) ==
    /\ At(t, "release")
    /\ AfterFailure(t)
    /\ \/ marker' = marker \ {RideOf(t)} /\ UNCHANGED <<dropped, faults>>
       \/ /\ Fault
          /\ dropped' = dropped \cup {RideOf(t)}
          /\ UNCHANGED marker
    /\ UNCHANGED <<kind, pending, streamVars, result, bookVars>>

-----------------------------------------------------------------------------
(* Time and failures.                                                       *)

\* Seven days after they were set, whoever is at work then.
ExpireMarker(r) ==
    /\ r \in marker
    /\ marker' = marker \ {r}
    /\ UNCHANGED <<kind, pending, streamVars, result, bookVars, thread, dropped, faults>>

ExpireResult(r) ==
    /\ r \in result
    /\ result' = result \ {r}
    /\ UNCHANGED <<kind, pending, streamVars, marker, bookVars, thread, dropped, faults>>

Crash(w) ==
    /\ Fault
    /\ \E t \in Threads : t[1] = w /\ ~At(t, "idle")
    /\ thread' = [t \in Threads |-> IF t[1] = w THEN Idle ELSE thread[t]]
    /\ dropped' = dropped \cup
         {r \in Rides : \E t \in Threads : t[1] = w /\ RideOf(t) = r}
    /\ UNCHANGED <<kind, pending, streamVars, keyVars, bookVars>>

-----------------------------------------------------------------------------
Handle(t) ==
    \/ SkipSmallFee(t)
    \/ CheckAndSet(t)
    \/ Duplicate(t)
    \/ PostSettlement(t)
    \/ CreditDriver(t)
    \/ CacheResult(t)
    \/ ClearPending(t)
    \/ FailReleasing(t)

Finish(t) ==
    \/ MoveToDLQ(t)
    \/ Acknowledge(t)
    \/ RegisterAttempt(t)

Next ==
    \/ \E r \in Rides :
        \/ RecordPending(r)
        \/ Publish(r)
        \/ ExpireMarker(r)
        \/ ExpireResult(r)
        \/ \E t \in Threads : Read(t, r) \/ Reclaim(t, r) \/ Sweep(t, r)
    \/ \E t \in Threads : Handle(t) \/ Finish(t)
    \/ \E w \in Workers : Crash(w)

Spec == Init /\ [][Next]_vars

\* A worker goes on with what it began, reads and reclaims the stream, sweeps
\* every minute, and a key with a TTL ends.  Nothing makes a fault happen.
Fairness ==
    /\ \A t \in Threads : WF_vars(Handle(t) \/ Finish(t))
    /\ \A r \in Rides :
        /\ SF_vars(\E t \in Threads : Read(t, r) \/ Reclaim(t, r))
        /\ SF_vars(\E t \in Threads : Sweep(t, r))
        /\ WF_vars(ExpireMarker(r))

FairSpec == Spec /\ Fairness

-----------------------------------------------------------------------------
(* Properties.                                                              *)

\* Every variable holds what the code can store there.
TypeOK ==
    /\ kind \in [Rides -> Kinds]
    /\ pending \in [Rides -> 0..MaxAttempts \cup {None}]
    /\ event \in [Rides -> {"none", "recorded", "new", "delivered", "acked", "lost"}]
    /\ dlq \subseteq Rides /\ marker \subseteq Rides /\ result \subseteq Rides
    /\ ledger \subseteq Rides /\ dropped \subseteq Rides
    /\ credits \subseteq Rides \X (1..MaxLegs)
    /\ balance \in [Rides \X (1..MaxLegs) -> Nat]
    /\ thread \in [Threads -> [at : Steps, ride : Rides \cup {None},
                               leg : 1..MaxLegs, n : Nat]]
    /\ faults \in 0..MaxFaults

\* Two workers may be inside the handler of one ride at a time (a reclaimed
\* event, a sweep, a fail-open check, a released marker), and each may be
\* repeated: a ride is still posted once, and a leg paid at most once and
\* never before the settlement it belongs to (processNetDistribution,
\* processCancellationDistribution, creditDriverBalance).
Credits == INSTANCE DriverCredits WITH
    Parts <- Rides \X (1..MaxLegs),
    settled <- {r \in Rides : Posts(r)},
    posted <- ledger,
    paid <- balance

ImplementsDriverCredits == Credits!Spec

\* cancellation-credit-pending-service.js: "o billing-worker so apaga a
\* pendencia depois de creditar".  An entry goes away only once the fee is
\* credited (or is not worth a credit), whoever the result came from.
PendingClearedOnlyOnceCredited ==
    [][\A r \in Rides :
         pending[r] # None /\ pending'[r] = None => Credited(r)]_vars

\* An event that was acknowledged although its ride is not credited leaves
\* something behind: a worker at work on it, a dead letter, a pending fee;
\* unless a worker died on it, or failed to release its marker or to write
\* its dead letter.
UncreditedLeavesTrace ==
    \A r \in Rides :
        event[r] = "acked" /\ ~Credited(r) =>
            \/ Busy(r)
            \/ r \in dlq
            \/ pending[r] # None
            \/ r \in dropped

\* A recorded fee is credited in the end, or waits for manual review with
\* all its automatic attempts used, even if its event was lost, its worker
\* died or its marker was left behind.
PendingFeeSettles ==
    \A r \in Rides :
        pending[r] # None ~> pending[r] = None \/ pending[r] = MaxAttempts

\* A published event leads to the credit of every leg, to a dead letter, to a
\* manual review, or to a ride a worker left without an outcome.
EventSettles ==
    \A r \in Rides :
        event[r] = "new" ~> \/ Credited(r) \/ r \in dlq
                            \/ pending[r] = MaxAttempts
                            \/ r \in dropped
=============================================================================
