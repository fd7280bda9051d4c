----------------------------- MODULE RideCommands -----------------------------
(***************************************************************************)
(* The commands that move a ride through its life, as they run against the  *)
(* keys they share in Redis:                                                *)
(*                                                                          *)
(*   booking  booking:B, its state, status, driverId and ownerDriverId      *)
(*   lock     driver_lock:D                                                 *)
(*   trip     active_trip_by_driver:D (its lease: see ActiveTripIndex)      *)
(*   offer    offer_reservation:B:D and driver_active_notification:D        *)
(*   timer    response timers armed in the memory of a process              *)
(*                                                                          *)
(* Each access to Redis or to the payment provider is one step.  cmd holds  *)
(* the commands under way: what each one read when it began and the steps   *)
(* it has still to take, so that any two commands may interleave.  The Lua  *)
(* scripts of accept are single steps.                                      *)
(*                                                                          *)
(* SEARCHING stands for every state and status in which the ride waits for  *)
(* a driver, AWAITING for NOTIFIED and AWAITING_RESPONSE, IN_PROGRESS also   *)
(* for REASSIGNED_IN_PROGRESS.                                              *)
(***************************************************************************)
EXTENDS Naturals, Sequences

CONSTANTS Driver, Booking, Slot, None,
          Ops,         \* the commands of this instance
          Fragile,     \* those whose process may die between two steps
          Serialized   \* is a booking served by one command at a time?

Op == {"offer", "timeout", "accept", "arrive", "start", "cancel", "complete", "recover"}

ASSUME OpsAssumption ==
    /\ Ops \subseteq Op
    /\ Fragile \subseteq Ops
    /\ Serialized \in BOOLEAN

ASSUME NoneAssumption == None \notin Driver \cup Booking \cup Op

VARIABLES booking, refunded, lock, trip, offer, timer, cmd

keys == <<booking, refunded, lock, trip, offer, timer>>
vars == <<booking, refunded, lock, trip, offer, timer, cmd>>

-----------------------------------------------------------------------------
State == {"SEARCHING", "AWAITING", "ACCEPTED", "ARRIVED", "IN_PROGRESS",
          "COMPLETED", "CANCELED"}
Open == {"SEARCHING", "AWAITING"}
Live == {"ACCEPTED", "ARRIVED", "IN_PROGRESS"}
Terminal == {"COMPLETED", "CANCELED"}

\* VALID_TRANSITIONS, as far as updateBookingState is used with it.
ValidTransition(from) ==
    CASE from = "SEARCHING"   -> {"AWAITING", "CANCELED"}
      [] from = "AWAITING"    -> {"ACCEPTED", "SEARCHING", "CANCELED"}
      [] from = "ACCEPTED"    -> {"ARRIVED", "CANCELED", "SEARCHING"}
      [] from = "ARRIVED"     -> {"IN_PROGRESS", "CANCELED"}
      [] from = "IN_PROGRESS" -> {"COMPLETED", "CANCELED"}
      [] OTHER                -> {}

Step == {"acquire", "check", "notify", "schedule", "drop", "release", "probe",
         "inspect", "cas", "settle", "read", "write", "patch", "rewrite", "proof",
         "bind", "free", "refund", "publish", "unbind", "unassign"}

\* The steps of each command, in the order of its awaits.
Script(op) ==
    CASE op = "offer"    -> <<"acquire", "check", "notify", "read", "write", "schedule">>
      [] op = "timeout"  -> <<"drop", "release", "read", "write">>
      [] op = "accept"   -> <<"inspect", "cas", "settle">>
      [] op = "arrive"   -> <<"read", "write", "rewrite">>
      [] op = "start"    -> <<"proof", "bind", "read", "write", "publish">>
      [] op = "cancel"   -> <<"free", "check", "refund", "read", "write", "publish",
                              "release", "unbind">>
      [] op = "complete" -> <<"read", "write", "publish", "release", "unbind">>
      [] op = "recover"  -> <<"unbind", "release", "read", "write", "unassign">>

\* The state a command asks updateBookingState for.
Target(op) ==
    CASE op = "offer"    -> "AWAITING"
      [] op = "arrive"   -> "ARRIVED"
      [] op = "start"    -> "IN_PROGRESS"
      [] op = "cancel"   -> "CANCELED"
      [] op = "complete" -> "COMPLETED"
      [] OTHER           -> "SEARCHING"

\* The other fields of the booking that the same HSET writes.
Metadata(op, d, bk) ==
    CASE op = "arrive" -> [bk EXCEPT !.status = "ARRIVED", !.driver = d, !.owner = d]
      [] op \in {"start", "complete"} -> [bk EXCEPT !.driver = d]
      [] op = "recover" -> [bk EXCEPT !.status = "SEARCHING"]
      [] OTHER -> bk

Idle == [op |-> None, d |-> None, b |-> None, todo |-> <<>>]

Init ==
    /\ booking = [b \in Booking |-> [state |-> "SEARCHING", status |-> "SEARCHING",
                                     driver |-> None, owner |-> None]]
    /\ refunded = {}
    /\ lock = [d \in Driver |-> None]
    /\ trip = [d \in Driver |-> None]
    /\ offer = {}
    /\ timer = {}
    /\ cmd = [s \in Slot |-> Idle]

-----------------------------------------------------------------------------
(* Beginning and carrying on a command.                                     *)

Begin(s, op, d, b, todo) ==
    /\ op \in Ops
    /\ cmd[s] = Idle
    /\ Serialized => \A r \in Slot : cmd[r].b # b
    /\ cmd' = [cmd EXCEPT ![s] = [op |-> op, d |-> d, b |-> b, todo |-> todo]]

At(s, step) == cmd[s].todo # <<>> /\ Head(cmd[s].todo) = step

GoOn(s, todo) ==
    cmd' = [cmd EXCEPT ![s] = IF todo = <<>> THEN Idle ELSE [@ EXCEPT !.todo = todo]]
Advance(s) == GoOn(s, Tail(cmd[s].todo))
Abort(s) == GoOn(s, <<>>)

\* A driver whose screen shows another ride is skipped too; but the timer of a
\* third ride may clear that key before its reservation, so it is not relied on.
Dispatchable(b) ==
    /\ booking[b].state \in Open
    /\ booking[b].status \notin Terminal

Finished(b) == booking[b].state \in Terminal \/ booking[b].status \in Terminal

\* alreadyOwnedBySameDriver, the same test in both scripts of accept.
Owned(d, b) ==
    /\ booking[b].driver = d
    /\ booking[b].state \in Live \/ booking[b].status \in Live

Accepted(b) ==
    /\ "ACCEPTED" \in {booking[b].state, booking[b].status}
    /\ "IN_PROGRESS" \notin {booking[b].state, booking[b].status}

\* Fault: DEL without comparing the owner.
WithoutOwner(f, d, b) == [e \in Driver |-> IF e = d THEN None ELSE f[e]]

\* A lock released by comparison of its owner, a trip cleared by comparison.
Without(f, d, b) == [e \in Driver |-> IF e = d /\ f[e] = b THEN None ELSE f[e]]

-----------------------------------------------------------------------------
(* Offering the ride to a driver: DriverNotificationDispatcher.             *)

BeginOffer(s, d, b) ==
    /\ Dispatchable(b)
    /\ <<d, b>> \notin offer
    /\ Begin(s, "offer", d, b, Script("offer"))
    /\ UNCHANGED keys

AcquireLock(s) ==
    LET d == cmd[s].d
        b == cmd[s].b
    IN  /\ At(s, "acquire")
        /\ IF lock[d] \in {None, b}
             THEN lock' = [lock EXCEPT ![d] = b] /\ Advance(s)
             ELSE UNCHANGED lock /\ Abort(s)
        /\ UNCHANGED <<booking, refunded, trip, offer, timer>>

\* The ride may have been taken meanwhile: give the lock back.  A ride already
\* AWAITING another driver's answer keeps its state.
CheckOffer(s) ==
    LET d == cmd[s].d
        b == cmd[s].b
    IN  /\ cmd[s].op = "offer"
        /\ At(s, "check")
        /\ IF Dispatchable(b)
             THEN /\ GoOn(s, IF booking[b].state = "AWAITING"
                               THEN <<"notify", "schedule">> ELSE Tail(cmd[s].todo))
                  /\ UNCHANGED lock
             ELSE /\ Abort(s)
                  /\ lock' = Without(lock, d, b)
        /\ UNCHANGED <<booking, refunded, trip, offer, timer>>

\* Fault: the parts of the key are swapped.
NotifySwapped(s) ==
    /\ At(s, "notify")
    /\ offer' = offer \cup {<<cmd[s].b, cmd[s].d>>}
    /\ Advance(s)
    /\ UNCHANGED <<booking, refunded, lock, trip, timer>>

Notify(s) ==
    /\ At(s, "notify")
    /\ offer' = offer \cup {<<cmd[s].d, cmd[s].b>>}
    /\ Advance(s)
    /\ UNCHANGED <<booking, refunded, lock, trip, timer>>

ScheduleTimeout(s) ==
    /\ At(s, "schedule")
    /\ timer' = timer \cup {<<cmd[s].d, cmd[s].b>>}
    /\ Advance(s)
    /\ UNCHANGED <<booking, refunded, lock, trip, offer>>

\* Fault: the timer does not look at the state of the ride.
FireTimeoutAnyState(s, d, b) ==
    /\ <<d, b>> \in timer
    /\ <<d, b>> \notin offer
    /\ timer' = timer \ {<<d, b>>}
    /\ Begin(s, "timeout", d, b, Script("timeout"))
    /\ UNCHANGED <<booking, refunded, lock, trip, offer>>

\* The timer is armed after the keys of the offer with their TTL, so it fires
\* when they are gone.
FireTimeout(s, d, b) ==
    /\ <<d, b>> \in timer
    /\ <<d, b>> \notin offer
    /\ timer' = timer \ {<<d, b>>}
    /\ booking[b].state \in Open
    /\ Begin(s, "timeout", d, b, IF booking[b].state = "AWAITING"
                                   THEN Script("timeout") ELSE <<"drop", "release">>)
    /\ UNCHANGED <<booking, refunded, lock, trip, offer>>

DropOffer(s) ==
    /\ At(s, "drop")
    /\ offer' = offer \ {<<cmd[s].d, cmd[s].b>>}
    /\ Advance(s)
    /\ UNCHANGED <<booking, refunded, lock, trip, timer>>

-----------------------------------------------------------------------------
(* AcceptRideCommand.                                                       *)

BeginAccept(s, d, b) ==
    LET offered == <<d, b>> \in offer
    IN  /\ offered \/ Owned(d, b)
        /\ Begin(s, "accept", d, b,
                 (IF Owned(d, b) THEN <<"probe">> ELSE <<>>)
                     \o (IF offered THEN Script("accept") ELSE <<>>))
        /\ UNCHANGED keys

\* The idempotency script: an owner gets lock and trip back at once.
Probe(s) ==
    LET d == cmd[s].d
        b == cmd[s].b
    IN  /\ At(s, "probe")
        /\ IF Owned(d, b) /\ lock[d] \in {None, b}
             THEN /\ lock' = [lock EXCEPT ![d] = b]
                  /\ trip' = [trip EXCEPT ![d] = b]
                  /\ GoOn(s, <<"inspect", "settle">>)
             ELSE /\ UNCHANGED <<lock, trip>>
                  /\ Advance(s)
        /\ UNCHANGED <<booking, refunded, offer, timer>>

\* isDriverLocked drops the lock of a finished ride; any other lock refuses.
InspectLock(s) ==
    LET d == cmd[s].d
        b == cmd[s].b
        left == IF lock[d] # None /\ Finished(lock[d]) THEN None ELSE lock[d]
    IN  /\ At(s, "inspect")
        /\ lock' = [lock EXCEPT ![d] = left]
        /\ IF left \in {None, b} THEN Advance(s) ELSE Abort(s)
        /\ UNCHANGED <<booking, refunded, trip, offer, timer>>

\* Fault: the CAS trusts driver_lock and does not look at the active trip.
AcceptCasByLock(s) ==
    LET d == cmd[s].d
        b == cmd[s].b
        Taken == [state |-> "ACCEPTED", status |-> "ACCEPTED", driver |-> d, owner |-> d]
    IN  /\ At(s, "cas")
        /\ IF /\ lock[d] \in {None, b}
              /\ \/ Owned(d, b)
                 \/ /\ <<d, b>> \in offer
                    /\ booking[b].state \in Open \/ booking[b].status \in Open
             THEN /\ booking' = [booking EXCEPT ![b] = IF Owned(d, b) THEN @ ELSE Taken]
                  /\ lock' = [lock EXCEPT ![d] = b]
                  /\ trip' = [trip EXCEPT ![d] = b]
                  /\ Advance(s)
             ELSE /\ UNCHANGED <<booking, lock, trip>>
                  /\ Abort(s)
        /\ UNCHANGED <<refunded, offer, timer>>

\* The CAS: state or status must still be open, the rest must be the driver's.
AcceptCas(s) ==
    LET d == cmd[s].d
        b == cmd[s].b
        Taken == [state |-> "ACCEPTED", status |-> "ACCEPTED", driver |-> d, owner |-> d]
    IN  /\ At(s, "cas")
        /\ IF /\ trip[d] \in {None, b}
              /\ lock[d] \in {None, b}
              /\ \/ Owned(d, b)
                 \/ /\ <<d, b>> \in offer
                    /\ booking[b].state \in Open \/ booking[b].status \in Open
             THEN /\ booking' = [booking EXCEPT ![b] = IF Owned(d, b) THEN @ ELSE Taken]
                  /\ lock' = [lock EXCEPT ![d] = b]
                  /\ trip' = [trip EXCEPT ![d] = b]
                  /\ Advance(s)
             ELSE /\ UNCHANGED <<booking, lock, trip>>
                  /\ Abort(s)
        /\ UNCHANGED <<refunded, offer, timer>>

\* The offers of the ride and the locks of the other drivers go; the timers of
\* this process too, those of another stay.
Settle(s) ==
    LET b == cmd[s].b
    IN  /\ At(s, "settle")
        /\ offer' = offer \ (Driver \X {b})
        /\ lock' = [d \in Driver |-> IF d # cmd[s].d /\ lock[d] = b THEN None ELSE lock[d]]
        /\ \E kept \in {timer, timer \ (Driver \X {b})} : timer' = kept
        /\ Advance(s)
        /\ UNCHANGED <<booking, refunded, trip>>

-----------------------------------------------------------------------------
(* updateBookingState: read the state, check the transition, write.         *)

\* Fault: the transition is not checked.
ReadStateUnchecked(s) ==
    /\ At(s, "read")
    /\ Advance(s)
    /\ UNCHANGED keys

ReadState(s) ==
    LET state == booking[cmd[s].b].state
        target == Target(cmd[s].op)
        after == Tail(Tail(cmd[s].todo))
    IN  /\ At(s, "read")
        /\ \/ state = target /\ GoOn(s, <<"patch">> \o after)
           \/ target \in ValidTransition(state) /\ Advance(s)
           \/ state # target /\ target \notin ValidTransition(state) /\ Abort(s)
        /\ UNCHANGED keys

WriteState(s) ==
    LET b == cmd[s].b
        op == cmd[s].op
    IN  /\ \/ /\ At(s, "write")
              /\ booking' = [booking EXCEPT ![b] =
                     Metadata(op, cmd[s].d, [@ EXCEPT !.state = Target(op)])]
           \/ /\ At(s, "patch")
              /\ booking' = [booking EXCEPT ![b] = Metadata(op, cmd[s].d, @)]
        /\ Advance(s)
        /\ UNCHANGED <<refunded, lock, trip, offer, timer>>

\* The second HSET of start, cancel and complete, which writes the status.
PublishStatus(s) ==
    LET op == cmd[s].op
        Status(bk) == [bk EXCEPT !.status = Target(op)]
    IN  /\ At(s, "publish")
        /\ booking' = [booking EXCEPT ![cmd[s].b] =
               IF op = "start" THEN [Status(@) EXCEPT !.driver = cmd[s].d, !.owner = cmd[s].d]
               ELSE Status(@)]
        /\ Advance(s)
        /\ UNCHANGED <<refunded, lock, trip, offer, timer>>

-----------------------------------------------------------------------------
(* Arrival at the pickup.  The app offers it to the driver of the ride.     *)

BeginArrive(s, d, b) ==
    /\ booking[b].driver = d
    /\ Begin(s, "arrive", d, b, Script("arrive"))
    /\ UNCHANGED keys

\* The HSET that follows updateBookingState writes the state again, unchecked.
RewriteArrival(s) ==
    /\ At(s, "rewrite")
    /\ booking' = [booking EXCEPT ![cmd[s].b] =
           [state |-> "ARRIVED", status |-> "ARRIVED", driver |-> cmd[s].d, owner |-> cmd[s].d]]
    /\ Advance(s)
    /\ UNCHANGED <<refunded, lock, trip, offer, timer>>

-----------------------------------------------------------------------------
(* StartTripCommand.                                                        *)

Assigned(b) == IF booking[b].driver # None THEN booking[b].driver ELSE booking[b].owner

BeginStart(s, d, b) ==
    /\ Assigned(b) = d
    /\ booking[b].owner \in {None, d}
    /\ booking[b].state = "ARRIVED"
    /\ Begin(s, "start", d, b, Script("start"))
    /\ UNCHANGED keys

ProvePayment(s) ==
    /\ At(s, "proof")
    /\ IF cmd[s].b \in refunded THEN Abort(s) ELSE Advance(s)
    /\ UNCHANGED keys

\* setActiveTripForDriver throws when the driver has another trip.
BindTrip(s) ==
    LET d == cmd[s].d
        b == cmd[s].b
    IN  /\ At(s, "bind")
        /\ IF trip[d] \in {None, b}
             THEN trip' = [trip EXCEPT ![d] = b] /\ Advance(s)
             ELSE UNCHANGED trip /\ Abort(s)
        /\ UNCHANGED <<booking, refunded, lock, offer, timer>>

-----------------------------------------------------------------------------
(* CancelRideCommand and the handler that calls it.                         *)

BeginCancel(s, b) ==
    /\ Begin(s, "cancel", None, b, Script("cancel"))
    /\ UNCHANGED keys

\* The handler frees every notified driver before the command decides anything;
\* a ride not yet offered also loses its reservations (stopSearch).
FreeNotified(s) ==
    LET b == cmd[s].b
    IN  /\ At(s, "free")
        /\ lock' = [d \in Driver |-> IF lock[d] = b THEN None ELSE lock[d]]
        /\ offer' = IF booking[b].state = "SEARCHING" THEN offer \ (Driver \X {b}) ELSE offer
        /\ \E kept \in {timer, timer \ (Driver \X {b})} : timer' = kept
        /\ Advance(s)
        /\ UNCHANGED <<booking, refunded, trip>>

\* Fault: a ride that has started is not refused.
CheckCancelAnyState(s) ==
    LET bk == booking[cmd[s].b]
    IN  /\ cmd[s].op = "cancel"
        /\ At(s, "check")
        /\ IF bk.state = "CANCELED" \/ bk.status = "CANCELED"
             THEN Abort(s)
             ELSE cmd' = [cmd EXCEPT ![s].d = bk.driver, ![s].todo = Tail(@)]
        /\ UNCHANGED keys

\* The snapshot of the command: its driver is the one it will free.
CheckCancel(s) ==
    LET bk == booking[cmd[s].b]
    IN  /\ cmd[s].op = "cancel"
        /\ At(s, "check")
        /\ IF bk.state \in {"IN_PROGRESS", "COMPLETED", "CANCELED"} \/ bk.status = "CANCELED"
             THEN Abort(s)
             ELSE cmd' = [cmd EXCEPT ![s].d = bk.driver, ![s].todo = Tail(@)]
        /\ UNCHANGED keys

Refund(s) ==
    /\ At(s, "refund")
    /\ refunded' = refunded \cup {cmd[s].b}
    /\ Advance(s)
    /\ UNCHANGED <<booking, lock, trip, offer, timer>>

\* releaseLock and clearActiveTripForDriver compare the booking they are for.
ReleaseLock(s) ==
    /\ At(s, "release")
    /\ lock' = Without(lock, cmd[s].d, cmd[s].b)
    /\ Advance(s)
    /\ UNCHANGED <<booking, refunded, trip, offer, timer>>

\* Fault: the index is deleted whatever ride it names.
UnbindAnyTrip(s) ==
    /\ At(s, "unbind")
    /\ trip' = [d \in Driver |-> IF d = cmd[s].d THEN None ELSE trip[d]]
    /\ Advance(s)
    /\ UNCHANGED <<booking, refunded, lock, offer, timer>>

UnbindTrip(s) ==
    /\ At(s, "unbind")
    /\ trip' = Without(trip, cmd[s].d, cmd[s].b)
    /\ Advance(s)
    /\ UNCHANGED <<booking, refunded, lock, offer, timer>>

-----------------------------------------------------------------------------
(* CompleteTripCommand.  A ride already completed is answered as it is.     *)

BeginComplete(s, d, b) ==
    /\ booking[b].driver = d
    /\ booking[b].state = "IN_PROGRESS"
    /\ booking[b].status # "COMPLETED"
    /\ Begin(s, "complete", d, b, Script("complete"))
    /\ UNCHANGED keys

-----------------------------------------------------------------------------
(* recoverAcceptedBooking, one at a time per booking.                       *)

BeginRecover(s, b) ==
    /\ Accepted(b)
    /\ \A r \in Slot : cmd[r].op = "recover" => cmd[r].b # b
    /\ Begin(s, "recover", booking[b].driver, b, Script("recover"))
    /\ UNCHANGED keys

\* An index or a lock that could not be cleared is logged, and the recovery goes
\* on.
GoOnUncleared(s) ==
    /\ cmd[s].op = "recover"
    /\ At(s, "unbind") \/ At(s, "release")
    /\ Advance(s)
    /\ UNCHANGED keys

Unassign(s) ==
    /\ At(s, "unassign")
    /\ booking' = [booking EXCEPT ![cmd[s].b].status = "SEARCHING",
                                  ![cmd[s].b].driver = None]
    /\ Advance(s)
    /\ UNCHANGED <<refunded, lock, trip, offer, timer>>

-----------------------------------------------------------------------------
(* Environment.                                                             *)

OfferExpires(d, b) ==
    /\ <<d, b>> \in offer
    /\ offer' = offer \ {<<d, b>>}
    /\ UNCHANGED <<booking, refunded, lock, trip, timer, cmd>>

\* isDriverLocked, which also drops the lock of a finished ride when complete,
\* cancel and stopSearch call it, is no more than an early expiry.
LockExpires(d) ==
    /\ lock[d] # None
    /\ lock' = [lock EXCEPT ![d] = None]
    /\ UNCHANGED <<booking, refunded, trip, offer, timer, cmd>>

\* A driver who reconnects: the index of a finished ride is cleared.
SyncActiveRide(d) ==
    /\ trip[d] # None
    /\ booking[trip[d]].status \in Terminal
    /\ trip' = [trip EXCEPT ![d] = None]
    /\ UNCHANGED <<booking, refunded, lock, offer, timer, cmd>>

\* The process that runs a command dies between two of its steps.
Crash(s) ==
    /\ cmd[s].op \in Fragile
    /\ Abort(s)
    /\ UNCHANGED keys

-----------------------------------------------------------------------------
BeginCommand(s) == \E b \in Booking :
    \/ BeginCancel(s, b)
    \/ BeginRecover(s, b)
    \/ \E d \in Driver :
         \/ BeginOffer(s, d, b)
         \/ FireTimeout(s, d, b)
         \/ BeginAccept(s, d, b)
         \/ BeginArrive(s, d, b)
         \/ BeginStart(s, d, b)
         \/ BeginComplete(s, d, b)

CommandStep(s) ==
    \/ AcquireLock(s)
    \/ CheckOffer(s)
    \/ Notify(s)
    \/ ScheduleTimeout(s)
    \/ DropOffer(s)
    \/ Probe(s)
    \/ InspectLock(s)
    \/ AcceptCas(s)
    \/ Settle(s)
    \/ ReadState(s)
    \/ WriteState(s)
    \/ PublishStatus(s)
    \/ RewriteArrival(s)
    \/ ProvePayment(s)
    \/ BindTrip(s)
    \/ FreeNotified(s)
    \/ CheckCancel(s)
    \/ Refund(s)
    \/ ReleaseLock(s)
    \/ UnbindTrip(s)
    \/ GoOnUncleared(s)
    \/ Unassign(s)

KeyStep(d) ==
    \/ LockExpires(d)
    \/ SyncActiveRide(d)
    \/ \E b \in Booking : OfferExpires(d, b)

Next ==
    \/ \E s \in Slot : BeginCommand(s) \/ CommandStep(s) \/ Crash(s)
    \/ \E d \in Driver : KeyStep(d)

Spec == Init /\ [][Next]_vars

-----------------------------------------------------------------------------
(* Properties.                                                              *)

\* Every variable keeps its type.
TypeOK ==
    /\ booking \in [Booking -> [state : State, status : State,
                                driver : Driver \cup {None}, owner : Driver \cup {None}]]
    /\ refunded \subseteq Booking
    /\ lock \in [Driver -> Booking \cup {None}]
    /\ trip \in [Driver -> Booking \cup {None}]
    /\ offer \subseteq Driver \X Booking
    /\ timer \subseteq Driver \X Booking
    /\ cmd \in [Slot -> [op : Op, d : Driver \cup {None}, b : Booking,
                         todo : Seq(Step) \ {<<>>}] \cup {Idle}]

\* The recovery of b has already taken the index from its driver.
Recovering(b) == \E s \in Slot :
    cmd[s].op = "recover" /\ cmd[s].b = b /\ Head(cmd[s].todo) # "unbind"

RunBy(b, d) == booking[b].driver = d /\ booking[b].state \in Live /\ ~Recovering(b)

\* No driver runs two rides: neither the lock, which may expire, nor the offers
\* left over from another ride let the driver accept a second one.
OneRidePerDriver ==
    \A d \in Driver : \A b, c \in Booking : RunBy(b, d) /\ RunBy(c, d) => b = c

\* A driver who runs a ride is known by the index, which is what keeps other
\* rides and identity checks away from the driver.
RideIsIndexed ==
    \A d \in Driver : \A b \in Booking : RunBy(b, d) => trip[d] = b

\* No ride goes on after its payment has been returned.
NoRefundedRide ==
    \A b \in refunded : booking[b].state \notin {"IN_PROGRESS", "COMPLETED"}

\* The command of some slot that serves b takes a step.
Serves(b) == \E s \in Slot : cmd[s].b = b /\ cmd'[s] # cmd[s]

\* Whatever runs at the same time, and wherever it dies, a command never takes
\* the lock or the index of one ride away for another: only a command that
\* serves the ride, its end or its lease does, or an owner who accepts again
\* gets back the index of a ride that is the driver's too.
OthersUntouched ==
    [][\A d \in Driver : \A b \in Booking :
          /\ trip[d] = b /\ trip'[d] # b =>
                 Finished(b) \/ Serves(b) \/ \E c \in Booking : Owned(d, c) /\ trip'[d] = c
          /\ lock[d] = b /\ lock'[d] # b =>
                 lock'[d] = None /\ (Finished(b) \/ Serves(b) \/ UNCHANGED cmd)]_vars

\* "Estados finais nao podem transitar" (ride-state-manager.js): a ride that is
\* completed or canceled stays so.
FinalStatesStayFinal ==
    [][\A b \in Booking :
          booking[b].state \in Terminal => booking'[b].state = booking[b].state]_vars

\* "Recuperacao: motorista desconectou antes de iniciar" (ride-state-manager.js):
\* an accepted ride goes back to SEARCHING only by a recovery.
OnlyRecoveryReopens ==
    [][\A b \in Booking :
          booking[b].state = "ACCEPTED" /\ booking'[b].state = "SEARCHING" =>
              \E s \in Slot : cmd[s].op = "recover" /\ cmd[s].b = b]_vars

\* "Depois que a corrida comecou, o fluxo correto e complete/endEarly/review"
\* (CancelRideCommand.js): a ride under way is not canceled.
StartedIsNotCanceled ==
    [][\A b \in Booking :
          booking[b].state = "IN_PROGRESS" => booking'[b].state # "CANCELED"]_vars

phase == [b \in Booking |->
    LET state == booking[b].state
    IN  IF state \in Open \/ Recovering(b) THEN "open"
        ELSE IF state = "ACCEPTED" THEN "accepted"
        ELSE IF state = "ARRIVED" THEN "arrived"
        ELSE IF state = "IN_PROGRESS" THEN "started"
        ELSE IF state = "COMPLETED" THEN "completed"
        ELSE "canceled"]

Lifecycle == INSTANCE RideLifecycle WITH
    driver <- [b \in Booking |->
                 IF phase[b] \in {"open", "canceled"} THEN None ELSE booking[b].driver]

\* When a booking is served by one command at a time, the commands, with all
\* their steps, expiries and crashes, implement the life of a ride.
ImplementsLifecycle == Lifecycle!Spec
=============================================================================
