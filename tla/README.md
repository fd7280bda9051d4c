# Leaf: a TLA+ model of the ride backend

Leaf is a ride-hailing service. Its backend, `leaf-websocket-backend`, is a set of
Node.js processes that serve socket events and keep the state of rides in Redis.
Any process may serve any event, and a handler awaits Redis, Firestore and the
payment provider between its steps, so two handlers of the same ride or the same
driver interleave at every await. These modules model the part of the backend that
decides who runs which ride: the queues in which a ride waits, the claims on drivers
that keep rides and identity checks apart, the order in which the commands write
them; and what happens to the money around a ride: how the driver is credited and
how the passenger is refunded.

Paths below are relative to `leaf-websocket-backend/` unless they say otherwise.

## 1. The system

| Component | State | Operations | Interacts with |
|---|---|---|---|
| Active-trip index (`utils/active-trip-index.js`) | `active_trip_by_driver:D`, `active_trip_customer_by_driver:D`, `activeTripId` and its lease in `driver:D`, two window keys | Lua scripts: set, renew, clear, resolve; claim, renew, release of verification and policy windows | accept, start, recovery, heartbeats, location updates, KYC |
| Ride state machine (`services/ride-state-manager.js`) | `state` of `booking:B` | `updateBookingState`: read, check, write | every command |
| Ride commands (`commands/*.js`) | `booking:B` and all of the above | accept, start, cancel, complete; early end, review, interruption, extension | lock, index, payments, events |
| Recovery (`services/accepted-ride-recovery-*.js`) | `booking_recovery_lock:B` | give an accepted ride back to the search when its driver is gone | index, lock, state machine, dispatcher |
| Driver lock, offers (`services/driver-lock-manager.js`, `offer-reservation-service.js`) | `driver_lock:D`, `offer_reservation:B:D` | acquire, renew, release, inspect; reserve, clear | dispatcher, accept, cancel |
| Offer dispatch (`services/driver-notification-dispatcher.js`) | `driver_active_notification:D`, response timers in memory | notify a driver, time out, cancel timers | lock, offers, state machine, expander |
| Radius expansion, responses (`services/gradual-radius-expander.js`, `radius-expansion-manager.js`, `response-handler.js`) | `booking_search:B`, `ride_notifications:B` | widen the search in waves, stop it, handle rejections | dispatcher |
| Ride queue (`services/ride-queue-manager.js`) | a sorted set of pending rides and a hash of active ones per region, an index of regions | enqueue, claim, dequeue, move, region refresh | queue worker, response handler, dispatch after a payment |
| Billing of drivers (`services/event-sourcing.js`, `workers/WorkerManager.js`, `workers/worker-billing.js`, `services/cancellation-credit-pending-service.js`) | the stream `ride_events` and its consumer group, `ride_events_dlq`, `billing:cancellation_credit_pending` | publish, read, retry, reclaim, dead letter; sweep of pending fees | complete, cancel, idempotency, ledger |
| Idempotency (`services/idempotency-service.js`) | `idempotency:K`, `idempotency:result:K` | begin, check and set, cache the result, release | socket handlers, billing |
| Payment reservation (`services/payment-driver-reservation-service.js`) | reservation and pointer of a driver | reserve, validate, consume, release | payments, ride creation |
| Leader lease, orphan refunds (`utils/redis-leader-lease.js`, `services/orphan-payment-refund-service.js`) | lease key and token; entries that are due | acquire, renew, release; refund payments without a ride | workers, payments |
| Payments, ledger (`services/payment-service/`, `payment-dispatch-service.js`, `financial-ledger-service.js`) | `ride_payments`, `payment_holdings`, balances and entries in Firestore; the provider | confirm, copy to the booking, claim, refund, credit, post | cancel, complete, billing, drain |
| Socket handlers (`bootstrap/*.js`) | none of their own | one per event | everything above |
| KYC (`services/kyc-policy-service.js`, `driver-identity-trust-service.js`, review workflow) | flags in `driver:D`, challenges, cases | raise, defer and lift the gate on a driver | index, windows |
| Biometric services (`../services/*`), apps, dashboards | outside the backend's authority | | |

### What is hard here

- **Check-then-act.** `updateBookingState` reads the state, checks
  `VALID_TRANSITIONS` and writes with separate commands. Every caller may be
  overtaken between its own first read and its last write; cancellation awaits a
  refund in between.
- **Two fields for one fact.** `state` and `status` of a booking are written by
  separate HSETs, and readers combine them with OR.
- **Copies.** Who runs a ride is kept in the booking, the lock, the index, its copy
  in the driver hash and the customer key, with different lifetimes.
- **TTLs.** Locks, offers, windows and leases expire while their users work.
- **Timers in memory.** A response timer fires after the ride moved on; a restart
  loses it.
- **Processes die** between any two awaits.
- **Errors are swallowed.** A failed XADD, a failed release of a marker or a payment
  that cannot be read is logged, and the caller goes on.
- **One payment, two documents.** A Pix is confirmed under a temporary id and copied to
  the booking; both stay.

### What makes the components correct

- Index: at any time at most one of verification, policy mutation and new ride
  holds a driver; the copies agree while they last; what is abandoned ends.
- Commands: a driver runs one ride; a ride has one driver, who is known by lock and
  index; a ride ends once; a refunded ride is not run.
- Lock and offers: nobody releases what belongs to another ride.
- Queue: a ride that waits can be found, is claimed once, and is claimed in the end,
  also when its region has fallen out of the index or the leader is none any more.
- Billing: a driver is paid once for each part of a ride and never before its
  settlement is posted; what is not paid leaves a trace.
- Refunds: no two different refunds of one document; a canceled ride and a Pix without a
  ride are paid back; what a settlement still owes is recorded.
- Leader lease: losing it costs only work done twice; safety rests on the claims.
- Idempotency: an operation runs once and a retry gets its result (as far as billing
  uses it).
- Payment reservation: a driver is reserved by one payment (not modelled, section 6).

## 2. Modules

| Module | Models |
|---|---|
| `ActiveTripIndex` | `utils/active-trip-index.js` and, as far as they touch it, its callers |
| `DriverHold` | the abstract specification: a driver is free, rides, or is held for a check |
| `ActiveTripIndexProofs` | the theorems about it |
| `ActiveTripIndexHoldProofs` | the refinement of `DriverHold` |
| `MCActiveTripIndex` | its small instances |
| `RideLifecycle` | the abstract specification: what the commands promise together |
| `RideCommands` | offer, timeout, accept, arrive, start, cancel, complete, recover against shared Redis |
| `RideCommandsProofs` | the theorems about it, with the refinement of `RideLifecycle` |
| `RideCommandsCrashProofs` | what a booking keeps on which no two commands meet, whatever happens elsewhere and whatever dies |
| `MCRideCommands` | its small instances |
| `RideQueue` | the regional queues, the leader lease, the worker, the requests of drivers and the dispatch after a payment |
| `RideQueueProofs`, `MCRideQueue` | the theorems about it, its small instance |
| `DriverCredits` | the abstract specification: posted once, paid once, in that order |
| `BillingWorker` | events, stream workers, sweep, idempotency marker, ledger and credit |
| `BillingWorkerProofs`, `MCBillingWorker` | the theorems about it, with the refinement of `DriverCredits`; its small instance |
| `PaymentRefunds` | a payment, its two documents and the callers of a refund |
| `PaymentRefundsProofs`, `MCPaymentRefunds` | the theorems about it, its small instances |

### ActiveTripIndex

Each Lua script is one action, because Redis runs it as one. A key with a TTL is a
cell `[v, ttl]`; `Tick` ages every cell, so no clock is needed. The copy in the
driver hash has no TTL of its own but a lease that `Resolve` compares with the time
(`AgedField`: the field stays when the lease has run out and is removed by the next
script, `Sweep`).

- `AcceptBooking`, `ReacceptBooking`: the two scripts of `AcceptRideCommand`.
- `ReadOwnedBooking`, then `SetActiveTrip`: start, the recovery monitor and location
  updates read the booking, and set the index some time later (`intent`).
- `RenewActiveTrip`: the heartbeat. `ClearActiveTrip`, used by `ReleaseFinished` and
  `RecoveryClear`: compare and delete. `ResolveActiveTrip`: the sweep alone.
- `BeginRecovery` ... `RecoveryUnassign`: `recoverAcceptedBooking`, one step per
  access, with `RecoveryCrash` anywhere between. A clear that fails is logged by
  the code, and the recovery goes on without it.
- `ClaimWindow`, `ReclaimWindow`, `RenewWindow`, `ReleaseWindow`, `HolderCrash`: both
  kinds of window. A token is 24 random bytes, so a new claim brings one that no
  window holds.
- `RaiseGate`, `DeferGate`, `LiftGate`: the flags of the KYC services that the scripts
  read, as one Boolean. `ExpireDriverHash`: the hash has a TTL too.
- `EvictIndex`: the repository configures Redis both with `allkeys-lru`
  (`redis-config/redis.conf`) and with `noeviction`
  (`docker-compose.production.yml`); `Eviction` chooses.

The state of a booking is reduced to four phases, which is what these scripts tell
apart.

`DriverHold` is the promise, as if a driver had one record that is read and written at
once: a ride is taken by a driver who is free or given back to its owner, a check begins
on a driver without ride and without check, and rides and checks may be forgotten at any
time because leases run out. Callers that act late on what they read are part of the
promise (`late`): `SetActiveTrip` compares no owner. `ActiveTripIndex` implements it with
`ride` computed by `Resolve` and `checks` by the open windows (`ImplementsDriverHold`).

### RideCommands

Every access to Redis or to the payment provider is a step of its own. `cmd[s]` is
the command that occupies a slot: its operation, driver, booking and the steps it
has still to take (`Script`). `Begin...` is the part of a handler up to its first
write, with its early returns as guards; `Abort` is a refusal later on; `Crash` the
death of a process in between. Abstractions:

- `SEARCHING` stands for every state in which a ride waits for a driver, `AWAITING`
  for `NOTIFIED` and `AWAITING_RESPONSE`, `IN_PROGRESS` also for
  `REASSIGNED_IN_PROGRESS`.
- `offer` is true while the notification or the reservation exists: accept takes
  either. The guard on the ride another driver's screen shows is not relied upon,
  since the timer of a third ride may clear that key.
- `isDriverLocked` drops the lock of a finished ride; where complete, cancel and
  `stopSearch` call it, that is an early expiry (`LockExpires`).
- Arrival has no check of its own that the driver is the ride's: the app offers
  it to that driver, which is the guard of `BeginArrive`.
- The recovery reads the booking twice, before and after its lock: the model reads
  it once, after. The recovery keeps `ownerDriverId`, as the code does.
- A partial refund counts as a refund. Fares, ledger, events, push messages and
  metrics are left out. A ride canceled by the integrity checks of the system is
  not distinguished from one canceled by a user, and the cancellation that those
  checks may force on a started ride is not modelled.

`RideLifecycle` is the promise: open, accepted by a driver who runs no other ride,
arrived, started, completed; canceled before the start; back to open from accepted.
`RideCommands` implements it with `phase` computed from the state and `driver`
hidden while nobody runs the ride. A ride whose recovery has taken the index away
counts as open.

### RideQueue

`ride-queue-manager.js` and its users: the queue worker, on whichever replica holds the
lease of `redis-leader-lease.js`; `response-handler.js`, which claims rides for a driver
who has just refused one; and the dispatch that follows a payment
(`payment-dispatch-service.js`), which starts a search and leaves the queues alone. One
action is one Redis call; the claim script and the pipeline of an enqueue are single calls.

A ride is "open" (PENDING or SEARCHING, which all treat alike here), "stale" (open, while
another booking is its customer's: `isBookingCurrentForCustomer`) or "gone".

- `Cycle`: what a replica's worker does next: acquire the lease or assert it, heal the
  region index when the reconciliation is due, fetch the regions, claim a batch, count
  and correct the index (`count`, `sadd`, `srem`: `refreshRegionActivity`), go through the
  claimed rides. `Request`, `AskNext`: `sendNextRideToDriver`.
- `Drain` is the loop over a claimed batch: a ride gets a search, needs none, is taken out
  of the queue because it is stale (`Unqueue`, with an error that `dequeueRide` swallows),
  or is skipped, because its data are incomplete, its pickup does not parse or something
  on the way threw: each of these leaves the ride active and without a search.
- `Dispatch`: `triggerDispatchAttempt`, of a booking created as paid for instance: it
  searches a ride that may still be pending. `Searchable` is what `startGradualSearch`
  asks before it begins.
- `Enqueue`: the errors of the pipelined HSET, ZADD and SADD are not read, so any subset of
  them may fail. `EndRide`, `StartCancel`, `DecideCancel`, `RemoveStep`, `Outdate`,
  `CurrentAgain`: the life of a ride as the queue sees it. The cancel handler dequeues
  before the command decides, so a ride whose cancellation is refused is out of the queue.
- `LeaseExpires`, `RenewFails`, `Release`, `Crash`: the lease. A replica may believe it
  leads (`held`) when the key is another's.
- Two ghosts: `dropped`, rides claimed by a call nobody answers for any more, or skipped by
  an error of their own; `unqueued`, rides whose ZADD failed or which the worker dequeued
  as stale. The properties name them where they except them.

Merged: the two searchable states are "open"; the two-second cache of a cycle is a cycle
that began earlier; the checks and the write of `startGradualSearch` are one step, the
hand-over to `search`. PENDING to SEARCHING in `RequestRideCommand` is not a step of its
own. A batch takes up to 10 rides and the index up to 50 regions; the model never reaches
these.

### BillingWorker

A finished or canceled ride leaves an event in a stream; a worker credits the driver.
One action is one Redis call or one Firestore transaction.

- `RecordPending`, `Publish`: the command. `recordEvent` swallows an XADD error, and a
  completion that is retried after a crash is answered without an event, so an event
  may be lost.
- `Read`, `Reclaim`, `AfterFailure`, `MoveToDLQ`, `Acknowledge`: `WorkerManager`.
  `Sweep`, `RegisterAttempt`: the sweep of pending cancellation fees, which writes back
  the snapshot it read.
- `CheckAndSet`, `Duplicate`, `CacheResult`, `FailReleasing`, `ExpireMarker`,
  `ExpireResult`: the idempotency key, which fails open and expires after seven days.
- `PostSettlement`, `CreditDriver`, `ClearPending`: the handler. A failed transaction may
  have committed.
- `dropped` is a ghost: rides a worker left without an outcome.

`DriverCredits` is the promise: the settlement of a ride is posted once; each part due to
a driver is paid at most once, a settled part only after its settlement.

### PaymentRefunds

The documents (`ride_payments`, `payment_holdings`) of one payment under its temporary id
and under that of the booking, and the calls of `processRideRefund` that know the charge:
the drain of payments without a ride, the cancellations of passenger and driver, a search
without drivers, and the handlers that settle a ride that cost less than was paid
(`Settlers`). Nothing locks a settlement: a reclaimed event and the first attempt, or two
deliveries that a failed-open idempotency check lets through, run `processNetDistribution`
of one ride at once. One action is one Firestore, Redis or provider call, in the
operational namespace.

- `Confirm`, `CheckPayment`, `Book`, `ReadForCopy`, `WriteCopy`, `LoseCopy`: confirmation,
  create-booking and the copy (`materializePaymentForBooking`), which a ride may overtake.
- `TakeEntry`, `CheckOne`, `DrainDone`: `orphan-payment-refund-service.js`.
- `CancelRide`, `HandleMaxRadiusReached`, `NetDistribution` and their `...Done`: the other
  callers, from their first read of the payment to what they write after it.
- `ClaimRideRefund`, `ProcessRefund`, `MarkPaymentRefunded`, `ClearRideRefundClaim`: the
  refund. The provider may accept, refuse, or accept and never be heard.
- `SettleUnseen`, `SettlePlain`, `SettleDebt`: the three ways a settlement begins. The
  record is read once: the gate (`Gate`), the refund that is due and, later, whether the
  mark RETRY_PENDING has to be resolved (`seen`) all go by that read, however old it is by
  then. `SettleAs`: a settlement that owes something counts as done only once the debt
  is recorded and a machine is not to repeat it.
- `Crash`: the process of a call dies.
- `Accept` and `Complete` collapse the trip, which `RideCommands` has.

`slips` is a ghost that records what a fault or a haste lost for good, and the properties
name the slips they except. TLC finds a counterexample without each exception:
`entry` (the entry of the drain was not scheduled, not put back or died with its
process), `unseen` (a ride was canceled although its payment could not be read: not yet
copied, or the read failed and counted as "no payment"), `forgot` (the failure of one of
two calls of the same request drops the claim they share). `asked` and `late` are ghosts
too: that a settlement refund of this payment may have left a process, and that a handler
read the payment after that.

Left out: the fallback to the provider in the check of a payment, fee-only cancellation,
the sandbox namespace, and confirmation after the booking.

## 3. What is checked

| Run | Instance | Shows |
|---|---|---|
| `index_bookings` | 1 driver, 2 bookings, 2 tokens, no eviction; 0.7 million states | types, `WindowsExclusive`, `CustomerNamesCurrentTrip`, `IndexAgreesWithHash`, and that the scripts implement `DriverHold` |
| `index_liveness` | 1 driver, 1 booking, 2 tokens, eviction; 81 thousand states | `NoNewRideWhileHeld`, `WindowOpensOnIdleDriver`, `OnlyHolderEndsWindow`, `StuckLeaseOnlyAges`, `AbandonedWindowOnlyAges`; `GoneRideLetsGo`, `AbandonedWindowEnds` under fairness |
| `index_verification` | 1 driver, 1 booking, 1 token | a counterexample to `NoVerificationDuringRide` |
| `commands_serial` | 1 driver, 2 bookings, 2 commands at a time on different bookings; 0.4 million states | `OneRidePerDriver`, `RideIsIndexed`, `NoRefundedRide`, `FinalStatesStayFinal`, `OnlyRecoveryReopens`, `StartedIsNotCanceled`, and that the commands implement `RideLifecycle` |
| `commands_overlap` | 1 driver, 2 bookings, offers, accepts and recoveries overlapping on the same ride and dying anywhere; 1.2 million states | `OthersUntouched` |
| `commands_final` | 1 driver, 1 booking, offer, accept, cancel | a counterexample to `FinalStatesStayFinal` |
| `commands_timeout` | 2 drivers, 1 booking, offer, timeout, accept | a counterexample to `OnlyRecoveryReopens` |
| `commands_start` | 1 driver, 1 booking, offer to start and cancel | a counterexample to `StartedIsNotCanceled` |
| `billing` | 1 ride of any kind, 2 stream workers, 1 sweep, 1 retry, 2 automatic attempts, 2 faults; 87 thousand states | `UncreditedLeavesTrace`, `PendingClearedOnlyOnceCredited`, the refinement of `DriverCredits`; `PendingFeeSettles`, `EventSettles` under fairness |
| `ride_queue` | 3 rides in 2 regions, 2 replicas; a removal, or a driver request and a dispatch, or a fault; 0.2 million states | `ClaimedOnce`, `WaitingRideIsFindable`, `WorkerKeepsItsClaims`; `QueuedRideIsTaken`, `ClaimedBatchIsDrained` under fairness |
| `refunds` | 1 payment, all callers, 2 handlers of its settlement, 2 reasons, five budgets of confirmations, cancellations, settlements and faults; 1.1 million states | `OneKnownRefund`, `OnlyRetryAsksAgain`, `DebtIsRecorded`, `CanceledIsPaidBack`, `OrphanIsTracked`; `OrphanIsRefunded` under fairness |
| `refunds_orphan` | the same with one confirmation, one cancellation, one settlement and no fault | a counterexample to `NeverRefundsSettled` |

Each passing run also checks the type invariant of its module.

**Bounds.** The index never relates two drivers: one driver and two bookings that
compete for it are the interesting case, and two tokens are what it takes for a
window to change hands. TTLs of 2 with a renewal threshold of 1 distinguish fresh,
renewable and expired; a verification window of 2 in `index_liveness` ages before it
ends, which one of 1 does not. For the commands the conflict is again one driver and two
rides; two slots let any two commands interleave. Two drivers are used where two
drivers race for a ride. Nothing else is bounded.

Rides meet in `BillingWorker` only through the threads that handle them one after the
other, so one ride, of a kind chosen in the initial state, shows what two would; two
workers are what a reclaim needs, one retry and two attempts distinguish a first, a
later and a last try, and two faults let one hide the other (with three the
properties still hold). In `RideQueue` two rides share a region and one has
another, because an index that is not empty hides the region it lost. Its run lets
one removal, or one driver request with one dispatch, or one fault meet everything the two
replicas do. A pipelined command that fails, a ride that is skipped, a pointer of the
customer that moves on, a lost reply and a lost lease each count as the fault. Payments do
not meet at all (the proof has a lemma of it), so one is enough; the budgets are
`[confirmations, cancels, settlements, faults]` = `[1,2,0,1]`, `[1,2,1,0]`, `[1,1,1,1]`,
`[1,0,3,2]`, `[2,0,0,3]`: cancellations that meet, with a fault or a settlement, one that
meets a settlement and a fault, three settlements by two handlers under two faults, a
drain under faults. They bound the runs and not the proofs. A call that fails where it begins counts only as a fault, and an entry
that becomes due again (ten minutes) is not taken while its refund is in flight (one
minute).

**Which commands may die, and which may overlap.** In `commands_serial` a booking is
served by one command at a time and any command but a cancellation or a recovery may
die. The code guarantees neither condition: no lock serves a booking to one command. They
are the conditions under which the whole promise holds; outside of them it does not, and
the model shows how:

- a cancellation that dies between writing the state and writing the status leaves
  a canceled ride whose `status` is open, and accept takes it: `FinalStatesStayFinal`
  fails, and so does `ImplementsLifecycle`. The refunded ride never starts, though, since
  start proves the payment (`NoRefundedRide`);
- a recovery that dies after clearing the index leaves a driver on an accepted
  ride who is free to accept another. That recoveries do not die is not enough: with
  three bookings a cancellation that dies suffices to break `OneRidePerDriver`: the
  canceled ride keeps its driver and the status ACCEPTED, so that the driver gets the
  index back for it by accepting again, a recovery of it frees the index, and a third
  ride is accepted next to the one under way (two bookings do not show it);
- commands that overlap on one booking break `OneRidePerDriver`, `RideIsIndexed` and
  `NoRefundedRide`: the arrival writes ARRIVED a second time, unchecked; start publishes its
  status after complete; cancel refunds what start has begun.

`commands_overlap` drops both conditions for the commands it contains, and what is
left is that no command touches the lock or the index of *another* ride. The theorems of
section 4 assume neither: they say of every execution what it must contain to break the
promise.

**What no run catches.** Five hazards are named in `PROJECT.json` without a property,
because the code does go wrong there and the properties except it, or because no instance
reaches it: an entry of the drain lost with its process (`entry`), an event lost with a
worker that had set its marker (`dropped` in `BillingWorker`), a claim cleared under
another call of the same request (`forgot`), a region hidden for ever by a neighbour that
always has new rides (an instance has finitely many), and an arrival that overwrites what
another command wrote meanwhile (it takes two commands on one booking).

**Disagreements found.** Each violation run refutes a sentence of the repository:
`ARCHITECTURE.md` on verification during a ride; the comment on final states and
the one on the recovery transition in `ride-state-manager.js`; the comment on rides
that have started in `CancelRideCommand.js`; the header and the unit test of
`orphan-payment-refund-service.js` on payments that were already distributed.
`PROJECT.json` quotes them. The last one needs no fault: the drain looks at the document
of the temporary id, which nothing marks once the ride has its own, and at the
passenger's active booking, which is gone when the ride ends. A ride that ends before
the entry is due is refunded although its driver was credited.

**Fairness.** `FairSpec` assumes only that time passes (`WF(Tick)`), which Redis
guarantees for its TTLs. No handler is assumed to run, so what the two liveness
properties show is that expiry alone frees a driver from a ride that is over and
from a window whose holder died.

`BillingWorker`: a worker goes on with what it began (WF of the steps of each thread); the
stream is read and reclaimed and the pending fees are swept again and again (SF for each
ride, because a loop may find the thread busy each time, and the code takes every entry
of a batch in turn); markers expire (WF). `RideQueue`: the interval of the worker, the
calls that were begun, and the TTL of the lease (WF); the reconciliation, which needs a
cycle at the right time (SF). `PaymentRefunds`: the leader drains what is due and a call
returns or times out (WF of `Drain`). No user, no fault and no crash is ever obliged to
happen.

The deadlock check is off where the system may stop: rides end, and the money of a ride
is settled.

## 4. What is proved

All theorems hold for every value of the constants that the named assumptions of the
modules allow; the runs of section 3 check the same properties on small instances.

**`ActiveTripIndexProofs`**

- `TypeCorrect`: the type invariant.
- `HashAgreement`: while the lease lasts the index names the hash's ride. The
  inductive invariant compares remaining lives: every script writes both with the
  same TTL, so the key lives at least as long as the lease, except after an
  eviction, when the key is empty.
- `CustomerCorrect` (without eviction): the same argument for the customer key, which
  some scripts leave alone: it then belongs to the same ride or has to be dead before
  the index is.
- `Exclusion`: each claim finds the other key empty.
- `WindowOnIdleDriver`, `HeldDriverGetsNoRide`, `HolderEndsWindow`: action properties,
  by one case per action. The second needs that a bind is guarded (`FreeForRide`)
  or an owner's; the third that a token is held by at most one window, which is
  its invariant.
- `StuckLeaseAges`, `AbandonedWindowAges`: what makes `GoneRideLetsGo` and
  `AbandonedWindowEnds` true, as action properties. Once a ride is gone nobody becomes
  a late setter of it, each late setter there is sets the lease once, and nothing else
  extends it; so the late setters and then the TTL decrease. A window whose holder
  died is neither renewed nor claimed. What is left to TLC is that a number that only
  decreases reaches zero when time passes.

**`ActiveTripIndexHoldProofs`**

- `HoldImplemented`: the refinement of `DriverHold`, with or without eviction, one step
  or stutter per action. `HashAgreement` is what makes `Resolve` one value: when a lease
  runs out the ride is forgotten and no other one shows up. `Exclusion` is what makes
  `checks` at most one, so that a check that ends leaves none.

**`RideCommandsProofs`**

- `TypeCorrect`. The invariant behind it says more than the type: what a command has
  still to do is a `Walk`, a sequence in which each step may follow the one before it in
  the script of the command. So the next step of a command tells what it has done.
- `OthersAreUntouched`: from the type alone, one case per step, with any overlap and any
  crash.
- `DriverRunsOneRide`, `RunningRideIsIndexed`, `LifecycleImplemented`: for any constants,
  so with every overlap and every death that the code allows, an execution that breaks the
  property has two commands on one booking at once (`Alone` fails) or a cancellation
  or recovery that dies half-way (a step that is not `NothingHalfDone`). These are
  conditions on the execution, not on the program: nothing says they are met. What the
  theorems establish is that nothing else is to blame: not an expired lock, a late timer,
  a lingering offer, an overlap of commands on different bookings or any other death. Section 3 says what each
  of the two does. The invariant goes booking by booking: `GoodAt(b)` says what the booking
  looks like given the next step of the one command that serves it, or given that none
  does (`Expected`, `Rest`), and that its driver is indexed until a recovery frees the
  driver (`Indexed`). It has to relate `state` to `status`, because accept takes either.
  A lemma `Compose` reduces a step to the one booking it serves. For the refinement, a step
  of a recovery opens the ride when it takes the index away, every other step moves the
  booking as `Moved` says, and an accept finds the driver free because a ride under way
  would be in the index.

**`RideCommandsCrashProofs`**

The same one booking `b` at a time, and with any death: what an execution must contain to
break the promise for `b` is an overlap on `b` itself (`AloneOn(b)` fails), whatever
overlaps on other bookings and whatever command dies anywhere, the cancellation and the
recovery too. The invariant `CrashInv(b)` gives up what a death destroys (who is locked and
indexed) and keeps what it cannot: `Foreseen` says what the state of the booking is given
the next step of the command that serves it, because nobody else writes it in
between; `Shut` that an open `status` belongs to a ride that waits, or that a cancellation
has left behind; `Unpaid` that a refunded ride is not under way.

- `RefundedNeverRides`: a refunded ride is not under way.
- `OnlyItsCommandMovesARide`: although check and write are separate steps, each change of
  the state is one that its command may make from the state it finds (`LegalMove`); from
  CANCELED to ACCEPTED only when no cancellation is about to write the status any more.
  From it: `AcceptedReopensByRecovery` and `StartedRideIsNotCanceled`, whatever dies, and
  `FinalStaysFinal`, if moreover no cancellation of `b` dies half-way (`CancelGoesOn`). The
  runs `commands_final`, `commands_timeout` and `commands_start` are executions with an
  overlap, and each breaks one of these: the condition cannot be dropped.

**`RideQueueProofs`**

- `TypeCorrect`, `ClaimsAreExclusive`, `WaitingRidesAreFindable`. The invariant adds to the
  three properties that a ride never queued is nowhere. No assumption on the lease: two
  leaders at a time do no harm. A search excludes nothing here: a ride that a dispatch
  searches may be pending and be claimed later, which then finds the search.
- `ClaimsAreKept`: a worker lets go of a claimed ride only when it is searched, gone,
  dequeued as stale or itself hit by an error or the death of its process: the lost
  lease, the next region and the error of another ride of the batch cost it nothing. The
  invariant `Holding` says where rides may be held at all: between a claim and the end of
  its batch, and never on the way that a driver's request takes.

**`BillingWorkerProofs`**

- `TypeCorrect`; `BooksAreRight`: balance and credit documents agree, and a settled part
  is paid only with its settlement posted; `Refinement`: from it, that `BillingWorker`
  implements `DriverCredits`.
- `PendingOutlivesCredit`, `NothingVanishes`: a cached result, or a thread that has come
  to the end of the handler, means that the ride is credited; an acknowledged event
  that is not credited has a thread, a dead letter, a pending fee or a ghost.

**`PaymentRefundsProofs`**

- `TypeCorrect`, `NoSecondRefund`, `LaterSettlementsAsk`, `DebtsAreRecorded`,
  `CanceledPaidBack`. The invariant goes payment by payment: what is in flight holds the
  claim of its document; all that is in flight on a document is the same request; a
  document that was touched shows it for good; a payment for which a settlement has
  asked closes the gate unless it carries the mark RETRY_PENDING; a settlement that is done
  leaves a refund or a mark. A lemma shows that a step leaves the other payments alone.
  None of it bounds how many handlers settle a ride at once.
- `OrphansAreTracked`: a confirmed payment without a ride is refunded, or due, or in the
  hands of a drain, unless its entry was lost. Besides the invariant it needs that the
  temporary holding is closed only together with its payment (`Kindred`), so that a drain
  never drops an entry because of a holding that says something else.

**Only model-checked:** the liveness properties (`GoneRideLetsGo`, `AbandonedWindowEnds`,
`PendingFeeSettles`, `EventSettles`, `QueuedRideIsTaken`, `ClaimedBatchIsDrained`,
`OrphanIsRefunded`), because fairness is out of the prover's reach, and the
counterexamples. For all of them but `QueuedRideIsTaken` the safety that carries them is
proved (`StuckLeaseAges`, `AbandonedWindowAges`, `PendingOutlivesCredit`,
`NothingVanishes`, `ClaimsAreKept`, `OrphansAreTracked`): nothing is forgotten on the way. Every invariant, action property and
refinement that a passing run checks is also proved.

## 5. Seen while modelling, without a run

- `response-handler.js` claims up to 10 rides for a driver and goes on with one; the others
  are in the active hash without a search, unlike what the comment in
  `queue-worker.js:271-274` says of it. The reconciliation at the reconnection of the
  passenger (`register-socket-active-ride-handlers.js:215-223`) is what rescues them.
- A refund of the temporary document and one of the booking's can both be confirmed: the
  check of the drain passes just before the booking is made. A claim of the drain in
  progress that is copied blocks every refund of the ride.
- `gradual-radius-expander.js` checks that the ride is still open (1010-1028) and writes
  the cancellation later (1165): a ride accepted meanwhile is canceled.
- A cancellation before the payment is copied refunds nothing; the drain usually returns
  the payment, but not if its entry was already dropped because there was a booking.
- Two handlers that settle one ride and both read the payment (`05-distribution.js:253`)
  before either has a claim both pass the gate, and `claimRideRefund` admits the second
  one because the request id is the same: both ask the provider, under one correlation id.
  `OnlyRetryAsksAgain` therefore speaks of handlers that read later. Two more traces of the
  same kind: the mark RETRY_PENDING, left by a handler next to another one whose refund has
  an unknown outcome, opens the gate again; and a handler that finishes later overwrites
  MANUAL_REVIEW_REQUIRED by RETRY_PENDING (`recordPassengerRefundPending` merges without a look
  at what is there).
- A claimed ride that the worker skips because of an error (`queue-worker.js:301-304`,
  `318-322`, `338-341`) stays in the active hash without a search, like those that the
  response handler leaves behind. A failed ZADD leaves a ride in no queue at all.
- `startGradualSearch` looks for a running search (`gradual-radius-expander.js:355`) and
  writes its own (399) several awaits later: the worker and the dispatch after a payment may
  both start one. The model has the two as one step.
- The comment at `05-distribution.js:157-158` says a refund carries no idempotency id;
  `woovi-driver-service.js:1050` gives it one.

## 6. Not modelled

- **Payment reservation of a driver.** Plain SETs on a reservation and a pointer, around
  the payment intent and the creation of the booking, which are not modelled either.
  Reading the code: a reader who finds another or a half-written reservation deletes the
  pointer; consuming extends the TTL to 900 s but not `expiresAtMs`, so a consumed
  reservation is dropped 300 s after it was made; reserving the same payment for another
  driver leaves the first driver's pointer; validate and consume are not atomic.
- **`beginRequest` of the idempotency service**, with its waiting loop and its release that
  compares no owner: the socket handlers that use it are outside the models.
- **Waves of a search and response timers after a restart.** They live in the memory of a
  process, so nothing in the code obliges them to happen: a liveness property would
  have to assume what it is about.
- **Early end, interruption, continuation, review, extension.** They take the steps of
  completion and recovery on the same keys.
- **Release of the driver after a completion that died.** It needs the lease of
  `ActiveTripIndex`, both fields of `RideCommands` and the heartbeat in one module, which
  is too much for TLC.
- **Intents, splits, withdrawals, disputes, fee-only cancellation, the sandbox namespace,
  amounts.** `BillingWorker` and `PaymentRefunds` count payments, they do not add them up.
- **The KYC review workflow, the critical authority of Redis, biometric services, apps,
  dashboards, monitoring.** Clients of the above, or pure computation; a refusal of the
  critical authority is a command that fails before its first step.

What would come next: `beginRequest` with the creation of a booking and the payment
reservation around it, as one module with two passengers and one driver; then the heartbeat
with an index of two phases.
