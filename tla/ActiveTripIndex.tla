--------------------------- MODULE ActiveTripIndex ---------------------------
(***************************************************************************)
(* The exclusion between rides and identity checks that                     *)
(* utils/active-trip-index.js keeps in Redis for every driver:              *)
(*                                                                          *)
(*   idx    active_trip_by_driver:D            the driver's current ride    *)
(*   hash   driver:D activeTripId + lease      its copy in the driver hash  *)
(*   cust   active_trip_customer_by_driver:D   the passenger of that ride   *)
(*   window kyc:identity-verification-window:D and                          *)
(*          kyc:identity-policy-mutation:D     token-owned KYC windows      *)
(*   gate   the driver is held for KYC (step-up challenge, reverification,  *)
(*          deferred recheck)                                               *)
(*                                                                          *)
(* Every Lua script is one action.  What a caller reads before it calls a   *)
(* script is kept in intent, recovery and claim, so that a script may run   *)
(* long after the read.  A key with a TTL is a cell [v, ttl]; Tick ages all *)
(* the cells at once, so no clock and no bound on time is needed.           *)
(***************************************************************************)
EXTENDS Naturals

CONSTANTS Driver, Booking, Token, None,
          TripTTL, RenewThreshold, WindowTTL,
          Eviction   \* may Redis drop a key with a TTL (not under noeviction)?

ASSUME TTLAssumption ==
    /\ TripTTL \in Nat \ {0}
    /\ RenewThreshold \in Nat
    /\ WindowTTL \in [{"verification", "policy"} -> Nat \ {0}]
    /\ Eviction \in BOOLEAN

ASSUME NoneAssumption ==
    None \notin Driver \cup Booking \cup Token \cup {"verification", "policy"}

VARIABLES booking,   \* booking:B, its driverId and the class of its state
          recovery,  \* the recovery of B in progress, if any
          intent,    \* callers that read "D owns B" and have yet to act on it
          idx, hash, cust,
          window, claim,
          gate

bookingVars == <<booking, recovery>>
tripVars == <<idx, hash, cust>>
windowVars == <<window, claim>>
vars == <<booking, recovery, intent, idx, hash, cust, window, claim, gate>>

-----------------------------------------------------------------------------
Kind == {"verification", "policy"}
Other(k) == IF k = "verification" THEN "policy" ELSE "verification"

\* accepted: ACCEPTED; riding: ARRIVED, IN_PROGRESS, REASSIGNED_IN_PROGRESS.
Phase == {"searching", "accepted", "riding", "terminal"}
RecoveryStep == {"clear", "requeue", "unassign"}
NoRecovery == [step |-> "idle", driver |-> None]
NoClaim == [kind |-> None, driver |-> None]

Empty == [v |-> None, ttl |-> 0]
Fresh(x, n) == [v |-> x, ttl |-> n]
Cell(S, n) == [v : S \cup {None}, ttl : 0..n]

\* One unit of time: a key whose TTL runs out is gone, a hash field stays.
AgedKey(c) == IF c.ttl > 1 THEN [c EXCEPT !.ttl = c.ttl - 1] ELSE Empty
\* Fault: the remaining lease of a hash is never clamped at zero.
AgedFieldUnclamped(c) == [c EXCEPT !.ttl = c.ttl - 1]
AgedField(c) == IF c.ttl > 0 THEN [c EXCEPT !.ttl = c.ttl - 1] ELSE c

\* RESOLVE_ACTIVE_TRIP_LUA: the index, else the hash while its lease lasts.
Resolve(d) ==
    IF idx[d].v # None THEN idx[d].v
    ELSE IF hash[d].ttl > 0 THEN hash[d].v ELSE None

\* The same script deletes the hash copy it found without a valid lease.
SweptHash(d) == IF idx[d].v = None /\ hash[d].ttl = 0 THEN Empty ELSE hash[d]

Sweep(d) ==
    /\ hash' = [hash EXCEPT ![d] = SweptHash(d)]
    /\ UNCHANGED <<idx, cust>>

WindowOpen(d) == \E k \in Kind : window[k][d].v # None

Owns(d, b) == booking[b].driver = d /\ booking[b].phase \in {"accepted", "riding"}

\* Fault: HSETNX instead of HSET for the copy in the driver hash.
BindHashOnce(d, b, c) ==
    /\ idx' = [idx EXCEPT ![d] = Fresh(b, TripTTL)]
    /\ hash' = [hash EXCEPT ![d] = IF @.v = None THEN Fresh(b, TripTTL) ELSE @]
    /\ cust' = [cust EXCEPT ![d] = c]

Bind(d, b, c) ==
    /\ idx' = [idx EXCEPT ![d] = Fresh(b, TripTTL)]
    /\ hash' = [hash EXCEPT ![d] = Fresh(b, TripTTL)]
    /\ cust' = [cust EXCEPT ![d] = c]

\* Fault: the customer key is left behind.
UnbindKeepingCustomer(d) ==
    /\ idx' = [idx EXCEPT ![d] = Empty]
    /\ hash' = [hash EXCEPT ![d] = Empty]
    /\ UNCHANGED cust

Unbind(d) ==
    /\ idx' = [idx EXCEPT ![d] = Empty]
    /\ hash' = [hash EXCEPT ![d] = Empty]
    /\ cust' = [cust EXCEPT ![d] = Empty]

-----------------------------------------------------------------------------
Init ==
    /\ booking = [b \in Booking |-> [driver |-> None, phase |-> "searching"]]
    /\ recovery = [b \in Booking |-> NoRecovery]
    /\ intent = {}
    /\ idx = [d \in Driver |-> Empty]
    /\ hash = [d \in Driver |-> Empty]
    /\ cust = [d \in Driver |-> Empty]
    /\ window = [k \in Kind |-> [d \in Driver |-> Empty]]
    /\ claim = [t \in Token |-> NoClaim]
    /\ gate = [d \in Driver |-> FALSE]

-----------------------------------------------------------------------------
(* Rides.                                                                   *)

\* Fault: the policy-mutation and verification keys are not consulted.
FreeForRideIgnoringWindows(d, b) ==
    /\ Resolve(d) \in {None, b}
    /\ gate[d] => Resolve(d) = b

\* The guards every fresh claim of the driver by a ride passes.
FreeForRide(d, b) ==
    /\ Resolve(d) \in {None, b}
    /\ (WindowOpen(d) \/ gate[d]) => Resolve(d) = b

\* The accept CAS of a driver who does not own the booking yet.
AcceptBooking(d, b) ==
    /\ booking[b].phase = "searching"
    /\ FreeForRide(d, b)
    /\ booking' = [booking EXCEPT ![b] = [driver |-> d, phase |-> "accepted"]]
    /\ Bind(d, b, Fresh(b, TripTTL))
    /\ UNCHANGED <<recovery, intent, windowVars, gate>>

\* Fault: the probe compares the driver and not the state of the booking.
ReacceptByDriver(d, b) ==
    /\ booking[b].driver = d
    /\ Bind(d, b, Fresh(b, TripTTL))
    /\ UNCHANGED <<bookingVars, intent, windowVars, gate>>

\* The idempotency probe: an owner who accepts again gets the binding back,
\* whatever the index, the windows or the gate say.
ReacceptBooking(d, b) ==
    /\ Owns(d, b)
    /\ Bind(d, b, Fresh(b, TripTTL))
    /\ UNCHANGED <<bookingVars, intent, windowVars, gate>>

\* StartTrip, the recovery monitor and updateLocation read the booking first.
ReadOwnedBooking(d, b) ==
    /\ Owns(d, b)
    /\ <<d, b>> \notin intent
    /\ intent' = intent \cup {<<d, b>>}
    /\ UNCHANGED <<bookingVars, tripVars, windowVars, gate>>

SetActiveTrip(d, b, known) ==
    /\ <<d, b>> \in intent
    /\ intent' = intent \ {<<d, b>>}
    /\ \/ /\ FreeForRide(d, b)
          /\ Bind(d, b, IF known THEN Fresh(b, TripTTL) ELSE cust[d])
       \/ /\ ~FreeForRide(d, b)
          /\ Sweep(d)
    /\ UNCHANGED <<bookingVars, windowVars, gate>>

\* Fault: the heartbeat trusts the owner field and not the booking's state.
RenewWithoutState(d, b, known) ==
    /\ Resolve(d) = b
    /\ hash[d].ttl > 0 => hash[d].v = b
    /\ booking[b].driver = d
    /\ Bind(d, b, IF known THEN Fresh(b, TripTTL) ELSE cust[d])
    /\ UNCHANGED <<bookingVars, intent, windowVars, gate>>

\* Heartbeats renew the lease only while the booking still confirms it, and
\* rewrite it only when half of it is gone.
RenewActiveTrip(d, b, known) ==
    /\ Resolve(d) = b
    /\ hash[d].ttl > 0 => hash[d].v = b
    /\ booking[b].driver = d
    /\ booking[b].phase # "terminal"
    /\ ~(/\ idx[d].v = b /\ idx[d].ttl > RenewThreshold
         /\ hash[d].v = b /\ hash[d].ttl > RenewThreshold)
    /\ Bind(d, b, IF known THEN Fresh(b, TripTTL)
                  ELSE IF cust[d].v # None THEN Fresh(cust[d].v, TripTTL)
                  ELSE cust[d])
    /\ UNCHANGED <<bookingVars, intent, windowVars, gate>>

\* resolveActiveTripForDriver, and every script that refuses: only the sweep.
ResolveActiveTrip(d) ==
    /\ Sweep(d)
    /\ UNCHANGED <<bookingVars, intent, windowVars, gate>>

\* clearActiveTripForDriver, always bound to the booking it is called for.
ClearActiveTrip(d, b) ==
    IF Resolve(d) = b THEN Unbind(d) ELSE Sweep(d)

AdvanceBooking(b) ==
    /\ booking[b].phase = "accepted"
    /\ booking' = [booking EXCEPT ![b].phase = "riding"]
    /\ UNCHANGED <<recovery, intent, tripVars, windowVars, gate>>

FinishBooking(b) ==
    /\ booking[b].phase # "terminal"
    /\ booking' = [booking EXCEPT ![b].phase = "terminal"]
    /\ UNCHANGED <<recovery, intent, tripVars, windowVars, gate>>

\* The last step of complete, cancel, end-early, review and interrupt.
ReleaseFinished(d, b) ==
    /\ booking[b].phase = "terminal"
    /\ booking[b].driver = d
    /\ Resolve(d) = b
    /\ ClearActiveTrip(d, b)
    /\ UNCHANGED <<bookingVars, intent, windowVars, gate>>

-----------------------------------------------------------------------------
(* recoverAcceptedBooking: the driver of an accepted ride went away.        *)

BeginRecovery(b) ==
    /\ recovery[b].step = "idle"
    /\ booking[b].phase = "accepted"
    /\ recovery' = [recovery EXCEPT ![b] = [step |-> "clear", driver |-> booking[b].driver]]
    /\ UNCHANGED <<booking, intent, tripVars, windowVars, gate>>

\* A ride that lost its driver field has no index to clear; a clear that fails
\* is logged, and the recovery goes on.
RecoveryClear(b) ==
    /\ recovery[b].step = "clear"
    /\ \/ recovery[b].driver # None /\ ClearActiveTrip(recovery[b].driver, b)
       \/ UNCHANGED tripVars
    /\ recovery' = [recovery EXCEPT ![b].step = "requeue"]
    /\ UNCHANGED <<booking, intent, windowVars, gate>>

\* updateBookingState(SEARCHING) throws when the ride went on meanwhile.
RecoveryRequeue(b) ==
    /\ recovery[b].step = "requeue"
    /\ IF booking[b].phase \in {"accepted", "searching"}
         THEN /\ booking' = [booking EXCEPT ![b].phase = "searching"]
              /\ recovery' = [recovery EXCEPT ![b].step = "unassign"]
         ELSE /\ recovery' = [recovery EXCEPT ![b] = NoRecovery]
              /\ UNCHANGED booking
    /\ UNCHANGED <<intent, tripVars, windowVars, gate>>

RecoveryUnassign(b) ==
    /\ recovery[b].step = "unassign"
    /\ booking' = [booking EXCEPT ![b].driver = None]
    /\ recovery' = [recovery EXCEPT ![b] = NoRecovery]
    /\ UNCHANGED <<intent, tripVars, windowVars, gate>>

\* The process dies between two steps; a later recovery starts afresh.
RecoveryCrash(b) ==
    /\ recovery[b].step # "idle"
    /\ recovery' = [recovery EXCEPT ![b] = NoRecovery]
    /\ UNCHANGED <<booking, intent, tripVars, windowVars, gate>>

-----------------------------------------------------------------------------
(* Identity windows.  A token is 24 random bytes: a new claim brings a token *)
(* that no window holds.                                                    *)

\* Fault: a claim looks at its own key only.
ClaimIgnoringOther(k, d, t) ==
    /\ claim[t].kind = None
    /\ \A j \in Kind, e \in Driver : window[j][e].v # t
    /\ Resolve(d) = None
    /\ window[k][d].v = None
    /\ window' = [window EXCEPT ![k][d] = Fresh(t, WindowTTL[k])]
    /\ claim' = [claim EXCEPT ![t] = [kind |-> k, driver |-> d]]
    /\ Sweep(d)
    /\ UNCHANGED <<bookingVars, intent, gate>>

\* Fault: a claim looks at the index key without the fallback in the hash.
ClaimByIndexOnly(k, d, t) ==
    /\ claim[t].kind = None
    /\ \A j \in Kind, e \in Driver : window[j][e].v # t
    /\ idx[d].v = None
    /\ \A j \in Kind : window[j][d].v = None
    /\ window' = [window EXCEPT ![k][d] = Fresh(t, WindowTTL[k])]
    /\ claim' = [claim EXCEPT ![t] = [kind |-> k, driver |-> d]]
    /\ Sweep(d)
    /\ UNCHANGED <<bookingVars, intent, gate>>

ClaimWindow(k, d, t) ==
    /\ claim[t].kind = None
    /\ \A j \in Kind, e \in Driver : window[j][e].v # t
    /\ Resolve(d) = None
    /\ window[Other(k)][d].v = None
    /\ window[k][d].v = None
    /\ window' = [window EXCEPT ![k][d] = Fresh(t, WindowTTL[k])]
    /\ claim' = [claim EXCEPT ![t] = [kind |-> k, driver |-> d]]
    /\ Sweep(d)
    /\ UNCHANGED <<bookingVars, intent, gate>>

\* The same token again (existingOnly or not): extends a window that is still
\* its own, refuses when a ride came in between.
ReclaimWindow(t) ==
    LET k == claim[t].kind
        d == claim[t].driver
    IN  /\ k # None
        /\ Resolve(d) = None
        /\ window[Other(k)][d].v = None
        /\ window[k][d].v = t
        /\ window' = [window EXCEPT ![k][d] = Fresh(t, WindowTTL[k])]
        /\ Sweep(d)
        /\ UNCHANGED <<bookingVars, intent, claim, gate>>

\* Fault: EXPIRE without comparing the token.
RenewAnyWindow(t) ==
    LET k == claim[t].kind
        d == claim[t].driver
    IN  /\ k # None
        /\ window[k][d].v # None
        /\ window' = [window EXCEPT ![k][d] = Fresh(@.v, WindowTTL[k])]
        /\ UNCHANGED <<bookingVars, intent, tripVars, claim, gate>>

RenewWindow(t) ==
    LET k == claim[t].kind
        d == claim[t].driver
    IN  /\ k # None
        /\ window[k][d].v = t
        /\ window' = [window EXCEPT ![k][d] = Fresh(t, WindowTTL[k])]
        /\ UNCHANGED <<bookingVars, intent, tripVars, claim, gate>>

\* Fault: DEL without comparing the token.
ReleaseAnyWindow(t) ==
    /\ claim[t].kind # None
    /\ window' = [window EXCEPT ![claim[t].kind][claim[t].driver] = Empty]
    /\ claim' = [claim EXCEPT ![t] = NoClaim]
    /\ UNCHANGED <<bookingVars, intent, tripVars, gate>>

\* Compare-and-delete by token, then the holder forgets its claim.
ReleaseWindow(t) ==
    LET k == claim[t].kind
        d == claim[t].driver
    IN  /\ k # None
        /\ window' = [window EXCEPT ![k][d] = IF @.v = t THEN Empty ELSE @]
        /\ claim' = [claim EXCEPT ![t] = NoClaim]
        /\ UNCHANGED <<bookingVars, intent, tripVars, gate>>

\* The process that holds the token dies: its window stays until the TTL.
HolderCrash(t) ==
    /\ claim[t].kind # None
    /\ claim' = [claim EXCEPT ![t] = NoClaim]
    /\ UNCHANGED <<bookingVars, intent, tripVars, window, gate>>

\* applyIdentityReverificationGate runs under the policy claim and does not
\* look at the window again.
RaiseGate(t) ==
    /\ claim[t].kind = "policy"
    /\ gate' = [gate EXCEPT ![claim[t].driver] = TRUE]
    /\ UNCHANGED <<bookingVars, intent, tripVars, windowVars>>

\* The report arrives during a ride, or the index cannot be consulted: the
\* recheck is deferred in the driver hash, under no claim.
DeferGate(d) ==
    /\ gate' = [gate EXCEPT ![d] = TRUE]
    /\ UNCHANGED <<bookingVars, intent, tripVars, windowVars>>

\* A verification that succeeds lifts the gate.
LiftGate(t) ==
    /\ claim[t].kind = "verification"
    /\ gate' = [gate EXCEPT ![claim[t].driver] = FALSE]
    /\ UNCHANGED <<bookingVars, intent, tripVars, windowVars>>

-----------------------------------------------------------------------------
(* Environment.                                                             *)

\* Fault: windows are set without EX.
TickSparingWindows ==
    /\ idx' = [d \in Driver |-> AgedKey(idx[d])]
    /\ cust' = [d \in Driver |-> AgedKey(cust[d])]
    /\ hash' = [d \in Driver |-> AgedField(hash[d])]
    /\ UNCHANGED <<bookingVars, intent, windowVars, gate>>

Tick ==
    /\ idx' = [d \in Driver |-> AgedKey(idx[d])]
    /\ cust' = [d \in Driver |-> AgedKey(cust[d])]
    /\ hash' = [d \in Driver |-> AgedField(hash[d])]
    /\ window' = [k \in Kind |-> [d \in Driver |-> AgedKey(window[k][d])]]
    /\ UNCHANGED <<bookingVars, intent, claim, gate>>

\* The heartbeat gives driver:D a short TTL: a silent driver loses the hash,
\* and with it the copy of the index and the gate flags kept there.
ExpireDriverHash(d) ==
    /\ hash' = [hash EXCEPT ![d] = Empty]
    /\ \E held \in {gate[d], FALSE} : gate' = [gate EXCEPT ![d] = held]
    /\ UNCHANGED <<bookingVars, intent, idx, cust, windowVars>>

\* Outside redis_noeviction mode Redis may drop the index key.
EvictIndex(d) ==
    /\ Eviction
    /\ idx[d].v # None
    /\ idx' = [idx EXCEPT ![d] = Empty]
    /\ UNCHANGED <<bookingVars, intent, hash, cust, windowVars, gate>>

RideStep(d, b) ==
    \/ AcceptBooking(d, b)
    \/ ReacceptBooking(d, b)
    \/ ReadOwnedBooking(d, b)
    \/ \E known \in BOOLEAN : SetActiveTrip(d, b, known)
    \/ \E known \in BOOLEAN : RenewActiveTrip(d, b, known)
    \/ ReleaseFinished(d, b)

BookingStep(b) ==
    \/ AdvanceBooking(b)
    \/ FinishBooking(b)
    \/ BeginRecovery(b)
    \/ RecoveryClear(b)
    \/ RecoveryRequeue(b)
    \/ RecoveryUnassign(b)
    \/ RecoveryCrash(b)

DriverStep(d) ==
    \/ ResolveActiveTrip(d)
    \/ DeferGate(d)
    \/ ExpireDriverHash(d)
    \/ EvictIndex(d)

WindowStep(t) ==
    \/ \E k \in Kind, d \in Driver : ClaimWindow(k, d, t)
    \/ ReclaimWindow(t)
    \/ RenewWindow(t)
    \/ ReleaseWindow(t)
    \/ HolderCrash(t)
    \/ RaiseGate(t)
    \/ LiftGate(t)

Next ==
    \/ \E d \in Driver, b \in Booking : RideStep(d, b)
    \/ \E b \in Booking : BookingStep(b)
    \/ \E t \in Token : WindowStep(t)
    \/ \E d \in Driver : DriverStep(d)
    \/ Tick

Spec == Init /\ [][Next]_vars

\* Time passes; nothing else is owed.
FairSpec == Spec /\ WF_vars(Tick)

-----------------------------------------------------------------------------
(* Properties.                                                              *)

\* Every variable keeps its type.
TypeOK ==
    /\ booking \in [Booking -> [driver : Driver \cup {None}, phase : Phase]]
    /\ recovery \in [Booking -> [step : RecoveryStep, driver : Driver \cup {None}]
                                \cup {NoRecovery}]
    /\ intent \subseteq Driver \X Booking
    /\ idx \in [Driver -> Cell(Booking, TripTTL)]
    /\ hash \in [Driver -> Cell(Booking, TripTTL)]
    /\ cust \in [Driver -> Cell(Booking, TripTTL)]
    /\ window \in [Kind -> [Driver -> [v : Token \cup {None}, ttl : Nat]]]
    /\ claim \in [Token -> [kind : Kind, driver : Driver] \cup {NoClaim}]
    /\ gate \in [Driver -> BOOLEAN]

\* A biometric verification and a policy mutation never run on one driver at
\* the same time: each claim script looks at the other key first.
WindowsExclusive ==
    \A d \in Driver : \E k \in Kind : window[k][d].v = None

\* The passenger resolveActiveTripForDriver returns with a ride is the
\* passenger of that ride, although the customer key is written by four
\* scripts and is not rewritten by callers that do not know the customer.
CustomerNamesCurrentTrip ==
    \A d \in Driver :
        Resolve(d) # None /\ cust[d].v # None => cust[d].v = Resolve(d)

\* While the driver hash still vouches for a ride, the index names no other.
IndexAgreesWithHash ==
    \A d \in Driver :
        idx[d].v # None /\ hash[d].ttl > 0 => idx[d].v = hash[d].v

\* No step gives a ride to a driver inside an identity window or held by the
\* KYC gate, except to an owner of the booking who accepts it again.
NoNewRideWhileHeld ==
    [][\A d \in Driver : \A b \in Booking :
          (/\ WindowOpen(d) \/ gate[d]
           /\ Resolve(d) # b
           /\ Resolve(d)' = b) => Owns(d, b)]_vars

\* An identity window never opens on a driver whose ride the index knows, and
\* the step that opens it leaves the driver without one.
WindowOpensOnIdleDriver ==
    [][\A d \in Driver :
          ~WindowOpen(d) /\ WindowOpen(d)' =>
              Resolve(d) = None /\ Resolve(d)' = None]_vars

\* A window ends only when its TTL runs out or when the caller that holds its
\* token releases it: a holder whose window expired and was taken by another
\* never ends the other's window.
OnlyHolderEndsWindow ==
    [][\A k \in Kind : \A d \in Driver : \A t \in Token :
          window[k][d].v = t /\ window[k][d].v' # t =>
              \/ window[k][d].ttl = 1 /\ UNCHANGED claim
              \/ claim[t] = [kind |-> k, driver |-> d] /\ claim'[t].kind = None]_vars

\* No biometric verification runs while its driver is on an active ride:
\* "Verification must not interrupt an active ride" (ARCHITECTURE.md).
NoVerificationDuringRide ==
    \A d \in Driver, b \in Booking :
        booking[b] = [driver |-> d, phase |-> "riding"]
            => window["verification"][d].v = None

Hold == INSTANCE DriverHold WITH
    Drivers <- Driver,
    Rides <- Booking,
    Checks <- Kind \X Token,
    ride <- [d \in Driver |-> Resolve(d)],
    owners <- {p \in Driver \X Booking : Owns(p[1], p[2])},
    late <- intent,
    checks <- [d \in Driver |->
                 {c \in Kind \X Token : window[c[1]][d].v = c[2]}],
    held <- gate

\* Index, hash copy, windows and gate, with leases that run out one by one and
\* callers that act late, behave like one record per driver that is always read
\* and written at once.
ImplementsDriverHold == Hold!Spec

\* The index shows a ride that ended, or that is no longer the driver's.
Stuck(d, b) ==
    /\ Resolve(d) = b
    /\ booking[b].phase = "terminal" \/ booking[b].driver # d

\* The lease of such a ride is extended by nobody except callers that read the
\* booking before: each of them once, and no more of them begin.
StuckLeaseOnlyAges ==
    [][\A d \in Driver : \A b \in Booking :
          Stuck(d, b) /\ Stuck(d, b)' =>
              /\ <<d, b>> \in intent' => <<d, b>> \in intent
              /\ \/ idx'[d].ttl <= idx[d].ttl /\ hash'[d].ttl <= hash[d].ttl
                 \/ <<d, b>> \in intent /\ <<d, b>> \notin intent']_vars

\* A window without a holder is extended by nobody, and never finds a holder.
AbandonedWindowOnlyAges ==
    [][\A k \in Kind : \A d \in Driver : \A t \in Token :
          window[k][d].v = t /\ claim[t].kind = None /\ window'[k][d].v = t =>
              claim'[t].kind = None /\ window'[k][d].ttl <= window[k][d].ttl]_vars

\* So a ride that ended, or that is no longer the driver's, stops blocking the
\* driver even when nobody clears the index: neither heartbeats nor setters that
\* run late keep its lease alive for ever.
GoneRideLetsGo ==
    \A d \in Driver, b \in Booking : Stuck(d, b) ~> ~Stuck(d, b)

\* A window whose holder died stops blocking the driver.
AbandonedWindowEnds ==
    \A k \in Kind, d \in Driver, t \in Token :
        (window[k][d].v = t /\ claim[t].kind = None) ~> (window[k][d].v # t)
=============================================================================
