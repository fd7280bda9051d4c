----------------------- MODULE ActiveTripIndexHoldProofs -----------------------
(***************************************************************************)
(* ActiveTripIndex implements DriverHold, for any drivers, bookings, tokens *)
(* and TTLs, with or without eviction.  The invariants of                   *)
(* ActiveTripIndexProofs do the work: index and hash copy agree, so that a  *)
(* lease that runs out takes a ride away and never shows another one, and   *)
(* one window at most is open, so that a check that ends leaves none.       *)
(***************************************************************************)
EXTENDS ActiveTripIndexProofs

-----------------------------------------------------------------------------
(* The record of each driver.                                               *)

rides == [d \in Driver |-> Resolve(d)]
owned == {p \in Driver \X Booking : Owns(p[1], p[2])}
running == [d \in Driver |-> {c \in Kind \X Token : window[c[1]][d].v = c[2]}]

\* The mapped variables of DriverHold are these.
LEMMA HoldVars == Hold!vars = <<rides, owned, intent, running, gate>>
    BY DEF Hold!vars, rides, owned, running

\* A driver who is resolved to one ride after the step, the others as before.
LEMMA RidesExcept ==
    ASSUME NEW d \in Driver, NEW r, Resolve(d)' = r,
           \A e \in Driver \ {d} : Resolve(e)' = Resolve(e)
    PROVE  rides' = [rides EXCEPT ![d] = r]
    BY DEF rides

LEMMA RidesSame ==
    ASSUME \A d \in Driver : Resolve(d)' = Resolve(d)
    PROVE  rides' = rides
    BY DEF rides

LEMMA OwnedSame ==
    ASSUME \A d \in Driver, b \in Booking : Owns(d, b)' <=> Owns(d, b)
    PROVE  owned' = owned
    BY DEF owned

LEMMA RunningSame ==
    ASSUME \A k \in Kind, d \in Driver : window'[k][d].v = window[k][d].v
    PROVE  running' = running
    BY DEF running

LEMMA BookingSame == ASSUME booking' = booking PROVE owned' = owned
    BY OwnedSame DEF Owns

LEMMA WindowSame == ASSUME window' = window PROVE running' = running
    BY RunningSame

LEMMA TripSame == ASSUME UNCHANGED tripVars PROVE rides' = rides
    BY RidesSame DEF tripVars, Resolve

\* A booking resolved for a driver is a booking.
LEMMA ResolveTyped == ASSUME TypeOK, NEW d \in Driver PROVE Resolve(d) \in Booking \cup {None}
    BY DEF TypeOK, Resolve, Cell

\* No token is None, so that a driver runs a check exactly when a window is open.
LEMMA RunningIsOpen ==
    ASSUME TypeOK, NEW d \in Driver
    PROVE  running[d] = {} <=> ~WindowOpen(d)
<1>1. \A k \in Kind : window[k][d].v \in Token \cup {None}
    BY DEF TypeOK
<1>2. ASSUME NEW k \in Kind, window[k][d].v # None PROVE running[d] # {}
    <2>1. <<k, window[k][d].v>> \in running[d]
        BY <1>1, <1>2 DEF running
    <2>. QED
        BY <2>1
<1>3. ASSUME NEW c \in running[d] PROVE window[c[1]][d].v # None /\ c[1] \in Kind
    BY NoneAssumption DEF running
<1>. QED
    BY <1>2, <1>3 DEF WindowOpen

\* Free in the record is free in the keys.
LEMMA FreeIsFree ==
    ASSUME TypeOK, NEW d \in Driver, NEW b \in Booking
    PROVE  FreeForRide(d, b) <=> rides[d] = b \/ Hold!Free(d)
<1>1. rides[d] = Resolve(d)
    BY DEF rides
<1>2. Hold!Free(d) <=> Resolve(d) = None /\ ~WindowOpen(d) /\ ~gate[d]
    BY <1>1, RunningIsOpen DEF Hold!Free, rides, running
<1>. QED
    BY <1>1, <1>2, NoneAssumption DEF FreeForRide, TypeOK

-----------------------------------------------------------------------------
(* What the scripts do to the record.                                       *)

LEMMA BindRides ==
    ASSUME TypeOK, NEW d \in Driver, NEW b \in Booking, NEW c, Bind(d, b, c)
    PROVE  rides' = [rides EXCEPT ![d] = b]
<1>1. /\ idx'[d] = Fresh(b, TripTTL)
      /\ \A e \in Driver \ {d} : idx'[e] = idx[e] /\ hash'[e] = hash[e]
    BY DEF Bind, TypeOK
<1>2. Resolve(d)' = b
    BY <1>1, CellFacts, NoneAssumption DEF Resolve
<1>3. \A e \in Driver \ {d} : Resolve(e)' = Resolve(e)
    BY <1>1 DEF Resolve
<1>. QED
    BY <1>2, <1>3, RidesExcept

LEMMA SweepRides ==
    ASSUME TypeOK, NEW d \in Driver, Sweep(d)
    PROVE  rides' = rides
<1>1. /\ idx' = idx /\ hash'[d] = SweptHash(d)
      /\ \A e \in Driver \ {d} : hash'[e] = hash[e]
    BY DEF Sweep, TypeOK
<1>2. Resolve(d)' = Resolve(d)
    BY <1>1, CellFacts DEF Resolve, SweptHash
<1>3. \A e \in Driver \ {d} : Resolve(e)' = Resolve(e)
    BY <1>1 DEF Resolve
<1>. QED
    BY <1>2, <1>3, RidesSame

\* Keys that are deleted, expire or are evicted: some drivers lose their ride.
LEMMA LostRides ==
    ASSUME TypeOK, IndexAgreesWithHash,
           \/ \E e \in Driver : Unbind(e) \/ Sweep(e) \/ DropHash(e) \/ DropIndex(e)
           \/ Tick
    PROVE  \E lost \in SUBSET Driver :
               rides' = [d \in Driver |-> IF d \in lost THEN None ELSE rides[d]]
<1>. DEFINE lost == {d \in Driver : Resolve(d)' = None}
<1>1. \A d \in Driver : Resolve(d)' \in {None, Resolve(d)}
    BY OnlyBindingGivesARide
<1>2. \A d \in Driver : Resolve(d)' = IF d \in lost THEN None ELSE Resolve(d)
    BY <1>1
<1>. HIDE DEF lost
<1>3. rides' = [d \in Driver |-> IF d \in lost THEN None ELSE rides[d]]
    BY <1>2 DEF rides
<1>4. lost \in SUBSET Driver
    BY DEF lost
<1>. QED
    BY <1>3, <1>4

\* The record of a driver loses what the step takes away and nothing else.
LEMMA RidesForgotten ==
    ASSUME NEW lost \in SUBSET Driver,
           rides' = [d \in Driver |-> IF d \in lost THEN None ELSE rides[d]],
           running' = running, UNCHANGED <<owned, intent, gate>>
    PROVE  Hold!Next
<1>1. running' = [d \in Driver |-> IF d \in {} THEN {} ELSE running[d]]
    BY DEF running
<1>2. Hold!Forget(lost, {})
    BY <1>1 DEF Hold!Forget, rides, owned, running
<1>. QED
    BY <1>2 DEF Hold!Next

-----------------------------------------------------------------------------
(* Rides.                                                                   *)

LEMMA AcceptHolds ==
    ASSUME TypeOK, NEW d \in Driver, NEW b \in Booking, AcceptBooking(d, b)
    PROVE  Hold!Accept(d, b)
<1>1. rides' = [rides EXCEPT ![d] = b]
    BY BindRides, CellFacts DEF AcceptBooking
<1>2. \A e \in Driver : <<e, b>> \notin owned
    BY DEF AcceptBooking, owned, Owns
<1>3. owned' = owned \cup {<<d, b>>}
    <2>1. /\ booking'[b] = [driver |-> d, phase |-> "accepted"]
          /\ \A c \in Booking \ {b} : booking'[c] = booking[c]
        BY DEF AcceptBooking, TypeOK
    <2>2. ASSUME NEW e \in Driver, NEW c \in Booking
          PROVE  Owns(e, c)' <=> Owns(e, c) \/ (e = d /\ c = b)
        BY <2>1 DEF AcceptBooking, Owns
    <2>. QED
        BY <2>2 DEF owned
<1>4. running' = running
    BY WindowSame DEF AcceptBooking, windowVars
<1>5. rides[d] = b \/ Hold!Free(d)
    BY FreeIsFree DEF AcceptBooking
<1>6. intent' = intent /\ gate' = gate
    BY DEF AcceptBooking
<1>. QED
    BY <1>1, <1>2, <1>3, <1>4, <1>5, <1>6 DEF Hold!Accept, rides, owned, running

LEMMA ReacceptHolds ==
    ASSUME TypeOK, NEW d \in Driver, NEW b \in Booking, ReacceptBooking(d, b)
    PROVE  Hold!Reaccept(d, b)
<1>1. rides' = [rides EXCEPT ![d] = b]
    BY BindRides, CellFacts DEF ReacceptBooking
<1>2. <<d, b>> \in owned
    BY DEF ReacceptBooking, owned
<1>3. running' = running /\ owned' = owned
    BY WindowSame, BookingSame DEF ReacceptBooking, windowVars, bookingVars
<1>4. intent' = intent /\ gate' = gate
    BY DEF ReacceptBooking
<1>. QED
    BY <1>1, <1>2, <1>3, <1>4 DEF Hold!Reaccept, rides, owned, running

LEMMA ReadHolds ==
    ASSUME TypeOK, NEW d \in Driver, NEW b \in Booking, ReadOwnedBooking(d, b)
    PROVE  Hold!Read(d, b)
<1>1. rides' = rides
    BY TripSame DEF ReadOwnedBooking
<1>2. <<d, b>> \in owned
    BY DEF ReadOwnedBooking, owned
<1>3. running' = running /\ owned' = owned
    BY WindowSame, BookingSame DEF ReadOwnedBooking, windowVars, bookingVars
<1>. QED
    BY <1>1, <1>2, <1>3 DEF ReadOwnedBooking, Hold!Read, rides, owned, running

LEMMA SetHolds ==
    ASSUME TypeOK, NEW d \in Driver, NEW b \in Booking, NEW known \in BOOLEAN,
           SetActiveTrip(d, b, known)
    PROVE  Hold!SetLate(d, b)
<1>1. CASE FreeForRide(d, b)
    <2>1. rides' = [rides EXCEPT ![d] = b]
        BY <1>1, BindRides DEF SetActiveTrip
    <2>2. rides[d] = b \/ Hold!Free(d)
        BY <1>1, FreeIsFree
    <2>3. running' = running /\ owned' = owned
        BY WindowSame, BookingSame DEF SetActiveTrip, windowVars, bookingVars
    <2>. QED
        BY <2>1, <2>2, <2>3 DEF SetActiveTrip, Hold!SetLate, rides, owned, running
<1>2. CASE ~FreeForRide(d, b)
    <2>1. rides' = rides
        BY <1>2, SweepRides DEF SetActiveTrip
    <2>2. ~(rides[d] = b \/ Hold!Free(d))
        BY <1>2, FreeIsFree
    <2>3. running' = running /\ owned' = owned
        BY WindowSame, BookingSame DEF SetActiveTrip, windowVars, bookingVars
    <2>. QED
        BY <2>1, <2>2, <2>3 DEF SetActiveTrip, Hold!SetLate, rides, owned, running
<1>. QED
    BY <1>1, <1>2

\* A heartbeat extends leases and gives no one a ride.
LEMMA RenewHolds ==
    ASSUME TypeOK, NEW d \in Driver, NEW b \in Booking, NEW known \in BOOLEAN,
           RenewActiveTrip(d, b, known)
    PROVE  UNCHANGED Hold!vars
<1>1. rides' = [rides EXCEPT ![d] = b]
    BY BindRides DEF RenewActiveTrip
<1>2. rides[d] = b
    BY DEF RenewActiveTrip, rides
<1>3. rides' = rides
    BY <1>1, <1>2 DEF rides
<1>4. running' = running /\ owned' = owned
    BY WindowSame, BookingSame DEF RenewActiveTrip, windowVars, bookingVars
<1>. QED
    BY <1>3, <1>4, HoldVars DEF RenewActiveTrip, Hold!vars, rides, owned, running

LEMMA ReleaseHolds ==
    ASSUME TypeOK, IndexAgreesWithHash, NEW d \in Driver, NEW b \in Booking,
           ReleaseFinished(d, b)
    PROVE  Hold!Next
<1>1. PICK lost \in SUBSET Driver :
          rides' = [e \in Driver |-> IF e \in lost THEN None ELSE rides[e]]
    BY LostRides DEF ReleaseFinished, ClearActiveTrip
<1>2. running' = running /\ owned' = owned
    BY WindowSame, BookingSame DEF ReleaseFinished, windowVars, bookingVars
<1>. QED
    BY <1>1, <1>2, RidesForgotten DEF ReleaseFinished

-----------------------------------------------------------------------------
(* Bookings.                                                                *)

\* A booking that is its driver's no more: it ended, or goes back to the queue.
LEMMA LeavesItsDriver ==
    ASSUME TypeOK, NEW b \in Booking, \A d \in Driver : ~Owns(d, b)',
           \A c \in Booking \ {b} : booking'[c] = booking[c],
           UNCHANGED <<intent, idx, hash, cust, window, gate>>
    PROVE  Hold!Next
<1>1. \A d \in Driver, c \in Booking : Owns(d, c)' <=> Owns(d, c) /\ c # b
    BY DEF Owns
<1>2. owned' = owned \ (Driver \X {b})
    BY <1>1 DEF owned
<1>3. rides' = rides /\ running' = running
    BY TripSame, WindowSame DEF tripVars
<1>4. Hold!Disown(b)
    BY <1>2, <1>3 DEF Hold!Disown, rides, owned, running
<1>. QED
    BY <1>4 DEF Hold!Next

LEMMA BookingHolds ==
    ASSUME TypeOK, IndexAgreesWithHash, NEW b \in Booking, BookingStep(b)
    PROVE  [Hold!Next]_(Hold!vars)
<1>1. CASE AdvanceBooking(b)
    <2>1. /\ booking'[b].driver = booking[b].driver /\ booking'[b].phase = "riding"
          /\ booking[b].phase = "accepted"
          /\ \A c \in Booking \ {b} : booking'[c] = booking[c]
        BY <1>1 DEF AdvanceBooking, TypeOK
    <2>2. owned' = owned
        BY <2>1, OwnedSame DEF Owns
    <2>3. rides' = rides /\ running' = running
        BY <1>1, TripSame, WindowSame DEF AdvanceBooking, windowVars
    <2>. QED
        BY <1>1, <2>2, <2>3, HoldVars DEF AdvanceBooking, Hold!vars, rides, owned, running
<1>2. CASE FinishBooking(b)
    <2>1. /\ booking'[b].phase = "terminal"
          /\ \A c \in Booking \ {b} : booking'[c] = booking[c]
        BY <1>2 DEF FinishBooking, TypeOK
    <2>2. \A d \in Driver : ~Owns(d, b)'
        BY <2>1 DEF Owns
    <2>. QED
        BY <1>2, <2>1, <2>2, LeavesItsDriver DEF FinishBooking, tripVars, windowVars
<1>3. CASE BeginRecovery(b) \/ RecoveryCrash(b)
    <2>1. rides' = rides /\ running' = running /\ owned' = owned
        BY <1>3, TripSame, WindowSame, BookingSame DEF BeginRecovery, RecoveryCrash, windowVars
    <2>. QED
        BY <1>3, <2>1, HoldVars DEF BeginRecovery, RecoveryCrash, Hold!vars, rides, owned, running
<1>4. CASE RecoveryClear(b)
    <2>1. running' = running /\ owned' = owned /\ intent' = intent /\ gate' = gate
        BY <1>4, WindowSame, BookingSame DEF RecoveryClear, windowVars
    <2>2. CASE UNCHANGED tripVars
        BY <2>1, <2>2, TripSame, HoldVars DEF Hold!vars, rides, owned, running
    <2>3. CASE recovery[b].driver # None /\ ClearActiveTrip(recovery[b].driver, b)
        <3>1. recovery[b].driver \in Driver
            BY <1>4, <2>3, RecoveryTyped DEF RecoveryClear
        <3>2. PICK lost \in SUBSET Driver :
                  rides' = [e \in Driver |-> IF e \in lost THEN None ELSE rides[e]]
            BY <2>3, <3>1, LostRides DEF ClearActiveTrip
        <3>. QED
            BY <2>1, <3>2, RidesForgotten
    <2>. QED
        BY <1>4, <2>2, <2>3 DEF RecoveryClear
<1>5. CASE RecoveryRequeue(b)
    <2>1. UNCHANGED <<intent, idx, hash, cust, window, gate>>
        BY <1>5 DEF RecoveryRequeue, tripVars, windowVars
    <2>2. CASE booking' = booking
        <3>1. rides' = rides /\ running' = running /\ owned' = owned
            BY <2>1, <2>2, TripSame, WindowSame, BookingSame DEF tripVars
        <3>. QED
            BY <2>1, <3>1, HoldVars DEF Hold!vars, rides, owned, running
    <2>3. CASE booking' = [booking EXCEPT ![b].phase = "searching"]
        <3>1. /\ booking'[b].phase = "searching"
              /\ \A c \in Booking \ {b} : booking'[c] = booking[c]
            BY <2>3 DEF TypeOK
        <3>2. \A d \in Driver : ~Owns(d, b)'
            BY <3>1 DEF Owns
        <3>. QED
            BY <2>1, <3>1, <3>2, LeavesItsDriver
    <2>. QED
        BY <1>5, <2>2, <2>3 DEF RecoveryRequeue
<1>6. CASE RecoveryUnassign(b)
    <2>1. /\ booking'[b].driver = None
          /\ \A c \in Booking \ {b} : booking'[c] = booking[c]
        BY <1>6 DEF RecoveryUnassign, TypeOK
    <2>2. \A d \in Driver : ~Owns(d, b)'
        BY <2>1, NoneAssumption DEF Owns
    <2>. QED
        BY <1>6, <2>1, <2>2, LeavesItsDriver DEF RecoveryUnassign, tripVars, windowVars
<1>. QED
    BY <1>1, <1>2, <1>3, <1>4, <1>5, <1>6 DEF BookingStep

-----------------------------------------------------------------------------
(* Windows and gate.                                                        *)

\* With one window at most, a driver has no other check than the one of k.
LEMMA OneCheck ==
    ASSUME TypeOK, WindowsExclusive, NEW k \in Kind, NEW d \in Driver, NEW t \in Token,
           window[k][d].v = t
    PROVE  running[d] = {<<k, t>>}
<1>1. \A j \in Kind : j # k => window[j][d].v = None
    BY NoneAssumption DEF WindowsExclusive, Kind
<1>2. \A c \in running[d] : c = <<k, t>>
    BY <1>1, NoneAssumption DEF running
<1>3. <<k, t>> \in running[d]
    BY DEF running
<1>. QED
    BY <1>2, <1>3

LEMMA ClaimHolds ==
    ASSUME TypeOK, NEW k \in Kind, NEW d \in Driver, NEW t \in Token, ClaimWindow(k, d, t)
    PROVE  Hold!Next
<1>1. \A j \in Kind : window[j][d].v = None
    BY ClaimEffects DEF Kind, Other
<1>2. rides[d] = None /\ running[d] = {}
    BY <1>1, RunningIsOpen, ClaimEffects DEF rides, WindowOpen
<1>3. \A e \in Driver : <<k, t>> \notin running[e]
    BY DEF ClaimWindow, running
<1>4. rides' = rides /\ owned' = owned
    BY SweepRides, BookingSame DEF ClaimWindow, bookingVars
<1>5. running' = [running EXCEPT ![d] = {<<k, t>>}]
    <2>1. /\ window'[k][d].v = t
          /\ \A j \in Kind, e \in Driver :
                j # k \/ e # d => window'[j][e].v = window[j][e].v
        BY CellFacts, ClaimEffects DEF ClaimWindow, TypeOK
    <2>2. ASSUME NEW e \in Driver \ {d} PROVE running'[e] = running[e]
        BY <2>1 DEF running
    <2>3. running'[d] = {<<k, t>>}
        <3>1. \A c \in Kind \X Token : window'[c[1]][d].v = c[2] <=> c = <<k, t>>
            BY <1>1, <2>1, NoneAssumption
        <3>. QED
            BY <3>1 DEF running
    <2>. QED
        BY <2>2, <2>3 DEF running
<1>6. Hold!BeginCheck(d, <<k, t>>)
    BY <1>2, <1>3, <1>4, <1>5 DEF ClaimWindow, Hold!BeginCheck, rides, owned, running
<1>. QED
    BY <1>6 DEF Hold!Next

\* A holder that extends its own window changes no check.
LEMMA ExtendHolds ==
    ASSUME TypeOK, NEW t \in Token, ReclaimWindow(t) \/ RenewWindow(t)
    PROVE  UNCHANGED Hold!vars
<1>. DEFINE k == claim[t].kind
            d == claim[t].driver
<1>1. /\ k \in Kind /\ d \in Driver /\ window[k][d].v = t
      /\ window' = [window EXCEPT ![k][d] = Fresh(t, WindowTTL[k])]
      /\ Sweep(d) \/ UNCHANGED tripVars
      /\ UNCHANGED <<bookingVars, intent, gate>>
    BY ClaimTyped DEF ReclaimWindow, RenewWindow
<1>. HIDE DEF k, d
<1>2. \A j \in Kind, e \in Driver : window'[j][e].v = window[j][e].v
    BY <1>1, CellFacts DEF TypeOK
<1>3. running' = running /\ rides' = rides /\ owned' = owned
    BY <1>1, <1>2, RunningSame, SweepRides, TripSame, BookingSame DEF bookingVars
<1>. QED
    BY <1>1, <1>3, HoldVars DEF Hold!vars, rides, owned, running

LEMMA ReleaseWindowHolds ==
    ASSUME TypeOK, WindowsExclusive, NEW t \in Token, ReleaseWindow(t)
    PROVE  [Hold!Next]_(Hold!vars)
<1>1. PICK k \in Kind, d \in Driver :
          window' = [window EXCEPT ![k][d] = IF @.v = t THEN Empty ELSE @]
    <2>1. claim[t].kind \in Kind /\ claim[t].driver \in Driver
        BY ClaimTyped DEF ReleaseWindow
    <2>. QED
        BY <2>1 DEF ReleaseWindow
<1>2. rides' = rides /\ owned' = owned /\ intent' = intent /\ gate' = gate
    BY TripSame, BookingSame DEF ReleaseWindow, bookingVars
<1>3. CASE window[k][d].v # t
    <2>1. running' = running
        BY <1>1, <1>3, RunningSame DEF TypeOK
    <2>. QED
        BY <1>2, <2>1, HoldVars DEF Hold!vars, rides, owned, running
<1>4. CASE window[k][d].v = t
    <2>1. /\ window'[k][d].v = None
          /\ \A j \in Kind, e \in Driver : j # k \/ e # d => window'[j][e] = window[j][e]
        BY <1>1, <1>4, CellFacts DEF TypeOK
    <2>2. running[d] = {<<k, t>>}
        BY <1>1, <1>4, OneCheck
    <2>3. running'[d] = {}
        BY <1>1, <2>1, <2>2, NoneAssumption DEF running
    <2>4. \A e \in Driver \ {d} : running'[e] = running[e]
        BY <2>1 DEF running
    <2>5. running' = [e \in Driver |-> IF e \in {d} THEN {} ELSE running[e]]
        <3>1. running' = [e \in Driver |-> running'[e]]
            BY DEF running
        <3>. QED
            BY <2>3, <2>4, <3>1
    <2>6. rides' = [e \in Driver |-> IF e \in {} THEN None ELSE rides[e]]
        BY <1>2 DEF rides
    <2>7. Hold!Forget({}, {d})
        BY <1>2, <2>5, <2>6 DEF Hold!Forget, rides, owned, running
    <2>. QED
        BY <2>7 DEF Hold!Next
<1>. QED
    BY <1>3, <1>4

LEMMA WindowHolds ==
    ASSUME TypeOK, WindowsExclusive, NEW t \in Token, WindowStep(t)
    PROVE  [Hold!Next]_(Hold!vars)
<1>1. CASE \E k \in Kind, d \in Driver : ClaimWindow(k, d, t)
    BY <1>1, ClaimHolds
<1>2. CASE ReclaimWindow(t) \/ RenewWindow(t)
    BY <1>2, ExtendHolds
<1>3. CASE ReleaseWindow(t)
    BY <1>3, ReleaseWindowHolds
<1>4. CASE HolderCrash(t)
    <2>1. rides' = rides /\ owned' = owned /\ running' = running
        BY <1>4, TripSame, BookingSame, WindowSame DEF HolderCrash, bookingVars
    <2>. QED
        BY <1>4, <2>1, HoldVars DEF HolderCrash, Hold!vars, rides, owned, running
<1>5. CASE RaiseGate(t)
    <2>1. claim[t].driver \in Driver
        BY <1>5, ClaimTyped, NoneAssumption DEF RaiseGate
    <2>2. rides' = rides /\ owned' = owned /\ running' = running
        BY <1>5, TripSame, BookingSame, WindowSame DEF RaiseGate, bookingVars, windowVars
    <2>3. Hold!Hold(claim[t].driver)
        BY <1>5, <2>2 DEF RaiseGate, Hold!Hold, rides, owned, running
    <2>. QED
        BY <2>1, <2>3 DEF Hold!Next
<1>6. CASE LiftGate(t)
    <2>1. claim[t].driver \in Driver
        BY <1>6, ClaimTyped, NoneAssumption DEF LiftGate
    <2>2. rides' = rides /\ owned' = owned /\ running' = running
        BY <1>6, TripSame, BookingSame, WindowSame DEF LiftGate, bookingVars, windowVars
    <2>3. rides' = [rides EXCEPT ![claim[t].driver] = rides[claim[t].driver]]
        BY <2>2 DEF rides
    <2>4. Hold!Lift(claim[t].driver)
        BY <1>6, <2>2, <2>3 DEF LiftGate, Hold!Lift, rides, owned, running
    <2>. QED
        BY <2>1, <2>4 DEF Hold!Next
<1>. QED
    BY <1>1, <1>2, <1>3, <1>4, <1>5, <1>6 DEF WindowStep

-----------------------------------------------------------------------------
(* Drivers and time.                                                        *)

LEMMA DriverHolds ==
    ASSUME TypeOK, IndexAgreesWithHash, NEW d \in Driver, DriverStep(d)
    PROVE  [Hold!Next]_(Hold!vars)
<1>1. CASE ResolveActiveTrip(d)
    <2>1. rides' = rides /\ owned' = owned /\ running' = running
        BY <1>1, SweepRides, BookingSame, WindowSame DEF ResolveActiveTrip, bookingVars, windowVars
    <2>. QED
        BY <1>1, <2>1, HoldVars DEF ResolveActiveTrip, Hold!vars, rides, owned, running
<1>2. CASE DeferGate(d)
    <2>1. rides' = rides /\ owned' = owned /\ running' = running
        BY <1>2, TripSame, BookingSame, WindowSame DEF DeferGate, bookingVars, windowVars
    <2>2. Hold!Hold(d)
        BY <1>2, <2>1 DEF DeferGate, Hold!Hold, rides, owned, running
    <2>. QED
        BY <2>2 DEF Hold!Next
<1>3. CASE ExpireDriverHash(d)
    <2>1. owned' = owned /\ running' = running /\ intent' = intent
        BY <1>3, BookingSame, WindowSame DEF ExpireDriverHash, bookingVars, windowVars
    <2>2. DropHash(d)
        BY <1>3 DEF ExpireDriverHash, DropHash
    <2>3. PICK h \in {gate[d], FALSE} : gate' = [gate EXCEPT ![d] = h]
        BY <1>3, Zenon DEF ExpireDriverHash
    <2>4. CASE gate' = gate
        BY <2>1, <2>2, <2>4, LostRides, RidesForgotten
    <2>5. CASE gate' = [gate EXCEPT ![d] = FALSE]
        <3>1. Resolve(d)' \in {None, Resolve(d)}
            BY <2>2, OnlyBindingGivesARide
        <3>2. \A e \in Driver \ {d} : Resolve(e)' = Resolve(e)
            BY <2>2 DEF DropHash, Resolve, TypeOK
        <3>3. rides' = [rides EXCEPT ![d] = Resolve(d)']
            BY <3>2 DEF rides
        <3>4. Resolve(d)' \in {rides[d], None}
            BY <3>1 DEF rides
        <3>5. Hold!Lift(d)
            BY <2>1, <2>5, <3>3, <3>4 DEF Hold!Lift, rides, owned, running
        <3>. QED
            BY <3>5 DEF Hold!Next
    <2>6. gate' = gate \/ gate' = [gate EXCEPT ![d] = FALSE]
        <3>1. [gate EXCEPT ![d] = gate[d]] = gate
            BY DEF TypeOK
        <3>. QED
            BY <2>3, <3>1
    <2>. QED
        BY <2>4, <2>5, <2>6
<1>4. CASE EvictIndex(d)
    <2>1. UNCHANGED <<owned, running, intent, gate>>
        BY <1>4, BookingSame, WindowSame DEF EvictIndex, bookingVars, windowVars
    <2>2. DropIndex(d)
        BY <1>4 DEF EvictIndex, DropIndex
    <2>. QED
        BY <2>1, <2>2, LostRides, RidesForgotten
<1>. QED
    BY <1>1, <1>2, <1>3, <1>4 DEF DriverStep

\* Time takes rides and checks from several drivers at once.
LEMMA TickHolds ==
    ASSUME TypeOK, IndexAgreesWithHash, WindowsExclusive, Tick
    PROVE  Hold!Next
<1>. DEFINE ended == {d \in Driver : \A k \in Kind : window'[k][d].v = None}
<1>1. PICK lost \in SUBSET Driver :
          rides' = [d \in Driver |-> IF d \in lost THEN None ELSE rides[d]]
    BY LostRides
<1>2. owned' = owned /\ intent' = intent /\ gate' = gate
    BY BookingSame DEF Tick, bookingVars
<1>3. \A k \in Kind, d \in Driver : window'[k][d].v \in {None, window[k][d].v}
    <2>. SUFFICES ASSUME NEW k \in Kind, NEW d \in Driver
                  PROVE  window'[k][d].v \in {None, window[k][d].v}
        OBVIOUS
    <2>1. window'[k][d] = AgedKey(window[k][d])
        BY DEF Tick
    <2>2. window[k][d] \in [v : Token \cup {None}, ttl : Nat]
        BY DEF TypeOK
    <2>. QED
        BY <2>1, <2>2 DEF AgedKey, Empty
<1>4. ASSUME NEW d \in Driver PROVE running'[d] = IF d \in ended THEN {} ELSE running[d]
    <2>1. CASE d \in ended
        BY <2>1, NoneAssumption DEF running
    <2>2. CASE d \notin ended
        <3>1. PICK k \in Kind : window'[k][d].v # None
            BY <2>2
        <3>2. window'[k][d].v = window[k][d].v /\ window[k][d].v # None
            BY <1>3, <3>1
        <3>3. \A j \in Kind : j # k => window[j][d].v = None
            BY <3>2 DEF WindowsExclusive, Kind
        <3>4. \A j \in Kind : window'[j][d].v = window[j][d].v
            BY <1>3, <3>2, <3>3
        <3>5. running'[d] = running[d]
            BY <3>4 DEF running
        <3>. QED
            BY <2>2, <3>5
    <2>. QED
        BY <2>1, <2>2
<1>5. PICK done \in SUBSET Driver : done = ended
    OBVIOUS
<1>. HIDE DEF ended
<1>6. running' = [d \in Driver |-> IF d \in done THEN {} ELSE running[d]]
    <2>1. running' = [d \in Driver |-> running'[d]]
        BY DEF running
    <2>. QED
        BY <1>4, <1>5, <2>1
<1>7. Hold!Forget(lost, done)
    BY <1>1, <1>2, <1>6 DEF Hold!Forget, rides, owned, running
<1>. QED
    BY <1>7 DEF Hold!Next

-----------------------------------------------------------------------------
(* The refinement.                                                          *)

LEMMA RideHolds ==
    ASSUME TypeOK, IndexAgreesWithHash, NEW d \in Driver, NEW b \in Booking, RideStep(d, b)
    PROVE  [Hold!Next]_(Hold!vars)
<1>1. CASE Hold!Accept(d, b) \/ Hold!Reaccept(d, b) \/ Hold!Read(d, b) \/ Hold!SetLate(d, b)
    BY <1>1 DEF Hold!Next
<1>. QED
    BY <1>1, AcceptHolds, ReacceptHolds, ReadHolds, SetHolds, RenewHolds, ReleaseHolds
    DEF RideStep

LEMMA HoldBegins == ASSUME Init PROVE Hold!Init
<1>1. \A d \in Driver : Resolve(d) = None
    BY CellFacts DEF Init, Resolve
<1>2. \A k \in Kind, d \in Driver : window[k][d].v = None
    BY CellFacts DEF Init
<1>3. rides = [d \in Driver |-> None]
    BY <1>1 DEF rides
<1>4. running = [d \in Driver |-> {}]
    BY <1>2, NoneAssumption DEF running
<1>5. owned = {}
    BY DEF Init, owned, Owns
<1>. QED
    BY <1>3, <1>4, <1>5 DEF Init, Hold!Init, rides, owned, running

\* Five keys per driver, whose leases run out one by one and which are written
\* by callers that act late, are one record per driver: a ride is given to a
\* driver only while the driver is free, or back to its owner, a check begins
\* only on a driver without ride and check, and nothing but time, a release or
\* an eviction takes either away.
THEOREM HoldImplemented == Spec => ImplementsDriverHold
<1>. DEFINE Inv == TypeOK /\ IndexAgreesWithHash /\ WindowsExclusive
<1>1. Init => Hold!Init
    BY HoldBegins
<1>2. Inv /\ [Next]_vars => [Hold!Next]_(Hold!vars)
    <2>1. CASE UNCHANGED vars
        <3>1. rides' = rides /\ owned' = owned /\ running' = running
            BY <2>1, TripSame, BookingSame, WindowSame DEF vars, tripVars
        <3>. QED
            BY <2>1, <3>1, HoldVars DEF vars, Hold!vars, rides, owned, running
    <2>. QED
        BY <2>1, RideHolds, BookingHolds, WindowHolds, DriverHolds, TickHolds DEF Next
<1>. QED
    BY <1>1, <1>2, TypeCorrect, HashAgreement, Exclusion, PTL
    DEF Spec, ImplementsDriverHold, Hold!Spec
=============================================================================
