------------------------ MODULE ActiveTripIndexProofs ------------------------
(***************************************************************************)
(* Proofs about ActiveTripIndex for any drivers, bookings, tokens and TTLs.  *)
(* TypeCorrect goes through the actions one by one; the other theorems go    *)
(* through what an action can do to the index (TripEffects) or to the        *)
(* windows (WindowEffects, WindowStepEffects).                               *)
(***************************************************************************)
EXTENDS ActiveTripIndex, TLAPS

-----------------------------------------------------------------------------
(* Types.                                                                   *)

\* Cells keep their type when they are written, deleted or aged.
LEMMA CellFacts ==
    /\ Empty.v = None /\ Empty.ttl = 0
    /\ \A S, n : n \in Nat => Empty \in Cell(S, n)
    /\ \A b \in Booking : Fresh(b, TripTTL) \in Cell(Booking, TripTTL)
    /\ \A b, n : Fresh(b, n).v = b /\ Fresh(b, n).ttl = n
    /\ \A S : \A n \in Nat : \A c \in Cell(S, n) :
          AgedKey(c) \in Cell(S, n) /\ AgedField(c) \in Cell(S, n)
<1>1. Empty.v = None /\ Empty.ttl = 0
    BY DEF Empty
<1>2. \A S, n : n \in Nat => Empty \in Cell(S, n)
    BY DEF Empty, Cell
<1>3. \A b \in Booking : Fresh(b, TripTTL) \in Cell(Booking, TripTTL)
    BY TTLAssumption DEF Fresh, Cell
<1>4. \A b, n : Fresh(b, n).v = b /\ Fresh(b, n).ttl = n
    BY DEF Fresh
<1>5. ASSUME NEW S, NEW n \in Nat, NEW c \in Cell(S, n)
      PROVE  AgedKey(c) \in Cell(S, n) /\ AgedField(c) \in Cell(S, n)
    <2>1. [c EXCEPT !.ttl = c.ttl - 1] = [v |-> c.v, ttl |-> c.ttl - 1]
        BY DEF Cell
    <2>. QED
        BY <2>1, <1>2 DEF Cell, AgedKey, AgedField
<1>. QED
    BY <1>1, <1>2, <1>3, <1>4, <1>5

\* Writing a ride into index, hash and customer key keeps their types.
LEMMA BindTyped ==
    ASSUME TypeOK, NEW d \in Driver, NEW b \in Booking,
           NEW c \in Cell(Booking, TripTTL), Bind(d, b, c)
    PROVE  /\ idx' \in [Driver -> Cell(Booking, TripTTL)]
           /\ hash' \in [Driver -> Cell(Booking, TripTTL)]
           /\ cust' \in [Driver -> Cell(Booking, TripTTL)]
    BY CellFacts DEF Bind, TypeOK

\* Deleting a driver's ride keeps the types of index, hash and customer key.
LEMMA UnbindTyped ==
    ASSUME TypeOK, NEW d \in Driver, Unbind(d)
    PROVE  /\ idx' \in [Driver -> Cell(Booking, TripTTL)]
           /\ hash' \in [Driver -> Cell(Booking, TripTTL)]
           /\ cust' \in [Driver -> Cell(Booking, TripTTL)]
    BY CellFacts, TTLAssumption DEF Unbind, TypeOK

\* The sweep of an expired hash copy touches nothing else.
LEMMA SweepTyped ==
    ASSUME TypeOK, NEW d \in Driver, Sweep(d)
    PROVE  /\ idx' = idx
           /\ hash' \in [Driver -> Cell(Booking, TripTTL)]
           /\ cust' = cust
    BY CellFacts, TTLAssumption DEF Sweep, SweptHash, TypeOK

\* A booking whose phase or driver is rewritten keeps its type.
LEMMA BookingTyped ==
    ASSUME TypeOK, NEW b \in Booking
    PROVE  /\ \A p \in Phase : [booking EXCEPT ![b].phase = p]
                  \in [Booking -> [driver : Driver \cup {None}, phase : Phase]]
           /\ [booking EXCEPT ![b].driver = None]
                  \in [Booking -> [driver : Driver \cup {None}, phase : Phase]]
<1>1. booking[b] \in [driver : Driver \cup {None}, phase : Phase]
    BY DEF TypeOK
<1>2. ASSUME NEW p \in Phase
      PROVE  [booking[b] EXCEPT !.phase = p] \in [driver : Driver \cup {None}, phase : Phase]
    BY <1>1, Zenon
<1>3. [booking[b] EXCEPT !.driver = None] \in [driver : Driver \cup {None}, phase : Phase]
    BY <1>1, Zenon
<1>. QED
    BY <1>2, <1>3, Zenon DEF TypeOK

\* A recovery under way stays typed as it advances.
LEMMA RecoveryTyped ==
    ASSUME TypeOK, NEW b \in Booking, recovery[b].step # "idle"
    PROVE  /\ recovery[b].driver \in Driver \cup {None}
           /\ \A s \in RecoveryStep : [recovery EXCEPT ![b].step = s]
               \in [Booking -> [step : RecoveryStep, driver : Driver \cup {None}] \cup {NoRecovery}]
<1>1. recovery[b] \in [step : RecoveryStep, driver : Driver \cup {None}]
    BY DEF TypeOK, NoRecovery
<1>2. ASSUME NEW s \in RecoveryStep
      PROVE  [recovery[b] EXCEPT !.step = s] \in [step : RecoveryStep, driver : Driver \cup {None}]
    BY <1>1, Zenon
<1>3. recovery[b].driver \in Driver \cup {None}
    BY <1>1
<1>. QED
    BY <1>2, <1>3, Zenon DEF TypeOK

\* A held claim names a window.
LEMMA ClaimTyped ==
    ASSUME TypeOK, NEW t \in Token, claim[t].kind # None
    PROVE  claim[t].kind \in Kind /\ claim[t].driver \in Driver
<1>1. claim[t] \in [kind : Kind, driver : Driver]
    BY DEF TypeOK, NoClaim
<1>. QED
    BY <1>1

\* A window keeps its type when it is set, extended or compared and deleted.
LEMMA WindowTyped ==
    ASSUME TypeOK, NEW k \in Kind, NEW d \in Driver
    PROVE  /\ \A t \in Token : [window EXCEPT ![k][d] = Fresh(t, WindowTTL[k])]
                  \in [Kind -> [Driver -> [v : Token \cup {None}, ttl : Nat]]]
           /\ \A t \in Token : [window EXCEPT ![k][d] = IF @.v = t THEN Empty ELSE @]
                  \in [Kind -> [Driver -> [v : Token \cup {None}, ttl : Nat]]]
<1>. DEFINE WinCell == [v : Token \cup {None}, ttl : Nat]
<1>1. window[k] \in [Driver -> WinCell] /\ window[k][d] \in WinCell
    BY DEF TypeOK
<1>2. Empty \in WinCell /\ \A t \in Token : Fresh(t, WindowTTL[k]) \in WinCell
    BY TTLAssumption DEF Empty, Fresh, Kind
<1>3. ASSUME NEW c \in WinCell
      PROVE  [window EXCEPT ![k][d] = c] \in [Kind -> [Driver -> WinCell]]
    BY <1>1 DEF TypeOK
<1>4. ASSUME NEW t \in Token
      PROVE  [window EXCEPT ![k][d] = IF @.v = t THEN Empty ELSE @]
                 \in [Kind -> [Driver -> WinCell]]
    <2>1. CASE window[k][d].v = t
        BY <2>1, <1>2, <1>3
    <2>2. CASE window[k][d].v # t
        BY <2>2, <1>1, <1>3
    <2>. QED
        BY <2>1, <2>2
<1>. QED
    BY <1>2, <1>3, <1>4

\* The passing of time keeps every cell typed.
LEMMA AgedTyped ==
    ASSUME TypeOK, Tick
    PROVE  /\ idx' \in [Driver -> Cell(Booking, TripTTL)]
           /\ hash' \in [Driver -> Cell(Booking, TripTTL)]
           /\ cust' \in [Driver -> Cell(Booking, TripTTL)]
           /\ window' \in [Kind -> [Driver -> [v : Token \cup {None}, ttl : Nat]]]
<1>1. ASSUME NEW d \in Driver
      PROVE  /\ AgedKey(idx[d]) \in Cell(Booking, TripTTL)
             /\ AgedKey(cust[d]) \in Cell(Booking, TripTTL)
             /\ AgedField(hash[d]) \in Cell(Booking, TripTTL)
    BY CellFacts, TTLAssumption DEF TypeOK
<1>2. ASSUME NEW k \in Kind, NEW d \in Driver
      PROVE  AgedKey(window[k][d]) \in [v : Token \cup {None}, ttl : Nat]
    <2>1. window[k][d] \in [v : Token \cup {None}, ttl : Nat]
        BY DEF TypeOK
    <2>2. window[k][d] \in Cell(Token, window[k][d].ttl)
        BY <2>1 DEF Cell
    <2>3. AgedKey(window[k][d]) \in Cell(Token, window[k][d].ttl)
        BY <2>1, <2>2, CellFacts
    <2>. QED
        BY <2>1, <2>3 DEF Cell
<1>. QED
    BY <1>1, <1>2 DEF Tick


\* Every variable keeps its type in every reachable state.
THEOREM TypeCorrect == Spec => []TypeOK
<1>1. Init => TypeOK
    BY TTLAssumption DEF Init, TypeOK, Cell, Empty, Phase, Kind
<1>2. TypeOK /\ [Next]_vars => TypeOK'
    <2>. SUFFICES ASSUME TypeOK, [Next]_vars PROVE TypeOK'
        OBVIOUS
    <2>1. ASSUME NEW d \in Driver, NEW b \in Booking, AcceptBooking(d, b) PROVE TypeOK'
        BY <2>1, BindTyped, CellFacts DEF AcceptBooking, TypeOK, bookingVars, tripVars, windowVars, Phase, RecoveryStep, NoRecovery
    <2>2. ASSUME NEW d \in Driver, NEW b \in Booking, ReacceptBooking(d, b) PROVE TypeOK'
        BY <2>2, BindTyped, CellFacts DEF ReacceptBooking, TypeOK, bookingVars, tripVars, windowVars
    <2>3. ASSUME NEW d \in Driver, NEW b \in Booking, ReadOwnedBooking(d, b) PROVE TypeOK'
        BY <2>3 DEF ReadOwnedBooking, TypeOK, bookingVars, tripVars, windowVars
    <2>4. ASSUME NEW d \in Driver, NEW b \in Booking, NEW known \in BOOLEAN, SetActiveTrip(d, b, known) PROVE TypeOK'
        BY <2>4, BindTyped, CellFacts, SweepTyped DEF SetActiveTrip, TypeOK, bookingVars, tripVars, windowVars
    <2>5. ASSUME NEW d \in Driver, NEW b \in Booking, NEW known \in BOOLEAN, RenewActiveTrip(d, b, known) PROVE TypeOK'
        <3>. DEFINE c == IF known THEN Fresh(b, TripTTL)
                        ELSE IF cust[d].v # None THEN Fresh(cust[d].v, TripTTL) ELSE cust[d]
        <3>1. cust[d] \in Cell(Booking, TripTTL)
            BY DEF TypeOK
        <3>2. cust[d].v # None => cust[d].v \in Booking
            BY <3>1 DEF Cell
        <3>3. c \in Cell(Booking, TripTTL)
            BY <3>1, <3>2, CellFacts
        <3>4. Bind(d, b, c)
            BY <2>5 DEF RenewActiveTrip
        <3>. HIDE DEF c
        <3>. QED
            BY <2>5, <3>3, <3>4, BindTyped DEF RenewActiveTrip, TypeOK, bookingVars, tripVars, windowVars
    <2>6. ASSUME NEW d \in Driver, NEW b \in Booking, ReleaseFinished(d, b) PROVE TypeOK'
        BY <2>6, SweepTyped, UnbindTyped DEF ReleaseFinished, TypeOK, bookingVars, tripVars, windowVars, ClearActiveTrip
    <2>7. ASSUME NEW b \in Booking, AdvanceBooking(b) PROVE TypeOK'
        <3>1. "riding" \in Phase
            BY DEF Phase
        <3>2. booking' = [booking EXCEPT ![b].phase = "riding"]
            BY <2>7, Zenon DEF AdvanceBooking
        <3>3. booking' \in [Booking -> [driver : Driver \cup {None}, phase : Phase]]
            BY <3>1, <3>2, BookingTyped, Zenon
        <3>. QED
            BY <2>7, <3>3 DEF AdvanceBooking, TypeOK, bookingVars, tripVars, windowVars
    <2>8. ASSUME NEW b \in Booking, FinishBooking(b) PROVE TypeOK'
        <3>1. "terminal" \in Phase
            BY DEF Phase
        <3>2. booking' = [booking EXCEPT ![b].phase = "terminal"]
            BY <2>8, Zenon DEF FinishBooking
        <3>3. booking' \in [Booking -> [driver : Driver \cup {None}, phase : Phase]]
            BY <3>1, <3>2, BookingTyped, Zenon
        <3>. QED
            BY <2>8, <3>3 DEF FinishBooking, TypeOK, bookingVars, tripVars, windowVars
    <2>9. ASSUME NEW b \in Booking, BeginRecovery(b) PROVE TypeOK'
        BY <2>9 DEF BeginRecovery, TypeOK, bookingVars, tripVars, windowVars, Phase, RecoveryStep, NoRecovery
    <2>10. ASSUME NEW b \in Booking, RecoveryClear(b) PROVE TypeOK'
        <3>1. "requeue" \in RecoveryStep
            BY DEF RecoveryStep
        <3>2. recovery' = [recovery EXCEPT ![b].step = "requeue"]
            BY <2>10, Zenon DEF RecoveryClear
        <3>3. recovery' \in [Booking -> [step : RecoveryStep, driver : Driver \cup {None}] \cup {NoRecovery}]
            BY <2>10, <3>1, <3>2, RecoveryTyped DEF RecoveryClear
        <3>4. recovery[b].driver # None => recovery[b].driver \in Driver
            BY <2>10, RecoveryTyped DEF RecoveryClear
        <3>. QED
            BY <2>10, <3>3, <3>4, SweepTyped, UnbindTyped
            DEF RecoveryClear, ClearActiveTrip, TypeOK, bookingVars, tripVars, windowVars
    <2>11. ASSUME NEW b \in Booking, RecoveryRequeue(b) PROVE TypeOK'
        <3>1. "searching" \in Phase /\ "unassign" \in RecoveryStep
            BY DEF Phase, RecoveryStep
        <3>2. \/ booking' = [booking EXCEPT ![b].phase = "searching"]
              \/ booking' = booking
            BY <2>11, Zenon DEF RecoveryRequeue
        <3>3. booking' \in [Booking -> [driver : Driver \cup {None}, phase : Phase]]
            <4>1. booking \in [Booking -> [driver : Driver \cup {None}, phase : Phase]]
                BY DEF TypeOK
            <4>2. [booking EXCEPT ![b].phase = "searching"]
                      \in [Booking -> [driver : Driver \cup {None}, phase : Phase]]
                BY <3>1, BookingTyped
            <4>. QED
                BY <3>2, <4>1, <4>2, Zenon
        <3>4. \/ recovery' = [recovery EXCEPT ![b].step = "unassign"]
              \/ recovery' = [recovery EXCEPT ![b] = NoRecovery]
            BY <2>11, Zenon DEF RecoveryRequeue
        <3>5. [recovery EXCEPT ![b] = NoRecovery] \in [Booking -> [step : RecoveryStep, driver : Driver \cup {None}] \cup {NoRecovery}]
            BY DEF TypeOK
        <3>6. recovery' \in [Booking -> [step : RecoveryStep, driver : Driver \cup {None}] \cup {NoRecovery}]
            <4>1. recovery[b].step # "idle"
                BY <2>11 DEF RecoveryRequeue
            <4>2. [recovery EXCEPT ![b].step = "unassign"]
                      \in [Booking -> [step : RecoveryStep, driver : Driver \cup {None}] \cup {NoRecovery}]
                BY <3>1, <4>1, RecoveryTyped
            <4>. QED
                BY <3>4, <3>5, <4>2, Zenon
        <3>. QED
            BY <2>11, <3>3, <3>6 DEF RecoveryRequeue, TypeOK, bookingVars, tripVars, windowVars
    <2>12. ASSUME NEW b \in Booking, RecoveryUnassign(b) PROVE TypeOK'
        BY <2>12, BookingTyped DEF RecoveryUnassign, TypeOK, bookingVars, tripVars, windowVars, Phase, RecoveryStep, NoRecovery
    <2>13. ASSUME NEW b \in Booking, RecoveryCrash(b) PROVE TypeOK'
        BY <2>13 DEF RecoveryCrash, TypeOK, bookingVars, tripVars, windowVars, Phase, RecoveryStep, NoRecovery
    <2>14. ASSUME NEW k \in Kind, NEW d \in Driver, NEW t \in Token, ClaimWindow(k, d, t) PROVE TypeOK'
        BY <2>14, SweepTyped, WindowTyped DEF ClaimWindow, TypeOK, bookingVars, tripVars, windowVars, NoClaim
    <2>15. ASSUME NEW t \in Token, ReclaimWindow(t) PROVE TypeOK'
        <3>. DEFINE k == claim[t].kind
                   d == claim[t].driver
        <3>1. k \in Kind /\ d \in Driver
            BY <2>15, ClaimTyped DEF ReclaimWindow
        <3>2. window' = [window EXCEPT ![k][d] = Fresh(t, WindowTTL[k])]
            BY <2>15, Zenon DEF ReclaimWindow
        <3>. HIDE DEF k, d
        <3>3. window' \in [Kind -> [Driver -> [v : Token \cup {None}, ttl : Nat]]]
            BY <3>1, <3>2, WindowTyped, Zenon
        <3>. QED
            BY <2>15, <3>1, <3>3, SweepTyped DEF ReclaimWindow, TypeOK, bookingVars, tripVars, windowVars
    <2>16. ASSUME NEW t \in Token, RenewWindow(t) PROVE TypeOK'
        <3>. DEFINE k == claim[t].kind
                   d == claim[t].driver
        <3>1. k \in Kind /\ d \in Driver
            BY <2>16, ClaimTyped DEF RenewWindow
        <3>2. window' = [window EXCEPT ![k][d] = Fresh(t, WindowTTL[k])]
            BY <2>16, Zenon DEF RenewWindow
        <3>. HIDE DEF k, d
        <3>3. window' \in [Kind -> [Driver -> [v : Token \cup {None}, ttl : Nat]]]
            BY <3>1, <3>2, WindowTyped, Zenon
        <3>. QED
            BY <2>16, <3>1, <3>3 DEF RenewWindow, TypeOK, bookingVars, tripVars, windowVars
    <2>17. ASSUME NEW t \in Token, ReleaseWindow(t) PROVE TypeOK'
        <3>. DEFINE k == claim[t].kind
                   d == claim[t].driver
        <3>1. k \in Kind /\ d \in Driver
            BY <2>17, ClaimTyped DEF ReleaseWindow
        <3>2. window' = [window EXCEPT ![k][d] = IF @.v = t THEN Empty ELSE @]
            BY <2>17, Zenon DEF ReleaseWindow
        <3>. HIDE DEF k, d
        <3>3. window' \in [Kind -> [Driver -> [v : Token \cup {None}, ttl : Nat]]]
            BY <3>1, <3>2, WindowTyped, Zenon
        <3>. QED
            BY <2>17, <3>1, <3>3 DEF ReleaseWindow, TypeOK, bookingVars, tripVars, windowVars
    <2>18. ASSUME NEW t \in Token, HolderCrash(t) PROVE TypeOK'
        BY <2>18 DEF HolderCrash, TypeOK, bookingVars, tripVars, windowVars, NoClaim
    <2>19. ASSUME NEW t \in Token, RaiseGate(t) PROVE TypeOK'
        BY <2>19, ClaimTyped DEF RaiseGate, TypeOK, bookingVars, tripVars, windowVars
    <2>20. ASSUME NEW t \in Token, LiftGate(t) PROVE TypeOK'
        BY <2>20, ClaimTyped DEF LiftGate, TypeOK, bookingVars, tripVars, windowVars
    <2>21. ASSUME NEW d \in Driver, ResolveActiveTrip(d) PROVE TypeOK'
        BY <2>21, SweepTyped DEF ResolveActiveTrip, TypeOK, bookingVars, tripVars, windowVars
    <2>22. ASSUME NEW d \in Driver, DeferGate(d) PROVE TypeOK'
        BY <2>22 DEF DeferGate, TypeOK, bookingVars, tripVars, windowVars
    <2>23. ASSUME NEW d \in Driver, ExpireDriverHash(d) PROVE TypeOK'
        <3>1. PICK held \in {gate[d], FALSE} : gate' = [gate EXCEPT ![d] = held]
            BY <2>23, Zenon DEF ExpireDriverHash
        <3>2. held \in BOOLEAN
            BY <3>1, Zenon DEF TypeOK
        <3>3. gate' \in [Driver -> BOOLEAN]
            BY <3>1, <3>2, Zenon DEF TypeOK
        <3>. QED
            BY <2>23, <3>3, CellFacts, TTLAssumption
            DEF ExpireDriverHash, TypeOK, bookingVars, tripVars, windowVars
    <2>24. ASSUME NEW d \in Driver, EvictIndex(d) PROVE TypeOK'
        BY <2>24, CellFacts, TTLAssumption DEF EvictIndex, TypeOK, bookingVars, tripVars, windowVars
    <2>25. ASSUME Tick PROVE TypeOK'
        BY <2>25, AgedTyped DEF Tick, TypeOK, bookingVars, tripVars, windowVars
    <2>26. CASE UNCHANGED vars
        BY <2>26 DEF vars, TypeOK, bookingVars, tripVars, windowVars
    <2>. QED
        BY <2>1, <2>2, <2>3, <2>4, <2>5, <2>6, <2>7, <2>8, <2>9, <2>10, <2>11, <2>12, <2>13, <2>14, <2>15, <2>16, <2>17, <2>18, <2>19, <2>20, <2>21, <2>22, <2>23, <2>24, <2>25, <2>26
        DEF Next, RideStep, BookingStep, WindowStep, DriverStep
<1>. QED
    BY <1>1, <1>2, PTL DEF Spec

-----------------------------------------------------------------------------
(* What a step can do to the index, whatever action it is.                  *)

BindEffect(d, b, c) ==
    /\ Bind(d, b, c)
    /\ \/ Owns(d, b) /\ c = Fresh(b, TripTTL)
       \/ /\ FreeForRide(d, b)
          /\ \/ c = Fresh(b, TripTTL)
             \/ c = cust[d]
             \/ cust[d].v # None /\ c = Fresh(cust[d].v, TripTTL)

DropHash(d) == hash' = [hash EXCEPT ![d] = Empty] /\ UNCHANGED <<idx, cust>>

DropIndex(d) ==
    /\ Eviction /\ idx[d].v # None
    /\ idx' = [idx EXCEPT ![d] = Empty] /\ UNCHANGED <<hash, cust>>

\* Every step binds a ride to one driver, removes something, or lets time pass.
LEMMA TripEffects ==
    ASSUME TypeOK, [Next]_vars
    PROVE  \/ UNCHANGED tripVars
           \/ \E d \in Driver, b \in Booking : \E c \in Cell(Booking, TripTTL) : BindEffect(d, b, c)
           \/ \E d \in Driver : Unbind(d) \/ Sweep(d) \/ DropHash(d) \/ DropIndex(d)
           \/ Tick
<1>. DEFINE Goal == \/ UNCHANGED tripVars
                    \/ \E d \in Driver, b \in Booking : \E c \in Cell(Booking, TripTTL) : BindEffect(d, b, c)
                    \/ \E d \in Driver : Unbind(d) \/ Sweep(d) \/ DropHash(d) \/ DropIndex(d)
                    \/ Tick
<1>1. ASSUME NEW d \in Driver, NEW b \in Booking, AcceptBooking(d, b) \/ ReacceptBooking(d, b)
      PROVE  Goal
    <2>1. Fresh(b, TripTTL) \in Cell(Booking, TripTTL)
        BY CellFacts
    <2>2. BindEffect(d, b, Fresh(b, TripTTL))
        BY <1>1, Zenon DEF AcceptBooking, ReacceptBooking, BindEffect
    <2>. QED
        BY <2>1, <2>2, Zenon
<1>2. ASSUME NEW d \in Driver, NEW b \in Booking, NEW known \in BOOLEAN, SetActiveTrip(d, b, known)
      PROVE  Goal
    <2>1. CASE FreeForRide(d, b)
        <3>. DEFINE c == IF known THEN Fresh(b, TripTTL) ELSE cust[d]
        <3>1. c \in Cell(Booking, TripTTL)
            BY CellFacts DEF TypeOK
        <3>2. BindEffect(d, b, c)
            BY <1>2, <2>1, Zenon DEF SetActiveTrip, BindEffect
        <3>. QED
            BY <3>1, <3>2, Zenon
    <2>2. CASE ~FreeForRide(d, b)
        BY <1>2, <2>2, Zenon DEF SetActiveTrip
    <2>. QED
        BY <2>1, <2>2, Zenon
<1>3. ASSUME NEW d \in Driver, NEW b \in Booking, NEW known \in BOOLEAN, RenewActiveTrip(d, b, known)
      PROVE  Goal
    <2>. DEFINE c == IF known THEN Fresh(b, TripTTL)
                     ELSE IF cust[d].v # None THEN Fresh(cust[d].v, TripTTL) ELSE cust[d]
    <2>1. c \in Cell(Booking, TripTTL)
        <3>1. cust[d] \in Cell(Booking, TripTTL)
            BY DEF TypeOK
        <3>2. cust[d].v # None => cust[d].v \in Booking
            BY <3>1 DEF Cell
        <3>. QED
            BY <3>1, <3>2, CellFacts
    <2>2. FreeForRide(d, b)
        BY <1>3, Zenon DEF RenewActiveTrip, FreeForRide
    <2>3. BindEffect(d, b, c)
        BY <1>3, <2>2, Zenon DEF RenewActiveTrip, BindEffect
    <2>. QED
        BY <2>1, <2>3, Zenon
<1>4. ASSUME NEW d \in Driver, NEW b \in Booking, ReadOwnedBooking(d, b) PROVE Goal
    BY <1>4, Zenon DEF ReadOwnedBooking
<1>5. ASSUME NEW d \in Driver, NEW b \in Booking, ReleaseFinished(d, b) PROVE Goal
    BY <1>5, Zenon DEF ReleaseFinished, ClearActiveTrip
<1>6. ASSUME NEW b \in Booking, BookingStep(b) PROVE Goal
    <2>1. CASE RecoveryClear(b)
        <3>1. recovery[b].driver # None => recovery[b].driver \in Driver
            BY <2>1, RecoveryTyped DEF RecoveryClear
        <3>2. CASE recovery[b].driver # None /\ ClearActiveTrip(recovery[b].driver, b)
            BY <2>1, <3>1, <3>2, Zenon DEF RecoveryClear, ClearActiveTrip
        <3>3. CASE UNCHANGED tripVars
            BY <2>1, <3>3, Zenon DEF RecoveryClear
        <3>. QED
            BY <2>1, <3>2, <3>3, Zenon DEF RecoveryClear
    <2>2. CASE ~RecoveryClear(b)
        BY <1>6, <2>2, Zenon
        DEF BookingStep, AdvanceBooking, FinishBooking, BeginRecovery, RecoveryRequeue,
            RecoveryUnassign, RecoveryCrash
    <2>. QED
        BY <2>1, <2>2
<1>7. ASSUME NEW t \in Token, WindowStep(t) PROVE Goal
    <2>1. ASSUME NEW k \in Kind, NEW d \in Driver, ClaimWindow(k, d, t) PROVE Goal
        BY <2>1, Zenon DEF ClaimWindow
    <2>2. CASE ReclaimWindow(t)
        <3>1. claim[t].driver \in Driver
            BY <2>2, ClaimTyped DEF ReclaimWindow
        <3>. QED
            BY <2>2, <3>1, Zenon DEF ReclaimWindow
    <2>3. CASE RenewWindow(t) \/ ReleaseWindow(t) \/ HolderCrash(t) \/ RaiseGate(t) \/ LiftGate(t)
        BY <2>3, Zenon DEF RenewWindow, ReleaseWindow, HolderCrash, RaiseGate, LiftGate
    <2>. QED
        BY <1>7, <2>1, <2>2, <2>3, Zenon DEF WindowStep
<1>8. ASSUME NEW d \in Driver, DriverStep(d) PROVE Goal
    BY <1>8, Zenon
    DEF DriverStep, ResolveActiveTrip, DeferGate, ExpireDriverHash, EvictIndex, DropHash, DropIndex
<1>9. CASE UNCHANGED vars
    BY <1>9 DEF vars, tripVars
<1>. HIDE DEF Goal
<1>10. Goal
    BY <1>1, <1>2, <1>3, <1>4, <1>5, <1>6, <1>7, <1>8, <1>9, Zenon DEF Next, RideStep, Goal
<1>. QED
    BY <1>10, Zenon DEF Goal

-----------------------------------------------------------------------------
(* Agreement of index, hash copy and customer key.                          *)

\* A written hash copy and the index never name different rides: every script
\* writes both or deletes both, and time and eviction only remove.
THEOREM HashAgreement == Spec => []IndexAgreesWithHash
<1>1. Init => IndexAgreesWithHash
    BY DEF Init, IndexAgreesWithHash, Empty
<1>2. TypeOK /\ IndexAgreesWithHash /\ [Next]_vars => IndexAgreesWithHash'
    <2>. SUFFICES ASSUME TypeOK, IndexAgreesWithHash, [Next]_vars
                  PROVE  IndexAgreesWithHash'
        OBVIOUS
    <2>1. CASE UNCHANGED tripVars
        BY <2>1 DEF tripVars, IndexAgreesWithHash
    <2>2. ASSUME NEW d \in Driver, NEW b \in Booking, NEW c \in Cell(Booking, TripTTL),
                 BindEffect(d, b, c)
          PROVE  IndexAgreesWithHash'
        BY <2>2 DEF BindEffect, Bind, TypeOK, IndexAgreesWithHash
    <2>3. ASSUME NEW d \in Driver, Unbind(d) \/ DropHash(d) \/ DropIndex(d)
          PROVE  IndexAgreesWithHash'
        BY <2>3, CellFacts DEF Unbind, DropHash, DropIndex, TypeOK, IndexAgreesWithHash
    <2>4. ASSUME NEW d \in Driver, Sweep(d) PROVE IndexAgreesWithHash'
        BY <2>4, CellFacts DEF Sweep, SweptHash, TypeOK, IndexAgreesWithHash
    <2>5. CASE Tick
        <3>. SUFFICES ASSUME NEW d \in Driver, idx'[d].v # None, hash'[d].ttl > 0
                      PROVE  idx'[d].v = hash'[d].v
            BY DEF IndexAgreesWithHash
        <3>1. idx[d] \in Cell(Booking, TripTTL) /\ hash[d] \in Cell(Booking, TripTTL)
            BY DEF TypeOK
        <3>2. idx'[d] = AgedKey(idx[d]) /\ hash'[d] = AgedField(hash[d])
            BY <2>5 DEF Tick
        <3>3. idx'[d].v = idx[d].v
            BY <3>1, <3>2 DEF AgedKey, Empty, Cell
        <3>4. hash'[d].v = hash[d].v /\ hash[d].ttl > 0
            BY <3>1, <3>2, TTLAssumption DEF AgedField, Cell
        <3>. QED
            BY <3>3, <3>4 DEF IndexAgreesWithHash
    <2>. QED
        BY <2>1, <2>2, <2>3, <2>4, <2>5, TripEffects
<1>. QED
    BY <1>1, <1>2, TypeCorrect, PTL DEF Spec

\* Without eviction the customer key lives no longer than the index it goes with.
CustomerFollowsIndex ==
    \A d \in Driver : cust[d].v # None => cust[d].v = idx[d].v /\ cust[d].ttl <= idx[d].ttl

\* Where Redis evicts nothing, the passenger resolved with a ride is that ride's
\* passenger: the writers that do not know the customer never leave another's.
THEOREM CustomerCorrect ==
    ASSUME Eviction = FALSE
    PROVE  Spec => []CustomerNamesCurrentTrip
<1>1. Init => CustomerFollowsIndex
    BY DEF Init, CustomerFollowsIndex, Empty
<1>2. TypeOK /\ CustomerFollowsIndex /\ [Next]_vars => CustomerFollowsIndex'
    <2>. SUFFICES ASSUME TypeOK, CustomerFollowsIndex, [Next]_vars
                  PROVE  CustomerFollowsIndex'
        OBVIOUS
    <2>1. CASE UNCHANGED tripVars
        BY <2>1 DEF tripVars, CustomerFollowsIndex
    <2>2. ASSUME NEW d \in Driver, NEW b \in Booking, NEW c \in Cell(Booking, TripTTL),
                 BindEffect(d, b, c)
          PROVE  CustomerFollowsIndex'
        <3>1. cust[d] \in Cell(Booking, TripTTL) /\ idx[d] \in Cell(Booking, TripTTL)
            BY DEF TypeOK
        <3>2. c.v # None => c.v = b /\ c.ttl <= TripTTL
            <4>1. CASE c = Fresh(b, TripTTL)
                BY <4>1, CellFacts, TTLAssumption
            <4>2. CASE FreeForRide(d, b) /\ c = cust[d]
                BY <4>2, <3>1, TTLAssumption
                DEF FreeForRide, Resolve, CustomerFollowsIndex, Cell
            <4>3. CASE /\ FreeForRide(d, b)
                       /\ cust[d].v # None
                       /\ c = Fresh(cust[d].v, TripTTL)
                <5>1. c.v = cust[d].v /\ c.ttl = TripTTL
                    BY <4>3, CellFacts
                <5>. QED
                    BY <4>3, <5>1, TTLAssumption DEF FreeForRide, Resolve, CustomerFollowsIndex
            <4>. QED
                BY <2>2, <4>1, <4>2, <4>3 DEF BindEffect
        <3>3. /\ idx'[d] = Fresh(b, TripTTL) /\ cust'[d] = c
              /\ \A e \in Driver \ {d} : idx'[e] = idx[e] /\ cust'[e] = cust[e]
            BY <2>2 DEF BindEffect, Bind, TypeOK
        <3>4. idx'[d].v = b /\ idx'[d].ttl = TripTTL
            BY <3>3, CellFacts
        <3>. QED
            BY <3>2, <3>3, <3>4 DEF CustomerFollowsIndex
    <2>3. ASSUME NEW d \in Driver, Unbind(d) PROVE CustomerFollowsIndex'
        BY <2>3, CellFacts DEF Unbind, TypeOK, CustomerFollowsIndex
    <2>4. ASSUME NEW d \in Driver, Sweep(d) \/ DropHash(d) \/ DropIndex(d)
          PROVE  CustomerFollowsIndex'
        BY <2>4 DEF Sweep, DropHash, DropIndex, CustomerFollowsIndex
    <2>5. CASE Tick
        <3>. SUFFICES ASSUME NEW d \in Driver, cust'[d].v # None
                      PROVE  cust'[d].v = idx'[d].v /\ cust'[d].ttl <= idx'[d].ttl
            BY DEF CustomerFollowsIndex
        <3>1. idx[d] \in Cell(Booking, TripTTL) /\ cust[d] \in Cell(Booking, TripTTL)
            BY DEF TypeOK
        <3>2. idx'[d] = AgedKey(idx[d]) /\ cust'[d] = AgedKey(cust[d])
            BY <2>5 DEF Tick
        <3>3. cust[d].ttl > 1 /\ cust'[d].v = cust[d].v /\ cust'[d].ttl = cust[d].ttl - 1
            BY <3>1, <3>2 DEF AgedKey, Empty, Cell
        <3>4. cust[d].v = idx[d].v /\ cust[d].ttl <= idx[d].ttl
            BY <3>3 DEF CustomerFollowsIndex
        <3>5. idx'[d].v = idx[d].v /\ idx'[d].ttl = idx[d].ttl - 1
            BY <3>1, <3>2, <3>3, <3>4, TTLAssumption DEF AgedKey, Cell
        <3>. QED
            BY <3>1, <3>3, <3>4, <3>5, TTLAssumption DEF Cell
    <2>. QED
        BY <2>1, <2>2, <2>3, <2>4, <2>5, TripEffects
<1>3. CustomerFollowsIndex => CustomerNamesCurrentTrip
    BY DEF CustomerFollowsIndex, CustomerNamesCurrentTrip, Resolve
<1>. QED
    BY <1>1, <1>2, <1>3, TypeCorrect, PTL DEF Spec

-----------------------------------------------------------------------------
(* What a step can do to the identity windows.                              *)

\* The windows of a step that opens none: each keeps its token or is gone.
NoneOpened ==
    \A k \in Kind, d \in Driver : window'[k][d].v \in {None, window[k][d].v}

\* Only a fresh claim opens a window; every other action keeps or ends them.
LEMMA WindowEffects ==
    ASSUME TypeOK, [Next]_vars
    PROVE  \/ NoneOpened
           \/ \E k \in Kind, d \in Driver, t \in Token : ClaimWindow(k, d, t)
<1>1. ASSUME UNCHANGED window PROVE NoneOpened
    BY <1>1 DEF NoneOpened
<1>2. ASSUME NEW t \in Token, ReclaimWindow(t) \/ RenewWindow(t) PROVE NoneOpened
    <2>. DEFINE k == claim[t].kind
                d == claim[t].driver
    <2>1. /\ k \in Kind /\ d \in Driver /\ window[k][d].v = t
          /\ window' = [window EXCEPT ![k][d] = Fresh(t, WindowTTL[k])]
        BY <1>2, ClaimTyped DEF ReclaimWindow, RenewWindow
    <2>. HIDE DEF k, d
    <2>. QED
        BY <2>1, CellFacts DEF NoneOpened, TypeOK
<1>3. ASSUME NEW t \in Token, ReleaseWindow(t) PROVE NoneOpened
    <2>. DEFINE k == claim[t].kind
                d == claim[t].driver
    <2>1. /\ k \in Kind /\ d \in Driver
          /\ window' = [window EXCEPT ![k][d] = IF @.v = t THEN Empty ELSE @]
        BY <1>3, ClaimTyped DEF ReleaseWindow
    <2>. HIDE DEF k, d
    <2>. QED
        BY <2>1, CellFacts DEF NoneOpened, TypeOK
<1>4. ASSUME Tick PROVE NoneOpened
    <2>. SUFFICES ASSUME NEW k \in Kind, NEW d \in Driver
                  PROVE  window'[k][d].v \in {None, window[k][d].v}
        BY DEF NoneOpened
    <2>1. window'[k][d] = AgedKey(window[k][d])
        BY <1>4 DEF Tick
    <2>2. window[k][d] \in [v : Token \cup {None}, ttl : Nat]
        BY DEF TypeOK
    <2>. QED
        BY <2>1, <2>2 DEF AgedKey, Empty
<1>5. ASSUME NEW d \in Driver, NEW b \in Booking, RideStep(d, b) PROVE UNCHANGED window
    BY <1>5, Zenon
    DEF RideStep, AcceptBooking, ReacceptBooking, ReadOwnedBooking, SetActiveTrip,
        RenewActiveTrip, ReleaseFinished, windowVars
<1>6. ASSUME NEW b \in Booking, BookingStep(b) PROVE UNCHANGED window
    BY <1>6, Zenon
    DEF BookingStep, AdvanceBooking, FinishBooking, BeginRecovery, RecoveryClear,
        RecoveryRequeue, RecoveryUnassign, RecoveryCrash, windowVars
<1>7. ASSUME NEW d \in Driver, DriverStep(d) PROVE UNCHANGED window
    BY <1>7, Zenon
    DEF DriverStep, ResolveActiveTrip, DeferGate, ExpireDriverHash, EvictIndex, windowVars
<1>8. ASSUME NEW t \in Token, HolderCrash(t) \/ RaiseGate(t) \/ LiftGate(t)
      PROVE  UNCHANGED window
    BY <1>8, Zenon DEF HolderCrash, RaiseGate, LiftGate, windowVars
<1>9. UNCHANGED vars => UNCHANGED window
    BY DEF vars
<1>. QED
    BY <1>1, <1>2, <1>3, <1>4, <1>5, <1>6, <1>7, <1>8, <1>9, Zenon DEF Next, WindowStep

\* A fresh claim opens its own window and no other, and takes no ride with it.
LEMMA ClaimEffects ==
    ASSUME TypeOK, NEW k \in Kind, NEW d \in Driver, NEW t \in Token, ClaimWindow(k, d, t)
    PROVE  /\ window[Other(k)][d].v = None /\ window[k][d].v = None
           /\ \A j \in Kind, e \in Driver :
                 j # k \/ e # d => window'[j][e] = window[j][e]
           /\ Resolve(d) = None /\ Resolve(d)' = None
    BY DEF ClaimWindow, TypeOK, Sweep, SweptHash, Resolve, Empty

\* For every driver at most one of the two identity windows is open.
THEOREM Exclusion == Spec => []WindowsExclusive
<1>1. Init => WindowsExclusive
    <2>1. "verification" \in Kind
        BY DEF Kind
    <2>2. Init => \A d \in Driver : window["verification"][d].v = None
        <3>. SUFFICES ASSUME Init, NEW d \in Driver
                      PROVE  window["verification"][d].v = None
            OBVIOUS
        <3>1. window = [k \in Kind |-> [e \in Driver |-> Empty]]
            BY DEF Init
        <3>2. window["verification"][d] = Empty
            BY <2>1, <3>1
        <3>. QED
            BY <3>2, CellFacts
    <2>. QED
        BY <2>1, <2>2 DEF WindowsExclusive
<1>2. TypeOK /\ WindowsExclusive /\ [Next]_vars => WindowsExclusive'
    <2>. SUFFICES ASSUME TypeOK, WindowsExclusive, [Next]_vars, NEW d \in Driver
                  PROVE  \E k \in Kind : window'[k][d].v = None
        BY DEF WindowsExclusive
    <2>1. CASE NoneOpened
        BY <2>1 DEF NoneOpened, WindowsExclusive
    <2>2. ASSUME NEW k \in Kind, NEW e \in Driver, NEW t \in Token, ClaimWindow(k, e, t)
          PROVE  \E j \in Kind : window'[j][d].v = None
        <3>1. CASE d = e
            <4>1. Other(k) \in Kind /\ Other(k) # k
                BY DEF Other, Kind
            <4>. QED
                BY <2>2, <3>1, <4>1, ClaimEffects
        <3>2. CASE d # e
            BY <2>2, <3>2, ClaimEffects DEF WindowsExclusive
        <3>. QED
            BY <3>1, <3>2
    <2>. QED
        BY <2>1, <2>2, WindowEffects
<1>. QED
    BY <1>1, <1>2, TypeCorrect, PTL DEF Spec

\* A window opens only on a driver without a ride, and leaves him without one.
THEOREM WindowOnIdleDriver == Spec => WindowOpensOnIdleDriver
<1>1. TypeOK /\ [Next]_vars =>
          \A d \in Driver : ~WindowOpen(d) /\ WindowOpen(d)'
              => Resolve(d) = None /\ Resolve(d)' = None
    <2>. SUFFICES ASSUME TypeOK, [Next]_vars, NEW d \in Driver,
                         ~WindowOpen(d), WindowOpen(d)'
                  PROVE  Resolve(d) = None /\ Resolve(d)' = None
        OBVIOUS
    <2>1. ~NoneOpened
        BY DEF NoneOpened, WindowOpen
    <2>2. PICK k \in Kind, e \in Driver, t \in Token : ClaimWindow(k, e, t)
        BY <2>1, WindowEffects
    <2>3. d = e
        BY <2>2, ClaimEffects DEF WindowOpen
    <2>. QED
        BY <2>2, <2>3, ClaimEffects
<1>2. [Next]_vars /\ TypeOK => [\A d \in Driver : ~WindowOpen(d) /\ WindowOpen(d)'
                         => Resolve(d) = None /\ Resolve(d)' = None]_vars
    BY <1>1
<1>. QED
    BY <1>2, TypeCorrect, PTL DEF Spec, WindowOpensOnIdleDriver

\* What a driver's ride becomes when a step does not bind: it stays or is gone.
LEMMA OnlyBindingGivesARide ==
    ASSUME TypeOK, IndexAgreesWithHash, NEW d \in Driver,
           \/ UNCHANGED tripVars
           \/ \E e \in Driver : Unbind(e) \/ Sweep(e) \/ DropHash(e) \/ DropIndex(e)
           \/ Tick
    PROVE  Resolve(d)' \in {None, Resolve(d)}
<1>1. CASE UNCHANGED tripVars
    BY <1>1 DEF tripVars, Resolve
<1>2. ASSUME NEW e \in Driver, Unbind(e) PROVE Resolve(d)' \in {None, Resolve(d)}
    BY <1>2, CellFacts DEF Unbind, Resolve, TypeOK
<1>3. ASSUME NEW e \in Driver, Sweep(e) PROVE Resolve(d)' \in {None, Resolve(d)}
    BY <1>3, CellFacts DEF Sweep, SweptHash, Resolve, TypeOK
<1>4. ASSUME NEW e \in Driver, DropHash(e) PROVE Resolve(d)' \in {None, Resolve(d)}
    BY <1>4, CellFacts DEF DropHash, Resolve, TypeOK
<1>5. ASSUME NEW e \in Driver, DropIndex(e) PROVE Resolve(d)' \in {None, Resolve(d)}
    BY <1>5, CellFacts DEF DropIndex, Resolve, TypeOK, IndexAgreesWithHash
<1>6. CASE Tick
    <2>1. idx[d] \in Cell(Booking, TripTTL) /\ hash[d] \in Cell(Booking, TripTTL)
        BY DEF TypeOK
    <2>2. idx'[d] = AgedKey(idx[d]) /\ hash'[d] = AgedField(hash[d])
        BY <1>6 DEF Tick
    <2>3. idx'[d].v \in {None, idx[d].v}
        BY <2>1, <2>2 DEF AgedKey, Empty, Cell
    <2>4. hash'[d].v = hash[d].v /\ (hash'[d].ttl > 0 => hash[d].ttl > 0)
        BY <2>1, <2>2, TTLAssumption DEF AgedField, Cell
    <2>. QED
        BY <2>3, <2>4 DEF Resolve, IndexAgreesWithHash
<1>. QED
    BY <1>1, <1>2, <1>3, <1>4, <1>5, <1>6

\* A driver inside an identity window, or held by the gate, is given no ride
\* except one whose booking says it is already his.
THEOREM HeldDriverGetsNoRide == Spec => NoNewRideWhileHeld
<1>. DEFINE Step == \A d \in Driver : \A b \in Booking :
                        (/\ WindowOpen(d) \/ gate[d]
                         /\ Resolve(d) # b
                         /\ Resolve(d)' = b) => Owns(d, b)
<1>1. TypeOK /\ IndexAgreesWithHash /\ [Next]_vars => Step
    <2>. SUFFICES ASSUME TypeOK, IndexAgreesWithHash, [Next]_vars,
                         NEW d \in Driver, NEW b \in Booking,
                         WindowOpen(d) \/ gate[d], Resolve(d) # b, Resolve(d)' = b
                  PROVE  Owns(d, b)
        BY Zenon
    <2>1. b # None
        BY NoneAssumption
    <2>2. PICK e \in Driver, a \in Booking, c \in Cell(Booking, TripTTL) : BindEffect(e, a, c)
        BY <2>1, TripEffects, OnlyBindingGivesARide
    <2>3. e = d /\ a = b
        <3>1. idx' = [idx EXCEPT ![e] = Fresh(a, TripTTL)]
              /\ hash' = [hash EXCEPT ![e] = Fresh(a, TripTTL)]
            BY <2>2 DEF BindEffect, Bind
        <3>2. e = d
            BY <3>1 DEF TypeOK, Resolve
        <3>3. idx'[d].v = a
            BY <3>1, <3>2, CellFacts DEF TypeOK
        <3>. QED
            BY <3>2, <3>3, NoneAssumption DEF Resolve
    <2>. QED
        BY <2>2, <2>3, Zenon DEF BindEffect, FreeForRide
<1>2. TypeOK /\ IndexAgreesWithHash /\ [Next]_vars => [Step]_vars
    BY <1>1
<1>. QED
    BY <1>2, TypeCorrect, HashAgreement, PTL DEF Spec, NoNewRideWhileHeld

\* A window that still holds a token has time left.
WindowLive == \A k \in Kind, d \in Driver : window[k][d].v # None => window[k][d].ttl > 0

\* Every window is either as it was, aged, freshly set, or ended by its holder.
LEMMA WindowStepEffects ==
    ASSUME TypeOK, [Next]_vars
    PROVE  \/ UNCHANGED window
           \/ \E k \in Kind, d \in Driver, t \in Token :
                 /\ window[k][d].v \in {None, t}
                 /\ window' = [window EXCEPT ![k][d] = Fresh(t, WindowTTL[k])]
           \/ \E t \in Token : ReleaseWindow(t)
           \/ Tick
<1>. DEFINE Sets(k, d, t) == /\ window[k][d].v \in {None, t}
                             /\ window' = [window EXCEPT ![k][d] = Fresh(t, WindowTTL[k])]
            Set == \E k \in Kind, d \in Driver, t \in Token : Sets(k, d, t)
<1>1. ASSUME NEW t \in Token, ReclaimWindow(t) \/ RenewWindow(t) PROVE Set
    BY <1>1, ClaimTyped DEF ReclaimWindow, RenewWindow
<1>2. ASSUME NEW k \in Kind, NEW d \in Driver, NEW t \in Token, ClaimWindow(k, d, t)
      PROVE  Set
    BY <1>2, Zenon DEF ClaimWindow
<1>3. ASSUME NEW d \in Driver, NEW b \in Booking, RideStep(d, b) PROVE UNCHANGED window
    BY <1>3, Zenon
    DEF RideStep, AcceptBooking, ReacceptBooking, ReadOwnedBooking, SetActiveTrip,
        RenewActiveTrip, ReleaseFinished, windowVars
<1>4. ASSUME NEW b \in Booking, BookingStep(b) PROVE UNCHANGED window
    BY <1>4, Zenon
    DEF BookingStep, AdvanceBooking, FinishBooking, BeginRecovery, RecoveryClear,
        RecoveryRequeue, RecoveryUnassign, RecoveryCrash, windowVars
<1>5. ASSUME NEW d \in Driver, DriverStep(d) PROVE UNCHANGED window
    BY <1>5, Zenon
    DEF DriverStep, ResolveActiveTrip, DeferGate, ExpireDriverHash, EvictIndex, windowVars
<1>6. ASSUME NEW t \in Token, HolderCrash(t) \/ RaiseGate(t) \/ LiftGate(t)
      PROVE  UNCHANGED window
    BY <1>6, Zenon DEF HolderCrash, RaiseGate, LiftGate, windowVars
<1>7. UNCHANGED vars => UNCHANGED window
    BY DEF vars
<1>. QED
    <2>. HIDE DEF Set
    <2>1. Set \/ UNCHANGED window \/ Tick \/ \E t \in Token : ReleaseWindow(t)
        BY <1>1, <1>2, <1>3, <1>4, <1>5, <1>6, <1>7, Zenon DEF Next, WindowStep
    <2>. QED
        BY <2>1, Zenon DEF Set

\* Only expiry, or the caller that holds its token, ends an identity window.
THEOREM HolderEndsWindow == Spec => OnlyHolderEndsWindow
<1>. DEFINE Step == \A k \in Kind : \A d \in Driver : \A t \in Token :
                        window[k][d].v = t /\ window[k][d].v' # t =>
                            \/ window[k][d].ttl = 1 /\ UNCHANGED claim
                            \/ claim[t] = [kind |-> k, driver |-> d] /\ claim'[t].kind = None
<1>1. Init => WindowLive
    BY DEF Init, WindowLive, Empty
<1>2. TypeOK /\ WindowLive /\ [Next]_vars => WindowLive' /\ Step
    <2>. SUFFICES ASSUME TypeOK, WindowLive, [Next]_vars
                  PROVE  WindowLive' /\ Step
        OBVIOUS
    <2>1. CASE UNCHANGED window
        BY <2>1 DEF WindowLive
    <2>2. ASSUME NEW j \in Kind, NEW e \in Driver, NEW s \in Token,
                 window[j][e].v \in {None, s},
                 window' = [window EXCEPT ![j][e] = Fresh(s, WindowTTL[j])]
          PROVE  WindowLive' /\ Step
        <3>1. /\ window'[j][e] = Fresh(s, WindowTTL[j])
              /\ \A k \in Kind, d \in Driver : k # j \/ d # e => window'[k][d] = window[k][d]
            BY <2>2 DEF TypeOK
        <3>2. window'[j][e].v = s /\ window'[j][e].ttl = WindowTTL[j] /\ WindowTTL[j] > 0
            BY <3>1, CellFacts, TTLAssumption DEF Kind
        <3>. QED
            BY <2>2, <3>1, <3>2, NoneAssumption DEF WindowLive
    <2>3. ASSUME NEW s \in Token, ReleaseWindow(s) PROVE WindowLive' /\ Step
        <3>. DEFINE j == claim[s].kind
                    e == claim[s].driver
        <3>1. /\ j \in Kind /\ e \in Driver
              /\ window' = [window EXCEPT ![j][e] = IF @.v = s THEN Empty ELSE @]
              /\ claim' = [claim EXCEPT ![s] = NoClaim]
            BY <2>3, ClaimTyped DEF ReleaseWindow
        <3>2. claim[s] = [kind |-> j, driver |-> e] /\ claim'[s].kind = None
            <4>1. claim[s] \in [kind : Kind, driver : Driver]
                BY <2>3 DEF ReleaseWindow, TypeOK, NoClaim
            <4>. QED
                BY <3>1, <4>1 DEF NoClaim, TypeOK
        <3>. HIDE DEF j, e
        <3>3. \A k \in Kind, d \in Driver :
                  \/ window'[k][d] = window[k][d]
                  \/ k = j /\ d = e /\ window[k][d].v = s /\ window'[k][d] = Empty
            BY <3>1 DEF TypeOK
        <3>. QED
            BY <3>2, <3>3, CellFacts DEF WindowLive
    <2>4. CASE Tick
        <3>. SUFFICES ASSUME NEW k \in Kind, NEW d \in Driver
                      PROVE  \/ /\ window'[k][d].v = window[k][d].v
                                /\ window'[k][d].v # None => window'[k][d].ttl > 0
                             \/ window'[k][d].v = None /\ window[k][d].ttl = 1
                             \/ window'[k][d].v = None /\ window[k][d].v = None
            BY <2>4, NoneAssumption DEF Tick, WindowLive
        <3>1. window'[k][d] = AgedKey(window[k][d])
            BY <2>4 DEF Tick
        <3>2. window[k][d] \in [v : Token \cup {None}, ttl : Nat]
            BY DEF TypeOK
        <3>. QED
            BY <3>1, <3>2 DEF AgedKey, Empty, WindowLive
    <2>. QED
        BY <2>1, <2>2, <2>3, <2>4, WindowStepEffects
<1>3. TypeOK /\ WindowLive /\ [Next]_vars => [Step]_vars
    BY <1>2
<1>. QED
    BY <1>1, <1>2, <1>3, TypeCorrect, PTL DEF Spec, OnlyHolderEndsWindow

-----------------------------------------------------------------------------
(* Leases and windows that nobody should keep alive.                        *)

LeasesShrink ==
    \A d \in Driver : idx'[d].ttl <= idx[d].ttl /\ hash'[d].ttl <= hash[d].ttl

\* Deleting, sweeping, expiring and evicting lengthen no lease.
LEMMA Shrinking ==
    ASSUME TypeOK,
           \/ UNCHANGED tripVars
           \/ \E e \in Driver : Unbind(e) \/ Sweep(e) \/ DropHash(e) \/ DropIndex(e)
           \/ Tick
    PROVE  LeasesShrink
<1>1. \A d \in Driver : idx[d].ttl \in Nat /\ hash[d].ttl \in Nat
    BY TTLAssumption DEF TypeOK, Cell
<1>2. CASE UNCHANGED tripVars
    BY <1>1, <1>2 DEF tripVars, LeasesShrink
<1>3. ASSUME NEW e \in Driver, Unbind(e) PROVE LeasesShrink
    BY <1>1, <1>3, CellFacts DEF Unbind, TypeOK, LeasesShrink
<1>4. ASSUME NEW e \in Driver, Sweep(e) PROVE LeasesShrink
    BY <1>1, <1>4, CellFacts DEF Sweep, SweptHash, TypeOK, LeasesShrink
<1>5. ASSUME NEW e \in Driver, DropHash(e) \/ DropIndex(e) PROVE LeasesShrink
    BY <1>1, <1>5, CellFacts DEF DropHash, DropIndex, TypeOK, LeasesShrink
<1>6. CASE Tick
    <2>. SUFFICES ASSUME NEW d \in Driver
                  PROVE  idx'[d].ttl <= idx[d].ttl /\ hash'[d].ttl <= hash[d].ttl
        BY DEF LeasesShrink
    <2>1. idx[d] \in Cell(Booking, TripTTL) /\ hash[d] \in Cell(Booking, TripTTL)
        BY DEF TypeOK
    <2>2. idx'[d] = AgedKey(idx[d]) /\ hash'[d] = AgedField(hash[d])
        BY <1>6 DEF Tick
    <2>3. idx'[d].ttl <= idx[d].ttl
        BY <1>1, <2>1, <2>2 DEF AgedKey, Empty, Cell
    <2>4. hash'[d].ttl <= hash[d].ttl
        BY <1>1, <2>1, <2>2 DEF AgedField, Cell
    <2>. QED
        BY <2>3, <2>4
<1>. QED
    BY <1>2, <1>3, <1>4, <1>5, <1>6

\* The four scripts that bind are the only steps that lengthen a lease.
LEMMA LeaseEffects ==
    ASSUME TypeOK, [Next]_vars
    PROVE  \/ LeasesShrink
           \/ \E d \in Driver, b \in Booking :
                 \/ AcceptBooking(d, b)
                 \/ ReacceptBooking(d, b)
                 \/ \E known \in BOOLEAN : SetActiveTrip(d, b, known)
                 \/ \E known \in BOOLEAN : RenewActiveTrip(d, b, known)
<1>1. ASSUME NEW d \in Driver, NEW b \in Booking, ReadOwnedBooking(d, b) \/ ReleaseFinished(d, b)
      PROVE  LeasesShrink
    BY <1>1, Shrinking DEF ReadOwnedBooking, ReleaseFinished, ClearActiveTrip
<1>2. ASSUME NEW b \in Booking, BookingStep(b) PROVE LeasesShrink
    <2>1. CASE RecoveryClear(b)
        <3>1. recovery[b].driver # None => recovery[b].driver \in Driver
            BY <2>1, RecoveryTyped DEF RecoveryClear
        <3>. QED
            BY <2>1, <3>1, Shrinking DEF RecoveryClear, ClearActiveTrip
    <2>2. CASE ~RecoveryClear(b)
        <3>1. UNCHANGED tripVars
            BY <1>2, <2>2, Zenon
            DEF BookingStep, AdvanceBooking, FinishBooking, BeginRecovery, RecoveryRequeue,
                RecoveryUnassign, RecoveryCrash
        <3>. QED
            BY <3>1, Shrinking
    <2>. QED
        BY <2>1, <2>2
<1>3. ASSUME NEW t \in Token, WindowStep(t) PROVE LeasesShrink
    <2>1. ASSUME NEW k \in Kind, NEW d \in Driver, ClaimWindow(k, d, t) PROVE LeasesShrink
        BY <2>1, Shrinking DEF ClaimWindow
    <2>2. CASE ReclaimWindow(t)
        <3>1. claim[t].driver \in Driver
            BY <2>2, ClaimTyped DEF ReclaimWindow
        <3>. QED
            BY <2>2, <3>1, Shrinking DEF ReclaimWindow
    <2>3. CASE RenewWindow(t) \/ ReleaseWindow(t) \/ HolderCrash(t) \/ RaiseGate(t) \/ LiftGate(t)
        BY <2>3, Shrinking DEF RenewWindow, ReleaseWindow, HolderCrash, RaiseGate, LiftGate
    <2>. QED
        BY <1>3, <2>1, <2>2, <2>3 DEF WindowStep
<1>4. ASSUME NEW d \in Driver, DriverStep(d) PROVE LeasesShrink
    <2>1. UNCHANGED tripVars \/ Sweep(d) \/ DropHash(d) \/ DropIndex(d)
        BY <1>4, Zenon
        DEF DriverStep, ResolveActiveTrip, DeferGate, ExpireDriverHash, EvictIndex, DropHash,
            DropIndex
    <2>. QED
        BY <2>1, Shrinking
<1>5. CASE Tick \/ UNCHANGED vars
    BY <1>5, Shrinking DEF vars, tripVars
<1>. QED
    BY <1>1, <1>2, <1>3, <1>4, <1>5, Zenon DEF Next, RideStep

\* Callers begin to act on a booking only while it is their driver's.
LEMMA IntentEffects ==
    ASSUME [Next]_vars, NEW d \in Driver, NEW b \in Booking,
           <<d, b>> \in intent', <<d, b>> \notin intent
    PROVE  Owns(d, b)
<1>1. ASSUME NEW e \in Driver, NEW c \in Booking, RideStep(e, c) PROVE Owns(d, b)
    <2>1. CASE ReadOwnedBooking(e, c)
        BY <2>1 DEF ReadOwnedBooking
    <2>2. CASE ~ReadOwnedBooking(e, c)
        BY <1>1, <2>2
        DEF RideStep, AcceptBooking, ReacceptBooking, SetActiveTrip, RenewActiveTrip,
            ReleaseFinished
    <2>. QED
        BY <2>1, <2>2
<1>2. ASSUME NEW c \in Booking, BookingStep(c) PROVE FALSE
    BY <1>2
    DEF BookingStep, AdvanceBooking, FinishBooking, BeginRecovery, RecoveryClear,
        RecoveryRequeue, RecoveryUnassign, RecoveryCrash
<1>3. ASSUME NEW t \in Token, WindowStep(t) PROVE FALSE
    BY <1>3
    DEF WindowStep, ClaimWindow, ReclaimWindow, RenewWindow, ReleaseWindow, HolderCrash,
        RaiseGate, LiftGate
<1>4. ASSUME NEW e \in Driver, DriverStep(e) PROVE FALSE
    BY <1>4 DEF DriverStep, ResolveActiveTrip, DeferGate, ExpireDriverHash, EvictIndex
<1>5. CASE Tick \/ UNCHANGED vars
    BY <1>5 DEF Tick, vars
<1>. QED
    BY <1>1, <1>2, <1>3, <1>4, <1>5 DEF Next

\* Binding a ride to a driver is seen by that driver only.
LEMMA BoundRide ==
    ASSUME TypeOK, NEW d \in Driver, NEW b \in Booking, NEW c, Bind(d, b, c)
    PROVE  /\ Resolve(d)' = b
           /\ \A e \in Driver \ {d} : idx'[e] = idx[e] /\ hash'[e] = hash[e]
<1>1. /\ idx'[d] = Fresh(b, TripTTL)
      /\ \A e \in Driver \ {d} : idx'[e] = idx[e] /\ hash'[e] = hash[e]
    BY DEF Bind, TypeOK
<1>. QED
    BY <1>1, CellFacts, NoneAssumption DEF Resolve

\* The lease of a ride that ended, or that is another's, is extended only by
\* callers that had read the booking before: heartbeats and probes look again.
THEOREM StuckLeaseAges == Spec => StuckLeaseOnlyAges
<1>. DEFINE Ages(d, b) ==
                /\ <<d, b>> \in intent' => <<d, b>> \in intent
                /\ \/ idx'[d].ttl <= idx[d].ttl /\ hash'[d].ttl <= hash[d].ttl
                   \/ <<d, b>> \in intent /\ <<d, b>> \notin intent'
            Step == \A d \in Driver : \A b \in Booking :
                        Stuck(d, b) /\ Stuck(d, b)' => Ages(d, b)
<1>1. ASSUME TypeOK, [Next]_vars, NEW d \in Driver, NEW b \in Booking,
             Stuck(d, b), Stuck(d, b)'
      PROVE  Ages(d, b)
    <2>1. ~Owns(d, b)
        BY <1>1 DEF Stuck, Owns
    <2>2. <<d, b>> \in intent' => <<d, b>> \in intent
        BY <1>1, <2>1, IntentEffects
    <2>3. idx[d].ttl \in Nat /\ hash[d].ttl \in Nat
        BY <1>1, TTLAssumption DEF TypeOK, Cell
    <2>4. CASE LeasesShrink
        BY <2>2, <2>4 DEF LeasesShrink
    <2>5. ASSUME NEW e \in Driver, NEW a \in Booking, NEW c, Bind(e, a, c), ~(e = d /\ a = b)
          PROVE  idx'[d].ttl <= idx[d].ttl /\ hash'[d].ttl <= hash[d].ttl
        <3>1. e # d
            BY <1>1, <2>5, BoundRide DEF Stuck
        <3>2. idx'[d] = idx[d] /\ hash'[d] = hash[d]
            BY <1>1, <2>5, <3>1, BoundRide
        <3>. QED
            BY <2>3, <3>2
    <2>6. ASSUME NEW e \in Driver, NEW a \in Booking, AcceptBooking(e, a) PROVE Ages(d, b)
        <3>1. ~(e = d /\ a = b)
            <4>1. booking'[a] = [driver |-> e, phase |-> "accepted"]
                BY <1>1, <2>6 DEF AcceptBooking, TypeOK
            <4>. QED
                BY <1>1, <4>1 DEF Stuck
        <3>. QED
            BY <2>2, <2>5, <2>6, <3>1 DEF AcceptBooking
    <2>7. ASSUME NEW e \in Driver, NEW a \in Booking, ReacceptBooking(e, a) PROVE Ages(d, b)
        BY <2>1, <2>2, <2>5, <2>7 DEF ReacceptBooking
    <2>8. ASSUME NEW e \in Driver, NEW a \in Booking, NEW known \in BOOLEAN,
                 SetActiveTrip(e, a, known)
          PROVE  Ages(d, b)
        <3>1. CASE e = d /\ a = b
            BY <2>2, <2>8, <3>1 DEF SetActiveTrip
        <3>2. CASE ~FreeForRide(e, a)
            BY <1>1, <2>2, <2>4, <2>8, <3>2, Shrinking DEF SetActiveTrip
        <3>3. CASE FreeForRide(e, a) /\ ~(e = d /\ a = b)
            BY <2>2, <2>5, <2>8, <3>3 DEF SetActiveTrip
        <3>. QED
            BY <3>1, <3>2, <3>3
    <2>9. ASSUME NEW e \in Driver, NEW a \in Booking, NEW known \in BOOLEAN,
                 RenewActiveTrip(e, a, known)
          PROVE  Ages(d, b)
        <3>1. ~(e = d /\ a = b)
            BY <1>1, <2>9 DEF RenewActiveTrip, Stuck
        <3>. QED
            BY <2>2, <2>5, <2>9, <3>1 DEF RenewActiveTrip
    <2>. QED
        BY <1>1, <2>4, <2>6, <2>7, <2>8, <2>9, LeaseEffects
<1>2. TypeOK /\ [Next]_vars => [Step]_vars
    BY <1>1
<1>. QED
    BY <1>2, TypeCorrect, PTL DEF Spec, StuckLeaseOnlyAges

\* A window that no caller holds is kept by nobody: a claim brings a token of its
\* own, and an extension compares the token with the window.
THEOREM AbandonedWindowAges == Spec => AbandonedWindowOnlyAges
<1>. DEFINE Ages(k, d, t) == claim'[t].kind = None /\ window'[k][d].ttl <= window[k][d].ttl
            Step == \A k \in Kind : \A d \in Driver : \A t \in Token :
                        window[k][d].v = t /\ claim[t].kind = None /\ window'[k][d].v = t
                            => Ages(k, d, t)
<1>1. ASSUME TypeOK, [Next]_vars, NEW k \in Kind, NEW d \in Driver, NEW t \in Token,
             window[k][d].v = t, claim[t].kind = None, window'[k][d].v = t
      PROVE  Ages(k, d, t)
    <2>1. window[k][d].ttl \in Nat
        BY <1>1 DEF TypeOK
    <2>2. CASE window' = window /\ claim' = claim
        BY <1>1, <2>1, <2>2
    <2>3. ASSUME NEW s \in Token, WindowStep(s) PROVE Ages(k, d, t)
        <3>1. ASSUME NEW j \in Kind, NEW e \in Driver, ClaimWindow(j, e, s) PROVE Ages(k, d, t)
            <4>1. s # t
                BY <1>1, <3>1 DEF ClaimWindow
            <4>2. window'[j][e].v = s /\ claim'[t] = claim[t]
                BY <1>1, <3>1, <4>1, CellFacts DEF ClaimWindow, TypeOK
            <4>3. window'[k][d] = window[k][d]
                BY <1>1, <3>1, <4>1, <4>2, ClaimEffects
            <4>. QED
                BY <1>1, <2>1, <4>2, <4>3
        <3>2. CASE ReclaimWindow(s) \/ RenewWindow(s)
            <4>. DEFINE j == claim[s].kind
                        e == claim[s].driver
            <4>1. /\ j \in Kind /\ e \in Driver /\ j # None /\ window[j][e].v = s
                  /\ window' = [window EXCEPT ![j][e] = Fresh(s, WindowTTL[j])]
                  /\ claim' = claim
                BY <1>1, <3>2, ClaimTyped DEF ReclaimWindow, RenewWindow, windowVars
            <4>2. s # t
                BY <1>1, <4>1
            <4>. HIDE DEF j, e
            <4>3. window'[k][d] = window[k][d]
                BY <1>1, <4>1, <4>2 DEF TypeOK
            <4>. QED
                BY <1>1, <2>1, <4>1, <4>3
        <3>3. CASE ReleaseWindow(s)
            <4>. DEFINE j == claim[s].kind
                        e == claim[s].driver
            <4>1. /\ j \in Kind /\ e \in Driver
                  /\ window' = [window EXCEPT ![j][e] = IF @.v = s THEN Empty ELSE @]
                  /\ claim' = [claim EXCEPT ![s] = NoClaim]
                BY <1>1, <3>3, ClaimTyped DEF ReleaseWindow
            <4>. HIDE DEF j, e
            <4>2. window'[k][d] = window[k][d]
                BY <1>1, <4>1, CellFacts, NoneAssumption DEF TypeOK
            <4>3. claim'[t].kind = None
                BY <1>1, <4>1 DEF TypeOK, NoClaim
            <4>. QED
                BY <2>1, <4>2, <4>3
        <3>4. CASE HolderCrash(s)
            <4>1. window' = window /\ claim'[t].kind = None
                BY <1>1, <3>4 DEF HolderCrash, TypeOK, NoClaim
            <4>. QED
                BY <2>1, <4>1
        <3>5. CASE RaiseGate(s) \/ LiftGate(s)
            BY <2>2, <3>5 DEF RaiseGate, LiftGate, windowVars
        <3>. QED
            BY <2>3, <3>1, <3>2, <3>3, <3>4, <3>5 DEF WindowStep
    <2>4. CASE Tick
        <3>1. window'[k][d] = AgedKey(window[k][d]) /\ claim' = claim
            BY <2>4 DEF Tick
        <3>2. window[k][d] \in [v : Token \cup {None}, ttl : Nat]
            BY <1>1 DEF TypeOK
        <3>3. window'[k][d].ttl <= window[k][d].ttl
            BY <2>1, <3>1, <3>2 DEF AgedKey, Empty
        <3>. QED
            BY <1>1, <3>1, <3>3
    <2>5. ASSUME NEW e \in Driver, NEW b \in Booking, RideStep(e, b)
          PROVE  window' = window /\ claim' = claim
        BY <2>5, Zenon
        DEF RideStep, AcceptBooking, ReacceptBooking, ReadOwnedBooking, SetActiveTrip,
            RenewActiveTrip, ReleaseFinished, windowVars
    <2>6. ASSUME NEW b \in Booking, BookingStep(b)
          PROVE  window' = window /\ claim' = claim
        BY <2>6, Zenon
        DEF BookingStep, AdvanceBooking, FinishBooking, BeginRecovery, RecoveryClear,
            RecoveryRequeue, RecoveryUnassign, RecoveryCrash, windowVars
    <2>7. ASSUME NEW e \in Driver, DriverStep(e)
          PROVE  window' = window /\ claim' = claim
        BY <2>7, Zenon
        DEF DriverStep, ResolveActiveTrip, DeferGate, ExpireDriverHash, EvictIndex, windowVars
    <2>8. UNCHANGED vars => window' = window /\ claim' = claim
        BY DEF vars, windowVars
    <2>. QED
        BY <1>1, <2>2, <2>3, <2>4, <2>5, <2>6, <2>7, <2>8 DEF Next
<1>2. TypeOK /\ [Next]_vars => [Step]_vars
    BY <1>1
<1>. QED
    BY <1>2, TypeCorrect, PTL DEF Spec, AbandonedWindowOnlyAges
=============================================================================
