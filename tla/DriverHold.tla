------------------------------ MODULE DriverHold ------------------------------
(***************************************************************************)
(* What the active-trip index promises about a driver, as if the driver had *)
(* one record that every script reads and writes at once: a driver has one  *)
(* ride, taken only by a driver who is free (no other ride, no identity     *)
(* check, not held) or given back to its owner; a check begins only on a    *)
(* driver without ride and without another check.  Leases run out, so rides *)
(* and checks may be forgotten at any time, but nothing else moves them.    *)
(* ActiveTripIndex implements this with an index key, a copy in the driver  *)
(* hash, two window keys and callers that act on what they read earlier.    *)
(***************************************************************************)
CONSTANTS Drivers, Rides, Checks, None

VARIABLES ride,    \* the ride of each driver
          owners,  \* <<d, b>>: the booking of b says that it is d's
          late,    \* <<d, b>>: a caller read that and has yet to act on it
          checks,  \* the identity checks that run on each driver
          held     \* is the driver held for an identity check?

vars == <<ride, owners, late, checks, held>>

Init ==
    /\ ride = [d \in Drivers |-> None]
    /\ owners = {}
    /\ late = {}
    /\ checks = [d \in Drivers |-> {}]
    /\ held = [d \in Drivers |-> FALSE]

Free(d) == ride[d] = None /\ checks[d] = {} /\ ~held[d]

\* A driver takes a ride that is nobody's.
Accept(d, b) ==
    /\ ride[d] = b \/ Free(d)
    /\ \A e \in Drivers : <<e, b>> \notin owners
    /\ ride' = [ride EXCEPT ![d] = b]
    /\ owners' = owners \cup {<<d, b>>}
    /\ UNCHANGED <<late, checks, held>>

\* An owner gets the ride back, even inside a check or instead of another ride.
Reaccept(d, b) ==
    /\ <<d, b>> \in owners
    /\ ride' = [ride EXCEPT ![d] = b]
    /\ UNCHANGED <<owners, late, checks, held>>

Read(d, b) ==
    /\ <<d, b>> \in owners
    /\ late' = late \cup {<<d, b>>}
    /\ UNCHANGED <<ride, owners, checks, held>>

\* A caller that read the owner earlier, who may be the owner no more.
SetLate(d, b) ==
    /\ <<d, b>> \in late
    /\ late' = late \ {<<d, b>>}
    /\ IF ride[d] = b \/ Free(d)
         THEN ride' = [ride EXCEPT ![d] = b]
         ELSE UNCHANGED ride
    /\ UNCHANGED <<owners, checks, held>>

\* The ride ends, or is taken back from its driver.
Disown(b) ==
    /\ UNCHANGED <<ride, late, checks, held>>
    /\ owners' = owners \ (Drivers \X {b})

BeginCheck(d, c) ==
    /\ ride[d] = None
    /\ checks[d] = {}
    /\ \A e \in Drivers : c \notin checks[e]
    /\ checks' = [checks EXCEPT ![d] = {c}]
    /\ UNCHANGED <<ride, owners, late, held>>

\* Rides and checks are released or run out, those of several drivers at once.
Forget(lost, done) ==
    /\ UNCHANGED <<late, held, owners>>
    /\ ride' = [d \in Drivers |-> IF d \in lost THEN None ELSE ride[d]]
    /\ checks' = [d \in Drivers |-> IF d \in done THEN {} ELSE checks[d]]

Hold(d) ==
    /\ held' = [held EXCEPT ![d] = TRUE]
    /\ UNCHANGED <<ride, owners, late, checks>>

\* The hold goes with the driver hash, which takes the ride along when its
\* index is gone already.
Lift(d) ==
    /\ held' = [held EXCEPT ![d] = FALSE]
    /\ \E r \in {ride[d], None} : ride' = [ride EXCEPT ![d] = r]
    /\ UNCHANGED <<owners, late, checks>>

Next ==
    \/ \E lost, done \in SUBSET Drivers : Forget(lost, done)
    \/ \E d \in Drivers : Hold(d) \/ Lift(d)
    \/ \E b \in Rides : Disown(b)
    \/ \E d \in Drivers, b \in Rides :
         Read(d, b) \/ SetLate(d, b) \/ Reaccept(d, b) \/ Accept(d, b)
    \/ \E d \in Drivers, c \in Checks : BeginCheck(d, c)

Spec == Init /\ [][Next]_vars
=============================================================================
