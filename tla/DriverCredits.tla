----------------------------- MODULE DriverCredits -----------------------------
(***************************************************************************)
(* What billing promises about a driver's money: the settlement of a ride   *)
(* is posted to the ledger once, and each part of the ride that is due to a *)
(* driver is paid at most once, a settled part never before its settlement. *)
(* BillingWorker implements this, whatever the retries, duplicated          *)
(* deliveries, crashes and fail-open checks of the workers.                 *)
(***************************************************************************)
EXTENDS Naturals

CONSTANTS Rides,
          Parts     \* what may be due: a set of <<ride, leg>>

VARIABLES settled,  \* rides whose parts wait for a posted settlement
          posted,   \* rides with a posted settlement
          paid      \* how many times each part was paid

Init ==
    /\ settled \in SUBSET Rides
    /\ posted = {}
    /\ paid = [p \in Parts |-> 0]

Post(r) ==
    /\ r \in settled \ posted
    /\ posted' = posted \cup {r}
    /\ UNCHANGED <<settled, paid>>

Pay(p) ==
    /\ p[1] \in posted \/ p[1] \notin settled
    /\ paid[p] = 0
    /\ paid' = [paid EXCEPT ![p] = 1]
    /\ UNCHANGED <<settled, posted>>

Next ==
    \/ \E r \in Rides : Post(r)
    \/ \E p \in Parts : Pay(p)

Spec == Init /\ [][Next]_<<settled, posted, paid>>
=============================================================================
