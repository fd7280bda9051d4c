---------------------------- MODULE PaymentRefunds ----------------------------
(***************************************************************************)
(* Who gives the passenger's Pix back, and when.                            *)
(*                                                                          *)
(* A Pix is confirmed under a temporary ride id; create-booking makes a     *)
(* ride of it and copies its two documents (ride_payments and               *)
(* payment_holdings) to the id of the booking.  From then on four callers   *)
(* of processRideRefund know the same charge: the drain of Pix without a    *)
(* booking, which works on the temporary documents, and a cancellation, a   *)
(* search without drivers and the settlement of a shorter ride, which work  *)
(* on those of the booking.  A claim in ride_payments and a request id,     *)
(* a hash of ride, charge, amount, reason and status, stand between them.   *)
(*                                                                          *)
(* The operational namespace is modelled: the sandbox also marks the        *)
(* temporary documents.  One action is one Firestore, Redis or provider     *)
(* call.  The provider is external: it may accept, refuse, or accept and    *)
(* never be heard.  A call that fails counts where it fails, as a fault.  No *)
(* drain finds an entry that is due again while its refund is still in       *)
(* flight (ten minutes against one).                                        *)
(***************************************************************************)
EXTENDS Naturals

CONSTANTS Payments, None,
          Cancelers,          \* who may cancel: the passenger, the driver
          Settlers,           \* handlers of the end of one ride: an event
                              \* reclaimed or delivered again meets the
                              \* first one, nothing locks the settlement
          Reasons,            \* texts they may give for it
          Budgets             \* how many confirmations, cancellations,
                              \* settlements and faults may meet; nothing in
                              \* the code bounds them but the settlements,
                              \* which are the attempts of the worker

ASSUME BudgetAssumption ==
    Budgets \subseteq [confirmations : Nat, cancels : Nat, settlements : Nat,
                      faults : Nat]

ASSUME NamesAssumption ==
    /\ (Reasons \cup Cancelers \cup Settlers)
         \cap {"orphan", "no_drivers", "settle"} = {}
    /\ Cancelers \cap Settlers = {}
    /\ None \notin Reasons \cup {"orphan", "no_drivers", "settle"}

VARIABLES payment,        \* ride_payments of the temporary and of the final id
          holding,        \* status in payment_holdings, likewise
          due,            \* payment:orphan_refund_due
          copy,           \* materializePaymentForBooking
          ride,           \* the ride this Pix pays for
          fare,           \* the final fare against what was paid
          refundPending,  \* bookings marked REFUND_PENDING
          settled,        \* rides whose settlement the worker counts as done
          call,           \* the processRideRefund of each kind of caller
          heard,          \* refunds the provider confirmed to a live process
          asked,          \* whose settlement refund may have left a process
          slips,          \* what a fault or a haste lost for good
          budget          \* of what is left of the bounds

docVars == <<payment, holding>>
rideVars == <<ride, fare, refundPending>>
bookVars == <<heard, asked, slips>>
vars == <<docVars, due, copy, rideVars, settled, call, bookVars, budget>>

-----------------------------------------------------------------------------
Docs == {"temp", "ride"}
Kinds == {"orphan", "no_drivers"} \cup Settlers \cup Cancelers

DocOf(k) == IF k = "orphan" THEN "temp" ELSE "ride"

\* buildRefundRequestId: two cancellations with the same text (there is a
\* default one) are the same request, and so are two settlements of a ride;
\* any other two callers are not.
Requests == {"orphan", "no_drivers", "settle"} \cup Reasons
RequestsOf(k) == IF k \in Cancelers THEN Reasons
                 ELSE IF k \in Settlers THEN {"settle"} ELSE {k}

\* The status of passengerRefundPending.
Marks == {"none", "retry", "manual", "resolved"}

\* What the refunds read and write of a document of ride_payments: refunded
\* or a refunded status, refundInProgress with refundRequestId, a refundStatus
\* FAILED, and the status of passengerRefundPending.
Records == [exists : BOOLEAN, refunded : BOOLEAN, claim : Requests \cup {None},
            failed : BOOLEAN, pending : Marks]

NoRecord == [exists |-> FALSE, refunded |-> FALSE, claim |-> None,
             failed |-> FALSE, pending |-> "none"]

\* providerDelivery as its readers tell it apart: sent and done, surely not
\* sent, or anything else.
Outcomes == {"ok", "not_sent", "maybe"}
Stages == {"idle", "check", "claim", "send", "mark", "clear", "end"}
Idle == [at |-> "idle", req |-> None, out |-> None, seen |-> "none",
         late |-> FALSE]

At(p, k, s) == call[p][k].at = s
Open(p) == ride[p] \in {"searching", "accepted"}

Go(p, k, stage, r, out) ==
    call' = [call EXCEPT ![p][k] = [@ EXCEPT !.at = stage, !.req = r,
                                             !.out = out]]
Rest(p, k) == call' = [call EXCEPT ![p][k] = Idle]

Write(p, d, rec) == payment' = [payment EXCEPT ![p][d] = rec]
Slip(p, s) == slips' = [slips EXCEPT ![p] = @ \cup {s}]

Spend(b) == budget[b] > 0 /\ budget' = [budget EXCEPT ![b] = @ - 1]
Fault == Spend("faults")

TypeOK ==
    /\ payment \in [Payments -> [Docs -> Records]]
    /\ holding \in [Payments -> [Docs -> {"none", "in_holding", "distributed",
                                          "refunded"}]]
    /\ due \subseteq Payments
    /\ copy \in [Payments -> [at : {"pending", "read", "done", "lost"},
                              rec : Records]]
    /\ ride \in [Payments -> {"none", "checked", "searching", "accepted",
                              "completed", "canceled"}]
    /\ fare \in [Payments -> {"open", "exact", "less"}]
    /\ refundPending \subseteq Payments
    /\ settled \subseteq Payments
    /\ call \in [Payments -> [Kinds -> [at : Stages,
                                        req : Requests \cup {None},
                                        out : Outcomes \cup {None},
                                        seen : Marks, late : BOOLEAN]]]
    /\ heard \in [Payments -> SUBSET Requests]
    /\ asked \subseteq Payments
    /\ slips \in [Payments -> SUBSET {"entry", "unseen", "forgot"}]
    /\ budget \in [confirmations : Nat, cancels : Nat, settlements : Nat,
                    faults : Nat]

Init ==
    /\ payment = [p \in Payments |-> [d \in Docs |-> NoRecord]]
    /\ holding = [p \in Payments |-> [d \in Docs |-> "none"]]
    /\ due = {}
    /\ copy = [p \in Payments |-> [at |-> "pending", rec |-> NoRecord]]
    /\ ride = [p \in Payments |-> "none"]
    /\ fare = [p \in Payments |-> "open"]
    /\ refundPending = {}
    /\ settled = {}
    /\ call = [p \in Payments |-> [k \in Kinds |-> Idle]]
    /\ heard = [p \in Payments |-> {}]
    /\ asked = {}
    /\ slips = [p \in Payments |-> {}]
    /\ budget \in Budgets

-----------------------------------------------------------------------------
(* The Pix and its ride.                                                    *)

\* storeConfirmedPayment and savePaymentHolding for a Pix without a booking;
\* both merge, so a second confirmation leaves a refund and a claim where they
\* are but resets the holding.  The entry of the orphan check may get lost.
Confirm(p) ==
    /\ ride[p] \in {"none", "checked"}
    /\ Write(p, "temp", [payment[p]["temp"] EXCEPT !.exists = TRUE])
    /\ holding' = [holding EXCEPT ![p]["temp"] = "in_holding"]
    /\ \/ due' = due \cup {p} /\ Spend("confirmations") /\ UNCHANGED slips
       \/ Fault /\ Slip(p, "entry") /\ UNCHANGED due
    /\ UNCHANGED <<copy, rideVars, settled, call, heard, asked>>

\* A payment with a refund claimed or done is not accepted for a booking.
RefundClaimedOrDone(rec) == rec.refunded \/ rec.claim # None

CheckPayment(p) ==
    /\ ride[p] = "none"
    /\ payment[p]["temp"].exists
    /\ ~RefundClaimedOrDone(payment[p]["temp"])
    /\ ride' = [ride EXCEPT ![p] = "checked"]
    /\ UNCHANGED <<docVars, due, copy, fare, refundPending, settled, call, bookVars, budget>>

\* The booking exists and customer_active_booking points to it.
Book(p) ==
    /\ ride[p] = "checked"
    /\ ride' = [ride EXCEPT ![p] = "searching"]
    /\ UNCHANGED <<docVars, due, copy, fare, refundPending, settled, call, bookVars, budget>>

\* The copy runs on after the reply to the passenger (setImmediate).
ReadForCopy(p) ==
    /\ ride[p] \notin {"none", "checked"}
    /\ copy[p].at = "pending"
    /\ copy' = [copy EXCEPT ![p] = [at |-> "read", rec |-> payment[p]["temp"]]]
    /\ UNCHANGED <<docVars, due, rideVars, settled, call,
                   bookVars, budget>>

WriteCopy(p) ==
    /\ copy[p].at = "read"
    /\ copy' = [copy EXCEPT ![p] = [at |-> "done", rec |-> NoRecord]]
    /\ Write(p, "ride", copy[p].rec)
    /\ holding' = [holding EXCEPT ![p]["ride"] = "in_holding"]
    /\ UNCHANGED <<due, rideVars, settled, call, bookVars,
                   budget>>

LoseCopy(p) ==
    /\ ride[p] \notin {"none", "checked"}
    /\ copy[p].at \in {"pending", "read"}
    /\ Fault
    /\ copy' = [copy EXCEPT ![p] = [at |-> "lost", rec |-> NoRecord]]
    /\ UNCHANGED <<docVars, due, rideVars, settled, call,
                   bookVars>>

Accept(p) ==
    /\ ride[p] = "searching"
    /\ ride' = [ride EXCEPT ![p] = "accepted"]
    /\ UNCHANGED <<docVars, due, copy, fare, refundPending, settled, call, bookVars, budget>>

\* From the start of the trip to its end.  The pointer of the passenger goes,
\* and with it the booking is out of the drain's sight.  No lock stands
\* between a completion and a cancellation begun earlier.
Complete(p, f) ==
    /\ ride[p] = "accepted"
    /\ ride' = [ride EXCEPT ![p] = "completed"]
    /\ fare' = [fare EXCEPT ![p] = f]
    /\ UNCHANGED <<docVars, due, copy, refundPending, settled, call, bookVars, budget>>

-----------------------------------------------------------------------------
(* processRideRefund, the same for every caller.                            *)

\* A defect: the transaction looks only at what has been refunded.
MayClaimAny(rec, r) == TRUE

\* The read of resolveStoredPaymentForRefund and the transaction of
\* claimRideRefund agree on what they refuse, and the transaction reads again.
MayClaim(rec, r) == rec.claim \in {None, r}

ClaimRideRefund(p, k) ==
    LET d == DocOf(k)
        rec == payment[p][d]
        r == call[p][k].req
    IN  /\ At(p, k, "claim")
        /\ \/ /\ rec.refunded
              /\ Go(p, k, "end", r, "ok")
              /\ UNCHANGED <<payment, budget>>
           \/ /\ ~rec.refunded
              /\ ~MayClaim(rec, r)
              /\ Go(p, k, "end", r, "not_sent")
              /\ UNCHANGED <<payment, budget>>
           \/ /\ ~rec.refunded
              /\ MayClaim(rec, r)
              /\ Write(p, d, [rec EXCEPT !.claim = r, !.failed = FALSE])
              /\ Go(p, k, "send", r, None)
              /\ UNCHANGED budget
           \/ /\ Fault
              /\ Go(p, k, "end", r, "not_sent")
              /\ UNCHANGED payment
        /\ UNCHANGED <<holding, due, copy, rideVars, settled, bookVars>>

\* processRefund through the circuit breaker.  What is refused, times out or
\* breaks off counts as sent; only a connection never opened does not.
ProcessRefund(p, k) ==
    LET r == call[p][k].req
        asking == IF k \in Settlers THEN asked \cup {p} ELSE asked
    IN  /\ At(p, k, "send")
        /\ \/ /\ Go(p, k, "mark", r, None)
              /\ heard' = [heard EXCEPT ![p] = @ \cup {r}]
              /\ asked' = asking
              /\ UNCHANGED budget
           \/ /\ Fault
              /\ Go(p, k, "clear", r, "maybe")
              /\ asked' = asking
              /\ UNCHANGED heard
           \/ /\ Fault
              /\ Go(p, k, "clear", r, "not_sent")
              /\ UNCHANGED <<heard, asked>>
        /\ UNCHANGED <<docVars, due, copy, rideVars, settled, slips>>

\* VALID_TRANSITIONS: a holding leaves in_holding and nothing else.
Moved(h, s) == IF h = "in_holding" THEN s ELSE h

\* A refund that precedes the credit of the driver leaves the holding to the
\* distribution.  The write of the holding may fail unnoticed; when that of
\* the payment fails the claim stays.
MarkPaymentRefunded(p, k) ==
    LET d == DocOf(k)
        rec == payment[p][d]
        r == call[p][k].req
        marked == [rec EXCEPT !.refunded = TRUE, !.claim = None,
                              !.failed = FALSE]
        status == IF k \in Settlers THEN holding[p][d]
                                  ELSE Moved(holding[p][d], "refunded")
    IN  /\ At(p, k, "mark")
        /\ \/ /\ Write(p, d, marked)
              /\ \/ holding' = [holding EXCEPT ![p][d] = status]
                    /\ UNCHANGED budget
                 \/ Fault /\ UNCHANGED holding
              /\ Go(p, k, "end", r, "ok")
           \/ /\ Fault
              /\ Go(p, k, "end", r, "maybe")
              /\ UNCHANGED docVars
        /\ UNCHANGED <<due, copy, rideVars, settled,
                       bookVars>>

\* Another call of the same request is on its way or has come back with a
\* refund: the claim is also its own.
Shared(p, k) ==
    \/ call[p][k].req \in heard[p]
    \/ \E k2 \in Kinds \ {k} : /\ call[p][k2].at \in {"send", "mark", "clear"}
                             /\ call[p][k2].req = call[p][k].req

\* The claim is cleared without a look at whose it is.
ClearRideRefundClaim(p, k) ==
    LET d == DocOf(k)
        rec == payment[p][d]
        c == call[p][k]
    IN  /\ At(p, k, "clear")
        /\ Go(p, k, "end", c.req, c.out)
        /\ \/ /\ Write(p, d, [rec EXCEPT !.claim = None, !.failed = TRUE])
              /\ IF Shared(p, k) THEN Slip(p, "forgot") ELSE UNCHANGED slips
              /\ UNCHANGED budget
           \/ Fault /\ UNCHANGED <<payment, slips>>
        /\ UNCHANGED <<holding, due, copy, rideVars, settled, heard, asked>>

-----------------------------------------------------------------------------
(* Its callers: the drain of Pix without a booking.                         *)

\* ZREM hands the entry to one worker.
TakeEntry(p) ==
    /\ p \in due
    /\ At(p, "orphan", "idle")
    /\ due' = due \ {p}
    /\ Go(p, "orphan", "check", None, None)
    /\ UNCHANGED <<docVars, copy, rideVars, settled,
                   bookVars, budget>>

\* Nothing but the pointer of the passenger tells that the payment has a
\* booking: the operational holding of the temporary id never learns of it.
BookingUsesPayment(p) == Open(p)

CheckOne(p) ==
    /\ At(p, "orphan", "check")
    /\ IF holding[p]["temp"] = "in_holding" /\ ~BookingUsesPayment(p)
         THEN Go(p, "orphan", "claim", "orphan", None)
         ELSE Rest(p, "orphan")
    /\ UNCHANGED <<docVars, due, copy, rideVars, settled,
                   bookVars, budget>>

\* A defect: a failed refund is logged and forgotten.
DropFailed(p) ==
    /\ At(p, "orphan", "end")
    /\ Rest(p, "orphan")
    /\ UNCHANGED <<docVars, due, copy, rideVars, settled,
                   bookVars, budget>>

\* A failed refund is put back for a later attempt, unless that fails too.
DrainDone(p) ==
    /\ At(p, "orphan", "end")
    /\ Rest(p, "orphan")
    /\ IF call[p]["orphan"].out = "ok"
         THEN UNCHANGED <<due, slips, budget>>
         ELSE \/ due' = due \cup {p} /\ UNCHANGED <<slips, budget>>
              \/ Fault /\ Slip(p, "entry") /\ UNCHANGED due
    /\ UNCHANGED <<docVars, copy, rideVars, settled, heard,
                   asked>>

(* A cancellation by the passenger or the driver.                           *)

\* getStoredPayment has no answer but null for a payment it cannot read: the
\* ride is canceled then and nothing is given back.
CancelRide(p, k, r) ==
    /\ Open(p)
    /\ At(p, k, "idle")
    /\ \/ /\ payment[p]["ride"].exists
          /\ Spend("cancels")
          /\ Go(p, k, "claim", r, None)
          /\ UNCHANGED <<ride, slips>>
       \/ /\ \/ ~payment[p]["ride"].exists /\ UNCHANGED budget
             \/ payment[p]["ride"].exists /\ Fault
          /\ ride' = [ride EXCEPT ![p] = "canceled"]
          /\ Slip(p, "unseen")
          /\ UNCHANGED call
    /\ UNCHANGED <<docVars, due, copy, fare, refundPending, settled, heard, asked>>

EndOpen(p) == IF Open(p) THEN [ride EXCEPT ![p] = "canceled"] ELSE ride

\* A defect: the result of the refund is not looked at.
CancelAnyway(p, k) ==
    /\ At(p, k, "end")
    /\ Rest(p, k)
    /\ ride' = EndOpen(p)
    /\ UNCHANGED <<docVars, due, copy, fare, refundPending, settled, bookVars, budget>>

\* A refund that failed aborts the command.
CancelDone(p, k) ==
    /\ At(p, k, "end")
    /\ Rest(p, k)
    /\ ride' = IF call[p][k].out = "ok" THEN EndOpen(p) ELSE ride
    /\ UNCHANGED <<docVars, due, copy, fare, refundPending, settled, bookVars, budget>>

(* The end of a search without drivers.                                     *)

HandleMaxRadiusReached(p) ==
    /\ ride[p] = "searching"
    /\ At(p, "no_drivers", "idle")
    /\ \/ /\ payment[p]["ride"].exists
          /\ Go(p, "no_drivers", "claim", "no_drivers", None)
          /\ UNCHANGED <<ride, slips, budget>>
       \/ /\ \/ ~payment[p]["ride"].exists /\ UNCHANGED budget
             \/ payment[p]["ride"].exists /\ Fault
          /\ ride' = [ride EXCEPT ![p] = "canceled"]
          /\ Slip(p, "unseen")
          /\ UNCHANGED call
    /\ UNCHANGED <<docVars, due, copy, fare, refundPending, settled, heard, asked>>

\* The ride is canceled whatever became of the refund, and whatever became of
\* the ride meanwhile: also when a driver has accepted it.
NoDriversDone(p) ==
    /\ At(p, "no_drivers", "end")
    /\ Rest(p, "no_drivers")
    /\ ride' = EndOpen(p)
    /\ refundPending' = IF call[p]["no_drivers"].out = "ok"
                          THEN refundPending ELSE refundPending \cup {p}
    /\ UNCHANGED <<docVars, due, copy, fare, settled,
                   bookVars, budget>>

(* The settlement of a completed ride, as far as the passenger's part goes. *)

RefundDue(p) ==
    /\ payment[p]["ride"].exists
    /\ ~payment[p]["ride"].refunded
    /\ fare[p] = "less"

\* A defect: a failure without a classification does not close the gate.
GateUnlessManual(rec) == rec.pending # "manual" /\ rec.claim = None

\* resolvePassengerRefundAttemptGate
Gate(rec) ==
    /\ rec.pending # "manual"
    /\ rec.claim = None
    /\ rec.failed => rec.pending = "retry"

\* A defect: the delivery is recorded, not what is to follow from it.
Unclassified(out) == out

\* classifyPassengerRefundFailure
Classify(out) == IF out = "not_sent" THEN "retry" ELSE "manual"

\* The driver is credited and the holding closed in any case.
Distribute(p) ==
    holding' = [holding EXCEPT ![p]["ride"] = Moved(@, "distributed")]

Record(p, status) ==
    Write(p, "ride", [payment[p]["ride"] EXCEPT !.pending = status])

\* A defect: the settlement is done whether or not the debt was recorded.
SettleUnrecorded(p, status) ==
    /\ Record(p, status) \/ UNCHANGED payment
    /\ settled' = settled \cup {p}

\* Only a record of the pending refund lets the worker count a settlement
\* that owes one as done; and only of one that nobody is to repeat.
SettleAs(p, status) ==
    /\ Record(p, status)
    /\ settled' = IF status = "manual" THEN settled \cup {p} ELSE settled

\* The payment is read once.  What the handler decides by it, and the mark it
\* supposes later, is as old as that read.
Begin(p, k, stage, out) ==
    call' = [call EXCEPT ![p][k] =
                [at |-> stage, req |-> "settle", out |-> out,
                 seen |-> payment[p]["ride"].pending, late |-> p \in asked]]

\* A payment that is missing or cannot be read counts as one that owes nothing.
SettleUnseen(p) ==
    /\ \/ ~payment[p]["ride"].exists /\ Spend("settlements")
       \/ payment[p]["ride"].exists /\ Fault
    /\ Distribute(p)
    /\ settled' = settled \cup {p}
    /\ Slip(p, "unseen")
    /\ UNCHANGED <<payment, call>>

\* Nothing to give back, or nothing that a machine may still give back.
SettlePlain(p) ==
    /\ payment[p]["ride"].exists
    /\ RefundDue(p) => payment[p]["ride"].pending = "manual"
    /\ Spend("settlements")
    /\ Distribute(p)
    /\ settled' = settled \cup {p}
    /\ UNCHANGED <<payment, call, slips>>

\* A handler held at the gate goes on like one whose refund has an unknown
\* outcome.
SettleDebt(p, k) ==
    /\ RefundDue(p)
    /\ payment[p]["ride"].pending # "manual"
    /\ Spend("settlements")
    /\ IF Gate(payment[p]["ride"]) THEN Begin(p, k, "claim", None)
                                   ELSE Begin(p, k, "end", "maybe")
    /\ UNCHANGED <<docVars, settled, slips>>

NetDistribution(p, k) ==
    /\ ride[p] = "completed"
    /\ At(p, k, "idle")
    /\ SettleUnseen(p) \/ SettlePlain(p) \/ SettleDebt(p, k)
    /\ UNCHANGED <<due, copy, rideVars, heard, asked>>

Refunded(p, k) ==
    /\ call[p][k].out = "ok"
    /\ \/ /\ call[p][k].seen = "retry"
          /\ \/ Record(p, "resolved") /\ UNCHANGED budget
             \/ Fault /\ UNCHANGED payment
       \/ /\ call[p][k].seen # "retry"
          /\ UNCHANGED <<payment, budget>>
    /\ settled' = settled \cup {p}

NotRefunded(p, k) ==
    /\ call[p][k].out # "ok"
    /\ \/ SettleAs(p, Classify(call[p][k].out)) /\ UNCHANGED budget
       \/ Fault /\ UNCHANGED <<payment, settled>>

NetDistributionDone(p, k) ==
    /\ At(p, k, "end")
    /\ Rest(p, k)
    /\ Refunded(p, k) \/ NotRefunded(p, k)
    /\ Distribute(p)
    /\ UNCHANGED <<due, copy, rideVars, bookVars>>

\* The process of a call dies.  Claims and marks stay as they are; an entry of
\* the drain is in no memory but the process's.
Slips(k) == IF k = "orphan" THEN {"entry"} ELSE {}

Crash(p, k) ==
    /\ ~At(p, k, "idle")
    /\ Fault
    /\ Rest(p, k)
    /\ slips' = [slips EXCEPT ![p] = @ \cup Slips(k)]
    /\ UNCHANGED <<docVars, due, copy, rideVars, settled,
                   heard, asked>>

-----------------------------------------------------------------------------
ProcessRideRefund(p, k) ==
    \/ ClaimRideRefund(p, k)
    \/ ProcessRefund(p, k)
    \/ MarkPaymentRefunded(p, k)
    \/ ClearRideRefundClaim(p, k)

Drain(p) ==
    \/ TakeEntry(p)
    \/ CheckOne(p)
    \/ DrainDone(p)
    \/ ProcessRideRefund(p, "orphan")

Next ==
    \E p \in Payments :
        \/ Confirm(p)
        \/ CheckPayment(p)
        \/ Book(p)
        \/ ReadForCopy(p)
        \/ WriteCopy(p)
        \/ LoseCopy(p)
        \/ Accept(p)
        \/ \E f \in {"exact", "less"} : Complete(p, f)
        \/ TakeEntry(p)
        \/ CheckOne(p)
        \/ DrainDone(p)
        \/ \E k \in Cancelers, r \in Reasons : CancelRide(p, k, r)
        \/ \E k \in Cancelers : CancelDone(p, k)
        \/ HandleMaxRadiusReached(p)
        \/ NoDriversDone(p)
        \/ \E k \in Settlers : NetDistribution(p, k)
        \/ \E k \in Settlers : NetDistributionDone(p, k)
        \/ \E k \in Kinds :
             \/ ClaimRideRefund(p, k)
             \/ ProcessRefund(p, k)
             \/ MarkPaymentRefunded(p, k)
             \/ ClearRideRefundClaim(p, k)
             \/ Crash(p, k)

Spec == Init /\ [][Next]_vars

\* The leader's cycle drains what is due and every call returns, in time or by
\* a timeout.  Nobody has to confirm, book, cancel or complete anything.
Fairness == \A p \in Payments : WF_vars(Drain(p))
FairSpec == Spec /\ Fairness

-----------------------------------------------------------------------------
(* What the refunds promise.                                                *)

\* The requests of a document that the provider has confirmed or that are on
\* their way to it or back.
RequestDoc(r) == IF r = "orphan" THEN "temp" ELSE "ride"
Live(p, d) ==
    {r \in heard[p] : RequestDoc(r) = d}
      \cup {call[p][k].req : k \in {x \in Kinds : /\ DocOf(x) = d
                                                /\ call[p][x].at \in {"send", "mark"}}}

\* No two different refunds of one document of a payment are ever confirmed,
\* and none is asked for while another one is, or is known to be done:
\* cancellations of passenger and driver, a search that gives up and a
\* settlement do not refund the same ride twice.  Except that the failure of
\* one of two calls of the same request drops the claim they share.
OneKnownRefund ==
    \A p \in Payments : "forgot" \notin slips[p] =>
        \A d \in Docs : \A r1, r2 \in Live(p, d) : r1 = r2

\* A handler of the settlement that read the payment after a settlement refund
\* may have left sends one itself only because the payment carried the mark of
\* a failure that was not sent: claim or failure of the earlier one are never
\* wiped out by whoever refunds, fails or dies next to it.  Handlers that both
\* read before either asked do ask twice, see README.
OnlyRetryAsksAgain ==
    \A p \in Payments, k \in Settlers :
        At(p, k, "send") /\ call[p][k].late => call[p][k].seen = "retry"

\* A shorter ride whose settlement the worker counts as done has been refunded
\* or shows the debt in its payment, where the reconciliation finds it
\* (financial-ledger-service.js:821-840): whatever handler wrote last, and
\* whatever failed; unless the payment could not be read.
DebtIsRecorded ==
    \A p \in settled :
        fare[p] = "less" =>
            \/ payment[p]["ride"].refunded
            \/ payment[p]["ride"].pending \in {"retry", "manual"}
            \/ "unseen" \in slips[p]

\* A ride canceled by the passenger, the driver or a search without drivers
\* has been refunded or is marked for support, even when two of these meet;
\* unless its payment could not be read.
CanceledIsPaidBack ==
    \A p \in Payments :
        ride[p] = "canceled" =>
            \/ payment[p]["ride"].refunded
            \/ p \in refundPending
            \/ "unseen" \in slips[p]

\* A confirmed Pix without a ride is never out of sight: it is refunded, or has
\* an entry, or a drain has it in its hands.  A drain that fails puts it back,
\* also when the claim, the provider or the mark failed, and no drain leaves it
\* for a holding that says something else.
OrphanIsTracked ==
    \A p \in Payments :
        payment[p]["temp"].exists /\ ride[p] \in {"none", "checked"} =>
            \/ payment[p]["temp"].refunded
            \/ p \in due
            \/ ~At(p, "orphan", "idle")
            \/ "entry" \in slips[p]

\* So a confirmed Pix nobody books with is given back, whatever fails on the way,
\* unless its entry was lost: not scheduled, not put back, or in the hands of
\* a process that died (orphan-payment-refund-service.js).
OrphanIsRefunded ==
    \A p \in Payments :
        (payment[p]["temp"].exists /\ ride[p] \in {"none", "checked"})
          ~> \/ payment[p]["temp"].refunded
             \/ ride[p] \notin {"none", "checked"}
             \/ "entry" \in slips[p]

\* orphan-payment-refund-service.js:3-5, 10-12 and its unit test: a payment
\* that was already distributed or refunded is never taken for an orphan.
NeverRefundsSettled ==
    [][\A p \in Payments :
          (At(p, "orphan", "check") /\ At(p, "orphan", "claim")')
             => holding[p]["ride"] \notin {"distributed", "refunded"}]_vars
=============================================================================
