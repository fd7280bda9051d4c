------------------------- MODULE PaymentRefundsProofs -------------------------
(***************************************************************************)
(* Proofs about PaymentRefunds, for any payments, cancelers, reasons and    *)
(* bounds.                                                                  *)
(***************************************************************************)
EXTENDS PaymentRefunds, TLAPS

(***************************************************************************)
(* What the helpers do to the two nested functions, and the type.           *)
(***************************************************************************)
CallRecords == [at : Stages, req : Requests \cup {None},
                out : Outcomes \cup {None}, seen : Marks, late : BOOLEAN]

\* Where a call is after a step that keeps what it read.
Arrives(p, k, s, r, out) ==
    /\ call'[p][k].at = s /\ call'[p][k].req = r /\ call'[p][k].out = out
    /\ call'[p][k].seen = call[p][k].seen /\ call'[p][k].late = call[p][k].late

LEMMA WriteOne ==
    ASSUME payment \in [Payments -> [Docs -> Records]],
           NEW p \in Payments, NEW d \in Docs, NEW rec \in Records,
           Write(p, d, rec)
    PROVE  /\ payment' \in [Payments -> [Docs -> Records]]
           /\ payment'[p][d] = rec
           /\ \A e \in Docs : e # d => payment'[p][e] = payment[p][e]
           /\ \A q \in Payments : q # p => payment'[q] = payment[q]
BY DEF Write

LEMMA GoOne ==
    ASSUME call \in [Payments -> [Kinds -> CallRecords]],
           NEW p \in Payments, NEW k \in Kinds, NEW s \in Stages,
           NEW r \in Requests \cup {None}, NEW out \in Outcomes \cup {None},
           Go(p, k, s, r, out)
    PROVE  /\ call' \in [Payments -> [Kinds -> CallRecords]]
           /\ Arrives(p, k, s, r, out)
           /\ \A j \in Kinds : j # k => call'[p][j] = call[p][j]
           /\ \A q \in Payments : q # p => call'[q] = call[q]
<1>. DEFINE c == [call[p][k] EXCEPT !.at = s, !.req = r, !.out = out]
<1>1. c \in CallRecords
  <2>. DEFINE old == call[p][k]
  <2>1. old \in CallRecords
    OBVIOUS
  <2>2. c = [old EXCEPT !.at = s, !.req = r, !.out = out]
    OBVIOUS
  <2>. HIDE DEF old, c
  <2>3. c = [at |-> s, req |-> r, out |-> out, seen |-> old.seen, late |-> old.late]
    BY <2>1, <2>2 DEF CallRecords
  <2>4. old.seen \in Marks /\ old.late \in BOOLEAN
    BY <2>1 DEF CallRecords
  <2>. QED
    BY <2>3, <2>4 DEF CallRecords
<1>2. /\ c.at = s /\ c.req = r /\ c.out = out
      /\ c.seen = call[p][k].seen /\ c.late = call[p][k].late
    BY DEF CallRecords
<1>3. call' = [call EXCEPT ![p][k] = c]
    BY DEF Go
<1>. HIDE DEF c
<1>4. /\ call' \in [Payments -> [Kinds -> CallRecords]]
      /\ call'[p][k] = c
      /\ \A j \in Kinds : j # k => call'[p][j] = call[p][j]
      /\ \A q \in Payments : q # p => call'[q] = call[q]
    BY <1>1, <1>3
<1>. QED
    BY <1>2, <1>4 DEF Arrives

LEMMA BeginOne ==
    ASSUME call \in [Payments -> [Kinds -> CallRecords]],
           payment \in [Payments -> [Docs -> Records]],
           NEW p \in Payments, NEW k \in Kinds, NEW s \in Stages,
           NEW out \in Outcomes \cup {None}, Begin(p, k, s, out)
    PROVE  /\ call' \in [Payments -> [Kinds -> CallRecords]]
           /\ call'[p][k].at = s /\ call'[p][k].req = "settle"
           /\ call'[p][k].out = out
           /\ call'[p][k].seen = payment[p]["ride"].pending
           /\ call'[p][k].late <=> p \in asked
           /\ \A j \in Kinds : j # k => call'[p][j] = call[p][j]
           /\ \A q \in Payments : q # p => call'[q] = call[q]
<1>. DEFINE c == [at |-> s, req |-> "settle", out |-> out,
                  seen |-> payment[p]["ride"].pending, late |-> p \in asked]
<1>1. c \in CallRecords
  <2>1. payment[p]["ride"].pending \in Marks
    BY DEF Records, Docs
  <2>2. "settle" \in Requests
    BY DEF Requests
  <2>3. (p \in asked) \in BOOLEAN
    OBVIOUS
  <2>. QED
    BY <2>1, <2>2, <2>3 DEF CallRecords
<1>2. call' = [call EXCEPT ![p][k] = c]
    BY DEF Begin
<1>3. /\ c.at = s /\ c.req = "settle" /\ c.out = out
      /\ c.seen = payment[p]["ride"].pending /\ (c.late <=> p \in asked)
    OBVIOUS
<1>. HIDE DEF c
<1>4. /\ call' \in [Payments -> [Kinds -> CallRecords]]
      /\ call'[p][k] = c
      /\ \A j \in Kinds : j # k => call'[p][j] = call[p][j]
      /\ \A q \in Payments : q # p => call'[q] = call[q]
    BY <1>1, <1>2
<1>. QED
    BY <1>3, <1>4

LEMMA RestOne ==
    ASSUME call \in [Payments -> [Kinds -> CallRecords]],
           NEW p \in Payments, NEW k \in Kinds, Rest(p, k)
    PROVE  /\ call' \in [Payments -> [Kinds -> CallRecords]]
           /\ call'[p][k] = Idle
           /\ \A j \in Kinds : j # k => call'[p][j] = call[p][j]
           /\ \A q \in Payments : q # p => call'[q] = call[q]
<1>1. Idle \in CallRecords
    BY DEF Idle, CallRecords, Stages, Marks
<1>. QED
    BY <1>1 DEF Rest

LEMMA SpendTyped ==
    ASSUME TypeOK, NEW b \in {"confirmations", "cancels", "settlements", "faults"},
           Spend(b)
    PROVE  budget' \in [confirmations : Nat, cancels : Nat, settlements : Nat,
                        faults : Nat]
BY DEF TypeOK, Spend

LEMMA HoldOne ==
    ASSUME NEW S, holding \in [Payments -> [Docs -> S]],
           NEW p \in Payments, NEW d \in Docs, NEW s \in S,
           holding' = [holding EXCEPT ![p][d] = s]
    PROVE  holding' \in [Payments -> [Docs -> S]]
OBVIOUS

LEMMA SlipTyped ==
    ASSUME slips \in [Payments -> SUBSET {"entry", "unseen", "forgot"}],
           NEW p \in Payments, NEW s \in {"entry", "unseen", "forgot"},
           Slip(p, s)
    PROVE  slips' \in [Payments -> SUBSET {"entry", "unseen", "forgot"}]
BY DEF Slip

LEMMA KindsAre ==
    /\ "orphan" \in Kinds /\ "no_drivers" \in Kinds
    /\ \A k \in Settlers : k \in Kinds
    /\ \A k \in Cancelers : k \in Kinds
    /\ \A k \in Kinds : DocOf(k) \in Docs
    /\ \A k \in Kinds : RequestsOf(k) \subseteq Requests
    /\ \A r \in Reasons : r \in Requests
    /\ "orphan" \in Requests /\ "no_drivers" \in Requests /\ "settle" \in Requests
    /\ "temp" \in Docs /\ "ride" \in Docs
BY DEF Kinds, DocOf, Docs, RequestsOf, Requests

\* The records the actions write stay within the type.
LEMMA RecordUpdates ==
    ASSUME NEW rec \in Records, NEW r \in Requests
    PROVE  /\ [rec EXCEPT !.exists = TRUE] \in Records
           /\ [rec EXCEPT !.claim = r, !.failed = FALSE] \in Records
           /\ [rec EXCEPT !.refunded = TRUE, !.claim = None, !.failed = FALSE] \in Records
           /\ [rec EXCEPT !.claim = None, !.failed = TRUE] \in Records
           /\ \A s \in Marks : [rec EXCEPT !.pending = s] \in Records
BY DEF Records

\* A refund without the name of its caller is none: the request of a call is
\* one its kind can make.
OwnRequests ==
    \A p \in Payments, k \in Kinds :
        call[p][k].at \notin {"idle", "check"} => call[p][k].req \in RequestsOf(k)

Typed == TypeOK /\ OwnRequests

LEMMA TypedInit == Init => Typed
<1>. SUFFICES ASSUME Init PROVE Typed
    OBVIOUS
<1>1. NoRecord \in Records
    BY DEF NoRecord, Records, Marks
<1>2. Idle \in CallRecords
    BY DEF Idle, CallRecords, Stages, Marks
<1>3. payment \in [Payments -> [Docs -> Records]]
    BY <1>1 DEF Init
<1>4. copy \in [Payments -> [at : {"pending", "read", "done", "lost"}, rec : Records]]
    BY <1>1 DEF Init
<1>5. call \in [Payments -> [Kinds -> CallRecords]]
    BY <1>2 DEF Init
<1>6. TypeOK
    BY <1>3, <1>4, <1>5, BudgetAssumption DEF Init, TypeOK, CallRecords, Docs
<1>7. OwnRequests
    BY DEF Init, OwnRequests, Idle
<1>. QED
    BY <1>6, <1>7 DEF Typed


\* Moving one call, or resting it, keeps the requests its own.
LEMMA GoTyped ==
    ASSUME Typed, NEW p \in Payments, NEW k \in Kinds, NEW s \in Stages,
           NEW r \in Requests \cup {None}, NEW out \in Outcomes \cup {None},
           Go(p, k, s, r, out), s = "check" \/ r \in RequestsOf(k)
    PROVE  call' \in [Payments -> [Kinds -> CallRecords]] /\ OwnRequests'
<1>1. call \in [Payments -> [Kinds -> CallRecords]]
    BY DEF Typed, TypeOK, CallRecords
<1>. HIDE DEF Stages
<1>2. /\ call' \in [Payments -> [Kinds -> CallRecords]]
      /\ Arrives(p, k, s, r, out)
      /\ \A j \in Kinds : j # k => call'[p][j] = call[p][j]
      /\ \A q \in Payments : q # p => call'[q] = call[q]
    BY <1>1, GoOne
<1>. QED
    BY <1>2 DEF Typed, OwnRequests, Arrives

LEMMA RestTyped ==
    ASSUME Typed, NEW p \in Payments, NEW k \in Kinds, Rest(p, k)
    PROVE  call' \in [Payments -> [Kinds -> CallRecords]] /\ OwnRequests'
<1>1. call \in [Payments -> [Kinds -> CallRecords]]
    BY DEF Typed, TypeOK, CallRecords
<1>2. /\ call' \in [Payments -> [Kinds -> CallRecords]]
      /\ call'[p][k] = Idle
      /\ \A j \in Kinds : j # k => call'[p][j] = call[p][j]
      /\ \A q \in Payments : q # p => call'[q] = call[q]
    BY <1>1, RestOne
<1>3. call'[p][k].at = "idle"
    BY <1>2 DEF Idle
<1>. QED
    BY <1>2, <1>3 DEF Typed, OwnRequests

\* What the copy holds is a record, and the stages are what Go may be given.
LEMMA Parts ==
    ASSUME TypeOK
    PROVE  /\ payment \in [Payments -> [Docs -> Records]]
           /\ call \in [Payments -> [Kinds -> CallRecords]]
           /\ \A p \in Payments, d \in Docs : payment[p][d] \in Records
           /\ \A p \in Payments, k \in Kinds : call[p][k] \in CallRecords
           /\ \A p \in Payments : copy[p].rec \in Records
           /\ holding \in [Payments -> [Docs -> {"none", "in_holding", "distributed",
                                                 "refunded"}]]
BY DEF TypeOK, CallRecords

\* The type of what is neither payment nor call.
RestOfState ==
    /\ holding \in [Payments -> [Docs -> {"none", "in_holding", "distributed",
                                          "refunded"}]]
    /\ due \subseteq Payments
    /\ copy \in [Payments -> [at : {"pending", "read", "done", "lost"},
                              rec : Records]]
    /\ ride \in [Payments -> {"none", "checked", "searching", "accepted",
                              "completed", "canceled"}]
    /\ fare \in [Payments -> {"open", "exact", "less"}]
    /\ refundPending \subseteq Payments
    /\ settled \subseteq Payments
    /\ heard \in [Payments -> SUBSET Requests]
    /\ asked \subseteq Payments
    /\ slips \in [Payments -> SUBSET {"entry", "unseen", "forgot"}]
    /\ budget \in [confirmations : Nat, cancels : Nat, settlements : Nat,
                    faults : Nat]

LEMMA TypeSplits ==
    TypeOK <=> /\ payment \in [Payments -> [Docs -> Records]]
               /\ call \in [Payments -> [Kinds -> CallRecords]]
               /\ RestOfState
BY DEF TypeOK, RestOfState, CallRecords

LEMMA TypedKept ==
    ASSUME payment' \in [Payments -> [Docs -> Records]],
           call' \in [Payments -> [Kinds -> CallRecords]] /\ OwnRequests',
           RestOfState'
    PROVE  Typed'
BY DEF Typed, TypeOK, RestOfState, CallRecords

LEMMA CallUnchanged ==
    ASSUME Typed, UNCHANGED call
    PROVE  call' \in [Payments -> [Kinds -> CallRecords]] /\ OwnRequests'
BY DEF Typed, TypeOK, OwnRequests, CallRecords


(***************************************************************************)
(* Each step keeps the type.                                                *)
(***************************************************************************)
LEMMA RideStepTyped ==
    ASSUME Typed, NEW p \in Payments,
           \/ CheckPayment(p) \/ Book(p) \/ ReadForCopy(p) \/ LoseCopy(p) \/ Accept(p)
           \/ \E f \in {"exact", "less"} : Complete(p, f)
    PROVE  Typed'
<1>1. payment' \in [Payments -> [Docs -> Records]]
    BY Parts DEF Typed, CheckPayment, Book, ReadForCopy, LoseCopy, Accept, Complete, docVars
<1>2. UNCHANGED call
    BY DEF CheckPayment, Book, ReadForCopy, LoseCopy, Accept, Complete
<1>3. payment[p]["temp"] \in Records /\ NoRecord \in Records
    BY Parts, KindsAre DEF Typed, NoRecord, Records, Marks
<1>4. UNCHANGED budget \/ Spend("faults")
    BY DEF CheckPayment, Book, ReadForCopy, LoseCopy, Accept, Complete, Fault
<1>5. budget' \in [confirmations : Nat, cancels : Nat, settlements : Nat, faults : Nat]
    BY <1>4, SpendTyped DEF Typed, TypeOK
<1>a. /\ copy \in [Payments -> [at : {"pending", "read", "done", "lost"}, rec : Records]]
      /\ ride \in [Payments -> {"none", "checked", "searching", "accepted",
                                "completed", "canceled"}]
      /\ fare \in [Payments -> {"open", "exact", "less"}]
    BY DEF Typed, TypeOK
<1>6. copy' \in [Payments -> [at : {"pending", "read", "done", "lost"}, rec : Records]]
  <2>1. CASE ReadForCopy(p)
    BY <1>3, <1>a, <2>1 DEF ReadForCopy
  <2>2. CASE LoseCopy(p)
    BY <1>3, <1>a, <2>2 DEF LoseCopy
  <2>3. CASE UNCHANGED copy
    BY <1>a, <2>3
  <2>. QED
    BY <2>1, <2>2, <2>3 DEF CheckPayment, Book, Accept, Complete
<1>7. ride' \in [Payments -> {"none", "checked", "searching", "accepted",
                              "completed", "canceled"}]
      /\ fare' \in [Payments -> {"open", "exact", "less"}]
  <2>1. CASE CheckPayment(p) \/ Book(p) \/ Accept(p)
    BY <1>a, <2>1 DEF CheckPayment, Book, Accept
  <2>2. CASE \E f \in {"exact", "less"} : Complete(p, f)
    BY <1>a, <2>2 DEF Complete
  <2>3. CASE ReadForCopy(p) \/ LoseCopy(p)
    BY <1>a, <2>3 DEF ReadForCopy, LoseCopy, rideVars
  <2>. QED
    BY <2>1, <2>2, <2>3
<1>8. UNCHANGED <<holding, due, refundPending, settled, heard, asked, slips>>
    BY DEF CheckPayment, Book, ReadForCopy, LoseCopy, Accept, Complete, docVars, rideVars, bookVars
<1>9. RestOfState'
    BY <1>5, <1>6, <1>7, <1>8 DEF Typed, TypeOK, RestOfState
<1>. QED
    BY <1>1, <1>2, <1>9, CallUnchanged, TypedKept

LEMMA ConfirmTyped ==
    ASSUME Typed, NEW p \in Payments, Confirm(p)
    PROVE  Typed'
<1>. DEFINE rec == [payment[p]["temp"] EXCEPT !.exists = TRUE]
<1>1. rec \in Records
    BY Parts, KindsAre, RecordUpdates DEF Typed
<1>2. Write(p, "temp", rec)
    BY DEF Confirm
<1>. HIDE DEF rec
<1>3. payment' \in [Payments -> [Docs -> Records]]
    BY <1>1, <1>2, WriteOne, KindsAre, Parts DEF Typed
<1>4. budget' \in [confirmations : Nat, cancels : Nat, settlements : Nat, faults : Nat]
    BY SpendTyped DEF Confirm, Fault, Typed
<1>5. holding' \in [Payments -> [Docs -> {"none", "in_holding", "distributed",
                                          "refunded"}]]
    BY DEF Confirm, Typed, TypeOK
<1>6. slips' \in [Payments -> SUBSET {"entry", "unseen", "forgot"}]
  <2>1. slips \in [Payments -> SUBSET {"entry", "unseen", "forgot"}]
    BY DEF Typed, TypeOK
  <2>2. Slip(p, "entry") \/ UNCHANGED slips
    BY DEF Confirm
  <2>. QED
    BY <2>1, <2>2, SlipTyped
<1>7. due' \subseteq Payments
    BY DEF Confirm, Typed, TypeOK
<1>8. RestOfState'
    BY <1>4, <1>5, <1>6, <1>7 DEF Confirm, Typed, TypeOK, RestOfState, rideVars
<1>. QED
    BY <1>3, <1>8, CallUnchanged, TypedKept DEF Confirm

LEMMA WriteCopyTyped ==
    ASSUME Typed, NEW p \in Payments, WriteCopy(p)
    PROVE  Typed'
<1>1. copy[p].rec \in Records /\ NoRecord \in Records
    BY Parts DEF Typed, NoRecord, Records, Marks
<1>2. payment' \in [Payments -> [Docs -> Records]]
    BY <1>1, WriteOne, KindsAre, Parts DEF Typed, WriteCopy
<1>3. holding' \in [Payments -> [Docs -> {"none", "in_holding", "distributed",
                                          "refunded"}]]
    BY DEF WriteCopy, Typed, TypeOK
<1>4. copy' \in [Payments -> [at : {"pending", "read", "done", "lost"}, rec : Records]]
    BY <1>1 DEF WriteCopy, Typed, TypeOK
<1>5. RestOfState'
    BY <1>3, <1>4 DEF WriteCopy, Typed, TypeOK, RestOfState, rideVars, bookVars
<1>. QED
    BY <1>2, <1>5, CallUnchanged, TypedKept DEF WriteCopy


\* A call of a kind stays of its kind.
LEMMA BusyOwn ==
    ASSUME Typed, NEW p \in Payments, NEW k \in Kinds,
           At(p, k, "claim") \/ At(p, k, "send") \/ At(p, k, "mark") \/ At(p, k, "clear")
    PROVE  call[p][k].req \in RequestsOf(k) /\ call[p][k].req \in Requests
BY KindsAre DEF Typed, OwnRequests, At

LEMMA StageNames ==
    /\ {"idle", "check", "claim", "send", "mark", "clear", "end"} = Stages
    /\ {"ok", "not_sent", "maybe"} = Outcomes
BY DEF Stages, Outcomes

LEMMA ClaimTyped ==
    ASSUME Typed, NEW p \in Payments, NEW k \in Kinds, ClaimRideRefund(p, k)
    PROVE  Typed'
<1>. DEFINE d == DocOf(k)
            rec == payment[p][d]
            r == call[p][k].req
            claimed == [rec EXCEPT !.claim = r, !.failed = FALSE]
<1>1. d \in Docs /\ rec \in Records /\ r \in RequestsOf(k) /\ r \in Requests
    BY KindsAre, Parts, BusyOwn DEF Typed, ClaimRideRefund
<1>2. claimed \in Records
    BY <1>1, RecordUpdates
<1>3. \/ Go(p, k, "end", r, "ok") /\ UNCHANGED <<payment, budget>>
      \/ Go(p, k, "end", r, "not_sent") /\ UNCHANGED <<payment, budget>>
      \/ Go(p, k, "send", r, None) /\ Write(p, d, claimed) /\ UNCHANGED budget
      \/ Go(p, k, "end", r, "not_sent") /\ UNCHANGED payment /\ Fault
    BY DEF ClaimRideRefund
<1>4. UNCHANGED <<holding, due, copy, rideVars, settled, bookVars>>
    BY DEF ClaimRideRefund
<1>. HIDE DEF d, rec, r, claimed
<1>5. call' \in [Payments -> [Kinds -> CallRecords]] /\ OwnRequests'
    BY <1>1, <1>3, GoTyped, StageNames
<1>6. payment' \in [Payments -> [Docs -> Records]]
    BY <1>1, <1>2, <1>3, WriteOne, Parts DEF Typed
<1>7. budget' \in [confirmations : Nat, cancels : Nat, settlements : Nat, faults : Nat]
    BY <1>3, SpendTyped DEF Fault, Typed, TypeOK
<1>8. RestOfState'
    BY <1>4, <1>7 DEF Typed, TypeOK, RestOfState, rideVars, bookVars
<1>. QED
    BY <1>5, <1>6, <1>8, TypedKept

LEMMA SendTyped ==
    ASSUME Typed, NEW p \in Payments, NEW k \in Kinds, ProcessRefund(p, k)
    PROVE  Typed'
<1>. DEFINE r == call[p][k].req
<1>1. r \in RequestsOf(k) /\ r \in Requests
    BY BusyOwn DEF ProcessRefund
<1>2. /\ heard \in [Payments -> SUBSET Requests]
      /\ asked \subseteq Payments
    BY DEF Typed, TypeOK
<1>3. \/ Go(p, k, "mark", r, None) /\ UNCHANGED budget
      \/ Go(p, k, "clear", r, "maybe") /\ Fault
      \/ Go(p, k, "clear", r, "not_sent") /\ Fault
    BY DEF ProcessRefund
<1>4. heard' = [heard EXCEPT ![p] = @ \cup {r}] \/ UNCHANGED heard
    BY DEF ProcessRefund
<1>5. asked' = asked \cup {p} \/ UNCHANGED asked
    BY DEF ProcessRefund
<1>6. UNCHANGED <<docVars, due, copy, rideVars, settled, slips>>
    BY DEF ProcessRefund
<1>. HIDE DEF r
<1>7. call' \in [Payments -> [Kinds -> CallRecords]] /\ OwnRequests'
    BY <1>1, <1>3, GoTyped, StageNames
<1>8. budget' \in [confirmations : Nat, cancels : Nat, settlements : Nat, faults : Nat]
    BY <1>3, SpendTyped DEF Fault, Typed, TypeOK
<1>9. heard' \in [Payments -> SUBSET Requests] /\ asked' \subseteq Payments
    BY <1>1, <1>2, <1>4, <1>5
<1>a. payment' \in [Payments -> [Docs -> Records]]
    BY <1>6, Parts DEF Typed, docVars
<1>b. RestOfState'
    BY <1>6, <1>8, <1>9 DEF Typed, TypeOK, RestOfState, rideVars, docVars
<1>. QED
    BY <1>7, <1>a, <1>b, TypedKept

LEMMA MarkTyped ==
    ASSUME Typed, NEW p \in Payments, NEW k \in Kinds, MarkPaymentRefunded(p, k)
    PROVE  Typed'
<1>. DEFINE d == DocOf(k)
            rec == payment[p][d]
            r == call[p][k].req
            marked == [rec EXCEPT !.refunded = TRUE, !.claim = None, !.failed = FALSE]
            status == IF k \in Settlers THEN holding[p][d]
                                      ELSE Moved(holding[p][d], "refunded")
<1>1. d \in Docs /\ rec \in Records /\ r \in RequestsOf(k) /\ r \in Requests
    BY KindsAre, Parts, BusyOwn DEF Typed, MarkPaymentRefunded
<1>2. marked \in Records
    BY <1>1, RecordUpdates
<1>3. status \in {"none", "in_holding", "distributed", "refunded"}
    BY <1>1, Parts DEF Typed, Moved
<1>4. /\ Go(p, k, "end", r, "ok") \/ Go(p, k, "end", r, "maybe")
      /\ Write(p, d, marked) \/ UNCHANGED payment
      /\ holding' = [holding EXCEPT ![p][d] = status] \/ UNCHANGED holding
      /\ UNCHANGED budget \/ Fault
    BY DEF MarkPaymentRefunded, docVars
<1>5. UNCHANGED <<due, copy, rideVars, settled, bookVars>>
    BY DEF MarkPaymentRefunded
<1>. HIDE DEF d, rec, r, marked, status
<1>6. call' \in [Payments -> [Kinds -> CallRecords]] /\ OwnRequests'
    BY <1>1, <1>4, GoTyped, StageNames
<1>7. payment' \in [Payments -> [Docs -> Records]]
    BY <1>1, <1>2, <1>4, WriteOne, Parts DEF Typed
<1>8. holding' \in [Payments -> [Docs -> {"none", "in_holding", "distributed",
                                          "refunded"}]]
    BY <1>1, <1>3, <1>4, HoldOne, Parts DEF Typed
<1>9. budget' \in [confirmations : Nat, cancels : Nat, settlements : Nat, faults : Nat]
    BY <1>4, SpendTyped DEF Fault, Typed, TypeOK
<1>a. RestOfState'
    BY <1>5, <1>8, <1>9 DEF Typed, TypeOK, RestOfState, rideVars, bookVars
<1>. QED
    BY <1>6, <1>7, <1>a, TypedKept

LEMMA ClearTyped ==
    ASSUME Typed, NEW p \in Payments, NEW k \in Kinds, ClearRideRefundClaim(p, k)
    PROVE  Typed'
<1>. DEFINE d == DocOf(k)
            rec == payment[p][d]
            c == call[p][k]
            cleared == [rec EXCEPT !.claim = None, !.failed = TRUE]
<1>1. d \in Docs /\ rec \in Records /\ c.req \in RequestsOf(k) /\ c.req \in Requests
      /\ c.out \in Outcomes \cup {None}
    BY KindsAre, Parts, BusyOwn DEF Typed, ClearRideRefundClaim, CallRecords
<1>2. cleared \in Records
    BY <1>1, RecordUpdates, KindsAre
<1>3. /\ Go(p, k, "end", c.req, c.out)
      /\ Write(p, d, cleared) \/ UNCHANGED payment
      /\ Slip(p, "forgot") \/ UNCHANGED slips
      /\ UNCHANGED budget \/ Fault
      /\ UNCHANGED <<holding, due, copy, rideVars, settled, heard, asked>>
    BY DEF ClearRideRefundClaim
<1>. HIDE DEF d, rec, c, cleared
<1>4. call' \in [Payments -> [Kinds -> CallRecords]] /\ OwnRequests'
    BY <1>1, <1>3, GoTyped, StageNames
<1>5. payment' \in [Payments -> [Docs -> Records]]
    BY <1>1, <1>2, <1>3, WriteOne, Parts DEF Typed
<1>6. slips' \in [Payments -> SUBSET {"entry", "unseen", "forgot"}]
    BY <1>3, SlipTyped DEF Typed, TypeOK
<1>7. budget' \in [confirmations : Nat, cancels : Nat, settlements : Nat, faults : Nat]
    BY <1>3, SpendTyped DEF Fault, Typed, TypeOK
<1>8. RestOfState'
    BY <1>3, <1>6, <1>7 DEF Typed, TypeOK, RestOfState, rideVars, bookVars
<1>. QED
    BY <1>4, <1>5, <1>8, TypedKept


LEMMA DrainStepTyped ==
    ASSUME Typed, NEW p \in Payments,
           TakeEntry(p) \/ CheckOne(p) \/ DrainDone(p)
    PROVE  Typed'
<1>1. \/ Go(p, "orphan", "check", None, None)
      \/ Go(p, "orphan", "claim", "orphan", None)
      \/ Rest(p, "orphan")
    BY DEF TakeEntry, CheckOne, DrainDone
<1>2. "orphan" \in RequestsOf("orphan")
    BY NamesAssumption DEF RequestsOf
<1>3. call' \in [Payments -> [Kinds -> CallRecords]] /\ OwnRequests'
    BY <1>1, <1>2, GoTyped, RestTyped, StageNames, KindsAre
<1>4. UNCHANGED <<docVars, copy, rideVars, settled, heard, asked>>
    BY DEF TakeEntry, CheckOne, DrainDone, bookVars
<1>5. due' \subseteq Payments
    BY DEF TakeEntry, CheckOne, DrainDone, Typed, TypeOK
<1>6. (Slip(p, "entry") \/ UNCHANGED slips) /\ (Fault \/ UNCHANGED budget)
    BY DEF TakeEntry, CheckOne, DrainDone, bookVars
<1>7. slips' \in [Payments -> SUBSET {"entry", "unseen", "forgot"}]
    BY <1>6, SlipTyped DEF Typed, TypeOK
<1>8. budget' \in [confirmations : Nat, cancels : Nat, settlements : Nat, faults : Nat]
    BY <1>6, SpendTyped DEF Fault, Typed, TypeOK
<1>9. payment' \in [Payments -> [Docs -> Records]] /\ RestOfState'
    BY <1>4, <1>5, <1>7, <1>8, Parts DEF Typed, TypeOK, RestOfState, rideVars, docVars
<1>. QED
    BY <1>3, <1>9, TypedKept

LEMMA RideEnds ==
    ASSUME ride \in [Payments -> {"none", "checked", "searching", "accepted",
                                  "completed", "canceled"}],
           NEW p \in Payments,
           \/ ride' = [ride EXCEPT ![p] = "canceled"]
           \/ ride' = EndOpen(p)
           \/ UNCHANGED ride
    PROVE  ride' \in [Payments -> {"none", "checked", "searching", "accepted",
                                   "completed", "canceled"}]
BY DEF EndOpen

LEMMA CancelStepTyped ==
    ASSUME Typed, NEW p \in Payments, NEW k \in Kinds,
           \/ k \in Cancelers /\ \E r \in Reasons : CancelRide(p, k, r)
           \/ k \in Cancelers /\ CancelDone(p, k)
           \/ k = "no_drivers" /\ HandleMaxRadiusReached(p)
           \/ k = "no_drivers" /\ NoDriversDone(p)
    PROVE  Typed'
<1>1. \/ \E r \in Reasons : k \in Cancelers /\ Go(p, k, "claim", r, None)
      \/ k = "no_drivers" /\ Go(p, k, "claim", "no_drivers", None)
      \/ Rest(p, k)
      \/ UNCHANGED call
    BY DEF CancelRide, CancelDone, HandleMaxRadiusReached, NoDriversDone
<1>2. "no_drivers" \in RequestsOf("no_drivers")
      /\ \A j \in Cancelers : RequestsOf(j) = Reasons
    BY NamesAssumption DEF RequestsOf
<1>3. call' \in [Payments -> [Kinds -> CallRecords]] /\ OwnRequests'
    BY <1>1, <1>2, GoTyped, RestTyped, CallUnchanged, StageNames, KindsAre
<1>4. \/ ride' = [ride EXCEPT ![p] = "canceled"]
      \/ ride' = EndOpen(p)
      \/ UNCHANGED ride
    BY DEF CancelRide, CancelDone, HandleMaxRadiusReached, NoDriversDone
<1>5. ride' \in [Payments -> {"none", "checked", "searching", "accepted",
                              "completed", "canceled"}]
    BY <1>4, RideEnds DEF Typed, TypeOK
<1>6. UNCHANGED <<docVars, due, copy, fare, settled, heard, asked>>
    BY DEF CancelRide, CancelDone, HandleMaxRadiusReached, NoDriversDone, bookVars, rideVars
<1>7. refundPending' \subseteq Payments
    BY DEF CancelRide, CancelDone, HandleMaxRadiusReached, NoDriversDone, Typed, TypeOK
<1>8. /\ Slip(p, "unseen") \/ UNCHANGED slips
      /\ Fault \/ Spend("cancels") \/ UNCHANGED budget
    BY DEF CancelRide, CancelDone, HandleMaxRadiusReached, NoDriversDone, bookVars
<1>9. slips' \in [Payments -> SUBSET {"entry", "unseen", "forgot"}]
    BY <1>8, SlipTyped DEF Typed, TypeOK
<1>a. budget' \in [confirmations : Nat, cancels : Nat, settlements : Nat, faults : Nat]
    BY <1>8, SpendTyped DEF Fault, Typed, TypeOK
<1>b. payment' \in [Payments -> [Docs -> Records]] /\ RestOfState'
    BY <1>5, <1>6, <1>7, <1>9, <1>a, Parts DEF Typed, TypeOK, RestOfState, docVars
<1>. QED
    BY <1>3, <1>b, TypedKept

LEMMA RecordTyped ==
    ASSUME Typed, NEW p \in Payments,
           \/ \E s \in {"retry", "manual", "resolved"} : Record(p, s) \/ SettleAs(p, s)
           \/ UNCHANGED payment
    PROVE  payment' \in [Payments -> [Docs -> Records]]
<1>1. CASE UNCHANGED payment
    BY <1>1, Parts DEF Typed
<1>2. ASSUME NEW s \in {"retry", "manual", "resolved"}, Record(p, s)
      PROVE  payment' \in [Payments -> [Docs -> Records]]
  <2>1. payment[p]["ride"] \in Records
    BY Parts, KindsAre DEF Typed
  <2>2. [payment[p]["ride"] EXCEPT !.pending = s] \in Records
    BY <2>1, RecordUpdates, KindsAre DEF Marks
  <2>. QED
    BY <1>2, <2>2, WriteOne, KindsAre, Parts DEF Typed, Record
<1>. QED
    BY <1>1, <1>2 DEF SettleAs

LEMMA DistributeTyped ==
    ASSUME Typed, NEW p \in Payments, Distribute(p) \/ UNCHANGED holding
    PROVE  holding' \in [Payments -> [Docs -> {"none", "in_holding", "distributed",
                                               "refunded"}]]
<1>1. holding \in [Payments -> [Docs -> {"none", "in_holding", "distributed",
                                         "refunded"}]]
    BY DEF Typed, TypeOK
<1>2. Moved(holding[p]["ride"], "distributed")
        \in {"none", "in_holding", "distributed", "refunded"}
    BY <1>1, KindsAre DEF Moved
<1>3. CASE Distribute(p)
    BY <1>1, <1>2, <1>3, HoldOne, KindsAre DEF Distribute
<1>. QED
    BY <1>1, <1>3

LEMMA BeginTyped ==
    ASSUME Typed, NEW p \in Payments, NEW k \in Settlers, NEW s \in Stages,
           NEW out \in Outcomes \cup {None}, Begin(p, k, s, out)
    PROVE  call' \in [Payments -> [Kinds -> CallRecords]] /\ OwnRequests'
<1>1. /\ call \in [Payments -> [Kinds -> CallRecords]] /\ k \in Kinds
      /\ payment \in [Payments -> [Docs -> Records]]
    BY Parts, KindsAre DEF Typed
<1>. HIDE DEF Stages
<1>2. /\ call' \in [Payments -> [Kinds -> CallRecords]]
      /\ call'[p][k].req = "settle"
      /\ \A j \in Kinds : j # k => call'[p][j] = call[p][j]
      /\ \A q \in Payments : q # p => call'[q] = call[q]
    BY <1>1, BeginOne
<1>3. "settle" \in RequestsOf(k)
    BY NamesAssumption DEF RequestsOf
<1>. QED
    BY <1>1, <1>2, <1>3 DEF Typed, OwnRequests

LEMMA SettleStepTyped ==
    ASSUME Typed, NEW p \in Payments, NEW k \in Settlers,
           NetDistribution(p, k) \/ NetDistributionDone(p, k)
    PROVE  Typed'
<1>1. \/ Begin(p, k, "claim", None)
      \/ Begin(p, k, "end", "maybe")
      \/ Rest(p, k)
      \/ UNCHANGED call
    BY DEF NetDistribution, NetDistributionDone, SettleUnseen, SettlePlain, SettleDebt
<1>2. call' \in [Payments -> [Kinds -> CallRecords]] /\ OwnRequests'
    BY <1>1, BeginTyped, RestTyped, CallUnchanged, StageNames, KindsAre
<1>4. \/ \E s \in {"retry", "manual", "resolved"} : Record(p, s) \/ SettleAs(p, s)
      \/ UNCHANGED payment
    BY DEF NetDistribution, NetDistributionDone, SettleUnseen, SettlePlain, SettleDebt,
       Refunded, NotRefunded, Classify, docVars
<1>5. payment' \in [Payments -> [Docs -> Records]]
    BY <1>4, RecordTyped
<1>6. Distribute(p) \/ UNCHANGED holding
    BY DEF NetDistribution, NetDistributionDone, SettleUnseen, SettlePlain, SettleDebt,
       docVars
<1>7. holding' \in [Payments -> [Docs -> {"none", "in_holding", "distributed",
                                          "refunded"}]]
    BY <1>6, DistributeTyped
<1>8. settled' = settled \/ settled' = settled \cup {p}
    BY DEF NetDistribution, NetDistributionDone, SettleUnseen, SettlePlain, SettleDebt,
       Refunded, NotRefunded, SettleAs
<1>9. /\ Slip(p, "unseen") \/ UNCHANGED slips
      /\ Fault \/ Spend("settlements") \/ UNCHANGED budget
    BY DEF NetDistribution, NetDistributionDone, SettleUnseen, SettlePlain, SettleDebt,
       Refunded, NotRefunded, bookVars
<1>a. slips' \in [Payments -> SUBSET {"entry", "unseen", "forgot"}]
    BY <1>9, SlipTyped DEF Typed, TypeOK
<1>b. budget' \in [confirmations : Nat, cancels : Nat, settlements : Nat, faults : Nat]
    BY <1>9, SpendTyped DEF Fault, Typed, TypeOK
<1>c. UNCHANGED <<due, copy, rideVars, heard, asked>>
    BY DEF NetDistribution, NetDistributionDone, bookVars
<1>d. RestOfState'
    BY <1>7, <1>8, <1>a, <1>b, <1>c DEF Typed, TypeOK, RestOfState, rideVars
<1>. QED
    BY <1>2, <1>5, <1>d, TypedKept

LEMMA CrashTyped ==
    ASSUME Typed, NEW p \in Payments, NEW k \in Kinds, Crash(p, k)
    PROVE  Typed'
<1>1. call' \in [Payments -> [Kinds -> CallRecords]] /\ OwnRequests'
    BY RestTyped DEF Crash
<1>2. Slips(k) \subseteq {"entry"}
    BY DEF Slips
<1>3. slips' \in [Payments -> SUBSET {"entry", "unseen", "forgot"}]
    BY <1>2 DEF Crash, Typed, TypeOK
<1>4. budget' \in [confirmations : Nat, cancels : Nat, settlements : Nat, faults : Nat]
    BY SpendTyped DEF Crash, Fault, Typed
<1>5. payment' \in [Payments -> [Docs -> Records]] /\ RestOfState'
    BY <1>3, <1>4, Parts DEF Crash, Typed, TypeOK, RestOfState, docVars, rideVars
<1>. QED
    BY <1>1, <1>5, TypedKept


LEMMA TypedNext == Typed /\ [Next]_vars => Typed'
<1>. SUFFICES ASSUME Typed, [Next]_vars PROVE Typed'
    OBVIOUS
<1>1. CASE UNCHANGED vars
    BY <1>1, CallUnchanged, TypedKept, Parts
    DEF vars, docVars, rideVars, bookVars, Typed, TypeOK, RestOfState
<1>2. CASE Next
  <2>. PICK p \in Payments :
        \/ Confirm(p) \/ WriteCopy(p)
        \/ CheckPayment(p) \/ Book(p) \/ ReadForCopy(p) \/ LoseCopy(p) \/ Accept(p)
        \/ \E f \in {"exact", "less"} : Complete(p, f)
        \/ TakeEntry(p) \/ CheckOne(p) \/ DrainDone(p)
        \/ \E k \in Cancelers, r \in Reasons : CancelRide(p, k, r)
        \/ \E k \in Cancelers : CancelDone(p, k)
        \/ HandleMaxRadiusReached(p) \/ NoDriversDone(p)
        \/ \E k \in Settlers : NetDistribution(p, k) \/ NetDistributionDone(p, k)
        \/ \E k \in Kinds : \/ ClaimRideRefund(p, k) \/ ProcessRefund(p, k)
                            \/ MarkPaymentRefunded(p, k) \/ ClearRideRefundClaim(p, k)
                            \/ Crash(p, k)
      BY <1>2, Zenon DEF Next
  <2>. QED
      BY ConfirmTyped, WriteCopyTyped, RideStepTyped, DrainStepTyped, CancelStepTyped,
         SettleStepTyped, ClaimTyped, SendTyped, MarkTyped, ClearTyped, CrashTyped, KindsAre
<1>. QED
    BY <1>1, <1>2

\* The state of the refunds is of its type in every behaviour, whatever fails.
THEOREM TypeCorrect == Spec => []TypeOK
<1>1. Typed => TypeOK
    BY DEF Typed
<1>. QED
    BY <1>1, TypedInit, TypedNext, PTL DEF Spec

(***************************************************************************)
(* The inductive invariant, payment by payment.                             *)
(***************************************************************************)
\* A request for a document that the provider has confirmed, or that is with
\* the provider or not yet back from it.
InFlight(p, d, r) ==
    \/ r \in heard[p] /\ RequestDoc(r) = d
    \/ \E k \in Kinds : /\ DocOf(k) = d
                        /\ call[p][k].at \in {"send", "mark", "clear"}
                        /\ call[p][k].req = r

\* As long as no claim was forgotten, what is in flight holds the claim.
Held(p) ==
    "forgot" \notin slips[p] =>
        \A d \in Docs, r \in Requests :
            InFlight(p, d, r) => payment[p][d].refunded \/ payment[p][d].claim = r

Alike(p) ==
    "forgot" \notin slips[p] =>
        \A d \in Docs, r1, r2 \in Requests :
            InFlight(p, d, r1) /\ InFlight(p, d, r2) => r1 = r2

\* The copy is written once, over nothing, and it is the copy of a payment.
Copied(p) ==
    /\ ride[p] # "none" => payment[p]["temp"].exists
    /\ copy[p].at = "read" => copy[p].rec.exists
    /\ copy[p].at \in {"pending", "read"} => ~payment[p]["ride"].exists

\* Nobody works on the payment of a ride before it is there.
Untouched(p) ==
    ~payment[p]["ride"].exists =>
        /\ ~payment[p]["ride"].refunded
        /\ p \notin asked
        /\ \A k \in Kinds : k # "orphan" => call[p][k].at = "idle"
        /\ \A r \in heard[p] : RequestDoc(r) = "temp"

Done(p) ==
    \A k \in Kinds :
        /\ call[p][k].at = "clear" => call[p][k].out # "ok"
        /\ call[p][k].at = "end" /\ call[p][k].out = "ok" => payment[p][DocOf(k)].refunded

\* Once a refund of the ride was claimed its payment shows it for good.
Touched(p) ==
    (\/ p \in asked
     \/ \E k \in Kinds : k # "orphan" /\ call[p][k].at \in {"send", "mark", "clear"})
    => \/ payment[p]["ride"].refunded
       \/ payment[p]["ride"].claim # None
       \/ payment[p]["ride"].failed

\* So a settlement that reads the payment after another one may have asked
\* goes on only by the mark of a failure that was not sent.
Late(p) ==
    \A k \in Settlers :
        call[p][k].at \in {"claim", "send"} /\ call[p][k].late
            => call[p][k].seen = "retry"

\* What is counted as done has its debt refunded or on record.
Debt(p) ==
    p \in settled =>
        \/ "unseen" \in slips[p]
        \/ /\ payment[p]["ride"].exists
           /\ \/ payment[p]["ride"].refunded
              \/ payment[p]["ride"].pending \in {"retry", "manual"}
              \/ ride[p] = "completed" /\ fare[p] # "less"

Paid(p) ==
    ride[p] = "canceled" =>
        \/ payment[p]["ride"].refunded
        \/ p \in refundPending
        \/ "unseen" \in slips[p]

Good(p) ==
    /\ Held(p) /\ Alike(p) /\ Copied(p) /\ Untouched(p) /\ Done(p)
    /\ Touched(p) /\ Late(p) /\ Debt(p) /\ Paid(p)

IInv == Typed /\ \A p \in Payments : Good(p)

LEMMA GoodInit == Init => \A p \in Payments : Good(p)
<1>. SUFFICES ASSUME Init, NEW p \in Payments PROVE Good(p)
    OBVIOUS
<1>1. /\ heard[p] = {} /\ p \notin asked /\ p \notin settled /\ ride[p] = "none"
      /\ \A d \in Docs : payment[p][d] = NoRecord
      /\ \A k \in Kinds : call[p][k] = Idle
      /\ copy[p] = [at |-> "pending", rec |-> NoRecord]
    BY DEF Init
<1>2. \A k \in Kinds : call[p][k].at = "idle"
    BY <1>1 DEF Idle
<1>3. \A d \in Docs : ~payment[p][d].refunded /\ ~payment[p][d].exists
    BY <1>1 DEF NoRecord
<1>4. copy[p].at = "pending"
    BY <1>1
<1>5. Held(p) /\ Alike(p)
    BY <1>1, <1>2 DEF Held, Alike, InFlight
<1>6. Copied(p) /\ Untouched(p) /\ Done(p) /\ Touched(p) /\ Late(p) /\ Debt(p) /\ Paid(p)
    BY <1>1, <1>2, <1>3, <1>4, KindsAre
    DEF Copied, Untouched, Done, Touched, Late, Debt, Paid
<1>. QED
    BY <1>5, <1>6 DEF Good

\* A payment no step touches.
Same(q) ==
    /\ payment'[q] = payment[q] /\ copy'[q] = copy[q] /\ ride'[q] = ride[q]
    /\ call'[q] = call[q] /\ heard'[q] = heard[q] /\ (q \in asked' <=> q \in asked) /\ fare'[q] = fare[q]
    /\ slips'[q] = slips[q]
    /\ q \in settled' <=> q \in settled
    /\ q \in refundPending' <=> q \in refundPending

LEMMA SameKeeps ==
    ASSUME NEW q \in Payments, Good(q), Same(q)
    PROVE  Good(q)'
<1>1. Held(q)' /\ Alike(q)'
    BY DEF Good, Same, Held, Alike, InFlight
<1>2. Copied(q)' /\ Untouched(q)' /\ Done(q)'
    BY DEF Good, Same, Copied, Untouched, Done
<1>3. Touched(q)' /\ Late(q)' /\ Debt(q)' /\ Paid(q)'
    BY DEF Good, Same, Touched, Late, Debt, Paid
<1>. QED
    BY <1>1, <1>2, <1>3 DEF Good


\* A step of one payment touches no other.
LEMMA Elsewhere ==
    ASSUME Typed, NEW p \in Payments, NEW q \in Payments, q # p,
           NEW k \in Kinds,
           \/ Confirm(p) \/ WriteCopy(p)
           \/ CheckPayment(p) \/ Book(p) \/ ReadForCopy(p) \/ LoseCopy(p) \/ Accept(p)
           \/ \E f \in {"exact", "less"} : Complete(p, f)
           \/ TakeEntry(p) \/ CheckOne(p) \/ DrainDone(p)
           \/ \E r \in Reasons : CancelRide(p, k, r)
           \/ CancelDone(p, k)
           \/ HandleMaxRadiusReached(p) \/ NoDriversDone(p)
           \/ NetDistribution(p, k) \/ NetDistributionDone(p, k)
           \/ ClaimRideRefund(p, k) \/ ProcessRefund(p, k)
           \/ MarkPaymentRefunded(p, k) \/ ClearRideRefundClaim(p, k)
           \/ Crash(p, k)
    PROVE  Same(q)
<1>1. (\E d, rec : Write(p, d, rec)) \/ UNCHANGED payment
  <2>1. CASE \/ Confirm(p) \/ WriteCopy(p)
             \/ CheckPayment(p) \/ Book(p) \/ ReadForCopy(p) \/ LoseCopy(p) \/ Accept(p)
             \/ \E f \in {"exact", "less"} : Complete(p, f)
             \/ TakeEntry(p) \/ CheckOne(p) \/ DrainDone(p)
    BY <2>1 DEF Confirm, WriteCopy, CheckPayment, Book, ReadForCopy, LoseCopy,
       Accept, Complete, TakeEntry, CheckOne, DrainDone, docVars
  <2>2. CASE \/ \E r \in Reasons : CancelRide(p, k, r)
             \/ CancelDone(p, k) \/ HandleMaxRadiusReached(p) \/ NoDriversDone(p)
             \/ ProcessRefund(p, k) \/ Crash(p, k)
    BY <2>2 DEF CancelRide, CancelDone, HandleMaxRadiusReached, NoDriversDone,
       ProcessRefund, Crash, docVars
  <2>3. CASE NetDistribution(p, k) \/ NetDistributionDone(p, k)
    BY <2>3 DEF NetDistribution, NetDistributionDone, SettleUnseen, SettlePlain,
       SettleDebt, Refunded, NotRefunded, SettleAs, Record, docVars
  <2>4. CASE \/ ClaimRideRefund(p, k) \/ MarkPaymentRefunded(p, k)
             \/ ClearRideRefundClaim(p, k)
    BY <2>4 DEF ClaimRideRefund, MarkPaymentRefunded, ClearRideRefundClaim, docVars
  <2>. QED
    BY <2>1, <2>2, <2>3, <2>4
<1>2. \/ \E j, s, r, out : Go(p, j, s, r, out)
      \/ \E j : Rest(p, j)
      \/ \E j, s, out : Begin(p, j, s, out)
      \/ UNCHANGED call
  <2>1. CASE \/ Confirm(p) \/ WriteCopy(p)
             \/ CheckPayment(p) \/ Book(p) \/ ReadForCopy(p) \/ LoseCopy(p) \/ Accept(p)
             \/ \E f \in {"exact", "less"} : Complete(p, f)
    BY <2>1 DEF Confirm, WriteCopy, CheckPayment, Book, ReadForCopy, LoseCopy,
       Accept, Complete
  <2>2. CASE TakeEntry(p) \/ CheckOne(p) \/ DrainDone(p) \/ Crash(p, k) \/ CancelDone(p, k)
    BY <2>2 DEF TakeEntry, CheckOne, DrainDone, Crash, CancelDone
  <2>3. CASE \/ \E r \in Reasons : CancelRide(p, k, r)
             \/ HandleMaxRadiusReached(p) \/ NoDriversDone(p)
    BY <2>3 DEF CancelRide, HandleMaxRadiusReached, NoDriversDone
  <2>4. CASE NetDistribution(p, k) \/ NetDistributionDone(p, k)
    BY <2>4 DEF NetDistribution, NetDistributionDone, SettleUnseen, SettlePlain, SettleDebt
  <2>5. CASE \/ ClaimRideRefund(p, k) \/ MarkPaymentRefunded(p, k)
             \/ ClearRideRefundClaim(p, k) \/ ProcessRefund(p, k)
    BY <2>5 DEF ClaimRideRefund, MarkPaymentRefunded, ClearRideRefundClaim, ProcessRefund
  <2>. QED
    BY <2>1, <2>2, <2>3, <2>4, <2>5
<1>3. payment'[q] = payment[q] /\ call'[q] = call[q]
    BY <1>1, <1>2 DEF Typed, TypeOK, Write, Go, Rest, Begin
<1>4. heard'[q] = heard[q] /\ (q \in asked' <=> q \in asked)
  <2>1. CASE ProcessRefund(p, k)
    BY <2>1 DEF ProcessRefund, Typed, TypeOK
  <2>. QED
    BY <2>1 DEF Confirm, WriteCopy, CheckPayment, Book, ReadForCopy, LoseCopy,
       Accept, Complete, TakeEntry, CheckOne, DrainDone, CancelRide, CancelDone,
       HandleMaxRadiusReached, NoDriversDone, NetDistribution, NetDistributionDone,
       ClaimRideRefund, MarkPaymentRefunded, ClearRideRefundClaim, Crash, bookVars
<1>5. copy'[q] = copy[q]
    BY DEF Confirm, WriteCopy, CheckPayment, Book, ReadForCopy, LoseCopy,
       Accept, Complete, TakeEntry, CheckOne, DrainDone, CancelRide, CancelDone,
       HandleMaxRadiusReached, NoDriversDone, NetDistribution, NetDistributionDone,
       ClaimRideRefund, ProcessRefund, MarkPaymentRefunded, ClearRideRefundClaim, Crash,
       Typed, TypeOK
<1>6. ride'[q] = ride[q] /\ fare'[q] = fare[q]
    BY DEF Confirm, WriteCopy, CheckPayment, Book, ReadForCopy, LoseCopy,
       Accept, Complete, TakeEntry, CheckOne, DrainDone, CancelRide, CancelDone,
       HandleMaxRadiusReached, NoDriversDone, NetDistribution, NetDistributionDone,
       ClaimRideRefund, ProcessRefund, MarkPaymentRefunded, ClearRideRefundClaim, Crash,
       Typed, TypeOK, EndOpen, rideVars
<1>7. slips'[q] = slips[q]
    BY DEF Confirm, WriteCopy, CheckPayment, Book, ReadForCopy, LoseCopy,
       Accept, Complete, TakeEntry, CheckOne, DrainDone, CancelRide, CancelDone,
       HandleMaxRadiusReached, NoDriversDone, NetDistribution, NetDistributionDone,
       SettleUnseen, SettlePlain, SettleDebt, Refunded, NotRefunded,
       ClaimRideRefund, ProcessRefund, MarkPaymentRefunded, ClearRideRefundClaim, Crash,
       Typed, TypeOK, Slip, bookVars
<1>8. (q \in settled' <=> q \in settled) /\ (q \in refundPending' <=> q \in refundPending)
    BY DEF Confirm, WriteCopy, CheckPayment, Book, ReadForCopy, LoseCopy,
       Accept, Complete, TakeEntry, CheckOne, DrainDone, CancelRide, CancelDone,
       HandleMaxRadiusReached, NoDriversDone, NetDistribution, NetDistributionDone,
       SettleUnseen, SettlePlain, SettleDebt, Refunded, NotRefunded, SettleAs,
       ClaimRideRefund, ProcessRefund, MarkPaymentRefunded, ClearRideRefundClaim, Crash,
       rideVars
<1>. QED
    BY <1>3, <1>4, <1>5, <1>6, <1>7, <1>8 DEF Same


(***************************************************************************)
(* What most steps leave alone.                                             *)
(***************************************************************************)
Kept(p) ==
    /\ \A d \in Docs : /\ payment'[p][d].refunded = payment[p][d].refunded
                       /\ payment'[p][d].claim = payment[p][d].claim
                       /\ payment'[p][d].failed = payment[p][d].failed
    /\ payment'[p]["ride"].exists = payment[p]["ride"].exists
    /\ payment[p]["temp"].exists => payment'[p]["temp"].exists

\* No claim moves and no call gets to the provider.
Quiet(p) ==
    /\ Kept(p) /\ heard'[p] = heard[p] /\ (p \in asked' <=> p \in asked)
    /\ "forgot" \in slips[p] => "forgot" \in slips'[p]
    /\ \A j \in Kinds :
         \/ call'[p][j] = call[p][j]
         \/ call'[p][j].at = "idle"
         \/ j = "orphan" /\ call'[p][j].at = "check"
         \/ call'[p][j].at = "claim" /\ (j = "orphan" \/ payment[p]["ride"].exists)
         \/ /\ call'[p][j].at = "end" /\ call[p][j].at # "idle"
            /\ call'[p][j].out = "ok" => payment[p][DocOf(j)].refunded

LEMMA QuietKeeps ==
    ASSUME NEW p \in Payments, Good(p), Quiet(p)
    PROVE  Held(p)' /\ Alike(p)' /\ Untouched(p)' /\ Done(p)' /\ Touched(p)'
<1>1. \A d, r : InFlight(p, d, r)' => InFlight(p, d, r)
    BY DEF Quiet, InFlight
<1>2. Held(p)' /\ Alike(p)'
    BY <1>1 DEF Quiet, Kept, Good, Held, Alike
<1>3. Untouched(p)'
    BY KindsAre DEF Quiet, Kept, Good, Untouched
<1>4. Done(p)'
    BY KindsAre DEF Quiet, Kept, Good, Done
<1>5. Touched(p)'
    BY KindsAre DEF Quiet, Kept, Good, Touched
<1>. QED
    BY <1>2, <1>3, <1>4, <1>5

LEMMA LateKept ==
    ASSUME NEW p \in Payments, Good(p),
           \A k \in Settlers :
              \/ call'[p][k].at \notin {"claim", "send"}
              \/ /\ call[p][k].at \in {"claim", "send"}
                 /\ call'[p][k].seen = call[p][k].seen
                 /\ call'[p][k].late = call[p][k].late
    PROVE  Late(p)'
BY DEF Good, Late

LEMMA DebtKept ==
    ASSUME NEW p \in Payments, Good(p),
           p \in settled' => p \in settled,
           ride[p] = "completed" => ride'[p] = "completed" /\ fare'[p] = fare[p],
           "unseen" \in slips[p] => "unseen" \in slips'[p],
           payment'[p]["ride"].exists = payment[p]["ride"].exists,
           payment[p]["ride"].refunded => payment'[p]["ride"].refunded,
           payment'[p]["ride"].pending = payment[p]["ride"].pending
    PROVE  Debt(p)'
BY DEF Good, Debt

LEMMA PaidKept ==
    ASSUME NEW p \in Payments, Good(p),
           payment[p]["ride"].refunded => payment'[p]["ride"].refunded,
           p \in refundPending => p \in refundPending',
           "unseen" \in slips[p] => "unseen" \in slips'[p],
           ride'[p] = "canceled" => \/ ride[p] = "canceled"
                                    \/ payment'[p]["ride"].refunded
                                    \/ p \in refundPending'
                                    \/ "unseen" \in slips'[p]
    PROVE  Paid(p)'
BY DEF Good, Paid

LEMMA CopiedKept ==
    ASSUME NEW p \in Payments, Good(p), UNCHANGED copy,
           payment'[p]["ride"].exists = payment[p]["ride"].exists,
           payment[p]["temp"].exists => payment'[p]["temp"].exists,
           ride'[p] # "none" => ride[p] # "none" \/ payment'[p]["temp"].exists
    PROVE  Copied(p)'
BY DEF Good, Copied

(***************************************************************************)
(* Each step keeps the invariant of its payment.                            *)
(***************************************************************************)
LEMMA RideStepGood ==
    ASSUME Typed, NEW p \in Payments, Good(p),
           \/ CheckPayment(p) \/ Book(p) \/ ReadForCopy(p) \/ LoseCopy(p) \/ Accept(p)
           \/ \E f \in {"exact", "less"} : Complete(p, f)
    PROVE  Good(p)'
<1>1. UNCHANGED <<payment, call, heard, asked, slips, settled, refundPending>>
    BY DEF CheckPayment, Book, ReadForCopy, LoseCopy, Accept, Complete, docVars, rideVars,
       bookVars
<1>2. Quiet(p)
    BY <1>1 DEF Quiet, Kept
<1>3. Held(p)' /\ Alike(p)' /\ Untouched(p)' /\ Done(p)' /\ Touched(p)'
    BY <1>2, QuietKeeps
<1>5. /\ ride'[p] # "canceled" \/ ride'[p] = ride[p]
      /\ ride[p] = "completed" => ride'[p] = "completed" /\ fare'[p] = fare[p]
    BY DEF CheckPayment, Book, ReadForCopy, LoseCopy, Accept, Complete, Typed, TypeOK, rideVars
<1>4. Late(p)' /\ Debt(p)'
    BY <1>1, <1>5, LateKept, DebtKept
<1>6. Paid(p)'
    BY <1>1, <1>5, PaidKept
<1>7. Copied(p)'
  <2>1. CASE ReadForCopy(p)
    <3>1. /\ copy'[p] = [at |-> "read", rec |-> payment[p]["temp"]]
          /\ copy[p].at = "pending" /\ ride[p] # "none" /\ ride' = ride
      BY <2>1 DEF ReadForCopy, Typed, TypeOK, rideVars
    <3>. QED
      BY <1>1, <3>1 DEF Good, Copied
  <2>2. CASE LoseCopy(p)
    <3>1. copy'[p] = [at |-> "lost", rec |-> NoRecord] /\ ride' = ride
      BY <2>2 DEF LoseCopy, Typed, TypeOK, rideVars
    <3>. QED
      BY <1>1, <3>1 DEF Good, Copied
  <2>3. CASE CheckPayment(p) \/ Book(p) \/ Accept(p)
             \/ \E f \in {"exact", "less"} : Complete(p, f)
    <3>1. UNCHANGED copy /\ (ride[p] # "none" \/ payment[p]["temp"].exists)
      BY <2>3 DEF CheckPayment, Book, Accept, Complete
    <3>. QED
      BY <1>1, <3>1, CopiedKept
  <2>. QED
    BY <2>1, <2>2, <2>3
<1>. QED
    BY <1>3, <1>4, <1>6, <1>7 DEF Good

LEMMA ConfirmGood ==
    ASSUME Typed, NEW p \in Payments, Good(p), Confirm(p)
    PROVE  Good(p)'
<1>. DEFINE rec == [payment[p]["temp"] EXCEPT !.exists = TRUE]
<1>0. payment[p]["temp"] \in Records
    BY Parts, KindsAre DEF Typed
<1>1. rec \in Records /\ rec.exists /\ rec.refunded = payment[p]["temp"].refunded
      /\ rec.claim = payment[p]["temp"].claim /\ rec.failed = payment[p]["temp"].failed
    BY <1>0 DEF Records
<1>2. Write(p, "temp", rec)
    BY DEF Confirm
<1>. HIDE DEF rec
<1>3. payment'[p]["temp"] = rec /\ payment'[p]["ride"] = payment[p]["ride"]
    BY <1>1, <1>2, WriteOne, KindsAre, Parts DEF Typed, Docs
<1>4. UNCHANGED <<copy, ride, fare, refundPending, settled, call, heard, asked>>
    BY DEF Confirm, rideVars
<1>5. \A x \in slips[p] : x \in slips'[p]
    BY DEF Confirm, Slip, Typed, TypeOK
<1>6. Quiet(p)
    BY <1>1, <1>3, <1>4, <1>5 DEF Quiet, Kept, Docs
<1>. QED
    BY <1>1, <1>3, <1>4, <1>5, <1>6, QuietKeeps, LateKept, DebtKept, PaidKept, CopiedKept DEF Good

LEMMA WriteCopyGood ==
    ASSUME Typed, NEW p \in Payments, Good(p), WriteCopy(p)
    PROVE  Good(p)'
<1>1. copy[p].rec \in Records /\ copy[p].rec.exists /\ ~payment[p]["ride"].exists
      /\ copy[p].at = "read"
    BY Parts DEF WriteCopy, Typed, Good, Copied
<1>2. Write(p, "ride", copy[p].rec)
    BY DEF WriteCopy
<1>3. payment'[p]["ride"] = copy[p].rec /\ payment'[p]["temp"] = payment[p]["temp"]
    BY <1>1, <1>2, WriteOne, KindsAre, Parts DEF Typed, Docs
<1>4. copy'[p] = [at |-> "done", rec |-> NoRecord]
    BY DEF WriteCopy, Typed, TypeOK
<1>5. UNCHANGED <<ride, fare, refundPending, settled, call, heard, asked, slips>>
    BY DEF WriteCopy, rideVars, bookVars
<1>6. /\ ~payment[p]["ride"].refunded /\ p \notin asked
      /\ \A k \in Kinds : k # "orphan" => call[p][k].at = "idle"
      /\ \A r \in heard[p] : RequestDoc(r) = "temp"
    BY <1>1 DEF Good, Untouched
<1>7. \A r : ~InFlight(p, "ride", r) /\ ~InFlight(p, "ride", r)'
    BY <1>5, <1>6 DEF InFlight, DocOf
<1>8. \A r : InFlight(p, "temp", r)' <=> InFlight(p, "temp", r)
    BY <1>5 DEF InFlight
<1>9. Held(p)' /\ Alike(p)'
    BY <1>3, <1>5, <1>7, <1>8 DEF Good, Held, Alike, Docs
<1>a. Copied(p)' /\ Untouched(p)'
    BY <1>1, <1>3, <1>4, <1>5 DEF Good, Copied, Untouched
<1>b. Done(p)' /\ Touched(p)'
    BY <1>3, <1>5, <1>6 DEF Good, Done, Touched, DocOf
<1>c. Late(p)' /\ Debt(p)' /\ Paid(p)'
    BY <1>1, <1>3, <1>5, <1>6, LateKept DEF Good, Debt, Paid
<1>. QED
    BY <1>9, <1>a, <1>b, <1>c DEF Good


\* Where a call goes.
LEMMA GoesTo ==
    ASSUME Typed, NEW p \in Payments, NEW k \in Kinds, NEW s \in Stages,
           NEW r \in Requests, NEW out \in Outcomes \cup {None},
           Go(p, k, s, r, out)
    PROVE  /\ Arrives(p, k, s, r, out)
           /\ \A j \in Kinds : j # k => call'[p][j] = call[p][j]
<1>1. call \in [Payments -> [Kinds -> CallRecords]]
    BY Parts DEF Typed
<1>. QED
    BY <1>1, GoOne

LEMMA GoesToClaim ==
    ASSUME Typed, NEW p \in Payments, NEW k \in Kinds, NEW r \in Requests,
           Go(p, k, "claim", r, None)
    PROVE  /\ call'[p][k].at = "claim"
           /\ \A j \in Kinds : j # k => call'[p][j] = call[p][j]
<1>1. "claim" \in Stages /\ None \in Outcomes \cup {None}
    BY StageNames
<1>2. /\ Arrives(p, k, "claim", r, None)
      /\ \A j \in Kinds : j # k => call'[p][j] = call[p][j]
    BY <1>1, GoesTo
<1>. QED
    BY <1>2 DEF Arrives

\* A request belongs to one document, that of its caller.
LEMMA RequestDocOf ==
    ASSUME NEW k \in Kinds, NEW r \in RequestsOf(k)
    PROVE  RequestDoc(r) = DocOf(k) /\ r # None /\ (k # "orphan" => DocOf(k) = "ride")
BY NamesAssumption DEF Kinds, RequestsOf, RequestDoc, DocOf

\* Who works on the payment of a ride, works on one that is there.
LEMMA BusyExists ==
    ASSUME NEW p \in Payments, Good(p), NEW k \in Kinds, k # "orphan",
           call[p][k].at # "idle"
    PROVE  payment[p]["ride"].exists
BY DEF Good, Untouched

LEMMA ClaimGood ==
    ASSUME Typed, NEW p \in Payments, Good(p), NEW k \in Kinds, ClaimRideRefund(p, k)
    PROVE  Good(p)'
<1>. DEFINE d == DocOf(k)
            rec == payment[p][d]
            r == call[p][k].req
            claimed == [rec EXCEPT !.claim = r, !.failed = FALSE]
<1>1. d \in Docs /\ rec \in Records /\ r \in RequestsOf(k) /\ r \in Requests
    BY KindsAre, Parts, BusyOwn DEF Typed, ClaimRideRefund
<1>2. RequestDoc(r) = d /\ r # None /\ (k # "orphan" => d = "ride")
    BY <1>1, RequestDocOf
<1>3. \/ Go(p, k, "end", r, "ok") /\ UNCHANGED payment /\ rec.refunded
      \/ Go(p, k, "end", r, "not_sent") /\ UNCHANGED payment
      \/ /\ Go(p, k, "send", r, None) /\ Write(p, d, claimed)
         /\ ~rec.refunded /\ rec.claim \in {None, r}
    BY DEF ClaimRideRefund, MayClaim
<1>4. call[p][k].at = "claim"
      /\ UNCHANGED <<copy, ride, fare, refundPending, settled, heard, asked, slips>>
    BY DEF ClaimRideRefund, At, rideVars, bookVars
<1>. HIDE DEF d, rec, r, claimed
<1>5. "claim" # "idle" /\ (k # "orphan" => payment[p]["ride"].exists)
    BY <1>4, BusyExists
<1>7. CASE /\ payment' = payment
           /\ \/ Go(p, k, "end", r, "ok") /\ rec.refunded
              \/ Go(p, k, "end", r, "not_sent")
  <2>0. payment' = payment
    BY <1>7
  <2>a. /\ \/ Arrives(p, k, "end", r, "ok") /\ rec.refunded
           \/ Arrives(p, k, "end", r, "not_sent")
        /\ \A j \in Kinds : j # k => call'[p][j] = call[p][j]
    BY <1>1, <1>7, GoesTo, StageNames
  <2>1. /\ call'[p][k].at = "end"
        /\ call'[p][k].out = "ok" => rec.refunded
    BY <2>a DEF Arrives
  <2>2. Quiet(p)
    BY <1>4, <2>0, <2>a, <2>1 DEF Quiet, Kept, d, rec
  <2>3. Held(p)' /\ Alike(p)' /\ Untouched(p)' /\ Done(p)' /\ Touched(p)'
    BY <2>2, QuietKeeps
  <2>4. Late(p)' /\ Debt(p)'
    BY <1>4, <2>0, <2>a, <2>1, KindsAre, LateKept, DebtKept
  <2>. QED
    BY <1>4, <2>0, <2>3, <2>4, PaidKept, CopiedKept DEF Good
<1>8. CASE /\ Go(p, k, "send", r, None) /\ Write(p, d, claimed)
           /\ ~rec.refunded /\ rec.claim \in {None, r}
  <2>1. /\ claimed \in Records /\ claimed.claim = r /\ claimed.exists = rec.exists
        /\ claimed.refunded = rec.refunded /\ claimed.pending = rec.pending
    BY <1>1 DEF claimed, Records
  <2>2. /\ payment'[p][d] = claimed
        /\ \A e \in Docs : e # d => payment'[p][e] = payment[p][e]
    BY <1>1, <1>8, <2>1, WriteOne, Parts DEF Typed
  <2>3. Arrives(p, k, "send", r, None)
        /\ \A j \in Kinds : j # k => call'[p][j] = call[p][j]
    BY <1>1, <1>8, GoesTo, StageNames
  <2>4. \A e \in Docs : \A x : InFlight(p, e, x)' => InFlight(p, e, x) \/ (e = d /\ x = r)
    BY <1>4, <2>3 DEF InFlight, Arrives, d
  <2>5. "forgot" \notin slips[p] => \A x \in Requests : InFlight(p, d, x) => x = r
    <3>1. \A x \in Requests : x # None
      BY NamesAssumption DEF Requests
    <3>. QED
      BY <1>1, <1>8, <3>1 DEF Good, Held, rec
  <2>6. Held(p)' /\ Alike(p)'
    BY <1>1, <1>4, <2>1, <2>2, <2>4, <2>5 DEF Good, Held, Alike
  <2>7. Untouched(p)' /\ Done(p)'
    BY <1>1, <1>2, <1>4, <1>5, <2>1, <2>2, <2>3, KindsAre DEF Good, Untouched, Done, Arrives, rec
  <2>8. Touched(p)'
    BY <1>1, <1>2, <1>4, <2>1, <2>2, <2>3, KindsAre DEF Good, Touched, Arrives, rec, Docs
  <2>9. payment'[p]["ride"].pending = payment[p]["ride"].pending
        /\ payment'[p]["ride"].refunded = payment[p]["ride"].refunded
        /\ payment'[p]["ride"].exists = payment[p]["ride"].exists
        /\ payment'[p]["temp"].exists = payment[p]["temp"].exists
    BY <1>1, <2>1, <2>2, KindsAre DEF rec
  <2>a. Copied(p)' /\ Paid(p)'
    BY <1>4, <2>9, CopiedKept, PaidKept
  <2>b. Late(p)' /\ Debt(p)'
    BY <1>4, <2>3, <2>9, KindsAre, LateKept, DebtKept DEF Arrives
  <2>. QED
    BY <2>6, <2>7, <2>8, <2>a, <2>b DEF Good
<1>. QED
    BY <1>3, <1>7, <1>8

LEMMA SendGood ==
    ASSUME Typed, NEW p \in Payments, Good(p), NEW k \in Kinds, ProcessRefund(p, k)
    PROVE  Good(p)'
<1>. DEFINE r == call[p][k].req
<1>1. r \in RequestsOf(k) /\ r \in Requests /\ RequestDoc(r) = DocOf(k)
    BY BusyOwn, RequestDocOf DEF ProcessRefund
<1>2. call[p][k].at = "send"
      /\ UNCHANGED <<payment, copy, ride, fare, refundPending, settled, slips>>
    BY DEF ProcessRefund, At, rideVars, docVars
<1>3. \/ Go(p, k, "mark", r, None) /\ heard'[p] = heard[p] \cup {r}
      \/ Go(p, k, "clear", r, "maybe") /\ heard'[p] = heard[p]
      \/ Go(p, k, "clear", r, "not_sent") /\ heard'[p] = heard[p]
    BY DEF ProcessRefund, Typed, TypeOK
<1>4. /\ p \in asked => p \in asked'
      /\ p \in asked' => p \in asked \/ k \in Settlers
    BY DEF ProcessRefund, Typed, TypeOK
<1>. HIDE DEF r
<1>5. /\ \/ Arrives(p, k, "mark", r, None)
         \/ Arrives(p, k, "clear", r, "maybe")
         \/ Arrives(p, k, "clear", r, "not_sent")
      /\ \A j \in Kinds : j # k => call'[p][j] = call[p][j]
    BY <1>1, <1>3, GoesTo, StageNames
<1>6. \A e \in Docs, x \in Requests : InFlight(p, e, x)' => InFlight(p, e, x)
  <2>1. InFlight(p, DocOf(k), r)
    BY <1>2 DEF InFlight, r
  <2>2. call'[p][k].req = r
    BY <1>5 DEF Arrives
  <2>. QED
    BY <1>1, <1>2, <1>3, <1>5, <2>1, <2>2 DEF InFlight, Arrives
<1>7. Held(p)' /\ Alike(p)'
    BY <1>2, <1>6 DEF Good, Held, Alike
<1>8. k # "orphan" => payment[p]["ride"].exists
    BY <1>2, BusyExists
<1>9. Untouched(p)'
    BY <1>1, <1>2, <1>3, <1>4, <1>5, <1>8, NamesAssumption
    DEF Good, Untouched, DocOf, Arrives
<1>a. Done(p)'
    BY <1>2, <1>5 DEF Good, Done, Arrives
<1>b. Touched(p)'
    BY <1>2, <1>4, <1>5, KindsAre, NamesAssumption DEF Good, Touched, Arrives
<1>c. Late(p)' /\ Debt(p)'
    BY <1>2, <1>5, KindsAre, LateKept, DebtKept DEF Arrives
<1>d. Copied(p)' /\ Paid(p)'
    BY <1>2, CopiedKept, PaidKept
<1>. QED
    BY <1>7, <1>9, <1>a, <1>b, <1>c, <1>d DEF Good


LEMMA MarkGood ==
    ASSUME Typed, NEW p \in Payments, Good(p), NEW k \in Kinds, MarkPaymentRefunded(p, k)
    PROVE  Good(p)'
<1>. DEFINE d == DocOf(k)
            rec == payment[p][d]
            r == call[p][k].req
            marked == [rec EXCEPT !.refunded = TRUE, !.claim = None, !.failed = FALSE]
<1>1. d \in Docs /\ rec \in Records /\ r \in RequestsOf(k) /\ r \in Requests
    BY KindsAre, Parts, BusyOwn DEF Typed, MarkPaymentRefunded
<1>2. \/ Go(p, k, "end", r, "ok") /\ Write(p, d, marked)
      \/ Go(p, k, "end", r, "maybe") /\ payment' = payment
    BY DEF MarkPaymentRefunded, docVars
<1>3. call[p][k].at = "mark"
      /\ UNCHANGED <<copy, ride, fare, refundPending, settled, heard, asked, slips>>
    BY DEF MarkPaymentRefunded, At, rideVars, bookVars
<1>. HIDE DEF d, rec, r, marked
<1>4. k # "orphan" => payment[p]["ride"].exists /\ d = "ride"
    BY <1>1, <1>3, BusyExists, RequestDocOf DEF d
<1>5. /\ \/ Arrives(p, k, "end", r, "ok") /\ Write(p, d, marked)
         \/ Arrives(p, k, "end", r, "maybe") /\ payment' = payment
      /\ \A j \in Kinds : j # k => call'[p][j] = call[p][j]
    BY <1>1, <1>2, GoesTo, StageNames
<1>6. /\ marked \in Records /\ marked.refunded /\ marked.exists = rec.exists
      /\ marked.pending = rec.pending
    BY <1>1 DEF marked, Records
<1>7. /\ \/ /\ payment'[p][d] = marked
            /\ \A e \in Docs : e # d => payment'[p][e] = payment[p][e]
            /\ Arrives(p, k, "end", r, "ok")
         \/ payment'[p] = payment[p] /\ Arrives(p, k, "end", r, "maybe")
      /\ \A j \in Kinds : j # k => call'[p][j] = call[p][j]
    BY <1>1, <1>5, <1>6, WriteOne, Parts DEF Typed
<1>8. /\ \A e \in Docs : /\ payment[p][e].refunded => payment'[p][e].refunded
                         /\ payment'[p][e].pending = payment[p][e].pending
                         /\ payment'[p][e].exists = payment[p][e].exists
                         /\ \/ payment'[p][e].refunded
                            \/ /\ payment'[p][e].claim = payment[p][e].claim
                               /\ payment'[p][e].failed = payment[p][e].failed
                               /\ payment'[p][e].refunded = payment[p][e].refunded
    BY <1>1, <1>6, <1>7 DEF rec
<1>9. /\ call'[p][k].at = "end" /\ call'[p][k].out \in {"ok", "maybe"}
      /\ call'[p][k].out = "ok" => payment'[p][d].refunded
    BY <1>6, <1>7 DEF Arrives
<1>a. \A e, x : InFlight(p, e, x)' => InFlight(p, e, x)
    BY <1>3, <1>7, <1>9 DEF InFlight
<1>b. Held(p)' /\ Alike(p)'
    BY <1>3, <1>8, <1>a DEF Good, Held, Alike
<1>c. Untouched(p)'
    BY <1>1, <1>3, <1>4, <1>7, <1>8, KindsAre DEF Good, Untouched, DocOf, d
<1>d. Done(p)'
    BY <1>3, <1>7, <1>8, <1>9, KindsAre DEF Good, Done, d
<1>e. Touched(p)'
    BY <1>3, <1>7, <1>8, <1>9, KindsAre DEF Good, Touched
<1>f. Late(p)' /\ Debt(p)'
    BY <1>3, <1>7, <1>8, <1>9, KindsAre, LateKept, DebtKept
<1>g. Copied(p)' /\ Paid(p)'
    BY <1>3, <1>8, KindsAre, CopiedKept, PaidKept
<1>. QED
    BY <1>b, <1>c, <1>d, <1>e, <1>f, <1>g DEF Good

LEMMA ClearGood ==
    ASSUME Typed, NEW p \in Payments, Good(p), NEW k \in Kinds, ClearRideRefundClaim(p, k)
    PROVE  Good(p)'
<1>. DEFINE d == DocOf(k)
            rec == payment[p][d]
            c == call[p][k]
            cleared == [rec EXCEPT !.claim = None, !.failed = TRUE]
<1>1. d \in Docs /\ rec \in Records /\ c.req \in RequestsOf(k) /\ c.req \in Requests
      /\ c.out \in Outcomes \cup {None}
    BY KindsAre, Parts, BusyOwn DEF Typed, ClearRideRefundClaim, CallRecords
<1>2. /\ Go(p, k, "end", c.req, c.out)
      /\ \/ /\ Write(p, d, cleared)
            /\ \/ Shared(p, k) /\ Slip(p, "forgot")
               \/ ~Shared(p, k) /\ UNCHANGED slips
         \/ payment' = payment /\ UNCHANGED slips
    BY DEF ClearRideRefundClaim
<1>3. c.at = "clear" /\ UNCHANGED <<copy, ride, fare, refundPending, settled, heard, asked>>
    BY DEF ClearRideRefundClaim, At, rideVars
<1>4. \A x \in slips[p] : x \in slips'[p]
    BY <1>2 DEF Slip, Typed, TypeOK
<1>. HIDE DEF d, rec, c, cleared
<1>5. k # "orphan" => payment[p]["ride"].exists /\ d = "ride"
    BY <1>1, <1>3, BusyExists, RequestDocOf DEF d, c
<1>6. /\ Arrives(p, k, "end", c.req, c.out)
      /\ \A j \in Kinds : j # k => call'[p][j] = call[p][j]
    BY <1>1, <1>2, GoesTo, StageNames
<1>7. call'[p][k].at = "end" /\ call'[p][k].out = c.out
    BY <1>6 DEF Arrives
<1>8. c.out # "ok"
    BY <1>3 DEF Good, Done, c
<1>9. CASE payment' = payment /\ UNCHANGED slips
  <2>1. Quiet(p)
    BY <1>3, <1>6, <1>7, <1>8, <1>9 DEF Quiet, Kept, c
  <2>2. Held(p)' /\ Alike(p)' /\ Untouched(p)' /\ Done(p)' /\ Touched(p)'
    BY <2>1, QuietKeeps
  <2>3. Late(p)' /\ Debt(p)'
    BY <1>3, <1>6, <1>7, <1>9, KindsAre, LateKept, DebtKept
  <2>. QED
    BY <1>3, <1>9, <2>2, <2>3, CopiedKept, PaidKept DEF Good
<1>10. CASE /\ Write(p, d, cleared)
            /\ \/ Shared(p, k) /\ Slip(p, "forgot")
               \/ ~Shared(p, k) /\ UNCHANGED slips
  <2>1. /\ cleared \in Records /\ cleared.claim = None /\ cleared.failed
        /\ cleared.exists = rec.exists /\ cleared.refunded = rec.refunded
        /\ cleared.pending = rec.pending
    BY <1>1 DEF cleared, Records
  <2>2. /\ payment'[p][d] = cleared
        /\ \A e \in Docs : e # d => payment'[p][e] = payment[p][e]
    BY <1>1, <1>10, <2>1, WriteOne, Parts DEF Typed
  <2>3. \A e \in Docs : /\ payment'[p][e].refunded = payment[p][e].refunded
                        /\ payment'[p][e].pending = payment[p][e].pending
                        /\ payment'[p][e].exists = payment[p][e].exists
    BY <1>1, <2>1, <2>2 DEF rec
  <2>4. \A e, x : InFlight(p, e, x)' => InFlight(p, e, x)
    BY <1>3, <1>6, <1>7 DEF InFlight, Arrives
  <2>5. "forgot" \notin slips'[p] => \A x \in Requests : ~InFlight(p, d, x)'
    <3>. SUFFICES ASSUME "forgot" \notin slips'[p], NEW x \in Requests, InFlight(p, d, x)'
                  PROVE  FALSE
      OBVIOUS
    <3>1. ~Shared(p, k) /\ "forgot" \notin slips[p]
      BY <1>4, <1>10 DEF Slip, Typed, TypeOK
    <3>2. InFlight(p, d, c.req)
      BY <1>3 DEF InFlight, c, d
    <3>3. x = c.req
      BY <1>1, <2>4, <3>1, <3>2 DEF Good, Alike
    <3>4. \/ c.req \in heard[p]
          \/ \E j \in Kinds \ {k} : /\ call[p][j].at \in {"send", "mark", "clear"}
                                    /\ call[p][j].req = c.req
      BY <1>3, <1>6, <1>7, <3>3 DEF InFlight
    <3>. QED
      BY <3>1, <3>4 DEF Shared, c
  <2>6. Held(p)' /\ Alike(p)'
    BY <1>4, <2>2, <2>4, <2>5 DEF Good, Held, Alike
  <2>7. Untouched(p)'
    BY <1>3, <1>5, <1>6, <2>3, KindsAre DEF Good, Untouched
  <2>8. Done(p)'
    BY <1>6, <1>7, <1>8, <2>3, KindsAre DEF Good, Done
  <2>9. Touched(p)'
    BY <1>3, <1>6, <1>7, <2>1, <2>2, KindsAre DEF Good, Touched, Docs
  <2>10. Late(p)' /\ Debt(p)'
    BY <1>3, <1>4, <1>6, <1>7, <2>3, KindsAre, LateKept, DebtKept
  <2>11. Copied(p)' /\ Paid(p)'
    BY <1>3, <1>4, <2>3, KindsAre, CopiedKept, PaidKept
  <2>. QED
    BY <2>6, <2>7, <2>8, <2>9, <2>10, <2>11 DEF Good
<1>. QED
    BY <1>2, <1>9, <1>10

LEMMA DrainStepGood ==
    ASSUME Typed, NEW p \in Payments, Good(p),
           TakeEntry(p) \/ CheckOne(p) \/ DrainDone(p)
    PROVE  Good(p)'
<1>1. UNCHANGED <<payment, copy, ride, fare, refundPending, settled, heard, asked>>
    BY DEF TakeEntry, CheckOne, DrainDone, docVars, rideVars, bookVars
<1>2. \/ Go(p, "orphan", "check", None, None)
      \/ Go(p, "orphan", "claim", "orphan", None)
      \/ Rest(p, "orphan")
    BY DEF TakeEntry, CheckOne, DrainDone
<1>3. call \in [Payments -> [Kinds -> CallRecords]]
    BY Parts DEF Typed
<1>4. /\ \/ Arrives(p, "orphan", "check", None, None)
         \/ Arrives(p, "orphan", "claim", "orphan", None)
         \/ call'[p]["orphan"] = Idle
      /\ \A j \in Kinds : j # "orphan" => call'[p][j] = call[p][j]
  <2>1. CASE Go(p, "orphan", "check", None, None)
    <3>1. "orphan" \in Kinds /\ "check" \in Stages
          /\ None \in Requests \cup {None} /\ None \in Outcomes \cup {None}
      BY KindsAre, StageNames
    <3>. QED
      BY <1>3, <2>1, <3>1, GoOne
  <2>2. CASE Go(p, "orphan", "claim", "orphan", None)
    BY <2>2, GoesTo, KindsAre, StageNames
  <2>3. CASE Rest(p, "orphan")
    BY <1>3, <2>3, RestOne, KindsAre
  <2>. QED
    BY <1>2, <2>1, <2>2, <2>3
<1>5. call'[p]["orphan"].at \in {"check", "claim", "idle"}
    BY <1>4 DEF Idle, Arrives
<1>6. \A x \in slips[p] : x \in slips'[p]
    BY DEF TakeEntry, CheckOne, DrainDone, Slip, Typed, TypeOK, bookVars
<1>7. Quiet(p)
    BY <1>1, <1>4, <1>5, <1>6, KindsAre DEF Quiet, Kept
<1>8. \A j \in Settlers : call'[p][j] = call[p][j]
    BY <1>4, KindsAre, NamesAssumption
<1>. QED
    BY <1>1, <1>6, <1>7, <1>8, QuietKeeps, LateKept, DebtKept, PaidKept, CopiedKept DEF Good


LEMMA CancelStepGood ==
    ASSUME Typed, NEW p \in Payments, Good(p), NEW k \in Kinds,
           \/ k \in Cancelers /\ \E r \in Reasons : CancelRide(p, k, r)
           \/ k \in Cancelers /\ CancelDone(p, k)
           \/ k = "no_drivers" /\ HandleMaxRadiusReached(p)
           \/ k = "no_drivers" /\ NoDriversDone(p)
    PROVE  Good(p)'
<1>1. UNCHANGED <<payment, copy, fare, settled, heard, asked>>
    BY DEF CancelRide, CancelDone, HandleMaxRadiusReached, NoDriversDone, docVars, bookVars,
       rideVars
<1>2. /\ \A x \in slips[p] : x \in slips'[p]
      /\ p \in refundPending => p \in refundPending'
    BY DEF CancelRide, CancelDone, HandleMaxRadiusReached, NoDriversDone, Slip, Typed,
       TypeOK, bookVars
<1>3. k # "orphan" /\ k \notin Settlers /\ DocOf(k) = "ride"
    BY NamesAssumption DEF DocOf
<1>4. \/ \E r \in Requests : Go(p, k, "claim", r, None) /\ payment[p]["ride"].exists
      \/ Rest(p, k)
      \/ UNCHANGED call
    BY KindsAre DEF CancelRide, CancelDone, HandleMaxRadiusReached, NoDriversDone
<1>5. /\ \/ call'[p][k].at = "claim" /\ payment[p]["ride"].exists
         \/ call'[p][k].at = "idle"
         \/ call'[p][k] = call[p][k]
      /\ \A j \in Kinds : j # k => call'[p][j] = call[p][j]
  <2>1. ASSUME NEW r \in Requests, Go(p, k, "claim", r, None)
        PROVE  /\ call'[p][k].at = "claim"
               /\ \A j \in Kinds : j # k => call'[p][j] = call[p][j]
    BY <2>1, GoesToClaim
  <2>2. ASSUME Rest(p, k)
        PROVE  /\ call'[p][k].at = "idle"
               /\ \A j \in Kinds : j # k => call'[p][j] = call[p][j]
    BY <2>2, RestOne, Parts DEF Typed, Idle
  <2>. QED
    BY <1>4, <2>1, <2>2
<1>6. Quiet(p)
    BY <1>1, <1>2, <1>5 DEF Quiet, Kept
<1>7. \A j \in Settlers : call'[p][j] = call[p][j]
    BY <1>3, <1>5, KindsAre
<1>8. /\ ride'[p] # "none" => ride[p] # "none"
      /\ ride[p] = "completed" => ride'[p] = "completed"
    BY DEF CancelRide, CancelDone, HandleMaxRadiusReached, NoDriversDone, EndOpen, Open,
       Typed, TypeOK
<1>9. ride'[p] = "canceled" => \/ ride[p] = "canceled"
                               \/ payment'[p]["ride"].refunded
                               \/ p \in refundPending'
                               \/ "unseen" \in slips'[p]
  <2>1. CASE \/ k \in Cancelers /\ \E r \in Reasons : CancelRide(p, k, r)
             \/ k = "no_drivers" /\ HandleMaxRadiusReached(p)
    BY <2>1 DEF CancelRide, HandleMaxRadiusReached, Slip, Typed, TypeOK
  <2>2. CASE \/ k \in Cancelers /\ CancelDone(p, k)
             \/ k = "no_drivers" /\ NoDriversDone(p)
    <3>1. call[p][k].at = "end"
      BY <2>2 DEF CancelDone, NoDriversDone, At
    <3>2. call[p][k].out = "ok" => payment[p]["ride"].refunded
      BY <1>3, <3>1 DEF Good, Done
    <3>. QED
      BY <1>1, <2>2, <3>2 DEF CancelDone, NoDriversDone
  <2>. QED
    BY <2>1, <2>2
<1>. QED
    BY <1>1, <1>2, <1>6, <1>7, <1>8, <1>9, QuietKeeps, LateKept, DebtKept, PaidKept, CopiedKept
    DEF Good

\* What a settlement writes of a payment is the mark of the pending refund.
LEMMA MarksOnly ==
    ASSUME Typed, NEW p \in Payments,
           \/ \E s \in {"retry", "manual", "resolved"} : Record(p, s)
           \/ payment' = payment
    PROVE  \A d \in Docs : /\ payment'[p][d].refunded = payment[p][d].refunded
                           /\ payment'[p][d].claim = payment[p][d].claim
                           /\ payment'[p][d].failed = payment[p][d].failed
                           /\ payment'[p][d].exists = payment[p][d].exists
<1>1. ASSUME NEW s \in {"retry", "manual", "resolved"}, Record(p, s)
      PROVE  \A d \in Docs : /\ payment'[p][d].refunded = payment[p][d].refunded
                             /\ payment'[p][d].claim = payment[p][d].claim
                             /\ payment'[p][d].failed = payment[p][d].failed
                             /\ payment'[p][d].exists = payment[p][d].exists
  <2>. DEFINE rec == payment[p]["ride"]
              marked == [rec EXCEPT !.pending = s]
  <2>1. rec \in Records
    BY Parts, KindsAre DEF Typed
  <2>2. /\ marked \in Records /\ marked.refunded = rec.refunded
        /\ marked.claim = rec.claim /\ marked.failed = rec.failed
        /\ marked.exists = rec.exists
    BY <2>1 DEF Records, Marks
  <2>3. Write(p, "ride", marked)
    BY <1>1 DEF Record
  <2>. HIDE DEF marked
  <2>4. /\ payment'[p]["ride"] = marked
        /\ \A e \in Docs : e # "ride" => payment'[p][e] = payment[p][e]
    BY <2>2, <2>3, WriteOne, KindsAre, Parts DEF Typed
  <2>. QED
    BY <2>2, <2>4
<1>. QED
    BY <1>1

LEMMA MarkIs ==
    ASSUME Typed, NEW p \in Payments, NEW s \in {"retry", "manual", "resolved"},
           Record(p, s)
    PROVE  payment'[p]["ride"].pending = s
<1>. DEFINE marked == [payment[p]["ride"] EXCEPT !.pending = s]
<1>1. payment[p]["ride"] \in Records
    BY Parts, KindsAre DEF Typed
<1>2. marked \in Records /\ marked.pending = s
    BY <1>1 DEF Records, Marks
<1>3. Write(p, "ride", marked)
    BY DEF Record
<1>. HIDE DEF marked
<1>. QED
    BY <1>2, <1>3, WriteOne, KindsAre, Parts DEF Typed

LEMMA SettleBegins ==
    ASSUME Typed, NEW p \in Payments, Good(p), NEW k \in Settlers, NetDistribution(p, k)
    PROVE  Good(p)'
<1>1. UNCHANGED <<payment, copy, ride, fare, refundPending, heard, asked>>
    BY DEF NetDistribution, SettleUnseen, SettlePlain, SettleDebt, rideVars, docVars
<1>2. ride[p] = "completed" /\ \A x \in slips[p] : x \in slips'[p]
    BY DEF NetDistribution, SettleUnseen, SettlePlain, SettleDebt, Slip, Typed, TypeOK
<1>3. k \in Kinds /\ k # "orphan" /\ call[p][k].at = "idle"
    BY KindsAre, NamesAssumption DEF NetDistribution, At
<1>4. \/ UNCHANGED call
      \/ /\ \/ Begin(p, k, "claim", None) /\ Gate(payment[p]["ride"])
            \/ Begin(p, k, "end", "maybe")
         /\ RefundDue(p)
    BY DEF NetDistribution, SettleUnseen, SettlePlain, SettleDebt
<1>5. /\ \A j \in Kinds : j # k => call'[p][j] = call[p][j]
      /\ \/ call'[p][k] = call[p][k]
         \/ /\ call'[p][k].at = "claim"
            /\ call'[p][k].seen = payment[p]["ride"].pending
            /\ call'[p][k].late <=> p \in asked
            /\ RefundDue(p) /\ Gate(payment[p]["ride"])
         \/ call'[p][k].at = "end" /\ call'[p][k].out = "maybe" /\ RefundDue(p)
  <2>1. /\ call \in [Payments -> [Kinds -> CallRecords]]
        /\ payment \in [Payments -> [Docs -> Records]]
        /\ "claim" \in Stages /\ "end" \in Stages
        /\ None \in Outcomes \cup {None} /\ "maybe" \in Outcomes \cup {None}
    BY Parts, StageNames DEF Typed
  <2>2. CASE UNCHANGED call
    BY <2>2
  <2>3. CASE Begin(p, k, "claim", None) /\ Gate(payment[p]["ride"]) /\ RefundDue(p)
    BY <1>3, <2>1, <2>3, BeginOne
  <2>4. CASE Begin(p, k, "end", "maybe") /\ RefundDue(p)
    BY <1>3, <2>1, <2>4, BeginOne
  <2>. QED
    BY <1>4, <2>2, <2>3, <2>4
<1>6. RefundDue(p) => payment[p]["ride"].exists
    BY DEF RefundDue
<1>7. Held(p)' /\ Alike(p)'
  <2>1. \A d, r : InFlight(p, d, r)' => InFlight(p, d, r)
    BY <1>1, <1>5 DEF InFlight
  <2>. QED
    BY <1>1, <1>2, <2>1 DEF Good, Held, Alike
<1>8. Untouched(p)' /\ Done(p)' /\ Touched(p)'
  <2>1. Untouched(p)'
    BY <1>1, <1>5, <1>6 DEF Good, Untouched
  <2>2. Done(p)'
    BY <1>1, <1>5 DEF Good, Done
  <2>3. Touched(p)'
    BY <1>1, <1>5 DEF Good, Touched
  <2>. QED
    BY <2>1, <2>2, <2>3
<1>9. Late(p)'
  <2>1. ASSUME call'[p][k].at \in {"claim", "send"}, call'[p][k].late
        PROVE  call'[p][k].seen = "retry"
    BY <1>3, <1>5, <2>1 DEF Good, Touched, RefundDue, Gate
  <2>. QED
    BY <1>5, <2>1, KindsAre DEF Good, Late
<1>a. Debt(p)'
  <2>1. CASE SettleUnseen(p)
    <3>1. "unseen" \in slips'[p]
      BY <2>1 DEF SettleUnseen, Slip, Typed, TypeOK
    <3>. QED
      BY <1>1, <1>2, <3>1 DEF Debt
  <2>2. CASE SettlePlain(p)
    BY <1>1, <1>2, <2>2 DEF SettlePlain, RefundDue, Debt
  <2>3. CASE SettleDebt(p, k)
    <3>1. settled' = settled
      BY <2>3 DEF SettleDebt
    <3>. QED
      BY <1>1, <1>2, <3>1, DebtKept
  <2>. QED
    BY <2>1, <2>2, <2>3 DEF NetDistribution
<1>. QED
    BY <1>1, <1>2, <1>7, <1>8, <1>9, <1>a, PaidKept, CopiedKept DEF Good

LEMMA SettleEnds ==
    ASSUME Typed, NEW p \in Payments, Good(p), NEW k \in Settlers,
           NetDistributionDone(p, k)
    PROVE  Good(p)'
<1>1. UNCHANGED <<copy, ride, fare, refundPending, heard, asked, slips>>
    BY DEF NetDistributionDone, rideVars, bookVars
<1>2. /\ call[p][k].at = "end" /\ Rest(p, k)
      /\ k \in Kinds /\ k # "orphan" /\ DocOf(k) = "ride"
    BY KindsAre, NamesAssumption DEF NetDistributionDone, At, DocOf
<1>3. \/ \E s \in {"retry", "manual", "resolved"} : Record(p, s)
      \/ payment' = payment
    BY DEF NetDistributionDone, Refunded, NotRefunded, SettleAs, Classify
<1>4. \A d \in Docs : /\ payment'[p][d].refunded = payment[p][d].refunded
                      /\ payment'[p][d].claim = payment[p][d].claim
                      /\ payment'[p][d].failed = payment[p][d].failed
                      /\ payment'[p][d].exists = payment[p][d].exists
    BY <1>3, MarksOnly
<1>5. /\ call'[p][k].at = "idle"
      /\ \A j \in Kinds : j # k => call'[p][j] = call[p][j]
    BY <1>2, RestOne, Parts DEF Typed, Idle
<1>6. Quiet(p)
    BY <1>1, <1>4, <1>5, KindsAre DEF Quiet, Kept
<1>7. Late(p)'
    BY <1>5, KindsAre, LateKept
<1>8. Debt(p)'
  <2>1. payment[p]["ride"].exists
    BY <1>2, BusyExists
  <2>2. CASE Refunded(p, k)
    <3>1. payment'[p]["ride"].refunded
      BY <1>2, <1>4, <2>2, KindsAre DEF Refunded, Good, Done
    <3>. QED
      BY <1>1, <1>4, <2>1, <3>1, KindsAre DEF Debt
  <2>3. CASE NotRefunded(p, k)
    <3>1. \/ UNCHANGED <<payment, settled>>
          \/ SettleAs(p, Classify(call[p][k].out))
      BY <2>3 DEF NotRefunded
    <3>2. CASE UNCHANGED <<payment, settled>>
      BY <1>1, <3>2 DEF Good, Debt
    <3>3. CASE SettleAs(p, Classify(call[p][k].out))
      <4>1. payment'[p]["ride"].pending \in {"retry", "manual"}
        BY <3>3, MarkIs DEF SettleAs, Classify
      <4>. QED
        BY <1>1, <1>4, <2>1, <4>1, KindsAre DEF Debt
    <3>. QED
      BY <3>1, <3>2, <3>3
  <2>. QED
    BY <2>2, <2>3 DEF NetDistributionDone
<1>. QED
    BY <1>1, <1>4, <1>6, <1>7, <1>8, KindsAre, QuietKeeps, PaidKept, CopiedKept DEF Good

LEMMA CrashGood ==
    ASSUME Typed, NEW p \in Payments, Good(p), NEW k \in Kinds, Crash(p, k)
    PROVE  Good(p)'
<1>1. UNCHANGED <<payment, copy, ride, fare, refundPending, settled, heard, asked>>
    BY DEF Crash, docVars, rideVars
<1>2. slips'[p] = slips[p] \cup Slips(k)
    BY DEF Crash, Typed, TypeOK
<1>3. /\ call'[p][k].at = "idle"
      /\ \A j \in Kinds : j # k => call'[p][j] = call[p][j]
    BY RestOne, Parts DEF Crash, Typed, Idle
<1>4. Quiet(p)
    BY <1>1, <1>2, <1>3 DEF Quiet, Kept
<1>5. Late(p)' /\ Debt(p)'
    BY <1>1, <1>2, <1>3, KindsAre, LateKept, DebtKept
<1>. QED
    BY <1>1, <1>2, <1>4, <1>5, QuietKeeps, PaidKept, CopiedKept DEF Good

LEMMA IInvNext == IInv /\ [Next]_vars => IInv'
<1>. SUFFICES ASSUME IInv, [Next]_vars PROVE IInv'
    OBVIOUS
<1>1. Typed'
    BY TypedNext DEF IInv
<1>2. ASSUME NEW q \in Payments PROVE Good(q)'
  <2>1. CASE UNCHANGED vars
    BY <2>1, SameKeeps DEF IInv, Same, vars, docVars, rideVars, bookVars
  <2>2. CASE Next
    <3>. PICK p \in Payments :
          \/ Confirm(p) \/ WriteCopy(p)
          \/ CheckPayment(p) \/ Book(p) \/ ReadForCopy(p) \/ LoseCopy(p) \/ Accept(p)
          \/ \E f \in {"exact", "less"} : Complete(p, f)
          \/ TakeEntry(p) \/ CheckOne(p) \/ DrainDone(p)
          \/ \E k \in Cancelers, r \in Reasons : CancelRide(p, k, r)
          \/ \E k \in Cancelers : CancelDone(p, k)
          \/ HandleMaxRadiusReached(p) \/ NoDriversDone(p)
          \/ \E k \in Settlers : NetDistribution(p, k) \/ NetDistributionDone(p, k)
          \/ \E k \in Kinds : \/ ClaimRideRefund(p, k) \/ ProcessRefund(p, k)
                              \/ MarkPaymentRefunded(p, k) \/ ClearRideRefundClaim(p, k)
                              \/ Crash(p, k)
        BY <2>2, Zenon DEF Next
    <3>1. CASE q # p
      <4>1. Same(q)
        BY <3>1, Elsewhere, KindsAre DEF IInv
      <4>. QED
        BY <4>1, SameKeeps DEF IInv
    <3>2. CASE q = p
      BY <3>2, ConfirmGood, WriteCopyGood, RideStepGood, DrainStepGood, CancelStepGood,
         SettleBegins, SettleEnds, ClaimGood, SendGood, MarkGood, ClearGood, CrashGood,
         KindsAre DEF IInv
    <3>. QED
      BY <3>1, <3>2
  <2>. QED
    BY <2>1, <2>2
<1>. QED
    BY <1>1, <1>2 DEF IInv

LEMMA Invariance == Spec => []IInv
<1>1. Init => IInv
    BY TypedInit, GoodInit DEF IInv
<1>. QED
    BY <1>1, IInvNext, PTL DEF Spec

(***************************************************************************)
(* The promises.                                                            *)
(***************************************************************************)
\* No two different refunds of one document are ever on their way or known to
\* be done (claimRideRefund), unless a claim was cleared that another call of
\* the same request still relied on.
THEOREM NoSecondRefund == Spec => []OneKnownRefund
<1>1. IInv => OneKnownRefund
  <2>. SUFFICES ASSUME IInv, NEW p \in Payments, "forgot" \notin slips[p],
                       NEW d \in Docs, NEW r1 \in Live(p, d), NEW r2 \in Live(p, d)
                PROVE  r1 = r2
    BY DEF OneKnownRefund
  <2>1. \A r \in Live(p, d) : InFlight(p, d, r) /\ r \in Requests
    <3>. SUFFICES ASSUME NEW r \in Live(p, d) PROVE InFlight(p, d, r) /\ r \in Requests
      OBVIOUS
    <3>1. CASE r \in heard[p] /\ RequestDoc(r) = d
      <4>1. heard[p] \subseteq Requests
        BY DEF IInv, Typed, TypeOK
      <4>. QED
        BY <3>1, <4>1 DEF InFlight
    <3>2. CASE \E k \in Kinds : /\ DocOf(k) = d
                               /\ call[p][k].at \in {"send", "mark"}
                               /\ r = call[p][k].req
      <4>1. PICK k \in Kinds : /\ DocOf(k) = d
                              /\ call[p][k].at \in {"send", "mark"}
                              /\ r = call[p][k].req
        BY <3>2
      <4>2. r \in RequestsOf(k)
        BY <4>1 DEF IInv, Typed, OwnRequests
      <4>. QED
        BY <4>1, <4>2, KindsAre DEF InFlight
    <3>. QED
      BY <3>1, <3>2 DEF Live
  <2>. QED
    BY <2>1 DEF IInv, Good, Alike
<1>. QED
    BY <1>1, Invariance, PTL

\* Whatever refunds, fails or dies next to it, a settlement that read the payment
\* after another one may have asked the provider asks again only by the mark of
\* a failure that was not sent (resolvePassengerRefundAttemptGate).
THEOREM LaterSettlementsAsk == Spec => []OnlyRetryAsksAgain
<1>1. IInv => OnlyRetryAsksAgain
    BY DEF IInv, Good, Late, OnlyRetryAsksAgain, At
<1>. QED
    BY <1>1, Invariance, PTL

\* However many handlers settle a ride at once, and whoever of them fails, what
\* is counted as done owes the passenger nothing that its payment does not show
\* (processNetDistribution), unless the payment could not be read.
THEOREM DebtsAreRecorded == Spec => []DebtIsRecorded
<1>1. IInv => DebtIsRecorded
    BY DEF IInv, Typed, TypeOK, Good, Debt, DebtIsRecorded
<1>. QED
    BY <1>1, Invariance, PTL

\* A canceled ride is paid back or waits for support, whoever canceled it and
\* however many did (CancelRideCommand, handleMaxRadiusReached), unless its
\* payment could not be read.
THEOREM CanceledPaidBack == Spec => []CanceledIsPaidBack
<1>1. IInv => CanceledIsPaidBack
    BY DEF IInv, Good, Paid, CanceledIsPaidBack
<1>. QED
    BY <1>1, Invariance, PTL

(***************************************************************************)
(* A Pix without a ride is tracked.                                         *)
(***************************************************************************)
WithoutRide(p) == payment[p]["temp"].exists /\ ride[p] \in {"none", "checked"}

Tracked(p) ==
    WithoutRide(p) => \/ payment[p]["temp"].refunded
                      \/ p \in due
                      \/ call[p]["orphan"].at # "idle"
                      \/ "entry" \in slips[p]

\* The holding of the temporary document is only closed with the payment.
Kindred(p) ==
    payment[p]["temp"].exists =>
        payment[p]["temp"].refunded \/ holding[p]["temp"] = "in_holding"

\* A step that leaves the drain of a payment and what it reads alone.
Steady(p) ==
    /\ payment'[p]["temp"].exists = payment[p]["temp"].exists
    /\ payment[p]["temp"].refunded => payment'[p]["temp"].refunded
    /\ holding'[p]["temp"] = holding[p]["temp"]
    /\ ride'[p] \in {"none", "checked"} => ride[p] \in {"none", "checked"}
    /\ p \in due => p \in due'
    /\ call[p]["orphan"].at # "idle" => call'[p]["orphan"].at # "idle"
    /\ "entry" \in slips[p] => "entry" \in slips'[p]

LEMMA SteadyKeeps ==
    ASSUME NEW p \in Payments, Tracked(p), Kindred(p), Steady(p)
    PROVE  Tracked(p)' /\ Kindred(p)'
BY DEF Tracked, WithoutRide, Kindred, Steady

LEMMA SteadyElsewhere ==
    ASSUME Typed, NEW p \in Payments, NEW q \in Payments, q # p, Same(q),
           NEW k \in Kinds,
           \/ Confirm(p) \/ WriteCopy(p)
           \/ CheckPayment(p) \/ Book(p) \/ ReadForCopy(p) \/ LoseCopy(p) \/ Accept(p)
           \/ \E f \in {"exact", "less"} : Complete(p, f)
           \/ TakeEntry(p) \/ CheckOne(p) \/ DrainDone(p)
           \/ \E r \in Reasons : CancelRide(p, k, r)
           \/ CancelDone(p, k)
           \/ HandleMaxRadiusReached(p) \/ NoDriversDone(p)
           \/ NetDistribution(p, k) \/ NetDistributionDone(p, k)
           \/ ClaimRideRefund(p, k) \/ ProcessRefund(p, k)
           \/ MarkPaymentRefunded(p, k) \/ ClearRideRefundClaim(p, k)
           \/ Crash(p, k)
    PROVE  Steady(q)
<1>1. (\E d, h : holding' = [holding EXCEPT ![p][d] = h]) \/ UNCHANGED holding
    BY DEF Confirm, WriteCopy, CheckPayment, Book, ReadForCopy, LoseCopy,
       Accept, Complete, TakeEntry, CheckOne, DrainDone, CancelRide, CancelDone,
       HandleMaxRadiusReached, NoDriversDone, NetDistribution, NetDistributionDone,
       SettleUnseen, SettlePlain, SettleDebt, Distribute, ClaimRideRefund, ProcessRefund, MarkPaymentRefunded,
       ClearRideRefundClaim, Crash, docVars
<1>2. due' \in {due, due \cup {p}, due \ {p}}
    BY DEF Confirm, WriteCopy, CheckPayment, Book, ReadForCopy, LoseCopy,
       Accept, Complete, TakeEntry, CheckOne, DrainDone, CancelRide, CancelDone,
       HandleMaxRadiusReached, NoDriversDone, NetDistribution, NetDistributionDone,
       ClaimRideRefund, ProcessRefund, MarkPaymentRefunded,
       ClearRideRefundClaim, Crash
<1>3. holding'[q] = holding[q]
    BY <1>1 DEF Typed, TypeOK
<1>. QED
    BY <1>2, <1>3 DEF Steady, Same

\* What the ride does, and what the callers do before and after a refund.
LEMMA OthersAreSteady ==
    ASSUME Typed, NEW p \in Payments, NEW k \in Kinds,
           \/ CheckPayment(p) \/ Book(p) \/ ReadForCopy(p) \/ LoseCopy(p) \/ Accept(p)
           \/ \E f \in {"exact", "less"} : Complete(p, f)
           \/ k \in Cancelers /\ \E r \in Reasons : CancelRide(p, k, r)
           \/ k \in Cancelers /\ CancelDone(p, k)
           \/ k = "no_drivers" /\ (HandleMaxRadiusReached(p) \/ NoDriversDone(p))
    PROVE  Steady(p)
<1>1. UNCHANGED <<payment, holding, due>>
    BY DEF CheckPayment, Book, ReadForCopy, LoseCopy, Accept, Complete, CancelRide,
       CancelDone, HandleMaxRadiusReached, NoDriversDone, docVars
<1>2. ride'[p] \in {"none", "checked"} => ride[p] \in {"none", "checked"}
    BY DEF CheckPayment, Book, ReadForCopy, LoseCopy, Accept, Complete, CancelRide,
       CancelDone, HandleMaxRadiusReached, NoDriversDone, EndOpen, Open, Typed, TypeOK,
       rideVars
<1>3. slips[p] \subseteq slips'[p]
    BY DEF CheckPayment, Book, ReadForCopy, LoseCopy, Accept, Complete, CancelRide,
       CancelDone, HandleMaxRadiusReached, NoDriversDone, Slip, Typed, TypeOK, bookVars
<1>4. \/ UNCHANGED call
      \/ k # "orphan" /\ \E r \in Requests : Go(p, k, "claim", r, None)
      \/ k # "orphan" /\ Rest(p, k)
  <2>1. k \in Cancelers => k # "orphan"
    BY NamesAssumption
  <2>. QED
    BY <2>1, KindsAre DEF CheckPayment, Book, ReadForCopy, LoseCopy, Accept, Complete,
       CancelRide, CancelDone, HandleMaxRadiusReached, NoDriversDone
<1>5. call'[p]["orphan"] = call[p]["orphan"]
    BY <1>4, GoesToClaim, RestOne, Parts, KindsAre DEF Typed
<1>. QED
    BY <1>1, <1>2, <1>3, <1>5 DEF Steady

LEMMA SettleIsSteady ==
    ASSUME Typed, NEW p \in Payments, NEW k \in Settlers,
           NetDistribution(p, k) \/ NetDistributionDone(p, k)
    PROVE  Steady(p)
<1>1. UNCHANGED <<due, ride>>
    BY DEF NetDistribution, NetDistributionDone, rideVars
<1>2. \/ \E s \in {"retry", "manual", "resolved"} : Record(p, s)
      \/ payment' = payment
    BY DEF NetDistribution, NetDistributionDone, SettleUnseen, SettlePlain, SettleDebt,
       Refunded, NotRefunded, SettleAs, Classify, docVars
<1>3. /\ payment'[p]["temp"].refunded = payment[p]["temp"].refunded
      /\ payment'[p]["temp"].exists = payment[p]["temp"].exists
    BY <1>2, MarksOnly, KindsAre
<1>4. holding'[p]["temp"] = holding[p]["temp"]
  <2>1. Distribute(p) \/ UNCHANGED holding
    BY DEF NetDistribution, NetDistributionDone, SettleUnseen, SettlePlain, SettleDebt,
       docVars
  <2>2. holding \in [Payments -> [Docs -> {"none", "in_holding", "distributed",
                                           "refunded"}]]
    BY Parts DEF Typed
  <2>. QED
    BY <2>1, <2>2, KindsAre DEF Distribute
<1>5. slips[p] \subseteq slips'[p]
    BY DEF NetDistribution, NetDistributionDone, SettleUnseen, SettlePlain, SettleDebt,
       Slip, Typed, TypeOK, bookVars
<1>6. \/ UNCHANGED call
      \/ Begin(p, k, "claim", None) \/ Begin(p, k, "end", "maybe")
      \/ Rest(p, k)
    BY DEF NetDistribution, NetDistributionDone, SettleUnseen, SettlePlain, SettleDebt
<1>7. call'[p]["orphan"] = call[p]["orphan"]
  <2>1. k \in Kinds /\ k # "orphan" /\ "orphan" \in Kinds
    BY KindsAre, NamesAssumption
  <2>2. /\ call \in [Payments -> [Kinds -> CallRecords]]
        /\ payment \in [Payments -> [Docs -> Records]]
        /\ "claim" \in Stages /\ "end" \in Stages
        /\ None \in Outcomes \cup {None} /\ "maybe" \in Outcomes \cup {None}
    BY Parts, StageNames DEF Typed
  <2>3. CASE Begin(p, k, "claim", None) \/ Begin(p, k, "end", "maybe")
    BY <2>1, <2>2, <2>3, BeginOne
  <2>4. CASE Rest(p, k)
    BY <2>1, <2>2, <2>4, RestOne
  <2>. QED
    BY <1>6, <2>3, <2>4
<1>. QED
    BY <1>1, <1>3, <1>4, <1>5, <1>7 DEF Steady

\* A refund on its way does not end, and works on the temporary document only
\* when it is the drain's.
LEMMA RefundIsTracked ==
    ASSUME Typed, NEW p \in Payments, NEW k \in Kinds, Tracked(p), Kindred(p),
           \/ ClaimRideRefund(p, k) \/ ProcessRefund(p, k)
           \/ MarkPaymentRefunded(p, k) \/ ClearRideRefundClaim(p, k)
    PROVE  Tracked(p)' /\ Kindred(p)'
<1>. DEFINE d == DocOf(k)
            rec == payment[p][d]
            r == call[p][k].req
            C == [rec EXCEPT !.claim = r, !.failed = FALSE]
            M == [rec EXCEPT !.refunded = TRUE, !.claim = None, !.failed = FALSE]
            F == [rec EXCEPT !.claim = None, !.failed = TRUE]
<1>1. d \in Docs /\ rec \in Records /\ r \in Requests
    BY KindsAre, Parts, BusyOwn DEF Typed, ClaimRideRefund, ProcessRefund,
       MarkPaymentRefunded, ClearRideRefundClaim
<1>2. UNCHANGED <<due, ride>> /\ slips[p] \subseteq slips'[p]
    BY DEF ClaimRideRefund, ProcessRefund, MarkPaymentRefunded, ClearRideRefundClaim,
       rideVars, bookVars, Slip, Typed, TypeOK
<1>3. \E s \in Stages \ {"idle"}, out \in Outcomes \cup {None} : Go(p, k, s, r, out)
    BY StageNames, Parts DEF ClaimRideRefund, ProcessRefund, MarkPaymentRefunded,
       ClearRideRefundClaim, Typed, CallRecords
<1>4. \/ UNCHANGED <<payment, holding>>
      \/ (Write(p, d, C) \/ Write(p, d, F)) /\ UNCHANGED holding
      \/ /\ Write(p, d, M)
         /\ \/ UNCHANGED holding
            \/ \E h : holding' = [holding EXCEPT ![p][d] = h]
    BY DEF ClaimRideRefund, ProcessRefund, MarkPaymentRefunded, ClearRideRefundClaim, docVars
<1>5. /\ C \in Records /\ C.exists = rec.exists /\ C.refunded = rec.refunded
      /\ F \in Records /\ F.exists = rec.exists /\ F.refunded = rec.refunded
      /\ M \in Records /\ M.exists = rec.exists /\ M.refunded
  <2>2. C \in Records /\ F \in Records /\ M \in Records
    BY <1>1, RecordUpdates
  <2>. HIDE DEF rec, r
  <2>. QED
    BY <1>1, <2>2 DEF Records
<1>. HIDE DEF d, rec, r, C, M, F
<1>6. /\ k # "orphan" => call'[p]["orphan"] = call[p]["orphan"]
      /\ k = "orphan" => call'[p]["orphan"].at # "idle"
  <2>. PICK s \in Stages \ {"idle"}, out \in Outcomes \cup {None} : Go(p, k, s, r, out)
    BY <1>3
  <2>1. /\ Arrives(p, k, s, r, out)
        /\ \A j \in Kinds : j # k => call'[p][j] = call[p][j]
    BY <1>1, GoesTo
  <2>. QED
    BY <2>1, KindsAre DEF Arrives
<1>7. payment \in [Payments -> [Docs -> Records]]
    BY Parts DEF Typed
<1>8. \A e \in Docs : /\ payment'[p][e].exists = payment[p][e].exists
                      /\ payment[p][e].refunded => payment'[p][e].refunded
                      /\ \/ holding'[p][e] = holding[p][e]
                         \/ payment'[p][e].refunded
  <2>1. ASSUME NEW new \in {C, M, F}, Write(p, d, new)
        PROVE  /\ payment'[p][d] = new
               /\ \A e \in Docs : e # d => payment'[p][e] = payment[p][e]
    BY <1>1, <1>5, <1>7, <2>1, WriteOne
  <2>2. CASE UNCHANGED <<payment, holding>>
    BY <2>2
  <2>3. CASE (Write(p, d, C) \/ Write(p, d, F)) /\ UNCHANGED holding
    BY <1>5, <2>1, <2>3 DEF rec
  <2>4. CASE /\ Write(p, d, M)
             /\ \/ UNCHANGED holding
                \/ \E h : holding' = [holding EXCEPT ![p][d] = h]
    <3>1. \A e \in Docs : e # d => holding'[p][e] = holding[p][e]
      BY <1>1, <2>4 DEF Typed, TypeOK
    <3>. QED
      BY <1>5, <2>1, <2>4, <3>1 DEF rec
  <2>. QED
    BY <1>4, <2>2, <2>3, <2>4
<1>. QED
    BY <1>2, <1>6, <1>8, KindsAre DEF Tracked, WithoutRide, Kindred

LEMMA ConfirmIsTracked ==
    ASSUME Typed, NEW p \in Payments, Confirm(p)
    PROVE  Tracked(p)' /\ Kindred(p)'
<1>1. holding'[p]["temp"] = "in_holding"
    BY KindsAre DEF Confirm, Typed, TypeOK
<1>2. p \in due' \/ "entry" \in slips'[p]
    BY DEF Confirm, Slip, Typed, TypeOK
<1>. QED
    BY <1>1, <1>2 DEF Tracked, Kindred

\* The drain takes an entry, and keeps it in its hands until it is refunded or
\* is put back.  It finds the holding open, and no booking.
LEMMA DrainIsTracked ==
    ASSUME Typed, NEW p \in Payments, Done(p), Tracked(p), Kindred(p),
           TakeEntry(p) \/ CheckOne(p) \/ DrainDone(p)
    PROVE  Tracked(p)' /\ Kindred(p)'
<1>1. UNCHANGED <<payment, holding, ride>> /\ slips[p] \subseteq slips'[p]
    BY DEF TakeEntry, CheckOne, DrainDone, docVars, rideVars, bookVars, Slip, Typed, TypeOK
<1>2. call \in [Payments -> [Kinds -> CallRecords]] /\ "orphan" \in Kinds
    BY Parts, KindsAre DEF Typed
<1>3. CASE TakeEntry(p)
  <2>1. call'[p]["orphan"].at = "check"
    BY <1>2, <1>3 DEF TakeEntry, Go
  <2>. QED
    BY <1>1, <2>1 DEF Tracked, Kindred
<1>4. CASE CheckOne(p)
  <2>1. UNCHANGED due /\ call[p]["orphan"].at = "check"
    BY <1>4 DEF CheckOne, At
  <2>2. CASE holding[p]["temp"] = "in_holding" /\ ~BookingUsesPayment(p)
    <3>1. call'[p]["orphan"].at = "claim"
      <4>1. Go(p, "orphan", "claim", "orphan", None)
        BY <1>4, <2>2 DEF CheckOne
      <4>. QED
        BY <1>2, <4>1, KindsAre, GoesToClaim
    <3>. QED
      BY <1>1, <3>1 DEF Tracked, Kindred
  <2>3. CASE ~(holding[p]["temp"] = "in_holding" /\ ~BookingUsesPayment(p))
    BY <1>1, <2>3 DEF Tracked, WithoutRide, Kindred, BookingUsesPayment, Open
  <2>. QED
    BY <2>2, <2>3
<1>5. CASE DrainDone(p)
  <2>1. \/ payment[p]["temp"].refunded
        \/ p \in due'
        \/ "entry" \in slips'[p]
    BY <1>2, <1>5 DEF DrainDone, At, Done, DocOf, Slip, Typed, TypeOK
  <2>. QED
    BY <1>1, <2>1 DEF Tracked, Kindred
<1>. QED
    BY <1>3, <1>4, <1>5

LEMMA CrashIsTracked ==
    ASSUME Typed, NEW p \in Payments, NEW k \in Kinds, Tracked(p), Kindred(p), Crash(p, k)
    PROVE  Tracked(p)' /\ Kindred(p)'
<1>1. UNCHANGED <<payment, holding, ride, due>>
    BY DEF Crash, docVars, rideVars
<1>2. slips'[p] = slips[p] \cup Slips(k)
    BY DEF Crash, Typed, TypeOK
<1>3. k # "orphan" => call'[p]["orphan"] = call[p]["orphan"]
    BY RestOne, Parts, KindsAre DEF Crash, Typed
<1>4. k = "orphan" => "entry" \in slips'[p]
    BY <1>2 DEF Slips
<1>. QED
    BY <1>1, <1>2, <1>3, <1>4 DEF Tracked, WithoutRide, Kindred

LEMMA CopyIsSteady ==
    ASSUME Typed, NEW p \in Payments, WriteCopy(p)
    PROVE  Steady(p)
<1>1. payment'[p]["temp"] = payment[p]["temp"]
    BY WriteOne, Parts, KindsAre DEF WriteCopy, Typed
<1>2. holding'[p]["temp"] = holding[p]["temp"]
    BY DEF WriteCopy, Typed, TypeOK
<1>. QED
    BY <1>1, <1>2 DEF Steady, WriteCopy, rideVars, bookVars

LEMMA TrackedInit == Init => \A p \in Payments : Tracked(p) /\ Kindred(p)
<1>. SUFFICES ASSUME Init, NEW p \in Payments PROVE Tracked(p) /\ Kindred(p)
    OBVIOUS
<1>1. payment[p]["temp"] = NoRecord
    BY KindsAre DEF Init
<1>. QED
    BY <1>1 DEF NoRecord, Tracked, WithoutRide, Kindred

LEMMA TrackedNext ==
    ASSUME IInv, \A p \in Payments : Tracked(p) /\ Kindred(p), [Next]_vars
    PROVE  \A q \in Payments : Tracked(q)' /\ Kindred(q)'
<1>. TAKE q \in Payments
<1>1. CASE UNCHANGED vars
    BY <1>1, SteadyKeeps DEF Steady, vars, docVars, rideVars, bookVars
<1>2. CASE Next
  <2>. PICK p \in Payments :
        \/ Confirm(p) \/ WriteCopy(p)
        \/ CheckPayment(p) \/ Book(p) \/ ReadForCopy(p) \/ LoseCopy(p) \/ Accept(p)
        \/ \E f \in {"exact", "less"} : Complete(p, f)
        \/ TakeEntry(p) \/ CheckOne(p) \/ DrainDone(p)
        \/ \E k \in Cancelers, r \in Reasons : CancelRide(p, k, r)
        \/ \E k \in Cancelers : CancelDone(p, k)
        \/ HandleMaxRadiusReached(p) \/ NoDriversDone(p)
        \/ \E k \in Settlers : NetDistribution(p, k) \/ NetDistributionDone(p, k)
        \/ \E k \in Kinds : \/ ClaimRideRefund(p, k) \/ ProcessRefund(p, k)
                            \/ MarkPaymentRefunded(p, k) \/ ClearRideRefundClaim(p, k)
                            \/ Crash(p, k)
      BY <1>2, Zenon DEF Next
  <2>1. CASE q # p
    <3>1. Same(q)
      BY <2>1, Elsewhere, KindsAre DEF IInv
    <3>2. Steady(q)
      BY <2>1, <3>1, SteadyElsewhere, KindsAre DEF IInv
    <3>. QED
      BY <3>2, SteadyKeeps
  <2>2. CASE q = p
    BY <2>2, ConfirmIsTracked, CopyIsSteady, OthersAreSteady, SettleIsSteady,
       RefundIsTracked, DrainIsTracked, CrashIsTracked, SteadyKeeps, KindsAre
    DEF IInv, Good
  <2>. QED
    BY <2>1, <2>2
<1>. QED
    BY <1>1, <1>2

\* No failure of claim, provider or mark makes the drain forget a payment
\* (orphan-payment-refund-service.js): what it has not refunded it puts back.
THEOREM OrphansAreTracked == Spec => []OrphanIsTracked
<1>. DEFINE T == \A p \in Payments : Tracked(p) /\ Kindred(p)
<1>1. Init => T
    BY TrackedInit
<1>2. IInv /\ T /\ [Next]_vars => T'
    BY TrackedNext
<1>3. T => OrphanIsTracked
    BY DEF OrphanIsTracked, Tracked, WithoutRide, At
<1>. HIDE DEF T
<1>. QED
    BY <1>1, <1>2, <1>3, Invariance, PTL DEF Spec
=============================================================================
