----------------------- MODULE RideCommandsCrashProofs -----------------------
(***************************************************************************)
(* What one booking keeps, whatever happens on the others and whatever dies *)
(* anywhere: its state moves as the service allows and its payment goes     *)
(* with it, unless two commands have been on this very booking at once.     *)
(* Nothing else breaks these promises.                                      *)
(*                                                                          *)
(* RideCommandsProofs says who drives a ride; there the commands on all     *)
(* bookings count.  Here nothing is said of drivers, locks and the index,   *)
(* which a command that dies leaves as they are.                            *)
(***************************************************************************)
EXTENDS RideCommandsProofs

\* What the next step x of a command op has been told of its booking b.
Foreseen(op, x, b) ==
    LET state == booking[b].state
    IN  /\ op = "offer" /\ x = "write" => state = "SEARCHING"
        /\ op = "timeout" => state \in Open
        /\ op = "arrive" => /\ x = "write" => state = "ACCEPTED"
                            /\ x \in {"patch", "rewrite"} => state = "ARRIVED"
        /\ op = "start" => /\ x # "proof" => b \notin refunded
                           /\ x \in {"proof", "bind", "read", "write"} => state = "ARRIVED"
                           /\ x \in {"patch", "publish"} => state = "IN_PROGRESS"
        /\ op = "cancel" /\ x \in {"refund", "read", "write"} =>
               state \in {"SEARCHING", "AWAITING", "ACCEPTED", "ARRIVED"}
        /\ op = "complete" /\ x = "write" => state = "IN_PROGRESS"
        /\ op = "recover" => /\ x = "write" => state \in {"AWAITING", "ACCEPTED"}
                             /\ x \in {"patch", "unassign"} => state = "SEARCHING"

\* A cancellation of b has written the state and not yet the status.
Publishing(b) == \E s \in Slot :
    cmd[s].b = b /\ cmd[s].op = "cancel" /\ Head(cmd[s].todo) = "publish"

\* A status that lets a driver accept the ride belongs to a ride that waits for
\* one, is accepted or canceled.
Shut(b) ==
    booking[b].status \in Open =>
        booking[b].state \notin {"ARRIVED", "IN_PROGRESS", "COMPLETED"}

\* Of a canceled ride, to one whose cancellation is not over.
Sealed(b) ==
    booking[b].status \in Open /\ booking[b].state = "CANCELED" => Publishing(b)

Unpaid(b) == b \in refunded => booking[b].state \notin {"IN_PROGRESS", "COMPLETED"}

\* At most one command serves b now.
AloneOn(b) == \A r, s \in Slot : cmd[r].b = b /\ cmd[s].b = b => r = s

CrashInv(b) ==
    /\ Typed
    /\ AloneOn(b)
    /\ Unpaid(b) /\ Shut(b)
    /\ \A s \in Slot : cmd[s].b = b => Foreseen(cmd[s].op, Head(cmd[s].todo), b)

(***************************************************************************)
(* A step of a command, as far as the booking and its payment are concerned.*)
(***************************************************************************)
LEMMA HereNow ==
    ASSUME Typed, NEW s \in Slot, NEW op, NEW x, NEW d, NEW b, Here(s, op, x, d, b)
    PROVE  /\ op \in Op /\ b \in Booking /\ d \in Driver \cup {None}
           /\ booking[b] \in Records /\ cmd[s] # Idle
           /\ Walk(op, cmd[s].todo)
           /\ \/ <<op, x>> \in Ends
              \/ \E y : <<op, x, y>> \in Follows
<1>1. CmdTyped /\ KeysTyped /\ cmd[s].todo # <<>>
    BY DEF Typed, Here
<1>2. cmd[s].b \in Booking
    BY <1>1, Running
<1>3. booking[b] \in Records
    BY <1>1, <1>2 DEF Here, KeysTyped
<1>. QED
    BY <1>1, <1>3, Running, OpAt DEF Here

\* What the steps that write the booking do to its state and its status.
Writes(op, x, b) ==
    LET old == booking[b]
        new == booking'[b]
        Status == IF op = "arrive" THEN "ARRIVED"
                  ELSE IF op = "recover" THEN "SEARCHING" ELSE old.status
    IN  \/ /\ x \notin {"write", "patch", "publish", "rewrite", "unassign"}
           /\ new.state = old.state /\ new.status = old.status
        \/ /\ op = "accept" /\ x = "cas"
           /\ old.state \in Open \/ old.status \in Open
           /\ new.state = "ACCEPTED" /\ new.status = "ACCEPTED"
        \/ x = "write" /\ new.state = Target(op) /\ new.status = Status
        \/ x = "patch" /\ new.state = old.state /\ new.status = Status
        \/ /\ op \in {"start", "cancel", "complete"} /\ x = "publish"
           /\ new.state = old.state /\ new.status = Target(op)
        \/ /\ op = "arrive" /\ x = "rewrite"
           /\ new.state = "ARRIVED" /\ new.status = "ARRIVED"
        \/ /\ op = "recover" /\ x = "unassign"
           /\ new.state = old.state /\ new.status = "SEARCHING"

LEMMA WriteWrites ==
    ASSUME Typed, NEW s \in Slot, WriteState(s), NEW op, NEW x, NEW d, NEW b,
           Here(s, op, x, d, b)
    PROVE  /\ \A c \in Booking : c # b => booking'[c] = booking[c]
           /\ Writes(op, x, b)
<1>1. /\ op \in Op /\ b \in Booking /\ d \in Driver \cup {None} /\ booking[b] \in Records
      /\ booking \in [Booking -> Records]
    BY HereNow DEF Typed, KeysTyped
<1>2. x \in {"write", "patch"}
    BY DEF WriteState, At, Here
<1>3. PICK old : old = booking[b]
    OBVIOUS
<1>4. PICK set : set = [old EXCEPT !.state = Target(op)]
    OBVIOUS
<1>5. PICK bk : bk = Metadata(op, d, IF x = "write" THEN set ELSE old)
    OBVIOUS
<1>6. booking' = [booking EXCEPT ![b] = bk]
    BY <1>2, <1>3, <1>4, <1>5 DEF WriteState, Here, At
<1>7. set \in Records /\ set.state = Target(op) /\ set.status = old.status
    BY <1>1, <1>3, <1>4, TargetIsState DEF Records
<1>8. /\ bk.state = (IF x = "write" THEN Target(op) ELSE old.state)
      /\ op \notin {"arrive", "recover"} => bk.status = old.status
      /\ op = "arrive" => bk.status = "ARRIVED"
      /\ op = "recover" => bk.status = "SEARCHING"
    BY <1>1, <1>3, <1>5, <1>7, MetadataIs
<1>9. booking'[b] = bk /\ \A c \in Booking : c # b => booking'[c] = booking[c]
    BY <1>1, <1>6
<1>. QED
    BY <1>2, <1>3, <1>8, <1>9 DEF Writes

LEMMA PublishWrites ==
    ASSUME Typed, NEW s \in Slot, PublishStatus(s), NEW op, NEW x, NEW d, NEW b,
           Here(s, op, x, d, b)
    PROVE  /\ \A c \in Booking : c # b => booking'[c] = booking[c]
           /\ Writes(op, x, b)
<1>1. /\ b \in Booking /\ booking[b] \in Records /\ booking \in [Booking -> Records]
      /\ <<op, x>> \in Ends \/ \E y : <<op, x, y>> \in Follows
    BY HereNow DEF Typed, KeysTyped
<1>2. x = "publish"
    BY DEF PublishStatus, At, Here
<1>3. op \in {"start", "cancel", "complete"}
    BY <1>1, <1>2 DEF Ends, Follows
<1>4. PICK old : old = booking[b]
    OBVIOUS
<1>5. PICK set : set = [old EXCEPT !.status = Target(op)]
    OBVIOUS
<1>6. PICK bk : bk = IF op = "start" THEN [set EXCEPT !.driver = d, !.owner = d] ELSE set
    OBVIOUS
<1>7. booking' = [booking EXCEPT ![b] = bk]
    BY <1>4, <1>5, <1>6 DEF PublishStatus, Here
<1>8. bk.state = old.state /\ bk.status = Target(op)
    BY <1>1, <1>4, <1>5, <1>6 DEF Records
<1>9. booking'[b] = bk /\ \A c \in Booking : c # b => booking'[c] = booking[c]
    BY <1>1, <1>7
<1>. QED
    BY <1>2, <1>3, <1>4, <1>8, <1>9 DEF Writes

LEMMA CasWrites ==
    ASSUME Typed, NEW s \in Slot, AcceptCas(s), NEW op, NEW x, NEW d, NEW b,
           Here(s, op, x, d, b)
    PROVE  /\ \A c \in Booking : c # b => booking'[c] = booking[c]
           /\ Writes(op, x, b)
<1>1. /\ b \in Booking /\ booking \in [Booking -> Records]
      /\ <<op, x>> \in Ends \/ \E y : <<op, x, y>> \in Follows
    BY HereNow DEF Typed, KeysTyped
<1>2. x = "cas"
    BY DEF AcceptCas, At, Here
<1>3. op = "accept"
    BY <1>1, <1>2 DEF Ends, Follows
<1>4. PICK taken :
          taken = [state |-> "ACCEPTED", status |-> "ACCEPTED", driver |-> d, owner |-> d]
    OBVIOUS
<1>5. \/ UNCHANGED booking
      \/ booking' = [booking EXCEPT ![b] = booking[b]]
      \/ /\ booking[b].state \in Open \/ booking[b].status \in Open
         /\ booking' = [booking EXCEPT ![b] = taken]
    BY <1>4 DEF AcceptCas, Here
<1>6. /\ \A c \in Booking : c # b => booking'[c] = booking[c]
      /\ \/ booking'[b] = booking[b]
         \/ /\ booking[b].state \in Open \/ booking[b].status \in Open
            /\ booking'[b].state = "ACCEPTED" /\ booking'[b].status = "ACCEPTED"
    BY <1>1, <1>4, <1>5
<1>. QED
    BY <1>2, <1>3, <1>6 DEF Writes

LEMMA StepWrites ==
    ASSUME Typed, NEW s \in Slot, CommandStep(s), NEW op, NEW x, NEW d, NEW b,
           Here(s, op, x, d, b)
    PROVE  /\ \A c \in Booking : c # b => booking'[c] = booking[c]
           /\ Writes(op, x, b)
           /\ \/ refunded' = refunded
              \/ op = "cancel" /\ x = "refund" /\ refunded' = refunded \cup {b}
<1>1. /\ b \in Booking /\ booking[b] \in Records /\ booking \in [Booking -> Records]
      /\ <<op, x>> \in Ends \/ \E y : <<op, x, y>> \in Follows
    BY HereNow DEF Typed, KeysTyped
<1>2. CASE RewriteArrival(s)
  <2>1. /\ x = "rewrite" /\ UNCHANGED refunded
        /\ booking' = [booking EXCEPT ![b] =
               [state |-> "ARRIVED", status |-> "ARRIVED", driver |-> d, owner |-> d]]
    BY <1>2 DEF RewriteArrival, At, Here
  <2>2. op = "arrive"
    BY <1>1, <2>1 DEF Ends, Follows
  <2>. QED
    BY <1>1, <2>1, <2>2 DEF Writes
<1>3. CASE Unassign(s)
  <2>1. x = "unassign" /\ UNCHANGED refunded
    BY <1>3 DEF Unassign, At, Here
  <2>2. op = "recover"
    BY <1>1, <2>1 DEF Ends, Follows
  <2>3. PICK bk : bk = [booking[b] EXCEPT !.status = "SEARCHING", !.driver = None]
    OBVIOUS
  <2>4. booking' = [booking EXCEPT ![b] = bk]
    BY <1>1, <1>3, <2>3 DEF Unassign, Here
  <2>5. bk.state = booking[b].state /\ bk.status = "SEARCHING"
    BY <1>1, <2>3 DEF Records
  <2>6. booking'[b] = bk /\ \A c \in Booking : c # b => booking'[c] = booking[c]
    BY <1>1, <2>4
  <2>. QED
    BY <2>1, <2>2, <2>5, <2>6 DEF Writes
<1>4. CASE WriteState(s) \/ PublishStatus(s) \/ AcceptCas(s)
  <2>1. refunded' = refunded
    BY <1>4 DEF WriteState, PublishStatus, AcceptCas
  <2>. QED
    BY <1>4, <2>1, WriteWrites, PublishWrites, CasWrites
<1>5. CASE Refund(s)
  <2>1. x = "refund" /\ UNCHANGED booking /\ refunded' = refunded \cup {b}
    BY <1>5 DEF Refund, At, Here
  <2>2. op = "cancel"
    BY <1>1, <2>1 DEF Ends, Follows
  <2>. QED
    BY <2>1, <2>2 DEF Writes
<1>6. ASSUME x \notin {"write", "patch", "publish", "rewrite", "unassign"},
             UNCHANGED <<booking, refunded>>
      PROVE  /\ \A c \in Booking : c # b => booking'[c] = booking[c]
             /\ Writes(op, x, b) /\ refunded' = refunded
    BY <1>6 DEF Writes
<1>7. CASE \/ AcquireLock(s) \/ CheckOffer(s) \/ Notify(s) \/ ScheduleTimeout(s)
           \/ DropOffer(s) \/ Probe(s) \/ InspectLock(s) \/ Settle(s) \/ ReadState(s)
           \/ ProvePayment(s) \/ BindTrip(s) \/ FreeNotified(s) \/ CheckCancel(s)
           \/ ReleaseLock(s) \/ UnbindTrip(s) \/ GoOnUncleared(s)
  <2>1. /\ x \in {"acquire", "check", "notify", "schedule", "drop", "probe", "inspect",
                  "settle", "read", "proof", "bind", "free", "release", "unbind"}
        /\ UNCHANGED <<booking, refunded>>
    BY <1>7 DEF AcquireLock, CheckOffer, Notify, ScheduleTimeout, DropOffer, Probe,
       InspectLock, Settle, ReadState, ProvePayment, BindTrip, FreeNotified, CheckCancel,
       ReleaseLock, UnbindTrip, GoOnUncleared, At, Here, keys
  <2>. QED
    BY <1>6, <2>1
<1>. QED
    BY <1>2, <1>3, <1>4, <1>5, <1>7 DEF CommandStep

\* What the step x of a command on b has found when the command goes on with y.
Goes(op, x, y, b) ==
    /\ \/ <<op, x, y>> \in Follows
       \/ x = "read" /\ y = "patch" /\ booking[b].state = Target(op)
    /\ x = "read" /\ y = "write" => Target(op) \in ValidTransition(booking[b].state)
    /\ op = "start" /\ x = "proof" => b \notin refunded
    /\ op = "cancel" /\ x = "check" =>
           booking[b].state \notin {"IN_PROGRESS", "COMPLETED", "CANCELED"}

LEMMA AdvanceGoes ==
    ASSUME Typed, NEW s \in Slot, NEW op, NEW x, NEW d, NEW b, Here(s, op, x, d, b),
           Advance(s)
    PROVE  \/ cmd'[s] = Idle
           \/ /\ cmd'[s].op = op /\ cmd'[s].b = b
              /\ <<op, x, Head(cmd'[s].todo)>> \in Follows
<1>1. CmdTyped /\ cmd[s].todo # <<>>
    BY DEF Typed, Here
<1>2. CASE Tail(cmd[s].todo) # <<>>
  <2>1. <<op, x, Head(Tail(cmd[s].todo))>> \in Follows
    BY <1>1, <1>2, Running, WalkOn DEF Here
  <2>. QED
    BY <1>1, <1>2, <2>1, AdvanceCmd DEF Here
<1>. QED
    BY <1>1, <1>2, AdvanceCmd

LEMMA StepGoes ==
    ASSUME Typed, NEW s \in Slot, CommandStep(s), NEW op, NEW x, NEW d, NEW b,
           Here(s, op, x, d, b)
    PROVE  \/ cmd'[s] = Idle
           \/ /\ cmd'[s].op = op /\ cmd'[s].b = b
              /\ Goes(op, x, Head(cmd'[s].todo), b)
<1>. DEFINE On == /\ cmd'[s].op = op /\ cmd'[s].b = b
                  /\ Goes(op, x, Head(cmd'[s].todo), b)
<1>1. /\ CmdTyped /\ cmd[s].todo # <<>> /\ Walk(op, cmd[s].todo)
      /\ <<op, x>> \in Ends \/ \E y : <<op, x, y>> \in Follows
    BY HereNow DEF Typed, Here
<1>2. Abort(s) => cmd'[s] = Idle
    BY <1>1, AbortCmd
<1>3. CASE CheckCancel(s)
  <2>1. op = "cancel" /\ x = "check"
    BY <1>3 DEF CheckCancel, At, Here
  <2>2. ASSUME booking[b].state \notin {"IN_PROGRESS", "COMPLETED", "CANCELED"},
               cmd' = [cmd EXCEPT ![s].d = booking[cmd[s].b].driver, ![s].todo = Tail(@)]
        PROVE  On
    <3>1. /\ cmd'[s].op = "cancel" /\ cmd'[s].b = cmd[s].b
          /\ Head(cmd'[s].todo) = "refund"
      BY <1>3, <2>2, SnapshotCmd DEF CheckCancel
    <3>2. <<op, x, "refund">> \in Follows
      BY <2>1 DEF Follows
    <3>. QED
      BY <2>1, <2>2, <3>1, <3>2 DEF Goes, Here
  <2>. QED
    BY <1>2, <1>3, <2>2 DEF CheckCancel, Here
<1>4. CASE CheckOffer(s)
  <2>1. op = "offer" /\ x = "check"
    BY <1>4 DEF CheckOffer, At, Here
  <2>2. CASE GoOn(s, <<"notify", "schedule">>)
    <3>1. /\ cmd'[s].op = op /\ cmd'[s].b = b
          /\ cmd'[s].todo = <<"notify", "schedule">>
      BY <1>1, <2>1, <2>2, GoOnCmd, OtherWalks DEF Here
    <3>2. Head(cmd'[s].todo) = "notify"
      BY <3>1
    <3>. QED
      BY <2>1, <3>1, <3>2 DEF Goes, Follows
  <2>3. CASE Advance(s)
    BY <2>1, <2>3, AdvanceGoes DEF Goes
  <2>. QED
    BY <1>2, <1>4, <2>2, <2>3 DEF CheckOffer, Advance
<1>5. CASE Probe(s)
  <2>1. x = "probe"
    BY <1>5 DEF Probe, At, Here
  <2>2. op = "accept"
    BY <1>1, <2>1 DEF Ends, Follows
  <2>3. CASE GoOn(s, <<"inspect", "settle">>)
    <3>1. /\ cmd'[s].op = op /\ cmd'[s].b = b
          /\ cmd'[s].todo = <<"inspect", "settle">>
      BY <1>1, <2>2, <2>3, GoOnCmd, OtherWalks DEF Here
    <3>2. Head(cmd'[s].todo) = "inspect"
      BY <3>1
    <3>. QED
      BY <2>1, <2>2, <3>1, <3>2 DEF Goes, Follows
  <2>4. CASE Advance(s)
    BY <2>1, <2>2, <2>4, AdvanceGoes DEF Goes
  <2>. QED
    BY <1>5, <2>3, <2>4 DEF Probe
<1>6. CASE ReadState(s)
  <2>1. x = "read"
    BY <1>6 DEF ReadState, At, Here
  <2>2. ASSUME booking[b].state = Target(op),
               GoOn(s, <<"patch">> \o Tail(Tail(cmd[s].todo)))
        PROVE  On
    <3>1. PICK t : t = <<"patch">> \o Tail(Tail(cmd[s].todo))
      OBVIOUS
    <3>2. Walk(op, t) /\ Head(t) = "patch" /\ t # <<>>
      BY <1>1, <2>1, <3>1, ReadThenWrite DEF Here, Walk
    <3>3. cmd'[s].op = op /\ cmd'[s].b = b /\ cmd'[s].todo = t
      BY <1>1, <2>2, <3>1, <3>2, GoOnCmd DEF Here
    <3>. QED
      BY <2>1, <2>2, <3>2, <3>3 DEF Goes
  <2>3. ASSUME Target(op) \in ValidTransition(booking[b].state), Advance(s)
        PROVE  cmd'[s] = Idle \/ On
    BY <2>1, <2>3, AdvanceGoes DEF Goes
  <2>. QED
    BY <1>2, <1>6, <2>2, <2>3 DEF ReadState, Here
<1>7. CASE ProvePayment(s)
  <2>1. x = "proof" /\ (b \in refunded => Abort(s)) /\ (b \notin refunded => Advance(s))
    BY <1>7 DEF ProvePayment, At, Here
  <2>. QED
    BY <1>2, <2>1, AdvanceGoes DEF Goes
<1>8. CASE \/ AcquireLock(s) \/ Notify(s) \/ ScheduleTimeout(s) \/ DropOffer(s)
           \/ InspectLock(s) \/ AcceptCas(s) \/ Settle(s) \/ WriteState(s)
           \/ PublishStatus(s) \/ RewriteArrival(s) \/ BindTrip(s) \/ FreeNotified(s)
           \/ Refund(s) \/ ReleaseLock(s) \/ UnbindTrip(s) \/ GoOnUncleared(s)
           \/ Unassign(s)
  <2>1. x \notin {"read", "proof", "check"} /\ (Advance(s) \/ Abort(s))
    BY <1>8 DEF AcquireLock, Notify, ScheduleTimeout, DropOffer, InspectLock, AcceptCas,
       Settle, WriteState, PublishStatus, RewriteArrival, BindTrip, FreeNotified, Refund,
       ReleaseLock, UnbindTrip, GoOnUncleared, Unassign, At, Here
  <2>. QED
    BY <1>2, <2>1, AdvanceGoes DEF Goes
<1>. QED
    BY <1>3, <1>4, <1>5, <1>6, <1>7, <1>8 DEF CommandStep

(***************************************************************************)
(* What a step does to the booking it serves keeps the invariant there, and *)
(* what it does not touch keeps it elsewhere.                               *)
(***************************************************************************)
LEMMA OnlyOne ==
    ASSUME NEW s \in Slot, NEW op, NEW x, NEW d, NEW b, CrashInv(b), Here(s, op, x, d, b)
    PROVE  /\ \A r \in Slot : r # s => cmd[r].b # b
           /\ Foreseen(op, x, b) /\ Unpaid(b) /\ Shut(b)
           /\ Publishing(b) => op = "cancel" /\ x = "publish"
<1>1. \A r \in Slot : r # s => cmd[r].b # b
    BY DEF CrashInv, AloneOn, Here
<1>. QED
    BY <1>1 DEF CrashInv, Here, Publishing

\* A step that neither moves b nor a command on b.
LEMMA Apart ==
    ASSUME NEW b \in Booking, CrashInv(b), Typed', AloneOn(b)',
           booking'[b] = booking[b], b \in refunded' => b \in refunded,
           \A r \in Slot : cmd'[r] = cmd[r] \/ (cmd[r].b # b /\ cmd'[r].b # b)
    PROVE  CrashInv(b)' /\ (Sealed(b) => Sealed(b)')
<1>1. Unpaid(b)' /\ Shut(b)'
    BY DEF CrashInv, Unpaid, Shut
<1>2. ASSUME NEW r \in Slot, cmd'[r].b = b
      PROVE  Foreseen(cmd[r].op, Head(cmd[r].todo), b)'
  <2>1. cmd'[r] = cmd[r]
    BY <1>2
  <2>2. Foreseen(cmd[r].op, Head(cmd[r].todo), b)
    BY <1>2, <2>1 DEF CrashInv
  <2>. QED
    BY <2>1, <2>2 DEF Foreseen
<1>3. Publishing(b) => Publishing(b)'
    BY DEF Publishing
<1>. QED
    BY <1>1, <1>2, <1>3 DEF CrashInv, Sealed

\* What a step of a command may do to the state of its booking.
LEMMA StateMoves ==
    ASSUME NEW op \in Op, NEW x, NEW b, booking[b] \in Records,
           Foreseen(op, x, b), Writes(op, x, b), Shut(b),
           <<op, x>> \in Ends \/ \E y : <<op, x, y>> \in Follows
    PROVE  \/ booking'[b].state = booking[b].state
           \/ /\ x = "write"
              /\ <<op, booking[b].state, booking'[b].state>> \in
                     {<<"offer", "SEARCHING", "AWAITING">>, <<"timeout", "AWAITING", "SEARCHING">>,
                      <<"timeout", "SEARCHING", "SEARCHING">>,
                      <<"arrive", "ACCEPTED", "ARRIVED">>, <<"start", "ARRIVED", "IN_PROGRESS">>,
                      <<"complete", "IN_PROGRESS", "COMPLETED">>,
                      <<"recover", "AWAITING", "SEARCHING">>,
                      <<"recover", "ACCEPTED", "SEARCHING">>}
           \/ /\ op = "cancel" /\ x = "write" /\ booking'[b].state = "CANCELED"
              /\ booking[b].state \in {"SEARCHING", "AWAITING", "ACCEPTED", "ARRIVED"}
           \/ /\ op = "accept" /\ x = "cas" /\ booking'[b].state = "ACCEPTED"
              /\ booking'[b].status = "ACCEPTED"
              /\ booking[b].state \in Open \/ booking[b].status \in Open
<1>1. CASE x = "write"
  <2>1. booking'[b].state = Target(op)
    BY <1>1 DEF Writes
  <2>2. op \in {"offer", "timeout", "arrive", "start", "cancel", "complete", "recover"}
    BY <1>1 DEF Ends, Follows
  <2>. QED
    BY <1>1, <2>1, <2>2, Targets DEF Foreseen, Open
<1>2. CASE op = "arrive" /\ x = "rewrite"
    BY <1>2 DEF Writes, Foreseen
<1>. QED
    BY <1>1, <1>2 DEF Writes

LEMMA StepUnpaid ==
    ASSUME NEW s \in Slot, CommandStep(s), NEW op, NEW x, NEW d, NEW b, CrashInv(b),
           Here(s, op, x, d, b)
    PROVE  Unpaid(b)'
<1>1. /\ op \in Op /\ booking[b] \in Records
      /\ <<op, x>> \in Ends \/ \E y : <<op, x, y>> \in Follows
    BY HereNow DEF CrashInv
<1>2. /\ Foreseen(op, x, b) /\ Unpaid(b) /\ Shut(b) /\ Writes(op, x, b)
      /\ refunded' = refunded \/ (op = "cancel" /\ x = "refund" /\ refunded' = refunded \cup {b})
    BY OnlyOne, StepWrites DEF CrashInv
<1>3. CASE op = "cancel" /\ x = "refund"
  <2>1. booking'[b].state = booking[b].state
    BY <1>2, <1>3 DEF Writes
  <2>. QED
    BY <1>2, <1>3, <2>1 DEF Unpaid, Foreseen
<1>4. CASE refunded' = refunded
    BY <1>1, <1>2, <1>4, StateMoves DEF Unpaid, Foreseen
<1>. QED
    BY <1>2, <1>3, <1>4

\* A cancellation that writes the state has still to write the status.
LEMMA CancelPublishes ==
    ASSUME NEW s \in Slot, CommandStep(s), NEW d, NEW b, CrashInv(b),
           Here(s, "cancel", "write", d, b)
    PROVE  Publishing(b)'
<1>1. \/ cmd'[s] = Idle
      \/ /\ cmd'[s].op = "cancel" /\ cmd'[s].b = b
         /\ Goes("cancel", "write", Head(cmd'[s].todo), b)
    BY StepGoes DEF CrashInv
<1>2. cmd'[s] # Idle
  <2>1. /\ CmdTyped /\ cmd[s].todo # <<>>
        /\ Tail(cmd[s].todo) = <<>> => <<"cancel", "write">> \in Ends
    BY OpAt DEF CrashInv, Typed, Here
  <2>2. <<"cancel", "write">> \notin Ends
    BY DEF Ends
  <2>3. WriteState(s)
    BY DEF CommandStep, AcquireLock, CheckOffer, Notify, ScheduleTimeout, DropOffer,
       Probe, InspectLock, AcceptCas, Settle, ReadState, PublishStatus, RewriteArrival,
       ProvePayment, BindTrip, FreeNotified, CheckCancel, Refund, ReleaseLock, UnbindTrip,
       GoOnUncleared, Unassign, At, Here
  <2>4. Advance(s)
    BY <2>3 DEF WriteState
  <2>5. cmd'[s].op = cmd[s].op
    BY <2>1, <2>2, <2>4, AdvanceCmd
  <2>6. "cancel" \in Op
    BY DEF Op
  <2>. QED
    BY <2>5, <2>6, IdleIsNot DEF Here
<1>3. Head(cmd'[s].todo) = "publish"
    BY <1>1, <1>2 DEF Goes, Follows
<1>. QED
    BY <1>1, <1>2, <1>3 DEF Publishing

LEMMA StepShut ==
    ASSUME NEW s \in Slot, CommandStep(s), NEW op, NEW x, NEW d, NEW b, CrashInv(b),
           Here(s, op, x, d, b)
    PROVE  Shut(b)' /\ (Sealed(b) => Sealed(b)')
<1>1. /\ op \in Op /\ booking[b] \in Records
      /\ <<op, x>> \in Ends \/ \E y : <<op, x, y>> \in Follows
    BY HereNow DEF CrashInv
<1>2. /\ Foreseen(op, x, b) /\ Shut(b) /\ Writes(op, x, b)
      /\ Publishing(b) => op = "cancel" /\ x = "publish"
    BY OnlyOne, StepWrites DEF CrashInv
<1>3. CASE x = "write" /\ op = "cancel"
  <2>1. booking'[b].state = "CANCELED"
    BY <1>2, <1>3, Targets DEF Writes
  <2>2. Publishing(b)'
    BY <1>3, CancelPublishes
  <2>. QED
    BY <2>1, <2>2 DEF Shut, Sealed
<1>4. CASE x = "write" /\ op # "cancel"
  <2>1. /\ booking'[b].state = Target(op)
        /\ booking'[b].status = IF op = "arrive" THEN "ARRIVED"
                                ELSE IF op = "recover" THEN "SEARCHING" ELSE booking[b].status
    BY <1>2, <1>4 DEF Writes
  <2>2. op \in {"offer", "timeout", "arrive", "start", "complete", "recover"}
    BY <1>1, <1>4 DEF Ends, Follows
  <2>. QED
    BY <1>2, <1>4, <2>1, <2>2, Targets DEF Shut, Sealed, Foreseen, Open
<1>5. CASE x = "publish"
  <2>1. booking'[b].status = Target(op) /\ op \in {"start", "cancel", "complete"}
    BY <1>2, <1>5 DEF Writes
  <2>. QED
    BY <2>1, Targets DEF Shut, Sealed, Open
<1>6. CASE x \notin {"write", "publish"}
  <2>1. Shut(b) /\ ~Publishing(b)
    BY <1>2, <1>6
  <2>2. \/ booking'[b].state = booking[b].state /\ booking'[b].status = booking[b].status
        \/ booking'[b].status \notin Open
        \/ booking'[b].state = "SEARCHING"
    BY <1>1, <1>2, <1>6 DEF Writes, Foreseen, Open
  <2>. QED
    BY <2>1, <2>2 DEF Shut, Sealed
<1>. QED
    BY <1>3, <1>4, <1>5, <1>6

LEMMA StepForeseen ==
    ASSUME NEW s \in Slot, CommandStep(s), NEW op, NEW x, NEW d, NEW b, CrashInv(b),
           Here(s, op, x, d, b), NEW y, Goes(op, x, y, b)
    PROVE  Foreseen(op, y, b)'
<1>1. op \in Op /\ booking[b] \in Records
    BY HereNow DEF CrashInv
<1>2. /\ Foreseen(op, x, b) /\ Writes(op, x, b) /\ booking[b].state \in State
      /\ refunded' = refunded \/ op = "cancel"
    BY <1>1, OnlyOne, StepWrites DEF CrashInv, Records
<1>3. CASE op = "offer"
    BY <1>2, <1>3, Targets, Transitions DEF Goes, Follows, Writes, Foreseen
<1>4. CASE op = "timeout"
    BY <1>2, <1>4, Targets DEF Goes, Follows, Writes, Foreseen, Open
<1>5. CASE op = "arrive"
    BY <1>2, <1>5, Targets, Transitions DEF Goes, Follows, Writes, Foreseen
<1>6. CASE op = "start"
    BY <1>2, <1>6, Targets, Transitions DEF Goes, Follows, Writes, Foreseen
<1>7. CASE op = "cancel"
    BY <1>2, <1>7, Targets DEF Goes, Follows, Writes, Foreseen, State
<1>8. CASE op = "complete"
    BY <1>2, <1>8, Targets, Transitions DEF Goes, Follows, Writes, Foreseen
<1>9. CASE op = "recover"
  <2>1. "SEARCHING" \in ValidTransition(booking[b].state)
            => booking[b].state \in {"AWAITING", "ACCEPTED"}
    <3>1. /\ ValidTransition("SEARCHING") = {"AWAITING", "CANCELED"}
          /\ ValidTransition("ARRIVED") = {"IN_PROGRESS", "CANCELED"}
          /\ ValidTransition("IN_PROGRESS") = {"COMPLETED", "CANCELED"}
          /\ ValidTransition("COMPLETED") = {} /\ ValidTransition("CANCELED") = {}
      BY Zenon DEF ValidTransition
    <3>. QED
      BY <1>2, <3>1 DEF State
  <2>. QED
    BY <1>2, <1>9, <2>1, Targets DEF Goes, Follows, Writes, Foreseen
<1>10. CASE op = "accept"
    BY <1>10 DEF Foreseen
<1>. QED
    BY <1>1, <1>3, <1>4, <1>5, <1>6, <1>7, <1>8, <1>9, <1>10 DEF Op

LEMMA StepKeeps ==
    ASSUME NEW b \in Booking, CrashInv(b), AloneOn(b)', NEW s \in Slot, CommandStep(s)
    PROVE  CrashInv(b)' /\ (Sealed(b) => Sealed(b)')
<1>1. /\ Typed' /\ cmd[s].todo # <<>>
      /\ \A r \in Slot : r # s => cmd'[r] = cmd[r]
    BY StepCmd, StepKeys DEF CrashInv, Typed
<1>2. PICK op, x, d, c : Here(s, op, x, d, c)
    BY <1>1, SomeHere
<1>3. /\ c \in Booking /\ cmd[s].b = c
      /\ \A e \in Booking : e # c => booking'[e] = booking[e]
      /\ refunded' = refunded \/ refunded' = refunded \cup {c}
  <2>1. Typed
    BY DEF CrashInv
  <2>2. c \in Booking /\ cmd[s].b = c
    BY <1>2, <2>1, HereNow DEF Here
  <2>3. /\ \A e \in Booking : e # c => booking'[e] = booking[e]
        /\ refunded' = refunded \/ refunded' = refunded \cup {c}
    BY <1>2, <2>1, StepWrites
  <2>. QED
    BY <2>2, <2>3
<1>4. \/ cmd'[s] = Idle
      \/ /\ cmd'[s].op = op /\ cmd'[s].b = c
         /\ Goes(op, x, Head(cmd'[s].todo), c)
    BY <1>2, StepGoes DEF CrashInv
<1>5. CASE c # b
  <2>1. cmd'[s].b # b
    BY <1>4, <1>5, IdleIsNot
  <2>. QED
    BY <1>1, <1>3, <1>5, <2>1, Apart
<1>6. CASE c = b
  <2>1. /\ Unpaid(b)'
        /\ Shut(b)' /\ (Sealed(b) => Sealed(b)')
    BY <1>2, <1>6, StepUnpaid, StepShut
  <2>2. PICK y : y = Head(cmd'[s].todo)
    OBVIOUS
  <2>3. cmd'[s] # Idle => Foreseen(op, y, b)'
    BY <1>2, <1>4, <1>6, <2>2, StepForeseen
  <2>4. cmd'[s].b = b => Foreseen(cmd[s].op, Head(cmd[s].todo), b)'
    BY <1>4, <2>2, <2>3, IdleIsNot
  <2>5. \A r \in Slot : r # s => cmd'[r].b # b
    BY <1>1, <1>2, <1>6, OnlyOne
  <2>. QED
    BY <1>1, <2>1, <2>4, <2>5 DEF CrashInv
<1>. QED
    BY <1>5, <1>6

(***************************************************************************)
(* Beginning, dying, and the keys that expire.                              *)
(***************************************************************************)
LEMMA BeginKeeps ==
    ASSUME NEW b \in Booking, CrashInv(b), AloneOn(b)', NEW s \in Slot, BeginCommand(s)
    PROVE  CrashInv(b)' /\ (Sealed(b) => Sealed(b)')
<1>1. Typed' /\ CmdTyped /\ UNCHANGED <<booking, refunded>>
    BY BeginTyped, Beginning DEF CrashInv, Typed
<1>2. PICK op \in Op, d \in Driver \cup {None}, c \in Booking :
          \E t : Begun(op, d, c, t) /\ Begin(s, op, d, c, t)
    BY Beginning DEF CrashInv
<1>3. PICK t : Begun(op, d, c, t) /\ Begin(s, op, d, c, t)
    BY <1>2
<1>4. /\ \A r \in Slot : r # s => cmd'[r] = cmd[r]
      /\ cmd'[s] = [op |-> op, d |-> d, b |-> c, todo |-> t] /\ cmd[s] = Idle
    BY <1>1, <1>3, BeginCmd DEF Begun
<1>5. cmd[s].b # b
    BY <1>4, IdleIsNot
<1>6. CASE c # b
  <2>1. cmd'[s].b # b
    BY <1>4, <1>6
  <2>. QED
    BY <1>1, <1>4, <1>5, <2>1, Apart
<1>7. CASE c = b
  <2>1. \A r \in Slot : r # s => cmd'[r].b # b
    BY <1>4, <1>7 DEF AloneOn
  <2>2. ~Publishing(b)
    BY <1>4, <1>5, <2>1 DEF Publishing
  <2>3. Foreseen(op, Head(t), b)
    BY <1>3, <1>7 DEF Begun, Foreseen
  <2>4. Foreseen(cmd[s].op, Head(cmd[s].todo), b)'
    BY <1>1, <1>4, <2>3 DEF Foreseen
  <2>5. Unpaid(b)' /\ Shut(b)' /\ (Sealed(b) => Sealed(b)')
    BY <1>1, <2>2 DEF CrashInv, Unpaid, Shut, Sealed
  <2>. QED
    BY <1>1, <2>1, <2>4, <2>5 DEF CrashInv
<1>. QED
    BY <1>6, <1>7

\* This step does not break off a cancellation of b between its two writes.
CancelGoesOn(b) == \A s \in Slot :
    cmd[s].b = b /\ cmd[s].op = "cancel" /\ Head(cmd[s].todo) = "publish" => ~Crash(s)

LEMMA CrashKeeps ==
    ASSUME NEW b \in Booking, CrashInv(b), AloneOn(b)', NEW s \in Slot, Crash(s)
    PROVE  CrashInv(b)' /\ (Sealed(b) /\ CancelGoesOn(b) => Sealed(b)')
<1>1. Typed' /\ UNCHANGED <<booking, refunded>>
    BY AbortCmd, KeysKept DEF Crash, CrashInv, Typed, keys
<1>2. cmd'[s] = Idle /\ \A r \in Slot : r # s => cmd'[r] = cmd[r]
    BY AbortCmd DEF Crash, CrashInv, Typed
<1>3. cmd'[s].b # b
    BY <1>2, IdleIsNot
<1>4. CrashInv(b)'
  <2>1. Unpaid(b)' /\ Shut(b)'
    BY <1>1 DEF CrashInv, Unpaid, Shut
  <2>2. ASSUME NEW r \in Slot, cmd'[r].b = b
        PROVE  Foreseen(cmd[r].op, Head(cmd[r].todo), b)'
    <3>1. cmd'[r] = cmd[r]
      BY <1>2, <1>3, <2>2
    <3>2. Foreseen(cmd[r].op, Head(cmd[r].todo), b)
      BY <2>2, <3>1 DEF CrashInv
    <3>. QED
      BY <1>1, <3>1, <3>2 DEF Foreseen
  <2>. QED
    BY <1>1, <2>1, <2>2 DEF CrashInv
<1>5. ASSUME Sealed(b), CancelGoesOn(b)
      PROVE  Sealed(b)'
  <2>1. Publishing(b) => Publishing(b)'
    BY <1>2, <1>5 DEF Publishing, CancelGoesOn
  <2>. QED
    BY <1>1, <1>5, <2>1 DEF Sealed
<1>. QED
    BY <1>4, <1>5

LEMMA NextKeeps ==
    ASSUME NEW b \in Booking, CrashInv(b), AloneOn(b)', [Next]_vars
    PROVE  CrashInv(b)' /\ (Sealed(b) /\ [CancelGoesOn(b)]_vars => Sealed(b)')
<1>1. Typed'
    BY NextTyped DEF CrashInv
<1>2. CASE UNCHANGED <<booking, refunded, cmd>>
    BY <1>1, <1>2, Apart
<1>3. CASE UNCHANGED vars
    BY <1>2, <1>3 DEF vars
<1>4. ASSUME NEW d \in Driver, KeyStep(d)
      PROVE  UNCHANGED <<booking, refunded, cmd>>
    BY <1>4 DEF KeyStep, LockExpires, SyncActiveRide, OfferExpires
<1>5. CASE Next /\ vars' # vars
  <2>1. [CancelGoesOn(b)]_vars => CancelGoesOn(b)
    BY <1>5
  <2>. QED
    BY <1>2, <1>4, <1>5, <2>1, StepKeeps, BeginKeeps, CrashKeeps DEF Next
<1>. QED
    BY <1>3, <1>5

LEMMA InitCrashInv ==
    ASSUME Init, NEW b \in Booking
    PROVE  CrashInv(b) /\ Sealed(b)
<1>1. Typed
    BY InitTyped
<1>2. \A s \in Slot : cmd[s].b # b
    BY IdleIsNot DEF Init
<1>3. Unpaid(b) /\ Shut(b) /\ Sealed(b)
    BY DEF Init, Unpaid, Shut, Sealed
<1>. QED
    BY <1>1, <1>2, <1>3 DEF CrashInv, AloneOn

LEMMA CrashesKeep ==
    ASSUME NEW b \in Booking
    PROVE  Spec /\ []AloneOn(b) => []CrashInv(b)
<1>1. Init => CrashInv(b)
    BY InitCrashInv
<1>2. CrashInv(b) /\ AloneOn(b)' /\ [Next]_vars => CrashInv(b)'
    BY NextKeeps
<1>. QED
    BY <1>1, <1>2, PTL DEF Spec

LEMMA SealsKeep ==
    ASSUME NEW b \in Booking
    PROVE  Spec /\ []AloneOn(b) /\ [][CancelGoesOn(b)]_vars => []Sealed(b)
<1>1. Init => Sealed(b)
    BY InitCrashInv
<1>2. CrashInv(b) /\ AloneOn(b)' /\ [Next]_vars /\ [CancelGoesOn(b)]_vars /\ Sealed(b)
          => Sealed(b)'
    BY NextKeeps
<1>. QED
    BY <1>1, <1>2, CrashesKeep, PTL DEF Spec

(***************************************************************************)
(* What follows for a booking, whatever happens on others, whatever dies.   *)
(***************************************************************************)

\* A ride whose payment was returned goes on or is completed only in an
\* execution in which two commands were on it at once (CancelRideCommand's
\* refund and a start), wherever else commands overlap or die.
THEOREM RefundedNeverRides ==
    ASSUME NEW b \in Booking
    PROVE  Spec /\ []AloneOn(b)
             => [](b \in refunded => booking[b].state \notin {"IN_PROGRESS", "COMPLETED"})
<1>1. CrashInv(b) => (b \in refunded => booking[b].state \notin {"IN_PROGRESS", "COMPLETED"})
    BY DEF CrashInv, Unpaid
<1>. QED
    BY <1>1, CrashesKeep, PTL

\* A command op is serving b.
By(op, b) == \E s \in Slot : cmd[s].op = op /\ cmd[s].b = b

\* The moves of the state of a booking, by the command that makes them.  A
\* cancellation that died has written the state but not the status.
LegalMove(b) ==
    LET old == booking[b].state
        new == booking'[b].state
    IN  \/ new = old
        \/ By("offer", b) /\ old = "SEARCHING" /\ new = "AWAITING"
        \/ By("timeout", b) /\ old = "AWAITING" /\ new = "SEARCHING"
        \/ By("arrive", b) /\ old = "ACCEPTED" /\ new = "ARRIVED"
        \/ By("start", b) /\ old = "ARRIVED" /\ new = "IN_PROGRESS"
        \/ By("complete", b) /\ old = "IN_PROGRESS" /\ new = "COMPLETED"
        \/ By("recover", b) /\ old \in {"AWAITING", "ACCEPTED"} /\ new = "SEARCHING"
        \/ /\ By("cancel", b) /\ new = "CANCELED"
           /\ old \in {"SEARCHING", "AWAITING", "ACCEPTED", "ARRIVED"}
        \/ /\ By("accept", b) /\ new = "ACCEPTED"
           /\ \/ old \in Open
              \/ old = "CANCELED" /\ booking[b].status \in Open /\ ~Publishing(b)

LEMMA CommandMoves ==
    ASSUME NEW b \in Booking, CrashInv(b), NEW s \in Slot, CommandStep(s)
    PROVE  LegalMove(b)
<1>1. cmd[s].todo # <<>>
    BY StepCmd DEF CrashInv
<1>2. PICK op, x, d, c : Here(s, op, x, d, c)
    BY <1>1, SomeHere
<1>3. /\ op \in Op /\ booking[c] \in Records /\ cmd[s].op = op /\ cmd[s].b = c
      /\ <<op, x>> \in Ends \/ \E y : <<op, x, y>> \in Follows
      /\ \A e \in Booking : e # c => booking'[e] = booking[e]
      /\ Writes(op, x, c)
  <2>1. Typed
    BY DEF CrashInv
  <2>2. /\ op \in Op /\ booking[c] \in Records /\ cmd[s].op = op /\ cmd[s].b = c
        /\ <<op, x>> \in Ends \/ \E y : <<op, x, y>> \in Follows
    BY <1>2, <2>1, HereNow DEF Here
  <2>3. /\ \A e \in Booking : e # c => booking'[e] = booking[e]
        /\ Writes(op, x, c)
    BY <1>2, <2>1, StepWrites
  <2>. QED
    BY <2>2, <2>3
<1>5. CASE b # c
    BY <1>3, <1>5 DEF LegalMove
<1>6. CASE b = c
  <2>0. /\ Foreseen(op, x, b) /\ Shut(b)
        /\ Publishing(b) => op = "cancel" /\ x = "publish"
    BY <1>2, <1>6, OnlyOne
  <2>4. \/ booking'[b].state = booking[b].state
        \/ /\ x = "write"
           /\ <<op, booking[b].state, booking'[b].state>> \in
                  {<<"offer", "SEARCHING", "AWAITING">>, <<"timeout", "AWAITING", "SEARCHING">>,
                   <<"timeout", "SEARCHING", "SEARCHING">>,
                   <<"arrive", "ACCEPTED", "ARRIVED">>, <<"start", "ARRIVED", "IN_PROGRESS">>,
                   <<"complete", "IN_PROGRESS", "COMPLETED">>,
                   <<"recover", "AWAITING", "SEARCHING">>,
                   <<"recover", "ACCEPTED", "SEARCHING">>}
        \/ /\ op = "cancel" /\ x = "write" /\ booking'[b].state = "CANCELED"
           /\ booking[b].state \in {"SEARCHING", "AWAITING", "ACCEPTED", "ARRIVED"}
        \/ /\ op = "accept" /\ x = "cas" /\ booking'[b].state = "ACCEPTED"
           /\ booking'[b].status = "ACCEPTED"
           /\ booking[b].state \in Open \/ booking[b].status \in Open
    <3>1. /\ booking[b] \in Records /\ Writes(op, x, b)
          /\ <<op, x>> \in Ends \/ \E y : <<op, x, y>> \in Follows
      BY <1>3, <1>6
    <3>. QED
      BY <1>3, <2>0, <3>1, StateMoves
  <2>1. By(op, b)
    BY <1>3, <1>6 DEF By
  <2>2. CASE op = "accept" /\ booking'[b].state = "ACCEPTED"
    <3>1. CASE booking[b].state \in Open
      BY <2>1, <2>2, <3>1 DEF LegalMove
    <3>2. CASE booking[b].state \notin Open /\ booking[b].status \in Open
      <4>1. booking[b].state \in State /\ ~Publishing(b)
        BY <1>3, <1>6, <2>0, <2>2 DEF Records
      <4>2. booking[b].state \in {"ACCEPTED", "CANCELED"}
        BY <2>0, <3>2, <4>1 DEF Shut, Open, State
      <4>. QED
        BY <2>1, <2>2, <3>2, <4>1, <4>2 DEF LegalMove
    <3>3. CASE booking[b].state \notin Open /\ booking[b].status \notin Open
      <4>1. booking'[b].state = booking[b].state
        BY <2>2, <2>4, <3>3
      <4>. QED
        BY <4>1 DEF LegalMove
    <3>. QED
      BY <3>1, <3>2, <3>3
  <2>3. CASE ~(op = "accept" /\ booking'[b].state = "ACCEPTED")
    <3>1. \/ booking'[b].state = booking[b].state
          \/ <<op, booking[b].state, booking'[b].state>> \in
                 {<<"offer", "SEARCHING", "AWAITING">>, <<"timeout", "AWAITING", "SEARCHING">>,
                  <<"timeout", "SEARCHING", "SEARCHING">>,
                  <<"arrive", "ACCEPTED", "ARRIVED">>, <<"start", "ARRIVED", "IN_PROGRESS">>,
                  <<"complete", "IN_PROGRESS", "COMPLETED">>,
                  <<"recover", "AWAITING", "SEARCHING">>,
                  <<"recover", "ACCEPTED", "SEARCHING">>}
          \/ /\ op = "cancel" /\ booking'[b].state = "CANCELED"
             /\ booking[b].state \in {"SEARCHING", "AWAITING", "ACCEPTED", "ARRIVED"}
      BY <2>3, <2>4
    <3>. QED
      BY <2>1, <3>1 DEF LegalMove
  <2>. QED
    BY <2>2, <2>3
<1>. QED
    BY <1>5, <1>6

LEMMA AllMoves ==
    ASSUME NEW b \in Booking, CrashInv(b), [Next]_vars
    PROVE  LegalMove(b)
<1>1. ASSUME NEW s \in Slot, BeginCommand(s)
      PROVE  UNCHANGED booking
    BY <1>1, Beginning DEF CrashInv
<1>2. CASE UNCHANGED booking
    BY <1>2 DEF LegalMove
<1>3. ASSUME NEW d \in Driver, KeyStep(d)
      PROVE  UNCHANGED booking
    BY <1>3 DEF KeyStep, LockExpires, SyncActiveRide, OfferExpires
<1>. QED
    BY <1>1, <1>2, <1>3, CommandMoves DEF Next, Crash, keys, vars

\* Whatever dies, the state of a booking on which no two commands met moves only
\* along the transitions the service allows, each by the command it belongs to,
\* and from CANCELED to ACCEPTED only when no cancellation is going to write
\* the status any more: it died between its two writes.
THEOREM OnlyItsCommandMovesARide ==
    ASSUME NEW b \in Booking
    PROVE  Spec /\ []AloneOn(b) => [][LegalMove(b)]_vars
<1>1. CrashInv(b) /\ [Next]_vars => LegalMove(b)
    BY AllMoves
<1>. QED
    BY <1>1, CrashesKeep, PTL DEF Spec

\* "Recuperacao: motorista desconectou antes de iniciar": an accepted ride waits
\* for a driver again without a recovery only in an execution in which two
\* commands were on it at once (an accept and the timer of an old offer).
THEOREM AcceptedReopensByRecovery ==
    ASSUME NEW b \in Booking
    PROVE  Spec /\ []AloneOn(b) =>
             [][booking[b].state = "ACCEPTED" /\ booking'[b].state = "SEARCHING"
                    => By("recover", b)]_vars
<1>1. CrashInv(b) /\ [Next]_vars =>
        (booking[b].state = "ACCEPTED" /\ booking'[b].state = "SEARCHING" => By("recover", b))
    BY AllMoves DEF LegalMove, Open
<1>. QED
    BY <1>1, CrashesKeep, PTL DEF Spec

\* A ride that has started is canceled only in an execution in which two commands
\* were on it at once (its start and a cancellation that waited for a refund).
THEOREM StartedRideIsNotCanceled ==
    ASSUME NEW b \in Booking
    PROVE  Spec /\ []AloneOn(b) =>
             [][booking[b].state = "IN_PROGRESS" => booking'[b].state # "CANCELED"]_vars
<1>1. CrashInv(b) /\ [Next]_vars =>
        (booking[b].state = "IN_PROGRESS" => booking'[b].state # "CANCELED")
    BY AllMoves DEF LegalMove, Open
<1>. QED
    BY <1>1, CrashesKeep, PTL DEF Spec

\* "Estados finais nao podem transitar": a ride leaves a final state only in an
\* execution in which two commands were on it at once, or one canceling it died
\* between its two writes.
THEOREM FinalStaysFinal ==
    ASSUME NEW b \in Booking
    PROVE  Spec /\ []AloneOn(b) /\ [][CancelGoesOn(b)]_vars =>
             [][booking[b].state \in Terminal => booking'[b].state = booking[b].state]_vars
<1>1. CrashInv(b) /\ Sealed(b) /\ [Next]_vars =>
        (booking[b].state \in Terminal => booking'[b].state = booking[b].state)
    BY AllMoves DEF LegalMove, Sealed, Terminal, Open
<1>. QED
    BY <1>1, CrashesKeep, SealsKeep, PTL DEF Spec
=============================================================================
