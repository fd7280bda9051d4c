------------------------- MODULE RideCommandsProofs -------------------------
(***************************************************************************)
(* Proofs about RideCommands, for any drivers, bookings and commands under  *)
(* way.                                                                     *)
(*                                                                          *)
(* What a command has still to do is a walk: each step is one that may      *)
(* follow the step before it in the script of the command.  So the step it  *)
(* is about to take says which steps it has taken, and what they found.     *)
(***************************************************************************)
EXTENDS RideCommands, TLAPS, SequenceTheorems

\* The steps that may come one after the other in a command.
Follows ==
    {<<"offer", "acquire", "check">>, <<"offer", "check", "notify">>,
     <<"offer", "notify", "read">>, <<"offer", "notify", "schedule">>,
     <<"offer", "read", "write">>, <<"offer", "write", "schedule">>,
     <<"offer", "patch", "schedule">>,
     <<"timeout", "drop", "release">>, <<"timeout", "release", "read">>,
     <<"timeout", "read", "write">>,
     <<"accept", "probe", "inspect">>, <<"accept", "inspect", "cas">>,
     <<"accept", "inspect", "settle">>, <<"accept", "cas", "settle">>,
     <<"arrive", "read", "write">>, <<"arrive", "write", "rewrite">>,
     <<"arrive", "patch", "rewrite">>,
     <<"start", "proof", "bind">>, <<"start", "bind", "read">>,
     <<"start", "read", "write">>, <<"start", "write", "publish">>,
     <<"start", "patch", "publish">>,
     <<"cancel", "free", "check">>, <<"cancel", "check", "refund">>,
     <<"cancel", "refund", "read">>, <<"cancel", "read", "write">>,
     <<"cancel", "write", "publish">>, <<"cancel", "patch", "publish">>,
     <<"cancel", "publish", "release">>, <<"cancel", "release", "unbind">>,
     <<"complete", "read", "write">>, <<"complete", "write", "publish">>,
     <<"complete", "patch", "publish">>, <<"complete", "publish", "release">>,
     <<"complete", "release", "unbind">>,
     <<"recover", "unbind", "release">>, <<"recover", "release", "read">>,
     <<"recover", "read", "write">>, <<"recover", "write", "unassign">>,
     <<"recover", "patch", "unassign">>}

\* The steps a command may end with.
Ends == {<<"offer", "schedule">>, <<"timeout", "write">>, <<"timeout", "patch">>,
         <<"timeout", "release">>, <<"accept", "settle">>, <<"accept", "probe">>,
         <<"arrive", "rewrite">>, <<"start", "publish">>, <<"cancel", "unbind">>,
         <<"complete", "unbind">>, <<"recover", "unassign">>}

\* What a command op may have still to do.
Walk(op, t) ==
    /\ t \in Seq(Step) /\ t # <<>>
    /\ \A i \in 1 .. Len(t) - 1 : <<op, t[i], t[i + 1]>> \in Follows
    /\ <<op, t[Len(t)]>> \in Ends

(***************************************************************************)
(* Walks, and that every script is one.                                     *)
(***************************************************************************)
LEMMA WalkOn ==
    ASSUME NEW op, NEW t, Walk(op, t)
    PROVE  /\ t \in Seq(Step) /\ t # <<>> /\ Head(t) \in Step
           /\ Tail(t) \in Seq(Step)
           /\ Tail(t) = <<>> => <<op, Head(t)>> \in Ends
           /\ Tail(t) # <<>> => /\ <<op, Head(t), Head(Tail(t))>> \in Follows
                                /\ Walk(op, Tail(t))
<1>0. t \in Seq(Step) /\ t # <<>>
    BY DEF Walk
<1>1. /\ Head(t) \in Step /\ Tail(t) \in Seq(Step) /\ Head(t) = t[1]
      /\ Len(t) \in Nat /\ Len(t) > 0
    BY <1>0
<1>5. Len(Tail(t)) = Len(t) - 1
    BY <1>0
<1>2. \A i \in 1 .. Len(t) - 1 : Tail(t)[i] = t[i + 1]
    BY <1>0
<1>3. CASE Tail(t) = <<>>
  <2>1. Len(t) = 1
    <3>1. Len(Tail(t)) = 0
      BY <1>1, <1>3, EmptySeq
    <3>2. Len(t) - 1 = 0
      BY <1>5, <3>1, Zenon
    <3>. QED
      BY <1>1, <3>2
  <2>2. <<op, t[Len(t)]>> \in Ends
    BY DEF Walk
  <2>3. <<op, Head(t)>> \in Ends
    BY <1>1, <2>1, <2>2
  <2>. QED
    BY <1>0, <1>1, <1>3, <2>3
<1>4. CASE Tail(t) # <<>>
  <2>1. Len(t) > 1
    BY <1>0, <1>1, <1>4
  <2>2. Tail(t)[Len(Tail(t))] = t[Len(t)]
    BY <1>1, <1>2, <2>1
  <2>3. Head(Tail(t)) = t[2] /\ <<op, t[1], t[2]>> \in Follows
    BY <1>1, <1>2, <1>4, <2>1 DEF Walk
  <2>4. \A i \in 1 .. Len(Tail(t)) - 1 : <<op, Tail(t)[i], Tail(t)[i + 1]>> \in Follows
    <3>1. \A i \in 1 .. Len(Tail(t)) - 1 :
              /\ Tail(t)[i] = t[i + 1] /\ Tail(t)[i + 1] = t[(i + 1) + 1]
              /\ i + 1 \in 1 .. Len(t) - 1
      BY <1>1, <1>2
    <3>2. \A i \in 1 .. Len(t) - 1 : <<op, t[i], t[i + 1]>> \in Follows
      BY DEF Walk
    <3>. QED
      BY <3>1, <3>2
  <2>. QED
    BY <1>0, <1>1, <1>4, <2>2, <2>3, <2>4 DEF Walk
<1>. QED
    BY <1>0, <1>1, <1>3, <1>4

LEMMA Prepend ==
    ASSUME NEW op, NEW x \in Step, NEW r \in Seq(Step),
           r = <<>> => <<op, x>> \in Ends,
           r # <<>> => Walk(op, r) /\ <<op, x, Head(r)>> \in Follows
    PROVE  Walk(op, <<x>> \o r) /\ Head(<<x>> \o r) = x
<1>. DEFINE u == <<x>> \o r
<1>1. /\ u \in Seq(Step) /\ Len(u) = Len(r) + 1 /\ u[1] = x /\ Len(r) \in Nat
      /\ \A i \in 1 .. Len(r) : u[i + 1] = r[i]
    OBVIOUS
<1>2. u # <<>> /\ Head(u) = x
    BY <1>1
<1>3. CASE r = <<>>
  <2>1. Len(u) = 1
    BY <1>1, <1>3
  <2>. QED
    BY <1>1, <1>2, <1>3, <2>1 DEF Walk
<1>4. CASE r # <<>>
  <2>1. Len(r) > 0 /\ Head(r) = r[1]
    BY <1>1, <1>4
  <2>2. u[Len(u)] = r[Len(r)]
    BY <1>1, <2>1
  <2>3. ASSUME NEW i \in 1 .. Len(u) - 1
        PROVE  <<op, u[i], u[i + 1]>> \in Follows
    <3>1. CASE i = 1
      BY <1>1, <1>4, <2>1, <3>1
    <3>2. CASE i # 1
      <4>1. i - 1 \in 1 .. Len(r) - 1 /\ i \in 1 .. Len(r)
        BY <1>1, <3>2
      <4>2. u[i] = r[i - 1] /\ u[i + 1] = r[i]
        <5>1. u[(i - 1) + 1] = r[i - 1] /\ u[i + 1] = r[i]
          BY <1>1, <4>1
        <5>. QED
          BY <5>1, <4>1
      <4>3. <<op, r[i - 1], r[(i - 1) + 1]>> \in Follows
        BY <1>4, <4>1 DEF Walk
      <4>. QED
        BY <4>1, <4>2, <4>3
    <3>. QED
      BY <3>1, <3>2
  <2>. QED
    BY <1>1, <1>2, <1>4, <2>2, <2>3 DEF Walk
<1>. QED
    BY <1>3, <1>4

LEMMA ReadThenWrite ==
    ASSUME NEW op, NEW t, Walk(op, t), Head(t) = "read"
    PROVE  /\ Tail(t) # <<>> /\ Head(Tail(t)) = "write"
           /\ Walk(op, <<"patch">> \o Tail(Tail(t)))
           /\ Head(<<"patch">> \o Tail(Tail(t))) = "patch"
<1>. DEFINE r == Tail(Tail(t))
<1>1. Tail(t) # <<>> /\ Walk(op, Tail(t)) /\ Head(Tail(t)) = "write"
    BY WalkOn DEF Ends, Follows
<1>2. /\ r \in Seq(Step)
      /\ r = <<>> => <<op, "write">> \in Ends
      /\ r # <<>> => Walk(op, r) /\ <<op, "write", Head(r)>> \in Follows
    BY <1>1, WalkOn
<1>3. "patch" \in Step
    BY DEF Step
<1>4. /\ <<op, "write">> \in Ends => <<op, "patch">> \in Ends
      /\ <<op, "write", Head(r)>> \in Follows => <<op, "patch", Head(r)>> \in Follows
    BY DEF Ends, Follows
<1>. HIDE DEF r
<1>5. Walk(op, <<"patch">> \o r) /\ Head(<<"patch">> \o r) = "patch"
    BY <1>2, <1>3, <1>4, Prepend
<1>. QED
    BY <1>1, <1>5 DEF r

LEMMA ScriptsWalk ==
    \A op \in Op : Walk(op, Script(op))
<1>1. Walk("offer", Script("offer"))
  <2>. DEFINE t == <<"acquire", "check", "notify", "read", "write", "schedule">>
  <2>1. t \in Seq(Step) /\ t # <<>> /\ Len(t) = 6
    BY DEF Step
  <2>2. \A i \in 1 .. 5 : <<"offer", t[i], t[i + 1]>> \in Follows
    BY DEF Follows
  <2>3. <<"offer", t[6]>> \in Ends
    BY DEF Ends
  <2>4. Walk("offer", t)
    BY <2>1, <2>2, <2>3 DEF Walk
  <2>5. Script("offer") = t
    BY Zenon DEF Script
  <2>. QED
    BY <2>4, <2>5
<1>2. Walk("timeout", Script("timeout"))
  <2>. DEFINE t == <<"drop", "release", "read", "write">>
  <2>1. t \in Seq(Step) /\ t # <<>> /\ Len(t) = 4
    BY DEF Step
  <2>2. \A i \in 1 .. 3 : <<"timeout", t[i], t[i + 1]>> \in Follows
    BY DEF Follows
  <2>3. <<"timeout", t[4]>> \in Ends
    BY DEF Ends
  <2>4. Walk("timeout", t)
    BY <2>1, <2>2, <2>3 DEF Walk
  <2>5. Script("timeout") = t
    BY Zenon DEF Script
  <2>. QED
    BY <2>4, <2>5
<1>3. Walk("accept", Script("accept"))
  <2>. DEFINE t == <<"inspect", "cas", "settle">>
  <2>1. t \in Seq(Step) /\ t # <<>> /\ Len(t) = 3
    BY DEF Step
  <2>2. \A i \in 1 .. 2 : <<"accept", t[i], t[i + 1]>> \in Follows
    BY DEF Follows
  <2>3. <<"accept", t[3]>> \in Ends
    BY DEF Ends
  <2>4. Walk("accept", t)
    BY <2>1, <2>2, <2>3 DEF Walk
  <2>5. Script("accept") = t
    BY Zenon DEF Script
  <2>. QED
    BY <2>4, <2>5
<1>4. Walk("arrive", Script("arrive"))
  <2>. DEFINE t == <<"read", "write", "rewrite">>
  <2>1. t \in Seq(Step) /\ t # <<>> /\ Len(t) = 3
    BY DEF Step
  <2>2. \A i \in 1 .. 2 : <<"arrive", t[i], t[i + 1]>> \in Follows
    BY DEF Follows
  <2>3. <<"arrive", t[3]>> \in Ends
    BY DEF Ends
  <2>4. Walk("arrive", t)
    BY <2>1, <2>2, <2>3 DEF Walk
  <2>5. Script("arrive") = t
    BY Zenon DEF Script
  <2>. QED
    BY <2>4, <2>5
<1>5. Walk("start", Script("start"))
  <2>. DEFINE t == <<"proof", "bind", "read", "write", "publish">>
  <2>1. t \in Seq(Step) /\ t # <<>> /\ Len(t) = 5
    BY DEF Step
  <2>2. \A i \in 1 .. 4 : <<"start", t[i], t[i + 1]>> \in Follows
    BY DEF Follows
  <2>3. <<"start", t[5]>> \in Ends
    BY DEF Ends
  <2>4. Walk("start", t)
    BY <2>1, <2>2, <2>3 DEF Walk
  <2>5. Script("start") = t
    BY Zenon DEF Script
  <2>. QED
    BY <2>4, <2>5
<1>6. Walk("cancel", Script("cancel"))
  <2>. DEFINE t == <<"free", "check", "refund", "read", "write", "publish", "release", "unbind">>
  <2>1. t \in Seq(Step) /\ t # <<>> /\ Len(t) = 8
    BY DEF Step
  <2>2. \A i \in 1 .. 7 : <<"cancel", t[i], t[i + 1]>> \in Follows
    BY DEF Follows
  <2>3. <<"cancel", t[8]>> \in Ends
    BY DEF Ends
  <2>4. Walk("cancel", t)
    BY <2>1, <2>2, <2>3 DEF Walk
  <2>5. Script("cancel") = t
    BY Zenon DEF Script
  <2>. QED
    BY <2>4, <2>5
<1>7. Walk("complete", Script("complete"))
  <2>. DEFINE t == <<"read", "write", "publish", "release", "unbind">>
  <2>1. t \in Seq(Step) /\ t # <<>> /\ Len(t) = 5
    BY DEF Step
  <2>2. \A i \in 1 .. 4 : <<"complete", t[i], t[i + 1]>> \in Follows
    BY DEF Follows
  <2>3. <<"complete", t[5]>> \in Ends
    BY DEF Ends
  <2>4. Walk("complete", t)
    BY <2>1, <2>2, <2>3 DEF Walk
  <2>5. Script("complete") = t
    BY Zenon DEF Script
  <2>. QED
    BY <2>4, <2>5
<1>8. Walk("recover", Script("recover"))
  <2>. DEFINE t == <<"unbind", "release", "read", "write", "unassign">>
  <2>1. t \in Seq(Step) /\ t # <<>> /\ Len(t) = 5
    BY DEF Step
  <2>2. \A i \in 1 .. 4 : <<"recover", t[i], t[i + 1]>> \in Follows
    BY DEF Follows
  <2>3. <<"recover", t[5]>> \in Ends
    BY DEF Ends
  <2>4. Walk("recover", t)
    BY <2>1, <2>2, <2>3 DEF Walk
  <2>5. Script("recover") = t
    BY Zenon DEF Script
  <2>. QED
    BY <2>4, <2>5
<1>. QED
    BY <1>1, <1>2, <1>3, <1>4, <1>5, <1>6, <1>7, <1>8 DEF Op

LEMMA OtherWalks ==
    /\ Walk("offer", <<"notify", "schedule">>)
    /\ Walk("timeout", <<"drop", "release">>)
    /\ Walk("accept", <<"inspect", "settle">>)
    /\ Walk("accept", <<"probe">> \o Script("accept"))
    /\ Walk("accept", <<"probe">> \o <<>>)
    /\ <<>> \o Script("accept") = Script("accept")
<1>1. /\ Walk("offer", <<"notify", "schedule">>)
      /\ Walk("timeout", <<"drop", "release">>)
      /\ Walk("accept", <<"inspect", "settle">>)
    BY DEF Walk, Follows, Ends, Step
<1>2. Script("accept") = <<"inspect", "cas", "settle">> /\ Walk("accept", Script("accept"))
    BY Zenon, ScriptsWalk DEF Script, Op
<1>3. /\ Script("accept") \in Seq(Step) /\ Script("accept") # <<>>
      /\ Head(Script("accept")) = "inspect"
    BY <1>2 DEF Walk
<1>4. /\ "probe" \in Step /\ <<"accept", "probe", "inspect">> \in Follows
      /\ <<"accept", "probe">> \in Ends
    BY DEF Step, Follows, Ends
<1>5. Walk("accept", <<"probe">> \o Script("accept"))
    BY <1>2, <1>3, <1>4, Prepend
<1>6. Walk("accept", <<"probe">> \o <<>>)
  <2>1. <<>> \in Seq(Step)
    OBVIOUS
  <2>. QED
    BY <1>4, <2>1, Prepend
<1>7. <<>> \o Script("accept") = Script("accept")
    BY <1>3, ConcatEmptySeq
<1>. QED
    BY <1>1, <1>5, <1>6, <1>7

(***************************************************************************)
(* The type, and what a command under way is.                               *)
(***************************************************************************)
Commands == [op : Op, d : Driver \cup {None}, b : Booking, todo : Seq(Step) \ {<<>>}]

Records == [state : State, status : State,
            driver : Driver \cup {None}, owner : Driver \cup {None}]

\* Only a cancellation or a recovery may be without a driver.
Sound(c) ==
    /\ c \in Commands
    /\ Walk(c.op, c.todo)
    /\ c.op \notin {"cancel", "recover"} => c.d \in Driver

CmdTyped ==
    /\ cmd \in [Slot -> Commands \cup {Idle}]
    /\ \A s \in Slot : cmd[s] # Idle => Sound(cmd[s])

KeysTyped ==
    /\ booking \in [Booking -> Records]
    /\ refunded \subseteq Booking
    /\ lock \in [Driver -> Booking \cup {None}]
    /\ trip \in [Driver -> Booking \cup {None}]
    /\ offer \subseteq Driver \X Booking
    /\ timer \subseteq Driver \X Booking

Typed == CmdTyped /\ KeysTyped

LEMMA TypedIsType ==
    ASSUME Typed
    PROVE  TypeOK
BY DEF Typed, CmdTyped, KeysTyped, TypeOK, Commands, Records

LEMMA Running ==
    ASSUME CmdTyped, NEW s \in Slot, cmd[s].todo # <<>>
    PROVE  /\ cmd[s] # Idle /\ Sound(cmd[s])
           /\ cmd[s].op \in Op /\ cmd[s].b \in Booking
           /\ cmd[s].d \in Driver \cup {None}
           /\ cmd[s].todo \in Seq(Step) /\ Walk(cmd[s].op, cmd[s].todo)
           /\ cmd[s].op \notin {"cancel", "recover"} => cmd[s].d \in Driver
<1>1. cmd[s] # Idle
    BY DEF Idle
<1>2. Sound(cmd[s])
    BY <1>1 DEF CmdTyped
<1>. QED
    BY <1>1, <1>2 DEF Sound, Commands

LEMMA IdleIsNot ==
    /\ Idle.todo = <<>> /\ Idle.b = None /\ Idle.op = None /\ Idle.op \notin Op
    /\ Idle.b \notin Booking /\ Idle \notin Commands
BY NoneAssumption DEF Idle, Commands

LEMMA GoOnCmd ==
    ASSUME CmdTyped, NEW s \in Slot, cmd[s].todo # <<>>, NEW t,
           t = <<>> \/ Walk(cmd[s].op, t), GoOn(s, t)
    PROVE  /\ CmdTyped'
           /\ \A r \in Slot : r # s => cmd'[r] = cmd[r]
           /\ t = <<>> => cmd'[s] = Idle
           /\ t # <<>> => /\ cmd'[s].op = cmd[s].op /\ cmd'[s].d = cmd[s].d
                          /\ cmd'[s].b = cmd[s].b /\ cmd'[s].todo = t
<1>1. Sound(cmd[s]) /\ cmd \in [Slot -> Commands \cup {Idle}]
    BY Running DEF CmdTyped
<1>2. CASE t = <<>>
  <2>1. cmd' = [cmd EXCEPT ![s] = Idle]
    BY <1>2 DEF GoOn
  <2>2. cmd'[s] = Idle /\ \A r \in Slot : r # s => cmd'[r] = cmd[r]
    BY <1>1, <2>1
  <2>3. cmd' \in [Slot -> Commands \cup {Idle}]
    BY <1>1, <2>1
  <2>. QED
    BY <1>2, <2>2, <2>3 DEF CmdTyped
<1>3. CASE t # <<>>
  <2>. DEFINE c == [cmd[s] EXCEPT !.todo = t]
  <2>1. cmd' = [cmd EXCEPT ![s] = c]
    BY <1>3 DEF GoOn
  <2>2. t \in Seq(Step) \ {<<>>} /\ Walk(cmd[s].op, t)
    BY <1>3 DEF Walk
  <2>3. c \in Commands /\ c.op = cmd[s].op /\ c.d = cmd[s].d /\ c.b = cmd[s].b /\ c.todo = t
    BY <1>1, <2>2 DEF Sound, Commands
  <2>4. Sound(c)
    BY <1>1, <2>2, <2>3 DEF Sound
  <2>. HIDE DEF c
  <2>5. cmd'[s] = c /\ \A r \in Slot : r # s => cmd'[r] = cmd[r]
    BY <1>1, <2>1
  <2>6. cmd' \in [Slot -> Commands \cup {Idle}]
    BY <1>1, <2>1, <2>3
  <2>. QED
    BY <1>3, <2>3, <2>4, <2>5, <2>6 DEF CmdTyped
<1>. QED
    BY <1>2, <1>3

LEMMA AdvanceCmd ==
    ASSUME CmdTyped, NEW s \in Slot, cmd[s].todo # <<>>, Advance(s)
    PROVE  /\ CmdTyped'
           /\ \A r \in Slot : r # s => cmd'[r] = cmd[r]
           /\ Tail(cmd[s].todo) = <<>> => cmd'[s] = Idle
           /\ Tail(cmd[s].todo) # <<>> =>
                  /\ cmd'[s].op = cmd[s].op /\ cmd'[s].d = cmd[s].d
                  /\ cmd'[s].b = cmd[s].b /\ cmd'[s].todo = Tail(cmd[s].todo)
<1>1. Tail(cmd[s].todo) = <<>> \/ Walk(cmd[s].op, Tail(cmd[s].todo))
    BY Running, WalkOn
<1>. QED
    BY <1>1, GoOnCmd DEF Advance

LEMMA AbortCmd ==
    ASSUME CmdTyped, NEW s \in Slot, Abort(s)
    PROVE  /\ CmdTyped'
           /\ \A r \in Slot : r # s => cmd'[r] = cmd[r]
           /\ cmd'[s] = Idle
<1>1. cmd' = [cmd EXCEPT ![s] = Idle] /\ cmd \in [Slot -> Commands \cup {Idle}]
    BY DEF Abort, GoOn, CmdTyped
<1>2. cmd'[s] = Idle /\ \A r \in Slot : r # s => cmd'[r] = cmd[r]
    BY <1>1
<1>. QED
    BY <1>1, <1>2 DEF CmdTyped

LEMMA BeginCmd ==
    ASSUME CmdTyped, NEW s \in Slot, NEW op \in Op, NEW d \in Driver \cup {None},
           NEW b \in Booking, NEW t, Walk(op, t), Begin(s, op, d, b, t),
           op \notin {"cancel", "recover"} => d \in Driver
    PROVE  /\ CmdTyped'
           /\ \A r \in Slot : r # s => cmd'[r] = cmd[r]
           /\ cmd'[s] = [op |-> op, d |-> d, b |-> b, todo |-> t]
           /\ cmd[s] = Idle
<1>. DEFINE c == [op |-> op, d |-> d, b |-> b, todo |-> t]
<1>1. t \in Seq(Step) \ {<<>>}
    BY DEF Walk
<1>2. c \in Commands /\ Sound(c)
    BY <1>1 DEF Sound, Commands
<1>3. cmd' = [cmd EXCEPT ![s] = c] /\ cmd \in [Slot -> Commands \cup {Idle}]
      /\ cmd[s] = Idle
    BY DEF Begin, CmdTyped
<1>. HIDE DEF c
<1>4. cmd'[s] = c /\ \A r \in Slot : r # s => cmd'[r] = cmd[r]
    BY <1>3
<1>5. cmd' \in [Slot -> Commands \cup {Idle}]
    BY <1>2, <1>3
<1>. QED
    BY <1>2, <1>3, <1>4, <1>5 DEF CmdTyped, c

(***************************************************************************)
(* Updates of one key.                                                      *)
(***************************************************************************)
LEMMA SetBooking ==
    ASSUME booking \in [Booking -> Records], NEW b \in Booking, NEW bk \in Records,
           booking' = [booking EXCEPT ![b] = bk]
    PROVE  /\ booking' \in [Booking -> Records]
           /\ booking'[b] = bk
           /\ \A c \in Booking : c # b => booking'[c] = booking[c]
OBVIOUS

LEMMA SetKey ==
    ASSUME NEW f \in [Driver -> Booking \cup {None}], NEW d, NEW v \in Booking \cup {None}
    PROVE  /\ [f EXCEPT ![d] = v] \in [Driver -> Booking \cup {None}]
           /\ d \in Driver => [f EXCEPT ![d] = v][d] = v
           /\ \A e \in Driver : e # d => [f EXCEPT ![d] = v][e] = f[e]
OBVIOUS

LEMMA WithoutKey ==
    ASSUME NEW f \in [Driver -> Booking \cup {None}], NEW d, NEW b
    PROVE  /\ Without(f, d, b) \in [Driver -> Booking \cup {None}]
           /\ \A e \in Driver : Without(f, d, b)[e] = (IF e = d /\ f[e] = b THEN None ELSE f[e])
<1>1. None \in Booking \cup {None}
    OBVIOUS
<1>. QED
    BY <1>1 DEF Without

LEMMA TargetIsState ==
    \A op \in Op : Target(op) \in State
<1>. SUFFICES ASSUME NEW op \in Op
              PROVE  Target(op) \in State
    OBVIOUS
<1>. QED
    BY Zenon DEF Target, Op, State

LEMMA MetadataIs ==
    ASSUME NEW op \in Op, NEW d \in Driver \cup {None}, NEW bk \in Records
    PROVE  /\ Metadata(op, d, bk) \in Records
           /\ Metadata(op, d, bk).state = bk.state
           /\ op \notin {"arrive", "recover"} => Metadata(op, d, bk).status = bk.status
           /\ op = "arrive" => Metadata(op, d, bk).status = "ARRIVED"
           /\ op = "recover" => Metadata(op, d, bk).status = "SEARCHING"
           /\ op \in {"arrive", "start", "complete"} => Metadata(op, d, bk).driver = d
           /\ op \notin {"arrive", "start", "complete"} =>
                  Metadata(op, d, bk).driver = bk.driver
<1>1. CASE op = "arrive"
  <2>1. Metadata(op, d, bk) = [bk EXCEPT !.status = "ARRIVED", !.driver = d, !.owner = d]
    BY <1>1, Zenon DEF Metadata
  <2>. QED
    BY <1>1, <2>1 DEF Records, State
<1>2. CASE op \in {"start", "complete"}
  <2>1. Metadata(op, d, bk) = [bk EXCEPT !.driver = d]
    BY <1>2, Zenon DEF Metadata
  <2>. QED
    BY <1>2, <2>1 DEF Records
<1>3. CASE op = "recover"
  <2>1. Metadata(op, d, bk) = [bk EXCEPT !.status = "SEARCHING"]
    BY <1>3, Zenon DEF Metadata
  <2>. QED
    BY <1>3, <2>1 DEF Records, State
<1>4. CASE op \in {"offer", "timeout", "accept", "cancel"}
  <2>1. Metadata(op, d, bk) = bk
    BY <1>4, Zenon DEF Metadata
  <2>. QED
    BY <1>4, <2>1
<1>. QED
    BY <1>1, <1>2, <1>3, <1>4 DEF Op

LEMMA KeysKept ==
    ASSUME KeysTyped, UNCHANGED keys
    PROVE  KeysTyped'
BY DEF KeysTyped, keys

(***************************************************************************)
(* A command begins.                                                        *)
(***************************************************************************)
LEMMA ScriptHeads ==
    /\ Head(Script("offer")) = "acquire" /\ Head(Script("timeout")) = "drop"
    /\ Head(Script("accept")) = "inspect" /\ Head(Script("arrive")) = "read"
    /\ Head(Script("start")) = "proof" /\ Head(Script("cancel")) = "free"
    /\ Head(Script("complete")) = "read" /\ Head(Script("recover")) = "unbind"
<1>1. /\ Head(<<"acquire", "check", "notify", "read", "write", "schedule">>) = "acquire"
      /\ Head(<<"drop", "release", "read", "write">>) = "drop"
      /\ Head(<<"inspect", "cas", "settle">>) = "inspect"
      /\ Head(<<"read", "write", "rewrite">>) = "read"
      /\ Head(<<"proof", "bind", "read", "write", "publish">>) = "proof"
      /\ Head(<<"free", "check", "refund", "read", "write", "publish", "release",
               "unbind">>) = "free"
      /\ Head(<<"read", "write", "publish", "release", "unbind">>) = "read"
      /\ Head(<<"unbind", "release", "read", "write", "unassign">>) = "unbind"
    OBVIOUS
<1>2. /\ Script("offer") = <<"acquire", "check", "notify", "read", "write", "schedule">>
      /\ Script("timeout") = <<"drop", "release", "read", "write">>
      /\ Script("accept") = <<"inspect", "cas", "settle">>
      /\ Script("arrive") = <<"read", "write", "rewrite">>
      /\ Script("start") = <<"proof", "bind", "read", "write", "publish">>
      /\ Script("cancel") = <<"free", "check", "refund", "read", "write", "publish",
                              "release", "unbind">>
      /\ Script("complete") = <<"read", "write", "publish", "release", "unbind">>
      /\ Script("recover") = <<"unbind", "release", "read", "write", "unassign">>
    BY Zenon DEF Script
<1>. QED
    BY <1>1, <1>2, Zenon

\* What holds when a command begins with the steps t.
Begun(op, d, b, t) ==
    /\ Walk(op, t)
    /\ op \notin {"cancel", "recover"} => d \in Driver
    /\ op = "offer" => Head(t) = "acquire"
    /\ op = "timeout" => Head(t) = "drop" /\ booking[b].state \in Open
    /\ op = "accept" => Head(t) \in {"probe", "inspect"}
    /\ op = "arrive" => Head(t) = "read" /\ booking[b].driver = d
    /\ op = "start" => Head(t) = "proof" /\ booking[b].state = "ARRIVED" /\ Assigned(b) = d
    /\ op = "cancel" => Head(t) = "free"
    /\ op = "complete" => Head(t) = "read" /\ booking[b].driver = d
    /\ op = "recover" => Head(t) = "unbind" /\ booking[b].driver = d /\ Accepted(b)

LEMMA Beginning ==
    ASSUME Typed, NEW s \in Slot, BeginCommand(s)
    PROVE  /\ UNCHANGED <<booking, refunded, lock, trip, offer>>
           /\ timer' \subseteq timer
           /\ \E op \in Op, d \in Driver \cup {None}, b \in Booking :
                 \E t : Begun(op, d, b, t) /\ Begin(s, op, d, b, t)
<1>. DEFINE Goal ==
        /\ UNCHANGED <<booking, refunded, lock, trip, offer>>
        /\ timer' \subseteq timer
        /\ \E op \in Op, d \in Driver \cup {None}, b \in Booking :
              \E t : Begun(op, d, b, t) /\ Begin(s, op, d, b, t)
<1>1. PICK b \in Booking :
        \/ BeginCancel(s, b)
        \/ BeginRecover(s, b)
        \/ \E d \in Driver :
             \/ BeginOffer(s, d, b)
             \/ FireTimeout(s, d, b)
             \/ BeginAccept(s, d, b)
             \/ BeginArrive(s, d, b)
             \/ BeginStart(s, d, b)
             \/ BeginComplete(s, d, b)
    BY DEF BeginCommand
<1>2. \A op \in Op : op \in Op /\ Walk(op, Script(op))
    BY ScriptsWalk
<1>0. /\ "offer" \in Op /\ "timeout" \in Op /\ "accept" \in Op /\ "arrive" \in Op
      /\ "start" \in Op /\ "cancel" \in Op /\ "complete" \in Op /\ "recover" \in Op
      /\ None \in Driver \cup {None} /\ \A d \in Driver : d \in Driver \cup {None}
    BY DEF Op
<1>3. CASE BeginCancel(s, b)
  <2>1. Begun("cancel", None, b, Script("cancel"))
    BY <1>0, <1>2, ScriptHeads DEF Begun
  <2>. QED
    BY <1>0, <1>3, <2>1 DEF BeginCancel, keys
<1>4. CASE BeginRecover(s, b)
  <2>1. booking[b].driver \in Driver \cup {None}
    BY DEF Typed, KeysTyped, Records
  <2>2. Begun("recover", booking[b].driver, b, Script("recover"))
    BY <1>0, <1>2, <1>4, ScriptHeads DEF Begun, BeginRecover
  <2>. QED
    BY <1>0, <1>4, <2>1, <2>2 DEF BeginRecover, keys
<1>5. ASSUME NEW d \in Driver, BeginOffer(s, d, b)
      PROVE  Goal
  <2>1. Begun("offer", d, b, Script("offer"))
    BY <1>0, <1>2, ScriptHeads DEF Begun
  <2>. QED
    BY <1>0, <1>5, <2>1 DEF BeginOffer, keys
<1>6. ASSUME NEW d \in Driver, FireTimeout(s, d, b)
      PROVE  Goal
  <2>. DEFINE t == IF booking[b].state = "AWAITING" THEN Script("timeout")
                   ELSE <<"drop", "release">>
  <2>1. Walk("timeout", t) /\ Head(t) = "drop"
    <3>1. Head(<<"drop", "release">>) = "drop"
      OBVIOUS
    <3>. QED
      BY <1>0, <1>2, <3>1, ScriptHeads, OtherWalks
  <2>2. /\ booking[b].state \in Open /\ Begin(s, "timeout", d, b, t)
        /\ UNCHANGED <<booking, refunded, lock, trip, offer>> /\ timer' \subseteq timer
    BY <1>6 DEF FireTimeout
  <2>. HIDE DEF t
  <2>3. Begun("timeout", d, b, t)
    BY <2>1, <2>2 DEF Begun
  <2>. QED
    BY <1>0, <2>2, <2>3
<1>7. ASSUME NEW d \in Driver, BeginAccept(s, d, b)
      PROVE  Goal
  <2>. DEFINE t == (IF Owned(d, b) THEN <<"probe">> ELSE <<>>)
                     \o (IF <<d, b>> \in offer THEN Script("accept") ELSE <<>>)
  <2>1. /\ <<d, b>> \in offer \/ Owned(d, b)
        /\ Begin(s, "accept", d, b, t) /\ UNCHANGED keys
    BY <1>7 DEF BeginAccept
  <2>2. Walk("accept", t) /\ Head(t) \in {"probe", "inspect"}
    <3>1. Script("accept") \in Seq(Step) /\ <<>> \in Seq(Step) /\ "probe" \in Step
      BY <1>0, <1>2, EmptySeq DEF Walk, Step
    <3>2. \A r \in Seq(Step) : Head(<<"probe">> \o r) = "probe"
      BY <3>1
    <3>3. CASE Owned(d, b) /\ <<d, b>> \in offer
      <4>1. t = <<"probe">> \o Script("accept")
        BY <3>3
      <4>. QED
        BY <3>1, <3>2, <4>1, OtherWalks
    <3>4. CASE Owned(d, b) /\ <<d, b>> \notin offer
      <4>1. t = <<"probe">> \o <<>>
        BY <3>4
      <4>. QED
        BY <3>1, <3>2, <4>1, OtherWalks
    <3>5. CASE ~Owned(d, b)
      <4>1. t = Script("accept")
        BY <2>1, <3>5, OtherWalks
      <4>. QED
        BY <1>0, <1>2, <4>1, ScriptHeads
    <3>. QED
      BY <3>3, <3>4, <3>5
  <2>. HIDE DEF t
  <2>3. Begun("accept", d, b, t)
    BY <2>2 DEF Begun
  <2>. QED
    BY <1>0, <2>1, <2>3 DEF keys
<1>8. ASSUME NEW d \in Driver, BeginArrive(s, d, b)
      PROVE  Goal
  <2>1. Begun("arrive", d, b, Script("arrive"))
    BY <1>0, <1>2, <1>8, ScriptHeads DEF Begun, BeginArrive
  <2>. QED
    BY <1>0, <1>8, <2>1 DEF BeginArrive, keys
<1>9. ASSUME NEW d \in Driver, BeginStart(s, d, b)
      PROVE  Goal
  <2>1. Begun("start", d, b, Script("start"))
    BY <1>0, <1>2, <1>9, ScriptHeads DEF Begun, BeginStart
  <2>. QED
    BY <1>0, <1>9, <2>1 DEF BeginStart, keys
<1>10. ASSUME NEW d \in Driver, BeginComplete(s, d, b)
       PROVE  Goal
  <2>1. Begun("complete", d, b, Script("complete"))
    BY <1>0, <1>2, <1>10, ScriptHeads DEF Begun, BeginComplete
  <2>. QED
    BY <1>0, <1>10, <2>1 DEF BeginComplete, keys
<1>. QED
    BY <1>1, <1>3, <1>4, <1>5, <1>6, <1>7, <1>8, <1>9, <1>10

LEMMA BeginTyped ==
    ASSUME Typed, NEW s \in Slot, BeginCommand(s)
    PROVE  Typed'
<1>0. PICK op \in Op, d \in Driver \cup {None}, b \in Booking :
          \E t : Begun(op, d, b, t) /\ Begin(s, op, d, b, t)
    BY Beginning
<1>1. PICK t : Begun(op, d, b, t) /\ Begin(s, op, d, b, t)
    BY <1>0
<1>2. CmdTyped'
    BY <1>1, BeginCmd DEF Begun, Typed
<1>3. KeysTyped'
    BY Beginning DEF Typed, KeysTyped
<1>. QED
    BY <1>2, <1>3 DEF Typed

(***************************************************************************)
(* Every step of a command keeps the type.                                  *)
(***************************************************************************)
LEMMA SnapshotCmd ==
    ASSUME Typed, NEW s \in Slot, cmd[s].op = "cancel", At(s, "check"),
           cmd' = [cmd EXCEPT ![s].d = booking[cmd[s].b].driver, ![s].todo = Tail(@)]
    PROVE  /\ CmdTyped'
           /\ \A r \in Slot : r # s => cmd'[r] = cmd[r]
           /\ cmd'[s].op = "cancel" /\ cmd'[s].d = booking[cmd[s].b].driver
           /\ cmd'[s].b = cmd[s].b /\ cmd'[s].todo = Tail(cmd[s].todo)
           /\ Tail(cmd[s].todo) # <<>> /\ Head(Tail(cmd[s].todo)) = "refund"
<1>. DEFINE t == Tail(cmd[s].todo)
<1>. DEFINE d == booking[cmd[s].b].driver
<1>1. /\ Sound(cmd[s]) /\ cmd \in [Slot -> Commands \cup {Idle}] /\ cmd[s] \in Commands
      /\ cmd[s].todo # <<>> /\ cmd[s].b \in Booking /\ Walk(cmd[s].op, cmd[s].todo)
    BY Running DEF Typed, CmdTyped, At, Sound
<1>2. /\ t = <<>> => <<"cancel", "check">> \in Ends
      /\ t # <<>> => Walk("cancel", t) /\ <<"cancel", "check", Head(t)>> \in Follows
    BY <1>1, WalkOn DEF At
<1>3. t # <<>> /\ Walk("cancel", t) /\ Head(t) = "refund" /\ t \in Seq(Step)
    BY <1>2 DEF Ends, Follows, Walk
<1>4. d \in Driver \cup {None}
    BY <1>1 DEF Typed, KeysTyped, Records
<1>. DEFINE c == [op |-> "cancel", d |-> d, b |-> cmd[s].b, todo |-> t]
<1>5. cmd' = [cmd EXCEPT ![s] = c]
    BY <1>1 DEF Commands
<1>6. c \in Commands /\ Sound(c) /\ c.op = "cancel" /\ c.d = d /\ c.b = cmd[s].b /\ c.todo = t
    BY <1>1, <1>3, <1>4 DEF Sound, Commands, Op
<1>. HIDE DEF c, d, t
<1>7. cmd'[s] = c /\ \A r \in Slot : r # s => cmd'[r] = cmd[r]
    BY <1>1, <1>5
<1>8. cmd' \in [Slot -> Commands \cup {Idle}]
    BY <1>1, <1>5, <1>6
<1>9. CmdTyped'
    BY <1>1, <1>6, <1>7, <1>8 DEF CmdTyped, Typed
<1>. QED
    BY <1>3, <1>6, <1>7, <1>9 DEF d, t

LEMMA StepCmd ==
    ASSUME Typed, NEW s \in Slot, CommandStep(s)
    PROVE  /\ cmd[s].todo # <<>>
           /\ CmdTyped'
           /\ \A r \in Slot : r # s => cmd'[r] = cmd[r]
           /\ cmd'[s] = Idle \/ (cmd'[s].op = cmd[s].op /\ cmd'[s].b = cmd[s].b)
<1>0. CmdTyped
    BY DEF Typed
<1>1. cmd[s].todo # <<>>
    BY DEF CommandStep, AcquireLock, CheckOffer, Notify, ScheduleTimeout, DropOffer, Probe,
           InspectLock, AcceptCas, Settle, ReadState, WriteState, PublishStatus,
           RewriteArrival, ProvePayment, BindTrip, FreeNotified, CheckCancel, Refund,
           ReleaseLock, UnbindTrip, GoOnUncleared, Unassign, At
<1>2. CASE Advance(s)
    BY <1>0, <1>1, <1>2, AdvanceCmd
<1>3. CASE Abort(s)
    BY <1>0, <1>1, <1>3, AbortCmd
<1>4. CASE CheckOffer(s)
  <2>1. CASE GoOn(s, <<"notify", "schedule">>)
    BY <1>0, <1>1, <1>4, <2>1, GoOnCmd, OtherWalks DEF CheckOffer
  <2>2. CASE GoOn(s, Tail(cmd[s].todo))
    BY <1>1, <1>2, <2>2 DEF Advance
  <2>. QED
    BY <1>3, <1>4, <2>1, <2>2 DEF CheckOffer
<1>5. CASE Probe(s)
  <2>1. cmd[s].op = "accept"
    <3>1. Walk(cmd[s].op, cmd[s].todo) /\ Head(cmd[s].todo) = "probe"
      BY <1>0, <1>1, <1>5, Running DEF Probe, At
    <3>2. \/ <<cmd[s].op, "probe">> \in Ends
          \/ <<cmd[s].op, "probe", Head(Tail(cmd[s].todo))>> \in Follows
      BY <3>1, WalkOn
    <3>. QED
      BY <3>2 DEF Ends, Follows
  <2>2. CASE GoOn(s, <<"inspect", "settle">>)
    BY <1>0, <1>1, <2>1, <2>2, GoOnCmd, OtherWalks
  <2>. QED
    BY <1>2, <1>5, <2>2 DEF Probe
<1>6. CASE ReadState(s)
  <2>1. Walk(cmd[s].op, <<"patch">> \o Tail(Tail(cmd[s].todo)))
    BY <1>0, <1>1, <1>6, Running, ReadThenWrite DEF ReadState, At
  <2>2. CASE GoOn(s, <<"patch">> \o Tail(Tail(cmd[s].todo)))
    BY <1>0, <1>1, <2>1, <2>2, GoOnCmd
  <2>. QED
    BY <1>2, <1>3, <1>6, <2>2 DEF ReadState
<1>7. CASE CheckCancel(s)
  <2>1. CASE cmd' = [cmd EXCEPT ![s].d = booking[cmd[s].b].driver, ![s].todo = Tail(@)]
    BY <1>1, <1>7, <2>1, SnapshotCmd DEF CheckCancel
  <2>. QED
    BY <1>3, <1>7, <2>1 DEF CheckCancel
<1>. QED
    BY <1>2, <1>3, <1>4, <1>5, <1>6, <1>7
       DEF CommandStep, AcquireLock, Notify, ScheduleTimeout, DropOffer,
           InspectLock, AcceptCas, Settle, WriteState, PublishStatus,
           RewriteArrival, ProvePayment, BindTrip, FreeNotified, Refund,
           ReleaseLock, UnbindTrip, GoOnUncleared, Unassign

LEMMA OpAt ==
    ASSUME CmdTyped, NEW s \in Slot, cmd[s].todo # <<>>
    PROVE  LET op == cmd[s].op  x == Head(cmd[s].todo)  t == Tail(cmd[s].todo)
           IN  \/ <<op, x>> \in Ends /\ t = <<>>
               \/ <<op, x, Head(t)>> \in Follows /\ t # <<>>
BY Running, WalkOn

LEMMA StepKeys ==
    ASSUME Typed, NEW s \in Slot, CommandStep(s)
    PROVE  KeysTyped'
<1>. DEFINE b == cmd[s].b
<1>. DEFINE d == cmd[s].d
<1>1. cmd[s].todo # <<>> /\ CmdTyped
    BY StepCmd DEF Typed
<1>2. /\ KeysTyped /\ b \in Booking /\ d \in Driver \cup {None} /\ cmd[s].op \in Op
      /\ cmd[s].op \notin {"cancel", "recover"} => d \in Driver
      /\ b \in Booking \cup {None} /\ None \in Booking \cup {None}
      /\ booking[b] \in Records
    BY <1>1, Running DEF Typed, KeysTyped
<1>3. \/ <<cmd[s].op, Head(cmd[s].todo)>> \in Ends
      \/ <<cmd[s].op, Head(cmd[s].todo), Head(Tail(cmd[s].todo))>> \in Follows
    BY <1>1, OpAt
<1>4. Head(cmd[s].todo) \in {"acquire", "notify", "schedule", "drop", "probe", "inspect",
                             "cas", "settle", "rewrite", "proof", "bind"}
          => cmd[s].op \notin {"cancel", "recover"}
    BY <1>3 DEF Ends, Follows
<1>a. CASE UNCHANGED keys
    BY <1>2, <1>a, KeysKept
<1>b. CASE AcquireLock(s)
    BY <1>2, <1>b, SetKey DEF AcquireLock, KeysTyped
<1>c. CASE CheckOffer(s)
    BY <1>2, <1>c, WithoutKey DEF CheckOffer, KeysTyped
<1>d. CASE Notify(s)
    BY <1>2, <1>4, <1>d DEF Notify, KeysTyped, At
<1>e. CASE ScheduleTimeout(s)
    BY <1>2, <1>4, <1>e DEF ScheduleTimeout, KeysTyped, At
<1>f. CASE DropOffer(s)
    BY <1>2, <1>f DEF DropOffer, KeysTyped
<1>g. CASE Probe(s)
    BY <1>2, <1>g, SetKey DEF Probe, KeysTyped
<1>h. CASE InspectLock(s)
  <2>. DEFINE left == IF lock[d] # None /\ Finished(lock[d]) THEN None ELSE lock[d]
  <2>1. lock' = [lock EXCEPT ![d] = left]
    BY <1>h DEF InspectLock
  <2>2. left \in Booking \cup {None}
    BY <1>2, <1>4, <1>h DEF KeysTyped, InspectLock, At
  <2>. HIDE DEF left
  <2>3. lock' \in [Driver -> Booking \cup {None}]
    BY <1>2, <2>1, <2>2, SetKey DEF KeysTyped
  <2>. QED
    BY <1>2, <1>h, <2>3 DEF InspectLock, KeysTyped
<1>i. CASE AcceptCas(s)
  <2>. DEFINE Taken == [state |-> "ACCEPTED", status |-> "ACCEPTED", driver |-> d, owner |-> d]
  <2>1. Taken \in Records
    BY <1>2 DEF Records, State
  <2>2. \/ UNCHANGED <<booking, lock, trip>>
        \/ /\ \/ booking' = [booking EXCEPT ![b] = Taken]
              \/ booking' = [booking EXCEPT ![b] = booking[b]]
           /\ lock' = [lock EXCEPT ![d] = b]
           /\ trip' = [trip EXCEPT ![d] = b]
    BY <1>i DEF AcceptCas
  <2>3. booking' \in [Booking -> Records]
    BY <1>2, <2>1, <2>2, SetBooking DEF KeysTyped
  <2>. QED
    BY <1>2, <1>i, <2>2, <2>3, SetKey DEF AcceptCas, KeysTyped
<1>j. CASE Settle(s)
    BY <1>2, <1>j DEF Settle, KeysTyped
<1>k. CASE WriteState(s)
  <2>. DEFINE bk == [booking[b] EXCEPT !.state = Target(cmd[s].op)]
  <2>1. bk \in Records
    BY <1>2, TargetIsState DEF Records
  <2>2. \/ booking' = [booking EXCEPT ![b] = Metadata(cmd[s].op, d, bk)]
        \/ booking' = [booking EXCEPT ![b] = Metadata(cmd[s].op, d, booking[b])]
    BY <1>k DEF WriteState
  <2>. HIDE DEF bk
  <2>3. /\ Metadata(cmd[s].op, d, bk) \in Records
        /\ Metadata(cmd[s].op, d, booking[b]) \in Records
    BY <1>2, <2>1, MetadataIs
  <2>4. booking' \in [Booking -> Records]
    BY <1>2, <2>2, <2>3, SetBooking DEF KeysTyped
  <2>. QED
    BY <1>2, <1>k, <2>4 DEF WriteState, KeysTyped
<1>l. CASE PublishStatus(s)
  <2>. DEFINE bk == [booking[b] EXCEPT !.status = Target(cmd[s].op)]
  <2>1. bk \in Records /\ [bk EXCEPT !.driver = d, !.owner = d] \in Records
    BY <1>2, TargetIsState DEF Records
  <2>2. \/ booking' = [booking EXCEPT ![b] = [bk EXCEPT !.driver = d, !.owner = d]]
        \/ booking' = [booking EXCEPT ![b] = bk]
    BY <1>l DEF PublishStatus
  <2>. HIDE DEF bk
  <2>3. booking' \in [Booking -> Records]
    BY <1>2, <2>1, <2>2, SetBooking DEF KeysTyped
  <2>. QED
    BY <1>2, <1>l, <2>3 DEF PublishStatus, KeysTyped
<1>m. CASE RewriteArrival(s)
  <2>. DEFINE bk == [state |-> "ARRIVED", status |-> "ARRIVED", driver |-> d, owner |-> d]
  <2>1. bk \in Records
    BY <1>2 DEF Records, State
  <2>2. booking' \in [Booking -> Records]
    BY <1>2, <1>m, <2>1, SetBooking DEF RewriteArrival, KeysTyped
  <2>. QED
    BY <1>2, <1>m, <2>2 DEF RewriteArrival, KeysTyped
<1>n. CASE BindTrip(s)
    BY <1>2, <1>n, SetKey DEF BindTrip, KeysTyped
<1>o. CASE FreeNotified(s)
    BY <1>2, <1>o DEF FreeNotified, KeysTyped
<1>p. CASE Refund(s)
    BY <1>2, <1>p DEF Refund, KeysTyped
<1>q. CASE ReleaseLock(s)
    BY <1>2, <1>q, WithoutKey DEF ReleaseLock, KeysTyped
<1>r. CASE UnbindTrip(s)
    BY <1>2, <1>r, WithoutKey DEF UnbindTrip, KeysTyped
<1>s. CASE Unassign(s)
  <2>. DEFINE bk == [booking[b] EXCEPT !.status = "SEARCHING", !.driver = None]
  <2>1. bk \in Records
    BY <1>2 DEF Records, State
  <2>2. booking' = [booking EXCEPT ![b] = bk]
    BY <1>2, <1>s DEF Unassign, KeysTyped
  <2>. HIDE DEF bk
  <2>3. booking' \in [Booking -> Records]
    BY <1>2, <2>1, <2>2, SetBooking DEF KeysTyped
  <2>. QED
    BY <1>2, <1>s, <2>3 DEF Unassign, KeysTyped
<1>t. CASE ReadState(s) \/ ProvePayment(s) \/ CheckCancel(s) \/ GoOnUncleared(s)
    BY <1>a, <1>t DEF ReadState, ProvePayment, CheckCancel, GoOnUncleared
<1>. QED
    BY <1>b, <1>c, <1>d, <1>e, <1>f, <1>g, <1>h, <1>i, <1>j, <1>k, <1>l, <1>m, <1>n,
       <1>o, <1>p, <1>q, <1>r, <1>s, <1>t DEF CommandStep

LEMMA InitTyped ==
    ASSUME Init
    PROVE  Typed
BY DEF Init, Typed, CmdTyped, KeysTyped, Records, State

LEMMA NextTyped ==
    ASSUME Typed, [Next]_vars
    PROVE  Typed'
<1>1. CASE UNCHANGED vars
    BY <1>1 DEF Typed, CmdTyped, KeysTyped, vars
<1>2. ASSUME NEW s \in Slot, BeginCommand(s)
      PROVE  Typed'
    BY <1>2, BeginTyped
<1>3. ASSUME NEW s \in Slot, CommandStep(s)
      PROVE  Typed'
    BY <1>3, StepCmd, StepKeys DEF Typed
<1>4. ASSUME NEW s \in Slot, Crash(s)
      PROVE  Typed'
    BY <1>4, AbortCmd, KeysKept DEF Crash, Typed
<1>5. ASSUME NEW d \in Driver, KeyStep(d)
      PROVE  Typed'
  <2>1. UNCHANGED <<booking, refunded, timer, cmd>> /\ offer' \subseteq offer
    BY <1>5 DEF KeyStep, LockExpires, SyncActiveRide, OfferExpires
  <2>2. /\ lock' \in [Driver -> Booking \cup {None}]
        /\ trip' \in [Driver -> Booking \cup {None}]
    BY <1>5, SetKey DEF KeyStep, LockExpires, SyncActiveRide, OfferExpires, Typed, KeysTyped
  <2>. QED
    BY <2>1, <2>2 DEF Typed, CmdTyped, KeysTyped
<1>. QED
    BY <1>1, <1>2, <1>3, <1>4, <1>5 DEF Next

\* Types, and the steps of every command under way in the order of its awaits.
LEMMA AlwaysTyped == Spec => []Typed
<1>1. Init => Typed
    BY InitTyped
<1>2. Typed /\ [Next]_vars => Typed'
    BY NextTyped
<1>. QED
    BY <1>1, <1>2, PTL DEF Spec

\* Every variable of the ride commands keeps its type, for any drivers, bookings
\* and commands under way, dying or not.
THEOREM TypeCorrect == Spec => []TypeOK
<1>1. Typed => TypeOK
    BY TypedIsType
<1>. QED
    BY <1>1, AlwaysTyped, PTL

(***************************************************************************)
(* No command takes what belongs to another ride.                           *)
(***************************************************************************)
TripKept(d, b) ==
    trip[d] = b /\ trip'[d] # b =>
        Finished(b) \/ Serves(b) \/ \E c \in Booking : Owned(d, c) /\ trip'[d] = c

LockKept(d, b) ==
    lock[d] = b /\ lock'[d] # b =>
        lock'[d] = None /\ (Finished(b) \/ Serves(b) \/ UNCHANGED cmd)

LEMMA MovesOn ==
    ASSUME CmdTyped, NEW s \in Slot, cmd[s].todo # <<>>, Advance(s) \/ Abort(s)
    PROVE  cmd'[s] # cmd[s]
<1>1. cmd[s] # Idle /\ cmd[s].todo \in Seq(Step)
    BY Running
<1>2. CASE Abort(s)
    BY <1>1, <1>2, AbortCmd
<1>3. CASE Advance(s)
  <2>1. Tail(cmd[s].todo) # cmd[s].todo
    <3>1. Len(Tail(cmd[s].todo)) = Len(cmd[s].todo) - 1 /\ Len(cmd[s].todo) \in Nat
      BY <1>1, HeadTailProperties, LenProperties
    <3>2. \A n \in Nat : n - 1 # n
      OBVIOUS
    <3>. QED
      BY <3>1, <3>2, Zenon
  <2>. QED
    BY <1>1, <1>3, <2>1, AdvanceCmd
<1>. QED
    BY <1>2, <1>3

LEMMA StepOthers ==
    ASSUME Typed, NEW s \in Slot, CommandStep(s), NEW e \in Driver, NEW c \in Booking
    PROVE  TripKept(e, c) /\ LockKept(e, c)
<1>. DEFINE b == cmd[s].b
<1>. DEFINE d == cmd[s].d
<1>1. cmd[s].todo # <<>> /\ CmdTyped /\ KeysTyped
    BY StepCmd DEF Typed
<1>2. b \in Booking /\ None \notin Booking
    BY <1>1, Running, NoneAssumption
<1>3. /\ lock \in [Driver -> Booking \cup {None}]
      /\ trip \in [Driver -> Booking \cup {None}]
    BY <1>1 DEF KeysTyped
<1>4. Advance(s) \/ Abort(s) => Serves(b)
    BY <1>1, MovesOn DEF Serves
<1>a. CASE UNCHANGED <<lock, trip>>
    BY <1>a DEF TripKept, LockKept
<1>b. CASE AcquireLock(s)
  <2>1. lock'[e] # lock[e] => lock[e] = None
    BY <1>3, <1>b DEF AcquireLock
  <2>2. UNCHANGED trip
    BY <1>b DEF AcquireLock
  <2>. QED
    BY <1>2, <2>1, <2>2 DEF TripKept, LockKept
<1>c. CASE CheckOffer(s)
  <2>1. lock'[e] # lock[e] => Abort(s) /\ lock[e] = b /\ lock'[e] = None
    BY <1>3, <1>c, WithoutKey DEF CheckOffer
  <2>2. UNCHANGED trip
    BY <1>c DEF CheckOffer
  <2>. QED
    BY <1>2, <1>4, <2>1, <2>2 DEF TripKept, LockKept
<1>d. CASE Probe(s)
  <2>1. lock'[e] # lock[e] => lock[e] = None
    BY <1>3, <1>d, SetKey DEF Probe
  <2>2. trip'[e] # trip[e] => Owned(e, b) /\ trip'[e] = b
    BY <1>2, <1>3, <1>d, SetKey DEF Probe
  <2>. QED
    BY <1>2, <2>1, <2>2 DEF TripKept, LockKept
<1>e. CASE InspectLock(s)
  <2>1. lock'[e] # lock[e] => lock[e] # None /\ Finished(lock[e]) /\ lock'[e] = None
    BY <1>3, <1>e DEF InspectLock
  <2>2. UNCHANGED trip
    BY <1>e DEF InspectLock
  <2>. QED
    BY <1>2, <2>1, <2>2 DEF TripKept, LockKept
<1>f. CASE AcceptCas(s)
  <2>1. lock'[e] # lock[e] => lock[e] = None
    BY <1>2, <1>3, <1>f, SetKey DEF AcceptCas
  <2>2. trip'[e] # trip[e] => trip[e] = None
    BY <1>2, <1>3, <1>f, SetKey DEF AcceptCas
  <2>. QED
    BY <1>2, <2>1, <2>2 DEF TripKept, LockKept
<1>g. CASE Settle(s) \/ FreeNotified(s)
  <2>1. lock'[e] # lock[e] => lock[e] = b /\ lock'[e] = None
    BY <1>3, <1>g DEF Settle, FreeNotified
  <2>2. UNCHANGED trip /\ Advance(s)
    BY <1>g DEF Settle, FreeNotified
  <2>. QED
    BY <1>2, <1>4, <2>1, <2>2 DEF TripKept, LockKept
<1>h. CASE BindTrip(s)
  <2>1. trip'[e] # trip[e] => trip[e] = None
    BY <1>2, <1>3, <1>h, SetKey DEF BindTrip
  <2>2. UNCHANGED lock
    BY <1>h DEF BindTrip
  <2>. QED
    BY <1>2, <2>1, <2>2 DEF TripKept, LockKept
<1>i. CASE ReleaseLock(s)
  <2>1. lock'[e] # lock[e] => lock[e] = b /\ lock'[e] = None
    BY <1>3, <1>i, WithoutKey DEF ReleaseLock
  <2>2. UNCHANGED trip /\ Advance(s)
    BY <1>i DEF ReleaseLock
  <2>. QED
    BY <1>2, <1>4, <2>1, <2>2 DEF TripKept, LockKept
<1>j. CASE UnbindTrip(s)
  <2>1. trip'[e] # trip[e] => trip[e] = b
    BY <1>3, <1>j, WithoutKey DEF UnbindTrip
  <2>2. UNCHANGED lock /\ Advance(s)
    BY <1>j DEF UnbindTrip
  <2>. QED
    BY <1>2, <1>4, <2>1, <2>2 DEF TripKept, LockKept
<1>. QED
    BY <1>a, <1>b, <1>c, <1>d, <1>e, <1>f, <1>g, <1>h, <1>i, <1>j
       DEF CommandStep, Notify, ScheduleTimeout, DropOffer, ReadState, WriteState,
           PublishStatus, RewriteArrival, ProvePayment, CheckCancel, Refund, GoOnUncleared,
           Unassign, keys

LEMMA NextOthers ==
    ASSUME Typed, [Next]_vars, NEW e \in Driver, NEW c \in Booking
    PROVE  TripKept(e, c) /\ LockKept(e, c)
<1>0. KeysTyped /\ None \notin Booking
    BY NoneAssumption DEF Typed
<1>1. CASE UNCHANGED <<lock, trip>>
    BY <1>1 DEF TripKept, LockKept
<1>2. ASSUME NEW s \in Slot, BeginCommand(s)
      PROVE  UNCHANGED <<lock, trip>>
    BY <1>2, Beginning
<1>3. ASSUME NEW s \in Slot, Crash(s)
      PROVE  UNCHANGED <<lock, trip>>
    BY <1>3 DEF Crash, keys
<1>4. ASSUME NEW d \in Driver, LockExpires(d)
      PROVE  TripKept(e, c) /\ LockKept(e, c)
  <2>1. lock'[e] # lock[e] => lock'[e] = None
    BY <1>0, <1>4, SetKey DEF LockExpires, KeysTyped
  <2>. QED
    BY <1>4, <2>1 DEF LockExpires, TripKept, LockKept
<1>5. ASSUME NEW d \in Driver, SyncActiveRide(d)
      PROVE  TripKept(e, c) /\ LockKept(e, c)
  <2>1. trip'[e] # trip[e] => Finished(trip[e])
    BY <1>0, <1>5, SetKey DEF SyncActiveRide, KeysTyped, Finished
  <2>. QED
    BY <1>5, <2>1 DEF SyncActiveRide, TripKept, LockKept
<1>6. ASSUME NEW d \in Driver, NEW b \in Booking, OfferExpires(d, b)
      PROVE  UNCHANGED <<lock, trip>>
    BY <1>6 DEF OfferExpires
<1>7. CASE UNCHANGED vars
    BY <1>1, <1>7 DEF vars
<1>. QED
    BY <1>1, <1>2, <1>3, <1>4, <1>5, <1>6, <1>7, StepOthers DEF Next, KeyStep

\* Whatever overlaps and whatever dies: no command frees a driver from the lock
\* or the index of a ride that it does not serve.
THEOREM OthersAreUntouched == Spec => OthersUntouched
<1>. DEFINE A == \A d \in Driver : \A b \in Booking :
          /\ trip[d] = b /\ trip'[d] # b =>
                 Finished(b) \/ Serves(b) \/ \E c \in Booking : Owned(d, c) /\ trip'[d] = c
          /\ lock[d] = b /\ lock'[d] # b =>
                 lock'[d] = None /\ (Finished(b) \/ Serves(b) \/ UNCHANGED cmd)
<1>1. Typed /\ [Next]_vars => A
    BY NextOthers DEF TripKept, LockKept
<1>2. Spec => [][A]_vars
    BY <1>1, AlwaysTyped, PTL DEF Spec
<1>. QED
    BY <1>2 DEF OthersUntouched

(***************************************************************************)
(* Nothing in the code keeps two commands off one booking, and any of them  *)
(* may die: neither is assumed of the program here.  What is proved is that *)
(* the promises are broken in no other way.  In every execution in which    *)
(* one of them fails, two commands have been on the same booking at once,   *)
(* or a cancellation or a recovery has died where it leaves the booking     *)
(* half changed (the runs on final states show such executions).            *)
(***************************************************************************)

\* No booking is served by two commands at this moment.
Alone ==
    \A r, s \in Slot : cmd[r] # Idle /\ cmd[r].b = cmd[s].b => r = s

\* A cancellation between its two writes, a recovery that has taken the index
\* and not yet freed the driver.
HalfWay(s) ==
    \/ cmd[s].op = "cancel" /\ Head(cmd[s].todo) = "publish"
    \/ cmd[s].op = "recover" /\ Head(cmd[s].todo) # "unbind"

\* This step does not break one of them off.
NothingHalfDone == \A s \in Slot : HalfWay(s) => ~Crash(s)

\* A booking that no command is in the middle of.  A start or a completion that
\* died leaves the status behind the state.
Rest(bk) ==
    \/ bk.state \in Open /\ bk.status = "SEARCHING" /\ bk.driver = None
    \/ bk.state \in {"ACCEPTED", "ARRIVED"} /\ bk.status = bk.state /\ bk.driver \in Driver
    \/ bk.state = "IN_PROGRESS" /\ bk.status \in {"ARRIVED", "IN_PROGRESS"} /\ bk.driver \in Driver
    \/ bk.state = "COMPLETED" /\ bk.status \in {"ARRIVED", "IN_PROGRESS", "COMPLETED"}
    \/ bk.state = "CANCELED" /\ bk.status = "CANCELED"

\* What the steps a command has still to take say of its booking.
Expected(op, x, d, bk) ==
    /\ op \in {"arrive", "start", "complete", "recover"} => bk.driver = d
    /\ op = "offer" /\ x = "write" => bk.state = "SEARCHING"
    /\ op = "timeout" => bk.state \in Open
    /\ op = "arrive" =>
           /\ x = "write" => bk.state = "ACCEPTED"
           /\ x \in {"patch", "rewrite"} => bk.state = "ARRIVED"
    /\ op = "start" =>
           /\ x = "write" => bk.state = "ARRIVED"
           /\ x \in {"patch", "publish"} => bk.state = "IN_PROGRESS"
    /\ op = "cancel" =>
           /\ x \in {"refund", "read", "write"} =>
                  bk.state \in {"SEARCHING", "AWAITING", "ACCEPTED", "ARRIVED"}
           /\ x # "patch"
           /\ x \in {"publish", "release", "unbind"} => bk.state = "CANCELED"
           /\ x \in {"release", "unbind"} => bk.status = "CANCELED"
    /\ op = "complete" =>
           /\ x = "write" => bk.state = "IN_PROGRESS"
           /\ x \in {"patch", "publish", "release", "unbind"} => bk.state = "COMPLETED"
           /\ x \in {"release", "unbind"} => bk.status = "COMPLETED"
    /\ op = "recover" =>
           /\ x \in {"unbind", "release", "read", "write"} => bk.state = "ACCEPTED"
           /\ x # "patch"
           /\ x = "unassign" => bk.state = "SEARCHING" /\ bk.status = "SEARCHING"

\* A cancellation about to write the status, a recovery about to free the driver.
Between(op, x) == (op = "cancel" /\ x = "publish") \/ (op = "recover" /\ x = "unassign")

\* The driver of a ride is known by the index until a recovery frees the driver.
Indexed(op, x, b) ==
    /\ booking[b].driver \in Driver
    /\ booking[b].state \in Live \/ booking[b].status \in Live
    /\ ~(op = "recover" /\ x # "unbind")
    => trip[booking[b].driver] = b

\* b is served by a command op for driver d whose next step is x.
Served(op, x, d, b) ==
    /\ Expected(op, x, d, booking[b])
    /\ Rest(booking[b]) \/ Between(op, x)
    /\ Indexed(op, x, b)

Unserved(b) == Served("none", "none", None, b)

GoodAt(b) ==
    /\ \A s \in Slot : cmd[s].b = b => Served(cmd[s].op, Head(cmd[s].todo), cmd[s].d, b)
    /\ (\A s \in Slot : cmd[s].b # b) => Unserved(b)

IInv ==
    /\ Typed
    /\ Alone
    /\ \A b \in Booking : GoodAt(b)

LEMMA BusyOrIdle ==
    ASSUME NEW c \in Commands \cup {Idle}
    PROVE  /\ c # Idle <=> c.b \in Booking
           /\ c # Idle <=> c.todo # <<>>
           /\ c = Idle <=> c.b = None
<1>1. Idle.b = None /\ Idle.todo = <<>> /\ None \notin Booking
    BY IdleIsNot
<1>2. c \in Commands => c.b \in Booking /\ c.todo # <<>>
    BY DEF Commands
<1>. QED
    BY <1>1, <1>2

LEMMA TheOne ==
    ASSUME IInv, NEW s \in Slot, cmd[s].todo # <<>>
    PROVE  /\ \A r \in Slot : r # s => cmd[r].b # cmd[s].b
           /\ Served(cmd[s].op, Head(cmd[s].todo), cmd[s].d, cmd[s].b)
<1>1. cmd[s] # Idle /\ cmd[s].b \in Booking
    BY BusyOrIdle DEF IInv, Typed, CmdTyped
<1>. QED
    BY <1>1 DEF IInv, Alone, GoodAt

(***************************************************************************)
(* A step of the command in slot s, which serves b before it, after it or   *)
(* both, keeps the invariant if it leaves b well served.                    *)
(***************************************************************************)
LEMMA Compose ==
    ASSUME IInv, Typed', NEW s \in Slot, NEW b \in Booking,
           cmd[s] = Idle \/ cmd[s].b = b,
           cmd'[s] = Idle \/ cmd'[s].b = b,
           \A r \in Slot : r # s => cmd'[r] = cmd[r] /\ cmd[r].b # b,
           \A c \in Booking : c # b => booking'[c] = booking[c],
           \A c \in Booking, d \in Driver : c # b /\ trip[d] = c => trip'[d] = c,
           cmd'[s] # Idle => Served(cmd[s].op, Head(cmd[s].todo), cmd[s].d, b)',
           cmd'[s] = Idle => Unserved(b)'
    PROVE  IInv'
<1>1. \A r \in Slot : /\ cmd[r] # Idle <=> cmd[r].b \in Booking
                      /\ cmd'[r] # Idle <=> cmd'[r].b \in Booking
                      /\ cmd[r] = Idle <=> cmd[r].b = None
                      /\ cmd'[r] = Idle <=> cmd'[r].b = None
  <2>1. \A r \in Slot : cmd[r] \in Commands \cup {Idle} /\ cmd'[r] \in Commands \cup {Idle}
    BY DEF IInv, Typed, CmdTyped, Idle, Commands
  <2>. QED
    BY <2>1, BusyOrIdle
<1>2. Alone'
  <2>1. ASSUME NEW q \in Slot, NEW r \in Slot, cmd'[q] # Idle, cmd'[q].b = cmd'[r].b
        PROVE  q = r
    <3>1. CASE q = s
      BY <1>1, <2>1, <3>1
    <3>2. CASE r = s
      BY <1>1, <2>1, <3>2
    <3>3. CASE q # s /\ r # s
      BY <2>1, <3>3 DEF IInv, Alone
    <3>. QED
      BY <3>1, <3>2, <3>3
  <2>. QED
    BY <2>1 DEF Alone, Idle
<1>3. GoodAt(b)'
  <2>1. \A r \in Slot : cmd'[r].b = b => r = s /\ cmd'[s] # Idle
    BY <1>1
  <2>2. (\A r \in Slot : cmd'[r].b # b) => cmd'[s] = Idle
    BY <1>1
  <2>. QED
    BY <2>1, <2>2 DEF GoodAt
<1>4. ASSUME NEW c \in Booking, c # b
      PROVE  GoodAt(c)'
  <2>1. booking'[c] = booking[c] /\ \A d \in Driver : trip[d] = c => trip'[d] = c
    BY <1>4
  <2>2. \A op, x, d : Served(op, x, d, c) => Served(op, x, d, c)'
    BY <2>1 DEF Served, Expected, Indexed, Rest
  <2>3. \A r \in Slot : cmd'[r].b = c => r # s /\ cmd'[r] = cmd[r] /\ cmd[r].b = c
    BY <1>1, <1>4
  <2>4. ASSUME NEW r \in Slot, cmd'[r].b = c
        PROVE  Served(cmd[r].op, Head(cmd[r].todo), cmd[r].d, c)'
    BY <2>2, <2>3, <2>4 DEF IInv, GoodAt
  <2>5. ASSUME \A r \in Slot : cmd'[r].b # c
        PROVE  Unserved(c)'
    <3>1. \A r \in Slot : cmd[r].b # c
      BY <1>1, <1>4, <2>5
    <3>. QED
      BY <2>2, <3>1 DEF IInv, GoodAt, Unserved
  <2>. QED
    BY <2>4, <2>5 DEF GoodAt
<1>. QED
    BY <1>2, <1>3, <1>4 DEF IInv

(***************************************************************************)
(* The same for a step that advances, and for one that gives up.            *)
(***************************************************************************)
Here(s, op, x, d, b) ==
    /\ cmd[s].todo # <<>>
    /\ cmd[s].op = op /\ Head(cmd[s].todo) = x /\ cmd[s].d = d /\ cmd[s].b = b

\* What the step does not touch.
Elsewhere(b) ==
    /\ \A c \in Booking : c # b => booking'[c] = booking[c]
    /\ \A c \in Booking, d \in Driver : c # b /\ trip[d] = c => trip'[d] = c

LEMMA HereIs ==
    ASSUME IInv, NEW s \in Slot, NEW op, NEW x, NEW d, NEW b, Here(s, op, x, d, b)
    PROVE  /\ Served(op, x, d, b)
           /\ op \in Op /\ b \in Booking /\ d \in Driver \cup {None}
           /\ op \notin {"cancel", "recover"} => d \in Driver
           /\ \A r \in Slot : r # s => cmd[r].b # b
           /\ \/ <<op, x>> \in Ends
              \/ \E y : <<op, x, y>> \in Follows
           /\ booking[b] \in Records
<1>1. CmdTyped /\ KeysTyped /\ cmd[s].todo # <<>>
    BY DEF IInv, Typed, Here
<1>2. cmd[s].b \in Booking
    BY <1>1, Running
<1>3. booking[b] \in Records
    BY <1>1, <1>2 DEF Here, KeysTyped
<1>. QED
    BY <1>1, <1>3, Running, OpAt, TheOne DEF Here

LEMMA Advances ==
    ASSUME IInv, Typed', NEW s \in Slot, NEW op, NEW x, NEW d, NEW b,
           Here(s, op, x, d, b), Advance(s), Elsewhere(b),
           <<op, x>> \in Ends => Unserved(b)',
           \A y : <<op, x, y>> \in Follows => Served(op, y, d, b)'
    PROVE  IInv'
<1>1. CmdTyped /\ cmd[s].todo # <<>> /\ b \in Booking
      /\ \A r \in Slot : r # s => cmd[r].b # b
    BY HereIs DEF IInv, Typed, Here
<1>2. \A r \in Slot : r # s => cmd'[r] = cmd[r]
    BY <1>1, AdvanceCmd
<1>3. CASE Tail(cmd[s].todo) = <<>>
  <2>1. cmd'[s] = Idle
    BY <1>1, <1>3, AdvanceCmd
  <2>2. <<op, x>> \in Ends
    BY <1>1, <1>3, Running, WalkOn DEF Here
  <2>. QED
    BY <1>1, <1>2, <2>1, <2>2, Compose DEF Here, Elsewhere
<1>4. CASE Tail(cmd[s].todo) # <<>>
  <2>1. /\ cmd'[s].op = op /\ cmd'[s].d = d /\ cmd'[s].b = b
        /\ cmd'[s].todo = Tail(cmd[s].todo)
    BY <1>1, <1>4, AdvanceCmd DEF Here
  <2>2. <<op, x, Head(Tail(cmd[s].todo))>> \in Follows
    BY <1>1, <1>4, Running, WalkOn DEF Here
  <2>3. PICK y : y = Head(Tail(cmd[s].todo))
    OBVIOUS
  <2>4. Served(op, y, d, b)'
    BY <2>2, <2>3
  <2>5. Served(cmd[s].op, Head(cmd[s].todo), cmd[s].d, b)'
    BY <2>1, <2>3, <2>4
  <2>6. cmd'[s] # Idle
    BY <1>1, <2>1, IdleIsNot
  <2>. QED
    BY <1>1, <1>2, <2>1, <2>5, <2>6, Compose DEF Here, Elsewhere
<1>. QED
    BY <1>3, <1>4

LEMMA GivesUp ==
    ASSUME IInv, Typed', NEW s \in Slot, NEW op, NEW x, NEW d, NEW b,
           Here(s, op, x, d, b), Abort(s), Elsewhere(b), Unserved(b)'
    PROVE  IInv'
<1>1. CmdTyped /\ cmd[s].todo # <<>> /\ b \in Booking
      /\ \A r \in Slot : r # s => cmd[r].b # b
    BY HereIs DEF IInv, Typed, Here
<1>2. cmd'[s] = Idle /\ \A r \in Slot : r # s => cmd'[r] = cmd[r]
    BY <1>1, AbortCmd
<1>. QED
    BY <1>1, <1>2, Compose DEF Here, Elsewhere

LEMMA Diverts ==
    ASSUME IInv, Typed', NEW s \in Slot, NEW op, NEW x, NEW d, NEW b,
           Here(s, op, x, d, b), NEW t, Walk(op, t), GoOn(s, t), Elsewhere(b),
           NEW y, Head(t) = y, Served(op, y, d, b)'
    PROVE  IInv'
<1>1. CmdTyped /\ cmd[s].todo # <<>> /\ b \in Booking
      /\ \A r \in Slot : r # s => cmd[r].b # b
    BY HereIs DEF IInv, Typed, Here
<1>2. t # <<>>
    BY DEF Walk
<1>3. /\ \A r \in Slot : r # s => cmd'[r] = cmd[r]
      /\ cmd'[s].op = op /\ cmd'[s].d = d /\ cmd'[s].b = b /\ cmd'[s].todo = t
    BY <1>1, <1>2, GoOnCmd DEF Here
<1>4. Served(cmd[s].op, Head(cmd[s].todo), cmd[s].d, b)'
    BY <1>3
<1>5. cmd'[s] # Idle
    BY <1>1, <1>3, IdleIsNot
<1>. QED
    BY <1>1, <1>3, <1>4, <1>5, Compose DEF Here, Elsewhere

\* A step that leaves bookings and index alone.
LEMMA Quiet ==
    ASSUME NEW op, NEW x, NEW d, NEW b, Served(op, x, d, b),
           UNCHANGED <<booking, trip>>
    PROVE  /\ Elsewhere(b)
           /\ ~Between(op, x) /\ op \notin {"cancel", "recover"} => Unserved(b)'
           /\ \A y : /\ <<op, x, y>> \in Follows
                     /\ x \notin {"read", "write", "patch", "publish", "check", "cas"}
                     => Served(op, y, d, b)'
<1>1. Elsewhere(b)
    BY DEF Elsewhere
<1>2. ASSUME ~Between(op, x), op \notin {"cancel", "recover"}
      PROVE  Unserved(b)'
    BY <1>2 DEF Unserved, Served, Expected, Between, Indexed, Rest
<1>3. ASSUME NEW y, <<op, x, y>> \in Follows,
             x \notin {"read", "write", "patch", "publish", "check", "cas"}
      PROVE  Served(op, y, d, b)'
  <2>1. Expected(op, y, d, booking[b])
    BY <1>3 DEF Served, Expected, Follows
  <2>2. (Rest(booking[b]) \/ Between(op, y)) /\ Indexed(op, y, b)
    BY <1>3 DEF Served, Between, Indexed, Follows
  <2>3. Served(op, y, d, b)
    BY <2>1, <2>2 DEF Served
  <2>. QED
    BY <2>3 DEF Served, Expected, Indexed, Rest
<1>. QED
    BY <1>1, <1>2, <1>3

(***************************************************************************)
(* The steps of the commands, one by one.                                   *)
(***************************************************************************)
LEMMA SomeHere ==
    ASSUME NEW s \in Slot, cmd[s].todo # <<>>
    PROVE  \E op, x, d, b : Here(s, op, x, d, b)
BY DEF Here

LEMMA QuietStep ==
    ASSUME IInv, Typed', NEW s \in Slot, NEW op, NEW x, NEW d, NEW b,
           Here(s, op, x, d, b), UNCHANGED <<booking, trip>>,
           x \in {"acquire", "notify", "schedule", "drop", "release", "inspect", "settle",
                  "proof", "bind", "free", "probe", "refund"},
           \/ Advance(s)
           \/ Abort(s) /\ op \notin {"cancel", "recover"}
    PROVE  IInv'
<1>1. Served(op, x, d, b)
    BY HereIs
<1>2. <<op, x>> \in Ends => op \notin {"cancel", "recover"}
    BY DEF Ends
<1>3. ~Between(op, x)
    BY DEF Between
<1>4. Elsewhere(b) /\ (op \notin {"cancel", "recover"} => Unserved(b)')
      /\ \A y : <<op, x, y>> \in Follows => Served(op, y, d, b)'
    BY <1>1, <1>3, Quiet
<1>5. CASE Advance(s)
    BY <1>2, <1>4, <1>5, Advances
<1>6. CASE Abort(s) /\ op \notin {"cancel", "recover"}
    BY <1>4, <1>6, GivesUp
<1>. QED
    BY <1>5, <1>6

LEMMA CheckOfferGood ==
    ASSUME IInv, Typed', NEW s \in Slot, CheckOffer(s)
    PROVE  IInv'
<1>1. PICK op, x, d, b : Here(s, op, x, d, b)
    BY SomeHere DEF CheckOffer, At
<1>2. op = "offer" /\ x = "check" /\ UNCHANGED <<booking, trip>>
    BY <1>1 DEF CheckOffer, At, Here
<1>3. Served(op, x, d, b)
    BY <1>1, HereIs
<1>4. Elsewhere(b) /\ Unserved(b)'
    BY <1>2, <1>3, Quiet DEF Between
<1>5. \A y : y # "write" => Served(op, y, d, b)'
    BY <1>2, <1>3 DEF Served, Expected, Between, Indexed, Rest
<1>6. \A y : <<op, x, y>> \in Follows => y # "write"
    BY <1>2 DEF Follows
<1>7. CASE Advance(s)
  <2>1. <<op, x>> \notin Ends
    BY <1>2 DEF Ends
  <2>. QED
    BY <1>1, <1>4, <1>5, <1>6, <1>7, <2>1, Advances
<1>8. CASE Abort(s)
    BY <1>1, <1>4, <1>8, GivesUp
<1>9. CASE GoOn(s, <<"notify", "schedule">>)
  <2>1. Head(<<"notify", "schedule">>) = "notify"
    OBVIOUS
  <2>2. Walk(op, <<"notify", "schedule">>)
    BY <1>2, OtherWalks
  <2>3. Served(op, "notify", d, b)'
    BY <1>5
  <2>. QED
    BY <1>1, <1>4, <1>9, <2>1, <2>2, <2>3, Diverts
<1>. QED
    BY <1>7, <1>8, <1>9 DEF CheckOffer, Advance

LEMMA ProbeGood ==
    ASSUME IInv, Typed', NEW s \in Slot, Probe(s)
    PROVE  IInv'
<1>1. PICK op, x, d, b : Here(s, op, x, d, b)
    BY SomeHere DEF Probe, At
<1>2. x = "probe" /\ UNCHANGED booking
    BY <1>1 DEF Probe, At, Here
<1>3. op = "accept"
  <2>1. <<op, x>> \in Ends \/ \E y : <<op, x, y>> \in Follows
    BY <1>1, HereIs
  <2>. QED
    BY <1>2, <2>1 DEF Ends, Follows
<1>4. Served(op, x, d, b)
    BY <1>1, HereIs
<1>5. CASE Advance(s) /\ UNCHANGED trip
    BY <1>1, <1>2, <1>5, QuietStep
<1>6. CASE /\ GoOn(s, <<"inspect", "settle">>) /\ Owned(d, b)
           /\ trip' = [trip EXCEPT ![d] = b]
  <2>1. trip[d] = b /\ d \in Driver /\ trip \in [Driver -> Booking \cup {None}]
    <3>0. d \in Driver
      <4>1. op \notin {"cancel", "recover"}
        BY <1>3
      <4>. QED
        BY <1>1, <4>1, HereIs
    <3>1. d \in Driver /\ trip \in [Driver -> Booking \cup {None}]
      BY <3>0 DEF IInv, Typed, KeysTyped
    <3>. QED
      BY <1>3, <1>4, <1>6, <3>1 DEF Served, Indexed, Owned
  <2>2. UNCHANGED trip
    BY <1>6, <2>1
  <2>3. Elsewhere(b)
    BY <1>2, <1>4, <2>2, Quiet
  <2>4. Served(op, "inspect", d, b)'
    BY <1>2, <1>3, <1>4, <2>2 DEF Served, Expected, Between, Indexed, Rest
  <2>5. Head(<<"inspect", "settle">>) = "inspect"
    OBVIOUS
  <2>6. Walk(op, <<"inspect", "settle">>)
    BY <1>3, OtherWalks
  <2>. QED
    BY <1>1, <1>6, <2>3, <2>4, <2>5, <2>6, Diverts
<1>. QED
    BY <1>1, <1>5, <1>6 DEF Probe, Here

LEMMA AcceptCasGood ==
    ASSUME IInv, Typed', NEW s \in Slot, AcceptCas(s)
    PROVE  IInv'
<1>1. PICK op, x, d, b : Here(s, op, x, d, b)
    BY SomeHere DEF AcceptCas, At
<1>2. x = "cas" /\ UNCHANGED refunded
    BY <1>1 DEF AcceptCas, At, Here
<1>3. op = "accept" /\ <<op, x>> \notin Ends
  <2>1. <<op, x>> \in Ends \/ \E y : <<op, x, y>> \in Follows
    BY <1>1, HereIs
  <2>. QED
    BY <1>2, <2>1 DEF Ends, Follows
<1>4. /\ Served(op, x, d, b) /\ b \in Booking /\ d \in Driver /\ booking[b] \in Records
      /\ trip \in [Driver -> Booking \cup {None}] /\ booking \in [Booking -> Records]
    BY <1>1, <1>3, HereIs DEF IInv, Typed, KeysTyped
<1>5. CASE UNCHANGED <<booking, lock, trip>> /\ Abort(s)
  <2>1. Elsewhere(b) /\ Unserved(b)'
    BY <1>2, <1>3, <1>4, <1>5, Quiet DEF Between
  <2>. QED
    BY <1>1, <1>5, <2>1, GivesUp
<1>6. ASSUME NEW bk, trip[d] \in {None, b}, trip' = [trip EXCEPT ![d] = b], Advance(s),
             booking' = [booking EXCEPT ![b] = bk],
             \/ Owned(d, b) /\ bk = booking[b]
             \/ /\ booking[b].state \in Open \/ booking[b].status \in Open
                /\ bk = [state |-> "ACCEPTED", status |-> "ACCEPTED", driver |-> d, owner |-> d]
      PROVE  IInv'
  <2>1. trip'[d] = b /\ \A e \in Driver : e # d => trip'[e] = trip[e]
    BY <1>4, <1>6
  <2>2. booking'[b] = bk /\ \A c \in Booking : c # b => booking'[c] = booking[c]
    BY <1>4, <1>6
  <2>3. Elsewhere(b)
    BY <1>2, <1>4, <1>6, <2>1, <2>2, NoneAssumption DEF Elsewhere
  <2>4. bk.driver = d /\ (Rest(booking[b]) => Rest(bk)) /\ Rest(booking[b])
    BY <1>2, <1>3, <1>4, <1>6 DEF Rest, Owned, Served, Between
  <2>7. \A y : y # "write" => Served(op, y, d, b)'
    BY <1>2, <1>3, <2>1, <2>2, <2>4 DEF Served, Expected, Between, Indexed
  <2>8. \A y : <<op, x, y>> \in Follows => y # "write"
    BY <1>2, <1>3 DEF Follows
  <2>. QED
    BY <1>1, <1>3, <1>6, <2>3, <2>7, <2>8, Advances
<1>7. \/ UNCHANGED <<booking, lock, trip>> /\ Abort(s)
      \/ /\ trip[d] \in {None, b} /\ trip' = [trip EXCEPT ![d] = b] /\ Advance(s)
         /\ \/ Owned(d, b) /\ booking' = [booking EXCEPT ![b] = booking[b]]
            \/ /\ booking[b].state \in Open \/ booking[b].status \in Open
               /\ booking' = [booking EXCEPT ![b] =
                      [state |-> "ACCEPTED", status |-> "ACCEPTED", driver |-> d, owner |-> d]]
    BY <1>1 DEF AcceptCas, Here
<1>8. PICK kept, taken :
         /\ kept = booking[b]
         /\ taken = [state |-> "ACCEPTED", status |-> "ACCEPTED", driver |-> d, owner |-> d]
    OBVIOUS
<1>9. \/ UNCHANGED <<booking, lock, trip>> /\ Abort(s)
      \/ /\ trip[d] \in {None, b} /\ trip' = [trip EXCEPT ![d] = b] /\ Advance(s)
         /\ \/ Owned(d, b) /\ booking' = [booking EXCEPT ![b] = kept]
            \/ /\ booking[b].state \in Open \/ booking[b].status \in Open
               /\ booking' = [booking EXCEPT ![b] = taken]
    BY <1>7, <1>8
<1>. QED
    BY <1>5, <1>6, <1>8, <1>9

LEMMA Targets ==
    /\ Target("offer") = "AWAITING" /\ Target("timeout") = "SEARCHING"
    /\ Target("accept") = "SEARCHING" /\ Target("arrive") = "ARRIVED"
    /\ Target("start") = "IN_PROGRESS" /\ Target("cancel") = "CANCELED"
    /\ Target("complete") = "COMPLETED" /\ Target("recover") = "SEARCHING"
BY Zenon DEF Target

LEMMA Transitions ==
    ASSUME NEW st \in State
    PROVE  /\ "AWAITING" \in ValidTransition(st) => st = "SEARCHING"
           /\ "ARRIVED" \in ValidTransition(st) => st = "ACCEPTED"
           /\ "IN_PROGRESS" \in ValidTransition(st) => st = "ARRIVED"
           /\ "COMPLETED" \in ValidTransition(st) => st = "IN_PROGRESS"
           /\ st \in {"SEARCHING", "AWAITING", "ACCEPTED", "ARRIVED"} =>
                  "CANCELED" \in ValidTransition(st)
           /\ "SEARCHING" \in ValidTransition("ACCEPTED")
<1>1. /\ ValidTransition("SEARCHING") = {"AWAITING", "CANCELED"}
      /\ ValidTransition("AWAITING") = {"ACCEPTED", "SEARCHING", "CANCELED"}
      /\ ValidTransition("ACCEPTED") = {"ARRIVED", "CANCELED", "SEARCHING"}
      /\ ValidTransition("ARRIVED") = {"IN_PROGRESS", "CANCELED"}
      /\ ValidTransition("IN_PROGRESS") = {"COMPLETED", "CANCELED"}
      /\ ValidTransition("COMPLETED") = {}
      /\ ValidTransition("CANCELED") = {}
    BY Zenon DEF ValidTransition
<1>. QED
    BY <1>1 DEF State

LEMMA ReadStateGood ==
    ASSUME IInv, Typed', NEW s \in Slot, ReadState(s)
    PROVE  IInv'
<1>1. PICK op, x, d, b : Here(s, op, x, d, b)
    BY SomeHere DEF ReadState, At
<1>2. x = "read" /\ UNCHANGED <<booking, trip>>
    BY <1>1 DEF ReadState, At, Here, keys
<1>3. /\ Served(op, x, d, b) /\ op \in Op /\ booking[b] \in Records
      /\ Walk(op, cmd[s].todo)
  <2>1. Served(op, x, d, b) /\ op \in Op /\ booking[b] \in Records
    BY <1>1, HereIs
  <2>2. CmdTyped /\ cmd[s].todo # <<>> /\ cmd[s].op = op
    BY <1>1 DEF IInv, Typed, Here
  <2>3. Walk(cmd[s].op, cmd[s].todo)
    BY <2>2, Running
  <2>. QED
    BY <2>1, <2>2, <2>3
<1>4. PICK st : st = booking[b].state
    OBVIOUS
<1>5. st \in State
    BY <1>3, <1>4 DEF Records
<1>6. op \in {"arrive", "start", "complete", "offer", "timeout", "cancel", "recover"}
  <2>1. <<op, x>> \in Ends \/ \E y : <<op, x, y>> \in Follows
    BY <1>1, HereIs
  <2>. QED
    BY <1>2, <2>1 DEF Ends, Follows
<1>7. Elsewhere(b) /\ (op \notin {"cancel", "recover"} => Unserved(b)')
    BY <1>2, <1>3, Quiet DEF Between
<1>8. /\ op = "cancel" => st \in {"SEARCHING", "AWAITING", "ACCEPTED", "ARRIVED"}
      /\ op = "recover" => st = "ACCEPTED"
    BY <1>2, <1>3, <1>4 DEF Served, Expected
<1>a. CASE st = Target(op) /\ GoOn(s, <<"patch">> \o Tail(Tail(cmd[s].todo)))
  <2>1. op \notin {"cancel", "recover"}
    BY <1>8, <1>a, Targets
  <2>2. Expected(op, "patch", d, booking[b])
    BY <1>2, <1>3, <1>4, <1>6, <1>a, <2>1, Targets DEF Served, Expected
  <2>3. Served(op, "patch", d, b)
    BY <1>2, <1>3, <2>1, <2>2 DEF Served, Between, Indexed
  <2>4. Served(op, "patch", d, b)'
    BY <1>2, <2>3 DEF Served, Expected, Indexed, Rest
  <2>5. PICK t : t = <<"patch">> \o Tail(Tail(cmd[s].todo))
    OBVIOUS
  <2>6. Walk(op, t) /\ Head(t) = "patch" /\ GoOn(s, t)
    BY <1>1, <1>2, <1>3, <1>a, <2>5, ReadThenWrite DEF Here
  <2>. QED
    BY <1>1, <1>7, <2>4, <2>6, Diverts
<1>b. CASE Target(op) \in ValidTransition(st) /\ Advance(s)
  <2>1. Expected(op, "write", d, booking[b])
    BY <1>2, <1>3, <1>4, <1>5, <1>6, <1>8, <1>b, Targets, Transitions DEF Served, Expected
  <2>2. Served(op, "write", d, b)
    BY <1>2, <1>3, <2>1 DEF Served, Between, Indexed
  <2>3. Served(op, "write", d, b)'
    BY <1>2, <2>2 DEF Served, Expected, Indexed, Rest
  <2>4. <<op, x>> \notin Ends /\ \A y : <<op, x, y>> \in Follows => y = "write"
    BY <1>2 DEF Ends, Follows
  <2>. QED
    BY <1>1, <1>7, <1>b, <2>3, <2>4, Advances
<1>c. CASE Target(op) \notin ValidTransition(st) /\ Abort(s)
  <2>1. op \notin {"cancel", "recover"}
    BY <1>5, <1>8, <1>c, Targets, Transitions
  <2>. QED
    BY <1>1, <1>7, <1>c, <2>1, GivesUp
<1>. QED
    BY <1>1, <1>4, <1>a, <1>b, <1>c DEF ReadState, Here

\* A step that writes the booking and nothing else.
LEMMA Written ==
    ASSUME IInv, Typed', NEW s \in Slot, NEW op, NEW x, NEW d, NEW b,
           Here(s, op, x, d, b), Advance(s), NEW bk,
           booking' = [booking EXCEPT ![b] = bk], UNCHANGED trip,
           bk.driver \in Driver /\ (bk.state \in Live \/ bk.status \in Live)
               => trip[bk.driver] = b,
           <<op, x>> \in Ends => Rest(bk),
           \A y : <<op, x, y>> \in Follows => Expected(op, y, d, bk) /\ (Rest(bk) \/ Between(op, y))
    PROVE  IInv'
<1>1. booking \in [Booking -> Records] /\ b \in Booking
    BY HereIs DEF IInv, Typed, KeysTyped
<1>2. booking'[b] = bk /\ \A c \in Booking : c # b => booking'[c] = booking[c]
    BY <1>1
<1>3. Elsewhere(b)
    BY <1>2 DEF Elsewhere
<1>4. \A o, y : Indexed(o, y, b)'
    BY <1>2, NoneAssumption DEF Indexed
<1>5. <<op, x>> \in Ends => Unserved(b)'
  <2>1. Expected("none", "none", None, bk)
    BY DEF Expected
  <2>2. <<op, x>> \in Ends => Served("none", "none", None, b)'
    BY <1>2, <1>4, <2>1 DEF Served, Expected, Rest
  <2>. QED
    BY <2>2 DEF Unserved
<1>6. \A y : <<op, x, y>> \in Follows => Served(op, y, d, b)'
    BY <1>2, <1>4 DEF Served, Expected, Rest, Between
<1>. QED
    BY <1>3, <1>5, <1>6, Advances

LEMMA WriteStateGood ==
    ASSUME IInv, Typed', NEW s \in Slot, WriteState(s)
    PROVE  IInv'
<1>1. PICK op, x, d, b : Here(s, op, x, d, b)
    BY SomeHere DEF WriteState, At
<1>2. x \in {"write", "patch"} /\ UNCHANGED trip /\ Advance(s)
    BY <1>1 DEF WriteState, At, Here
<1>3. /\ Served(op, x, d, b) /\ op \in Op /\ booking[b] \in Records
      /\ d \in Driver \cup {None}
    BY <1>1, HereIs
<1>4. op \in {"arrive", "start", "complete", "offer", "timeout", "cancel", "recover"}
  <2>1. <<op, x>> \in Ends \/ \E y : <<op, x, y>> \in Follows
    BY <1>1, HereIs
  <2>. QED
    BY <1>2, <2>1 DEF Ends, Follows
<1>5. PICK old : old = booking[b]
    OBVIOUS
<1>6. PICK set : set = [old EXCEPT !.state = Target(op)]
    OBVIOUS
<1>7. PICK bk : bk = Metadata(op, d, IF x = "write" THEN set ELSE old)
    OBVIOUS
<1>8. booking' = [booking EXCEPT ![b] = bk]
    BY <1>1, <1>2, <1>5, <1>6, <1>7 DEF WriteState, Here, At
<1>9. /\ set \in Records /\ set.state = Target(op) /\ set.status = old.status
      /\ set.driver = old.driver
    BY <1>3, <1>5, <1>6, TargetIsState DEF Records
<1>10. /\ bk.state = (IF x = "write" THEN Target(op) ELSE old.state)
       /\ op \notin {"arrive", "recover"} => bk.status = old.status
       /\ op = "arrive" => bk.status = "ARRIVED"
       /\ op = "recover" => bk.status = "SEARCHING"
       /\ op \in {"arrive", "start", "complete"} => bk.driver = d
       /\ op \notin {"arrive", "start", "complete"} => bk.driver = old.driver
    BY <1>3, <1>5, <1>7, <1>9, MetadataIs
<1>11. Rest(old) /\ Expected(op, x, d, old)
    BY <1>2, <1>3, <1>5 DEF Served, Between
<1>12. bk.driver = old.driver
    BY <1>10, <1>11 DEF Expected
<1>13. old.driver \in Driver /\ op # "recover"
           /\ (old.state \in Live \/ old.status \in Live) => trip[old.driver] = b
    BY <1>3, <1>5 DEF Served, Indexed
<1>14. /\ op = "recover" => bk.state = "SEARCHING" /\ bk.status = "SEARCHING"
       /\ op = "cancel" => bk.state = "CANCELED"
    BY <1>2, <1>10, <1>11, Targets DEF Expected
<1>16. bk.driver \in Driver /\ (bk.state \in Live \/ bk.status \in Live)
           => trip[bk.driver] = b
  <2>1. CASE op = "recover"
    BY <1>14, <2>1 DEF Live
  <2>2. CASE op # "recover"
    BY <1>2, <1>4, <1>10, <1>11, <1>12, <1>13, <2>2, Targets DEF Expected, Rest, Live
  <2>. QED
    BY <2>1, <2>2
<1>18. <<op, x>> \in Ends => Rest(bk)
  <2>1. <<op, x>> \in Ends => op = "timeout"
    BY <1>2 DEF Ends
  <2>. QED
    BY <1>2, <1>10, <1>11, <2>1, Targets DEF Expected, Rest, Open
<1>19. ASSUME NEW y, <<op, x, y>> \in Follows
       PROVE  Expected(op, y, d, bk) /\ (Rest(bk) \/ Between(op, y))
  <2>1. CASE op = "offer"
    BY <1>2, <1>10, <1>11, <1>19, <2>1, Targets DEF Expected, Rest, Open, Follows
  <2>2. CASE op = "arrive"
    BY <1>2, <1>10, <1>11, <1>12, <1>19, <2>2, Targets DEF Expected, Rest, Open, Follows
  <2>3. CASE op = "start"
    BY <1>2, <1>10, <1>11, <1>12, <1>19, <2>3, Targets DEF Expected, Rest, Open, Follows
  <2>4. CASE op = "cancel"
    BY <1>2, <1>10, <1>11, <1>19, <2>4, Targets DEF Expected, Between, Follows
  <2>5. CASE op = "complete"
    BY <1>2, <1>10, <1>11, <1>12, <1>19, <2>5, Targets DEF Expected, Rest, Open, Follows
  <2>6. CASE op = "recover"
    BY <1>2, <1>10, <1>11, <1>12, <1>14, <1>19, <2>6 DEF Expected, Between, Follows
  <2>7. CASE op = "timeout"
    BY <1>2, <1>19, <2>7 DEF Follows
  <2>. QED
    BY <1>4, <2>1, <2>2, <2>3, <2>4, <2>5, <2>6, <2>7
<1>. QED
    BY <1>1, <1>2, <1>8, <1>16, <1>18, <1>19, Written

LEMMA PublishStatusGood ==
    ASSUME IInv, Typed', NEW s \in Slot, PublishStatus(s)
    PROVE  IInv'
<1>1. PICK op, x, d, b : Here(s, op, x, d, b)
    BY SomeHere DEF PublishStatus, At
<1>2. x = "publish" /\ UNCHANGED trip /\ Advance(s)
    BY <1>1 DEF PublishStatus, At, Here
<1>3. /\ Served(op, x, d, b) /\ op \in Op /\ booking[b] \in Records
      /\ d \in Driver \cup {None}
    BY <1>1, HereIs
<1>4. op \in {"start", "complete", "cancel"}
  <2>1. <<op, x>> \in Ends \/ \E y : <<op, x, y>> \in Follows
    BY <1>1, HereIs
  <2>. QED
    BY <1>2, <2>1 DEF Ends, Follows
<1>5. PICK old : old = booking[b]
    OBVIOUS
<1>6. PICK set : set = [old EXCEPT !.status = Target(op)]
    OBVIOUS
<1>7. PICK bk : bk = IF op = "start" THEN [set EXCEPT !.driver = d, !.owner = d] ELSE set
    OBVIOUS
<1>8. booking' = [booking EXCEPT ![b] = bk]
    BY <1>1, <1>2, <1>5, <1>6, <1>7 DEF PublishStatus, Here, At
<1>9. /\ bk.state = old.state /\ bk.status = Target(op)
      /\ bk.driver = (IF op = "start" THEN d ELSE old.driver)
    BY <1>3, <1>5, <1>6, <1>7 DEF Records
<1>10. Expected(op, x, d, old) /\ (op # "cancel" => Rest(old))
    BY <1>2, <1>3, <1>5 DEF Served, Between
<1>11. bk.driver = old.driver
    BY <1>9, <1>10 DEF Expected
<1>12. bk.driver \in Driver /\ (bk.state \in Live \/ bk.status \in Live)
           => trip[bk.driver] = b
  <2>1. old.driver \in Driver /\ old.state \in Live => trip[old.driver] = b
    BY <1>3, <1>4, <1>5 DEF Served, Indexed
  <2>2. bk.state \in Live \/ bk.status \in Live => old.state \in Live
    BY <1>2, <1>4, <1>9, <1>10, Targets DEF Expected, Live
  <2>. QED
    BY <1>11, <2>1, <2>2
<1>14. <<op, x>> \in Ends => Rest(bk)
  <2>1. <<op, x>> \in Ends => op = "start"
    BY <1>2 DEF Ends
  <2>. QED
    BY <1>2, <1>9, <1>10, <1>11, <2>1, Targets DEF Expected, Rest, Open
<1>15. ASSUME NEW y, <<op, x, y>> \in Follows
       PROVE  Expected(op, y, d, bk) /\ (Rest(bk) \/ Between(op, y))
  <2>1. y = "release" /\ op \in {"complete", "cancel"}
    BY <1>2, <1>15 DEF Follows
  <2>. QED
    BY <1>2, <1>9, <1>10, <1>11, <2>1, Targets DEF Expected, Rest
<1>. QED
    BY <1>1, <1>2, <1>8, <1>12, <1>14, <1>15, Written

LEMMA RewriteArrivalGood ==
    ASSUME IInv, Typed', NEW s \in Slot, RewriteArrival(s)
    PROVE  IInv'
<1>1. PICK op, x, d, b : Here(s, op, x, d, b)
    BY SomeHere DEF RewriteArrival, At
<1>2. x = "rewrite" /\ UNCHANGED trip /\ Advance(s)
    BY <1>1 DEF RewriteArrival, At, Here
<1>3. Served(op, x, d, b)
    BY <1>1, HereIs
<1>4. op = "arrive"
  <2>1. <<op, x>> \in Ends \/ \E y : <<op, x, y>> \in Follows
    BY <1>1, HereIs
  <2>. QED
    BY <1>2, <2>1 DEF Ends, Follows
<1>5. PICK bk : bk = [state |-> "ARRIVED", status |-> "ARRIVED", driver |-> d, owner |-> d]
    OBVIOUS
<1>6. booking' = [booking EXCEPT ![b] = bk]
    BY <1>1, <1>5 DEF RewriteArrival, Here
<1>7. /\ booking[b].state = "ARRIVED" /\ booking[b].driver = d /\ d \in Driver
      /\ trip[d] = b
    BY <1>2, <1>3, <1>4 DEF Served, Expected, Rest, Between, Indexed, Open, Live
<1>8. Rest(bk) /\ bk.driver = d
    BY <1>5, <1>7 DEF Rest
<1>9. \A y : <<op, x, y>> \notin Follows
    BY <1>2, <1>4 DEF Follows
<1>. QED
    BY <1>1, <1>2, <1>6, <1>7, <1>8, <1>9, Written

LEMMA UnassignGood ==
    ASSUME IInv, Typed', NEW s \in Slot, Unassign(s)
    PROVE  IInv'
<1>1. PICK op, x, d, b : Here(s, op, x, d, b)
    BY SomeHere DEF Unassign, At
<1>2. x = "unassign" /\ UNCHANGED trip /\ Advance(s)
    BY <1>1 DEF Unassign, At, Here
<1>3. Served(op, x, d, b) /\ booking[b] \in Records
    BY <1>1, HereIs
<1>4. op = "recover"
  <2>1. <<op, x>> \in Ends \/ \E y : <<op, x, y>> \in Follows
    BY <1>1, HereIs
  <2>. QED
    BY <1>2, <2>1 DEF Ends, Follows
<1>5. PICK old : old = booking[b]
    OBVIOUS
<1>6. PICK bk : bk = [old EXCEPT !.status = "SEARCHING", !.driver = None]
    OBVIOUS
<1>7. booking' = [booking EXCEPT ![b] = bk]
  <2>1. booking \in [Booking -> Records] /\ b \in Booking
    BY <1>1, HereIs DEF IInv, Typed, KeysTyped
  <2>. QED
    BY <1>1, <1>5, <1>6, <2>1 DEF Unassign, Here
<1>8. bk.state = "SEARCHING" /\ bk.status = "SEARCHING" /\ bk.driver = None
    BY <1>2, <1>3, <1>4, <1>5, <1>6 DEF Served, Expected, Records
<1>9. Rest(bk)
    BY <1>2, <1>3, <1>4, <1>5, <1>8 DEF Rest, Open, Served, Expected
<1>10. \A y : <<op, x, y>> \notin Follows
    BY <1>2, <1>4 DEF Follows
<1>11. bk.state \notin Live /\ bk.status \notin Live
    BY <1>8 DEF Live
<1>. QED
    BY <1>1, <1>2, <1>7, <1>9, <1>10, <1>11, Written

LEMMA BindTripGood ==
    ASSUME IInv, Typed', NEW s \in Slot, BindTrip(s)
    PROVE  IInv'
<1>1. PICK op, x, d, b : Here(s, op, x, d, b)
    BY SomeHere DEF BindTrip, At
<1>2. x = "bind" /\ UNCHANGED booking
    BY <1>1 DEF BindTrip, At, Here
<1>3. op = "start"
  <2>1. <<op, x>> \in Ends \/ \E y : <<op, x, y>> \in Follows
    BY <1>1, HereIs
  <2>. QED
    BY <1>2, <2>1 DEF Ends, Follows
<1>4. Served(op, x, d, b) /\ b \in Booking
    BY <1>1, HereIs
<1>5. CASE Abort(s) /\ UNCHANGED trip
    BY <1>1, <1>2, <1>3, <1>5, QuietStep
<1>6. CASE Advance(s) /\ trip[d] \in {None, b} /\ trip' = [trip EXCEPT ![d] = b]
  <2>1. trip \in [Driver -> Booking \cup {None}]
    BY DEF IInv, Typed, KeysTyped
  <2>2. /\ d \in Driver => trip'[d] = b
        /\ \A e \in Driver : e # d => trip'[e] = trip[e]
    BY <1>6, <2>1
  <2>3. Elsewhere(b)
    BY <1>2, <1>6, <2>2, NoneAssumption DEF Elsewhere
  <2>4. Served(op, "read", d, b)'
    BY <1>2, <1>3, <1>4, <2>2 DEF Served, Expected, Between, Indexed, Rest
  <2>5. <<op, x>> \notin Ends /\ \A y : <<op, x, y>> \in Follows => y = "read"
    BY <1>2 DEF Ends, Follows
  <2>. QED
    BY <1>1, <1>6, <2>3, <2>4, <2>5, Advances
<1>. QED
    BY <1>1, <1>5, <1>6 DEF BindTrip, Here

LEMMA UnbindTripGood ==
    ASSUME IInv, Typed', NEW s \in Slot, UnbindTrip(s)
    PROVE  IInv'
<1>1. PICK op, x, d, b : Here(s, op, x, d, b)
    BY SomeHere DEF UnbindTrip, At
<1>2. /\ x = "unbind" /\ UNCHANGED booking /\ Advance(s)
      /\ trip' = Without(trip, d, b)
    BY <1>1 DEF UnbindTrip, At, Here
<1>3. op \in {"cancel", "complete", "recover"}
  <2>1. <<op, x>> \in Ends \/ \E y : <<op, x, y>> \in Follows
    BY <1>1, HereIs
  <2>. QED
    BY <1>2, <2>1 DEF Ends, Follows
<1>4. Served(op, x, d, b)
    BY <1>1, HereIs
<1>5. Elsewhere(b)
  <2>1. trip \in [Driver -> Booking \cup {None}]
    BY DEF IInv, Typed, KeysTyped
  <2>2. \A e \in Driver : trip[e] # b => trip'[e] = trip[e]
    BY <1>2, <2>1, WithoutKey
  <2>. QED
    BY <1>2, <2>2 DEF Elsewhere
<1>6. <<op, x>> \in Ends => Unserved(b)'
  <2>1. <<op, x>> \in Ends => op \in {"cancel", "complete"}
    BY <1>2 DEF Ends
  <2>2. ASSUME op \in {"cancel", "complete"}
        PROVE  Served("none", "none", None, b)'
    <3>1. /\ booking[b].state \in {"CANCELED", "COMPLETED"}
          /\ booking[b].status \in {"CANCELED", "COMPLETED"}
      BY <1>2, <1>4, <2>2 DEF Served, Expected
    <3>. QED
      BY <1>2, <1>4, <2>2, <3>1 DEF Served, Expected, Between, Indexed, Rest, Live
  <2>. QED
    BY <2>1, <2>2 DEF Unserved
<1>7. ASSUME NEW y, <<op, x, y>> \in Follows
      PROVE  Served(op, y, d, b)'
  <2>1. op = "recover" /\ y = "release"
    BY <1>2, <1>7 DEF Follows
  <2>. QED
    BY <1>2, <1>4, <2>1 DEF Served, Expected, Between, Indexed, Rest
<1>. QED
    BY <1>1, <1>2, <1>5, <1>6, <1>7, Advances

LEMMA GoOnUnclearedGood ==
    ASSUME IInv, Typed', NEW s \in Slot, GoOnUncleared(s)
    PROVE  IInv'
<1>1. PICK op, x, d, b : Here(s, op, x, d, b)
    BY SomeHere DEF GoOnUncleared, At
<1>2. /\ op = "recover" /\ x \in {"unbind", "release"} /\ Advance(s)
      /\ UNCHANGED <<booking, trip>>
    BY <1>1 DEF GoOnUncleared, At, Here, keys
<1>3. Served(op, x, d, b)
    BY <1>1, HereIs
<1>4. Elsewhere(b) /\ \A y : <<op, x, y>> \in Follows => Served(op, y, d, b)'
    BY <1>2, <1>3, Quiet
<1>5. <<op, x>> \notin Ends
    BY <1>2 DEF Ends
<1>. QED
    BY <1>1, <1>2, <1>4, <1>5, Advances

LEMMA CheckCancelGood ==
    ASSUME IInv, Typed', NEW s \in Slot, CheckCancel(s)
    PROVE  IInv'
<1>1. PICK op, x, d, b : Here(s, op, x, d, b)
    BY SomeHere DEF CheckCancel, At
<1>2. op = "cancel" /\ x = "check" /\ UNCHANGED <<booking, trip>>
    BY <1>1 DEF CheckCancel, At, Here, keys
<1>3. Served(op, x, d, b) /\ booking[b] \in Records /\ b \in Booking
      /\ \A r \in Slot : r # s => cmd[r].b # b
    BY <1>1, HereIs
<1>4. Elsewhere(b)
    BY <1>2, <1>3, Quiet
<1>5. CASE Abort(s)
  <2>1. Served("none", "none", None, b)'
    BY <1>2, <1>3 DEF Served, Expected, Between, Indexed, Rest
  <2>. QED
    BY <1>1, <1>4, <1>5, <2>1, GivesUp DEF Unserved
<1>6. CASE /\ booking[b].state \notin {"IN_PROGRESS", "COMPLETED", "CANCELED"}
           /\ cmd' = [cmd EXCEPT ![s].d = booking[cmd[s].b].driver, ![s].todo = Tail(@)]
  <2>1. /\ \A r \in Slot : r # s => cmd'[r] = cmd[r]
        /\ cmd'[s].op = "cancel" /\ cmd'[s].d = booking[b].driver /\ cmd'[s].b = b
        /\ cmd'[s].todo = Tail(cmd[s].todo)
        /\ Tail(cmd[s].todo) # <<>> /\ Head(Tail(cmd[s].todo)) = "refund"
    BY <1>1, <1>2, <1>6, SnapshotCmd DEF IInv, Here, At
  <2>2. booking[b].state \in {"SEARCHING", "AWAITING", "ACCEPTED", "ARRIVED"}
    BY <1>3, <1>6 DEF Records, State
  <2>3. \A e : Served("cancel", "refund", e, b)'
    BY <1>2, <1>3, <2>2 DEF Served, Expected, Between, Indexed, Rest
  <2>4. Served(cmd[s].op, Head(cmd[s].todo), cmd[s].d, b)'
    BY <2>1, <2>3
  <2>5. cmd'[s] # Idle
    BY <1>3, <2>1, IdleIsNot
  <2>. QED
    BY <1>1, <1>3, <1>4, <2>1, <2>4, <2>5, Compose DEF Here, Elsewhere
<1>. QED
    BY <1>1, <1>5, <1>6 DEF CheckCancel, Here

LEMMA OtherStepGood ==
    ASSUME IInv, Typed', NEW s \in Slot,
           \/ AcquireLock(s) \/ Notify(s) \/ ScheduleTimeout(s) \/ DropOffer(s)
           \/ InspectLock(s) \/ Settle(s) \/ ProvePayment(s) \/ FreeNotified(s)
           \/ ReleaseLock(s) \/ Refund(s)
    PROVE  IInv'
<1>1. cmd[s].todo # <<>>
    BY DEF AcquireLock, Notify, ScheduleTimeout, DropOffer, InspectLock, Settle,
           ProvePayment, FreeNotified, ReleaseLock, Refund, At
<1>2. PICK op, x, d, b : Here(s, op, x, d, b)
    BY <1>1, SomeHere
<1>3. /\ x \in {"acquire", "notify", "schedule", "drop", "inspect", "settle", "proof",
                "free", "release", "refund"}
      /\ UNCHANGED <<booking, trip>>
      /\ Advance(s) \/ (Abort(s) /\ x \in {"acquire", "inspect", "proof"})
    BY <1>2 DEF AcquireLock, Notify, ScheduleTimeout, DropOffer, InspectLock, Settle,
           ProvePayment, FreeNotified, ReleaseLock, Refund, At, Here, keys
<1>4. x \in {"acquire", "inspect", "proof"} => op \notin {"cancel", "recover"}
  <2>1. <<op, x>> \in Ends \/ \E y : <<op, x, y>> \in Follows
    BY <1>2, HereIs
  <2>. QED
    BY <2>1 DEF Ends, Follows
<1>. QED
    BY <1>2, <1>3, <1>4, QuietStep

LEMMA StepGood ==
    ASSUME IInv, NEW s \in Slot, CommandStep(s)
    PROVE  IInv'
<1>1. Typed'
    BY StepCmd, StepKeys DEF IInv, Typed
<1>. QED
    BY <1>1, CheckOfferGood, ProbeGood, AcceptCasGood, ReadStateGood, WriteStateGood,
       PublishStatusGood, RewriteArrivalGood, UnassignGood, BindTripGood, UnbindTripGood,
       GoOnUnclearedGood, CheckCancelGood, OtherStepGood DEF CommandStep

\* A command begins on a booking that nobody serves, or two serve it then.
LEMMA OthersBusy ==
    ASSUME Alone', NEW s \in Slot, NEW b \in Booking, NEW op, NEW d, NEW t,
           \A r \in Slot : r # s => cmd'[r] = cmd[r],
           cmd'[s] = [op |-> op, d |-> d, b |-> b, todo |-> t], cmd[s] = Idle
    PROVE  \A r \in Slot : cmd[r].b # b
<1>1. cmd'[s].b = b /\ b # None /\ Idle.b = None
    BY NoneAssumption, IdleIsNot
<1>2. cmd'[s] # Idle
    BY <1>1
<1>3. \A r \in Slot : r # s => cmd'[r].b # b
    BY <1>1, <1>2 DEF Alone, Idle
<1>. QED
    BY <1>1, <1>3

LEMMA BeginGood ==
    ASSUME IInv, Alone', NEW s \in Slot, BeginCommand(s)
    PROVE  IInv'
<1>1. Typed' /\ CmdTyped
    BY BeginTyped DEF IInv, Typed
<1>a. PICK op \in Op, d \in Driver \cup {None}, b \in Booking :
          \E t : Begun(op, d, b, t) /\ Begin(s, op, d, b, t)
    BY Beginning DEF IInv
<1>2. PICK t : Begun(op, d, b, t) /\ Begin(s, op, d, b, t)
    BY <1>a
<1>3. UNCHANGED <<booking, trip>>
    BY Beginning DEF IInv
<1>4. /\ \A r \in Slot : r # s => cmd'[r] = cmd[r]
      /\ cmd'[s] = [op |-> op, d |-> d, b |-> b, todo |-> t] /\ cmd[s] = Idle
    BY <1>1, <1>2, BeginCmd DEF Begun
<1>5. \A r \in Slot : cmd[r].b # b
    BY <1>4, OthersBusy
<1>6. Served("none", "none", None, b)
    BY <1>5 DEF IInv, GoodAt, Unserved
<1>7. PICK x : x = Head(t)
    OBVIOUS
<1>9. Rest(booking[b])
    BY <1>6 DEF Served, Between
<1>8. Expected(op, x, d, booking[b])
  <2>1. CASE op = "start"
    <3>1. booking[b].state = "ARRIVED" /\ Assigned(b) = d /\ x = "proof"
      BY <1>2, <1>7, <2>1 DEF Begun
    <3>2. booking[b].driver = d
      BY <1>9, <3>1, NoneAssumption DEF Rest, Assigned, Open
    <3>. QED
      BY <2>1, <3>1, <3>2 DEF Expected
  <2>2. CASE op = "recover"
    <3>1. booking[b].driver = d /\ Accepted(b) /\ x = "unbind"
      BY <1>2, <1>7, <2>2 DEF Begun
    <3>2. booking[b].state = "ACCEPTED"
      BY <1>9, <3>1 DEF Rest, Accepted, Open
    <3>. QED
      BY <2>2, <3>1, <3>2 DEF Expected
  <2>3. CASE op \in {"arrive", "complete"}
    BY <1>2, <1>7, <2>3 DEF Begun, Expected
  <2>4. CASE op \in {"offer", "timeout", "accept", "cancel"}
    BY <1>2, <1>7, <2>4 DEF Begun, Expected
  <2>. QED
    BY <2>1, <2>2, <2>3, <2>4 DEF Op
<1>10. /\ op = "cancel" => x = "free"
       /\ op = "recover" => x = "unbind"
    BY <1>2, <1>7 DEF Begun
<1>11. Served(op, x, d, b)'
    BY <1>3, <1>6, <1>8, <1>9, <1>10 DEF Served, Expected, Indexed, Rest
<1>12. Served(cmd[s].op, Head(cmd[s].todo), cmd[s].d, b)'
    BY <1>4, <1>7, <1>11
<1>13. Elsewhere(b)
    BY <1>3 DEF Elsewhere
<1>14. cmd'[s] # Idle /\ cmd'[s].b = b
    BY <1>4, IdleIsNot
<1>. QED
    BY <1>1, <1>4, <1>5, <1>12, <1>13, <1>14, Compose DEF Elsewhere

LEMMA CrashGood ==
    ASSUME IInv, NEW s \in Slot, Crash(s), ~HalfWay(s)
    PROVE  IInv'
<1>1. Typed'
    BY AbortCmd, KeysKept DEF Crash, IInv, Typed
<1>2. cmd[s].op \in Op
    BY OpsAssumption DEF Crash
<1>3. cmd[s].todo # <<>>
    BY <1>2, BusyOrIdle, IdleIsNot DEF IInv, Typed, CmdTyped
<1>4. PICK op, x, d, b : Here(s, op, x, d, b)
    BY <1>3, SomeHere
<1>5. /\ op = "recover" => x = "unbind"
      /\ ~Between(op, x) /\ UNCHANGED <<booking, trip>>
    BY <1>4 DEF Here, HalfWay, Between, Crash, keys
<1>6. Served(op, x, d, b)
    BY <1>4, HereIs
<1>7. Unserved(b)'
    BY <1>5, <1>6 DEF Unserved, Served, Expected, Between, Indexed, Rest
<1>8. Elsewhere(b)
    BY <1>5 DEF Elsewhere
<1>. QED
    BY <1>1, <1>4, <1>7, <1>8, GivesUp DEF Crash

LEMMA KeyStepGood ==
    ASSUME IInv, NEW e \in Driver, KeyStep(e)
    PROVE  IInv'
<1>1. Typed'
    BY NextTyped DEF IInv, Next
<1>2. UNCHANGED <<booking, cmd>>
    BY DEF KeyStep, LockExpires, SyncActiveRide, OfferExpires
<1>3. \A c \in Booking, d \in Driver :
          trip[d] = c /\ trip'[d] # c => booking[c].status \in Terminal
  <2>1. trip \in [Driver -> Booking \cup {None}]
    BY DEF IInv, Typed, KeysTyped
  <2>. QED
    BY <2>1 DEF KeyStep, LockExpires, SyncActiveRide, OfferExpires
<1>4. ASSUME NEW c \in Booking, NEW op, NEW x, NEW d, Served(op, x, d, c)
      PROVE  Served(op, x, d, c)'
  <2>1. booking[c].status \in Terminal
            => booking[c].state \notin Live /\ booking[c].status \notin Live
    BY <1>4 DEF Served, Expected, Between, Rest, Terminal, Live, Open
  <2>2. Indexed(op, x, c)'
    BY <1>2, <1>3, <1>4, <2>1 DEF Served, Indexed
  <2>. QED
    BY <1>2, <1>4, <2>2 DEF Served, Expected, Rest
<1>5. ASSUME NEW c \in Booking
      PROVE  GoodAt(c)'
  <2>1. \A op, x, d : Served(op, x, d, c) => Served(op, x, d, c)'
    BY <1>4
  <2>2. \A r \in Slot : cmd[r].b = c =>
            Served(cmd[r].op, Head(cmd[r].todo), cmd[r].d, c)'
    BY <1>2, <2>1 DEF IInv, GoodAt
  <2>3. (\A r \in Slot : cmd[r].b # c) => Served("none", "none", None, c)'
    BY <2>1 DEF IInv, GoodAt, Unserved
  <2>. QED
    BY <1>2, <2>2, <2>3 DEF GoodAt, Unserved
<1>. QED
    BY <1>1, <1>2, <1>5 DEF IInv, Alone, Idle

LEMMA InitGood ==
    ASSUME Init
    PROVE  IInv
<1>1. Typed
    BY InitTyped
<1>2. Alone
    BY DEF Init, Alone
<1>3. ASSUME NEW b \in Booking
      PROVE  GoodAt(b)
  <2>1. \A s \in Slot : cmd[s].b # b
    BY <1>3, IdleIsNot DEF Init
  <2>2. /\ booking[b].state = "SEARCHING" /\ booking[b].status = "SEARCHING"
        /\ booking[b].driver = None
    BY DEF Init
  <2>3. Served("none", "none", None, b)
    BY <2>2 DEF Served, Expected, Rest, Indexed, Open, Live
  <2>. QED
    BY <2>1, <2>3 DEF GoodAt, Unserved
<1>. QED
    BY <1>1, <1>2, <1>3 DEF IInv

LEMMA NextGood ==
    ASSUME IInv, Alone', [Next]_vars, [NothingHalfDone]_vars
    PROVE  IInv'
<1>1. CASE UNCHANGED vars
  <2>1. Typed'
    BY NextTyped DEF IInv
  <2>2. UNCHANGED <<booking, trip, cmd>>
    BY <1>1 DEF vars
  <2>3. Alone'
    BY <2>2 DEF IInv, Alone, Idle
  <2>4. \A b \in Booking : GoodAt(b)'
    BY <2>2 DEF IInv, GoodAt, Unserved, Served, Expected, Indexed, Rest, Between
  <2>. QED
    BY <2>1, <2>3, <2>4 DEF IInv
<1>2. CASE Next /\ vars' # vars
  <2>1. NothingHalfDone
    BY <1>2
  <2>. QED
    BY <1>2, <2>1, StepGood, BeginGood, CrashGood, KeyStepGood DEF Next, NothingHalfDone
<1>. QED
    BY <1>1, <1>2

LEMMA WhatHolds ==
    ASSUME IInv
    PROVE  RideIsIndexed /\ OneRidePerDriver
<1>1. ASSUME NEW d \in Driver, NEW b \in Booking, RunBy(b, d)
      PROVE  trip[d] = b
  <2>1. booking[b].driver = d /\ booking[b].state \in Live /\ ~Recovering(b)
    BY <1>1 DEF RunBy
  <2>2. CASE \A s \in Slot : cmd[s].b # b
    BY <2>1, <2>2 DEF IInv, GoodAt, Unserved, Served, Indexed
  <2>3. ASSUME NEW s \in Slot, cmd[s].b = b
        PROVE  trip[d] = b
    <3>1. Indexed(cmd[s].op, Head(cmd[s].todo), b)
      BY <2>3 DEF IInv, GoodAt, Served
    <3>2. ~(cmd[s].op = "recover" /\ Head(cmd[s].todo) # "unbind")
      BY <2>1, <2>3 DEF Recovering
    <3>. QED
      BY <2>1, <3>1, <3>2 DEF Indexed
  <2>. QED
    BY <2>2, <2>3
<1>. QED
    BY <1>1 DEF RideIsIndexed, OneRidePerDriver

LEMMA Orderliness == Spec /\ []Alone /\ [][NothingHalfDone]_vars => []IInv
<1>1. Init => IInv
    BY InitGood
<1>2. IInv /\ Alone' /\ [Next]_vars /\ [NothingHalfDone]_vars => IInv'
    BY NextGood
<1>. QED
    BY <1>1, <1>2, PTL DEF Spec

\* A driver gets two rides at once only in an execution in which two commands
\* were on one booking together or one died half-way: not by a lock that
\* expires, an offer that lingers or any other death (acceptRideCasScript).
THEOREM DriverRunsOneRide ==
    Spec /\ []Alone /\ [][NothingHalfDone]_vars => []OneRidePerDriver
<1>1. IInv => OneRidePerDriver
    BY WhatHolds
<1>. QED
    BY <1>1, Orderliness, PTL

\* In no other execution either is the driver of a ride under way not the one
\* whom the index names, though rides of the same driver bind and unbind it.
THEOREM RunningRideIsIndexed ==
    Spec /\ []Alone /\ [][NothingHalfDone]_vars => []RideIsIndexed
<1>1. IInv => RideIsIndexed
    BY WhatHolds
<1>. QED
    BY <1>1, Orderliness, PTL

(***************************************************************************)
(* The commands implement the life of a ride.                               *)
(***************************************************************************)
hired == [b \in Booking |->
             IF phase[b] \in {"open", "canceled"} THEN None ELSE booking[b].driver]

PhaseOf(st, back) ==
    IF st \in Open \/ back THEN "open"
    ELSE IF st = "ACCEPTED" THEN "accepted"
    ELSE IF st = "ARRIVED" THEN "arrived"
    ELSE IF st = "IN_PROGRESS" THEN "started"
    ELSE IF st = "COMPLETED" THEN "completed"
    ELSE "canceled"

LEMMA PhaseIs ==
    /\ phase \in [Booking -> {"open", "accepted", "arrived", "started", "completed", "canceled"}]
    /\ \A b \in Booking : phase[b] = PhaseOf(booking[b].state, Recovering(b))
    /\ phase' \in [Booking -> {"open", "accepted", "arrived", "started", "completed", "canceled"}]
    /\ \A b \in Booking : phase'[b] = PhaseOf(booking'[b].state, Recovering(b)')
BY DEF phase, PhaseOf

LEMMA HiredIs ==
    /\ \A b \in Booking : hired[b] =
           IF phase[b] \in {"open", "canceled"} THEN None ELSE booking[b].driver
    /\ \A b \in Booking : hired'[b] =
           IF phase'[b] \in {"open", "canceled"} THEN None ELSE booking'[b].driver
    /\ DOMAIN hired = Booking /\ DOMAIN hired' = Booking
    /\ hired = [b \in Booking |-> hired[b]] /\ hired' = [b \in Booking |-> hired'[b]]
BY DEF hired

\* What a command that serves b may do to the life of b, as far as one sees it
\* from b.
Lives(b) ==
    \/ phase'[b] = phase[b] /\ hired'[b] = hired[b]
    \/ /\ <<phase[b], phase'[b]>> \in
              {<<"accepted", "arrived">>, <<"arrived", "started">>, <<"started", "completed">>}
       /\ hired'[b] = hired[b]
    \/ phase[b] \in {"open", "accepted", "arrived"} /\ phase'[b] = "canceled"
    \/ phase[b] = "accepted" /\ phase'[b] = "open"
    \/ /\ phase[b] = "open" /\ phase'[b] = "accepted"
       /\ hired'[b] \in Driver
       /\ \A c \in Booking : phase[c] \in {"accepted", "arrived", "started"}
                                 => hired[c] # hired'[b]

LEMMA LivesIsNext ==
    ASSUME NEW b \in Booking, Lives(b),
           \A c \in Booking : c # b => phase'[c] = phase[c] /\ hired'[c] = hired[c]
    PROVE  [Lifecycle!Next]_(Lifecycle!vars)
<1>. DEFINE Goal == [Lifecycle!Next]_(Lifecycle!vars)
<1>1. /\ hired = [c \in Booking |->
                     IF phase[c] \in {"open", "canceled"} THEN None ELSE booking[c].driver]
      /\ Lifecycle!vars = <<phase, hired>>
    BY DEF hired, Lifecycle!vars
<1>2. /\ \A new : phase'[b] = new => phase' = [phase EXCEPT ![b] = new]
      /\ \A new : hired'[b] = new => hired' = [hired EXCEPT ![b] = new]
    BY PhaseIs, HiredIs
<1>3. CASE phase'[b] = phase[b] /\ hired'[b] = hired[b]
  <2>1. phase' = phase /\ hired' = hired
    BY <1>3, PhaseIs, HiredIs
  <2>. QED
    BY <2>1 DEF hired, Lifecycle!vars
<1>4. CASE /\ <<phase[b], phase'[b]>> \in
                  {<<"accepted", "arrived">>, <<"arrived", "started">>, <<"started", "completed">>}
           /\ hired'[b] = hired[b]
  <2>1. hired' = hired
    BY <1>4, HiredIs
  <2>. QED
    BY <1>1, <1>2, <1>4, <2>1 DEF Lifecycle!Next, Lifecycle!Arrive, Lifecycle!Start,
       Lifecycle!Complete, Lifecycle!Go, hired
<1>5. CASE phase[b] \in {"open", "accepted", "arrived"} /\ phase'[b] = "canceled"
  <2>1. hired'[b] = None
    BY <1>5, HiredIs
  <2>. QED
    BY <1>1, <1>2, <1>5, <2>1 DEF Lifecycle!Next, Lifecycle!Cancel, hired
<1>6. CASE phase[b] = "accepted" /\ phase'[b] = "open"
  <2>1. hired'[b] = None
    BY <1>6, HiredIs
  <2>. QED
    BY <1>1, <1>2, <1>6, <2>1 DEF Lifecycle!Next, Lifecycle!Recover, hired
<1>7. CASE /\ phase[b] = "open" /\ phase'[b] = "accepted"
           /\ hired'[b] \in Driver
           /\ \A c \in Booking : phase[c] \in {"accepted", "arrived", "started"}
                                     => hired[c] # hired'[b]
  <2>1. PICK d \in Driver : d = hired'[b]
    BY <1>7
  <2>2. ~Lifecycle!Busy(d)
    BY <1>7, <2>1 DEF Lifecycle!Busy, Lifecycle!Live, hired
  <2>3. Lifecycle!Accept(b, d)
    BY <1>2, <1>7, <2>1, <2>2 DEF Lifecycle!Accept, hired
  <2>. QED
    BY <2>1, <2>3 DEF Lifecycle!Next
<1>. QED
    BY <1>3, <1>4, <1>5, <1>6, <1>7 DEF Lives

\* What a step other than those of a recovery may do to a booking.
Moved(old, new, b) ==
    \/ new.state = old.state /\ new.driver = old.driver
    \/ old.state \in Open /\ new.state \in Open
    \/ /\ <<old.state, new.state>> \in {<<"ACCEPTED", "ARRIVED">>, <<"ARRIVED", "IN_PROGRESS">>,
                                        <<"IN_PROGRESS", "COMPLETED">>}
       /\ new.driver = old.driver
    \/ /\ old.state \in {"SEARCHING", "AWAITING", "ACCEPTED", "ARRIVED"}
       /\ new.state = "CANCELED"
    \/ /\ old.state \in Open /\ new.state = "ACCEPTED"
       /\ new.driver \in Driver /\ trip[new.driver] \in {None, b}

LEMMA MovedLives ==
    ASSUME IInv, NEW b \in Booking, ~Recovering(b), ~Recovering(b)',
           Moved(booking[b], booking'[b], b), booking[b] \in Records
    PROVE  Lives(b)
<1>1. /\ phase[b] = PhaseOf(booking[b].state, FALSE)
      /\ phase'[b] = PhaseOf(booking'[b].state, FALSE)
    BY PhaseIs DEF PhaseOf
<1>2. booking[b].state \in State
    BY DEF Records
<1>3. CASE booking'[b].state = booking[b].state /\ booking'[b].driver = booking[b].driver
    BY <1>1, <1>3, HiredIs DEF Lives
<1>4. CASE booking[b].state \in Open /\ booking'[b].state \in Open
    BY <1>1, <1>4, HiredIs DEF Lives, PhaseOf
<1>5. CASE /\ <<booking[b].state, booking'[b].state>> \in
                  {<<"ACCEPTED", "ARRIVED">>, <<"ARRIVED", "IN_PROGRESS">>,
                   <<"IN_PROGRESS", "COMPLETED">>}
           /\ booking'[b].driver = booking[b].driver
    BY <1>1, <1>5, HiredIs DEF Lives, PhaseOf, Open
<1>6. CASE /\ booking[b].state \in {"SEARCHING", "AWAITING", "ACCEPTED", "ARRIVED"}
           /\ booking'[b].state = "CANCELED"
    BY <1>1, <1>6 DEF Lives, PhaseOf, Open
<1>7. CASE /\ booking[b].state \in Open /\ booking'[b].state = "ACCEPTED"
           /\ booking'[b].driver \in Driver /\ trip[booking'[b].driver] \in {None, b}
  <2>1. PICK d \in Driver : d = booking'[b].driver
    BY <1>7
  <2>2. phase[b] = "open" /\ phase'[b] = "accepted" /\ hired'[b] = d
    BY <1>1, <1>7, <2>1, HiredIs DEF PhaseOf, Open
  <2>3. ASSUME NEW c \in Booking, phase[c] \in {"accepted", "arrived", "started"}, hired[c] = d
        PROVE  FALSE
    <3>1. booking[c].driver = d /\ booking[c].state \in Live /\ ~Recovering(c)
      <4>1. phase[c] = PhaseOf(booking[c].state, Recovering(c)) /\ booking[c].driver = d
        BY <2>3, PhaseIs, HiredIs
      <4>. QED
        BY <2>3, <4>1 DEF PhaseOf, Live
    <3>2. trip[d] = c
      BY <3>1, WhatHolds DEF RideIsIndexed, RunBy
    <3>. QED
      BY <1>7, <2>1, <2>2, <2>3, <3>2, NoneAssumption
  <2>. QED
    BY <2>2, <2>3 DEF Lives
<1>. QED
    BY <1>3, <1>4, <1>5, <1>6, <1>7 DEF Moved

LEMMA OthersLive ==
    ASSUME IInv, NEW s \in Slot, NEW b \in Booking,
           cmd[s] = Idle \/ cmd[s].b = b, cmd'[s] = Idle \/ cmd'[s].b = b,
           \A r \in Slot : r # s => cmd'[r] = cmd[r],
           \A c \in Booking : c # b => booking'[c] = booking[c],
           NEW c \in Booking, c # b
    PROVE  phase'[c] = phase[c] /\ hired'[c] = hired[c]
<1>1. cmd[s].b # c /\ cmd'[s].b # c
    BY IdleIsNot
<1>2. Recovering(c) <=> Recovering(c)'
    BY <1>1 DEF Recovering
<1>3. phase'[c] = phase[c]
    BY <1>2, PhaseIs DEF PhaseOf
<1>. QED
    BY <1>3, HiredIs

LEMMA RecoveringIs ==
    ASSUME IInv, NEW s \in Slot, NEW op, NEW x, NEW d, NEW b, Here(s, op, x, d, b)
    PROVE  Recovering(b) <=> op = "recover" /\ x # "unbind"
<1>1. \A r \in Slot : r # s => cmd[r].b # b
    BY HereIs
<1>. QED
    BY <1>1 DEF Recovering, Here

\* A step touches the booking its command serves and no other.
LEMMA StepBooking ==
    ASSUME Typed, NEW s \in Slot, CommandStep(s), NEW c \in Booking, c # cmd[s].b
    PROVE  booking'[c] = booking[c]
<1>1. booking \in [Booking -> Records]
    BY DEF Typed, KeysTyped
<1>2. CASE UNCHANGED booking
    BY <1>2
<1>3. CASE \E v : booking' = [booking EXCEPT ![cmd[s].b] = v]
    BY <1>1, <1>3
<1>4. CASE Unassign(s)
    BY <1>1, <1>4 DEF Unassign
<1>5. AcceptCas(s) => UNCHANGED booking \/ \E v : booking' = [booking EXCEPT ![cmd[s].b] = v]
    BY DEF AcceptCas
<1>6. WriteState(s) \/ PublishStatus(s) \/ RewriteArrival(s)
          => \E v : booking' = [booking EXCEPT ![cmd[s].b] = v]
    BY DEF WriteState, PublishStatus, RewriteArrival
<1>. QED
    BY <1>2, <1>3, <1>4, <1>5, <1>6
       DEF CommandStep, AcquireLock, CheckOffer, Notify, ScheduleTimeout, DropOffer, Probe,
           InspectLock, Settle, ReadState, ProvePayment, BindTrip, FreeNotified,
           CheckCancel, Refund, ReleaseLock, UnbindTrip, GoOnUncleared, keys

\* The steps that write a booking, one by one.
LEMMA AcceptMoves ==
    ASSUME IInv, NEW s \in Slot, AcceptCas(s), NEW op, NEW x, NEW d, NEW b,
           Here(s, op, x, d, b)
    PROVE  Moved(booking[b], booking'[b], b)
<1>1. /\ Served(op, x, d, b) /\ b \in Booking /\ booking \in [Booking -> Records]
      /\ x = "cas"
    BY HereIs DEF IInv, Typed, KeysTyped, AcceptCas, At, Here
<1>2. op = "accept"
  <2>1. <<op, x>> \in Ends \/ \E y : <<op, x, y>> \in Follows
    BY HereIs
  <2>. QED
    BY <1>1, <2>1 DEF Ends, Follows
<1>3. d \in Driver
  <2>1. op \notin {"cancel", "recover"}
    BY <1>2
  <2>. QED
    BY <2>1, HereIs
<1>4. Rest(booking[b])
    BY <1>1, <1>2 DEF Served, Between
<1>5. PICK taken :
          taken = [state |-> "ACCEPTED", status |-> "ACCEPTED", driver |-> d, owner |-> d]
    OBVIOUS
<1>6. \/ booking'[b] = booking[b]
      \/ /\ trip[d] \in {None, b} /\ booking'[b] = taken
         /\ booking[b].state \in Open \/ booking[b].status \in Open
    BY <1>1, <1>5 DEF AcceptCas, Here
<1>7. booking[b].status \in Open => booking[b].state \in Open
    BY <1>4 DEF Rest, Open
<1>. QED
    BY <1>3, <1>5, <1>6, <1>7 DEF Moved

LEMMA WriteMoves ==
    ASSUME IInv, NEW s \in Slot, WriteState(s), NEW op, NEW x, NEW d, NEW b,
           Here(s, op, x, d, b), op # "recover"
    PROVE  Moved(booking[b], booking'[b], b)
<1>1. /\ Served(op, x, d, b) /\ b \in Booking /\ booking \in [Booking -> Records]
      /\ x \in {"write", "patch"} /\ op \in Op /\ d \in Driver \cup {None}
      /\ booking[b] \in Records
    BY HereIs DEF IInv, Typed, KeysTyped, WriteState, At, Here
<1>2. op \in {"arrive", "start", "complete", "offer", "timeout", "cancel"}
  <2>1. <<op, x>> \in Ends \/ \E y : <<op, x, y>> \in Follows
    BY HereIs
  <2>. QED
    BY <1>1, <2>1 DEF Ends, Follows
<1>3. PICK old : old = booking[b]
    OBVIOUS
<1>4. PICK set : set = [old EXCEPT !.state = Target(op)]
    OBVIOUS
<1>5. PICK bk : bk = Metadata(op, d, IF x = "write" THEN set ELSE old)
    OBVIOUS
<1>6. booking'[b] = bk
    BY <1>1, <1>3, <1>4, <1>5 DEF WriteState, Here, At
<1>7. set \in Records /\ set.state = Target(op) /\ set.driver = old.driver
    BY <1>1, <1>3, <1>4, TargetIsState DEF Records
<1>8. /\ bk.state = (IF x = "write" THEN Target(op) ELSE old.state)
      /\ op \in {"arrive", "start", "complete"} => bk.driver = d
      /\ op \notin {"arrive", "start", "complete"} => bk.driver = old.driver
    BY <1>1, <1>3, <1>5, <1>7, MetadataIs
<1>9. Expected(op, x, d, old)
    BY <1>1, <1>3 DEF Served
<1>10. bk.driver = old.driver
    BY <1>2, <1>8, <1>9 DEF Expected
<1>11. CASE x = "patch"
    BY <1>3, <1>6, <1>8, <1>10, <1>11 DEF Moved
<1>12. CASE x = "write"
    BY <1>2, <1>3, <1>6, <1>8, <1>9, <1>10, <1>12, Targets DEF Expected, Moved, Open
<1>. QED
    BY <1>1, <1>11, <1>12

LEMMA PublishMoves ==
    ASSUME IInv, NEW s \in Slot, PublishStatus(s), NEW op, NEW x, NEW d, NEW b,
           Here(s, op, x, d, b)
    PROVE  Moved(booking[b], booking'[b], b)
<1>1. /\ Served(op, x, d, b) /\ b \in Booking /\ booking \in [Booking -> Records]
      /\ x = "publish" /\ booking[b] \in Records
  <2>1. x = "publish"
    BY DEF PublishStatus, At, Here
  <2>. QED
    BY <2>1, HereIs DEF IInv, Typed, KeysTyped
<1>2. PICK old : old = booking[b]
    OBVIOUS
<1>3. PICK set : set = [old EXCEPT !.status = Target(op)]
    OBVIOUS
<1>4. PICK bk : bk = IF op = "start" THEN [set EXCEPT !.driver = d, !.owner = d] ELSE set
    OBVIOUS
<1>5. booking'[b] = bk
    BY <1>1, <1>2, <1>3, <1>4 DEF PublishStatus, Here, At
<1>6. bk.state = old.state /\ bk.driver = (IF op = "start" THEN d ELSE old.driver)
    BY <1>1, <1>2, <1>3, <1>4 DEF Records
<1>7. op = "start" => old.driver = d
    BY <1>1, <1>2 DEF Served, Expected
<1>. QED
    BY <1>2, <1>5, <1>6, <1>7 DEF Moved

LEMMA ArrivalMoves ==
    ASSUME IInv, NEW s \in Slot, RewriteArrival(s), NEW op, NEW x, NEW d, NEW b,
           Here(s, op, x, d, b)
    PROVE  Moved(booking[b], booking'[b], b)
<1>1. /\ Served(op, x, d, b) /\ b \in Booking /\ booking \in [Booking -> Records]
      /\ x = "rewrite"
    BY HereIs DEF IInv, Typed, KeysTyped, RewriteArrival, At, Here
<1>2. op = "arrive"
  <2>1. <<op, x>> \in Ends \/ \E y : <<op, x, y>> \in Follows
    BY HereIs
  <2>. QED
    BY <1>1, <2>1 DEF Ends, Follows
<1>3. booking[b].state = "ARRIVED" /\ booking[b].driver = d
    BY <1>1, <1>2 DEF Served, Expected
<1>4. booking'[b].state = "ARRIVED" /\ booking'[b].driver = d
    BY <1>1 DEF RewriteArrival, Here
<1>. QED
    BY <1>3, <1>4 DEF Moved

LEMMA StepMoves ==
    ASSUME IInv, NEW s \in Slot, CommandStep(s), NEW op, NEW x, NEW d, NEW b,
           Here(s, op, x, d, b), op # "recover"
    PROVE  Moved(booking[b], booking'[b], b)
<1>1. CASE UNCHANGED booking
    BY <1>1 DEF Moved
<1>2. ~Unassign(s)
  <2>1. <<op, x>> \in Ends \/ \E y : <<op, x, y>> \in Follows
    BY HereIs
  <2>2. <<op, "unassign">> \notin Ends /\ \A y : <<op, "unassign", y>> \notin Follows
    BY DEF Ends, Follows
  <2>. QED
    BY <2>1, <2>2 DEF Unassign, At, Here
<1>. QED
    BY <1>1, <1>2, AcceptMoves, WriteMoves, PublishMoves, ArrivalMoves
       DEF CommandStep, AcquireLock, CheckOffer, Notify, ScheduleTimeout, DropOffer, Probe,
           InspectLock, Settle, ReadState, ProvePayment, BindTrip, FreeNotified,
           CheckCancel, Refund, ReleaseLock, UnbindTrip, GoOnUncleared, keys

\* A recovery opens the ride again when it takes the index from the driver.
LEMMA RecoveryOpens ==
    ASSUME IInv, NEW s \in Slot, CommandStep(s), NEW x, NEW d, NEW b,
           Here(s, "recover", x, d, b)
    PROVE  /\ phase[b] = (IF x = "unbind" THEN "accepted" ELSE "open")
           /\ phase'[b] = "open"
<1>1. /\ Served("recover", x, d, b) /\ b \in Booking /\ booking[b] \in Records
      /\ booking \in [Booking -> Records]
      /\ CmdTyped /\ cmd[s].todo # <<>> /\ Head(cmd[s].todo) = x
    BY HereIs DEF IInv, Typed, KeysTyped, Here
<1>2. x \in {"unbind", "release", "read", "write", "unassign"}
  <2>1. <<"recover", x>> \in Ends \/ \E y : <<"recover", x, y>> \in Follows
    BY HereIs
  <2>2. x # "patch"
    BY <1>1 DEF Served, Expected
  <2>. QED
    BY <2>1, <2>2 DEF Ends, Follows
<1>3. phase[b] = (IF x = "unbind" THEN "accepted" ELSE "open")
  <2>1. Recovering(b) <=> x # "unbind"
    BY RecoveringIs
  <2>2. x = "unbind" => booking[b].state = "ACCEPTED"
    BY <1>1 DEF Served, Expected
  <2>. QED
    BY <1>1, <2>1, <2>2, PhaseIs DEF PhaseOf, Open
<1>4. ReadState(s) => Advance(s)
  <2>1. ReadState(s) => booking[b].state = "ACCEPTED"
    BY <1>1 DEF Served, Expected, ReadState, At
  <2>2. "SEARCHING" \in ValidTransition("ACCEPTED") /\ Target("recover") = "SEARCHING"
    BY Targets, Transitions DEF State
  <2>. QED
    BY <2>1, <2>2 DEF ReadState, Here
<1>5. Advance(s) /\ (x = "unassign" => Unassign(s))
    BY <1>2, <1>4 DEF CommandStep, AcquireLock, CheckOffer, Notify, ScheduleTimeout, DropOffer,
           Probe, InspectLock, AcceptCas, Settle, ReadState, WriteState, PublishStatus,
           RewriteArrival, ProvePayment, BindTrip, FreeNotified, CheckCancel, Refund,
           ReleaseLock, UnbindTrip, GoOnUncleared, Unassign, At, Here
<1>6. CASE Tail(cmd[s].todo) = <<>>
  <2>1. <<"recover", x>> \in Ends
    BY <1>1, <1>6, Running, WalkOn DEF Here
  <2>2. Unassign(s) /\ booking[b].state = "SEARCHING"
    BY <1>1, <1>5, <2>1 DEF Ends, Served, Expected
  <2>3. PICK old : old = booking[b]
    OBVIOUS
  <2>4. booking'[b] = [old EXCEPT !.status = "SEARCHING", !.driver = None]
    BY <1>1, <2>2, <2>3 DEF Unassign, Here
  <2>5. booking'[b].state = "SEARCHING"
    BY <1>1, <2>2, <2>3, <2>4 DEF Records
  <2>. QED
    BY <1>1, <1>3, <2>5, PhaseIs DEF PhaseOf, Open
<1>7. CASE Tail(cmd[s].todo) # <<>>
  <2>1. <<"recover", x, Head(Tail(cmd[s].todo))>> \in Follows
    BY <1>1, <1>7, Running, WalkOn DEF Here
  <2>2. Head(Tail(cmd[s].todo)) # "unbind"
    BY <2>1 DEF Follows
  <2>3. /\ cmd'[s].op = "recover" /\ cmd'[s].b = b
        /\ cmd'[s].todo = Tail(cmd[s].todo)
    BY <1>1, <1>5, <1>7, AdvanceCmd DEF Here
  <2>4. Recovering(b)'
    BY <2>2, <2>3 DEF Recovering
  <2>. QED
    BY <1>1, <1>3, <2>4, PhaseIs DEF PhaseOf
<1>. QED
    BY <1>3, <1>6, <1>7

LEMMA StepLives ==
    ASSUME IInv, NEW s \in Slot, CommandStep(s)
    PROVE  [Lifecycle!Next]_(Lifecycle!vars)
<1>1. Typed /\ cmd[s].todo # <<>> /\ (\A r \in Slot : r # s => cmd'[r] = cmd[r])
      /\ (cmd'[s] = Idle \/ (cmd'[s].op = cmd[s].op /\ cmd'[s].b = cmd[s].b))
    BY StepCmd DEF IInv
<1>2. PICK op, x, d, b : Here(s, op, x, d, b)
    BY <1>1, SomeHere
<1>3. /\ b \in Booking /\ booking[b] \in Records /\ cmd[s].b = b /\ cmd[s].op = op
      /\ \A r \in Slot : r # s => cmd[r].b # b
    BY <1>2, HereIs DEF Here
<1>4. \A c \in Booking : c # b => booking'[c] = booking[c]
    BY <1>1, <1>3, StepBooking
<1>5. \A c \in Booking : c # b => phase'[c] = phase[c] /\ hired'[c] = hired[c]
    BY <1>1, <1>3, <1>4, OthersLive
<1>6. CASE op = "recover"
  <2>1. phase[b] \in {"open", "accepted"} /\ phase'[b] = "open"
    BY <1>2, <1>6, RecoveryOpens
  <2>2. Lives(b)
    BY <1>3, <2>1, HiredIs DEF Lives
  <2>. QED
    BY <1>3, <1>5, <2>2, LivesIsNext
<1>7. CASE op # "recover"
  <2>1. ~Recovering(b)
    BY <1>2, <1>7, RecoveringIs
  <2>2. ~Recovering(b)'
    BY <1>1, <1>3, <1>7, IdleIsNot DEF Recovering, Op
  <2>3. Moved(booking[b], booking'[b], b)
    BY <1>2, <1>7, StepMoves
  <2>4. Lives(b)
    BY <1>3, <2>1, <2>2, <2>3, MovedLives
  <2>. QED
    BY <1>3, <1>5, <2>4, LivesIsNext
<1>. QED
    BY <1>6, <1>7

LEMMA BeginLives ==
    ASSUME IInv, Alone', NEW s \in Slot, BeginCommand(s)
    PROVE  [Lifecycle!Next]_(Lifecycle!vars)
<1>1. Typed /\ CmdTyped /\ booking' = booking
    BY Beginning DEF IInv, Typed
<1>2. PICK op \in Op, d \in Driver \cup {None}, b \in Booking :
          \E t : Begun(op, d, b, t) /\ Begin(s, op, d, b, t)
    BY <1>1, Beginning
<1>3. PICK t : Begun(op, d, b, t) /\ Begin(s, op, d, b, t)
    BY <1>2
<1>4. /\ \A r \in Slot : r # s => cmd'[r] = cmd[r]
      /\ cmd'[s].op = op /\ cmd'[s].b = b /\ cmd'[s].todo = t
      /\ cmd[s] = Idle
  <2>1. /\ \A r \in Slot : r # s => cmd'[r] = cmd[r]
        /\ cmd'[s] = [op |-> op, d |-> d, b |-> b, todo |-> t] /\ cmd[s] = Idle
    BY <1>1, <1>3, BeginCmd DEF Begun
  <2>. QED
    BY <2>1
<1>5. \A r \in Slot : cmd[r].b # b
  <2>1. /\ \A r \in Slot : r # s => cmd'[r] = cmd[r]
        /\ cmd'[s] = [op |-> op, d |-> d, b |-> b, todo |-> t] /\ cmd[s] = Idle
    BY <1>1, <1>3, BeginCmd DEF Begun
  <2>. QED
    BY <2>1, OthersBusy
<1>6. ~Recovering(b) /\ ~Recovering(b)'
    BY <1>3, <1>4, <1>5 DEF Recovering, Begun
<1>7. phase'[b] = phase[b]
    BY <1>1, <1>6, PhaseIs DEF PhaseOf
<1>8. Lives(b)
    BY <1>1, <1>7, HiredIs DEF Lives
<1>9. \A c \in Booking : c # b => phase'[c] = phase[c] /\ hired'[c] = hired[c]
    BY <1>1, <1>4, OthersLive
<1>. QED
    BY <1>8, <1>9, LivesIsNext

LEMMA CrashLives ==
    ASSUME IInv, NEW s \in Slot, Crash(s), ~HalfWay(s)
    PROVE  [Lifecycle!Next]_(Lifecycle!vars)
<1>1. Typed /\ CmdTyped /\ booking' = booking
    BY DEF IInv, Typed, Crash, keys
<1>2. cmd'[s] = Idle /\ \A r \in Slot : r # s => cmd'[r] = cmd[r]
    BY <1>1, AbortCmd DEF Crash
<1>3. cmd[s].op \in Op /\ (cmd[s].op = "recover" => Head(cmd[s].todo) = "unbind")
    BY OpsAssumption DEF Crash, HalfWay
<1>4. cmd[s].b \in Booking
    BY <1>1, <1>3, IdleIsNot DEF CmdTyped, Commands
<1>5. PICK b \in Booking : b = cmd[s].b
    BY <1>4
<1>6. Recovering(b) <=> Recovering(b)'
    BY <1>2, <1>3, IdleIsNot DEF Recovering, Op
<1>7. phase'[b] = phase[b]
    BY <1>1, <1>6, PhaseIs DEF PhaseOf
<1>8. Lives(b)
    BY <1>1, <1>7, HiredIs DEF Lives
<1>9. \A c \in Booking : c # b => phase'[c] = phase[c] /\ hired'[c] = hired[c]
    BY <1>1, <1>2, <1>5, OthersLive
<1>. QED
    BY <1>8, <1>9, LivesIsNext

LEMMA StillLives ==
    ASSUME UNCHANGED <<booking, cmd>>
    PROVE  UNCHANGED Lifecycle!vars
<1>1. phase' = phase
    BY DEF phase, Recovering
<1>2. hired' = hired
    BY <1>1 DEF hired
<1>. QED
    BY <1>1, <1>2 DEF hired, Lifecycle!vars

LEMMA LifeBegins ==
    ASSUME Init
    PROVE  Lifecycle!Init
<1>1. \A b \in Booking : ~Recovering(b) /\ booking[b].state = "SEARCHING"
    BY IdleIsNot, NoneAssumption DEF Init, Recovering, Op
<1>2. \A b \in Booking : phase[b] = "open"
    BY <1>1 DEF phase, Open
<1>3. phase = [b \in Booking |-> "open"]
    BY <1>2 DEF phase
<1>. QED
    BY <1>2, <1>3 DEF Lifecycle!Init

\* Every execution in which no two commands were on one booking together and
\* none died half-way carries out the life of a ride: accepted by one free
\* driver, run by that driver, ended once.
THEOREM LifecycleImplemented ==
    Spec /\ []Alone /\ [][NothingHalfDone]_vars => ImplementsLifecycle
<1>1. Init => Lifecycle!Init
    BY LifeBegins
<1>2. IInv /\ Alone' /\ [Next]_vars /\ [NothingHalfDone]_vars
          => [Lifecycle!Next]_(Lifecycle!vars)
  <2>1. CASE UNCHANGED vars
    BY <2>1, StillLives DEF vars
  <2>2. ASSUME NEW d \in Driver, KeyStep(d)
        PROVE  UNCHANGED <<booking, cmd>>
    BY <2>2 DEF KeyStep, LockExpires, SyncActiveRide, OfferExpires
  <2>3. CASE Alone' /\ IInv /\ Next /\ NothingHalfDone
    BY <2>2, <2>3, StillLives, StepLives, BeginLives, CrashLives DEF Next, NothingHalfDone
  <2>. QED
    BY <2>1, <2>3
<1>. QED
    BY <1>1, <1>2, Orderliness, PTL DEF Spec, ImplementsLifecycle, Lifecycle!Spec
=============================================================================
