---------------------------- MODULE CallVideoProofs ----------------------------
(***************************************************************************)
(* CallVideo for any number of integrator threads and any inputs: a sender *)
(* that opens sends a keyframe first, toggles wait for the accept and none *)
(* stays parked, and an upgrade of the peer is answered once.              *)
(***************************************************************************)
EXTENDS CallVideo, FiniteSetTheorems, TLAPS

-------------------------------------------------------------------------------
(* The inductive invariant *)

VRec == [incoming : BOOLEAN, local : BOOLEAN, gate : BOOLEAN, remote : BOOLEAN, peerUp : BOOLEAN,
         started : BOOLEAN, accept : {"deferred", "sending", "sent"},
         pendEnable : {"none", "on", "off"}, pendTurn : Turns \cup {NoTurn}]
SRec == [ch : BOOLEAN, active : BOOLEAN, gated : BOOLEAN, key : BOOLEAN, turn : Turns,
         synced : BOOLEAN]
Pcs == {"idle", "apply", "stopFirst", "send", "undo", "undoTx", "accepting", "accepted", "turn"}
OpNames == {"none", "start", "acceptVideo", "stop", "on", "off", "turn", "announce", "open", "reject"}
ThRec == [pc : Pcs, op : OpNames, tx : BOOLEAN, turn : Turns \cup {NoTurn}, then : Turns \cup {NoTurn}]
WireRec == [asked : BOOLEAN, turn : Turns \cup {NoTurn}, early : SUBSET {"video", "toggle"},
            upgrades : Nat, upgradesAccepted : Nat]

\* What a thread holds: a toggle or a turn is carried out only once the accept is
\* out, and so is what sendAccept takes from the parked requests.
Held(x) ==
    /\ x.op \in {"on", "off", "turn"} => ~Deferred
    /\ x.then # NoTurn => v.accept = "sent"
    /\ x.pc = "turn" => v.accept = "sent"
    /\ x.op = "turn" => x.turn # NoTurn
    /\ x.pc = "idle" => x.op = "none"
    /\ x.pc = "turn" => x.op \in {"on", "off"} \/ (x.op = "none" /\ x.turn # NoTurn)

ThreadInv == \A t \in Threads : Held(th[t])

\* Requests are parked only while the accept is not out.
ParkedInv == v.pendEnable # "none" \/ v.pendTurn # NoTurn => Deferred

\* The threads that are answering an upgrade of the peer.
Answering == {t \in Threads : th[t].op = "acceptVideo"}

\* Every upgrade request is pending, being answered, or answered.
UpgradeInv ==
    /\ IsFiniteSet(Answering)
    /\ Cardinality(Answering) + wire.upgradesAccepted + (IF v.peerUp THEN 1 ELSE 0) <= wire.upgrades

IInv == TypeOK /\ KeyframeFirst /\ ToggleAfterAccept /\ ThreadInv /\ ParkedInv /\ UpgradeInv
-------------------------------------------------------------------------------
(* Lemmas *)

\* The variables, one by one.
LEMMA Types ==
    ASSUME TypeOK
    PROVE  /\ reg \in BOOLEAN /\ tx \in BOOLEAN /\ v \in VRec /\ s \in SRec
           /\ th \in [Threads -> ThRec] /\ wire \in WireRec /\ left \in [Ops -> Nat]
  BY DEF TypeOK, VRec, SRec, ThRec, WireRec, Pcs, OpNames

\* The same after a step.
LEMMA TypesNext ==
    ASSUME reg' \in BOOLEAN, tx' \in BOOLEAN, v' \in VRec, s' \in SRec,
           th' \in [Threads -> ThRec], wire' \in WireRec, left' \in [Ops -> Nat]
    PROVE  TypeOK'
  BY DEF TypeOK, VRec, SRec, ThRec, WireRec, Pcs, OpNames

\* The operations left.
LEMMA SpendType == ASSUME TypeOK, NEW k, Spend(k) PROVE left' \in [Ops -> Nat]
<1>1. left \in [Ops -> Nat]
  BY Types
<1>2. CASE k \in Ops
  BY <1>1, <1>2 DEF Spend
<1>3. CASE k \notin Ops
  BY <1>1, <1>3 DEF Spend
<1> QED BY <1>2, <1>3

\* No orientation is the mark for none; the socket reader is a thread.
LEMMA Constants == NoTurn \notin Turns /\ 0 \in Turns /\ "raw" \in Threads
  BY TurnsAssumption DEF NoTurn, Threads

\* What an operation starts with, and what it leaves.
LEMMA IdleOk == Idle \in ThRec /\ Idle.pc = "idle" /\ Idle.op = "none" /\ Idle.then = NoTurn
                /\ Idle.turn = NoTurn
  BY DEF Idle, ThRec, Pcs, OpNames

\* What an operation takes along after its first critical section.
LEMMA LocalOk ==
    ASSUME TypeOK, NEW pc \in Pcs, NEW op \in OpNames, NEW turn \in Turns \cup {NoTurn}
    PROVE  /\ Local(pc, op, turn) \in ThRec /\ Local(pc, op, turn).pc = pc
           /\ Local(pc, op, turn).op = op /\ Local(pc, op, turn).turn = turn
           /\ Local(pc, op, turn).then = NoTurn
<1>1. tx \in BOOLEAN
  BY Types
<1> QED BY <1>1 DEF Local, ThRec

\* A thread that is done, or goes on with the orientation parked behind it.
LEMMA FinishedOk ==
    ASSUME TypeOK, NEW t \in Threads, Held(th[t])
    PROVE  Finished(t) \in ThRec /\ Finished(t).op = "none" /\ Held(Finished(t))
<1>1. th[t] \in ThRec /\ th[t].then \in Turns \cup {NoTurn}
  <2>1. th[t] \in ThRec
    BY Types
  <2> QED BY <2>1 DEF ThRec
<1>2. CASE th[t].then = NoTurn
  BY <1>2, IdleOk DEF Finished, Held
<1>3. CASE th[t].then # NoTurn
  <2>1. PICK x : x = [Idle EXCEPT !.pc = "turn", !.turn = th[t].then]
    OBVIOUS
  <2>2. x \in ThRec /\ x.pc = "turn" /\ x.op = "none" /\ x.turn = th[t].then /\ x.then = NoTurn
    BY <1>1, <2>1, IdleOk DEF ThRec, Pcs
  <2>3. v.accept = "sent"
    BY <1>3 DEF Held
  <2>4. Held(x)
    BY <1>3, <2>2, <2>3 DEF Held
  <2> QED BY <1>3, <2>1, <2>2, <2>4, Zenon DEF Finished
<1> QED BY <1>2, <1>3

\* acceptSent is never taken back, so what a thread holds stays in order.
Onward == v'.incoming = v.incoming /\ (v.accept = "sent" => v'.accept = "sent")

\* What a thread relies on stays true while the accept only goes forward.
LEMMA HeldKept == ASSUME NEW x, Held(x), Onward PROVE Held(x)'
  BY DEF Held, Onward, Deferred

\* A thread goes on; the others stay where they are.
LEMMA Moved ==
    ASSUME TypeOK, ThreadInv, Onward, NEW t \in Threads, NEW x \in ThRec, Goto(t, x), Held(x)'
    PROVE  /\ th' \in [Threads -> ThRec] /\ ThreadInv'
           /\ th'[t] = x /\ \A u \in Threads \ {t} : th'[u] = th[u]
<1>1. th \in [Threads -> ThRec]
  BY Types
<1>2. /\ th' \in [Threads -> ThRec]
      /\ th'[t] = x /\ \A u \in Threads \ {t} : th'[u] = th[u]
  BY <1>1 DEF Goto
<1>3. ASSUME NEW u \in Threads PROVE Held(th[u])'
  <2>1. CASE u = t
    BY <1>2, <2>1 DEF Held, Deferred
  <2>2. CASE u # t
    <3>1. Held(th[u])
      BY DEF ThreadInv
    <3>2. PICK y : y = th[u]
      OBVIOUS
    <3>3. Held(y)'
      BY <3>1, <3>2, HeldKept
    <3>4. th'[u] = y
      BY <1>2, <2>2, <3>2
    <3> QED BY <3>3, <3>4 DEF Held, Deferred
  <2> QED BY <2>1, <2>2
<1> QED BY <1>2, <1>3 DEF ThreadInv

\* No thread moves.
LEMMA Stayed == ASSUME ThreadInv, Onward, UNCHANGED th PROVE ThreadInv'
  BY DEF ThreadInv, Held, Onward, Deferred

\* enable and disable of videoSender: a sender that opens needs a keyframe.
KeyFirst(x) == Open(x) /\ ~x.synced => x.key

\* enable: a sender that was closed or gated asks for a keyframe.
LEMMA EnableOk ==
    ASSUME NEW g \in BOOLEAN, s \in SRec, KeyframeFirst
    PROVE  Enable(g) \in SRec /\ KeyFirst(Enable(g))
<1>1. PICK k \in BOOLEAN : k = (s.key \/ NeedsRecovery(s, g))
  BY DEF SRec
<1>2. PICK x : x = [s EXCEPT !.active = TRUE, !.gated = g, !.key = k]
  OBVIOUS
<1>3. x \in SRec /\ x.active /\ x.gated = g /\ x.key = k /\ x.synced = s.synced
  BY <1>2 DEF SRec
<1>4. PICK y \in BOOLEAN : y = (x.synced /\ Open(s) /\ Open(x))
  OBVIOUS
<1>5. PICK z : z = [x EXCEPT !.synced = y]
  OBVIOUS
<1>6. Enable(g) = z
  BY <1>1, <1>2, <1>4, <1>5, Zenon DEF Enable
<1>7. z \in SRec /\ z.active = x.active /\ z.gated = x.gated /\ z.key = x.key /\ z.synced = y
  BY <1>3, <1>5 DEF SRec
<1>8. KeyFirst(z)
  <2>1. Open(z) => ~g
    BY <1>3, <1>7 DEF Open
  <2>2. ASSUME ~g, ~k PROVE Open(s) /\ s.synced
    BY <1>1, <2>2 DEF NeedsRecovery, Open, KeyframeFirst, SRec
  <2>3. ASSUME ~g PROVE Open(x)
    BY <1>3, <2>3 DEF Open
  <2>4. ASSUME Open(z), ~z.synced, ~z.key PROVE FALSE
    <3>1. ~g /\ ~k
      BY <1>3, <1>7, <2>1, <2>4
    <3>2. y
      BY <1>3, <1>4, <2>2, <2>3, <3>1
    <3> QED BY <1>7, <2>4, <3>2
  <2> QED BY <1>3, <1>7, <2>4 DEF KeyFirst, SRec
<1> QED BY <1>6, <1>7, <1>8, Zenon

\* disable: a closed sender needs nothing.
LEMMA DisableOk ==
    ASSUME s \in SRec
    PROVE  Disable \in SRec /\ KeyFirst(Disable)
<1>1. Disable \in SRec /\ Disable.active = FALSE /\ Disable.gated = FALSE /\ Disable.key = TRUE
  BY DEF Disable, SRec
<1> QED BY <1>1 DEF KeyFirst, Open

\* The sender after a step.
LEMMA KeyFirstStep == ASSUME KeyFirst(s)' PROVE KeyframeFirst'
  BY DEF KeyFirst, KeyframeFirst, Open

\* The upgrades of the peer, counted: a thread begins to answer, ends, or neither.
LEMMA CountKept ==
    ASSUME UpgradeInv, TypeOK, TypeOK',
           \A t \in Threads : th'[t].op = "acceptVideo" <=> th[t].op = "acceptVideo",
           wire'.upgradesAccepted = wire.upgradesAccepted,
           \/ wire'.upgrades = wire.upgrades /\ (v'.peerUp => v.peerUp)
           \/ wire'.upgrades = wire.upgrades + 1
    PROVE  UpgradeInv'
<1>1. Answering' = Answering
  BY DEF Answering
<1>2. wire \in WireRec /\ v \in VRec /\ v' \in VRec
  <2>1. wire \in WireRec /\ v \in VRec
    BY Types
  <2>2. v' \in VRec
    BY DEF TypeOK, VRec
  <2> QED BY <2>1, <2>2
<1> DEFINE n == Cardinality(Answering)
<1>3. n \in Nat
  BY FS_CardinalityType DEF UpgradeInv
<1>4. n + wire.upgradesAccepted + (IF v.peerUp THEN 1 ELSE 0) <= wire.upgrades
  BY DEF UpgradeInv
<1>5. Cardinality(Answering)' = n
  BY <1>1
<1> HIDE DEF n
<1>6. n + wire'.upgradesAccepted + (IF v'.peerUp THEN 1 ELSE 0) <= wire'.upgrades
  BY <1>2, <1>3, <1>4 DEF WireRec, VRec
<1> QED BY <1>1, <1>5, <1>6 DEF UpgradeInv

\* AcceptVideo takes the upgrade it will answer.
LEMMA CountBegun ==
    ASSUME UpgradeInv, TypeOK, NEW t \in Threads, th[t].op # "acceptVideo",
           \A u \in Threads : th'[u].op = "acceptVideo" <=> u = t \/ th[u].op = "acceptVideo",
           UNCHANGED wire, v.peerUp, ~v'.peerUp
    PROVE  UpgradeInv'
<1>1. Answering' = Answering \cup {t} /\ t \notin Answering
  BY DEF Answering
<1>2. wire \in WireRec
  BY Types
<1> DEFINE n == Cardinality(Answering)
<1>3. n \in Nat /\ Cardinality(Answering \cup {t}) = n + 1 /\ IsFiniteSet(Answering \cup {t})
  BY <1>1, FS_CardinalityType, FS_AddElement DEF UpgradeInv
<1>4. n + wire.upgradesAccepted + 1 <= wire.upgrades
  BY DEF UpgradeInv
<1>5. Cardinality(Answering)' = n + 1 /\ IsFiniteSet(Answering)'
  BY <1>1, <1>3
<1> HIDE DEF n
<1>6. n + 1 + wire'.upgradesAccepted + (IF v'.peerUp THEN 1 ELSE 0) <= wire'.upgrades
  BY <1>2, <1>3, <1>4 DEF WireRec
<1> QED BY <1>5, <1>6 DEF UpgradeInv

\* AcceptVideo has answered, or failed and put the upgrade back.
LEMMA CountEnded ==
    ASSUME UpgradeInv, TypeOK, NEW t \in Threads, th[t].op = "acceptVideo",
           \A u \in Threads : th'[u].op = "acceptVideo" <=> u # t /\ th[u].op = "acceptVideo",
           wire'.upgrades = wire.upgrades, v' \in VRec,
           \/ wire'.upgradesAccepted = wire.upgradesAccepted + 1 /\ v'.peerUp = v.peerUp
           \/ wire'.upgradesAccepted = wire.upgradesAccepted
    PROVE  UpgradeInv'
<1>1. Answering' = Answering \ {t} /\ t \in Answering
  BY DEF Answering
<1>2. wire \in WireRec /\ v \in VRec
  BY Types
<1> DEFINE n == Cardinality(Answering)
<1>3. n \in Nat /\ Cardinality(Answering \ {t}) = n - 1 /\ IsFiniteSet(Answering \ {t})
  BY <1>1, FS_CardinalityType, FS_RemoveElement DEF UpgradeInv
<1>4. n + wire.upgradesAccepted + (IF v.peerUp THEN 1 ELSE 0) <= wire.upgrades
  BY DEF UpgradeInv
<1>5. Cardinality(Answering)' = n - 1 /\ IsFiniteSet(Answering)'
  BY <1>1, <1>3
<1> HIDE DEF n
<1>6. n - 1 + wire'.upgradesAccepted + (IF v'.peerUp THEN 1 ELSE 0) <= wire'.upgrades
  BY <1>2, <1>3, <1>4 DEF WireRec, VRec
<1> QED BY <1>5, <1>6 DEF UpgradeInv
-------------------------------------------------------------------------------
(* The steps *)

\* A step that shows each part of the invariant keeps it.
LEMMA Conclude ==
    ASSUME reg' \in BOOLEAN, tx' \in BOOLEAN, v' \in VRec, s' \in SRec,
           th' \in [Threads -> ThRec], wire' \in WireRec, left' \in [Ops -> Nat],
           KeyFirst(s)', ToggleAfterAccept', ThreadInv', ParkedInv', TypeOK' => UpgradeInv'
    PROVE  IInv'
<1>1. TypeOK'
  BY TypesNext
<1>2. KeyframeFirst'
  BY KeyFirstStep
<1> QED BY <1>1, <1>2 DEF IInv

\* The parts of the invariant, and the fields of the variables.
LEMMA Parts ==
    ASSUME IInv
    PROVE  /\ TypeOK /\ KeyframeFirst /\ ToggleAfterAccept /\ ThreadInv /\ ParkedInv /\ UpgradeInv
           /\ reg \in BOOLEAN /\ tx \in BOOLEAN /\ v \in VRec /\ s \in SRec
           /\ th \in [Threads -> ThRec] /\ wire \in WireRec /\ left \in [Ops -> Nat]
           /\ KeyFirst(s)
  BY Types DEF IInv, KeyFirst, KeyframeFirst

\* A step of a thread, which goes on with x, by what it does to the flags of the
\* call, the sender and the wire.
LEMMA Section ==
    ASSUME IInv, NEW t \in Threads, NEW x \in ThRec, Goto(t, x), Held(x)', Onward,
           UNCHANGED <<reg, tx>>, v' \in VRec, left' \in [Ops -> Nat], ParkedInv',
           s' \in SRec, KeyFirst(s)', wire' \in WireRec, ToggleAfterAccept',
           wire'.upgrades = wire.upgrades,
           \/ /\ x.op = "acceptVideo" <=> th[t].op = "acceptVideo"
              /\ wire'.upgradesAccepted = wire.upgradesAccepted /\ (v'.peerUp => v.peerUp)
           \/ /\ x.op = "acceptVideo" /\ th[t].op # "acceptVideo"
              /\ UNCHANGED wire /\ v.peerUp /\ ~v'.peerUp
           \/ /\ x.op # "acceptVideo" /\ th[t].op = "acceptVideo"
              /\ \/ wire'.upgradesAccepted = wire.upgradesAccepted + 1 /\ v'.peerUp = v.peerUp
                 \/ wire'.upgradesAccepted = wire.upgradesAccepted
    PROVE  IInv'
<1>0. /\ TypeOK /\ ThreadInv /\ UpgradeInv /\ reg \in BOOLEAN /\ tx \in BOOLEAN
  BY Parts
<1>1. /\ th' \in [Threads -> ThRec] /\ ThreadInv'
      /\ th'[t] = x /\ \A u \in Threads \ {t} : th'[u] = th[u]
  BY <1>0, Moved
<1>2. ASSUME TypeOK' PROVE UpgradeInv'
  <2>1. CASE /\ x.op = "acceptVideo" <=> th[t].op = "acceptVideo"
             /\ wire'.upgradesAccepted = wire.upgradesAccepted /\ (v'.peerUp => v.peerUp)
    <3>1. \A u \in Threads : th'[u].op = "acceptVideo" <=> th[u].op = "acceptVideo"
      BY <1>1, <2>1
    <3> QED BY <1>0, <1>2, <2>1, <3>1, CountKept
  <2>2. CASE /\ x.op = "acceptVideo" /\ th[t].op # "acceptVideo"
             /\ UNCHANGED wire /\ v.peerUp /\ ~v'.peerUp
    <3>1. \A u \in Threads : th'[u].op = "acceptVideo" <=> u = t \/ th[u].op = "acceptVideo"
      BY <1>1, <2>2
    <3> QED BY <1>0, <2>2, <3>1, CountBegun
  <2>3. CASE /\ x.op # "acceptVideo" /\ th[t].op = "acceptVideo"
             /\ \/ wire'.upgradesAccepted = wire.upgradesAccepted + 1 /\ v'.peerUp = v.peerUp
                \/ wire'.upgradesAccepted = wire.upgradesAccepted
    <3>1. \A u \in Threads : th'[u].op = "acceptVideo" <=> u # t /\ th[u].op = "acceptVideo"
      BY <1>1, <2>3
    <3> QED BY <1>0, <2>3, <3>1, CountEnded
  <2> QED BY <2>1, <2>2, <2>3
<1> QED BY <1>0, <1>1, <1>2, Conclude

\* An operation's first critical section: flags of the call change, the sender and
\* the wire do not yet.
LEMMA FirstSection ==
    ASSUME IInv, NEW t \in Threads, NEW x \in ThRec, Goto(t, x), Held(x)', Onward,
           x.op # "acceptVideo", th[t].op # "acceptVideo",
           UNCHANGED <<reg, tx, s, wire>>, v' \in VRec, left' \in [Ops -> Nat], ParkedInv',
           v'.peerUp => v.peerUp
    PROVE  IInv'
<1>0. /\ ToggleAfterAccept /\ s \in SRec /\ wire \in WireRec /\ KeyFirst(s)
  BY Parts
<1>1. KeyFirst(s)' /\ ToggleAfterAccept'
  BY <1>0 DEF KeyFirst, Open, ToggleAfterAccept
<1> QED BY <1>0, <1>1, Section

\* A request that is parked, or that changes only flags.
LEMMA FlagsOnly ==
    ASSUME IInv, UNCHANGED <<reg, tx, th>>, v' \in VRec, Onward, left' \in [Ops -> Nat],
           ParkedInv', s' \in SRec, KeyFirst(s)', wire' \in WireRec,
           wire'.early = wire.early, wire'.upgradesAccepted = wire.upgradesAccepted,
           \/ wire'.upgrades = wire.upgrades /\ (v'.peerUp => v.peerUp)
           \/ wire'.upgrades = wire.upgrades + 1
    PROVE  IInv'
<1>0. /\ TypeOK /\ ToggleAfterAccept /\ ThreadInv /\ UpgradeInv
      /\ reg \in BOOLEAN /\ tx \in BOOLEAN
      /\ th \in [Threads -> ThRec]
  BY Parts
<1>1. ThreadInv'
  BY <1>0, Stayed
<1>2. ToggleAfterAccept'
  BY <1>0 DEF ToggleAfterAccept
<1>3. TypeOK' => UpgradeInv'
  <2>1. \A u \in Threads : th'[u].op = "acceptVideo" <=> th[u].op = "acceptVideo"
    OBVIOUS
  <2> QED BY <1>0, <2>1, CountKept
<1> QED BY <1>0, <1>1, <1>2, <1>3, Conclude

\* setVideoEnabled, by the integrator or with the toggle that was parked.
LEMMA SetVideoEnabledIInv ==
    ASSUME IInv, NEW t \in Threads, NEW on \in BOOLEAN, NEW then \in Turns \cup {NoTurn},
           SetVideoEnabled(t, on, then), th[t].op # "acceptVideo", then # NoTurn => v.accept = "sent",
           UNCHANGED <<reg, tx, s, wire>>, left' \in [Ops -> Nat]
    PROVE  IInv'
<1>0. /\ TypeOK /\ ParkedInv /\ v \in VRec /\ s \in SRec /\ wire \in WireRec /\ KeyFirst(s)
  BY Parts
<1>1. CASE Deferred
  <2>1. PICK e \in {"on", "off"} : v' = [v EXCEPT !.pendEnable = e] /\ UNCHANGED th
    <3>1. v' = [v EXCEPT !.pendEnable = IF on THEN "on" ELSE "off"] /\ UNCHANGED th
      BY <1>1, Zenon DEF SetVideoEnabled, Park
    <3> QED BY <3>1
  <2>2. /\ v' \in VRec /\ v'.incoming = v.incoming /\ v'.accept = v.accept
        /\ v'.peerUp = v.peerUp
    BY <1>0, <2>1 DEF VRec
  <2>3. ParkedInv' /\ Onward
    BY <1>1, <2>2 DEF ParkedInv, Deferred, Onward
  <2>4. KeyFirst(s)'
    BY <1>0 DEF KeyFirst, Open
  <2> QED BY <1>0, <2>1, <2>2, <2>3, <2>4, FlagsOnly
<1>2. CASE ~Deferred
  <2>1. v' = [v EXCEPT !.local = on, !.gate = FALSE]
        /\ Goto(t, [Local("apply", IF on THEN "on" ELSE "off", NoTurn) EXCEPT !.then = then])
    BY <1>2, Zenon DEF SetVideoEnabled, Park
  <2>2. /\ v' \in VRec /\ v'.incoming = v.incoming /\ v'.accept = v.accept
        /\ v'.pendEnable = v.pendEnable /\ v'.pendTurn = v.pendTurn /\ v'.peerUp = v.peerUp
    BY <1>0, <2>1 DEF VRec
  <2>3. PICK e \in {"on", "off"} : e = IF on THEN "on" ELSE "off"
    OBVIOUS
  <2>4. PICK y : y = Local("apply", e, NoTurn)
    OBVIOUS
  <2>5. y \in ThRec /\ y.pc = "apply" /\ y.op = e /\ y.turn = NoTurn /\ y.then = NoTurn
    <3>1. "apply" \in Pcs /\ e \in OpNames /\ NoTurn \in Turns \cup {NoTurn}
      BY DEF Pcs, OpNames
    <3> QED BY <1>0, <2>4, <3>1, LocalOk
  <2>6. PICK x : x = [y EXCEPT !.then = then]
    OBVIOUS
  <2>7. x \in ThRec /\ x.pc = "apply" /\ x.op = e /\ x.then = then
    BY <2>5, <2>6 DEF ThRec
  <2>8. Goto(t, x)
    BY <2>1, <2>3, <2>4, <2>6, Zenon
  <2>9. Onward /\ ParkedInv' /\ Held(x)'
    BY <1>0, <1>2, <2>2, <2>7 DEF Onward, ParkedInv, Deferred, Held
  <2> QED BY <1>0, <2>2, <2>7, <2>8, <2>9, FirstSection
<1> QED BY <1>1, <1>2

\* setVideoOrientation, by the integrator or with the turn that was parked.
LEMMA SetVideoOrientationIInv ==
    ASSUME IInv, NEW t \in Threads, NEW turn \in Turns,
           SetVideoOrientation(t, turn), th[t].op # "acceptVideo",
           UNCHANGED <<reg, tx, s, wire>>, left' \in [Ops -> Nat]
    PROVE  IInv'
<1>0. /\ TypeOK /\ ParkedInv /\ v \in VRec /\ s \in SRec /\ wire \in WireRec /\ KeyFirst(s)
  BY Parts
<1>1. CASE Deferred
  <2>1. v' = [v EXCEPT !.pendTurn = turn] /\ UNCHANGED th
    BY <1>1, Zenon DEF SetVideoOrientation, Park
  <2>2. /\ v' \in VRec /\ v'.incoming = v.incoming /\ v'.accept = v.accept
        /\ v'.peerUp = v.peerUp
    BY <1>0, <2>1 DEF VRec
  <2>3. ParkedInv' /\ Onward
    BY <1>1, <2>2 DEF ParkedInv, Deferred, Onward
  <2>4. KeyFirst(s)'
    BY <1>0 DEF KeyFirst, Open
  <2> QED BY <1>0, <2>1, <2>2, <2>3, <2>4, FlagsOnly
<1>2. CASE ~Deferred
  <2>1. UNCHANGED v /\ Goto(t, IF v.local THEN Local("apply", "turn", turn) ELSE Idle)
    BY <1>2, Zenon DEF SetVideoOrientation, Park
  <2>2. PICK x : x = IF v.local THEN Local("apply", "turn", turn) ELSE Idle
    OBVIOUS
  <2>3. x \in ThRec /\ x.op # "acceptVideo" /\ x.pc # "turn" /\ x.then = NoTurn
        /\ (x.op = "turn" => x.turn # NoTurn) /\ (x.pc = "idle" => x.op = "none")
    <3>1. CASE v.local
      <4>1. "apply" \in Pcs /\ "turn" \in OpNames /\ turn \in Turns \cup {NoTurn} /\ turn # NoTurn
        BY Constants DEF Pcs, OpNames
      <4>2. x = Local("apply", "turn", turn)
        BY <2>2, <3>1
      <4>3. x \in ThRec /\ x.pc = "apply" /\ x.op = "turn" /\ x.turn = turn /\ x.then = NoTurn
        BY <1>0, <4>1, <4>2, LocalOk
      <4> QED BY <4>1, <4>3
    <3>2. CASE ~v.local
      BY <2>2, <3>2, IdleOk
    <3> QED BY <3>1, <3>2
  <2>4. Onward /\ ParkedInv' /\ Held(x)'
    BY <1>0, <1>2, <2>1, <2>3 DEF Onward, ParkedInv, Deferred, Held
  <2> QED BY <1>0, <2>1, <2>2, <2>3, <2>4, FirstSection
<1> QED BY <1>1, <1>2

\* StartVideo, StopVideo, AcceptVideo, setVideoEnabled and setVideoOrientation,
\* called by the integrator.
LEMMA UserIInv == IInv /\ UserStep => IInv'
<1> SUFFICES ASSUME IInv, NEW t \in Apps,
                    \/ StartVideo(t) \/ StopVideo(t) \/ AcceptVideo(t)
                    \/ \E on \in BOOLEAN : Toggle(t, on)
                    \/ \E turn \in (Turns \ {0}) \cup {4} : Turn(t, turn)
             PROVE  IInv'
  BY DEF UserStep
<1>0. /\ TypeOK /\ ToggleAfterAccept /\ ThreadInv /\ ParkedInv /\ v \in VRec /\ s \in SRec
      /\ wire \in WireRec /\ KeyFirst(s) /\ t \in Threads /\ Held(th[t])
      /\ "apply" \in Pcs /\ {"send", "stopFirst"} \subseteq Pcs /\ 0 \in Turns \cup {NoTurn}
      /\ NoTurn \in Turns \cup {NoTurn} /\ {"start", "stop", "acceptVideo"} \subseteq OpNames
  BY Parts, Constants DEF Threads, ThreadInv, Pcs, OpNames
<1>1. th[t].pc = "idle" => th[t].op = "none"
  BY <1>0 DEF Held
<1>2. ASSUME NEW op \in {"start", "stop"}, NEW b \in BOOLEAN, NEW k, Spend(k),
             th[t].pc = "idle", v' = [v EXCEPT !.local = b, !.gate = b],
             Goto(t, Local("apply", op, 0)), UNCHANGED <<reg, tx, s, wire>>
      PROVE  IInv'
  <2>1. /\ v' \in VRec /\ v'.incoming = v.incoming /\ v'.accept = v.accept
        /\ v'.pendEnable = v.pendEnable /\ v'.pendTurn = v.pendTurn /\ v'.peerUp = v.peerUp
    BY <1>0, <1>2 DEF VRec
  <2>2. PICK x : x = Local("apply", op, 0)
    OBVIOUS
  <2>3. x \in ThRec /\ x.pc = "apply" /\ x.op = op /\ x.turn = 0 /\ x.then = NoTurn
    BY <1>0, <2>2, LocalOk
  <2>4. Onward /\ ParkedInv' /\ Held(x)'
    BY <1>0, <2>1, <2>3 DEF Onward, ParkedInv, Deferred, Held
  <2>5. left' \in [Ops -> Nat]
    BY <1>0, <1>2, SpendType
  <2> QED BY <1>1, <1>2, <1>0, <2>1, <2>2, <2>3, <2>4, <2>5, FirstSection
<1>3. CASE StartVideo(t)
  BY <1>2, <1>3, Zenon DEF StartVideo
<1>4. CASE StopVideo(t)
  BY <1>2, <1>4, Zenon DEF StopVideo
<1>5. CASE AcceptVideo(t)
  <2>1. /\ th[t].pc = "idle" /\ v.peerUp /\ Spend("acceptVideo")
        /\ v' = [v EXCEPT !.peerUp = FALSE] /\ UNCHANGED <<reg, tx, s, wire>>
        /\ Goto(t, Local(IF v.local THEN "send" ELSE "stopFirst", "acceptVideo", NoTurn))
    BY <1>5 DEF AcceptVideo
  <2>2. /\ v' \in VRec /\ v'.incoming = v.incoming /\ v'.accept = v.accept
        /\ v'.pendEnable = v.pendEnable /\ v'.pendTurn = v.pendTurn /\ v'.peerUp = FALSE
    BY <1>0, <2>1 DEF VRec
  <2>3. PICK a \in {"send", "stopFirst"} : a = IF v.local THEN "send" ELSE "stopFirst"
    OBVIOUS
  <2>4. PICK x : x = Local(a, "acceptVideo", NoTurn)
    OBVIOUS
  <2>5. Goto(t, x)
    BY <2>1, <2>3, <2>4, Zenon
  <2>6. x \in ThRec /\ x.pc = a /\ x.op = "acceptVideo" /\ x.turn = NoTurn /\ x.then = NoTurn
    BY <1>0, <2>4, LocalOk
  <2>7. Onward /\ ParkedInv' /\ Held(x)'
    BY <1>0, <2>2, <2>3, <2>6 DEF Onward, ParkedInv, Deferred, Held
  <2>8. left' \in [Ops -> Nat]
    BY <1>0, <2>1, SpendType
  <2>9. KeyFirst(s)' /\ ToggleAfterAccept'
    BY <1>0, <2>1 DEF KeyFirst, Open, ToggleAfterAccept
  <2> QED BY <1>0, <1>1, <2>1, <2>2, <2>5, <2>6, <2>7, <2>8, <2>9, Section
<1>6. ASSUME NEW on \in BOOLEAN, Toggle(t, on) PROVE IInv'
  <2>1. th[t].pc = "idle" /\ Spend("toggle") /\ SetVideoEnabled(t, on, NoTurn)
        /\ UNCHANGED <<reg, tx, s, wire>>
    BY <1>6 DEF Toggle
  <2>2. left' \in [Ops -> Nat]
    BY <1>0, <2>1, SpendType
  <2> QED BY <1>0, <1>1, <2>1, <2>2, SetVideoEnabledIInv
<1>7. ASSUME NEW turn \in (Turns \ {0}) \cup {4}, Turn(t, turn) PROVE IInv'
  <2>1. th[t].pc = "idle" /\ Spend("turn") /\ turn \in Turns /\ SetVideoOrientation(t, turn)
        /\ UNCHANGED <<reg, tx, s, wire>>
    BY <1>7 DEF Turn, ValidTurn
  <2>2. left' \in [Ops -> Nat]
    BY <1>0, <2>1, SpendType
  <2> QED BY <1>0, <1>1, <2>1, <2>2, SetVideoOrientationIInv
<1> QED BY <1>3, <1>4, <1>5, <1>6, <1>7

\* runMedia publishes and withdraws the sender, frames go out, the call ends.
LEMMA MediaIInv == IInv /\ MediaStep => IInv'
<1> SUFFICES ASSUME IInv, MediaStep PROVE IInv'
  OBVIOUS
<1>0. /\ TypeOK /\ ToggleAfterAccept /\ ThreadInv /\ ParkedInv /\ UpgradeInv /\ v \in VRec
      /\ s \in SRec /\ wire \in WireRec /\ KeyFirst(s) /\ left \in [Ops -> Nat]
      /\ th \in [Threads -> ThRec] /\ reg \in BOOLEAN /\ tx \in BOOLEAN
  BY Parts
<1>k. ASSUME UNCHANGED <<th, wire>>, reg' \in BOOLEAN, tx' \in BOOLEAN, left' \in [Ops -> Nat],
             v' \in VRec, v'.incoming = v.incoming, v'.accept = v.accept, v'.peerUp = v.peerUp,
             v'.pendEnable = v.pendEnable, v'.pendTurn = v.pendTurn, s' \in SRec, KeyFirst(s)'
      PROVE  IInv'
  <2>1. ToggleAfterAccept' /\ ParkedInv' /\ Onward
    BY <1>0, <1>k DEF ToggleAfterAccept, ParkedInv, Deferred, Onward
  <2>2. ThreadInv'
    BY <1>0, <1>k, <2>1, Stayed
  <2>3. TypeOK' => UpgradeInv'
    <3>1. \A t \in Threads : th'[t].op = "acceptVideo" <=> th[t].op = "acceptVideo"
      BY <1>k
    <3> QED BY <1>0, <1>k, <3>1, CountKept
  <2> QED BY <1>0, <1>k, <2>1, <2>2, <2>3, Conclude
<1>1. CASE PublishSender
  <2>1. v' \in VRec /\ v'.incoming = v.incoming /\ v'.accept = v.accept /\ v'.peerUp = v.peerUp
        /\ v'.pendEnable = v.pendEnable /\ v'.pendTurn = v.pendTurn
    BY <1>0, <1>1 DEF PublishSender, VRec
  <2>2. s' \in SRec /\ s'.key = TRUE
    BY <1>0, <1>1, Constants DEF PublishSender, VRec, SRec
  <2>3. left' \in [Ops -> Nat]
    BY <1>0, <1>1, SpendType DEF PublishSender
  <2>4. KeyFirst(s)'
    BY <2>2 DEF KeyFirst
  <2> QED BY <1>0, <1>1, <1>k, <2>1, <2>2, <2>3, <2>4 DEF PublishSender
<1>2. CASE WithdrawSender
  <2>1. s' \in SRec /\ s'.active = s.active /\ s'.gated = s.gated /\ s'.key = s.key
        /\ s'.synced = s.synced
    BY <1>0, <1>2 DEF WithdrawSender, SRec
  <2>2. KeyFirst(s)'
    BY <1>0, <2>1 DEF KeyFirst, Open
  <2>3. tx' \in BOOLEAN /\ UNCHANGED <<reg, v, th, wire, left>>
    BY <1>2 DEF WithdrawSender
  <2> QED BY <1>0, <1>k, <2>1, <2>2, <2>3
<1>3. CASE RequestKeyframe
  <2>1. s' \in SRec /\ s'.key = TRUE
    BY <1>0, <1>3 DEF RequestKeyframe, SRec
  <2>2. KeyFirst(s)'
    BY <2>1 DEF KeyFirst
  <2>3. left' \in [Ops -> Nat]
    BY <1>0, <1>3, SpendType DEF RequestKeyframe
  <2> QED BY <1>0, <1>3, <1>k, <2>1, <2>2, <2>3 DEF RequestKeyframe
<1>4. CASE FinishCall
  <2>1. left' \in [Ops -> Nat]
    BY <1>0, <1>4, SpendType DEF FinishCall
  <2>2. KeyFirst(s)'
    BY <1>0, <1>4 DEF KeyFirst, Open, FinishCall
  <2> QED BY <1>0, <1>4, <1>k, <2>1, <2>2 DEF FinishCall
<1>5. ASSUME NEW idr \in BOOLEAN, SendFrame(idr) PROVE IInv'
  <2>1. PICK k \in BOOLEAN : k = (s.key /\ ~idr)
    OBVIOUS
  <2>2. PICK y \in BOOLEAN : y = (s.synced \/ idr)
    OBVIOUS
  <2>3. s' = [s EXCEPT !.key = k, !.synced = y] /\ (s.key => idr) /\ Open(s)
    BY <1>5, <2>1, <2>2, Zenon DEF SendFrame
  <2>4. s' \in SRec /\ s'.key = k /\ s'.synced = y
    BY <1>0, <2>3 DEF SRec
  <2>5. y
    BY <1>0, <2>2, <2>3 DEF KeyFirst
  <2>6. KeyFirst(s)'
    BY <2>4, <2>5 DEF KeyFirst
  <2>7. UNCHANGED <<reg, v, tx, th, wire, left>>
    BY <1>5, Zenon DEF SendFrame
  <2> QED BY <1>0, <1>k, <2>4, <2>6, <2>7
<1> QED BY <1>1, <1>2, <1>3, <1>4, <1>5 DEF MediaStep

\* onMute and onVideoStanza, on the socket reader.
LEMMA StanzaIInv == IInv /\ StanzaStep => IInv'
<1> SUFFICES ASSUME IInv, StanzaStep PROVE IInv'
  OBVIOUS
<1>0. /\ TypeOK /\ ToggleAfterAccept /\ ThreadInv /\ ParkedInv /\ UpgradeInv /\ v \in VRec
      /\ s \in SRec /\ wire \in WireRec /\ KeyFirst(s) /\ th \in [Threads -> ThRec]
      /\ "raw" \in Threads /\ Held(th["raw"]) /\ 0 \in Turns \cup {NoTurn}
      /\ NoTurn \in Turns \cup {NoTurn} /\ 0 # NoTurn
      /\ {"apply", "send", "accepting"} \subseteq Pcs /\ {"open", "announce", "reject"} \subseteq OpNames
  BY Parts, Constants DEF ThreadInv, Pcs, OpNames
<1>1. th["raw"].pc = "idle" => th["raw"].op = "none"
  BY <1>0 DEF Held
<1>2. CASE OnMute
  <2>1. /\ v' = [v EXCEPT !.accept = "sending"] /\ v.accept = "deferred" /\ Spend("mute")
        /\ Goto("raw", [Idle EXCEPT !.pc = "accepting"]) /\ th["raw"].pc = "idle"
        /\ UNCHANGED <<reg, tx, s, wire>>
    BY <1>2 DEF OnMute
  <2>2. /\ v' \in VRec /\ v'.incoming = v.incoming /\ v'.accept = "sending" /\ v'.peerUp = v.peerUp
        /\ v'.pendEnable = v.pendEnable /\ v'.pendTurn = v.pendTurn
    BY <1>0, <2>1 DEF VRec
  <2>3. PICK x : x = [Idle EXCEPT !.pc = "accepting"]
    OBVIOUS
  <2>4. x \in ThRec /\ x.pc = "accepting" /\ x.op = "none" /\ x.then = NoTurn
    BY <1>0, <2>3, IdleOk DEF ThRec
  <2>5. Onward /\ ParkedInv' /\ Held(x)'
    BY <1>0, <2>1, <2>2, <2>4 DEF Onward, ParkedInv, Deferred, Held
  <2>6. left' \in [Ops -> Nat]
    BY <1>0, <2>1, SpendType
  <2> QED BY <1>0, <1>1, <2>1, <2>2, <2>3, <2>4, <2>5, <2>6, FirstSection
<1>3. ASSUME NEW state \in {"request", "enabled", "off", "accept", "refuse"}, OnVideoStanza(state)
      PROVE  IInv'
  <2>0. th["raw"].pc = "idle" /\ Spend(state) /\ UNCHANGED <<reg, tx, s>>
    BY <1>3, Zenon DEF OnVideoStanza
  <2>1. left' \in [Ops -> Nat] /\ th["raw"].op = "none" /\ KeyFirst(s)'
    <3>1. left' \in [Ops -> Nat]
      BY <1>0, <2>0, SpendType
    <3>2. KeyFirst(s)'
      BY <1>0, <2>0 DEF KeyFirst, Open
    <3> QED BY <1>1, <2>0, <3>1, <3>2
  <2>o. ASSUME v' \in VRec, v'.incoming = v.incoming, v'.accept = v.accept,
               v'.pendEnable = v.pendEnable, v'.pendTurn = v.pendTurn
        PROVE  Onward /\ ParkedInv'
    BY <1>0, <2>o DEF Onward, ParkedInv, Deferred
  <2>g. ASSUME NEW pc \in {"apply", "send"}, NEW op \in {"open", "announce", "reject"},
               NEW turn \in {0, NoTurn}, Goto("raw", Local(pc, op, turn)), UNCHANGED wire,
               v' \in VRec, v'.incoming = v.incoming, v'.accept = v.accept,
               v'.pendEnable = v.pendEnable, v'.pendTurn = v.pendTurn, v'.peerUp => v.peerUp
        PROVE  IInv'
    <3>1. PICK x : x = Local(pc, op, turn)
      OBVIOUS
    <3>2. x \in ThRec /\ x.pc = pc /\ x.op = op /\ x.then = NoTurn
      <4>1. pc \in Pcs /\ op \in OpNames /\ turn \in Turns \cup {NoTurn}
        BY <1>0
      <4> QED BY <1>0, <3>1, <4>1, LocalOk
    <3>3. Held(x)'
      BY <3>2 DEF Held
    <3>4. Onward /\ ParkedInv'
      BY <2>g, <2>o
    <3>5. Goto("raw", x)
      BY <2>g, <3>1, Zenon
    <3> QED BY <1>0, <2>0, <2>1, <2>g, <3>2, <3>3, <3>4, <3>5, FirstSection
  <2>u. ASSUME UNCHANGED th, v' \in VRec, v'.incoming = v.incoming, v'.accept = v.accept,
               v'.pendEnable = v.pendEnable, v'.pendTurn = v.pendTurn,
               wire' \in WireRec, wire'.early = wire.early,
               wire'.upgradesAccepted = wire.upgradesAccepted,
               \/ wire'.upgrades = wire.upgrades /\ (v'.peerUp => v.peerUp)
               \/ wire'.upgrades = wire.upgrades + 1
        PROVE  IInv'
    <3>1. Onward /\ ParkedInv'
      BY <2>o, <2>u
    <3> QED BY <1>0, <2>0, <2>1, <2>u, <3>1, FlagsOnly
  <2>2. CASE /\ v' = [v EXCEPT !.peerUp = TRUE]
             /\ wire' = [wire EXCEPT !.upgrades = @ + 1] /\ UNCHANGED th
    <3>1. /\ v' \in VRec /\ v'.incoming = v.incoming /\ v'.accept = v.accept
          /\ v'.pendEnable = v.pendEnable /\ v'.pendTurn = v.pendTurn
      BY <1>0, <2>2 DEF VRec
    <3>2. /\ wire' \in WireRec /\ wire'.early = wire.early
          /\ wire'.upgradesAccepted = wire.upgradesAccepted /\ wire'.upgrades = wire.upgrades + 1
      BY <1>0, <2>2 DEF WireRec
    <3> QED BY <2>2, <2>u, <3>1, <3>2
  <2>3. CASE /\ v' = [v EXCEPT !.remote = TRUE, !.gate = @ /\ ~v.local]
             /\ (IF v.local /\ v.gate THEN Goto("raw", Local("apply", "open", NoTurn)) ELSE UNCHANGED th)
             /\ UNCHANGED wire
    <3>1. PICK g \in BOOLEAN : g = (v.gate /\ ~v.local)
      OBVIOUS
    <3>2. v' = [v EXCEPT !.remote = TRUE, !.gate = g]
      BY <2>3, <3>1, Zenon
    <3>3. /\ v' \in VRec /\ v'.incoming = v.incoming /\ v'.accept = v.accept
          /\ v'.pendEnable = v.pendEnable /\ v'.pendTurn = v.pendTurn /\ v'.peerUp = v.peerUp
      BY <1>0, <3>2 DEF VRec
    <3>4. UNCHANGED th \/ Goto("raw", Local("apply", "open", NoTurn))
      BY <2>3, Zenon
    <3>5. UNCHANGED wire /\ wire \in WireRec
      BY <1>0, <2>3, Zenon
    <3> QED BY <2>g, <2>u, <3>3, <3>4, <3>5
  <2>4. CASE v' = [v EXCEPT !.remote = FALSE] /\ UNCHANGED <<th, wire>>
    <3>1. /\ v' \in VRec /\ v'.incoming = v.incoming /\ v'.accept = v.accept
          /\ v'.pendEnable = v.pendEnable /\ v'.pendTurn = v.pendTurn /\ v'.peerUp = v.peerUp
      BY <1>0, <2>4 DEF VRec
    <3> QED BY <1>0, <2>4, <2>u, <3>1
  <2>5. CASE /\ v' = [v EXCEPT !.local = TRUE, !.gate = FALSE]
             /\ Goto("raw", Local("send", "announce", 0)) /\ UNCHANGED wire
    <3>1. /\ v' \in VRec /\ v'.incoming = v.incoming /\ v'.accept = v.accept
          /\ v'.pendEnable = v.pendEnable /\ v'.pendTurn = v.pendTurn /\ v'.peerUp = v.peerUp
      BY <1>0, <2>5 DEF VRec
    <3> QED BY <2>5, <2>g, <3>1
  <2>6. CASE /\ v' = [v EXCEPT !.peerUp = FALSE, !.local = @ /\ ~v.gate, !.gate = FALSE]
             /\ (IF v.gate THEN Goto("raw", Local("apply", "reject", NoTurn)) ELSE UNCHANGED th)
             /\ UNCHANGED wire
    <3>1. PICK b \in BOOLEAN : b = (v.local /\ ~v.gate)
      OBVIOUS
    <3>2. v' = [v EXCEPT !.peerUp = FALSE, !.local = b, !.gate = FALSE]
      BY <2>6, <3>1, Zenon
    <3>3. /\ v' \in VRec /\ v'.incoming = v.incoming /\ v'.accept = v.accept
          /\ v'.pendEnable = v.pendEnable /\ v'.pendTurn = v.pendTurn /\ v'.peerUp = FALSE
      BY <1>0, <3>2 DEF VRec
    <3>4. UNCHANGED th \/ Goto("raw", Local("apply", "reject", NoTurn))
      BY <2>6, Zenon
    <3>5. UNCHANGED wire /\ wire \in WireRec
      BY <1>0, <2>6, Zenon
    <3> QED BY <2>g, <2>u, <3>3, <3>4, <3>5
  <2> QED BY <1>3, <2>2, <2>3, <2>4, <2>5, <2>6, Zenon DEF OnVideoStanza
<1> QED BY <1>2, <1>3 DEF StanzaStep

\* The rest of an operation: the sender is told, the stanza goes out or fails, and
\* what failed is taken back.
LEMMA RestIInv ==
    ASSUME IInv, NEW t \in Threads,
           ApplyToSender(t) \/ SendStopFirst(t) \/ SendVideoState(t) \/ Undo(t) \/ UndoSender(t)
    PROVE  IInv'
<1>0. /\ TypeOK /\ KeyframeFirst /\ ToggleAfterAccept /\ ThreadInv /\ ParkedInv /\ UpgradeInv
      /\ v \in VRec /\ s \in SRec /\ wire \in WireRec /\ KeyFirst(s) /\ th[t] \in ThRec
      /\ left \in [Ops -> Nat] /\ Held(th[t]) /\ tx \in BOOLEAN /\ reg \in BOOLEAN
  BY Parts DEF ThreadInv
<1>1. PICK f : f = Finished(t)
  OBVIOUS
<1>2. f \in ThRec /\ f.op = "none" /\ Held(f)
  BY <1>0, <1>1, FinishedOk
<1>3. ASSUME NEW pc \in {"send", "undo", "apply", "undoTx"}
      PROVE  LET x == [th[t] EXCEPT !.pc = pc]
             IN  x \in ThRec /\ x.op = th[t].op /\ Held(x)
  <2>1. PICK x : x = [th[t] EXCEPT !.pc = pc]
    OBVIOUS
  <2>2. x \in ThRec /\ x.pc = pc /\ x.op = th[t].op /\ x.turn = th[t].turn /\ x.then = th[t].then
    BY <1>0, <2>1 DEF ThRec, Pcs
  <2>3. Held(x)
    BY <1>0, <2>2 DEF Held
  <2> QED BY <2>1, <2>2, <2>3
<1>k. UNCHANGED v => Onward /\ ParkedInv'
  BY <1>0 DEF Onward, ParkedInv, Deferred
<1>h. ASSUME NEW x, Held(x), UNCHANGED v PROVE Held(x)'
  BY <1>h, <1>k, HeldKept
<1>s. UNCHANGED s => KeyFirst(s)' /\ s' \in SRec
  BY <1>0 DEF KeyFirst, Open
<1>w. UNCHANGED wire => ToggleAfterAccept' /\ wire' \in WireRec
  BY <1>0 DEF ToggleAfterAccept
<1>4. CASE ApplyToSender(t)
  <2>1. UNCHANGED <<reg, v, tx, wire, left>>
    BY <1>4, Zenon DEF ApplyToSender
  <2>2. s' \in SRec /\ KeyFirst(s)'
    <3>1. \/ s' = s \/ s' = Enable(TRUE) \/ s' = Enable(FALSE)
          \/ s' = [s EXCEPT !.turn = th[t].turn] /\ th[t].op = "turn"
          \/ s' = Disable
      <4>1. CASE ~th[t].tx
        BY <1>4, <4>1 DEF ApplyToSender
      <4>2. CASE th[t].tx /\ th[t].op = "start"
        BY <1>4, <4>2 DEF ApplyToSender
      <4>3. CASE th[t].tx /\ th[t].op \in {"on", "open", "announce"}
        BY <1>4, <4>3 DEF ApplyToSender
      <4>4. CASE th[t].tx /\ th[t].op = "turn"
        BY <1>4, <4>4 DEF ApplyToSender
      <4>5. CASE th[t].tx /\ th[t].op \notin {"start", "on", "open", "announce", "turn"}
        BY <1>4, <4>5 DEF ApplyToSender
      <4> QED BY <4>1, <4>2, <4>3, <4>4, <4>5
    <3>2. ASSUME NEW g \in BOOLEAN, s' = Enable(g) PROVE s' \in SRec /\ KeyFirst(s)'
      <4>1. PICK z : z = Enable(g)
        OBVIOUS
      <4>2. z \in SRec /\ KeyFirst(z)
        BY <1>0, <4>1, EnableOk
      <4>3. s' = z
        BY <3>2, <4>1, Zenon
      <4> QED BY <4>2, <4>3 DEF KeyFirst, Open
    <3>3. CASE s' = [s EXCEPT !.turn = th[t].turn] /\ th[t].op = "turn"
      <4>1. th[t].turn \in Turns
        BY <1>0, <3>3 DEF Held, ThRec
      <4>2. s' \in SRec /\ s'.active = s.active /\ s'.gated = s.gated /\ s'.key = s.key
            /\ s'.synced = s.synced
        BY <1>0, <3>3, <4>1 DEF SRec
      <4> QED BY <1>0, <4>2 DEF KeyFirst, Open
    <3>4. CASE s' = Disable
      <4>1. PICK z : z = Disable
        OBVIOUS
      <4>2. z \in SRec /\ KeyFirst(z) /\ s' = z
        BY <1>0, <3>4, <4>1, DisableOk
      <4> QED BY <4>2 DEF KeyFirst, Open
    <3> QED BY <1>s, <3>1, <3>2, <3>3, <3>4
  <2>3. PICK x : /\ Goto(t, x)
                 /\ \/ x = f /\ th[t].op # "acceptVideo"
                    \/ x = [th[t] EXCEPT !.pc = "send"]
    <3>1. CASE th[t].op \in {"open", "reject", "announce"}
      BY <1>1, <1>4, <3>1 DEF ApplyToSender
    <3>2. CASE th[t].op \notin {"open", "reject", "announce"}
      BY <1>1, <1>4, <3>2 DEF ApplyToSender
    <3> QED BY <3>1, <3>2
  <2>4. x \in ThRec /\ Held(x) /\ (x.op = "acceptVideo" <=> th[t].op = "acceptVideo")
    BY <1>2, <1>3, <2>3
  <2>5. Held(x)'
    BY <1>h, <2>1, <2>4
  <2> QED BY <1>0, <1>k, <1>w, <2>1, <2>2, <2>3, <2>4, <2>5, Section
<1>5. CASE SendStopFirst(t)
  <2>1. UNCHANGED <<reg, v, tx, s, left>>
    BY <1>5, Zenon DEF SendStopFirst
  <2>2. /\ wire' \in WireRec /\ wire'.upgrades = wire.upgrades
        /\ wire'.upgradesAccepted = wire.upgradesAccepted /\ ToggleAfterAccept'
    <3>1. CASE UNCHANGED wire
      BY <1>w, <3>1
    <3>2. CASE wire' = [wire EXCEPT !.turn = 0, !.early = IF Deferred THEN @ \cup {"video"} ELSE @]
      <4>1. PICK e : e = IF Deferred THEN wire.early \cup {"video"} ELSE wire.early
        OBVIOUS
      <4>2. wire' = [wire EXCEPT !.turn = 0, !.early = e]
        BY <3>2, <4>1
      <4>3. e \in SUBSET {"video", "toggle"} /\ "toggle" \notin e
        BY <1>0, <4>1 DEF WireRec, ToggleAfterAccept
      <4>4. /\ wire' \in WireRec /\ wire'.upgrades = wire.upgrades /\ wire'.early = e
            /\ wire'.upgradesAccepted = wire.upgradesAccepted
        BY <1>0, <4>2, <4>3, Constants DEF WireRec
      <4> QED BY <4>3, <4>4 DEF ToggleAfterAccept
    <3> QED BY <1>5, <3>1, <3>2 DEF SendStopFirst
  <2>3. PICK pc \in {"send", "undo"} : Goto(t, [th[t] EXCEPT !.pc = pc])
    BY <1>5, Zenon DEF SendStopFirst
  <2>4. PICK x : x = [th[t] EXCEPT !.pc = pc]
    OBVIOUS
  <2>5. x \in ThRec /\ x.op = th[t].op /\ Held(x)
    BY <1>3, <2>4
  <2>6. Held(x)' /\ Goto(t, x)
    BY <1>h, <2>1, <2>3, <2>4, <2>5
  <2> QED BY <1>0, <1>k, <1>s, <2>1, <2>2, <2>5, <2>6, Section
<1>6. CASE SendVideoState(t)
  <2>1. UNCHANGED <<reg, v, tx, s, left>>
    BY <1>6, Zenon DEF SendVideoState
  <2>2. CASE /\ UNCHANGED wire
             /\ Goto(t, IF th[t].op \in {"stop", "off", "turn"} THEN Finished(t)
                        ELSE [th[t] EXCEPT !.pc = "undo"])
    <3>1. PICK x : /\ Goto(t, x)
                   /\ \/ x = f /\ th[t].op # "acceptVideo"
                      \/ x = [th[t] EXCEPT !.pc = "undo"]
      BY <1>1, <2>2
    <3>2. x \in ThRec /\ Held(x) /\ (x.op = "acceptVideo" <=> th[t].op = "acceptVideo")
      BY <1>2, <1>3, <3>1
    <3>3. Held(x)'
      BY <1>h, <2>1, <3>2
    <3> QED BY <1>0, <1>k, <1>s, <1>w, <2>1, <2>2, <3>1, <3>2, <3>3, Section
  <2>3. CASE /\ Transmit(t)
             /\ Goto(t, IF th[t].op = "announce" THEN [th[t] EXCEPT !.pc = "apply"] ELSE Finished(t))
    <3>1. PICK x : /\ Goto(t, x)
                   /\ \/ x = f
                      \/ x = [th[t] EXCEPT !.pc = "apply"] /\ th[t].op = "announce"
      BY <1>1, <2>3
    <3>2. x \in ThRec /\ Held(x) /\ x.op # "acceptVideo"
      BY <1>2, <1>3, <3>1
    <3>3. Held(x)'
      BY <1>h, <2>1, <3>2
    <3>4. PICK a \in BOOLEAN : a = (wire.asked \/ th[t].op = "start")
      OBVIOUS
    <3>5. PICK n : n = IF th[t].turn # NoTurn THEN th[t].turn ELSE wire.turn
      OBVIOUS
    <3>6. PICK e : e = IF ~Deferred THEN wire.early
                       ELSE wire.early \cup {IF th[t].op \in {"on", "off", "turn"} THEN "toggle" ELSE "video"}
      OBVIOUS
    <3>7. PICK c : c = IF th[t].op = "acceptVideo" THEN wire.upgradesAccepted + 1
                       ELSE wire.upgradesAccepted
      OBVIOUS
    <3>8. wire' = [wire EXCEPT !.asked = a, !.turn = n, !.early = e, !.upgradesAccepted = c]
      BY <2>3, <3>4, <3>5, <3>6, <3>7 DEF Transmit
    <3>9. n \in Turns \cup {NoTurn} /\ c \in Nat
      BY <1>0, <3>5, <3>7 DEF ThRec, WireRec
    <3>10. e \in SUBSET {"video", "toggle"} /\ "toggle" \notin e
      <4>1. CASE ~Deferred
        BY <1>0, <3>6, <4>1 DEF WireRec, ToggleAfterAccept
      <4>2. CASE Deferred
        <5>1. th[t].op \notin {"on", "off", "turn"}
          BY <1>0, <4>2 DEF Held
        <5> QED BY <1>0, <3>6, <4>2, <5>1 DEF WireRec, ToggleAfterAccept
      <4> QED BY <4>1, <4>2
    <3>11. /\ wire' \in WireRec /\ wire'.early = e /\ wire'.upgrades = wire.upgrades
           /\ wire'.upgradesAccepted = c
      BY <1>0, <3>8, <3>9, <3>10 DEF WireRec
    <3>12. ToggleAfterAccept'
      BY <3>10, <3>11 DEF ToggleAfterAccept
    <3> QED BY <1>0, <1>k, <1>s, <2>1, <3>1, <3>2, <3>3, <3>7, <3>11, <3>12, Section
  <2> QED BY <1>6, <2>2, <2>3, Zenon DEF SendVideoState
<1>7. CASE Undo(t)
  <2>1. UNCHANGED <<reg, tx, s, wire, left>>
    BY <1>7, Zenon DEF Undo
  <2>2. /\ v' \in VRec /\ v'.incoming = v.incoming /\ v'.accept = v.accept
        /\ v'.pendEnable = v.pendEnable /\ v'.pendTurn = v.pendTurn
        /\ th[t].op # "acceptVideo" => v'.peerUp = v.peerUp
    <3>1. CASE ~reg
      BY <1>0, <1>7, <3>1 DEF Undo
    <3>2. CASE reg /\ th[t].op = "acceptVideo"
      <4>1. v' = [v EXCEPT !.peerUp = TRUE]
        BY <1>7, <3>2 DEF Undo
      <4> QED BY <1>0, <3>2, <4>1 DEF VRec
    <3>3. CASE reg /\ th[t].op = "on"
      <4>1. v' = [v EXCEPT !.local = FALSE]
        BY <1>7, <3>3 DEF Undo
      <4> QED BY <1>0, <4>1 DEF VRec
    <3>4. CASE reg /\ th[t].op \notin {"acceptVideo", "on"}
      <4>1. v' = [v EXCEPT !.local = FALSE, !.gate = FALSE]
        BY <1>7, <3>4 DEF Undo
      <4> QED BY <1>0, <4>1 DEF VRec
    <3> QED BY <3>1, <3>2, <3>3, <3>4
  <2>3. Onward /\ ParkedInv'
    BY <1>0, <2>2 DEF Onward, ParkedInv, Deferred
  <2>4. PICK x : /\ Goto(t, x) /\ x \in ThRec /\ Held(x) /\ x.op # "acceptVideo"
    <3>1. CASE th[t].op = "acceptVideo"
      BY <1>1, <1>2, <1>7, <3>1 DEF Undo
    <3>2. CASE th[t].op = "start"
      <4>1. PICK b \in BOOLEAN : b = (tx /\ reg)
        OBVIOUS
      <4>2. PICK x : x = [th[t] EXCEPT !.pc = "undoTx", !.tx = b]
        OBVIOUS
      <4>3. Goto(t, [th[t] EXCEPT !.pc = "undoTx", !.tx = tx /\ reg])
        BY <1>7, <3>2 DEF Undo
      <4>4. Goto(t, x)
        BY <4>1, <4>2, <4>3, Zenon
      <4>5. x \in ThRec /\ x.pc = "undoTx" /\ x.op = th[t].op /\ x.turn = th[t].turn
            /\ x.then = th[t].then
        BY <1>0, <4>2 DEF ThRec, Pcs
      <4>6. Held(x)
        BY <1>0, <4>5 DEF Held
      <4> QED BY <3>2, <4>4, <4>5, <4>6
    <3>3. CASE th[t].op \notin {"acceptVideo", "start"}
      <4>1. PICK x : x = [th[t] EXCEPT !.pc = "undoTx"]
        OBVIOUS
      <4>2. Goto(t, x)
        BY <1>7, <3>3, <4>1 DEF Undo
      <4>3. x \in ThRec /\ x.op = th[t].op /\ Held(x)
        BY <1>3, <4>1
      <4> QED BY <3>3, <4>2, <4>3
    <3> QED BY <3>1, <3>2, <3>3
  <2>5. Held(x)'
    BY <2>3, <2>4, HeldKept
  <2> QED BY <1>0, <1>s, <1>w, <2>1, <2>2, <2>3, <2>4, <2>5, Section
<1>8. CASE UndoSender(t)
  <2>1. UNCHANGED <<reg, v, tx, wire, left>> /\ Goto(t, f)
    BY <1>1, <1>8, Zenon DEF UndoSender
  <2>2. s' \in SRec /\ KeyFirst(s)'
    <3>1. CASE s' = s
      BY <1>s, <3>1
    <3>2. CASE s' = Disable
      <4>1. PICK z : z = Disable
        OBVIOUS
      <4>2. z \in SRec /\ KeyFirst(z) /\ s' = z
        BY <1>0, <3>2, <4>1, DisableOk
      <4> QED BY <4>2 DEF KeyFirst, Open
    <3> QED BY <1>8, <3>1, <3>2 DEF UndoSender
  <2>3. Held(f)'
    BY <1>2, <1>h, <2>1
  <2> QED BY <1>0, <1>2, <1>k, <1>w, <2>1, <2>2, <2>3, Section
<1> QED BY <1>4, <1>5, <1>6, <1>7, <1>8

\* sendAccept, and the parked requests it releases.
LEMMA AcceptIInv == IInv /\ (SendAccept \/ AcceptSent \/ ReleaseParked) => IInv'
<1> SUFFICES ASSUME IInv, SendAccept \/ AcceptSent \/ ReleaseParked PROVE IInv'
  OBVIOUS
<1>0. /\ TypeOK /\ ToggleAfterAccept /\ ThreadInv /\ ParkedInv /\ v \in VRec /\ s \in SRec
      /\ wire \in WireRec /\ KeyFirst(s) /\ left \in [Ops -> Nat]
      /\ "raw" \in Threads /\ Held(th["raw"]) /\ th["raw"] \in ThRec
  BY Parts, Constants DEF ThreadInv
<1>k. UNCHANGED v => Onward /\ ParkedInv'
  BY <1>0 DEF Onward, ParkedInv, Deferred
<1>i. Held(Idle)'
  BY IdleOk DEF Held
<1>e. ASSUME NEW x \in ThRec, Goto("raw", x), x.op # "acceptVideo", Held(x)', Onward, ParkedInv',
             v' \in VRec, v'.peerUp = v.peerUp, UNCHANGED <<reg, tx, s, wire, left>>
      PROVE  IInv'
  <2>1. KeyFirst(s)' /\ ToggleAfterAccept'
    BY <1>0, <1>e DEF KeyFirst, Open, ToggleAfterAccept
  <2> QED BY <1>0, <1>e, <2>1, Section
<1>1. CASE SendAccept
  <2>1. PICK x : x = [Idle EXCEPT !.pc = "accepted"]
    OBVIOUS
  <2>2. x \in ThRec /\ x.pc = "accepted" /\ x.op = "none" /\ x.then = NoTurn
    BY <2>1, IdleOk DEF ThRec, Pcs
  <2>3. Held(x)'
    BY <2>2 DEF Held
  <2>4. UNCHANGED <<reg, v, tx, s, wire, left>> /\ (Goto("raw", x) \/ Goto("raw", Idle))
    BY <1>1, <2>1 DEF SendAccept
  <2> QED BY <1>0, <1>e, <1>i, <1>k, <2>2, <2>3, <2>4, IdleOk
<1>2. CASE AcceptSent
  <2>0. UNCHANGED <<reg, tx, s, wire, left>>
    BY <1>2, Zenon DEF AcceptSent
  <2>1. CASE Goto("raw", Idle) /\ UNCHANGED v
    BY <1>0, <1>e, <1>i, <1>k, <2>0, <2>1, IdleOk
  <2>2. CASE TakeParked
    <3>1. v' = [v EXCEPT !.accept = "sent", !.pendEnable = "none", !.pendTurn = NoTurn]
      BY <2>2, Zenon DEF TakeParked
    <3>2. /\ v' \in VRec /\ v'.incoming = v.incoming /\ v'.accept = "sent"
          /\ v'.pendEnable = "none" /\ v'.pendTurn = NoTurn /\ v'.peerUp = v.peerUp
      BY <1>0, <3>1 DEF VRec
    <3>3. Onward /\ ParkedInv'
      BY <3>2 DEF Onward, ParkedInv
    <3>4. PICK pc \in {"idle", "turn"} :
             pc = IF v.pendEnable = "none" /\ v.pendTurn = NoTurn THEN "idle" ELSE "turn"
      OBVIOUS
    <3>5. PICK op : op = IF v.pendEnable = "none" THEN "none" ELSE v.pendEnable
      OBVIOUS
    <3>6. PICK x : x = [Idle EXCEPT !.pc = pc, !.op = op, !.turn = v.pendTurn]
      OBVIOUS
    <3>7. Goto("raw", x)
      BY <2>2, <3>4, <3>5, <3>6, Zenon DEF TakeParked
    <3>8. op \in {"none", "on", "off"} /\ op = v.pendEnable /\ v.pendTurn \in Turns \cup {NoTurn}
      BY <1>0, <3>5 DEF VRec
    <3>9. /\ x \in ThRec /\ x.pc = pc /\ x.op = op /\ x.turn = v.pendTurn /\ x.then = NoTurn
      <4>1. Idle \in ThRec /\ pc \in Pcs /\ op \in OpNames /\ Idle.then = NoTurn
        BY <3>8, IdleOk DEF Pcs, OpNames
      <4> QED BY <3>6, <3>8, <4>1 DEF ThRec
    <3>10. Held(x)'
      BY <3>2, <3>4, <3>8, <3>9 DEF Held, Deferred
    <3> QED BY <1>e, <2>0, <3>2, <3>3, <3>7, <3>8, <3>9, <3>10
  <2> QED BY <1>2, <2>1, <2>2 DEF AcceptSent
<1>3. CASE ReleaseParked
  <2>0. UNCHANGED <<reg, tx, s, wire, left>> /\ th["raw"].pc = "turn"
    BY <1>3, Zenon DEF ReleaseParked
  <2>1. v.accept = "sent" /\ th["raw"].turn \in Turns \cup {NoTurn}
    BY <1>0, <2>0 DEF Held, ThRec
  <2>2. CASE UNCHANGED v /\ Goto("raw", Idle)
    BY <1>0, <1>i, <1>k, <1>e, <2>0, <2>2, IdleOk, Section DEF KeyFirst, Open, ToggleAfterAccept
  <2>3. CASE /\ th["raw"].op \in {"on", "off"}
             /\ SetVideoEnabled("raw", th["raw"].op = "on", th["raw"].turn)
    <3>1. PICK on \in BOOLEAN : on = (th["raw"].op = "on")
      OBVIOUS
    <3>2. SetVideoEnabled("raw", on, th["raw"].turn)
      BY <2>3, <3>1, Zenon
    <3> QED BY <1>0, <2>0, <2>1, <2>3, <3>2, SetVideoEnabledIInv
  <2>4. CASE /\ th["raw"].op \notin {"on", "off"}
             /\ SetVideoOrientation("raw", th["raw"].turn)
    <3>1. th["raw"].turn \in Turns
      BY <1>0, <2>0, <2>1, <2>4 DEF Held
    <3>2. th["raw"].op # "acceptVideo"
      BY <1>0, <2>0 DEF Held
    <3> QED BY <1>0, <2>0, <2>4, <3>1, <3>2, SetVideoOrientationIInv
  <2> QED BY <1>3, <2>2, <2>3, <2>4 DEF ReleaseParked
<1> QED BY <1>1, <1>2, <1>3

-------------------------------------------------------------------------------
(* The theorems *)

\* A call is registered with its sender closed and nothing asked or parked.
LEMMA InitIInv == Init => IInv
<1> SUFFICES ASSUME Init PROVE IInv
  OBVIOUS
<1>1. PICK video \in BOOLEAN, c \in Cases :
        /\ left = c.left
        /\ v = [incoming |-> c.incoming, local |-> video, gate |-> FALSE, remote |-> video,
                peerUp |-> FALSE, started |-> FALSE,
                accept |-> IF c.incoming THEN "deferred" ELSE "sent",
                pendEnable |-> "none", pendTurn |-> NoTurn]
  BY DEF Init
<1>2. c.incoming \in BOOLEAN /\ c.left \in [Ops -> Nat]
  BY CasesAssumption
<1>3. reg \in BOOLEAN /\ tx \in BOOLEAN /\ left \in [Ops -> Nat]
  BY <1>1, <1>2 DEF Init
<1>4. v \in VRec /\ v.peerUp = FALSE /\ v.pendEnable = "none" /\ v.pendTurn = NoTurn
  BY <1>1, <1>2 DEF VRec
<1>5. s \in SRec /\ s.active = FALSE
  BY Constants DEF Init, SRec
<1>6. th = [t \in Threads |-> Idle]
  BY DEF Init
<1>7. th \in [Threads -> ThRec] /\ \A t \in Threads : th[t].op = "none" /\ Held(th[t])
  BY <1>6, IdleOk DEF Held
<1>8. wire \in WireRec /\ wire.early = {} /\ wire.upgrades = 0 /\ wire.upgradesAccepted = 0
  BY DEF Init, WireRec
<1>9. Answering = {}
  BY <1>7 DEF Answering
<1>10. UpgradeInv
  BY <1>4, <1>8, <1>9, FS_EmptySet DEF UpgradeInv
<1>11. TypeOK
  BY <1>3, <1>4, <1>5, <1>7, <1>8 DEF TypeOK, VRec, SRec, ThRec, WireRec, Pcs, OpNames
<1> QED BY <1>4, <1>5, <1>7, <1>8, <1>10, <1>11
        DEF IInv, KeyframeFirst, Open, ToggleAfterAccept, ThreadInv, ParkedInv

\* Every step keeps the invariant.
LEMMA NextIInv == IInv /\ [Next]_vars => IInv'
<1> SUFFICES ASSUME IInv, [Next]_vars PROVE IInv'
  OBVIOUS
<1>1. CASE UserStep
  BY <1>1, UserIInv
<1>2. CASE StanzaStep
  BY <1>2, StanzaIInv
<1>3. CASE MediaStep
  BY <1>3, MediaIInv
<1>4. ASSUME NEW t \in Threads, ThreadStep(t) PROVE IInv'
  BY <1>4, RestIInv, AcceptIInv DEF ThreadStep
<1>5. CASE UNCHANGED vars
  BY <1>5 DEF vars, IInv, TypeOK, KeyframeFirst, ToggleAfterAccept, ThreadInv, ParkedInv,
     UpgradeInv, Answering, Held, Deferred, Open
<1> QED BY <1>1, <1>2, <1>3, <1>4, <1>5 DEF Next

\* The inductive invariant, for any number of threads and any inputs.
THEOREM Invariance == Spec => []IInv
  BY InitIInv, NextIInv, PTL DEF Spec

\* The types of the call's video fields, of the sender and of the threads.
THEOREM TypeCorrect == Spec => []TypeOK
<1>1. IInv => TypeOK
  BY DEF IInv
<1> QED BY <1>1, Invariance, PTL

\* videoSender: enable, disable, the gate and the peer's feedback never open a
\* sender that would start with anything but a keyframe.
THEOREM OpensWithKeyframe == Spec => []KeyframeFirst
<1>1. IInv => KeyframeFirst
  BY DEF IInv
<1> QED BY <1>1, Invariance, PTL

\* setVideoEnabled and setVideoOrientation, called at any time from any thread,
\* transmit nothing before the accept of an incoming call.
THEOREM TogglesWait == Spec => []ToggleAfterAccept
<1>1. IInv => ToggleAfterAccept
  BY DEF IInv
<1> QED BY <1>1, Invariance, PTL

\* sendAccept takes every request that was parked.
THEOREM NothingStaysParked == Spec => []ParkedReleased
<1>1. IInv => ParkedReleased
  BY DEF IInv, ParkedInv, ParkedReleased, Deferred
<1> QED BY <1>1, Invariance, PTL

\* AcceptVideo, from any number of threads and with any number of failed
\* transmissions, answers no more upgrades than the peer has asked for.
THEOREM UpgradesAnsweredOnce == Spec => []UpgradeAcceptedOnce
<1>1. IInv => UpgradeAcceptedOnce
  <2> SUFFICES ASSUME IInv PROVE wire.upgradesAccepted <= wire.upgrades
    BY DEF UpgradeAcceptedOnce
  <2> DEFINE n == Cardinality(Answering)
  <2>1. n \in Nat /\ n + wire.upgradesAccepted + (IF v.peerUp THEN 1 ELSE 0) <= wire.upgrades
    BY FS_CardinalityType DEF IInv, UpgradeInv
  <2>2. wire.upgradesAccepted \in Nat /\ wire.upgrades \in Nat
    <3>1. wire \in WireRec
      BY Parts
    <3> QED BY <3>1 DEF WireRec
  <2> HIDE DEF n
  <2> QED BY <2>1, <2>2
<1> QED BY <1>1, Invariance, PTL
===============================================================================
