--------------------------- MODULE RelayFanoutProofs ---------------------------
(***************************************************************************)
(* RelayFanout for every number of relays, packets and slots: the merged   *)
(* channel is closed only with the last relay, what was merged before is   *)
(* handed out first, and the replay filter is exact within its window.     *)
(***************************************************************************)
EXTENDS RelayFanout, FiniteSetTheorems, SequenceTheorems, TLAPS

-------------------------------------------------------------------------------
(* The inductive invariant, in the parts in which it is proved. *)

\* Readers that have not passed readerExited.
Active == {r \in Relays : reader[r].pc \in {"recv", "push", "exit"}}

\* A packet in the hands of a reader or of the loop is one the peer sent.
HeldInv ==
    /\ \A r \in Relays : reader[r].pc = "push" => reader[r].pkt \in Packets
    /\ loop.pc = "filter" => loop.pkt \in Packets

\* f.live never falls below the readers still to come through readerExited, and
\* a reader leaves before close(f.done) only when its own relay is down.
CloseInv ==
    /\ Cardinality(Active) <= live
    /\ \A r \in Relays :
          /\ reader[r].pc = "exit" => r \notin up
          /\ reader[r].pc = "gone" /\ ~Done => r \notin up
          /\ reader[r].pc = "close" /\ ~Done => up = {}
    /\ NotClosedEarly

\* Packets are owed only after close(f.done), and never more than are queued.
DrainInv ==
    /\ ~Done => owed = 0
    /\ owed <= Len(packets)
    /\ loop.pc = "drain" \/ loop.failed => Done
    /\ DrainedBeforeClosed

\* No copy on its way is MaxLag packets behind the peer.
LagInv ==
    \A r \in Relays :
       /\ next[r] <= sent + 1
       /\ r \in up => sent < next[r] + MaxLag
       /\ reader[r].pc = "push" =>
             /\ reader[r].pkt \in 1..sent
             /\ reader[r].pkt < next[r] /\ sent < reader[r].pkt + MaxLag

\* Packets the filter has judged.
Judged == {p \in Packets : delivered[p] > 0 \/ p \in lost}

\* No packet is queued behind one that is MaxLag newer.
QueueInv ==
    /\ \A p \in Judged : p <= sent
    /\ \A j \in DOMAIN packets :
          /\ packets[j] <= sent
          /\ \A i \in DOMAIN packets : i < j => packets[i] < packets[j] + MaxLag
          /\ \A p \in Judged : p < packets[j] + MaxLag
    /\ loop.pc = "filter" =>
          /\ loop.pkt \in 1..sent
          /\ \A j \in DOMAIN packets : loop.pkt < packets[j] + MaxLag
          /\ \A p \in Judged : p < loop.pkt + MaxLag

\* Packet t is the newest of slot s that came through.
Newest(t, s) ==
    /\ t % Ring = s /\ delivered[t] > 0
    /\ \A p \in Packets : p % Ring = s /\ delivered[p] > 0 => p <= t

\* A slot of the ring records the newest packet of the slot that came through.
RingInv ==
    /\ AtMostOnce
    /\ \A p \in Packets : delivered[p] > 0 => ring[p % Ring].seen
    /\ \A s \in Slots : ring[s].seen =>
          \E t \in Packets : Newest(t, s) /\ SeqNo(t) = ring[s].seq
    /\ NoFreshDrop

Base == TypeOK /\ HeldInv /\ CloseInv

IInv == Base /\ DrainInv /\ LagInv /\ QueueInv /\ RingInv

-------------------------------------------------------------------------------
(* Types, the count of live readers, and who closes *)

\* The state of newRelayFanout.
LEMMA InitBase == Init => Base
<1> SUFFICES ASSUME Init PROVE Base
  OBVIOUS
<1> USE DEF Init
<1>1. Cardinality(Relays) \in Nat
  BY RelaysAssumption, FS_CardinalityType
<1>2. TypeOK
  <2>1. NPackets \in Nat /\ Backlog \in Nat /\ SeqSpace \in Nat \ {0}
    BY SizeAssumption
  <2>2. packets \in Seq(Packets) /\ Len(packets) = 0
    OBVIOUS
  <2>3. sent \in 0..NPackets /\ next \in [Relays -> 1..(NPackets + 1)] /\ owed \in 0..Backlog
        /\ live \in 0..Cardinality(Relays)
    BY <1>1, <2>1
  <2>4. reader \in [Relays -> [pc : {"recv", "push", "exit", "close", "gone"}, pkt : 0..NPackets]]
    BY <2>1
  <2>5. loop \in [pc : {"top", "recv", "drain", "filter", "close", "gone"},
                 pkt : 0..NPackets, failed : BOOLEAN]
    BY <2>1
  <2>6. ring \in [Slots -> [seen : BOOLEAN, seq : 0..(SeqSpace - 1)]]
    BY <2>1
  <2>7. delivered \in [Packets -> Nat] /\ lost \subseteq Packets /\ cancelled \in BOOLEAN
        /\ once = "new" /\ closer \in Closers \cup {"none"} /\ up \subseteq Relays
    OBVIOUS
  <2> HIDE DEF Init
  <2> QED BY <2>1, <2>2, <2>3, <2>4, <2>5, <2>6, <2>7 DEF TypeOK
<1>3. Active = Relays
  BY DEF Active
<1>4. CloseInv
  BY <1>1, <1>3, RelaysAssumption DEF CloseInv, NotClosedEarly
<1>5. HeldInv
  BY DEF HeldInv
<1> QED BY <1>2, <1>4, <1>5 DEF Base

\* The readers that still count are finitely many.
LEMMA ActiveFinite == IsFiniteSet(Active) /\ Cardinality(Active) \in Nat
<1>1. Active \subseteq Relays
  BY DEF Active
<1> QED BY <1>1, RelaysAssumption, FS_Subset, FS_CardinalityType

\* A step that leaves the readers alone, and only takes relays down or closes,
\* keeps CloseInv.
LEMMA CloseKept ==
    ASSUME TypeOK, CloseInv, live' = live, reader' = reader, closer' = closer,
           up' \subseteq up, Done => Done'
    PROVE  CloseInv'
<1>1. Active' = Active
  BY DEF Active
<1>2. up = {} => up' = {}
  OBVIOUS
<1> QED BY <1>1, <1>2 DEF CloseInv, NotClosedEarly, TypeOK

\* The loop touches neither the readers nor the count.
LEMMA LoopBase == Base /\ LoopStep => Base'
<1> SUFFICES ASSUME Base, LoopStep PROVE Base'
  OBVIOUS
<1> USE DEF Base, netVars, fanVars
<1> DEFINE LoopType == [pc : {"top", "recv", "drain", "filter", "close", "gone"},
                        pkt : 0..NPackets, failed : BOOLEAN]
<1>0. loop \in LoopType
  BY DEF TypeOK
<1>1. CASE LoopTop
  <2>1. TypeOK'
    <3>1. loop' \in LoopType
      BY <1>0, <1>1 DEF LoopTop
    <3> QED BY <1>1, <3>1 DEF LoopTop, TypeOK
  <2>2. CloseInv'
    BY <1>1, CloseKept DEF LoopTop, Done
  <2>3. HeldInv'
    BY <1>0, <1>1 DEF LoopTop, HeldInv
  <2> QED BY <2>1, <2>2, <2>3
<1>2. CASE Recv
  <2>1. CASE TakePacket
    <3>1. Head(packets) \in Packets /\ Tail(packets) \in Seq(Packets)
          /\ Len(Tail(packets)) = Len(packets) - 1 /\ Len(packets) \in Nat
      BY <2>1, HeadTailProperties, LenProperties DEF TakePacket, TypeOK
    <3>2. owed' \in 0..Backlog
      BY <2>1, SizeAssumption DEF TakePacket, TypeOK
    <3>3. loop' \in LoopType /\ loop'.pkt \in Packets
      <4>1. Head(packets) \in 0..NPackets
        BY <3>1, SizeAssumption DEF Packets
      <4>2. loop' = [loop EXCEPT !.pc = "filter", !.pkt = Head(packets)]
        BY <2>1 DEF TakePacket
      <4> HIDE DEF Base
      <4> QED BY <1>0, <3>1, <4>1, <4>2
    <3>4. packets' \in Seq(Packets) /\ Len(packets') <= Backlog
      BY <2>1, <3>1, SizeAssumption DEF TakePacket, TypeOK
    <3>5. TypeOK'
      BY <1>2, <3>2, <3>3, <3>4 DEF Recv, TypeOK
    <3> QED BY <1>2, <3>3, <3>5, CloseKept DEF Recv, HeldInv, Done
  <2>2. CASE ~TakePacket
    <3>1. loop' \in LoopType /\ loop'.pc \in {"drain", "close"} /\ packets' = packets /\ owed' = owed
      BY <1>0, <1>2, <2>2 DEF Recv, Drain
    <3>2. TypeOK'
      BY <1>2, <3>1 DEF Recv, TypeOK
    <3> QED BY <1>2, <3>1, <3>2, CloseKept DEF Recv, HeldInv, Done
  <2> QED BY <2>1, <2>2
<1>3. CASE Filter
  <2>1. loop' \in LoopType /\ loop'.pc = "top"
    BY <1>0, <1>3 DEF Filter
  <2>2. loop.pkt \in Packets
    BY <1>3 DEF Filter, HeldInv
  <2>3. SeqNo(loop.pkt) \in 0..(SeqSpace - 1)
    BY <2>2, SizeAssumption DEF SeqNo, Packets
  <2>4. ring' \in [Slots -> [seen : BOOLEAN, seq : 0..(SeqSpace - 1)]]
        /\ delivered' \in [Packets -> Nat] /\ lost' \subseteq Packets
    <3>1. CASE Duplicate(SeqNo(loop.pkt))
      BY <1>3, <2>2, <3>1 DEF Filter, TypeOK
    <3>2. CASE ~Duplicate(SeqNo(loop.pkt))
      <4>1. delivered' = [delivered EXCEPT ![loop.pkt] = @ + 1] /\ lost' = lost
            /\ ring' = [ring EXCEPT ![SeqNo(loop.pkt) % Ring] =
                              [seen |-> TRUE, seq |-> SeqNo(loop.pkt)]]
        BY <1>3, <3>2 DEF Filter
      <4>2. ring' \in [Slots -> [seen : BOOLEAN, seq : 0..(SeqSpace - 1)]]
        BY <2>3, <4>1 DEF TypeOK
      <4>3. delivered' \in [Packets -> Nat]
        BY <2>2, <4>1 DEF TypeOK
      <4> QED BY <4>1, <4>2, <4>3 DEF TypeOK
    <3> QED BY <3>1, <3>2
  <2>5. TypeOK'
    BY <1>3, <2>1, <2>4 DEF Filter, TypeOK
  <2>6. CloseInv'
    BY <1>3, CloseKept DEF Filter, Done
  <2> QED BY <1>3, <2>1, <2>5, <2>6 DEF Filter, HeldInv
<1> QED BY <1>1, <1>2, <1>3 DEF LoopStep

\* Only the peer and the relays move here; a reader sees it later.
LEMMA EnvironmentBase == Base /\ Environment => Base'
<1> SUFFICES ASSUME Base, Environment PROVE Base'
  OBVIOUS
<1> USE DEF Base, netVars, fanVars, loopVars
<1>1. CASE PeerSends
  <2>1. sent' \in 0..NPackets
    BY <1>1, SizeAssumption DEF PeerSends, TypeOK
  <2>2. TypeOK'
    BY <1>1, <2>1 DEF PeerSends, TypeOK
  <2> QED BY <1>1, <2>2, CloseKept DEF PeerSends, HeldInv, Done
<1>2. CASE CancelCall
  BY <1>2, CloseKept DEF CancelCall, TypeOK, HeldInv, Done
<1>3. ASSUME NEW r \in Relays, RelayLoses(r) PROVE Base'
  <2>1. next[r] \in 1..(NPackets + 1) /\ sent \in 0..NPackets /\ NPackets \in Nat
    BY SizeAssumption DEF TypeOK
  <2>2. next' \in [Relays -> 1..(NPackets + 1)]
    BY <1>3, <2>1 DEF RelayLoses, TypeOK
  <2> QED BY <1>3, <2>2, CloseKept DEF RelayLoses, TypeOK, HeldInv, Done
<1>4. ASSUME NEW r \in Relays, RelayDies(r) PROVE Base'
  BY <1>4, CloseKept DEF RelayDies, TypeOK, HeldInv, Done
<1> QED BY <1>1, <1>2, <1>3, <1>4 DEF Environment

\* readLoop and readerExited: the count follows the readers that are left.
LEMMA ReaderBase == ASSUME NEW r \in Relays, Base, ReaderStep(r) PROVE Base'
<1> USE DEF Base, netVars, fanVars, loopVars
<1> DEFINE ReaderType == [pc : {"recv", "push", "exit", "close", "gone"}, pkt : 0..NPackets]
<1>0. reader \in [Relays -> ReaderType] /\ NPackets \in Nat
  BY SizeAssumption DEF TypeOK
<1>1. CASE ReaderRecv(r)
  <2>1. CASE r \in up
    <3>1. next[r] \in 1..NPackets /\ reader' = [reader EXCEPT ![r] = [pc |-> "push", pkt |-> next[r]]]
          /\ next' = [next EXCEPT ![r] = @ + 1]
      BY <1>0, <1>1, <2>1 DEF ReaderRecv, TypeOK
    <3>2. reader' \in [Relays -> ReaderType] /\ next' \in [Relays -> 1..(NPackets + 1)]
      BY <1>0, <3>1 DEF TypeOK
    <3>3. TypeOK'
      BY <1>1, <3>2 DEF ReaderRecv, TypeOK
    <3>4. HeldInv'
      BY <1>0, <1>1, <3>1 DEF ReaderRecv, HeldInv, Packets
    <3>5. Active' = Active
      BY <1>0, <1>1, <3>1 DEF Active, ReaderRecv
    <3>6. CloseInv'
      BY <1>0, <1>1, <3>1, <3>5 DEF ReaderRecv, CloseInv, NotClosedEarly, Done
    <3> QED BY <3>3, <3>4, <3>6
  <2>2. CASE r \notin up
    <3>1. reader' = [reader EXCEPT ![r].pc = "exit"] /\ next' = next
      BY <1>1, <2>2 DEF ReaderRecv
    <3>2. reader' \in [Relays -> ReaderType]
      BY <1>0, <3>1
    <3>3. TypeOK'
      BY <1>1, <3>1, <3>2 DEF ReaderRecv, TypeOK
    <3>4. HeldInv'
      BY <1>0, <1>1, <3>1 DEF ReaderRecv, HeldInv
    <3>5. Active' = Active
      BY <1>0, <1>1, <3>1 DEF Active, ReaderRecv
    <3>6. CloseInv'
      BY <1>0, <1>1, <2>2, <3>1, <3>5 DEF ReaderRecv, CloseInv, NotClosedEarly, Done
    <3> QED BY <3>3, <3>4, <3>6
  <2> QED BY <2>1, <2>2
<1>2. CASE ReaderPush(r)
  <2>1. PICK c \in {"recv", "gone"} : reader' = [reader EXCEPT ![r].pc = c] /\ (c = "gone" => Done)
    BY <1>2 DEF ReaderPush, Merge
  <2>2. reader' \in [Relays -> ReaderType]
    BY <1>0, <2>1
  <2>3. packets' \in Seq(Packets) /\ Len(packets') <= Backlog
    <3>1. CASE packets' = packets
      BY <3>1 DEF TypeOK
    <3>2. CASE packets' # packets
      <4>1. packets' = Append(packets, reader[r].pkt) /\ Len(packets) < Backlog
            /\ reader[r].pkt \in Packets /\ packets \in Seq(Packets)
        BY <1>2, <3>2 DEF ReaderPush, Merge, HeldInv, TypeOK
      <4> QED BY <4>1, AppendProperties, LenProperties, SizeAssumption
    <3> QED BY <3>1, <3>2
  <2>4. TypeOK'
    BY <1>2, <2>2, <2>3 DEF ReaderPush, TypeOK
  <2>5. HeldInv'
    BY <1>0, <1>2, <2>1 DEF ReaderPush, HeldInv
  <2>6. Active' \subseteq Active
    BY <1>0, <1>2, <2>1 DEF Active, ReaderPush
  <2>7. Cardinality(Active') <= Cardinality(Active)
    BY <2>6, ActiveFinite, FS_Subset
  <2>8. Cardinality(Active)' <= live'
    BY <1>2, <2>7, <2>6, ActiveFinite, FS_Subset, FS_CardinalityType, <2>4
       DEF ReaderPush, CloseInv, TypeOK
  <2>9. CloseInv'
    BY <1>0, <1>2, <2>1, <2>8 DEF ReaderPush, CloseInv, NotClosedEarly, Done
  <2> QED BY <2>4, <2>5, <2>9
<1>3. CASE ReaderExited(r)
  <2>1. reader[r].pc = "exit" /\ r \in Active /\ r \notin up
    BY <1>3 DEF ReaderExited, Active, CloseInv
  <2>2. PICK c \in {"close", "gone"} :
             /\ reader' = [reader EXCEPT ![r].pc = c]
             /\ c = "close" => live - 1 = 0
    BY <1>3 DEF ReaderExited, LastReader
  <2>3. Active' = Active \ {r}
    BY <1>0, <2>2 DEF Active
  <2>4. Cardinality(Active \ {r}) = Cardinality(Active) - 1 /\ Cardinality(Active \ {r}) \in Nat
        /\ IsFiniteSet(Active \ {r})
    BY <2>1, ActiveFinite, FS_RemoveElement, FS_CardinalityType
  <2>5. live' = live - 1 /\ live' \in 0..Cardinality(Relays) /\ Cardinality(Active') <= live'
    <3>1. live \in Nat /\ live <= Cardinality(Relays) /\ Cardinality(Relays) \in Nat
          /\ Cardinality(Active) <= live
      BY RelaysAssumption, FS_CardinalityType DEF TypeOK, CloseInv
    <3> QED BY <1>3, <2>3, <2>4, <3>1, ActiveFinite DEF ReaderExited
  <2>6. reader' \in [Relays -> ReaderType]
    BY <1>0, <2>2
  <2>7. TypeOK'
    BY <1>3, <2>5, <2>6 DEF ReaderExited, TypeOK
  <2>8. HeldInv'
    BY <1>0, <1>3, <2>2 DEF ReaderExited, HeldInv
  <2>9. ASSUME live - 1 = 0, ~Done PROVE up = {}
    <3>1. Active \ {r} = {}
      <4>1. Cardinality(Active \ {r}) = 0
        <5> DEFINE n == Cardinality(Active \ {r})
        <5>1. n \in Nat /\ n <= 0
          BY <2>3, <2>4, <2>5, <2>9
        <5> HIDE DEF n
        <5>2. n = 0
          BY <5>1
        <5> QED BY <5>2 DEF n
      <4> QED BY <2>4, <4>1, FS_EmptySet
    <3>2. \A q \in Relays \ {r} : reader[q].pc \in {"close", "gone"}
      BY <1>0, <3>1 DEF Active
    <3> QED BY <2>1, <2>9, <3>2 DEF CloseInv, TypeOK
  <2>10. CloseInv'
    BY <1>0, <1>3, <2>1, <2>2, <2>5, <2>9 DEF ReaderExited, CloseInv, NotClosedEarly, Done
  <2> QED BY <2>7, <2>8, <2>10
<1> QED BY <1>1, <1>2, <1>3 DEF ReaderStep

\* Close: a reader gets to run the body of closeOnce only as the last one.
LEMMA CloseBase == Base /\ CloseStep => Base'
<1> SUFFICES ASSUME Base, CloseStep PROVE Base'
  OBVIOUS
<1> USE DEF Base, netVars, fanVars, loopVars
<1>1. CASE CloseSignal
  <2>1. owed' \in 0..Backlog
    BY <1>1, LenProperties, SizeAssumption DEF CloseSignal, TypeOK
  <2>2. TypeOK' /\ HeldInv'
    BY <1>1, <2>1 DEF CloseSignal, TypeOK, HeldInv
  <2> QED BY <1>1, <2>2, CloseKept DEF CloseSignal, Done
<1>2. CASE CloseChannel
  BY <1>2, CloseKept DEF CloseChannel, TypeOK, HeldInv, Done
<1>3. ASSUME NEW a \in Closers, CloseBegin(a) PROVE Base'
  <2>1. TypeOK' /\ HeldInv'
    BY <1>3 DEF CloseBegin, TypeOK, HeldInv
  <2>2. Active' = Active
    BY <1>3 DEF CloseBegin, Active
  <2>3. NotClosedEarly'
    BY <1>3, RelaysAssumption DEF CloseBegin, Calls, CloseInv, NotClosedEarly, Done, Closers
  <2> QED BY <1>3, <2>1, <2>2, <2>3 DEF CloseBegin, CloseInv, Done
<1>4. ASSUME NEW a \in Closers, CloseReturn(a) PROVE Base'
  <2>1. CASE a = "loop"
    <3>1. TypeOK' /\ HeldInv'
      BY <1>4, <2>1 DEF CloseReturn, TypeOK, HeldInv
    <3> QED BY <1>4, <2>1, <3>1, CloseKept DEF CloseReturn, Done
  <2>2. CASE a # "loop"
    <3>0. a \in Relays
      BY <2>2 DEF Closers
    <3>1. reader' = [reader EXCEPT ![a].pc = "gone"] /\ reader[a].pc = "close" /\ Done
      BY <1>4, <2>2 DEF CloseReturn, Calls, Done
    <3>2. TypeOK'
      BY <1>4, <2>2, <3>1 DEF CloseReturn, TypeOK
    <3>3. HeldInv'
      BY <1>4, <2>2, <3>1 DEF CloseReturn, TypeOK, HeldInv
    <3>4. Active' = Active
      BY <3>1 DEF Active, TypeOK
    <3> QED BY <1>4, <2>2, <3>1, <3>2, <3>3, <3>4
            DEF CloseReturn, TypeOK, CloseInv, NotClosedEarly, Done
  <2> QED BY <2>1, <2>2
<1> QED BY <1>1, <1>2, <1>3, <1>4 DEF CloseStep

\* Every step keeps the types, the count of live readers and NotClosedEarly.
LEMMA NextBase == Base /\ [Next]_vars => Base'
<1> SUFFICES ASSUME Base, [Next]_vars PROVE Base'
  OBVIOUS
<1>1. CASE UNCHANGED vars
  BY <1>1 DEF vars, Base, TypeOK, HeldInv, CloseInv, Active, NotClosedEarly, Done
<1> QED BY <1>1, EnvironmentBase, CloseBase, LoopBase, ReaderBase DEF Next

-------------------------------------------------------------------------------
(* What was merged before close(f.done) is handed out *)

\* Len(f.packets) is a number, and zero only when it is empty.
LEMMA QueueLen ==
    ASSUME TypeOK
    PROVE  /\ Len(packets) \in Nat /\ owed \in Nat
           /\ packets = <<>> => Len(packets) = 0
           /\ packets # <<>> =>
                 /\ Head(packets) = packets[1]
                 /\ Tail(packets) \in Seq(Packets) /\ Len(Tail(packets)) = Len(packets) - 1
                 /\ \A i \in 1..Len(Tail(packets)) : Tail(packets)[i] = packets[i + 1]
  BY LenProperties, HeadTailProperties, EmptySeq, SizeAssumption DEF TypeOK

\* The count of what is owed follows the queue.
LEMMA NextDrain == Base /\ DrainInv /\ [Next]_vars => DrainInv'
<1> SUFFICES ASSUME Base, DrainInv, [Next]_vars PROVE DrainInv'
  OBVIOUS
<1> USE DEF netVars, fanVars, loopVars
<1>0. TypeOK /\ Len(packets) \in Nat /\ owed \in Nat
  BY QueueLen DEF Base
<1>1. CASE Environment \/ UNCHANGED vars
  BY <1>1 DEF Environment, PeerSends, CancelCall, RelayLoses, RelayDies, vars, DrainInv,
     DrainedBeforeClosed, Done
<1>2. ASSUME NEW r \in Relays, ReaderStep(r) PROVE DrainInv'
  <2>1. Len(packets') >= Len(packets)
    <3>1. CASE packets' = packets
      BY <1>0, <3>1
    <3>2. CASE packets' # packets
      BY <1>0, <1>2, <3>2, AppendProperties
         DEF ReaderStep, ReaderRecv, ReaderPush, Merge, ReaderExited, Base, HeldInv, TypeOK
    <3> QED BY <3>1, <3>2
  <2>2. Len(packets') \in Nat
    BY <1>2, NextBase, QueueLen DEF Next, Base, TypeOK
  <2>3. UNCHANGED <<owed, once, loop>>
    BY <1>2 DEF ReaderStep, ReaderRecv, ReaderPush, ReaderExited
  <2> QED BY <1>0, <2>1, <2>2, <2>3 DEF DrainInv, DrainedBeforeClosed, Done
<1>3. CASE CloseSignal
  BY <1>0, <1>3 DEF CloseSignal, DrainInv, DrainedBeforeClosed, Done
<1>4. CASE CloseChannel
  BY <1>4 DEF CloseChannel, DrainInv, DrainedBeforeClosed, Done
<1>5. ASSUME NEW a \in Closers, CloseBegin(a) PROVE DrainInv'
  BY <1>5 DEF CloseBegin, DrainInv, DrainedBeforeClosed, Done
<1>6. ASSUME NEW a \in Closers, CloseReturn(a) PROVE DrainInv'
  BY <1>0, <1>6 DEF CloseReturn, DrainInv, DrainedBeforeClosed, Done, TypeOK
<1>7. CASE LoopTop
  BY <1>0, <1>7 DEF LoopTop, DrainInv, DrainedBeforeClosed, Done, TypeOK
<1>8. CASE Recv
  <2>1. CASE TakePacket
    <3>1. Len(packets') = Len(packets) - 1 /\ owed' = (IF owed > 0 THEN owed - 1 ELSE 0)
      BY <1>0, <2>1, QueueLen DEF TakePacket
    <3>2. loop'.pc = "filter" /\ loop'.failed = loop.failed /\ Done' = Done
      BY <1>0, <1>8, <2>1 DEF TakePacket, TypeOK, Recv, Done
    <3>3. Len(packets) > 0
      BY <1>0, <2>1, EmptySeq DEF TakePacket, TypeOK
    <3> QED BY <1>0, <3>1, <3>2, <3>3 DEF DrainInv, DrainedBeforeClosed
  <2>2. CASE ~TakePacket
    <3>1. UNCHANGED <<packets, owed, once>> /\ Done
      BY <1>8, <2>2 DEF Recv, Drain, DrainInv
    <3>2. loop'.failed => loop.failed \/ packets = <<>>
      BY <1>0, <1>8, <2>2 DEF Recv, Drain, TypeOK
    <3>3. packets = <<>> => owed = 0
      BY <1>0, QueueLen DEF DrainInv
    <3> QED BY <3>1, <3>2, <3>3 DEF DrainInv, DrainedBeforeClosed, Done
  <2> QED BY <2>1, <2>2
<1>9. CASE Filter
  BY <1>0, <1>9 DEF Filter, DrainInv, DrainedBeforeClosed, Done, TypeOK
<1> QED BY <1>1, <1>2, <1>3, <1>4, <1>5, <1>6, <1>7, <1>8, <1>9 DEF Next, CloseStep, LoopStep

-------------------------------------------------------------------------------
(* The reorder window *)

\* PeerSends waits for the slowest copy; every other step only shortens the lag.
LEMMA NextLag == Base /\ LagInv /\ [Next]_vars => LagInv'
<1> SUFFICES ASSUME Base, LagInv, [Next]_vars PROVE LagInv'
  OBVIOUS
<1> USE DEF netVars, fanVars, loopVars
<1>0. /\ sent \in Nat /\ MaxLag \in Nat /\ next \in [Relays -> Nat]
      /\ reader \in [Relays -> [pc : {"recv", "push", "exit", "close", "gone"}, pkt : Nat]]
  <2>1. NPackets \in Nat /\ MaxLag \in Nat
    BY SizeAssumption
  <2> QED BY <2>1 DEF Base, TypeOK
<1>1. CASE PeerSends
  <2> SUFFICES ASSUME NEW r \in Relays
               PROVE  /\ next[r] <= sent + 2
                      /\ r \in up => sent + 1 < next[r] + MaxLag
                      /\ reader[r].pc = "push" =>
                            /\ reader[r].pkt \in 1..(sent + 1)
                            /\ reader[r].pkt < next[r] /\ sent + 1 < reader[r].pkt + MaxLag
    BY <1>0, <1>1 DEF PeerSends, LagInv
  <2>1. CASE reader[r].pc = "push"
    BY <1>0, <1>1, <2>1 DEF PeerSends, LagInv
  <2>2. CASE reader[r].pc # "push"
    BY <1>0, <1>1, <2>2 DEF PeerSends, LagInv, Oldest
  <2> QED BY <2>1, <2>2
<1>2. ASSUME NEW q \in Relays, RelayLoses(q) PROVE LagInv'
  BY <1>0, <1>2 DEF RelayLoses, LagInv
<1>3. ASSUME NEW q \in Relays, RelayDies(q) PROVE LagInv'
  BY <1>0, <1>3 DEF RelayDies, LagInv
<1>4. ASSUME NEW q \in Relays, ReaderRecv(q) PROVE LagInv'
  <2>1. CASE q \in up
    <3>1. /\ reader' = [reader EXCEPT ![q] = [pc |-> "push", pkt |-> next[q]]]
          /\ next' = [next EXCEPT ![q] = @ + 1] /\ next[q] <= sent /\ UNCHANGED <<sent, up>>
      BY <1>4, <2>1 DEF ReaderRecv
    <3>2. next[q] >= 1
      BY DEF Base, TypeOK
    <3> QED BY <1>0, <2>1, <3>1, <3>2 DEF LagInv
  <2>2. CASE q \notin up
    BY <1>0, <1>4, <2>2 DEF ReaderRecv, LagInv
  <2> QED BY <2>1, <2>2
<1>5. ASSUME NEW q \in Relays, ReaderPush(q) \/ ReaderExited(q) PROVE LagInv'
  <2>1. PICK c \in {"recv", "gone", "close"} : reader' = [reader EXCEPT ![q].pc = c]
    BY <1>5 DEF ReaderPush, Merge, ReaderExited
  <2>2. UNCHANGED <<sent, next, up>>
    BY <1>5 DEF ReaderPush, ReaderExited
  <2> QED BY <1>0, <2>1, <2>2 DEF LagInv
<1>6. CASE CloseChannel
  BY <1>0, <1>6 DEF CloseChannel, LagInv
<1>7. ASSUME NEW a \in Closers, CloseReturn(a) PROVE LagInv'
  <2>1. CASE a = "loop"
    BY <1>7, <2>1 DEF CloseReturn, LagInv
  <2>2. CASE a # "loop"
    BY <1>0, <1>7, <2>2 DEF CloseReturn, LagInv, Closers
  <2> QED BY <2>1, <2>2
<1>8. CASE UNCHANGED <<netVars, reader>>
  BY <1>8 DEF LagInv
<1>9. CASE CancelCall \/ CloseSignal \/ (\E a \in Closers : CloseBegin(a)) \/ LoopStep \/ UNCHANGED vars
  BY <1>8, <1>9 DEF CancelCall, CloseSignal, CloseBegin, LoopStep, LoopTop, Recv, Filter, vars
<1> QED BY <1>1, <1>2, <1>3, <1>4, <1>5, <1>6, <1>7, <1>9
        DEF Next, Environment, CloseStep, ReaderStep

\* A step that neither merges, takes out nor judges a packet keeps the order.
LEMMA QueueKept ==
    ASSUME Base, QueueInv, sent' \in Nat, sent' >= sent, UNCHANGED <<packets, delivered, lost>>,
           loop'.pc = "filter" => loop' = loop
    PROVE  QueueInv'
<1>1. Judged' = Judged /\ sent \in Nat
  BY SizeAssumption DEF Judged, Base, TypeOK
<1>2. /\ \A p \in Judged : p \in Nat
      /\ \A j \in DOMAIN packets : packets[j] \in Nat
  BY SizeAssumption DEF Judged, Packets, Base, TypeOK
<1>3. loop'.pc = "filter" => loop.pc = "filter" /\ loop'.pkt = loop.pkt
  OBVIOUS
<1> QED BY <1>1, <1>2, <1>3 DEF QueueInv

\* The order of the queue: a reader holds only recent packets, and Recv takes
\* the oldest of the queue.
LEMMA NextQueue == Base /\ LagInv /\ QueueInv /\ [Next]_vars => QueueInv'
<1> SUFFICES ASSUME Base, LagInv, QueueInv, [Next]_vars PROVE QueueInv'
  OBVIOUS
<1> USE DEF netVars, fanVars, loopVars
<1>0. /\ sent \in Nat /\ MaxLag \in Nat \ {0} /\ packets \in Seq(Packets) /\ TypeOK
      /\ loop \in [pc : {"top", "recv", "drain", "filter", "close", "gone"},
                   pkt : 0..NPackets, failed : BOOLEAN]
      /\ \A p \in Packets : p \in Nat
      /\ \A p \in Judged : p \in Packets
      /\ \A j \in DOMAIN packets : packets[j] \in Packets
      /\ DOMAIN packets = 1..Len(packets) /\ Len(packets) \in Nat
  BY SizeAssumption, LenProperties DEF Base, TypeOK, Packets, Judged
<1>1. CASE Environment \/ UNCHANGED vars
  BY <1>0, <1>1, QueueKept
     DEF Environment, PeerSends, CancelCall, RelayLoses, RelayDies, vars
<1>2. ASSUME NEW r \in Relays, ReaderStep(r) PROVE QueueInv'
  <2>1. UNCHANGED <<sent, loop, delivered, lost>>
    BY <1>2 DEF ReaderStep, ReaderRecv, ReaderPush, ReaderExited
  <2>2. CASE packets' = packets
    BY <1>0, <2>1, <2>2, QueueKept
  <2>3. CASE packets' # packets
    <3> DEFINE x == reader[r].pkt
               n == Len(packets)
    <3>1. packets' = Append(packets, x) /\ reader[r].pc = "push"
      BY <1>2, <2>3 DEF ReaderStep, ReaderRecv, ReaderPush, Merge, ReaderExited
    <3>2. x \in Packets /\ x <= sent /\ sent < x + MaxLag
      BY <1>0, <3>1 DEF LagInv, Base, HeldInv
    <3>3. DOMAIN packets' = 1..(n + 1) /\ packets'[n + 1] = x
          /\ \A i \in 1..n : packets'[i] = packets[i]
      BY <1>0, <3>1, <3>2, AppendProperties
    <3>4. Judged' = Judged
      BY <2>1 DEF Judged
    <3> HIDE DEF x, n
    <3>5. n = Len(packets)
      BY DEF n
    <3>6. \A p \in Judged : p <= sent'
      BY <2>1 DEF QueueInv
    <3>7. ASSUME NEW j \in DOMAIN packets'
          PROVE  /\ packets'[j] <= sent'
                 /\ \A i \in DOMAIN packets' : i < j => packets'[i] < packets'[j] + MaxLag
                 /\ \A p \in Judged : p < packets'[j] + MaxLag
      <4>1. CASE j = n + 1
        <5>1. \A i \in 1..n : packets'[i] <= sent
          BY <1>0, <3>3, <3>5 DEF QueueInv
        <5>2. \A i \in DOMAIN packets' : i < j => i \in 1..n
          BY <1>0, <3>3, <3>5, <4>1
        <5>3. \A i \in DOMAIN packets' : i < j => packets'[i] < x + MaxLag
          BY <1>0, <3>2, <3>3, <3>5, <5>1, <5>2
        <5>4. \A p \in Judged : p < x + MaxLag
          BY <1>0, <3>2 DEF QueueInv
        <5> QED BY <2>1, <3>2, <3>3, <4>1, <5>3, <5>4
      <4>2. CASE j # n + 1
        <5>1. j \in 1..n
          BY <1>0, <3>3, <3>5, <3>7, <4>2
        <5>2. \A i \in DOMAIN packets' : i < j => i \in 1..n
          BY <1>0, <3>3, <3>5, <5>1
        <5> QED BY <1>0, <2>1, <3>3, <3>5, <5>1, <5>2 DEF QueueInv
      <4> QED BY <4>1, <4>2
    <3>8. ASSUME loop'.pc = "filter"
          PROVE  /\ loop'.pkt \in 1..sent'
                 /\ \A j \in DOMAIN packets' : loop'.pkt < packets'[j] + MaxLag
                 /\ \A p \in Judged : p < loop'.pkt + MaxLag
      <4>1. loop.pc = "filter" /\ loop' = loop /\ loop.pkt \in 1..sent
        BY <2>1, <3>8 DEF QueueInv
      <4>2. \A j \in DOMAIN packets' : loop.pkt < packets'[j] + MaxLag
        <5> SUFFICES ASSUME NEW j \in DOMAIN packets' PROVE loop.pkt < packets'[j] + MaxLag
          OBVIOUS
        <5>1. CASE j = n + 1
          BY <1>0, <3>2, <3>3, <4>1, <5>1
        <5>2. CASE j # n + 1
          BY <1>0, <3>3, <3>5, <4>1, <5>2 DEF QueueInv
        <5> QED BY <5>1, <5>2
      <4> QED BY <2>1, <4>1, <4>2 DEF QueueInv
    <3> QED BY <3>4, <3>6, <3>7, <3>8 DEF QueueInv
  <2> QED BY <2>2, <2>3
<1>3. CASE CloseStep
  <2>1. UNCHANGED <<sent, packets, delivered, lost>> /\ (loop' = loop \/ loop'.pc = "gone")
    BY <1>0, <1>3 DEF CloseStep, CloseSignal, CloseChannel, CloseBegin, CloseReturn
  <2> QED BY <1>0, <2>1, QueueKept
<1>4. CASE LoopTop
  <2>1. UNCHANGED <<sent, packets, delivered, lost>> /\ loop'.pc # "filter"
    BY <1>0, <1>4 DEF LoopTop
  <2> QED BY <1>0, <2>1, QueueKept
<1>5. CASE Recv
  <2>0. UNCHANGED <<sent, delivered, lost>>
    BY <1>5 DEF Recv
  <2>1. CASE TakePacket
    <3>1. /\ packets # <<>> /\ packets' = Tail(packets)
          /\ loop' = [loop EXCEPT !.pc = "filter", !.pkt = Head(packets)]
      BY <2>1 DEF TakePacket
    <3>2. loop'.pkt = packets[1]
      BY <1>0, <3>1, QueueLen
    <3>3. Len(packets') = Len(packets) - 1 /\ Len(packets) >= 1
      BY <1>0, <3>1, QueueLen, EmptySeq
    <3>4. DOMAIN packets' = 1..(Len(packets) - 1)
      BY <1>0, <3>1, <3>3, QueueLen, LenProperties
    <3>5. \A i \in DOMAIN packets' : packets'[i] = packets[i + 1] /\ i + 1 \in DOMAIN packets
      BY <1>0, <3>1, <3>3, <3>4, QueueLen
    <3>6. Judged' = Judged /\ 1 \in DOMAIN packets
      BY <1>0, <2>0, <3>3 DEF Judged
    <3>7. \A j \in DOMAIN packets' :
             /\ packets'[j] <= sent'
             /\ \A i \in DOMAIN packets' : i < j => packets'[i] < packets'[j] + MaxLag
             /\ \A p \in Judged : p < packets'[j] + MaxLag
      BY <1>0, <2>0, <3>4, <3>5 DEF QueueInv
    <3>8. packets[1] \in 1..sent'
      BY <1>0, <2>0, <3>6, SizeAssumption DEF QueueInv, Packets
    <3>9. \A j \in DOMAIN packets' : packets[1] < packets'[j] + MaxLag
      BY <1>0, <3>4, <3>5, <3>6 DEF QueueInv
    <3>10. \A p \in Judged : p < packets[1] + MaxLag /\ p <= sent'
      BY <2>0, <3>6 DEF QueueInv
    <3> QED BY <3>2, <3>6, <3>7, <3>8, <3>9, <3>10 DEF QueueInv
  <2>2. CASE ~TakePacket
    <3>1. packets' = packets /\ loop'.pc # "filter"
      BY <1>0, <1>5, <2>2 DEF Recv, Drain
    <3> QED BY <1>0, <2>0, <3>1, QueueKept
  <2> QED BY <2>1, <2>2
<1>6. CASE Filter
  <2>1. /\ loop.pc = "filter" /\ loop'.pc = "top" /\ UNCHANGED <<sent, packets>>
        /\ loop.pkt \in Packets
    BY <1>0, <1>6 DEF Filter, Base, HeldInv
  <2>2. \A p \in Judged' : p \in Judged \/ p = loop.pkt
    BY <1>6, <2>1 DEF Filter, Judged, Base, TypeOK
  <2> QED BY <1>0, <2>1, <2>2 DEF QueueInv
<1> QED BY <1>1, <1>2, <1>3, <1>4, <1>5, <1>6 DEF Next, LoopStep

-------------------------------------------------------------------------------
(* Arithmetic of slots and sequence numbers *)

\* Division with remainder.
LEMMA DivMod ==
    ASSUME NEW R \in Nat \ {0}, NEW a \in Nat
    PROVE  a = (R * (a \div R)) + (a % R) /\ a % R \in 0..(R - 1) /\ a \div R \in Nat
  OBVIOUS

\* The remainder is the only one there is.
LEMMA ModUnique ==
    ASSUME NEW R \in Nat \ {0}, NEW x \in Nat, NEW m \in 0..(R - 1)
    PROVE  ((R * x) + m) % R = m
<1> DEFINE a == (R * x) + m
           y == a \div R
           n == a % R
<1>1. a \in Nat /\ a = (R * y) + n /\ n \in 0..(R - 1) /\ y \in Nat
  <2>1. a \in Nat
    OBVIOUS
  <2> HIDE DEF a
  <2> QED BY <2>1, DivMod
<1>2. a = (R * x) + m
  OBVIOUS
<1> HIDE DEF a, y, n
<1>3. /\ R * x \in Nat /\ R * (x + 1) = (R * x) + R
      /\ R * y \in Nat /\ R * (y + 1) = (R * y) + R
  BY <1>1
<1>4. ~(x >= y + 1)
  <2> SUFFICES ASSUME x >= y + 1 PROVE FALSE
    OBVIOUS
  <2>1. R * x >= R * (y + 1)
    BY <1>1
  <2> QED BY <1>1, <1>2, <1>3, <2>1
<1>5. ~(y >= x + 1)
  <2> SUFFICES ASSUME y >= x + 1 PROVE FALSE
    OBVIOUS
  <2>1. R * y >= R * (x + 1)
    BY <1>1
  <2> QED BY <1>1, <1>2, <1>3, <2>1
<1>6. x = y
  BY <1>1, <1>4, <1>5
<1>7. n = m
  BY <1>1, <1>2, <1>3, <1>6
<1> QED BY <1>7 DEF n, a

\* Two numbers of one slot are at least a turn of the ring apart.
LEMMA SameSlot ==
    ASSUME NEW R \in Nat \ {0}, NEW a \in Nat, NEW b \in Nat, a % R = b % R, b < a
    PROVE  b + R <= a
<1> DEFINE x == a \div R
           y == b \div R
           m == a % R
<1>1. x \in Nat /\ y \in Nat /\ m \in Nat /\ a = (R * x) + m /\ b = (R * y) + m
  <2>1. a = (R * (a \div R)) + (a % R) /\ a % R \in 0..(R - 1) /\ a \div R \in Nat
    BY DivMod
  <2>2. b = (R * (b \div R)) + (b % R) /\ b \div R \in Nat
    BY DivMod
  <2> QED BY <2>1, <2>2
<1> HIDE DEF x, y, m
<1>2. R * x \in Nat /\ R * y \in Nat /\ R * (y + 1) = (R * y) + R
  BY <1>1
<1>3. R * x > R * y
  BY <1>1, <1>2
<1>4. x >= y + 1
  BY <1>1, <1>3
<1>5. R * x >= R * (y + 1)
  BY <1>1, <1>4
<1> QED BY <1>1, <1>2, <1>5

\* int(seq) % 1024 is the slot of the packet itself: the sequence numbers wrap
\* at a multiple of the ring.
LEMMA SlotOfSeq == ASSUME NEW p \in Nat PROVE SeqNo(p) % Ring = p % Ring
<1> DEFINE k == SeqSpace \div Ring
           q == p \div SeqSpace
           u == p % SeqSpace
           j == u \div Ring
           m == u % Ring
<1>0. Ring \in Nat \ {0} /\ SeqSpace \in Nat \ {0} /\ SeqSpace % Ring = 0
  BY SizeAssumption
<1>1. k \in Nat /\ SeqSpace = Ring * k
  BY <1>0, DivMod
<1>2. u \in Nat /\ q \in Nat /\ p = (SeqSpace * q) + u
  BY <1>0, DivMod
<1>3. m \in 0..(Ring - 1) /\ j \in Nat /\ u = (Ring * j) + m
  <2> HIDE DEF u
  <2> QED BY <1>0, <1>2, DivMod
<1> HIDE DEF k, q, u, j, m
<1>4. p = (Ring * ((k * q) + j)) + m /\ (k * q) + j \in Nat
  BY <1>0, <1>1, <1>2, <1>3
<1> DEFINE z == (k * q) + j
<1> HIDE DEF z
<1>5. ((Ring * z) + m) % Ring = m
  BY <1>0, <1>3, <1>4, ModUnique DEF z
<1> QED BY <1>4, <1>5 DEF z, m, u, SeqNo

-------------------------------------------------------------------------------
(* The replay filter *)

\* Only Filter changes the ring and what came through.
LEMMA RingKept ==
    ASSUME RingInv, UNCHANGED <<ring, delivered, lost>> PROVE RingInv'
  BY DEF RingInv, AtMostOnce, NoFreshDrop, Newest

\* The filter's verdict is right for every copy in the window: the slot holds
\* the newest packet of its kind, and no copy is older by a turn of the ring.
LEMMA FilterRing == ASSUME Base, QueueInv, RingInv, Filter PROVE RingInv'
<1>p. PICK p \in Packets : p = loop.pkt
  BY DEF Filter, Base, HeldInv
<1> DEFINE s == SeqNo(p)
           k == p % Ring
<1>0. Ring \in Nat \ {0} /\ MaxLag \in Nat /\ MaxLag <= Ring /\ NPackets \in Nat
  BY SizeAssumption, WindowAssumption
<1>1. /\ p \in Packets /\ delivered \in [Packets -> Nat] /\ lost \subseteq Packets
      /\ ring \in [Slots -> [seen : BOOLEAN, seq : 0..(SeqSpace - 1)]]
      /\ \A q \in Packets : q \in Nat
  BY DEF Filter, Base, HeldInv, TypeOK, Packets
<1>2. s % Ring = k /\ k \in Slots
  BY <1>0, <1>1, SlotOfSeq, DivMod DEF Slots
<1>3. \A q \in Packets : (delivered[q] > 0 \/ q \in lost) /\ q % Ring = k => q <= p
  <2> SUFFICES ASSUME NEW q \in Packets, delivered[q] > 0 \/ q \in lost, q % Ring = k, p < q
               PROVE  FALSE
    BY <1>1
  <2>1. q < p + MaxLag
    BY <1>p DEF QueueInv, Judged, Filter
  <2>2. p + Ring <= q
    BY <1>0, <1>1, SameSlot
  <2> QED BY <1>0, <1>1, <2>1, <2>2
<1>4. CASE Duplicate(s)
  <2>1. ring[k].seen /\ ring[k].seq = s /\ UNCHANGED <<ring, delivered>>
        /\ lost' = IF delivered[p] = 0 THEN lost \cup {p} ELSE lost
    BY <1>p, <1>2, <1>4 DEF Duplicate, Filter
  <2>2. CASE delivered[p] # 0
    BY <2>1, <2>2, RingKept
  <2>3. CASE delivered[p] = 0
    <3>1. PICK t \in Packets : Newest(t, k) /\ SeqNo(t) = s
      BY <1>2, <2>1 DEF RingInv
    <3>2. t <= p /\ t # p
      BY <1>3, <2>3, <3>1 DEF Newest
    <3>3. t < p /\ SeqNo(t) = SeqNo(p) /\ delivered[t] > 0
      BY <1>1, <3>1, <3>2 DEF Newest
    <3>4. \A q \in Packets : t < q /\ q < p /\ q % Ring = k => delivered[q] = 0
      BY <1>1, <3>1 DEF Newest
    <3>5. NoFreshDrop'
      BY <2>1, <2>3, <3>3, <3>4 DEF NoFreshDrop, RingInv
    <3> QED BY <2>1, <3>5 DEF RingInv, AtMostOnce, Newest
  <2> QED BY <2>2, <2>3
<1>5. CASE ~Duplicate(s)
  <2>1. /\ delivered' = [delivered EXCEPT ![p] = @ + 1] /\ lost' = lost
        /\ ring' = [ring EXCEPT ![k] = [seen |-> TRUE, seq |-> s]]
    BY <1>p, <1>2, <1>5 DEF Filter
  <2>2. delivered[p] = 0
    <3> SUFFICES ASSUME delivered[p] > 0 PROVE FALSE
      BY <1>1
    <3>1. ring[k].seen
      BY <1>1 DEF RingInv
    <3>2. PICK t \in Packets : Newest(t, k) /\ SeqNo(t) = ring[k].seq
      BY <1>2, <3>1 DEF RingInv
    <3>3. t <= p /\ p <= t
      BY <1>1, <1>3, <3>2 DEF Newest
    <3>4. t = p
      BY <1>1, <3>3
    <3> QED BY <1>2, <1>5, <3>1, <3>2, <3>4 DEF Duplicate
  <2>3. delivered'[p] = 1 /\ \A q \in Packets \ {p} : delivered'[q] = delivered[q]
    BY <1>1, <2>1, <2>2
  <2>4. ring'[k] = [seen |-> TRUE, seq |-> s] /\ \A c \in Slots \ {k} : ring'[c] = ring[c]
    BY <1>1, <1>2, <2>1
  <2>5. AtMostOnce'
    BY <2>3 DEF AtMostOnce, RingInv
  <2>6. \A q \in Packets : delivered'[q] > 0 => ring'[q % Ring].seen
    <3> SUFFICES ASSUME NEW q \in Packets, delivered'[q] > 0 PROVE ring'[q % Ring].seen
      OBVIOUS
    <3>1. CASE q % Ring = k
      BY <2>4, <3>1
    <3>2. CASE q % Ring # k
      <4>1. q % Ring \in Slots /\ q # p
        BY <1>0, <1>1, <3>2, DivMod DEF Slots
      <4> QED BY <2>3, <2>4, <3>2, <4>1 DEF RingInv
    <3> QED BY <3>1, <3>2
  <2>7. \A c \in Slots : ring'[c].seen =>
           \E t \in Packets : Newest(t, c)' /\ SeqNo(t) = ring'[c].seq
    <3> SUFFICES ASSUME NEW c \in Slots, ring'[c].seen
                 PROVE  \E t \in Packets : Newest(t, c)' /\ SeqNo(t) = ring'[c].seq
      OBVIOUS
    <3>1. CASE c = k
      <4>1. \A q \in Packets : q % Ring = k /\ delivered'[q] > 0 => q <= p
        BY <1>1, <1>3, <2>3
      <4>2. Newest(p, k)'
        BY <2>3, <4>1 DEF Newest
      <4> QED BY <1>1, <2>4, <3>1, <4>2
    <3>2. CASE c # k
      <4>1. PICK t \in Packets : Newest(t, c) /\ SeqNo(t) = ring[c].seq
        BY <2>4, <3>2 DEF RingInv
      <4>2. Newest(t, c)'
        BY <2>3, <3>2, <4>1 DEF Newest
      <4> QED BY <2>4, <3>2, <4>1, <4>2
    <3> QED BY <3>1, <3>2
  <2>8. NoFreshDrop'
    <3> SUFFICES ASSUME NEW l \in lost
                 PROVE  \E t \in Packets :
                           /\ t < l /\ SeqNo(t) = SeqNo(l) /\ delivered'[t] > 0
                           /\ \A q \in Packets :
                                 t < q /\ q < l /\ q % Ring = l % Ring => delivered'[q] = 0
      BY <2>1 DEF NoFreshDrop
    <3>1. PICK t \in Packets :
             /\ t < l /\ SeqNo(t) = SeqNo(l) /\ delivered[t] > 0
             /\ \A q \in Packets : t < q /\ q < l /\ q % Ring = l % Ring => delivered[q] = 0
      BY DEF RingInv, NoFreshDrop
    <3>2. delivered'[t] > 0
      BY <2>2, <2>3, <3>1
    <3>3. ~(p < l /\ p % Ring = l % Ring)
      BY <1>1, <1>3
    <3> QED BY <2>3, <3>1, <3>2, <3>3
  <2> QED BY <2>5, <2>6, <2>7, <2>8 DEF RingInv
<1> QED BY <1>4, <1>5

\* Every step keeps what the slots of the replay filter say about the packets delivered.
LEMMA NextRing == Base /\ QueueInv /\ RingInv /\ [Next]_vars => RingInv'
<1> SUFFICES ASSUME Base, QueueInv, RingInv, [Next]_vars PROVE RingInv'
  OBVIOUS
<1>1. CASE Filter
  BY <1>1, FilterRing
<1>2. CASE ~Filter
  <2>1. UNCHANGED <<ring, delivered, lost>>
    BY <1>2 DEF Next, Environment, PeerSends, CancelCall, RelayLoses, RelayDies, CloseStep,
       CloseSignal, CloseChannel, CloseBegin, CloseReturn, LoopStep, LoopTop, Recv, ReaderStep,
       ReaderRecv, ReaderPush, ReaderExited, loopVars, vars
  <2> QED BY <2>1, RingKept
<1> QED BY <1>1, <1>2

-------------------------------------------------------------------------------
(* The theorems *)

\* The invariant holds before the first packet.
LEMMA InitIInv == Init => IInv
<1> SUFFICES ASSUME Init PROVE IInv
  OBVIOUS
<1>1. Base /\ Judged = {} /\ DOMAIN packets = {} /\ MaxLag \in Nat \ {0}
  BY InitBase, SizeAssumption DEF Init, Judged
<1>2. DrainInv /\ LagInv
  BY <1>1 DEF Init, DrainInv, DrainedBeforeClosed, Done, LagInv
<1>3. QueueInv /\ RingInv
  BY <1>1 DEF Init, QueueInv, RingInv, AtMostOnce, NoFreshDrop
<1> QED BY <1>1, <1>2, <1>3 DEF IInv

\* The inductive invariant holds in every state of every execution, for any
\* relays, backlog, ring and number of packets.
THEOREM Invariance == Spec => []IInv
<1>1. IInv /\ [Next]_vars => IInv'
  BY NextBase, NextDrain, NextLag, NextQueue, NextRing DEF IInv
<1> QED BY InitIInv, <1>1, PTL DEF Spec

\* Every variable keeps its type: f.live never goes below zero, the queue never
\* exceeds fanoutBacklog.
THEOREM TypeCorrect == Spec => []TypeOK
<1>1. IInv => TypeOK
  BY DEF IInv, Base
<1> QED BY Invariance, <1>1, PTL

\* rtpReplayFilter lets no packet through twice, over however many relays and
\* through however many wraps of the sequence number.
THEOREM FilterOnce == Spec => []AtMostOnce
<1>1. IInv => AtMostOnce
  BY DEF IInv, RingInv
<1> QED BY Invariance, <1>1, PTL

\* rtpReplayFilter drops a packet that is new only when its number is that of the
\* last packet of the slot to come through, whole turns of the numbers ago.
THEOREM FilterKeepsFresh == Spec => []NoFreshDrop
<1>1. IInv => NoFreshDrop
  BY DEF IInv, RingInv
<1> QED BY Invariance, <1>1, PTL

\* A reader that closes the fanout from readerExited leaves no relay behind.
THEOREM ClosedByLast == Spec => []NotClosedEarly
<1>1. IInv => NotClosedEarly
  BY DEF IInv, Base, CloseInv
<1> QED BY Invariance, <1>1, PTL

\* Recv reports closure only when it has handed out all that was merged before
\* close(f.done).
THEOREM DrainedFirst == Spec => []DrainedBeforeClosed
<1>1. IInv => DrainedBeforeClosed
  BY DEF IInv, DrainInv
<1> QED BY Invariance, <1>1, PTL
===============================================================================
