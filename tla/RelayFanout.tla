------------------------------ MODULE RelayFanout ------------------------------
(***************************************************************************)
(* The merged media channel of a call: relayFanout and rtpReplayFilter in  *)
(* call_engine_relay_fanout.go, with the receive loop of runMedia that is  *)
(* its only consumer.                                                      *)
(*                                                                         *)
(* The peer sends packets 1, 2, ...; every relay forwards its own copies   *)
(* in order and may lose some or go down.  One reader per relay merges the *)
(* copies into f.packets; the loop takes them out and drops replays.       *)
(***************************************************************************)
EXTENDS Integers, Sequences, FiniteSets

CONSTANTS Relays,     \* the relays connectAndAllocateAll reached
          Backlog,    \* fanoutBacklog
          Ring,       \* slots of a replayRing
          SeqSpace,   \* number of RTP sequence numbers (2^16)
          MaxLag,     \* how many packets the slowest copy may be behind
          NPackets,   \* bound: packets the peer sends
          Budgets     \* bound: how much of each kind the environment does

ASSUME RelaysAssumption ==
    IsFiniteSet(Relays) /\ Relays # {} /\ "loop" \notin Relays /\ "none" \notin Relays
ASSUME SizeAssumption ==
    /\ {Backlog, Ring, SeqSpace, MaxLag, NPackets} \subseteq Nat \ {0}
    /\ SeqSpace % Ring = 0
Inputs == {"send", "lose", "die", "cancel"}
ASSUME BudgetAssumption == Budgets \subseteq [Inputs -> Nat]

\* Copies further apart than the ring is long are beyond the filter.
ASSUME WindowAssumption == MaxLag <= Ring

VARIABLES sent,       \* packets the peer has sent
          next,       \* next packet each relay forwards
          up,         \* relays whose DataChannel is open
          reader,     \* the readLoop goroutines
          packets,    \* f.packets
          live,       \* f.live
          once,       \* progress of the body of closeOnce
          closer,     \* who runs the body of closeOnce
          loop,       \* the receive loop of runMedia
          cancelled,  \* its context is done
          ring,       \* the replayRing of the peer's stream
          delivered,  \* how often each packet passed the filter
          lost,       \* packets the filter dropped though they were new
          owed,       \* packets merged before close(f.done), not yet taken
          left        \* what the environment may still do

vars == <<sent, next, up, reader, packets, live, once, closer, loop, cancelled,
          ring, delivered, lost, owed, left>>

Packets == 1..NPackets
Slots == 0..(Ring - 1)
Closers == Relays \cup {"loop"}
SeqNo(p) == p % SeqSpace

\* close(f.done) has happened.
Done == once \in {"signalled", "complete"}

TypeOK ==
    /\ sent \in 0..NPackets
    /\ next \in [Relays -> 1..(NPackets + 1)]
    /\ up \subseteq Relays
    /\ reader \in [Relays -> [pc : {"recv", "push", "exit", "close", "gone"},
                              pkt : 0..NPackets]]
    /\ packets \in Seq(Packets) /\ Len(packets) <= Backlog
    /\ live \in 0..Cardinality(Relays)
    /\ once \in {"new", "marked", "signalled", "complete"}
    /\ closer \in Closers \cup {"none"}
    /\ loop \in [pc : {"top", "recv", "drain", "filter", "close", "gone"},
                 pkt : 0..NPackets, failed : BOOLEAN]
    /\ cancelled \in BOOLEAN
    /\ ring \in [Slots -> [seen : BOOLEAN, seq : 0..(SeqSpace - 1)]]
    /\ delivered \in [Packets -> Nat]
    /\ lost \subseteq Packets
    /\ owed \in 0..Backlog

\* newRelayFanout, with the channels connected.
Init ==
    /\ sent = 0 /\ next = [r \in Relays |-> 1] /\ up = Relays
    /\ reader = [r \in Relays |-> [pc |-> "recv", pkt |-> 0]]
    /\ packets = <<>> /\ live = Cardinality(Relays)
    /\ once = "new" /\ closer = "none"
    /\ loop = [pc |-> "top", pkt |-> 0, failed |-> FALSE]
    /\ cancelled = FALSE
    /\ ring = [s \in Slots |-> [seen |-> FALSE, seq |-> 0]]
    /\ delivered = [p \in Packets |-> 0] /\ lost = {} /\ owed = 0
    /\ left \in Budgets

fanVars == <<packets, live, once, closer, owed>>
loopVars == <<loop, ring, delivered, lost>>
netVars == <<sent, next, up>>
-------------------------------------------------------------------------------
(* Peer, relays, and the owner of the call *)

Spend(k) == left[k] > 0 /\ left' = [left EXCEPT ![k] = @ - 1]

\* The oldest packet of which relay r or its reader still holds a copy.
Oldest(r) == IF reader[r].pc = "push" THEN reader[r].pkt ELSE next[r]

\* The relays stay within the reorder window the filter is made for.
PeerSends ==
    /\ sent < NPackets /\ Spend("send")
    /\ \A r \in up : sent + 1 - Oldest(r) < MaxLag
    /\ \A r \in Relays : reader[r].pc = "push" => sent + 1 - reader[r].pkt < MaxLag
    /\ sent' = sent + 1
    /\ UNCHANGED <<next, up, reader, cancelled>> /\ UNCHANGED <<fanVars, loopVars>>

RelayLoses(r) ==
    /\ r \in up /\ next[r] <= sent /\ Spend("lose")
    /\ next' = [next EXCEPT ![r] = @ + 1]
    /\ UNCHANGED <<sent, up, reader, cancelled>> /\ UNCHANGED <<fanVars, loopVars>>

RelayDies(r) ==
    /\ r \in up /\ Spend("die")
    /\ up' = up \ {r}
    /\ UNCHANGED <<sent, next, reader, cancelled>> /\ UNCHANGED <<fanVars, loopVars>>

\* finishCall cancels the context.
CancelCall ==
    /\ ~cancelled /\ cancelled' = TRUE /\ Spend("cancel")
    /\ UNCHANGED <<netVars, reader, fanVars, loopVars>>

-------------------------------------------------------------------------------
(* readLoop *)

\* ch.Recv returns a packet or, once the channel is closed, an error.
ReaderRecv(r) ==
    /\ reader[r].pc = "recv"
    /\ \/ /\ r \in up /\ next[r] <= sent
          /\ reader' = [reader EXCEPT ![r] = [pc |-> "push", pkt |-> next[r]]]
          /\ next' = [next EXCEPT ![r] = @ + 1]
       \/ /\ r \notin up
          /\ reader' = [reader EXCEPT ![r].pc = "exit"]
          /\ UNCHANGED next
    /\ UNCHANGED <<sent, up, cancelled, left>> /\ UNCHANGED <<fanVars, loopVars>>

\* The select: merge if there is room, leave if done, drop if neither.  When
\* both cases are ready either may be taken.
Merge(r) ==
    \/ /\ Len(packets) < Backlog
       /\ packets' = Append(packets, reader[r].pkt)
       /\ reader' = [reader EXCEPT ![r].pc = "recv"]
    \/ /\ Done
       /\ reader' = [reader EXCEPT ![r].pc = "gone"]
       /\ UNCHANGED packets
    \/ /\ Len(packets) = Backlog /\ ~Done
       /\ reader' = [reader EXCEPT ![r].pc = "recv"]
       /\ UNCHANGED packets

ReaderPush(r) ==
    /\ reader[r].pc = "push"
    /\ Merge(r)
    /\ UNCHANGED <<netVars, live, once, closer, owed, cancelled, left>> /\ UNCHANGED loopVars

\* Mutant: the count is tested before it is decremented.
LastReaderTestsFirst(n) == n = 0
\* Mutant: off by one.
LastReaderEarly(n) == n <= 2

\* f.live--; last := f.live == 0, n being the value before.
LastReader(n) == n - 1 = 0

ReaderExited(r) ==
    /\ reader[r].pc = "exit"
    /\ live' = live - 1
    /\ reader' = [reader EXCEPT ![r].pc = IF LastReader(live) THEN "close" ELSE "gone"]
    /\ UNCHANGED <<netVars, packets, once, closer, owed, cancelled, left>> /\ UNCHANGED loopVars

-------------------------------------------------------------------------------
(* Close *)

Calls(a) == IF a = "loop" THEN loop.pc = "close" ELSE reader[a].pc = "close"

\* The first caller runs the body of closeOnce: f.closed = true ...
CloseBegin(a) ==
    /\ Calls(a) /\ once = "new"
    /\ once' = "marked" /\ closer' = a
    /\ UNCHANGED <<netVars, reader, packets, live, owed, cancelled, left>> /\ UNCHANGED loopVars

\* ... close(f.done) ...
CloseSignal ==
    /\ once = "marked"
    /\ once' = "signalled" /\ owed' = Len(packets)
    /\ UNCHANGED <<netVars, reader, packets, live, closer, cancelled, left>> /\ UNCHANGED loopVars

\* Mutant: the channels are left to the garbage collector.
CloseChannelLeaves ==
    /\ once = "signalled"
    /\ once' = "complete"
    /\ UNCHANGED <<sent, next, up, reader, packets, live, closer, owed, cancelled, left>>
    /\ UNCHANGED loopVars

\* ... and every channel in turn.
CloseChannel ==
    /\ once = "signalled"
    /\ IF up = {} THEN once' = "complete" /\ UNCHANGED up
                  ELSE \E r \in up : up' = up \ {r} /\ UNCHANGED once
    /\ UNCHANGED <<sent, next, reader, packets, live, closer, owed, cancelled, left>>
    /\ UNCHANGED loopVars

\* Other callers wait for it.
CloseReturn(a) ==
    /\ Calls(a) /\ once = "complete"
    /\ IF a = "loop"
         THEN loop' = [loop EXCEPT !.pc = "gone"] /\ UNCHANGED reader
         ELSE reader' = [reader EXCEPT ![a].pc = "gone"] /\ UNCHANGED loop
    /\ UNCHANGED <<netVars, fanVars, cancelled, left, ring, delivered, lost>>

-------------------------------------------------------------------------------
(* The receive loop *)

\* ctx.Err() is looked at here and nowhere else.
LoopTop ==
    /\ loop.pc = "top"
    /\ loop' = [loop EXCEPT !.pc = IF cancelled THEN "close" ELSE "recv"]
    /\ UNCHANGED <<netVars, reader, fanVars, cancelled, left, ring, delivered, lost>>

TakePacket ==
    /\ packets # <<>>
    /\ packets' = Tail(packets)
    /\ owed' = IF owed > 0 THEN owed - 1 ELSE 0
    /\ loop' = [loop EXCEPT !.pc = "filter", !.pkt = Head(packets)]

\* Mutant: closure is reported as soon as done is seen.
DrainNothing ==
    /\ loop' = [loop EXCEPT !.pc = "close", !.failed = TRUE]
    /\ UNCHANGED <<packets, owed>>

\* The inner select of Recv.
Drain ==
    \/ TakePacket
    \/ /\ packets = <<>>
       /\ loop' = [loop EXCEPT !.pc = "close", !.failed = TRUE]
       /\ UNCHANGED <<packets, owed>>

\* f.Recv: a packet, or done; blocked if there is neither.
Recv ==
    /\ \/ loop.pc = "recv" /\ TakePacket
       \/ /\ loop.pc = "recv" /\ Done
          /\ loop' = [loop EXCEPT !.pc = "drain"]
          /\ UNCHANGED <<packets, owed>>
       \/ loop.pc = "drain" /\ Drain
    /\ UNCHANGED <<netVars, reader, live, once, closer, cancelled, left, ring, delivered, lost>>

\* Mutant: the zero value of the ring is taken for a recorded number.
DuplicateUnprimed(s) == ring[s % Ring].seq = s
\* Mutant: nothing is a duplicate.
DuplicateNever(s) == FALSE

\* rtpReplayFilter.Duplicate: what it reports ...
Duplicate(s) == ring[s % Ring].seen /\ ring[s % Ring].seq = s

\* ... and the loop's use of it; a packet that is none is recorded.
Filter ==
    /\ loop.pc = "filter"
    /\ LET p == loop.pkt
           s == SeqNo(p)
       IN  IF Duplicate(s)
             THEN /\ lost' = IF delivered[p] = 0 THEN lost \cup {p} ELSE lost
                  /\ UNCHANGED <<ring, delivered>>
             ELSE /\ ring' = [ring EXCEPT ![s % Ring] = [seen |-> TRUE, seq |-> s]]
                  /\ delivered' = [delivered EXCEPT ![p] = @ + 1]
                  /\ UNCHANGED lost
    /\ loop' = [loop EXCEPT !.pc = "top"]
    /\ UNCHANGED <<netVars, reader, fanVars, cancelled, left>>

-------------------------------------------------------------------------------
Environment == PeerSends \/ CancelCall \/ \E r \in Relays : RelayLoses(r) \/ RelayDies(r)

ReaderStep(r) == ReaderRecv(r) \/ ReaderPush(r) \/ ReaderExited(r)

CloseStep == CloseSignal \/ CloseChannel \/ \E a \in Closers : CloseBegin(a) \/ CloseReturn(a)

LoopStep == LoopTop \/ Recv \/ Filter

Next == Environment \/ CloseStep \/ LoopStep \/ \E r \in Relays : ReaderStep(r)

\* Goroutines that can run do; the peer and the relays promise nothing.
Fairness == WF_vars(CloseStep) /\ WF_vars(LoopStep) /\ \A r \in Relays : WF_vars(ReaderStep(r))

Spec == Init /\ [][Next]_vars /\ Fairness
-------------------------------------------------------------------------------
\* Copies of one packet that come over several relays, in any order the window
\* allows, reach the playout buffer once (rtpReplayFilter).
AtMostOnce == \A p \in Packets : delivered[p] <= 1

\* The filter takes a new packet for a replay only if an earlier one of the same
\* number came through, whole turns of the sequence numbers before, and since
\* then no other packet of the slot did.
NoFreshDrop ==
    \A p \in lost : \E t \in Packets :
       /\ t < p /\ SeqNo(t) = SeqNo(p) /\ delivered[t] > 0
       /\ \A q \in Packets : t < q /\ q < p /\ q % Ring = p % Ring => delivered[q] = 0

\* readerExited closes the fanout only when no relay is left.
NotClosedEarly == closer \in Relays => up = {}

\* Recv: "Drain anything already merged before reporting closure".
DrainedBeforeClosed == loop.failed => owed = 0

\* "so Recv unblocks with an error instead of waiting on relays that are all gone".
RecvUnblocks == up = {} ~> loop.pc = "gone"

\* When the loop is gone its readers go too: Close leaks no goroutine.
ReadersGo == loop.pc = "gone" ~> \A r \in Relays : reader[r].pc = "gone"

===============================================================================
