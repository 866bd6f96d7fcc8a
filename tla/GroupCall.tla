------------------------------- MODULE GroupCall -------------------------------
(***************************************************************************)
(* The group calls under one call id (wa-core/call_engine_group_control.go,*)
(* call_engine_group_api.go, and the start of runMedia in                  *)
(* call_engine_media.go): rosters and key epochs on their way from the     *)
(* stanzas to the media receivers, and the waiting room of a call link.    *)
(*                                                                         *)
(* Each group offer and each join makes a new Call handle, numbered from 1,*)
(* also when the id is live (its entry is kept) or was and has ended (a new*)
(* entry is made, while threads and media of the old one may go on; they   *)
(* look the id up again).  m is the entry, call its newest handle; what is *)
(* written to an older handle is left out.  Media goroutine n and its      *)
(* receivers are md[n] and r[n], n the handle they were started with.      *)
(*                                                                         *)
(* Threads are those of CallEngine: "raw" the socket reader, "queue" the   *)
(* handler queue, Apps the integrator's goroutines.  A handler is cut      *)
(* where it releases engine.mu, r.mu or Call.mu.                           *)
(***************************************************************************)
EXTENDS GroupReceivers

CONSTANTS Apps,       \* goroutines of the integrator
          OwnKey,     \* the key this client draws when asked for a new epoch
          Updates,    \* the rosters the server may send
          Attempts,   \* groupRegistryInstallMaxAttempts
          MaxCalls,   \* bound: handles made for the id
          Inputs,     \* kinds of stanzas and user operations
          Budgets     \* how many of each kind a behaviour may have

Threads == {"raw", "queue"} \cup Apps
Calls == 1..MaxCalls

\* A roster: relay: it carries relay endpoints; rekey: the server asks this
\* client for a new epoch; bad: the receivers refuse it.
UpdateType == [tx : Txs, relay : BOOLEAN, rekey : BOOLEAN, bad : BOOLEAN]

ASSUME ThreadAssumption == {"raw", "queue"} \cap Apps = {}
ASSUME GroupAssumption ==
    Updates \subseteq UpdateType /\ OwnKey \in Keys /\ Attempts \in Nat \ {0}
    /\ MaxCalls \in Nat \ {0}
ASSUME GroupBudgetAssumption == Budgets \subseteq [Inputs -> Nat]

VARIABLES m,        \* the engineCall; call: its newest handle, media and recv:
                    \* the goroutine started and the receivers published (0: none)
          call,     \* that handle
          r,        \* the receivers of each media goroutine
          md,       \* the media goroutines
          heart,    \* the waiting-room heartbeat runs
          th,       \* where each thread is, with its local variables
          hist,     \* the races that have happened (see the properties)
          left      \* inputs not used yet

vars == <<m, call, r, md, heart, th, hist, left>>

NoUpdate == [tx |-> 0, relay |-> FALSE, rekey |-> FALSE, bad |-> FALSE]
NoMedia == [st |-> "none", tx |-> 0, bad |-> FALSE, epoch |-> 0, key |-> NoKey,
            tries |-> 0, cancelled |-> FALSE]

\* h, recv, media: the handle, receivers and goroutine a handler has in hand.
Idle == [pc |-> "idle", u |-> NoUpdate, key |-> NoKey, h |-> 0, recv |-> 0, media |-> 0,
         then |-> "idle"]

TypeOK ==
    /\ m \in [reg : BOOLEAN, group : BOOLEAN, direct : BOOLEAN, incoming : BOOLEAN,
              update : Updates \cup {NoUpdate}, epoch : Txs \cup {0},
              key : Keys \cup {NoKey}, call : 0..MaxCalls, media : 0..MaxCalls,
              recv : 0..MaxCalls]
    /\ call \in [phase : {"none", "calling", "ringing", "room", "connecting", "ended"},
                 groupTx : Txs \cup {0}, inRoom : BOOLEAN, roomTx : Txs \cup {0}]
    /\ r \in [Calls -> ReceiversType]
    /\ md \in [Calls -> [st : {"none", "pending", "connect", "mode", "snap", "fill",
                               "publish", "direct", "running", "early", "failed"},
                         tx : Txs \cup {0}, bad : BOOLEAN, epoch : Txs \cup {0},
                         key : Keys \cup {NoKey}, tries : 0..Attempts, cancelled : BOOLEAN]]
    /\ heart \in BOOLEAN
    /\ th \in [Threads -> [pc : {"idle", "offer", "update", "apply", "install", "admit",
                                 "admitted", "state", "start", "launch", "distribute",
                                 "epoch", "applyEpoch", "installEpoch", "heart", "room",
                                 "inRoom", "answered", "clear", "end"},
                           u : UpdateType \cup [tx : Txs \cup {0}, relay : {FALSE},
                                                rekey : {FALSE}, bad : {FALSE}],
                           key : Keys \cup {NoKey}, h : 0..MaxCalls, recv : 0..MaxCalls,
                           media : 0..MaxCalls, then : {"idle", "distribute"}]]
    /\ hist \subseteq {"roster", "epoch", "key", "handle"}
    /\ left \in [Inputs -> Nat]
    /\ m.recv # 0 => r[m.recv].st = "made" /\ md[m.recv].st = "running"

NoEntry == [reg |-> FALSE, group |-> FALSE, direct |-> FALSE, incoming |-> FALSE,
            update |-> NoUpdate, epoch |-> 0, key |-> NoKey, call |-> 0, media |-> 0,
            recv |-> 0]

Init ==
    /\ m = NoEntry
    /\ call = [phase |-> "none", groupTx |-> 0, inRoom |-> FALSE, roomTx |-> 0]
    /\ r = [n \in Calls |-> Unmade]
    /\ md = [n \in Calls |-> NoMedia]
    /\ heart = FALSE
    /\ th = [t \in Threads |-> Idle]
    /\ hist = {}
    /\ left \in Budgets
-------------------------------------------------------------------------------
Spend(k) == left[k] > 0 /\ left' = [left EXCEPT ![k] = @ - 1]
Goto(t, x) == th' = [th EXCEPT ![t] = x]
At(t, pc) == [th[t] EXCEPT !.pc = pc]
Return(t) == IF th[t].then = "idle" THEN Idle
             ELSE [th[t] EXCEPT !.pc = th[t].then, !.then = "idle", !.h = 0]

\* A handler that goes on with applyGroupUpdate(u).
Updating(u, then) == [Idle EXCEPT !.pc = "update", !.u = u, !.then = then]

\* A write to the handle that thread t holds.
Write(t, c) == call' = IF th[t].h = m.call THEN c ELSE call

\* setPhase.
Phase(t, p) == Write(t, [call EXCEPT !.phase = p])

\* maybeStartMedia comes next.
Starting(t) == [th[t] EXCEPT !.pc = "start", !.h = 0, !.recv = 0]
-------------------------------------------------------------------------------
(* How a call comes to be *)

\* entry(id), then m.call = call: an entry that is live is kept with its roster,
\* epoch and media, and the new handle has not seen the roster.
Register(group, incoming, phase) ==
    /\ m.call < MaxCalls
    /\ m' = IF m.reg
              THEN [m EXCEPT !.group = group, !.incoming = incoming, !.call = @ + 1]
              ELSE [NoEntry EXCEPT !.reg = TRUE, !.group = group, !.direct = ~group,
                                   !.incoming = incoming, !.call = m.call + 1]
    /\ call' = [phase |-> phase, groupTx |-> 0, inRoom |-> (phase = "room"), roomTx |-> 0]
    /\ hist' = IF m.reg /\ m.update.tx > 0 THEN hist \cup {"handle"} ELSE hist \ {"handle"}
    /\ UNCHANGED <<r, md, heart>>

\* placeGroupCall up to the unlock.  It draws a new id.
PlaceGroupCall(t) ==
    /\ th[t] = Idle /\ m.call = 0 /\ Spend("place")
    /\ Register(TRUE, FALSE, "calling")
    /\ Goto(t, At(t, "offer"))

\* joinPublicCallLink: the answer says either that the call waits for admission
\* or carries the first roster (ParseCallLinkJoinAck).
JoinPublicCallLink(t) ==
    /\ th[t] = Idle /\ Spend("join")
    /\ \/ Register(TRUE, FALSE, "room") /\ Goto(t, At(t, "heart"))
       \/ /\ Register(TRUE, FALSE, "connecting")
          /\ \E u \in Updates : Goto(t, Updating(u, "idle"))

\* onGroupOffer, at any time: group offers are handled ahead of onOffer's filters
\* for ended and stale calls.
OnGroupOffer ==
    /\ th["queue"] = Idle /\ Spend("offer")
    /\ Register(TRUE, TRUE, "ringing")
    /\ \E u \in Updates : Goto("queue", Updating(u, "idle"))

\* A one-to-one call whose key and relay are known (module CallEngine): a
\* roster may turn it into a group call.
PlaceCall(t) ==
    /\ th[t] = Idle /\ m.call = 0 /\ Spend("direct")
    /\ Register(FALSE, FALSE, "calling")
    /\ Goto(t, At(t, "start"))
-------------------------------------------------------------------------------
(* applyGroupUpdate *)

\* group_update; a roster in the ack of a group offer is handled alike but asks
\* for no epoch.
GroupUpdateStanza(u) ==
    /\ th["raw"] = Idle /\ Spend("update")
    /\ Goto("raw", Updating(u, IF u.rekey THEN "distribute" ELSE "idle"))
    /\ UNCHANGED <<m, call, r, md, heart, hist>>

\* Mutant: a roster is taken however old it is.
NewRosterAlways(u) == m.reg

NewRoster(u) == m.reg /\ u.tx > m.update.tx

\* The first look: unknown calls and old rosters are dropped.
UpdateLooksUp(t) ==
    /\ th[t].pc = "update"
    /\ Goto(t, IF ~NewRoster(th[t].u) THEN Idle
               ELSE [th[t] EXCEPT !.pc = IF m.recv # 0 THEN "apply" ELSE "install",
                                  !.recv = m.recv])
    /\ UNCHANGED <<m, call, r, md, heart, hist, left>>

\* The receivers take the roster or refuse it; cleared ones, whose call key is
\* gone, may also fail to make a receiver.
UpdateReceivers(t) ==
    /\ th[t].pc = "apply"
    /\ LET n == th[t].recv
           x == ApplyGroupUpdate(r[n], th[t].u.tx, th[t].u.bad)
       IN  \/ /\ r' = [r EXCEPT ![n] = x.recv]
              /\ Goto(t, IF x.err THEN Idle ELSE At(t, "install"))
           \/ r[n].st = "cleared" /\ Goto(t, Idle) /\ UNCHANGED r
    /\ UNCHANGED <<m, call, md, heart, hist, left>>

\* The second look installs the roster; the heartbeat of the waiting room is
\* taken out with it and stopped.
UpdateInstalls(t) ==
    /\ th[t].pc = "install"
    /\ IF NewRoster(th[t].u)
         THEN /\ m' = [m EXCEPT !.group = TRUE, !.update = th[t].u]
              /\ heart' = FALSE
              /\ hist' = hist \ {"handle"}
              /\ Goto(t, [th[t] EXCEPT !.pc = "admit", !.h = m.call, !.recv = 0])
              /\ UNCHANGED r
         ELSE /\ r' = IF ~m.reg /\ th[t].recv # 0 THEN [r EXCEPT ![th[t].recv] = Clear(@)] ELSE r
              /\ Goto(t, Idle)
              /\ UNCHANGED <<m, heart, hist>>
    /\ UNCHANGED <<call, md, left>>

\* State() and, in a critical section of its own, setPhase.
AdmitReadsPhase(t) ==
    /\ th[t].pc = "admit"
    /\ Goto(t, At(t, IF th[t].h = m.call /\ call.phase = "room" THEN "admitted" ELSE "state"))
    /\ UNCHANGED <<m, call, r, md, heart, hist, left>>

\* setWaitingRoomState: a state is dropped unless its transaction is newer than
\* the one shown, once that is not zero.
SetWaitingRoom(c, tx, inRoom) ==
    IF c.roomTx # 0 /\ tx <= c.roomTx THEN c
    ELSE [c EXCEPT !.roomTx = tx, !.inRoom = inRoom]

\* The waiting-room state is written back under the transaction id it was read
\* with.
AdmitSetsPhase(t) ==
    /\ th[t].pc = "admitted"
    /\ Write(t, SetWaitingRoom([call EXCEPT !.phase = "connecting"], call.roomTx, FALSE))
    /\ Goto(t, At(t, "state"))
    /\ UNCHANGED <<m, r, md, heart, hist, left>>

\* Mutant: the first thread to come wins.
SetGroupStateFirst(t) ==
    /\ th[t].pc = "state"
    /\ Write(t, [call EXCEPT !.groupTx = IF @ = 0 THEN th[t].u.tx ELSE @])
    /\ Goto(t, Starting(t))
    /\ UNCHANGED <<m, r, md, heart, hist, left>>

\* setGroupState on the handle.
SetGroupState(t) ==
    /\ th[t].pc = "state"
    /\ Write(t, [call EXCEPT !.groupTx = IF th[t].u.tx > @ THEN th[t].u.tx ELSE @])
    /\ Goto(t, Starting(t))
    /\ UNCHANGED <<m, r, md, heart, hist, left>>
-------------------------------------------------------------------------------
(* Key epochs *)

\* distributeRequestedGroupEpoch: without a recipient, or when an encryption
\* fails, no epoch is made; failed transmissions do not stop it.
Distribute(t) ==
    /\ th[t].pc = "distribute"
    /\ \/ Goto(t, [th[t] EXCEPT !.pc = "epoch", !.key = OwnKey])
       \/ Goto(t, Idle)
    /\ UNCHANGED <<m, call, r, md, heart, hist, left>>

\* enc_rekey, decrypted.
EncRekeyStanza(tx, k) ==
    /\ th["raw"] = Idle /\ Spend("epoch")
    /\ Goto("raw", [Idle EXCEPT !.pc = "epoch", !.u = [NoUpdate EXCEPT !.tx = tx], !.key = k])
    /\ UNCHANGED <<m, call, r, md, heart, hist>>

\* installGroupEpoch: old, known and conflicting epochs are dropped.
NewEpoch(tx) == m.reg /\ m.group /\ tx > m.epoch

EpochLooksUp(t) ==
    /\ th[t].pc = "epoch"
    /\ Goto(t, IF ~NewEpoch(th[t].u.tx) THEN Idle
               ELSE [th[t] EXCEPT !.pc = IF m.recv # 0 THEN "applyEpoch" ELSE "installEpoch",
                                  !.recv = m.recv])
    /\ UNCHANGED <<m, call, r, md, heart, hist, left>>

EpochReceivers(t) ==
    /\ th[t].pc = "applyEpoch"
    /\ LET n == th[t].recv
           x == ApplyGroupRawEpoch(r[n], th[t].u.tx, th[t].key)
       IN  /\ r' = [r EXCEPT ![n] = x.recv]
           /\ Goto(t, IF x.err THEN Idle ELSE At(t, "installEpoch"))
           /\ hist' = IF r[n].st = "cleared" THEN hist \cup {"key"} ELSE hist
    /\ UNCHANGED <<m, call, md, heart, left>>

\* Mutant: the key is stored and media is left to the next roster.
EpochInstallsOnly(t) ==
    /\ th[t].pc = "installEpoch"
    /\ IF NewEpoch(th[t].u.tx)
         THEN m' = [m EXCEPT !.epoch = th[t].u.tx, !.key = th[t].key]
         ELSE UNCHANGED m
    /\ Goto(t, Idle)
    /\ UNCHANGED <<call, r, md, heart, hist, left>>

EpochInstalls(t) ==
    /\ th[t].pc = "installEpoch"
    /\ IF NewEpoch(th[t].u.tx)
         THEN /\ m' = [m EXCEPT !.epoch = th[t].u.tx, !.key = th[t].key]
              /\ Goto(t, Starting(t))
         ELSE UNCHANGED m /\ Goto(t, Idle)
    /\ UNCHANGED <<call, r, md, heart, hist, left>>
-------------------------------------------------------------------------------
(* maybeStartMedia *)

\* Mutant: the key epoch is not waited for.
CanStartKeyless ==
    /\ m.reg /\ m.media = 0
    /\ m.group => m.update.relay
    /\ ~m.group => m.direct

\* A group call needs a key epoch and a roster with a relay.
CanStart ==
    /\ m.reg /\ m.media = 0
    /\ m.group => m.key # NoKey /\ m.update.relay
    /\ ~m.group => m.direct

StartMedia(t) ==
    /\ th[t].pc = "start"
    /\ IF CanStart
         THEN /\ m' = [m EXCEPT !.media = m.call]
              /\ md' = [md EXCEPT ![m.call].st = "pending"]
              /\ Goto(t, [th[t] EXCEPT !.pc = "launch", !.h = m.call])
         ELSE UNCHANGED <<m, md>> /\ Goto(t, Return(t))
    /\ UNCHANGED <<call, r, heart, hist, left>>

LaunchMedia(t) ==
    /\ th[t].pc = "launch"
    /\ Phase(t, "connecting")
    /\ md' = [md EXCEPT ![th[t].h].st = "connect"]
    /\ Goto(t, Return(t))
    /\ UNCHANGED <<m, r, heart, hist, left>>
-------------------------------------------------------------------------------
(* The start of runMedia.  Goroutine n looks the id up again and again, and may *)
(* find the entry of a later call. *)

MediaAt(n, st) == md' = [md EXCEPT ![n].st = st]

\* The stream ids are derived and the relays connected, or the goroutine returns:
\* no relay is reachable, say.
MediaConnects(n) ==
    /\ md[n].st = "connect"
    /\ MediaAt(n, "mode") \/ MediaAt(n, "early")
    /\ UNCHANGED <<m, call, r, heart, th, hist, left>>

\* The mode is read once, and receivers are made unless the entry has some
\* (newParticipantReceiveRegistry may fail).
MediaReadsMode(n) ==
    /\ md[n].st = "mode"
    /\ \/ m.recv # 0 /\ MediaAt(n, "running") /\ UNCHANGED r
       \/ m.recv = 0 /\ MediaAt(n, "early") /\ UNCHANGED r
       \/ /\ m.recv = 0
          /\ MediaAt(n, IF m.reg /\ m.group THEN "snap" ELSE "direct")
          /\ r' = [r EXCEPT ![n].st = "made"]
    /\ UNCHANGED <<m, call, heart, th, hist, left>>

\* Receivers that were not published are wiped.
MediaDrops(n, st) ==
    /\ MediaAt(n, st)
    /\ r' = [r EXCEPT ![n] = Clear(@)]
    /\ UNCHANGED <<m, call, heart, th, hist, left>>

\* What the start needs of the entry.
Prerequisites == m.reg /\ m.group /\ m.update.tx > 0 /\ m.key # NoKey

\* Top of the loop: what the entry has now is copied.
MediaSnapshot(n) ==
    /\ md[n].st = "snap"
    /\ ~md[n].cancelled /\ md[n].tries < Attempts /\ Prerequisites
    /\ md' = [md EXCEPT ![n] = [@ EXCEPT !.st = "fill", !.tx = m.update.tx, !.bad = m.update.bad,
                                         !.epoch = m.epoch, !.key = m.key,
                                         !.tries = md[n].tries + 1]]
    /\ UNCHANGED <<m, call, r, heart, th, hist, left>>

\* The context is done, the attempts are used up, or the entry is not (or no
\* longer) one to start from.
MediaGivesUp(n) ==
    /\ md[n].st = "snap"
    /\ md[n].cancelled \/ md[n].tries = Attempts \/ ~Prerequisites
    /\ MediaDrops(n, "failed")

MediaFills(n) ==
    /\ md[n].st = "fill"
    /\ LET x == ApplyGroupUpdate(r[n], md[n].tx, md[n].bad)
           y == ApplyGroupRawEpoch(x.recv, md[n].epoch, md[n].key)
       IN  IF x.err \/ y.err
             THEN MediaDrops(n, "failed")
             ELSE /\ r' = [r EXCEPT ![n] = y.recv]
                  /\ MediaAt(n, "publish")
                  /\ UNCHANGED <<m, call, heart, th, hist, left>>

\* What receivers n will miss: handlers that have looked before they were
\* published will not tell them, and those of an earlier call have its roster.
Overtaken(n) ==
    LET Looked(pcs) == {t \in Threads : th[t].pc \in pcs}
    IN  {x \in {"roster"} : n # m.media \/ \E t \in Looked({"apply", "install"}) : th[t].u.tx > r[n].tx}
           \cup {x \in {"epoch"} : n # m.media \/ Looked({"applyEpoch", "installEpoch"}) # {}}

Publish(n, missed) ==
    /\ m' = [m EXCEPT !.recv = n]
    /\ MediaAt(n, "running")
    /\ hist' = (hist \ {"roster", "epoch"}) \cup Overtaken(n) \cup missed
    /\ UNCHANGED <<call, r, heart, th, left>>

\* Mutant: the roster is not looked at again.
UpToDateOnce(n) == m.update.tx > 0 /\ m.epoch <= md[n].epoch

\* Nothing newer has been installed since the snapshot.
UpToDate(n) == m.update.tx > 0 /\ m.update.tx <= md[n].tx /\ m.epoch <= md[n].epoch

\* If the entry has receivers by now, those are used.
MediaPublishes(n) ==
    /\ md[n].st = "publish"
    /\ \/ ~(m.reg /\ m.group) /\ MediaDrops(n, "failed")
       \/ m.reg /\ m.group /\ m.recv # 0 /\ MediaDrops(n, "running")
       \/ m.reg /\ m.group /\ m.recv = 0 /\ UpToDate(n) /\ Publish(n, {})
       \/ /\ m.reg /\ m.group /\ m.recv = 0 /\ ~UpToDate(n)
          /\ MediaAt(n, "snap")
          /\ UNCHANGED <<m, call, r, heart, th, hist, left>>

\* The receivers of a one-to-one call are published as they are, also when the
\* call has become a group call since the mode was read.
MediaPublishesDirect(n) ==
    /\ md[n].st = "direct"
    /\ \/ ~m.reg /\ MediaDrops(n, "failed")
       \/ m.reg /\ m.recv # 0 /\ MediaDrops(n, "running")
       \/ m.reg /\ m.recv = 0 /\ Publish(n, {x \in {"roster"} : m.update.tx > 0}
                                               \cup {x \in {"epoch"} : m.epoch > 0})
-------------------------------------------------------------------------------
(* Waiting room, answer and end *)

\* startWaitingRoomHeartbeat.
StartHeartbeat(t) ==
    /\ th[t].pc = "heart"
    /\ heart' = m.reg
    /\ Goto(t, Idle)
    /\ UNCHANGED <<m, call, r, md, hist, left>>

\* applyWaitingRoomUpdate reads whether the call waits and writes it back with
\* the rest of the state.
WaitingRoomUpdate(tx) ==
    /\ th["raw"] = Idle /\ m.reg /\ Spend("room")
    /\ Goto("raw", [Idle EXCEPT !.pc = IF call.inRoom THEN "inRoom" ELSE "room",
                                !.u = [NoUpdate EXCEPT !.tx = tx], !.h = m.call])
    /\ UNCHANGED <<m, call, r, md, heart, hist>>

WaitingRoomSets ==
    /\ th["raw"].pc \in {"room", "inRoom"}
    /\ Write("raw", SetWaitingRoom(call, th["raw"].u.tx, th["raw"].pc = "inRoom"))
    /\ Goto("raw", Idle)
    /\ UNCHANGED <<m, r, md, heart, hist, left>>

\* answer of a group call, its accept sent, on its newest handle or on one that
\* has been replaced (0).
Answer(t) ==
    /\ th[t] = Idle /\ m.reg /\ m.incoming /\ Spend("answer")
    /\ \E h \in {m.call} \cup {x \in {0} : m.call > 1} :
          Goto(t, [Idle EXCEPT !.pc = "answered", !.h = h])
    /\ UNCHANGED <<m, call, r, md, heart, hist>>

Answered(t) ==
    /\ th[t].pc = "answered"
    /\ Phase(t, "connecting")
    /\ Goto(t, Starting(t))
    /\ UNCHANGED <<m, r, md, heart, hist, left>>

\* Mutant: the receivers are left to the media goroutine.
FinishCallKeepsReceivers(t) ==
    /\ m.reg
    /\ m' = [m EXCEPT !.reg = FALSE, !.key = NoKey, !.media = 0, !.recv = 0]
    /\ heart' = FALSE
    /\ Goto(t, [Idle EXCEPT !.pc = "clear", !.h = m.call, !.media = m.media])
    /\ UNCHANGED <<call, r, md, hist>>

\* finishCall: entry, media, receivers, key and heartbeat are taken out ...
FinishCall(t) ==
    /\ m.reg
    /\ m' = [m EXCEPT !.reg = FALSE, !.key = NoKey, !.media = 0, !.recv = 0]
    /\ heart' = FALSE
    /\ Goto(t, [Idle EXCEPT !.pc = "clear", !.h = m.call, !.recv = m.recv, !.media = m.media])
    /\ UNCHANGED <<call, r, md, hist>>

\* ... the media goroutine is cancelled and the receivers are wiped ...
FinishClears(t) ==
    /\ th[t].pc = "clear"
    /\ md' = IF th[t].media # 0 THEN [md EXCEPT ![th[t].media].cancelled = TRUE] ELSE md
    /\ r' = IF th[t].recv # 0 THEN [r EXCEPT ![th[t].recv] = Clear(@)] ELSE r
    /\ Goto(t, [th[t] EXCEPT !.pc = "end", !.recv = 0, !.media = 0])
    /\ UNCHANGED <<m, call, heart, hist, left>>

\* ... and the call has ended.
FinishEnds(t) ==
    /\ th[t].pc = "end"
    /\ Phase(t, "ended")
    /\ Goto(t, Idle)
    /\ UNCHANGED <<m, r, md, heart, hist, left>>

\* Hangup, terminate, an error ack.
End(t) == th[t] = Idle /\ Spend("finish") /\ FinishCall(t)

\* The group offer is sent, or the call is finished.
SendGroupOffer(t) ==
    /\ th[t].pc = "offer"
    /\ \/ Goto(t, Idle) /\ UNCHANGED <<m, call, r, md, heart, hist>>
       \/ FinishCall(t)
    /\ UNCHANGED left
-------------------------------------------------------------------------------
UserStep ==
    \E t \in Apps : PlaceGroupCall(t) \/ JoinPublicCallLink(t) \/ PlaceCall(t) \/ Answer(t)

StanzaStep ==
    \/ OnGroupOffer
    \/ \E u \in Updates : GroupUpdateStanza(u)
    \/ \E tx \in Txs : WaitingRoomUpdate(tx) \/ \E k \in Keys \ {OwnKey} : EncRekeyStanza(tx, k)

ThreadStep(t) ==
    \/ UpdateLooksUp(t) \/ UpdateReceivers(t) \/ UpdateInstalls(t)
    \/ AdmitReadsPhase(t) \/ AdmitSetsPhase(t) \/ SetGroupState(t)
    \/ Distribute(t) \/ EpochLooksUp(t) \/ EpochReceivers(t) \/ EpochInstalls(t)
    \/ StartMedia(t) \/ LaunchMedia(t) \/ StartHeartbeat(t) \/ Answered(t)
    \/ FinishClears(t) \/ FinishEnds(t) \/ SendGroupOffer(t)
    \/ t = "raw" /\ WaitingRoomSets

MediaStep(n) ==
    \/ MediaConnects(n) \/ MediaReadsMode(n) \/ MediaSnapshot(n) \/ MediaGivesUp(n)
    \/ MediaFills(n) \/ MediaPublishes(n) \/ MediaPublishesDirect(n)

Next ==
    \/ UserStep \/ StanzaStep
    \/ \E n \in Calls : MediaStep(n)
    \/ \E t \in Threads : ThreadStep(t) \/ End(t)

Spec == Init /\ [][Next]_vars
-------------------------------------------------------------------------------
Quiet == \A t \in Threads : th[t].pc = "idle"

\* The published receivers have the roster of the entry, which the relay
\* subscriptions are made from.  The exceptions ("roster"): a handler had looked
\* for the receivers before they were published (applyGroupUpdate copies
\* m.groupReceivers under the first lock), a one-to-one call became a group call
\* in that time, or the media of an earlier call under the id published its own.
RosterReachesMedia ==
    Quiet /\ m.recv # 0 /\ "roster" \notin hist => r[m.recv].tx = m.update.tx

\* The same for the key epoch: installed if its roster has come, else buffered.
EpochReachesMedia ==
    Quiet /\ m.recv # 0 /\ m.epoch > 0 /\ "epoch" \notin hist =>
       LET x == r[m.recv]
       IN  IF m.epoch <= x.tx THEN x.epoch = m.epoch /\ x.key = m.key
                              ELSE x.pending[m.epoch] = m.key

\* No receivers but the published ones of a live call hold a key, whatever was
\* under way when a call ended and whether another has come after it: a late
\* roster wipes them again, and only a late epoch (installGroupEpoch, "ended
\* during rekey") leaves its key behind.
EndedKeysGone ==
    Quiet /\ "key" \notin hist =>
       \A n \in Calls \ {m.recv} :
          md[n].st \in {"none", "early", "running", "failed"} => ~HoldsKeys(r[n])

\* The abstract view of the group call.
Life == IF m.call = 0 THEN "none" ELSE IF m.reg THEN "live" ELSE "over"
Heard == IF m.recv = 0 THEN 0 ELSE r[m.recv].tx
Used == IF m.recv = 0 THEN 0 ELSE r[m.recv].epoch

GV == INSTANCE GroupView WITH life <- Life, roster <- m.update.tx, epoch <- m.epoch,
                              shown <- call.groupTx, inUse <- (m.recv # 0),
                              heard <- Heard, used <- Used

\* The group call implements GroupView, on whichever threads rosters and epochs
\* come, through repeated offers and calls that begin again after their end: both
\* only go forward, on the entry of a live call and in its receivers; the handle
\* is never ahead of the entry, the receivers' key never ahead of their roster;
\* an ended call takes nothing more, and no key is wiped, and none goes back,
\* in the receivers of a live call, whatever an earlier one still does.
ImplementsGroupView == GV!Spec

\* The handle shows the roster of the entry, although threads hand it over
\* outside the engine's lock.  The exception ("handle"): it replaced the handle
\* of a live call that had its roster; applyGroupUpdate drops the roster of the
\* repeated offer as known, and the new handle shows none before the next one.
HandleSeesRoster ==
    Quiet /\ m.reg => call.groupTx = IF "handle" \in hist THEN 0 ELSE m.update.tx

\* Key epoch and roster with a relay, in whatever order they come: media is
\* started.
NoLostStart ==
    Quiet /\ m.reg /\ m.group /\ m.key # NoKey /\ m.update.relay => m.media # 0

\* Once its relays are connected and its receivers made (else it is "early"), the
\* media of a live call fails to start (runMedia returns, and nothing starts it
\* again) only if the roster kept changing, if the roster is one the receivers
\* refuse, or if the call was a one-to-one call when media was started: a call
\* that began as a group call has all that its media needs, and the end of an
\* earlier call under the id does not stop it.
MediaFailureExplained ==
    m.media # 0 /\ md[m.media].st = "failed" =>
       md[m.media].tries = Attempts \/ md[m.media].bad \/ m.direct

\* An admitted call is not shown as waiting ("the latest sanitized call-link
\* admission state").
AdmittedLeavesRoom == Quiet /\ m.reg /\ m.update.tx > 0 => ~call.inRoom
===============================================================================
