------------------------------ MODULE CallEngine ------------------------------
(***************************************************************************)
(* Life of one-to-one calls in the call engine (wa-core/call_engine.go and *)
(* maybeStartMedia/runMedia in call_engine_media.go).                      *)
(*                                                                         *)
(* Threads: "raw" is the socket reader, which runs the RawNodeHandler hook *)
(* (acks and mute_v2) before anything is queued; "queue" is the handler    *)
(* queue, which runs the other call stanzas; Apps are the integrator's     *)
(* goroutines.  Every started call adds a media goroutine.  A handler is   *)
(* cut where it releases engine.mu or Call.mu: each cut is a pc value.     *)
(***************************************************************************)
EXTENDS Integers, FiniteSets

CONSTANTS CallIds,    \* call ids
          Handles,    \* *Call objects
          Entries,    \* *engineCall objects
          Medias,     \* media goroutines, with their context
          Apps,       \* goroutines of the integrator
          OutIds,     \* the ids newCallID gives to outgoing calls
          RelayInOffer,  \* ids whose offer carries the relay endpoints
          Inputs,     \* kinds of stanzas and user operations
          Budgets     \* how many of each kind a behaviour may have

None == "none"
Threads == {"raw", "queue"} \cup Apps

ASSUME HeapAssumption ==
    /\ None \notin Handles \cup Entries \cup Medias \cup CallIds
    /\ RelayInOffer \subseteq CallIds /\ OutIds \subseteq CallIds
    /\ {"raw", "queue"} \cap Apps = {}
ASSUME BudgetAssumption == Budgets \subseteq [Inputs -> Nat]

VARIABLES calls,      \* e.calls: id -> entry, or None
          ent,        \* the engineCall objects
          hdl,        \* the Call objects
          media,      \* the media goroutines
          th,         \* where each thread is, with its local variables
          left        \* inputs not used yet

vars == <<calls, ent, hdl, media, th, left>>

Phases == {"none", "calling", "ringing", "connecting", "active", "ended"}

\* Phases smaller than CallPhaseConnecting, the test of onAccept.
BeforeConnecting == {"calling", "ringing"}

PCs == {"idle", "offer", "offered", "answered", "start", "launch", "cancel",
        "end", "ringing", "relay", "accepted", "acceptPhase", "accepting",
        "acceptSent"}

Idle == [pc |-> "idle", id |-> None, ent |-> None, call |-> None,
         media |-> None, ret |-> "idle", flag |-> FALSE]

FreeEntry == [call |-> None, direction |-> "none", relay |-> FALSE,
              started |-> FALSE, cancel |-> None, acceptPending |-> FALSE,
              acceptSent |-> FALSE, answers |-> 0, accepts |-> 0]
FreeHandle == [id |-> None, phase |-> "none", onEnd |-> 0, onReady |-> 0,
               known |-> FALSE]
FreeMedia == [st |-> "none", id |-> None, ent |-> None, call |-> None,
              cancelled |-> FALSE, rtpIn |-> FALSE]

EntryType == [call : Handles \cup {None}, direction : {"none", "incoming", "outgoing"},
              relay : BOOLEAN, started : BOOLEAN, cancel : Medias \cup {None},
              acceptPending : BOOLEAN, acceptSent : BOOLEAN, answers : Nat, accepts : Nat]
HandleType == [id : CallIds \cup {None}, phase : Phases, onEnd : Nat, onReady : Nat,
               known : BOOLEAN]
MediaType == [st : {"none", "pending", "connect", "install", "loop", "recv", "exited"},
              id : CallIds \cup {None}, ent : Entries \cup {None},
              call : Handles \cup {None}, cancelled : BOOLEAN, rtpIn : BOOLEAN]
ThreadType == [pc : PCs, id : CallIds \cup {None}, ent : Entries \cup {None},
               call : Handles \cup {None}, media : Medias \cup {None},
               ret : {"idle", "accepted"}, flag : BOOLEAN]

TypeOK ==
    /\ calls \in [CallIds -> Entries \cup {None}]
    /\ ent \in [Entries -> EntryType]
    /\ hdl \in [Handles -> HandleType]
    /\ media \in [Medias -> MediaType]
    /\ th \in [Threads -> ThreadType]
    /\ left \in [Inputs -> Nat]
    /\ \A id \in CallIds : calls[id] # None => ent[calls[id]].call # None

Init ==
    /\ calls = [id \in CallIds |-> None]
    /\ ent = [e \in Entries |-> FreeEntry]
    /\ hdl = [h \in Handles |-> FreeHandle]
    /\ media = [m \in Medias |-> FreeMedia]
    /\ th = [t \in Threads |-> Idle]
    /\ left \in Budgets
-------------------------------------------------------------------------------
Spend(k) == left[k] > 0 /\ left' = [left EXCEPT ![k] = @ - 1]

Registered(e) == \E id \in CallIds : calls[id] = e

FreeHandles == {h \in Handles : hdl[h] = FreeHandle}
FreeEntries == {e \in Entries : ent[e] = FreeEntry}
FreeMedias  == {m \in Medias : media[m] = FreeMedia}

Thread(pc, id, e, h, m, ret, flag) ==
    [pc |-> pc, id |-> id, ent |-> e, call |-> h, media |-> m, ret |-> ret,
     flag |-> flag]

\* The peer and the server know an outgoing call once its offer was sent.
Reachable(id) == id \in OutIds => \E h \in Handles : hdl[h].id = id /\ hdl[h].known

Goto(t, r) == th' = [th EXCEPT ![t] = r]

\* Go on with maybeStartMedia(id), then with ret.
GotoStart(t, id, ret) ==
    Goto(t, Thread("start", id, th[t].ent, None, None, ret, FALSE))

\* Where a call of maybeStartMedia returns to.
Return(t) == IF th[t].ret = "idle" THEN Idle
             ELSE Thread("accepted", th[t].id, th[t].ent, None, None, "idle", FALSE)

\* Call.setPhase.
SetPhase(h, p) == hdl' = [hdl EXCEPT ![h].phase = p]

-------------------------------------------------------------------------------
(* User operations *)

\* placeCall up to the unlock: the call is registered before the offer is sent.
PlaceCall(t, id, h, e) ==
    /\ th[t].pc = "idle" /\ Spend("place")
    /\ \A g \in Handles : hdl[g].id # id
    /\ h \in FreeHandles /\ e \in FreeEntries
    /\ hdl' = [hdl EXCEPT ![h] = [FreeHandle EXCEPT !.id = id, !.phase = "calling"]]
    /\ ent' = [ent EXCEPT ![e] = [FreeEntry EXCEPT !.call = h, !.direction = "outgoing"]]
    /\ calls' = [calls EXCEPT ![id] = e]
    /\ Goto(t, Thread("offer", id, e, h, None, "idle", FALSE))
    /\ UNCHANGED media

\* The offer is sent and the handle returned; if sending fails the caller gets
\* an error and no handle, and the entry stays in e.calls.
SendOffer(t) ==
    /\ th[t].pc = "offer"
    /\ \/ hdl' = [hdl EXCEPT ![th[t].call].known = TRUE]
       \/ UNCHANGED hdl
    /\ Goto(t, Idle)
    /\ UNCHANGED <<calls, ent, media, left>>

\* answer: no test of the phase.  The lookup and the locked assignment are one
\* step: acceptPending of an entry that has left e.calls is never read.
\* (answers and accepts are history: the Answers taken, the accepts sent.)
Answer(t, h) ==
    /\ th[t].pc = "idle" /\ hdl[h].known /\ Spend("answer")
    /\ LET e == calls[hdl[h].id]
       IN  /\ e # None
           /\ ent' = [ent EXCEPT ![e].acceptPending = TRUE, ![e].answers = @ + 1]
           /\ Goto(t, Thread("answered", hdl[h].id, e, h, None, "idle", FALSE))
    /\ UNCHANGED <<calls, hdl, media>>

\* Mutant: Answer relies on a later relay stanza to start media.
AnswerPhaseOnly(t) ==
    /\ th[t].pc = "answered"
    /\ SetPhase(th[t].call, "connecting")
    /\ Goto(t, Idle)
    /\ UNCHANGED <<calls, ent, media, left>>

AnswerPhase(t) ==
    /\ th[t].pc = "answered"
    /\ SetPhase(th[t].call, "connecting")
    /\ GotoStart(t, th[t].id, "idle")
    /\ UNCHANGED <<calls, ent, media, left>>

-------------------------------------------------------------------------------
(* finishCall *)

\* Mutant: the cancel handle is cleared before it is copied.
FinishCallForgets(t, id) ==
    /\ calls[id] # None
    /\ LET e == calls[id]
       IN  /\ calls' = [calls EXCEPT ![id] = None]
           /\ ent' = [ent EXCEPT ![e].cancel = None]
           /\ Goto(t, Thread("cancel", id, e, ent[e].call, None, "idle", FALSE))
    /\ UNCHANGED <<hdl, media>>

\* Mutant: a call without media is dropped without a word.
FinishCallSilently(t, id) ==
    /\ calls[id] # None
    /\ LET e == calls[id]
       IN  /\ calls' = [calls EXCEPT ![id] = None]
           /\ ent' = [ent EXCEPT ![e].cancel = None]
           /\ Goto(t, IF ent[e].cancel = None THEN Idle
                      ELSE Thread("cancel", id, e, ent[e].call, ent[e].cancel, "idle", FALSE))
    /\ UNCHANGED <<hdl, media>>

\* Mutant: the entry is left in e.calls.
FinishCallKeepsEntry(t, id) ==
    /\ calls[id] # None
    /\ LET e == calls[id]
       IN  /\ ent' = [ent EXCEPT ![e].cancel = None]
           /\ Goto(t, Thread("cancel", id, e, ent[e].call, ent[e].cancel, "idle", FALSE))
    /\ UNCHANGED <<calls, hdl, media>>

\* The locked part: the entry and its cancel handle are taken out.
FinishCall(t, id) ==
    /\ calls[id] # None
    /\ LET e == calls[id]
       IN  /\ calls' = [calls EXCEPT ![id] = None]
           /\ ent' = [ent EXCEPT ![e].cancel = None]
           /\ Goto(t, Thread("cancel", id, e, ent[e].call, ent[e].cancel, "idle", FALSE))
    /\ UNCHANGED <<hdl, media>>

\* cancel() of the media goroutine's context, if there is one.
CancelMedia(t) ==
    /\ th[t].pc = "cancel"
    /\ IF th[t].media = None
         THEN UNCHANGED media
         ELSE media' = [media EXCEPT ![th[t].media].cancelled = TRUE]
    /\ Goto(t, [th[t] EXCEPT !.pc = "end", !.media = None])
    /\ UNCHANGED <<calls, ent, hdl, left>>

\* setPhase(Ended) and the OnEnd listener, unless the call has ended before.
EndCall(t) ==
    /\ th[t].pc = "end"
    /\ LET h == th[t].call
       IN  IF hdl[h].phase = "ended"
             THEN UNCHANGED hdl
             ELSE hdl' = [hdl EXCEPT ![h].phase = "ended", ![h].onEnd = @ + 1]
    /\ Goto(t, Idle)
    /\ UNCHANGED <<calls, ent, media, left>>

\* hangup and reject finish the call by its id, then tell the peer.
Hangup(t, h) ==
    /\ th[t].pc = "idle" /\ hdl[h].known /\ Spend("hangup")
    /\ FinishCall(t, hdl[h].id)

-------------------------------------------------------------------------------
(* maybeStartMedia *)

\* Mutant: the started flag is not consulted.
CanStartAgain(id) == calls[id] # None /\ ent[calls[id]].relay

\* The tests of the locked part.  A registered one-to-one call always has its
\* call key.
CanStart(id) ==
    /\ calls[id] # None
    /\ ~ent[calls[id]].started
    /\ ent[calls[id]].relay

\* The rest of the locked part.
StartMedia(t, m) ==
    /\ th[t].pc = "start" /\ CanStart(th[t].id)
    /\ m \in FreeMedias
    /\ LET e == calls[th[t].id]
       IN  /\ ent' = [ent EXCEPT ![e].started = TRUE, ![e].cancel = m]
           /\ media' = [media EXCEPT ![m] =
                 [FreeMedia EXCEPT !.st = "pending", !.id = th[t].id,
                                   !.ent = e, !.call = ent[e].call]]
    /\ Goto(t, [th[t] EXCEPT !.pc = "launch", !.media = m])
    /\ UNCHANGED <<calls, hdl, left>>

NotStarted(t) ==
    /\ th[t].pc = "start" /\ ~CanStart(th[t].id)
    /\ Goto(t, Return(t))
    /\ UNCHANGED <<calls, ent, hdl, media, left>>

\* setPhase(Connecting) after the unlock, then the go statement.
LaunchMedia(t) ==
    /\ th[t].pc = "launch"
    /\ SetPhase(media[th[t].media].call, "connecting")
    /\ media' = [media EXCEPT ![th[t].media].st = "connect"]
    /\ Goto(t, Return(t))
    /\ UNCHANGED <<calls, ent, left>>

-------------------------------------------------------------------------------
(* Stanzas on the handler queue *)

\* Mutant: a Call that has ended is used for the new offer.
OnOfferReusesCall(id, h) ==
    /\ th["queue"].pc = "idle" /\ Spend("offer")
    /\ h \in FreeHandles \/ hdl[h].phase = "ended"
    /\ hdl' = [hdl EXCEPT ![h] = [FreeHandle EXCEPT !.id = id, !.phase = "ringing"]]
    /\ \E e \in IF calls[id] = None THEN FreeEntries ELSE {calls[id]} :
          /\ calls' = [calls EXCEPT ![id] = e]
          /\ ent' = [ent EXCEPT ![e].call = h, ![e].direction = "incoming",
                                ![e].relay = @ \/ id \in RelayInOffer]
          /\ Goto("queue", Thread("offered", id, e, h, None, "idle", FALSE))
    /\ UNCHANGED media

\* onOffer up to the unlock.  A second offer for a registered id reuses its
\* entry and replaces the Call in it.  Ended, stale and undecryptable offers
\* change nothing.
OnOffer(id, h) ==
    /\ th["queue"].pc = "idle" /\ Spend("offer")
    /\ h \in FreeHandles
    /\ hdl' = [hdl EXCEPT ![h] = [FreeHandle EXCEPT !.id = id, !.phase = "ringing"]]
    /\ \E e \in IF calls[id] = None THEN FreeEntries ELSE {calls[id]} :
          /\ calls' = [calls EXCEPT ![id] = e]
          /\ ent' = [ent EXCEPT ![e].call = h, ![e].direction = "incoming",
                                ![e].relay = @ \/ id \in RelayInOffer]
          /\ Goto("queue", Thread("offered", id, e, h, None, "idle", FALSE))
    /\ UNCHANGED media

\* The preaccept (sent or not) and the OnIncomingCall listener.
Offered ==
    /\ th["queue"].pc = "offered"
    /\ hdl' = [hdl EXCEPT ![th["queue"].call].known = TRUE]
    /\ Goto("queue", Idle)
    /\ UNCHANGED <<calls, ent, media, left>>

\* Mutant: the relay is recorded and media is left to the next stanza.
OnRelayRecords(t, id, ret) ==
    /\ calls[id] # None
    /\ ent' = [ent EXCEPT ![calls[id]].relay = TRUE]
    /\ UNCHANGED <<calls, hdl, media, th>>

\* The locked part of onRelay; ret is where its caller goes on.
OnRelay(t, id, ret) ==
    /\ calls[id] # None
    /\ ent' = [ent EXCEPT ![calls[id]].relay = TRUE]
    /\ GotoStart(t, id, ret)
    /\ UNCHANGED <<calls, hdl, media>>

\* CallRelayLatency and CallTransport on the queue, an ack with the relay
\* allocation on the socket reader.
RelayStanza(t, id) ==
    /\ t \in {"raw", "queue"} /\ th[t].pc = "idle" /\ Spend("relay")
    /\ Reachable(id)
    /\ OnRelay(t, id, "idle")

\* onRelay called by onPreAccept and onAccept; the call may be gone by now.
NestedRelay(t) ==
    /\ th[t].pc = "relay"
    /\ IF calls[th[t].id] # None
         THEN OnRelay(t, th[t].id, th[t].ret)
         ELSE Goto(t, Return(t)) /\ UNCHANGED <<calls, ent, hdl, media>>
    /\ UNCHANGED left

\* onPreAccept reads the phase; withRelay: the stanza carries relay data.
OnPreAccept(id, withRelay) ==
    /\ th["queue"].pc = "idle" /\ Spend("preaccept") /\ Reachable(id)
    /\ calls[id] # None
    /\ LET e == calls[id]
       IN  /\ ent[e].direction = "outgoing"
           /\ Goto("queue", IF hdl[ent[e].call].phase = "calling"
                              THEN Thread("ringing", id, e, ent[e].call, None, "idle", withRelay)
                              ELSE IF withRelay
                                     THEN Thread("relay", id, e, None, None, "idle", FALSE)
                                     ELSE Idle)
    /\ UNCHANGED <<calls, ent, hdl, media>>

\* ... and sets it to Ringing in a second critical section.
PreAcceptPhase ==
    /\ th["queue"].pc = "ringing"
    /\ SetPhase(th["queue"].call, "ringing")
    /\ Goto("queue", IF th["queue"].flag
                       THEN Thread("relay", th["queue"].id, th["queue"].ent, None, None, "idle", FALSE)
                       ELSE Idle)
    /\ UNCHANGED <<calls, ent, media, left>>

\* onAccept: the call is known, outgoing and not ended.
OnAccept(id, withRelay) ==
    /\ th["queue"].pc = "idle" /\ Spend("accept") /\ Reachable(id)
    /\ calls[id] # None
    /\ LET e == calls[id]
       IN  /\ ent[e].direction = "outgoing"
           /\ hdl[ent[e].call].phase # "ended"
           /\ Goto("queue", Thread(IF withRelay THEN "relay" ELSE "accepted",
                                   id, e, None, None,
                                   IF withRelay THEN "accepted" ELSE "idle", FALSE))
    /\ UNCHANGED <<calls, ent, hdl, media>>

\* onAccept reads the phase of the Call in the entry it looked up first.
AcceptReadPhase ==
    /\ th["queue"].pc = "accepted"
    /\ LET r == th["queue"]
           h == ent[r.ent].call
       IN  Goto("queue", Thread("acceptPhase", r.id, r.ent, h, None, "idle",
                                hdl[h].phase \in BeforeConnecting))
    /\ UNCHANGED <<calls, ent, hdl, media, left>>

AcceptPhase ==
    /\ th["queue"].pc = "acceptPhase"
    /\ IF th["queue"].flag THEN SetPhase(th["queue"].call, "connecting")
                           ELSE UNCHANGED hdl
    /\ GotoStart("queue", th["queue"].id, "idle")
    /\ UNCHANGED <<calls, ent, media, left>>

\* CallTerminate and CallReject on the queue; an error ack on the socket reader.
EndStanza(t, id) ==
    /\ t \in {"raw", "queue"} /\ th[t].pc = "idle" /\ Spend("terminate")
    /\ Reachable(id)
    /\ FinishCall(t, id)

-------------------------------------------------------------------------------
(* mute_v2 on the socket reader, and the deferred accept *)

\* Mutant: acceptPending is left set.
OnMuteKeepsPending(id) ==
    /\ th["raw"].pc = "idle" /\ Spend("mute")
    /\ LET e == calls[id]
       IN  IF e # None /\ ent[e].acceptPending
             THEN Goto("raw", Thread("accepting", id, e, None, None, "idle", FALSE))
             ELSE UNCHANGED th
    /\ UNCHANGED <<calls, ent, hdl, media>>

OnMute(id) ==
    /\ th["raw"].pc = "idle" /\ Spend("mute")
    /\ LET e == calls[id]
       IN  IF e # None /\ ent[e].acceptPending
             THEN /\ ent' = [ent EXCEPT ![e].acceptPending = FALSE]
                  /\ Goto("raw", Thread("accepting", id, e, None, None, "idle", FALSE))
             ELSE UNCHANGED <<ent, th>>
    /\ UNCHANGED <<calls, hdl, media>>

\* sendAccept transmits the accept; when that fails it is not tried again.
SendAccept ==
    /\ th["raw"].pc = "accepting"
    /\ \/ /\ ent' = [ent EXCEPT ![th["raw"].ent].accepts = @ + 1]
          /\ Goto("raw", [th["raw"] EXCEPT !.pc = "acceptSent"])
       \/ Goto("raw", Idle) /\ UNCHANGED ent
    /\ UNCHANGED <<calls, hdl, media, left>>

AcceptSent ==
    /\ th["raw"].pc = "acceptSent"
    /\ IF calls[th["raw"].id] = th["raw"].ent
         THEN ent' = [ent EXCEPT ![th["raw"].ent].acceptSent = TRUE]
         ELSE UNCHANGED ent
    /\ Goto("raw", Idle)
    /\ UNCHANGED <<calls, hdl, media, left>>

-------------------------------------------------------------------------------
(* runMedia *)

MediaStep(m, from, to) ==
    /\ media[m].st = from
    /\ media' = [media EXCEPT ![m].st = to]
    /\ UNCHANGED <<calls, ent, th, left>>

\* connectAndAllocateAll: the relays are reached, or none is, or ctx is done.
\* On an error the goroutine returns and the call stays registered and started.
Connected(m)     == MediaStep(m, "connect", "install") /\ UNCHANGED hdl
ConnectFailed(m) == MediaStep(m, "connect", "exited") /\ UNCHANGED hdl

\* The receivers go into whatever entry the id has now; none: the call ended.
InstallReceivers(m) ==
    /\ MediaStep(m, "install", IF calls[media[m].id] = None THEN "exited" ELSE "loop")
    /\ UNCHANGED hdl

\* Top of the receive loop.
LoopTop(m) ==
    /\ MediaStep(m, "loop", IF media[m].cancelled THEN "exited" ELSE "recv")
    /\ UNCHANGED hdl

\* Recv returned a decodable audio packet; it does not look at the context.
\* The first one makes the call active.
RecvAudio(m) ==
    /\ media[m].st = "recv"
    /\ media' = [media EXCEPT ![m].st = "loop", ![m].rtpIn = TRUE]
    /\ IF media[m].rtpIn
         THEN UNCHANGED hdl
         ELSE hdl' = [hdl EXCEPT ![media[m].call].phase = "active",
                                 ![media[m].call].onReady = @ + 1]
    /\ UNCHANGED <<calls, ent, th, left>>

\* Recv returned anything else: RTCP, video, a replay, an undecodable packet.
RecvOther(m) == MediaStep(m, "recv", "loop") /\ UNCHANGED hdl

\* Every relay connection is gone.
RecvFailed(m) == MediaStep(m, "recv", "exited") /\ UNCHANGED hdl
-------------------------------------------------------------------------------
UserStep ==
    \E t \in Apps :
       \/ \E id \in OutIds, h \in Handles, e \in Entries : PlaceCall(t, id, h, e)
       \/ \E h \in Handles : Answer(t, h) \/ Hangup(t, h)

StanzaStep ==
    \/ \E id \in CallIds \ OutIds : OnMute(id) \/ \E h \in Handles : OnOffer(id, h)
    \/ \E t \in {"raw", "queue"}, id \in CallIds : RelayStanza(t, id) \/ EndStanza(t, id)
    \/ \E id \in CallIds, r \in BOOLEAN : OnPreAccept(id, r) \/ OnAccept(id, r)

\* The rest of a handler that has begun.
ThreadStep(t) ==
    \/ SendOffer(t) \/ AnswerPhase(t) \/ CancelMedia(t) \/ EndCall(t)
    \/ NotStarted(t) \/ LaunchMedia(t) \/ \E m \in Medias : StartMedia(t, m)
    \/ t = "queue" /\ (Offered \/ NestedRelay(t) \/ PreAcceptPhase \/ AcceptReadPhase \/ AcceptPhase)
    \/ t = "raw" /\ (SendAccept \/ AcceptSent)

MediaLoop(m) ==
    \/ Connected(m) \/ ConnectFailed(m) \/ InstallReceivers(m)
    \/ LoopTop(m) \/ RecvAudio(m) \/ RecvOther(m) \/ RecvFailed(m)

Next ==
    \/ UserStep
    \/ StanzaStep
    \/ \E t \in Threads : ThreadStep(t)
    \/ \E m \in Medias : MediaLoop(m)

\* The Go scheduler runs a handler that has begun to its end; nothing is
\* assumed of users, peers or relays.
Fairness == \A t \in Threads : WF_vars(ThreadStep(t))

Spec == Init /\ [][Next]_vars /\ Fairness

-------------------------------------------------------------------------------
Quiet == \A t \in Threads : th[t].pc = "idle"

\* The context of a media goroutine is held, for cancelling, by the entry of a
\* registered call or by a thread that is about to cancel it (m.cancel, taken
\* over by finishCall): no media goroutine outlives its call unnoticed.
MediaOwned ==
    \A m \in Medias :
       media[m].st # "none" /\ ~media[m].cancelled =>
          \/ \E id \in CallIds : calls[id] # None /\ ent[calls[id]].cancel = m
          \/ \E t \in Threads : th[t].pc = "cancel" /\ th[t].media = m

\* maybeStartMedia: "the loop starts exactly once per call".
MediaOnce ==
    \A m, n \in Medias :
       m # n /\ media[m].st # "none" /\ media[n].st # "none" =>
          media[m].ent # media[n].ent

\* finishCall tells the listener of the end after it has cancelled the media,
\* and tells it once.
EndAfterCancel ==
    \A h \in Handles :
       /\ hdl[h].onEnd <= 1
       /\ hdl[h].onEnd = 1 =>
             \A m \in Medias : media[m].call = h => media[m].cancelled

\* Once key and relay are known and the call is wanted, media has been started:
\* no order of answer, offer, relay and ack stanzas on the three threads
\* forgets it.
NoLostStart ==
    Quiet => \A id \in CallIds :
       LET e == calls[id]
           wanted == \/ ent[e].direction = "outgoing"
                     \/ ent[e].acceptPending
                     \/ ent[e].acceptSent
       IN  e # None /\ ent[e].relay /\ wanted => ent[e].started

\* sendAccept takes each Answer once: mute_v2 stanzas that keep coming send no
\* accept of their own, also when further Answers race them.
AcceptPerAnswer == \A e \in Entries : ent[e].accepts <= ent[e].answers

\* A call is accepted once: "sends the deferred callee <accept> (once)"; later
\* mute_v2 nodes "must not re-run the accept path on an already-accepted call";
\* Answer is a "no-op error if the call is not in a ringing state".
AcceptOnce == \A e \in Entries : ent[e].accepts <= 1

\* A handle the integrator holds, and that no later offer has replaced, is told
\* of the end of its call in the end.
EndReported ==
    \A h \in Handles :
       hdl[h].known /\ (\E e \in Entries : ent[e].call = h /\ ~Registered(e))
          ~> hdl[h].onEnd = 1

\* The abstract view of the engine: what is live, what runs for it, what is over.
Life(h) == IF hdl[h].id = None THEN "none"
           ELSE IF hdl[h].onEnd = 0 THEN "live" ELSE "over"

CL == INSTANCE CallLife WITH life <- [h \in Handles |-> Life(h)],
                             owner <- [m \in Medias |-> media[m].call],
                             stopped <- [m \in Medias |-> media[m].cancelled]

\* The engine implements CallLife, whatever order the three kinds of threads
\* take: no media for a call that is over, none beside another, and OnEnd only
\* when all media of the call has been cancelled.
ImplementsCallLife == CL!Spec

\* A call that has ended stays ended (Call.State).
EndedStays ==
    [][\A h \in Handles : hdl[h].phase = "ended" => hdl'[h].phase = "ended"]_vars
===============================================================================
