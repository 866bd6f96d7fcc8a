------------------------------- MODULE CallVideo -------------------------------
(***************************************************************************)
(* Video of one one-to-one call: transitionVideo, setVideoEnabled,         *)
(* setVideoOrientation, onVideoStanza and the tail of sendAccept in        *)
(* call_engine.go, videoSender and its publication by runMedia in          *)
(* call_engine_media.go.                                                   *)
(*                                                                         *)
(* The flags of the call are guarded by engine.mu, those of the sender by  *)
(* videoSender.mu, and no operation holds both: it changes the flags,      *)
(* unlocks, tells the sender, transmits a stanza and, if that fails, locks *)
(* again to take the change back.  Every gap is a pc value.                *)
(***************************************************************************)
EXTENDS Integers, FiniteSets

CONSTANTS Apps,       \* goroutines of the integrator
          Turns,      \* camera orientations, in quarter turns
          Ops,        \* kinds of inputs
          Cases       \* the direction of the call, and how many of each kind of
                      \* input a behaviour may have

ASSUME AppsAssumption == "raw" \notin Apps
ASSUME TurnsAssumption == 0 \in Turns /\ Turns \subseteq 0..3
ASSUME CasesAssumption == Cases \subseteq [incoming : BOOLEAN, left : [Ops -> Nat]]

VARIABLES reg,        \* the entry is in e.calls
          v,          \* the video fields of the entry
          tx,         \* m.videoTx is set
          s,          \* the videoSender
          th,         \* where each thread is, with its local variables
          wire,       \* what has been transmitted
          left        \* inputs not used yet

vars == <<reg, v, tx, s, th, wire, left>>

Threads == {"raw"} \cup Apps
NoTurn == -1

Idle == [pc |-> "idle", op |-> "none", tx |-> FALSE, turn |-> NoTurn, then |-> NoTurn]

TypeOK ==
    /\ reg \in BOOLEAN /\ tx \in BOOLEAN
    /\ v \in [incoming : BOOLEAN, local : BOOLEAN, gate : BOOLEAN, remote : BOOLEAN, peerUp : BOOLEAN,
              started : BOOLEAN,
              accept : {"deferred", "sending", "sent"},
              pendEnable : {"none", "on", "off"}, pendTurn : Turns \cup {NoTurn}]
    /\ s \in [ch : BOOLEAN, active : BOOLEAN, gated : BOOLEAN, key : BOOLEAN,
              turn : Turns, synced : BOOLEAN]
    /\ th \in [Threads -> [pc : {"idle", "apply", "stopFirst", "send", "undo", "undoTx",
                                 "accepting", "accepted", "turn"},
                           op : {"none", "start", "acceptVideo", "stop", "on", "off",
                                 "turn", "announce", "open", "reject"},
                           tx : BOOLEAN, turn : Turns \cup {NoTurn},
                           then : Turns \cup {NoTurn}]]
    /\ wire \in [asked : BOOLEAN, turn : Turns \cup {NoTurn}, early : SUBSET {"video", "toggle"},
                 upgrades : Nat, upgradesAccepted : Nat]
    /\ left \in [Ops -> Nat]

\* A call as placeCall (opts.Video) or onOffer (isvideo) registers it; the
\* accept of an incoming call waits for mute_v2.
Init ==
    /\ reg = TRUE /\ tx = FALSE
    /\ \E video \in BOOLEAN, c \in Cases :
       /\ left = c.left
       /\ v = [incoming |-> c.incoming, local |-> video, gate |-> FALSE, remote |-> video, peerUp |-> FALSE,
               started |-> FALSE, accept |-> IF c.incoming THEN "deferred" ELSE "sent",
               pendEnable |-> "none", pendTurn |-> NoTurn]
    /\ s = [ch |-> FALSE, active |-> FALSE, gated |-> FALSE, key |-> TRUE,
            turn |-> 0, synced |-> FALSE]
    /\ th = [t \in Threads |-> Idle]
    /\ wire = [asked |-> FALSE, turn |-> NoTurn, early |-> {}, upgrades |-> 0, upgradesAccepted |-> 0]
-------------------------------------------------------------------------------
Spend(k) == left[k] > 0 /\ left' = [left EXCEPT ![k] = @ - 1]
Goto(t, r) == th' = [th EXCEPT ![t] = r]

\* End of an operation; sendAccept goes on with the parked orientation.
Finished(t) == IF th[t].then = NoTurn THEN Idle
               ELSE [Idle EXCEPT !.pc = "turn", !.turn = th[t].then]

Local(pc, op, turn) == [pc |-> pc, op |-> op, tx |-> tx, turn |-> turn, then |-> NoTurn]
-------------------------------------------------------------------------------
(* videoSender *)

Open(x) == x.active /\ ~x.gated

\* Mutant: only a sender that was off needs a keyframe.
NeedsRecoveryOff(x, sendGated) == ~x.active

NeedsRecovery(x, sendGated) == ~x.active \/ (x.gated /\ ~sendGated)

Enable(sendGated) ==
    LET x == [s EXCEPT !.active = TRUE, !.gated = sendGated,
                       !.key = @ \/ NeedsRecovery(s, sendGated)]
    IN  [x EXCEPT !.synced = @ /\ Open(s) /\ Open(x)]

Disable == [s EXCEPT !.active = FALSE, !.gated = FALSE, !.key = TRUE, !.synced = FALSE]

\* send: a frame goes out if the sender is open and, after an interruption, if
\* it is a keyframe.  synced: a keyframe was packetized since the sender opened;
\* keyframeRequired is cleared then, before the relays have taken the packets.
SendFrame(idr) ==
    /\ tx /\ reg /\ s.ch /\ Open(s) /\ (s.key => idr)
    /\ s' = [s EXCEPT !.key = @ /\ ~idr, !.synced = @ \/ idr]
    /\ UNCHANGED <<reg, v, tx, th, wire, left>>

\* The peer's RTCP feedback asks for a keyframe.
RequestKeyframe ==
    /\ s.ch /\ Spend("pli")
    /\ s' = [s EXCEPT !.key = TRUE]
    /\ UNCHANGED <<reg, v, tx, th, wire>>

\* runMedia, started once per call, publishes a new sender with the flags of the
\* call ...
PublishSender ==
    /\ reg /\ ~v.started /\ Spend("media")
    /\ v' = [v EXCEPT !.started = TRUE]
    /\ tx' = TRUE
    /\ s' = [ch |-> TRUE, active |-> v.local, gated |-> v.gate, key |-> TRUE,
             turn |-> 0, synced |-> FALSE]
    /\ UNCHANGED <<reg, th, wire>>

\* ... and withdraws it when it returns.
WithdrawSender ==
    /\ s.ch
    /\ s' = [s EXCEPT !.ch = FALSE]
    /\ tx' = (tx /\ ~reg)
    /\ UNCHANGED <<reg, v, th, wire, left>>

FinishCall ==
    /\ reg /\ Spend("finish")
    /\ reg' = FALSE
    /\ UNCHANGED <<v, tx, s, th, wire>>
-------------------------------------------------------------------------------
(* The first critical section of each operation *)

\* transitionVideo.
StartVideo(t) ==
    /\ th[t].pc = "idle" /\ reg /\ Spend("start")
    /\ v' = [v EXCEPT !.local = TRUE, !.gate = TRUE]
    /\ Goto(t, Local("apply", "start", 0))
    /\ UNCHANGED <<reg, tx, s, wire>>

StopVideo(t) ==
    /\ th[t].pc = "idle" /\ reg /\ Spend("stop")
    /\ v' = [v EXCEPT !.local = FALSE, !.gate = FALSE]
    /\ Goto(t, Local("apply", "stop", 0))
    /\ UNCHANGED <<reg, tx, s, wire>>

\* Mutant: the pending upgrade is not consumed.
AcceptVideoKeeps(t) ==
    /\ th[t].pc = "idle" /\ reg /\ Spend("acceptVideo")
    /\ v.peerUp
    /\ Goto(t, Local(IF v.local THEN "send" ELSE "stopFirst", "acceptVideo", NoTurn))
    /\ UNCHANGED <<reg, v, tx, s, wire>>

AcceptVideo(t) ==
    /\ th[t].pc = "idle" /\ reg /\ Spend("acceptVideo")
    /\ v.peerUp
    /\ v' = [v EXCEPT !.peerUp = FALSE]
    /\ Goto(t, Local(IF v.local THEN "send" ELSE "stopFirst", "acceptVideo", NoTurn))
    /\ UNCHANGED <<reg, tx, s, wire>>

\* The accept of an incoming call is not out yet.
Deferred == v.incoming /\ v.accept # "sent"

\* Mutant: nothing is parked.
ParkNothing == FALSE

\* setVideoEnabled and setVideoOrientation park a request made before the
\* accept is out.
Park == Deferred

SetVideoEnabled(t, on, then) ==
    IF Park
      THEN /\ v' = [v EXCEPT !.pendEnable = IF on THEN "on" ELSE "off"]
           /\ UNCHANGED th
      ELSE /\ v' = [v EXCEPT !.local = on, !.gate = FALSE]
           /\ Goto(t, [Local("apply", IF on THEN "on" ELSE "off", NoTurn)
                         EXCEPT !.then = then])

Toggle(t, on) ==
    /\ th[t].pc = "idle" /\ reg /\ Spend("toggle")
    /\ SetVideoEnabled(t, on, NoTurn)
    /\ UNCHANGED <<reg, tx, s, wire>>

\* refused: the call sends no video.
SetVideoOrientation(t, turn) ==
    IF Park
      THEN v' = [v EXCEPT !.pendTurn = turn] /\ UNCHANGED th
      ELSE /\ Goto(t, IF v.local THEN Local("apply", "turn", turn) ELSE Idle)
           /\ UNCHANGED v

ValidTurn(turn) == turn \in 0..3

Turn(t, turn) ==
    /\ th[t].pc = "idle" /\ reg /\ Spend("turn")
    /\ ValidTurn(turn)
    /\ SetVideoOrientation(t, turn)
    /\ UNCHANGED <<reg, tx, s, wire>>

\* onVideoStanza: "request" is state 3 or 11, "refuse" 5 or 8, "off" 0 or 6.
\* A peer accepts (state 4) what it was asked for.
OnVideoStanza(state) ==
    /\ th["raw"].pc = "idle" /\ reg /\ Spend(state)
    /\ \/ /\ state = "request"
          /\ v' = [v EXCEPT !.peerUp = TRUE]
          /\ wire' = [wire EXCEPT !.upgrades = @ + 1]
          /\ UNCHANGED th
       \/ /\ state = "enabled"
          /\ v' = [v EXCEPT !.remote = TRUE, !.gate = @ /\ ~v.local]
          /\ IF v.local /\ v.gate THEN Goto("raw", Local("apply", "open", NoTurn))
                                  ELSE UNCHANGED th
          /\ UNCHANGED wire
       \/ /\ state = "off"
          /\ v' = [v EXCEPT !.remote = FALSE]
          /\ UNCHANGED <<th, wire>>
       \/ /\ state = "accept" /\ wire.asked
          /\ v' = [v EXCEPT !.local = TRUE, !.gate = FALSE]
          /\ Goto("raw", Local("send", "announce", 0))
          /\ UNCHANGED wire
       \/ /\ state = "refuse"
          /\ v' = [v EXCEPT !.peerUp = FALSE, !.local = @ /\ ~v.gate, !.gate = FALSE]
          /\ IF v.gate THEN Goto("raw", Local("apply", "reject", NoTurn))
                       ELSE UNCHANGED th
          /\ UNCHANGED wire
    /\ UNCHANGED <<reg, tx, s>>
-------------------------------------------------------------------------------
(* The rest of an operation *)

\* The sender the operation saw, if any, is told.
ApplyToSender(t) ==
    /\ th[t].pc = "apply"
    /\ s' = IF ~th[t].tx THEN s
            ELSE CASE th[t].op = "start" -> Enable(TRUE)
                   [] th[t].op \in {"on", "open", "announce"} -> Enable(FALSE)
                   [] th[t].op = "turn" -> [s EXCEPT !.turn = th[t].turn]
                   [] OTHER -> Disable
    /\ Goto(t, IF th[t].op \in {"open", "reject", "announce"} THEN Finished(t)
               ELSE [th[t] EXCEPT !.pc = "send"])
    /\ UNCHANGED <<reg, v, tx, wire, left>>

\* A video-state stanza is transmitted.  early: an incoming call whose accept
\* is not out yet.
Transmit(t) ==
    wire' = [wire EXCEPT
       !.asked = @ \/ th[t].op = "start",
       !.turn = IF th[t].turn # NoTurn THEN th[t].turn ELSE @,
       !.early = IF ~Deferred THEN @
                 ELSE @ \cup {IF th[t].op \in {"on", "off", "turn"} THEN "toggle" ELSE "video"},
       !.upgradesAccepted = IF th[t].op = "acceptVideo" THEN @ + 1 ELSE @]

\* AcceptVideo without local video first says that it sends none.
SendStopFirst(t) ==
    /\ th[t].pc = "stopFirst"
    /\ \/ /\ wire' = [wire EXCEPT !.turn = 0, !.early = IF Deferred THEN @ \cup {"video"} ELSE @]
          /\ Goto(t, [th[t] EXCEPT !.pc = "send"])
       \/ Goto(t, [th[t] EXCEPT !.pc = "undo"]) /\ UNCHANGED wire
    /\ UNCHANGED <<reg, v, tx, s, left>>

SendVideoState(t) ==
    /\ th[t].pc = "send"
    /\ \/ /\ Transmit(t)
          /\ Goto(t, IF th[t].op = "announce" THEN [th[t] EXCEPT !.pc = "apply"] ELSE Finished(t))
       \/ /\ UNCHANGED wire
          /\ Goto(t, IF th[t].op \in {"stop", "off", "turn"} THEN Finished(t)
                     ELSE [th[t] EXCEPT !.pc = "undo"])
    /\ UNCHANGED <<reg, v, tx, s, left>>

\* The second critical section, after a failed transmission.
Undo(t) ==
    /\ th[t].pc = "undo"
    /\ v' = IF ~reg THEN v
            ELSE CASE th[t].op = "acceptVideo" -> [v EXCEPT !.peerUp = TRUE]
                   [] th[t].op = "on" -> [v EXCEPT !.local = FALSE]
                   [] OTHER -> [v EXCEPT !.local = FALSE, !.gate = FALSE]
    /\ Goto(t, CASE th[t].op = "acceptVideo" -> Finished(t)
                 [] th[t].op = "start" -> [th[t] EXCEPT !.pc = "undoTx", !.tx = tx /\ reg]
                 [] OTHER -> [th[t] EXCEPT !.pc = "undoTx"])
    /\ UNCHANGED <<reg, tx, s, wire, left>>

UndoSender(t) ==
    /\ th[t].pc = "undoTx"
    /\ s' = IF th[t].tx THEN Disable ELSE s
    /\ Goto(t, Finished(t))
    /\ UNCHANGED <<reg, v, tx, wire, left>>
-------------------------------------------------------------------------------
(* sendAccept, on the socket reader *)

OnMute ==
    /\ th["raw"].pc = "idle" /\ reg /\ v.accept = "deferred" /\ Spend("mute")
    /\ v' = [v EXCEPT !.accept = "sending"]
    /\ Goto("raw", [Idle EXCEPT !.pc = "accepting"])
    /\ UNCHANGED <<reg, tx, s, wire>>

\* A failed accept is not tried again.
SendAccept ==
    /\ th["raw"].pc = "accepting"
    /\ Goto("raw", [Idle EXCEPT !.pc = "accepted"]) \/ Goto("raw", Idle)
    /\ UNCHANGED <<reg, v, tx, s, wire, left>>

\* Mutant: the parked toggle is forgotten.
TakeParkedTurnOnly ==
    /\ v' = [v EXCEPT !.accept = "sent", !.pendTurn = NoTurn]
    /\ th' = [th EXCEPT !["raw"] = Idle]

\* The parked requests are taken in the step that sets acceptSent and are
\* applied after it.
TakeParked ==
    /\ v' = [v EXCEPT !.accept = "sent", !.pendEnable = "none", !.pendTurn = NoTurn]
    /\ Goto("raw", [Idle EXCEPT
          !.pc = IF v.pendEnable = "none" /\ v.pendTurn = NoTurn THEN "idle" ELSE "turn",
          !.op = IF v.pendEnable = "none" THEN "none" ELSE v.pendEnable,
          !.turn = v.pendTurn])

AcceptSent ==
    /\ th["raw"].pc = "accepted"
    /\ IF reg THEN TakeParked ELSE Goto("raw", Idle) /\ UNCHANGED v
    /\ UNCHANGED <<reg, tx, s, wire, left>>

\* setVideoEnabled and then setVideoOrientation with what was parked.
ReleaseParked ==
    /\ th["raw"].pc = "turn"
    /\ LET r == th["raw"]
       IN  IF r.op \in {"on", "off"}
             THEN IF reg THEN SetVideoEnabled("raw", r.op = "on", r.turn)
                  ELSE UNCHANGED v /\ Goto("raw", Idle)
             ELSE IF reg THEN SetVideoOrientation("raw", r.turn)
                  ELSE UNCHANGED v /\ Goto("raw", Idle)
    /\ UNCHANGED <<reg, tx, s, wire, left>>
-------------------------------------------------------------------------------
UserStep ==
    \E t \in Apps :
       \/ StartVideo(t) \/ StopVideo(t) \/ AcceptVideo(t)
       \/ \E on \in BOOLEAN : Toggle(t, on)
       \/ \E turn \in (Turns \ {0}) \cup {4} : Turn(t, turn)

StanzaStep ==
    \/ OnMute
    \/ \E state \in {"request", "enabled", "off", "accept", "refuse"} : OnVideoStanza(state)

ThreadStep(t) ==
    \/ ApplyToSender(t) \/ SendStopFirst(t) \/ SendVideoState(t)
    \/ Undo(t) \/ UndoSender(t)
    \/ t = "raw" /\ (SendAccept \/ AcceptSent \/ ReleaseParked)

MediaStep ==
    \/ PublishSender \/ WithdrawSender \/ RequestKeyframe \/ FinishCall
    \/ \E idr \in BOOLEAN : SendFrame(idr)

Next == UserStep \/ StanzaStep \/ MediaStep \/ \E t \in Threads : ThreadStep(t)

Spec == Init /\ [][Next]_vars
-------------------------------------------------------------------------------
Quiet == \A t \in Threads : th[t].pc = "idle"

\* A sender that opens, for the first time or again, lets nothing out before a
\* keyframe (keyframeRequired), whatever enables, gates and requests came before.
KeyframeFirst == Open(s) /\ ~s.synced => s.key

\* setVideoEnabled and setVideoOrientation never put a stanza on the wire
\* before the accept of an incoming call.
ToggleAfterAccept == "toggle" \notin wire.early

\* "they are applied right after the accept goes out": no request stays parked
\* once the accept is out, whichever thread came first.
ParkedReleased == Quiet /\ reg /\ v.accept = "sent" =>
                     v.pendEnable = "none" /\ v.pendTurn = NoTurn

\* AcceptVideo answers an upgrade request of the peer once, also when a
\* transmission failed and the request was put back.
UpgradeAcceptedOnce == wire.upgradesAccepted <= wire.upgrades
===============================================================================
