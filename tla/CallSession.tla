------------------------------ MODULE CallSession ------------------------------
(***************************************************************************)
(* The validated phase machine of a CallSession                            *)
(* (wa-core/call_crypto_session.go).                                       *)
(***************************************************************************)
EXTENDS Integers

Directions == {"outgoing", "incoming"}

CallPhases == {"idle", "calling", "ringing", "connecting", "active", "ended",
               "waiting-room"}

\* NewOutgoingSession and NewIncomingSession.
FirstPhase(dir) == IF dir = "outgoing" THEN "idle" ELSE "ringing"

\* TransitionTo: may a session in phase from move to phase next?
CanTransition(dir, from, next) ==
    /\ from # "ended"
    /\ \/ next \in {"ended", from}
       \/ from = "idle" /\ next = "calling" /\ dir = "outgoing"
       \/ <<from, next>> \in {<<"calling", "ringing">>,
                              <<"ringing", "connecting">>,
                              <<"calling", "waiting-room">>,
                              <<"connecting", "waiting-room">>,
                              <<"waiting-room", "connecting">>,
                              <<"connecting", "active">>}
===============================================================================
