------------------------------- MODULE Requests -------------------------------
(***************************************************************************)
(* Info queries over the connection: sendIQ, retryFrame and the waiter map *)
(* of request.go, with sendNodeAndGetData and WaitForConnection of         *)
(* client.go.  A query registers its channel, reads cli.socket, writes its *)
(* frame and waits; a disconnect node makes it write the same frame once   *)
(* more, on the connection that is up by then.                             *)
(***************************************************************************)
EXTENDS Connection

VARIABLES rq,       \* each query: where it is, its socket and attempt; history: its context
                    \* ended while it sent, its waiter was gone before its first write
          taken,    \* queries whose waiter receiveResponse has taken but not yet served
          wrote     \* history: frames of each query written on each socket

vars == <<cli, sock, lock, pc, ping, reset, queue, handling, waiters, chan, seen, left,
          rq, taken, wrote>>

reqVars == <<rq, taken, wrote>>

ReqTypeOK ==
    /\ ConnTypeOK
    /\ rq \in [Requests -> [at : {"idle", "socket", "register", "write", "cancel", "wait",
                                  "reconnect", "done", "failed"},
                            s : {None} \cup Sockets, try : 1..2, cancelled : BOOLEAN, early : BOOLEAN]]
    /\ taken \subseteq Requests
    /\ wrote \in [Requests -> [Sockets -> Nat]]

Init ==
    /\ ConnInit
    /\ rq = [r \in Requests |-> [at |-> "idle", s |-> None, try |-> 1, cancelled |-> FALSE,
                              early |-> FALSE]]
    /\ taken = {}
    /\ wrote = [r \in Requests |-> [s \in Sockets |-> 0]]
-------------------------------------------------------------------------------
KeepConn == UNCHANGED <<cli, sock, lock, pc, ping, reset, queue, handling, seen>>

Go(r, at) == rq' = [rq EXCEPT ![r].at = at]

WaitResponse(r) == waiters' = waiters \cup {r} /\ chan' = [chan EXCEPT ![r] = "empty"]

\* sendIQAsyncAndGetData registers before anything else.
Begin(r) ==
    /\ rq[r].at = "idle" /\ Spend("query")
    /\ WaitResponse(r) /\ Go(r, "socket")
    /\ KeepConn /\ UNCHANGED <<taken, wrote>>

\* cli.socket is read under the lock; sendNodeAndGetData has the waiter
\* registered by then, retryFrame registers a new one next.
ReadSocket(r) ==
    /\ rq[r].at = "socket" /\ Free
    /\ rq' = [rq EXCEPT ![r].s = cli.socket,
                        ![r].at = IF rq[r].try = 1
                                  THEN IF cli.socket = None THEN "cancel" ELSE "write"
                                  ELSE IF cli.socket = None THEN "failed" ELSE "register"]
    /\ KeepConn /\ UNCHANGED <<waiters, chan, taken, wrote, left>>

Register(r) ==
    /\ rq[r].at = "register"
    /\ WaitResponse(r) /\ Go(r, "write")
    /\ KeepConn /\ UNCHANGED <<taken, wrote, left>>

\* SendFrame: the frame is written, unless the socket is closed or the context is
\* cancelled first; a context cancelled during the write reports an error too.
SendFrame(r) ==
    /\ rq[r].at = "write"
    /\ \/ /\ sock[rq[r].s].conn = "open"
          /\ wrote' = [wrote EXCEPT ![r][rq[r].s] = @ + 1]
          /\ \E cancels \in BOOLEAN :
                /\ IF cancels THEN Spend("cancel") ELSE UNCHANGED left
                /\ rq' = [rq EXCEPT ![r].at = IF cancels THEN "cancel" ELSE "wait",
                                    ![r].cancelled = cancels,
                                    ![r].early = @ \/ r \notin waiters]
       \/ /\ sock[rq[r].s].conn = "dead"
          /\ Go(r, "cancel") /\ UNCHANGED <<wrote, left>>
       \/ /\ Spend("cancel")
          /\ rq' = [rq EXCEPT ![r].at = "cancel", ![r].cancelled = TRUE]
          /\ UNCHANGED wrote
    /\ KeepConn /\ UNCHANGED <<waiters, chan, taken>>

\* cancelResponse closes the channel; closing it twice would panic.
CancelResponse(r) ==
    /\ rq[r].at = "cancel"
    /\ chan' = [chan EXCEPT ![r] = IF @ = "closed" THEN "panic" ELSE "closed"]
    /\ waiters' = waiters \ {r}
    /\ Go(r, "failed")
    /\ KeepConn /\ UNCHANGED <<taken, wrote, left>>

\* receiveResponse takes the waiter out of the map under responseWaitersLock ...
ReceiveResponse(r) ==
    /\ r \in waiters
    /\ \E s \in Sockets : wrote[r][s] > 0 /\ sock[s].hook /\ ~sock[s].destroyed
    /\ waiters' = waiters \ {r} /\ taken' = taken \cup {r}
    /\ KeepConn /\ UNCHANGED <<chan, rq, wrote, left>>

\* ... and sends to it afterwards: it panics if the channel was closed.
DeliverResponse(r) ==
    /\ r \in taken
    /\ taken' = taken \ {r}
    /\ chan' = [chan EXCEPT ![r] = IF @ = "empty" THEN "response" ELSE "panic"]
    /\ KeepConn /\ UNCHANGED <<waiters, rq, wrote, left>>

\* The select of sendIQ and of retryFrame.
Answered(r) ==
    /\ rq[r].at = "wait" /\ chan[r] \in {"response", "disconnect", "auth"}
    /\ IF chan[r] = "disconnect" /\ rq[r].try = 1
       THEN Go(r, "reconnect")
       ELSE Go(r, IF chan[r] = "response" THEN "done" ELSE "failed")
    /\ KeepConn /\ UNCHANGED <<waiters, chan, taken, wrote, left>>

\* Mutant: the timeout closes the channel, as cancelResponse does.
TimedOutClosing(r) ==
    /\ rq[r].at = "wait" /\ Spend("timeout") /\ Go(r, "failed")
    /\ chan' = [chan EXCEPT ![r] = "closed"] /\ waiters' = waiters \ {r}
    /\ KeepConn /\ UNCHANGED <<taken, wrote>>

\* The timeout or the context: the waiter stays in the map.
TimedOut(r) ==
    /\ rq[r].at = "wait" /\ Spend("timeout") /\ Go(r, "failed")
    /\ KeepConn /\ UNCHANGED <<waiters, chan, taken, wrote>>

\* WaitForConnection: a live socket and isLoggedIn, or no luck within 5 seconds
\* or an expected disconnect.
Reconnected(r) ==
    /\ rq[r].at = "reconnect"
    /\ \/ /\ Free /\ Live(cli.socket) /\ cli.loggedIn
          /\ rq' = [rq EXCEPT ![r].at = "socket", ![r].try = 2]
       \/ Go(r, "failed")
    /\ KeepConn /\ UNCHANGED <<waiters, chan, taken, wrote, left>>

ReqNext == \E r \in Requests : \/ Begin(r) \/ ReadSocket(r) \/ Register(r) \/ SendFrame(r)
                               \/ CancelResponse(r) \/ ReceiveResponse(r) \/ DeliverResponse(r)
                               \/ Answered(r) \/ TimedOut(r) \/ Reconnected(r)

Next == (ConnNext /\ UNCHANGED reqVars) \/ ReqNext

\* A handshake ends (NoiseHandshakeResponseTimeout), callbacks and reconnects get
\* the mutex in their turn, and the delays are finite.  Nothing is assumed of a
\* dial: websocket.Dial waits for the answer to its upgrade without a deadline.
Fairness ==
    /\ WF_vars((HandshakeDead \/ HandshakeFinish \/ Install) /\ UNCHANGED reqVars)
    /\ WF_vars((\E p \in Procs : ConnectRefused(p) \/ ConnectBegin(p)) /\ UNCHANGED reqVars)
    /\ WF_vars((\E p \in Autos : AutoWait(p) \/ AutoFailed(p)) /\ UNCHANGED reqVars)
    /\ WF_vars((\E s \in Sockets : KeepAliveReset(s)) /\ UNCHANGED reqVars)

Spec == Init /\ [][Next]_vars /\ Fairness
-------------------------------------------------------------------------------
(* Properties *)

\* There is one connection: an open socket is cli.socket or the one the holder of
\* socketLock is setting up (connect, unlockedDisconnect, onDisconnect).
OneConnection ==
    \A s \in Sockets : sock[s].conn = "open" => s \in {cli.socket, lock.fresh}

\* "This will not emit any events" (Disconnect): at most one Disconnected event
\* per socket, and none for a socket Disconnect dropped, even if the server closed
\* it first and its callback is still on the way.
DisconnectIsSilent ==
    \A s \in Sockets : /\ seen.events[s] <= 1
                       /\ seen.events[s] > 0 => seen.closedBy[s] \in {"remote", "reset"}

\* The abstract view of the connections: one that is dead was told of, or has the
\* fate of who closed it.
Fate == [none |-> "failed", disconnect |-> "dropped", remote |-> "lost", reset |-> "lost"]

State(s) == CASE sock[s].conn = "new"  -> "new"
              [] sock[s].conn = "open" -> "up"
              [] sock[s].conn = "dead" ->
                    IF seen.events[s] > 0 THEN "told" ELSE Fate[seen.closedBy[s]]

CF == INSTANCE ConnLife WITH state <- [s \in Sockets |-> State(s)]

\* Connect, Disconnect, ResetConnection, the keepalive loop and the reconnecting
\* goroutines implement ConnLife, in whatever order they get socketLock: a
\* Disconnected event is about the last connection, before the next one is tried.
ImplementsConnLife == CF!Spec

\* A connection that is gone while cli.socket still names it has its callback
\* pending, unless it died after the last handshake message and before
\* newNoiseSocket set OnDisconnect: nobody is told of that one.
LossNoticed ==
    cli.socket # None /\ sock[cli.socket].conn = "dead"
       => sock[cli.socket].notice # "none" \/ cli.socket \in seen.blind

\* A query that waits can still be answered or told of the disconnect: its waiter
\* is in the map and its frame is on the connection whose loss clears the map, or
\* the response is on its way to the channel.
NoHungQuery ==
    \A r \in Requests :
       rq[r].at = "wait" /\ chan[r] = "empty"
          => \/ r \in taken
             \/ r \in waiters /\ rq[r].s = cli.socket

\* receiveResponse sends on a channel that cancelResponse has closed, and the
\* process panics, in two cases only: the context of the query ended while it was
\* sending, or it repeats a frame whose first copy is being answered (NoRepeat).
PanicExplained ==
    \A r \in Requests : chan[r] = "panic" => rq[r].cancelled \/ rq[r].early \/ seen.stale

\* retryFrame repeats a frame on another connection, not on the one that has it,
\* unless the query was told of a disconnect its frame had no part in: a reconnect
\* emptied the map between waitResponse and the first write, or a stream error of
\* an earlier connection was still in the shared handler queue.
NoRepeat ==
    \A r \in Requests, s \in Sockets : wrote[r][s] > 1 => rq[r].early \/ seen.stale

\* After a Disconnected event the client dials again, and after every attempt that
\* fails, until it has a connection, unless a disconnect is expected, the device is
\* deleted, a connect of the user or of the 515 goroutine failed last (nobody
\* repeats those), or the bound on the sockets is reached.  That the dial ends is
\* not claimed.
RedialsAfterLoss ==
    ((\E s \in Sockets : seen.events[s] > 0) /\ cli.socket = None)
       ~> \/ cli.socket # None \/ lock.step = "dial"
          \/ cli.expected \/ cli.deleted
          \/ seen.failed \in {User, Login}
          \/ \A s \in Sockets : sock[s].conn # "new"

\* "By default, expect a disconnect (i.e. prevent auto-reconnect)": once the user
\* has called Disconnect and not Connect again, the client stays disconnected.
DisconnectStays == seen.wish = "down" => ~Live(cli.socket)
===============================================================================
