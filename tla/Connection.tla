------------------------------ MODULE Connection ------------------------------
(***************************************************************************)
(* The websocket connection of the client: connect, Disconnect,            *)
(* ResetConnection, onDisconnect and autoReconnect of client.go, the       *)
(* keepalive loop, the login and stream-error nodes of connectionevents.go *)
(* and the sockets under them (socket/framesocket.go, noisesocket.go).     *)
(*                                                                         *)
(* socketLock is held by connect from its first check to the end of the    *)
(* handshake, so everybody else waits while it dials.  The other           *)
(* operations hold it for one step.  expectedDisconnect, forceAutoReconnect*)
(* and isLoggedIn are atomics that are read and written without it.        *)
(***************************************************************************)
EXTENDS Naturals, FiniteSets, Sequences

CONSTANTS MaxSockets,   \* bound on the connections a behaviour dials
          Requests,     \* info queries (see Requests.tla)
          QueueCap,     \* capacity of handlerQueue
          Kinds,        \* the nodes the server sends
          Ops,          \* kinds of inputs
          Budgets       \* how many of each kind a behaviour may have: one of these

ASSUME SocketsAssumption == MaxSockets \in Nat \ {0} /\ QueueCap \in Nat \ {0}
ASSUME BudgetsAssumption == Budgets \subseteq [Ops -> Nat]

VARIABLES cli,      \* socket, expectedDisconnect, forceAutoReconnect, isLoggedIn, Store.Deleted
          sock,     \* the sockets, numbered in the order they are dialled
          lock,     \* the holder of socketLock and how far its connect has come
          pc,       \* the goroutines that connect
          ping,     \* the keepalive loop of each socket
          reset,    \* ResetConnection goroutines of enqueueNode not run yet
          queue,    \* handlerQueue, shared by all connections
          handling, \* the node handleNode is working on
          waiters,  \* responseWaiters: the requests with an entry
          chan,     \* the channel of each request's last waitResponse
          seen,     \* history: Disconnected events, who closed, the user's last wish, ...
          left      \* inputs not used yet

connVars == <<cli, sock, lock, pc, ping, reset, queue, handling, waiters, chan, seen, left>>

Sockets == 1..MaxSockets
None == 0

\* autoReconnect runs once per lost socket and once per failed keepalive.
Autos == {"lost", "ping"} \X Sockets
Procs == {<<"user", None>>, <<"login", None>>} \cup Autos
User == <<"user", None>>
Login == <<"login", None>>
NoProc == <<"nobody", None>>
NoNode == [kind |-> "none", from |-> None]
Nodes == [kind : Kinds, from : Sockets]

ConnTypeOK ==
    /\ cli \in [socket : {None} \cup Sockets, expected : BOOLEAN, force : BOOLEAN,
                loggedIn : BOOLEAN, deleted : BOOLEAN]
    /\ sock \in [Sockets -> [conn : {"new", "open", "dead"}, hook : BOOLEAN, destroyed : BOOLEAN,
                             notice : {"none", "remote", "local"},
                             stream : {"fresh", "in", "over"}]]
    /\ lock \in [owner : Procs \cup {NoProc}, step : {"none", "dial", "hello", "finish"},
                 fresh : {None} \cup Sockets]
    /\ pc \in [Procs -> {"idle", "wait", "lock", "connecting", "failed", "disconnect"}]
    /\ ping \in [Sockets -> {"off", "run", "failed", "reset"}]
    /\ reset \in Nat
    /\ queue \in Seq(Nodes) /\ Len(queue) <= QueueCap
    /\ handling \in Nodes \cup {NoNode}
    /\ waiters \subseteq Requests
    /\ chan \in [Requests -> {"empty", "response", "disconnect", "auth", "closed", "panic"}]
    /\ seen \in [events : [Sockets -> Nat], closedBy : [Sockets -> {"none", "remote", "disconnect", "reset"}],
                 blind : SUBSET Sockets, failed : Procs \cup {NoProc}, wish : {"up", "down"},
                 stale : BOOLEAN]
    /\ left \in [Ops -> Nat]

\* A paired device that has not connected yet.
ConnInit ==
    /\ cli = [socket |-> None, expected |-> FALSE, force |-> FALSE, loggedIn |-> FALSE,
              deleted |-> FALSE]
    /\ sock = [s \in Sockets |-> [conn |-> "new", hook |-> FALSE, destroyed |-> FALSE,
                                  notice |-> "none", stream |-> "fresh"]]
    /\ lock = [owner |-> NoProc, step |-> "none", fresh |-> None]
    /\ pc = [p \in Procs |-> IF p = User THEN "lock" ELSE "idle"]
    /\ ping = [s \in Sockets |-> "off"]
    /\ reset = 0
    /\ queue = << >> /\ handling = NoNode
    /\ waiters = {} /\ chan = [r \in Requests |-> "empty"]
    /\ seen = [events |-> [s \in Sockets |-> 0], closedBy |-> [s \in Sockets |-> "none"],
               blind |-> {}, failed |-> NoProc, wish |-> "up",
               stale |-> FALSE]
    /\ left \in Budgets
-------------------------------------------------------------------------------
Spend(k) == k \in Ops /\ left[k] > 0 /\ left' = [left EXCEPT ![k] = @ - 1]
Free == lock.owner = NoProc
Unlocked == [owner |-> NoProc, step |-> "none", fresh |-> None]
Live(s) == s # None /\ sock[s].conn = "open"

\* clearResponseWaiters: everybody in the map gets the node, and the map is gone.
ClearResponseWaiters(node) ==
    /\ chan' = [r \in Requests |-> IF r \notin waiters THEN chan[r]
                                   ELSE IF chan[r] = "empty" THEN node ELSE "closed"]
    /\ waiters' = {}

KeepWaiters == UNCHANGED <<waiters, chan>>

\* FrameSocket.Close: the first caller closes, and starts OnDisconnect if it is set.
Close(x, remote) ==
    IF x.conn # "open" THEN x
    ELSE [x EXCEPT !.conn = "dead",
                   !.notice = IF ~x.hook THEN "none" ELSE IF remote THEN "remote" ELSE "local"]

\* Mutant: the callback is always taken off.
StopSilent(x, disconnect, allowOnDisconnect) ==
    IF x.destroyed THEN x
    ELSE LET y == [x EXCEPT !.destroyed = TRUE, !.hook = FALSE]
         IN  IF disconnect THEN Close(y, FALSE) ELSE y

\* NoiseSocket.Stop: only the first call does anything.
Stop(x, disconnect, allowOnDisconnect) ==
    IF x.destroyed THEN x
    ELSE LET y == [x EXCEPT !.destroyed = TRUE, !.hook = @ /\ allowOnDisconnect]
         IN  IF disconnect THEN Close(y, FALSE) ELSE y

ClosedBy(s, who) == IF sock[s].conn = "open" THEN [seen EXCEPT !.closedBy[s] = who] ELSE seen

\* Mutant: the socket is forgotten but not stopped.
UnlockedDisconnectOpen == UNCHANGED sock /\ ClearResponseWaiters("disconnect")

\* Mutant: the waiters are not told.
UnlockedDisconnectDeaf ==
    /\ sock' = IF cli.socket = None THEN sock ELSE [sock EXCEPT ![cli.socket] = Stop(@, TRUE, FALSE)]
    /\ KeepWaiters

\* unlockedDisconnect
UnlockedDisconnect ==
    IF cli.socket = None
    THEN UNCHANGED sock /\ KeepWaiters
    ELSE /\ sock' = [sock EXCEPT ![cli.socket] = Stop(@, TRUE, FALSE)]
         /\ ClearResponseWaiters("disconnect")

\* Disconnect, under the lock; wish is what the user is known to want.
Disconnect(wish) ==
    /\ Free
    /\ cli' = [cli EXCEPT !.expected = TRUE, !.force = FALSE, !.socket = None]
    /\ UnlockedDisconnect
    /\ seen' = [seen EXCEPT !.wish = wish,
                            !.closedBy = [s \in Sockets |-> IF s = cli.socket THEN "disconnect"
                                                            ELSE @[s]]]

\* autoReconnect gives up at once without a device id.
StartAuto(p) == pc' = [pc EXCEPT ![p] = IF cli.deleted THEN "idle" ELSE "wait"]
-------------------------------------------------------------------------------
(* unlockedConnect *)

UserConnect ==
    /\ pc[User] = "idle" /\ Spend("connect")
    /\ pc' = [pc EXCEPT ![User] = "lock"]
    /\ seen' = [seen EXCEPT !.wish = "up"]
    /\ UNCHANGED <<cli, sock, lock, ping, reset, queue, handling, waiters, chan>>

\* The lock is taken and the store is deleted or the socket is open.
ConnectRefused(p) ==
    /\ pc[p] = "lock" /\ Free
    /\ cli.deleted \/ Live(cli.socket)
    /\ pc' = [pc EXCEPT ![p] = IF cli.deleted /\ p \in Autos THEN "failed" ELSE "idle"]
    /\ UNCHANGED <<cli, sock, lock, ping, reset, queue, handling, waiters, chan, seen, left>>

\* Mutant: a dead socket stays where it is.
ConnectBeginOverDead(p) ==
    /\ pc[p] = "lock" /\ Free
    /\ ~cli.deleted /\ ~Live(cli.socket)
    /\ \E s \in Sockets :
          /\ sock[s].conn = "new" /\ \A t \in Sockets : t < s => sock[t].conn # "new"
          /\ lock' = [owner |-> p, step |-> "dial", fresh |-> s]
    /\ pc' = [pc EXCEPT ![p] = "connecting"]
    /\ cli' = [cli EXCEPT !.expected = FALSE, !.force = FALSE]
    /\ UNCHANGED <<sock, ping, reset, queue, handling, waiters, chan, seen, left>>

\* A dead socket is dropped first; then the flags are reset and it dials.
ConnectBegin(p) ==
    /\ pc[p] = "lock" /\ Free
    /\ ~cli.deleted /\ ~Live(cli.socket)
    /\ \E s \in Sockets :
          /\ sock[s].conn = "new" /\ \A t \in Sockets : t < s => sock[t].conn # "new"
          /\ lock' = [owner |-> p, step |-> "dial", fresh |-> s]
    /\ pc' = [pc EXCEPT ![p] = "connecting"]
    /\ UnlockedDisconnect
    /\ cli' = [cli EXCEPT !.socket = None, !.expected = FALSE, !.force = FALSE]
    /\ UNCHANGED <<ping, reset, queue, handling, seen, left>>

DialOk ==
    /\ lock.step = "dial"
    /\ sock' = [sock EXCEPT ![lock.fresh].conn = "open"]
    /\ lock' = [lock EXCEPT !.step = "hello"]
    /\ UNCHANGED <<cli, pc, ping, reset, queue, handling, waiters, chan, seen, left>>

\* Dial or handshake fails (refused, timed out, bad certificate, closed): Close(0),
\* with no OnDisconnect yet.  Only autoReconnect looks at the error.
ConnectFail ==
    /\ lock.step \in {"dial", "hello"} /\ Spend("fail")
    /\ sock' = [sock EXCEPT ![lock.fresh] = [Close(@, TRUE) EXCEPT !.conn = "dead"]]
    /\ pc' = [pc EXCEPT ![lock.owner] = IF lock.owner \in Autos THEN "failed" ELSE "idle"]
    /\ seen' = [seen EXCEPT !.failed = lock.owner]
    /\ lock' = Unlocked
    /\ UNCHANGED <<cli, ping, reset, queue, handling, waiters, chan>>

\* A socket that died during the handshake: the answer never comes, or the last
\* SendFrame finds it closed.
HandshakeDead ==
    /\ lock.step = "hello" /\ sock[lock.fresh].conn = "dead"
    /\ pc' = [pc EXCEPT ![lock.owner] = IF lock.owner \in Autos THEN "failed" ELSE "idle"]
    /\ seen' = [seen EXCEPT !.failed = lock.owner]
    /\ lock' = Unlocked
    /\ UNCHANGED <<cli, sock, ping, reset, queue, handling, waiters, chan, left>>

\* The last handshake message goes out ...
HandshakeFinish ==
    /\ lock.step = "hello" /\ sock[lock.fresh].conn = "open"
    /\ lock' = [lock EXCEPT !.step = "finish"]
    /\ UNCHANGED <<cli, sock, pc, ping, reset, queue, handling, waiters, chan, seen, left>>

\* ... newNoiseSocket sets OnDisconnect, cli.socket is set, and the loops start.
\* A keepalive loop whose context is cancelled ends at its first select.
Install ==
    /\ lock.step = "finish"
    /\ LET s == lock.fresh
       IN  /\ sock' = [sock EXCEPT ![s].hook = TRUE]
           /\ cli' = [cli EXCEPT !.socket = s]
           /\ ping' = [ping EXCEPT ![s] = IF sock[s].conn = "open" THEN "run" ELSE "off"]
           /\ seen' = [seen EXCEPT !.blind = IF sock[s].conn = "open" THEN @ ELSE @ \cup {s},
                                   !.failed = NoProc]
    /\ pc' = [pc EXCEPT ![lock.owner] = "idle"]
    /\ lock' = Unlocked
    /\ UNCHANGED <<reset, queue, handling, waiters, chan, left>>
-------------------------------------------------------------------------------
(* autoReconnect *)

\* The delay is over, or the event ended it early.
AutoWait(p) ==
    /\ p \in Autos /\ pc[p] = "wait"
    /\ pc' = [pc EXCEPT ![p] = IF cli.expected THEN "idle" ELSE "lock"]
    /\ UNCHANGED <<cli, sock, lock, ping, reset, queue, handling, waiters, chan, seen, left>>

\* Mutant: after an error it does not dial again.
AutoFailedHangs(p) ==
    /\ p \in Autos /\ pc[p] = "failed"
    /\ UNCHANGED connVars

\* The error of connect, read after the lock is released.
AutoFailed(p) ==
    /\ p \in Autos /\ pc[p] = "failed"
    /\ pc' = [pc EXCEPT ![p] = IF cli.expected THEN "idle" ELSE "wait"]
    /\ UNCHANGED <<cli, sock, lock, ping, reset, queue, handling, waiters, chan, seen, left>>
-------------------------------------------------------------------------------
(* Losing a connection *)

\* The server or the network ends the connection: readPump returns and Close(0).
RemoteClose(s) ==
    /\ sock[s].conn = "open"
    /\ sock' = [sock EXCEPT ![s] = Close(@, TRUE)]
    /\ seen' = ClosedBy(s, "remote")
    /\ UNCHANGED <<cli, lock, pc, ping, reset, queue, handling, waiters, chan, left>>

\* Mutant: the callback of an old socket is not told apart from the current one.
OnDisconnectAny(s) ==
    /\ sock[s].notice # "none" /\ Free
    /\ sock' = [sock EXCEPT ![s] = [Stop(@, FALSE, FALSE) EXCEPT !.notice = "none"]]
    /\ cli' = [cli EXCEPT !.socket = None, !.force = FALSE]
    /\ ClearResponseWaiters("disconnect")
    /\ seen' = [seen EXCEPT !.events[s] = @ + 1]
    /\ StartAuto(<<"lost", s>>)
    /\ UNCHANGED <<lock, ping, reset, queue, handling, left>>

\* onDisconnect: an event and a reconnect if it is the current socket, no
\* disconnect is expected, and the server closed it or a reset was asked for.
OnDisconnect(s) ==
    /\ sock[s].notice # "none" /\ Free
    /\ sock' = [sock EXCEPT ![s] = [Stop(@, FALSE, FALSE) EXCEPT !.notice = "none"]]
    /\ IF cli.socket # s
       THEN UNCHANGED <<cli, waiters, chan, seen, pc>>
       ELSE /\ ClearResponseWaiters("disconnect")
            /\ IF ~cli.expected /\ (cli.force \/ sock[s].notice = "remote")
               THEN /\ cli' = [cli EXCEPT !.socket = None, !.force = FALSE]
                    /\ seen' = [seen EXCEPT !.events[s] = @ + 1]
                    /\ StartAuto(<<"lost", s>>)
               ELSE /\ cli' = [cli EXCEPT !.socket = None]
                    /\ UNCHANGED <<seen, pc>>
    /\ UNCHANGED <<lock, ping, reset, queue, handling, left>>

UserDisconnect ==
    /\ pc[User] = "idle" /\ Spend("disconnect") /\ Disconnect("down")
    /\ UNCHANGED <<lock, pc, ping, reset, queue, handling>>

\* ResetConnection: called by the user, or by enqueueNode in a goroutine.
ResetConnection ==
    /\ Free
    /\ \/ Spend("reset") /\ UNCHANGED reset
       \/ reset > 0 /\ reset' = reset - 1 /\ UNCHANGED left
    /\ cli' = [cli EXCEPT !.force = TRUE]
    /\ IF cli.socket = None
       THEN UNCHANGED <<sock, waiters, chan, seen>>
       ELSE /\ sock' = [sock EXCEPT ![cli.socket] = Stop(@, TRUE, TRUE)]
            /\ ClearResponseWaiters("disconnect")
            /\ seen' = ClosedBy(cli.socket, "reset")
    /\ UNCHANGED <<lock, pc, ping, queue, handling>>
-------------------------------------------------------------------------------
(* keepAliveLoop *)

\* Pings have failed for KeepAliveMaxFailTime and the context was still live.
KeepAliveFail(s) ==
    /\ ping[s] = "run" /\ sock[s].conn = "open" /\ Spend("ping")
    /\ ping' = [ping EXCEPT ![s] = "failed"]
    /\ UNCHANGED <<cli, sock, lock, pc, reset, queue, handling, waiters, chan, seen>>

KeepAliveDisconnect(s) ==
    /\ ping[s] = "failed" /\ Disconnect(seen.wish)
    /\ ping' = [ping EXCEPT ![s] = "reset"]
    /\ UNCHANGED <<lock, pc, reset, queue, handling, left>>

\* resetExpectedDisconnect and go autoReconnect, without the lock; the loop then
\* finds its context cancelled.
KeepAliveReset(s) ==
    /\ ping[s] = "reset"
    /\ cli' = [cli EXCEPT !.expected = FALSE, !.force = FALSE]
    /\ StartAuto(<<"ping", s>>)
    /\ ping' = [ping EXCEPT ![s] = "off"]
    /\ UNCHANGED <<sock, lock, reset, queue, handling, waiters, chan, seen, left>>
-------------------------------------------------------------------------------
(* Nodes *)

\* The server (external): a login succeeds or fails, a stream error is its last node.
ServerSends(s, k) ==
    /\ k \in {"success", "unavailable", "banned", "logout"} => sock[s].stream = "fresh"
    /\ sock[s].stream # "over"
    /\ sock' = [sock EXCEPT ![s].stream = IF k = "success" THEN "in" ELSE "over"]

\* The consumer of a socket puts a node on the queue, or finds it full.
EnqueueNode(s, k) ==
    /\ sock[s].hook /\ ~sock[s].destroyed /\ Spend(k)
    /\ ServerSends(s, k)
    /\ IF Len(queue) < QueueCap
       THEN queue' = Append(queue, [kind |-> k, from |-> s]) /\ UNCHANGED <<cli, reset>>
       ELSE /\ cli' = [cli EXCEPT !.force = TRUE]
            /\ reset' = IF cli.force THEN reset ELSE reset + 1
            /\ UNCHANGED queue
    /\ UNCHANGED <<lock, pc, ping, handling, waiters, chan, seen>>

\* handlerQueueLoop: the loop of whatever connection is up takes the next node.
TakeNode ==
    /\ handling = NoNode /\ queue # << >>
    /\ \E s \in Sockets : sock[s].hook /\ sock[s].conn = "open"
    /\ handling' = Head(queue) /\ queue' = Tail(queue)
    /\ UNCHANGED <<cli, sock, lock, pc, ping, reset, waiters, chan, seen, left>>

\* handleConnectSuccess
HandleSuccess ==
    /\ handling.kind = "success"
    /\ cli' = [cli EXCEPT !.loggedIn = TRUE]
    /\ handling' = NoNode
    /\ UNCHANGED <<sock, lock, pc, ping, reset, queue, waiters, chan, seen, left>>

\* Mutant: isLoggedIn survives a stream error.
HandleStreamErrorLoggedIn ==
    /\ handling.kind \in {"515", "401", "removed", "replaced", "error"}
    /\ ClearResponseWaiters("disconnect")
    /\ seen' = [seen EXCEPT !.stale = @ \/ handling.from # cli.socket]
    /\ handling' = NoNode
    /\ UNCHANGED <<cli, sock, lock, pc, ping, reset, queue, left>>

\* handleStreamError: 515 after pairing, device removed (the store deletion may
\* fail), replaced by another client, or anything else.  A 401 that names no
\* conflict is told to the waiters as one, and otherwise only reported.
HandleStreamError ==
    /\ handling.kind \in {"515", "401", "removed", "replaced", "error"}
    /\ ClearResponseWaiters(IF handling.kind \in {"401", "removed", "replaced"} THEN "auth" ELSE "disconnect")
    /\ \E deletes \in IF handling.kind = "removed" THEN BOOLEAN ELSE {FALSE} :
          cli' = [cli EXCEPT !.loggedIn = FALSE,
                             !.deleted = @ \/ deletes,
                             !.expected = @ \/ handling.kind \in {"removed", "replaced"},
                             !.force = @ /\ handling.kind \notin {"removed", "replaced"}]
    /\ seen' = [seen EXCEPT !.stale = @ \/ handling.from # cli.socket]
    /\ handling.kind = "515" => pc[Login] = "idle"   \* bound: one such goroutine at a time
    /\ pc' = IF handling.kind = "515" THEN [pc EXCEPT ![Login] = "disconnect"] ELSE pc
    /\ handling' = NoNode
    /\ UNCHANGED <<sock, lock, ping, reset, queue, left>>

\* The goroutine of the 515 case: Disconnect, then one connect.
LoginDisconnect ==
    /\ pc[Login] = "disconnect" /\ Disconnect(seen.wish)
    /\ pc' = [pc EXCEPT ![Login] = "lock"]
    /\ UNCHANGED <<lock, ping, reset, queue, handling, left>>

\* handleConnectFailure: temporary ones change nothing, the others expect the
\* disconnect, a logout also deletes the store.
HandleConnectFailure ==
    /\ handling.kind \in {"unavailable", "banned", "logout"}
    /\ \E deletes \in IF handling.kind = "logout" THEN BOOLEAN ELSE {FALSE} :
          cli' = IF handling.kind = "unavailable" THEN cli
                 ELSE [cli EXCEPT !.expected = TRUE, !.force = FALSE, !.deleted = @ \/ deletes]
    /\ handling' = NoNode
    /\ UNCHANGED <<sock, lock, pc, ping, reset, queue, waiters, chan, seen, left>>
-------------------------------------------------------------------------------
ConnNext ==
    \/ \E p \in Procs : ConnectRefused(p) \/ ConnectBegin(p) \/ AutoWait(p) \/ AutoFailed(p)
    \/ DialOk \/ ConnectFail \/ HandshakeDead \/ HandshakeFinish \/ Install
    \/ \E s \in Sockets : \/ RemoteClose(s) \/ OnDisconnect(s) \/ KeepAliveFail(s)
                          \/ KeepAliveDisconnect(s) \/ KeepAliveReset(s)
                          \/ \E k \in Kinds : EnqueueNode(s, k)
    \/ UserConnect \/ UserDisconnect \/ ResetConnection
    \/ TakeNode \/ HandleSuccess \/ HandleStreamError \/ LoginDisconnect \/ HandleConnectFailure
===============================================================================
