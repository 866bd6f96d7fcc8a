---------------------------- MODULE RequestsProofs ----------------------------
(***************************************************************************)
(* Requests for any number of sockets, queries and inputs: there is one    *)
(* connection, its loss is noticed once, Disconnect is silent, no query is *)
(* left waiting on a dead connection, and retryFrame repeats a frame only  *)
(* in the cases the properties name.                                       *)
(***************************************************************************)
EXTENDS Requests, SequenceTheorems, TLAPS

-------------------------------------------------------------------------------
(* The inductive invariant *)

\* socketLock: whoever holds it dials lock.fresh, and nothing is connected yet.
LockInv ==
    /\ Free <=> lock.step = "none"
    /\ Free <=> lock.fresh = None
    /\ ~Free => cli.socket = None
    /\ lock.step = "dial" => sock[lock.fresh].conn = "new"
    /\ lock.step \in {"hello", "finish"} => sock[lock.fresh].conn # "new"

\* The life of a socket: dialled, installed as cli.socket with its callback, and
\* stopped before cli.socket names another one.
SockInv ==
    \A s \in Sockets :
       /\ sock[s].conn = "new" => ~sock[s].hook /\ sock[s].stream = "fresh"
       /\ ~sock[s].hook /\ ~sock[s].destroyed => sock[s].notice = "none"
       /\ sock[s].destroyed \/ sock[s].notice # "none" => sock[s].conn = "dead"
       /\ sock[s].hook /\ ~sock[s].destroyed => s = cli.socket
       /\ sock[s].conn = "open" /\ s = cli.socket => sock[s].hook /\ ~sock[s].destroyed
       /\ s = cli.socket => sock[s].conn # "new"
       /\ s = lock.fresh => ~sock[s].hook /\ ~sock[s].destroyed

\* Sockets are numbered in the order they are dialled; the newest is the one in use.
OrderInv ==
    \A s, t \in Sockets :
       /\ s < t /\ sock[t].conn # "new" => sock[s].conn # "new"
       /\ s < t /\ s = cli.socket => sock[t].conn = "new"
       /\ s < t /\ s = lock.fresh => sock[t].conn = "new" 
       /\ s < t /\ t = lock.fresh => sock[s].conn # "new" 

\* A socket whose Disconnected event was sent is out of use.
EventInv ==
    \A s \in Sockets :
       /\ seen.events[s] > 0 => sock[s].conn = "dead" /\ sock[s].notice = "none"
                                /\ s # cli.socket /\ s # lock.fresh
       /\ sock[s].notice # "none" /\ s = cli.socket => seen.closedBy[s] \in {"remote", "reset"}

ConnInv == LockInv /\ SockInv /\ OrderInv /\ EventInv
           /\ OneConnection /\ DisconnectIsSilent /\ LossNoticed

\* Node m came before node n over handlerQueue.
Before(m, n) == \/ m.from < n.from
                \/ m.from = n.from /\ m.kind = "success" /\ n.kind # "success"

\* What a node of handlerQueue says of the socket it came from.
Sound(n) == /\ sock[n.from].conn # "new"
            /\ sock[n.from].stream = "over" \/ (n.kind = "success" /\ sock[n.from].stream = "in")

\* handlerQueue keeps the order of the connections and of each server.
NodesInv ==
    /\ \A j \in DOMAIN queue :
          /\ Sound(queue[j])
          /\ \A i \in DOMAIN queue : i < j => Before(queue[i], queue[j])
          /\ handling # NoNode => Before(handling, queue[j])
    /\ handling # NoNode => Sound(handling)

\* The stream of the connection in use ended and its login is undone.
Ended(s) ==
    /\ s = cli.socket /\ ~cli.loggedIn /\ sock[s].stream = "over"
    /\ \A j \in DOMAIN queue : s <= queue[j].from /\ ~(queue[j].from = s /\ queue[j].kind = "success")
    /\ handling # NoNode => s <= handling.from /\ ~(handling.from = s /\ handling.kind = "success")

Excused(r) == rq[r].early \/ seen.stale

\* Where query r is, and where its waiter.
WaiterInv(r) ==
    /\ r \in waiters => chan[r] = "empty" /\ r \notin taken
    /\ r \in taken => chan[r] = "empty" \/ (chan[r] = "closed" /\ rq[r].at = "failed")
    /\ chan[r] \in {"closed", "panic"} => rq[r].at = "failed"
    /\ rq[r].at \in {"socket", "write", "wait", "cancel"} /\ chan[r] = "empty"
          => r \in waiters \/ r \in taken
    /\ rq[r].at = "reconnect" => chan[r] = "disconnect" /\ rq[r].try = 1
    /\ rq[r].at = "register" => rq[r].try = 2
    /\ rq[r].try = 2 /\ rq[r].at \in {"socket", "register"} => chan[r] = "disconnect"
    /\ rq[r].at = "idle" => rq[r].try = 1 /\ r \notin waiters /\ r \notin taken
    /\ rq[r].cancelled => rq[r].at \in {"cancel", "failed"}

\* The sockets r has read or written on are in use or stopped, and r waits only
\* for the one in use.
UsedInv(r) ==
    /\ \A s \in Sockets : wrote[r][s] > 0 => s = cli.socket \/ sock[s].destroyed
    /\ rq[r].s # None => rq[r].s = cli.socket \/ sock[rq[r].s].destroyed
    /\ rq[r].at \in {"register", "write", "wait"} => rq[r].s # None
    /\ rq[r].at = "wait" /\ chan[r] = "empty" => r \in taken \/ rq[r].s = cli.socket

\* r has not yet written the frame of its current attempt.
Unsent(r) == \/ rq[r].at \in {"idle", "socket", "register", "write"}
             \/ rq[r].at = "cancel" /\ ~rq[r].cancelled

\* What r has written when it is told of a disconnect, and when it tries again.
RepeatInv(r) ==
    \A s \in Sockets :
       /\ rq[r].try = 1 => wrote[r][s] <= 1 /\ (Unsent(r) => wrote[r][s] = 0)
       /\ rq[r].try = 1 /\ chan[r] = "disconnect" /\ wrote[r][s] > 0
             => sock[s].destroyed \/ Excused(r) \/ Ended(s)
       /\ rq[r].try = 2 /\ Unsent(r) /\ wrote[r][s] > 0
             => wrote[r][s] = 1 /\ (sock[s].destroyed \/ Excused(r))
       /\ wrote[r][s] > 1 => Excused(r)

\* A response on its way to a channel that is closed, or will be.
PanicInv(r) ==
    \/ rq[r].cancelled \/ Excused(r)
    \/ chan[r] # "panic" /\ (r \in taken => chan[r] # "closed" /\ ~Unsent(r))

QueryInv == \A r \in Requests : WaiterInv(r) /\ UsedInv(r) /\ RepeatInv(r) /\ PanicInv(r)

IInv == ReqTypeOK /\ ConnInv /\ NodesInv /\ QueryInv

-------------------------------------------------------------------------------
(* Types *)

SockRec == [conn : {"new", "open", "dead"}, hook : BOOLEAN, destroyed : BOOLEAN,
            notice : {"none", "remote", "local"}, stream : {"fresh", "in", "over"}]
CliRec == [socket : {None} \cup Sockets, expected : BOOLEAN, force : BOOLEAN,
           loggedIn : BOOLEAN, deleted : BOOLEAN]
SeenRec == [events : [Sockets -> Nat],
            closedBy : [Sockets -> {"none", "remote", "disconnect", "reset"}],
            blind : SUBSET Sockets, failed : Procs \cup {NoProc}, wish : {"up", "down"},
            stale : BOOLEAN]
ChanSet == {"empty", "response", "disconnect", "auth", "closed", "panic"}
PcSet == {"idle", "wait", "lock", "connecting", "failed", "disconnect"}

\* FrameSocket.Close, by the server and by the client: what it leaves of a socket.
LEMMA CloseRemote ==
    ASSUME NEW x \in SockRec
    PROVE  /\ Close(x, TRUE) \in SockRec
           /\ x.conn # "open" => Close(x, TRUE) = x
           /\ x.conn = "open" =>
                 /\ Close(x, TRUE).conn = "dead"
                 /\ Close(x, TRUE).notice = IF x.hook THEN "remote" ELSE "none"
           /\ Close(x, TRUE).hook = x.hook /\ Close(x, TRUE).destroyed = x.destroyed
           /\ Close(x, TRUE).stream = x.stream
<1>1. CASE x.conn = "open"
  <2>1. Close(x, TRUE) = [x EXCEPT !.conn = "dead", !.notice = IF x.hook THEN "remote" ELSE "none"]
    BY <1>1 DEF Close, SockRec
  <2> QED BY <1>1, <2>1 DEF SockRec
<1>2. CASE x.conn # "open"
  BY <1>2 DEF Close
<1> QED BY <1>1, <1>2

\* frameSocket.Close by this side: an open connection dies, its callback is told so.
LEMMA CloseLocal ==
    ASSUME NEW x \in SockRec
    PROVE  /\ Close(x, FALSE) \in SockRec
           /\ x.conn # "open" => Close(x, FALSE) = x
           /\ x.conn = "open" =>
                 /\ Close(x, FALSE).conn = "dead"
                 /\ Close(x, FALSE).notice = IF x.hook THEN "local" ELSE "none"
           /\ Close(x, FALSE).hook = x.hook /\ Close(x, FALSE).destroyed = x.destroyed
           /\ Close(x, FALSE).stream = x.stream
<1>1. CASE x.conn = "open"
  <2>1. Close(x, FALSE) = [x EXCEPT !.conn = "dead", !.notice = IF x.hook THEN "local" ELSE "none"]
    BY <1>1 DEF Close, SockRec
  <2> QED BY <1>1, <2>1 DEF SockRec
<1>2. CASE x.conn # "open"
  BY <1>2 DEF Close
<1> QED BY <1>1, <1>2

\* NoiseSocket.Stop of unlockedDisconnect, of ResetConnection and of onDisconnect.
LEMMA StopDisconnect ==
    ASSUME NEW x \in SockRec
    PROVE  /\ Stop(x, TRUE, FALSE) \in SockRec
           /\ x.destroyed => Stop(x, TRUE, FALSE) = x
           /\ Stop(x, TRUE, FALSE).destroyed /\ Stop(x, TRUE, FALSE).stream = x.stream
           /\ ~x.destroyed => Stop(x, TRUE, FALSE).hook = FALSE
           /\ ~x.destroyed /\ x.conn = "open" => Stop(x, TRUE, FALSE).conn = "dead" /\ Stop(x, TRUE, FALSE).notice = "none"
           /\ x.conn # "open" => Stop(x, TRUE, FALSE).conn = x.conn /\ Stop(x, TRUE, FALSE).notice = x.notice
<1>1. CASE x.destroyed
  BY <1>1 DEF Stop, SockRec
<1>2. CASE ~x.destroyed
  <2> DEFINE y == [x EXCEPT !.destroyed = TRUE, !.hook = FALSE]
  <2>1. /\ y \in SockRec /\ y.destroyed /\ y.hook = FALSE /\ y.conn = x.conn
        /\ y.notice = x.notice /\ y.stream = x.stream
    BY DEF SockRec
  <2>2. Stop(x, TRUE, FALSE) = Close(y, FALSE)
    BY <1>2 DEF Stop, SockRec
  <2> HIDE DEF y
  <2>3. PICK z : z = Close(y, FALSE)
    OBVIOUS
  <2>4. /\ z \in SockRec /\ z.hook = y.hook /\ z.destroyed = y.destroyed /\ z.stream = y.stream
        /\ y.conn # "open" => z = y
        /\ y.conn = "open" => z.conn = "dead" /\ z.notice = IF y.hook THEN "local" ELSE "none"
    <3>1. y \in SockRec
      BY <2>1
    <3> QED BY <3>1, <2>3, CloseLocal, Zenon
  <2>5. /\ z \in SockRec /\ z.destroyed /\ z.stream = x.stream /\ z.hook = FALSE
        /\ x.conn = "open" => z.conn = "dead" /\ z.notice = "none"
        /\ x.conn # "open" => z.conn = x.conn /\ z.notice = x.notice
    BY <2>1, <2>4
  <2> QED BY <1>2, <2>2, <2>3, <2>5, Zenon
<1> QED BY <1>1, <1>2

\* noiseSocket.Stop of ResetConnection: the callback stays and will be told.
LEMMA StopReset ==
    ASSUME NEW x \in SockRec
    PROVE  /\ Stop(x, TRUE, TRUE) \in SockRec
           /\ x.destroyed => Stop(x, TRUE, TRUE) = x
           /\ Stop(x, TRUE, TRUE).destroyed /\ Stop(x, TRUE, TRUE).stream = x.stream
           /\ ~x.destroyed => Stop(x, TRUE, TRUE).hook = x.hook
           /\ ~x.destroyed /\ x.conn = "open" => Stop(x, TRUE, TRUE).conn = "dead" /\ Stop(x, TRUE, TRUE).notice = IF x.hook THEN "local" ELSE "none"
           /\ x.conn # "open" => Stop(x, TRUE, TRUE).conn = x.conn /\ Stop(x, TRUE, TRUE).notice = x.notice
<1>1. CASE x.destroyed
  BY <1>1 DEF Stop, SockRec
<1>2. CASE ~x.destroyed
  <2> DEFINE y == [x EXCEPT !.destroyed = TRUE, !.hook = x.hook]
  <2>1. /\ y \in SockRec /\ y.destroyed /\ y.hook = x.hook /\ y.conn = x.conn
        /\ y.notice = x.notice /\ y.stream = x.stream
    BY DEF SockRec
  <2>2. Stop(x, TRUE, TRUE) = Close(y, FALSE)
    BY <1>2 DEF Stop, SockRec
  <2> HIDE DEF y
  <2>3. PICK z : z = Close(y, FALSE)
    OBVIOUS
  <2>4. /\ z \in SockRec /\ z.hook = y.hook /\ z.destroyed = y.destroyed /\ z.stream = y.stream
        /\ y.conn # "open" => z = y
        /\ y.conn = "open" => z.conn = "dead" /\ z.notice = IF y.hook THEN "local" ELSE "none"
    <3>1. y \in SockRec
      BY <2>1
    <3> QED BY <3>1, <2>3, CloseLocal, Zenon
  <2>5. /\ z \in SockRec /\ z.destroyed /\ z.stream = x.stream /\ z.hook = x.hook
        /\ x.conn = "open" => z.conn = "dead" /\ z.notice = IF x.hook THEN "local" ELSE "none"
        /\ x.conn # "open" => z.conn = x.conn /\ z.notice = x.notice
    BY <2>1, <2>4
  <2> QED BY <1>2, <2>2, <2>3, <2>5, Zenon
<1> QED BY <1>1, <1>2

\* noiseSocket.Stop of a connection the other side closed: only the callback goes.
LEMMA StopLost ==
    ASSUME NEW x \in SockRec
    PROVE  /\ Stop(x, FALSE, FALSE) \in SockRec
           /\ x.destroyed => Stop(x, FALSE, FALSE) = x
           /\ Stop(x, FALSE, FALSE).destroyed /\ Stop(x, FALSE, FALSE).stream = x.stream
           /\ ~x.destroyed => Stop(x, FALSE, FALSE).hook = FALSE
           /\ Stop(x, FALSE, FALSE).conn = x.conn /\ Stop(x, FALSE, FALSE).notice = x.notice
<1>1. CASE x.destroyed
  BY <1>1 DEF Stop, SockRec
<1>2. CASE ~x.destroyed
  <2>1. Stop(x, FALSE, FALSE) = [x EXCEPT !.destroyed = TRUE, !.hook = FALSE]
    BY <1>2 DEF Stop, SockRec
  <2> QED BY <1>2, <2>1 DEF SockRec
<1> QED BY <1>1, <1>2

\* The variables, one by one.
LEMMA Types ==
    ASSUME ConnTypeOK
    PROVE  /\ cli \in CliRec /\ sock \in [Sockets -> SockRec] /\ seen \in SeenRec
           /\ lock \in [owner : Procs \cup {NoProc}, step : {"none", "dial", "hello", "finish"},
                        fresh : {None} \cup Sockets]
           /\ pc \in [Procs -> PcSet] /\ ping \in [Sockets -> {"off", "run", "failed", "reset"}]
           /\ reset \in Nat /\ queue \in Seq(Nodes) /\ Len(queue) <= QueueCap
           /\ handling \in Nodes \cup {NoNode} /\ waiters \subseteq Requests
           /\ chan \in [Requests -> ChanSet] /\ left \in [Ops -> Nat]
  BY DEF ConnTypeOK, CliRec, SockRec, SeenRec, PcSet, ChanSet

\* The same for the table of sockets.
LEMMA SockClosed ==
    ASSUME ConnTypeOK, NEW c \in Sockets, sock' = [sock EXCEPT ![c] = Close(@, TRUE)],
           sock[c].conn = "open"
    PROVE  /\ sock' \in [Sockets -> SockRec] /\ \A t \in Sockets \ {c} : sock'[t] = sock[t]
           /\ sock'[c].conn = "dead" /\ sock'[c].hook = sock[c].hook
           /\ sock'[c].destroyed = sock[c].destroyed /\ sock'[c].stream = sock[c].stream
           /\ sock'[c].notice = IF sock[c].hook THEN "remote" ELSE "none"
<1>0. sock \in [Sockets -> SockRec] /\ sock[c] \in SockRec
  BY Types
<1>1. PICK z : z = Close(sock[c], TRUE)
  OBVIOUS
<1>2. /\ z \in SockRec /\ z.conn = "dead" /\ z.hook = sock[c].hook /\ z.destroyed = sock[c].destroyed
      /\ z.stream = sock[c].stream /\ z.notice = IF sock[c].hook THEN "remote" ELSE "none"
  BY <1>0, <1>1, CloseRemote, Zenon
<1>3. sock' = [sock EXCEPT ![c] = z]
  BY <1>1, Zenon
<1> QED BY <1>0, <1>2, <1>3

\* Disconnect on one socket: it is closed and tells nobody.
LEMMA SockDropped ==
    ASSUME ConnTypeOK, NEW c \in Sockets, sock' = [sock EXCEPT ![c] = Stop(@, TRUE, FALSE)]
    PROVE  /\ sock' \in [Sockets -> SockRec] /\ \A t \in Sockets \ {c} : sock'[t] = sock[t]
           /\ sock[c].destroyed => sock' = sock
           /\ sock'[c].destroyed /\ sock'[c].stream = sock[c].stream
           /\ ~sock[c].destroyed /\ sock[c].conn = "open" =>
                 sock'[c].conn = "dead" /\ sock'[c].notice = "none"
           /\ sock[c].conn # "open" =>
                 sock'[c].conn = sock[c].conn /\ sock'[c].notice = sock[c].notice
<1>0. sock \in [Sockets -> SockRec] /\ sock[c] \in SockRec
  BY Types
<1>1. PICK z : z = Stop(sock[c], TRUE, FALSE)
  OBVIOUS
<1>2. /\ z \in SockRec /\ z.destroyed /\ z.stream = sock[c].stream
      /\ sock[c].destroyed => z = sock[c]
      /\ ~sock[c].destroyed /\ sock[c].conn = "open" => z.conn = "dead" /\ z.notice = "none"
      /\ sock[c].conn # "open" => z.conn = sock[c].conn /\ z.notice = sock[c].notice
  BY <1>0, <1>1, StopDisconnect, Zenon
<1>3. sock' = [sock EXCEPT ![c] = z]
  BY <1>1, Zenon
<1> QED BY <1>0, <1>2, <1>3

\* ResetConnection on one socket: it is closed and tells its callback.
LEMMA SockReset ==
    ASSUME ConnTypeOK, NEW c \in Sockets, sock' = [sock EXCEPT ![c] = Stop(@, TRUE, TRUE)]
    PROVE  /\ sock' \in [Sockets -> SockRec] /\ \A t \in Sockets \ {c} : sock'[t] = sock[t]
           /\ sock[c].destroyed => sock' = sock
           /\ sock'[c].destroyed /\ sock'[c].stream = sock[c].stream
           /\ ~sock[c].destroyed /\ sock[c].conn = "open" =>
                 /\ sock'[c].conn = "dead"
                 /\ sock'[c].notice = IF sock[c].hook THEN "local" ELSE "none"
           /\ sock[c].conn # "open" =>
                 sock'[c].conn = sock[c].conn /\ sock'[c].notice = sock[c].notice
<1>0. sock \in [Sockets -> SockRec] /\ sock[c] \in SockRec
  BY Types
<1>1. PICK z : z = Stop(sock[c], TRUE, TRUE)
  OBVIOUS
<1>2. /\ z \in SockRec /\ z.destroyed /\ z.stream = sock[c].stream
      /\ sock[c].destroyed => z = sock[c]
      /\ ~sock[c].destroyed /\ sock[c].conn = "open" =>
            z.conn = "dead" /\ z.notice = IF sock[c].hook THEN "local" ELSE "none"
      /\ sock[c].conn # "open" => z.conn = sock[c].conn /\ z.notice = sock[c].notice
  BY <1>0, <1>1, StopReset, Zenon
<1>3. sock' = [sock EXCEPT ![c] = z]
  BY <1>1, Zenon
<1> QED BY <1>0, <1>2, <1>3

\* onDisconnect on one socket: it is dropped and its notice is used up.
LEMMA SockLost ==
    ASSUME ConnTypeOK, NEW c \in Sockets,
           sock' = [sock EXCEPT ![c] = [Stop(@, FALSE, FALSE) EXCEPT !.notice = "none"]]
    PROVE  /\ sock' \in [Sockets -> SockRec] /\ \A t \in Sockets \ {c} : sock'[t] = sock[t]
           /\ sock'[c].destroyed /\ sock'[c].stream = sock[c].stream
           /\ sock'[c].notice = "none" /\ sock'[c].conn = sock[c].conn
<1>0. sock \in [Sockets -> SockRec] /\ sock[c] \in SockRec
  BY Types
<1>1. PICK z : z = Stop(sock[c], FALSE, FALSE)
  OBVIOUS
<1>2. z \in SockRec /\ z.destroyed /\ z.stream = sock[c].stream /\ z.conn = sock[c].conn
  BY <1>0, <1>1, StopLost, Zenon
<1>3. sock' = [sock EXCEPT ![c] = [z EXCEPT !.notice = "none"]]
  BY <1>1, Zenon
<1>4. PICK y : y = [z EXCEPT !.notice = "none"]
  OBVIOUS
<1>5. y \in SockRec /\ y.destroyed /\ y.stream = z.stream /\ y.conn = z.conn /\ y.notice = "none"
  BY <1>2, <1>4 DEF SockRec
<1>6. sock' = [sock EXCEPT ![c] = y]
  BY <1>3, <1>4, Zenon
<1> QED BY <1>0, <1>2, <1>5, <1>6

\* What the actions share: the input they use, the waiters they clear, the
\* connection they drop.
LEMMA SpendType == ASSUME ConnTypeOK, NEW k, Spend(k) PROVE left' \in [Ops -> Nat]
  BY DEF ConnTypeOK, Spend

\* clearResponseWaiters keeps the types.
LEMMA ClearType ==
    ASSUME ConnTypeOK, NEW node \in ChanSet, ClearResponseWaiters(node)
    PROVE  waiters' \subseteq Requests /\ chan' \in [Requests -> ChanSet]
  BY DEF ConnTypeOK, ClearResponseWaiters, ChanSet

\* unlockedDisconnect keeps the types.
LEMMA UnlockedDisconnectType ==
    ASSUME ConnTypeOK, UnlockedDisconnect
    PROVE  /\ sock' \in [Sockets -> SockRec]
           /\ waiters' \subseteq Requests /\ chan' \in [Requests -> ChanSet]
<1>1. CASE cli.socket = None
  BY <1>1, Types DEF UnlockedDisconnect, KeepWaiters
<1>2. CASE cli.socket # None
  <2>1. cli.socket \in Sockets
    BY <1>2, Types DEF CliRec
  <2>2. sock' = [sock EXCEPT ![cli.socket] = Stop(@, TRUE, FALSE)] /\ ClearResponseWaiters("disconnect")
    BY <1>2 DEF UnlockedDisconnect
  <2> QED BY <2>1, <2>2, SockDropped, ClearType DEF ChanSet
<1> QED BY <1>1, <1>2

\* Disconnect keeps the types.
LEMMA DisconnectType ==
    ASSUME ConnTypeOK, NEW wish \in {"up", "down"}, Disconnect(wish)
    PROVE  /\ cli' \in CliRec /\ sock' \in [Sockets -> SockRec] /\ seen' \in SeenRec
           /\ waiters' \subseteq Requests /\ chan' \in [Requests -> ChanSet]
<1>1. cli' \in CliRec
  BY Types DEF Disconnect, CliRec
<1>2. seen' \in SeenRec
  <2> DEFINE cb == [s \in Sockets |-> IF s = cli.socket THEN "disconnect" ELSE seen.closedBy[s]]
  <2>1. seen' = [seen EXCEPT !.wish = wish, !.closedBy = cb]
    BY DEF Disconnect
  <2>2. cb \in [Sockets -> {"none", "remote", "disconnect", "reset"}]
    BY Types DEF SeenRec
  <2> HIDE DEF cb
  <2> QED BY <2>1, <2>2, Types DEF SeenRec
<1> QED BY <1>1, <1>2, UnlockedDisconnectType DEF Disconnect

\* Every step of the connection keeps the types.
LEMMA ConnTypeStep == ConnTypeOK /\ LockInv /\ ConnNext => ConnTypeOK'
<1> SUFFICES ASSUME ConnTypeOK, LockInv, ConnNext PROVE ConnTypeOK'
  OBVIOUS
<1> DEFINE LockRec == [owner : Procs \cup {NoProc}, step : {"none", "dial", "hello", "finish"},
                       fresh : {None} \cup Sockets]
           Kept == /\ cli' \in CliRec /\ sock' \in [Sockets -> SockRec] /\ seen' \in SeenRec
                   /\ lock' \in LockRec /\ pc' \in [Procs -> PcSet]
                   /\ ping' \in [Sockets -> {"off", "run", "failed", "reset"}]
                   /\ reset' \in Nat /\ queue' \in Seq(Nodes) /\ Len(queue') <= QueueCap
                   /\ handling' \in Nodes \cup {NoNode} /\ waiters' \subseteq Requests
                   /\ chan' \in [Requests -> ChanSet] /\ left' \in [Ops -> Nat]
<1>0. /\ cli \in CliRec /\ sock \in [Sockets -> SockRec] /\ seen \in SeenRec
      /\ lock \in LockRec /\ pc \in [Procs -> PcSet]
      /\ ping \in [Sockets -> {"off", "run", "failed", "reset"}]
      /\ reset \in Nat /\ queue \in Seq(Nodes) /\ Len(queue) <= QueueCap
      /\ handling \in Nodes \cup {NoNode} /\ waiters \subseteq Requests
      /\ chan \in [Requests -> ChanSet] /\ left \in [Ops -> Nat]
  BY Types
<1>k. ASSUME Kept PROVE ConnTypeOK'
  BY <1>k DEF ConnTypeOK, CliRec, SockRec, SeenRec, PcSet, ChanSet
<1> SUFFICES Kept
  BY <1>k
<1>1. ASSUME NEW p \in Procs, ConnectRefused(p) \/ AutoWait(p) \/ AutoFailed(p) PROVE Kept
  BY <1>0, <1>1 DEF ConnectRefused, AutoWait, AutoFailed, PcSet
<1>2. ASSUME NEW p \in Procs, ConnectBegin(p) PROVE Kept
  <2>1. cli' \in CliRec
    BY <1>0, <1>2 DEF ConnectBegin, CliRec
  <2>2. pc' \in [Procs -> PcSet]
    BY <1>0, <1>2 DEF ConnectBegin, PcSet
  <2>3. lock' \in LockRec
    <3>1. PICK s \in Sockets : lock' = [owner |-> p, step |-> "dial", fresh |-> s]
      BY <1>2 DEF ConnectBegin
    <3> QED BY <3>1
  <2> QED BY <1>0, <1>2, <2>1, <2>2, <2>3, UnlockedDisconnectType DEF ConnectBegin
<1>3. CASE DialOk
  <2>0. lock.fresh \in Sockets
    BY <1>0, <1>3 DEF DialOk, LockInv
  <2>1. sock' \in [Sockets -> SockRec]
    <3>1. sock' = [sock EXCEPT ![lock.fresh] = [@ EXCEPT !.conn = "open"]]
      BY <1>3 DEF DialOk
    <3>2. [sock[lock.fresh] EXCEPT !.conn = "open"] \in SockRec
      <4>1. sock[lock.fresh] \in SockRec
        BY <1>0, <2>0
      <4> QED BY <4>1 DEF SockRec
    <3> QED BY <1>0, <2>0, <3>1, <3>2
  <2>2. lock' \in LockRec
    BY <1>0, <1>3 DEF DialOk
  <2> QED BY <1>0, <1>3, <2>1, <2>2 DEF DialOk
<1>4. CASE ConnectFail
  <2>1. sock' \in [Sockets -> SockRec]
    <3>1. lock.fresh \in Sockets
      BY <1>0, <1>4 DEF ConnectFail, LockInv
    <3>2. Close(sock[lock.fresh], TRUE) \in SockRec
      <4>1. sock[lock.fresh] \in SockRec
        BY <1>0, <3>1
      <4> QED BY <4>1, CloseRemote, Zenon
    <3>3. [Close(sock[lock.fresh], TRUE) EXCEPT !.conn = "dead"] \in SockRec
      BY <3>2 DEF SockRec
    <3> QED BY <1>0, <1>4, <3>1, <3>3 DEF ConnectFail
  <2>2. lock' \in LockRec /\ pc' \in [Procs -> PcSet] /\ seen' \in SeenRec
    BY <1>0, <1>4 DEF ConnectFail, Unlocked, SeenRec, PcSet
  <2> QED BY <1>0, <1>4, <2>1, <2>2, SpendType DEF ConnectFail
<1>5. CASE HandshakeDead
  BY <1>0, <1>5 DEF HandshakeDead, Unlocked, SeenRec, PcSet
<1>6. CASE HandshakeFinish
  BY <1>0, <1>6 DEF HandshakeFinish
<1>7. CASE Install
  <2>0. lock.fresh \in Sockets
    BY <1>0, <1>7 DEF Install, LockInv
  <2>1. sock' \in [Sockets -> SockRec]
    <3>1. sock' = [sock EXCEPT ![lock.fresh] = [@ EXCEPT !.hook = TRUE]]
      BY <1>7 DEF Install
    <3>2. [sock[lock.fresh] EXCEPT !.hook = TRUE] \in SockRec
      <4>1. sock[lock.fresh] \in SockRec
        BY <1>0, <2>0
      <4> QED BY <4>1 DEF SockRec
    <3> QED BY <1>0, <2>0, <3>1, <3>2
  <2>2. cli' \in CliRec /\ seen' \in SeenRec
    BY <1>0, <1>7, <2>0 DEF Install, CliRec, SeenRec
  <2>3. lock' \in LockRec /\ pc' \in [Procs -> PcSet]
        /\ ping' \in [Sockets -> {"off", "run", "failed", "reset"}]
    BY <1>0, <1>7 DEF Install, Unlocked, PcSet
  <2> QED BY <1>0, <1>7, <2>1, <2>2, <2>3 DEF Install
<1>8. ASSUME NEW s \in Sockets, RemoteClose(s) PROVE Kept
  <2>1. sock' \in [Sockets -> SockRec]
    BY <1>8, SockClosed DEF RemoteClose
  <2>2. seen' \in SeenRec
    BY <1>0, <1>8 DEF RemoteClose, ClosedBy, SeenRec
  <2> QED BY <1>0, <1>8, <2>1, <2>2 DEF RemoteClose
<1>9. ASSUME NEW s \in Sockets, OnDisconnect(s) PROVE Kept
  <2>1. sock' \in [Sockets -> SockRec]
    BY <1>9, SockLost DEF OnDisconnect
  <2>2. cli' \in CliRec
    BY <1>0, <1>9 DEF OnDisconnect, CliRec
  <2>3. seen' \in SeenRec
    <3>1. CASE seen' = seen
      BY <1>0, <3>1
    <3>2. CASE seen' # seen
      <4>1. seen' = [seen EXCEPT !.events[s] = @ + 1]
        BY <1>9, <3>2, Zenon DEF OnDisconnect
      <4>2. PICK e : e = [seen.events EXCEPT ![s] = @ + 1]
        OBVIOUS
      <4>3. e \in [Sockets -> Nat]
        BY <1>0, <4>2 DEF SeenRec
      <4>4. seen' = [seen EXCEPT !.events = e]
        BY <1>0, <4>1, <4>2 DEF SeenRec
      <4> QED BY <1>0, <4>3, <4>4 DEF SeenRec
    <3> QED BY <3>1, <3>2
  <2>4. pc' \in [Procs -> PcSet]
    BY <1>0, <1>9 DEF OnDisconnect, StartAuto, PcSet
  <2>5. waiters' \subseteq Requests /\ chan' \in [Requests -> ChanSet]
    BY <1>0, <1>9, ClearType DEF OnDisconnect, ChanSet
  <2> QED BY <1>0, <1>9, <2>1, <2>2, <2>3, <2>4, <2>5 DEF OnDisconnect
<1>10. CASE UserDisconnect
  BY <1>0, <1>10, DisconnectType, SpendType DEF UserDisconnect
<1>11. ASSUME NEW s \in Sockets, KeepAliveDisconnect(s) PROVE Kept
  <2>1. seen.wish \in {"up", "down"}
    BY <1>0 DEF SeenRec
  <2> QED BY <1>0, <1>11, <2>1, DisconnectType DEF KeepAliveDisconnect
<1>12. CASE LoginDisconnect
  <2>1. seen.wish \in {"up", "down"}
    BY <1>0 DEF SeenRec
  <2>2. pc' \in [Procs -> PcSet]
    BY <1>0, <1>12 DEF LoginDisconnect, PcSet
  <2> QED BY <1>0, <1>12, <2>1, <2>2, DisconnectType DEF LoginDisconnect
<1>13. CASE ResetConnection
  <2>1. cli' \in CliRec
    BY <1>0, <1>13 DEF ResetConnection, CliRec
  <2>2. left' \in [Ops -> Nat] /\ reset' \in Nat
    <3>1. CASE reset' = reset
      BY <1>0, <1>13, <3>1, SpendType DEF ResetConnection
    <3>2. CASE reset' # reset
      BY <1>0, <1>13, <3>2 DEF ResetConnection
    <3> QED BY <3>1, <3>2
  <2>3. /\ sock' \in [Sockets -> SockRec] /\ seen' \in SeenRec
        /\ waiters' \subseteq Requests /\ chan' \in [Requests -> ChanSet]
    <3>1. CASE cli.socket = None
      BY <1>0, <1>13, <3>1 DEF ResetConnection
    <3>2. CASE cli.socket # None
      <4>1. PICK c \in Sockets : c = cli.socket
        BY <1>0, <3>2 DEF CliRec
      <4>2. sock' = [sock EXCEPT ![c] = Stop(@, TRUE, TRUE)] /\ ClearResponseWaiters("disconnect")
            /\ seen' = ClosedBy(c, "reset")
        BY <1>13, <3>2, <4>1, Zenon DEF ResetConnection
      <4>3. seen' \in SeenRec
        <5>1. CASE sock[c].conn = "open"
          <6>1. seen' = [seen EXCEPT !.closedBy = [@ EXCEPT ![c] = "reset"]]
            BY <4>2, <5>1 DEF ClosedBy
          <6>2. [seen.closedBy EXCEPT ![c] = "reset"] \in
                   [Sockets -> {"none", "remote", "disconnect", "reset"}]
            BY <1>0 DEF SeenRec
          <6> QED BY <1>0, <6>1, <6>2 DEF SeenRec
        <5>2. CASE sock[c].conn # "open"
          BY <1>0, <4>2, <5>2 DEF ClosedBy
        <5> QED BY <5>1, <5>2
      <4> QED BY <4>2, <4>3, SockReset, ClearType DEF ChanSet
    <3> QED BY <3>1, <3>2
  <2> QED BY <1>0, <1>13, <2>1, <2>2, <2>3 DEF ResetConnection
<1>14. ASSUME NEW s \in Sockets, KeepAliveFail(s) PROVE Kept
  BY <1>0, <1>14, SpendType DEF KeepAliveFail
<1>15. ASSUME NEW s \in Sockets, KeepAliveReset(s) PROVE Kept
  <2>1. cli' \in CliRec
    BY <1>0, <1>15 DEF KeepAliveReset, CliRec
  <2> QED BY <1>0, <1>15, <2>1 DEF KeepAliveReset, StartAuto, PcSet
<1>16. ASSUME NEW s \in Sockets, NEW k \in Kinds, EnqueueNode(s, k) PROVE Kept
  <2>1. sock' \in [Sockets -> SockRec]
    <3>1. PICK v \in {"in", "over"} : sock' = [sock EXCEPT ![s].stream = v]
      BY <1>16 DEF EnqueueNode, ServerSends
    <3>2. [sock[s] EXCEPT !.stream = v] \in SockRec
      <4>1. sock[s] \in SockRec
        BY <1>0
      <4> QED BY <4>1 DEF SockRec
    <3> QED BY <1>0, <3>1, <3>2
  <2>2. cli' \in CliRec
    BY <1>0, <1>16 DEF EnqueueNode, CliRec
  <2>3. reset' \in Nat
    <3>1. reset' = reset \/ reset' = reset + 1
      BY <1>16 DEF EnqueueNode
    <3> QED BY <1>0, <3>1
  <2>4. queue' \in Seq(Nodes) /\ Len(queue') <= QueueCap
    <3>1. CASE Len(queue) < QueueCap
      <4>1. [kind |-> k, from |-> s] \in Nodes
        BY DEF Nodes
      <4>2. queue' = Append(queue, [kind |-> k, from |-> s])
        BY <1>16, <3>1 DEF EnqueueNode
      <4> QED BY <1>0, <3>1, <4>1, <4>2, AppendProperties, LenProperties, SocketsAssumption
    <3>2. CASE ~(Len(queue) < QueueCap)
      BY <1>0, <1>16, <3>2 DEF EnqueueNode
    <3> QED BY <3>1, <3>2
  <2> QED BY <1>0, <1>16, <2>1, <2>2, <2>3, <2>4, SpendType DEF EnqueueNode
<1>17. CASE UserConnect
  <2>1. seen' \in SeenRec /\ pc' \in [Procs -> PcSet]
    BY <1>0, <1>17 DEF UserConnect, SeenRec, PcSet
  <2> QED BY <1>0, <1>17, <2>1, SpendType DEF UserConnect
<1>18. CASE TakeNode
  <2>1. Head(queue) \in Nodes /\ Tail(queue) \in Seq(Nodes) /\ Len(Tail(queue)) <= QueueCap
    BY <1>0, <1>18, HeadTailProperties, LenProperties, SocketsAssumption DEF TakeNode
  <2> QED BY <1>0, <1>18, <2>1 DEF TakeNode
<1>19. CASE HandleSuccess
  <2>1. cli' \in CliRec
    BY <1>0, <1>19 DEF HandleSuccess, CliRec
  <2> QED BY <1>0, <1>19, <2>1 DEF HandleSuccess
<1>20. CASE HandleStreamError
  <2>1. cli' \in CliRec
    <3>1. PICK deletes \in BOOLEAN :
            cli' = [cli EXCEPT !.loggedIn = FALSE, !.deleted = @ \/ deletes,
                               !.expected = @ \/ handling.kind \in {"removed", "replaced"},
                               !.force = @ /\ handling.kind \notin {"removed", "replaced"}]
      BY <1>20 DEF HandleStreamError
    <3> QED BY <1>0, <3>1 DEF CliRec
  <2>2. seen' \in SeenRec
    BY <1>0, <1>20 DEF HandleStreamError, SeenRec
  <2>3. waiters' \subseteq Requests /\ chan' \in [Requests -> ChanSet]
    BY <1>0, <1>20, ClearType DEF HandleStreamError, ChanSet
  <2>4. pc' \in [Procs -> PcSet]
    BY <1>0, <1>20 DEF HandleStreamError, PcSet
  <2> QED BY <1>0, <1>20, <2>1, <2>2, <2>3, <2>4 DEF HandleStreamError
<1>21. CASE HandleConnectFailure
  <2>1. cli' \in CliRec
    BY <1>0, <1>21 DEF HandleConnectFailure, CliRec
  <2> QED BY <1>0, <1>21, <2>1 DEF HandleConnectFailure
<1> QED
  BY <1>1, <1>2, <1>3, <1>4, <1>5, <1>6, <1>7, <1>8, <1>9, <1>10, <1>11, <1>12, <1>13, <1>14,
     <1>15, <1>16, <1>17, <1>18, <1>19, <1>20, <1>21 DEF ConnNext

RqRec == [at : {"idle", "socket", "register", "write", "cancel", "wait", "reconnect", "done", "failed"},
          s : {None} \cup Sockets, try : 1..2, cancelled : BOOLEAN, early : BOOLEAN]

\* The fields of the variables.
LEMMA ReqTypes ==
    ASSUME ReqTypeOK
    PROVE  /\ ConnTypeOK /\ rq \in [Requests -> RqRec] /\ taken \subseteq Requests
           /\ wrote \in [Requests -> [Sockets -> Nat]]
  BY DEF ReqTypeOK, RqRec

\* Every step of a query keeps the types.
LEMMA ReqTypeStep == ReqTypeOK /\ ReqNext => ReqTypeOK'
<1> SUFFICES ASSUME ReqTypeOK, NEW r \in Requests,
                    \/ Begin(r) \/ ReadSocket(r) \/ Register(r) \/ SendFrame(r)
                    \/ CancelResponse(r) \/ ReceiveResponse(r) \/ DeliverResponse(r)
                    \/ Answered(r) \/ TimedOut(r) \/ Reconnected(r)
             PROVE  ReqTypeOK'
  BY DEF ReqNext
<1>0. /\ ConnTypeOK /\ rq \in [Requests -> RqRec] /\ taken \subseteq Requests
      /\ wrote \in [Requests -> [Sockets -> Nat]]
      /\ waiters \subseteq Requests /\ chan \in [Requests -> ChanSet] /\ left \in [Ops -> Nat]
      /\ cli \in CliRec
  BY ReqTypes, Types
<1>k. ASSUME rq' \in [Requests -> RqRec], taken' \subseteq Requests,
             wrote' \in [Requests -> [Sockets -> Nat]], KeepConn,
             waiters' \subseteq Requests, chan' \in [Requests -> ChanSet], left' \in [Ops -> Nat]
      PROVE  ReqTypeOK'
  BY <1>0, <1>k DEF ReqTypeOK, ConnTypeOK, KeepConn, RqRec, ChanSet
<1>g. ASSUME NEW at, Go(r, at), at \in {"idle", "socket", "register", "write", "cancel", "wait",
                                          "reconnect", "done", "failed"}
      PROVE  rq' \in [Requests -> RqRec]
  BY <1>0, <1>g DEF Go, RqRec
<1>w. WaitResponse(r) => waiters' \subseteq Requests /\ chan' \in [Requests -> ChanSet]
  BY <1>0 DEF WaitResponse, ChanSet
<1>1. CASE Begin(r)
  <2>1. left' \in [Ops -> Nat]
    BY <1>0, <1>1, SpendType DEF Begin
  <2> QED BY <1>0, <1>1, <1>k, <1>g, <1>w, <2>1 DEF Begin
<1>2. CASE ReadSocket(r)
  <2>1. rq' \in [Requests -> RqRec]
    <3>1. PICK a \in {"cancel", "write", "failed", "register"} :
             rq' = [rq EXCEPT ![r].s = cli.socket, ![r].at = a]
      BY <1>2, Zenon DEF ReadSocket
    <3>2. cli.socket \in {None} \cup Sockets /\ rq[r] \in RqRec
      BY <1>0 DEF CliRec
    <3> QED BY <1>0, <3>1, <3>2 DEF RqRec
  <2> QED BY <1>0, <1>2, <1>k, <2>1 DEF ReadSocket
<1>3. CASE Register(r)
  BY <1>0, <1>3, <1>k, <1>g, <1>w DEF Register
<1>4. CASE SendFrame(r)
  <2>1. rq' \in [Requests -> RqRec] /\ wrote' \in [Requests -> [Sockets -> Nat]]
        /\ left' \in [Ops -> Nat]
    <3>1. CASE Go(r, "cancel") /\ UNCHANGED <<wrote, left>>
      BY <1>0, <1>g, <3>1
    <3>2. CASE /\ Spend("cancel")
               /\ rq' = [rq EXCEPT ![r].at = "cancel", ![r].cancelled = TRUE]
               /\ UNCHANGED wrote
      BY <1>0, <3>2, SpendType DEF RqRec
    <3>3. CASE /\ wrote' = [wrote EXCEPT ![r][rq[r].s] = @ + 1]
               /\ \E cancels \in BOOLEAN :
                     /\ IF cancels THEN Spend("cancel") ELSE UNCHANGED left
                     /\ rq' = [rq EXCEPT ![r].at = IF cancels THEN "cancel" ELSE "wait",
                                         ![r].cancelled = cancels,
                                         ![r].early = @ \/ r \notin waiters]
      <4>1. PICK cancels \in BOOLEAN :
                     /\ IF cancels THEN Spend("cancel") ELSE UNCHANGED left
                     /\ rq' = [rq EXCEPT ![r].at = IF cancels THEN "cancel" ELSE "wait",
                                         ![r].cancelled = cancels,
                                         ![r].early = @ \/ r \notin waiters]
        BY <3>3
      <4>2. left' \in [Ops -> Nat]
        BY <1>0, <4>1, SpendType
      <4>3. rq' \in [Requests -> RqRec]
        <5>0. rq[r] \in RqRec
          BY <1>0
        <5>1. PICK a \in {"cancel", "wait"} : a = IF cancels THEN "cancel" ELSE "wait"
          OBVIOUS
        <5>2. PICK e \in BOOLEAN : e = (rq[r].early \/ r \notin waiters)
          OBVIOUS
        <5>3. rq' = [rq EXCEPT ![r].at = a, ![r].cancelled = cancels, ![r].early = e]
          BY <4>1, <5>1, <5>2
        <5> QED BY <1>0, <5>0, <5>3 DEF RqRec
      <4>4. wrote' \in [Requests -> [Sockets -> Nat]]
        <5>1. PICK w : w = [wrote[r] EXCEPT ![rq[r].s] = @ + 1]
          OBVIOUS
        <5>2. w \in [Sockets -> Nat]
          <6>0. wrote[r] \in [Sockets -> Nat]
            BY <1>0
          <6>1. CASE rq[r].s \in Sockets
            BY <5>1, <6>0, <6>1
          <6>2. CASE rq[r].s \notin Sockets
            BY <5>1, <6>0, <6>2
          <6> QED BY <6>1, <6>2
        <5>3. wrote' = [wrote EXCEPT ![r] = w]
          BY <1>0, <3>3, <5>1
        <5> QED BY <1>0, <5>2, <5>3
      <4> QED BY <4>2, <4>3, <4>4
    <3> QED BY <1>4, <3>1, <3>2, <3>3 DEF SendFrame
  <2> QED BY <1>0, <1>4, <1>k, <2>1 DEF SendFrame
<1>5. CASE CancelResponse(r)
  <2>1. chan' \in [Requests -> ChanSet]
    BY <1>0, <1>5 DEF CancelResponse, ChanSet
  <2> QED BY <1>0, <1>5, <1>k, <1>g, <2>1 DEF CancelResponse
<1>6. CASE ReceiveResponse(r)
  BY <1>0, <1>6, <1>k DEF ReceiveResponse
<1>7. CASE DeliverResponse(r)
  <2>1. chan' \in [Requests -> ChanSet]
    BY <1>0, <1>7 DEF DeliverResponse, ChanSet
  <2> QED BY <1>0, <1>7, <1>k, <2>1 DEF DeliverResponse
<1>8. CASE Answered(r)
  BY <1>0, <1>8, <1>k, <1>g DEF Answered
<1>9. CASE TimedOut(r)
  <2>1. left' \in [Ops -> Nat]
    BY <1>0, <1>9, SpendType DEF TimedOut
  <2> QED BY <1>0, <1>9, <1>k, <1>g, <2>1 DEF TimedOut
<1>10. CASE Reconnected(r)
  <2>1. CASE Go(r, "failed")
    BY <1>0, <1>10, <1>k, <1>g, <2>1 DEF Reconnected
  <2>2. CASE rq' = [rq EXCEPT ![r].at = "socket", ![r].try = 2]
    <3>1. rq' \in [Requests -> RqRec]
      <4>1. rq[r] \in RqRec /\ 2 \in 1..2
        BY <1>0
      <4> QED BY <1>0, <2>2, <4>1 DEF RqRec
    <3> QED BY <1>0, <1>10, <1>k, <3>1 DEF Reconnected
  <2> QED BY <1>10, <2>1, <2>2 DEF Reconnected
<1> QED BY <1>1, <1>2, <1>3, <1>4, <1>5, <1>6, <1>7, <1>8, <1>9, <1>10

\* Every step keeps the types.
LEMMA TypeStep == ReqTypeOK /\ LockInv /\ [Next]_vars => ReqTypeOK'
<1> SUFFICES ASSUME ReqTypeOK, LockInv, [Next]_vars PROVE ReqTypeOK'
  OBVIOUS
<1>1. CASE ConnNext /\ UNCHANGED reqVars
  <2>1. ConnTypeOK'
    BY <1>1, ConnTypeStep DEF ReqTypeOK
  <2> QED BY <1>1, <2>1 DEF ReqTypeOK, reqVars
<1>2. CASE ReqNext
  BY <1>2, ReqTypeStep
<1>3. CASE UNCHANGED vars
  BY <1>3 DEF vars, ReqTypeOK, ConnTypeOK
<1> QED BY <1>1, <1>2, <1>3 DEF Next

-------------------------------------------------------------------------------
(* The connection *)

\* A step that leaves cli.socket, the lock and the sockets as they are, but for
\* the stream of one that has been dialled.
LEMMA ConnKept ==
    ASSUME ConnInv, cli'.socket = cli.socket, lock' = lock,
           seen'.events = seen.events, seen'.closedBy = seen.closedBy, seen'.blind = seen.blind,
           \A s \in Sockets :
              /\ sock'[s].conn = sock[s].conn /\ sock'[s].hook = sock[s].hook
              /\ sock'[s].destroyed = sock[s].destroyed /\ sock'[s].notice = sock[s].notice
              /\ sock'[s].stream = sock[s].stream \/ sock[s].conn # "new",
           cli.socket \in {None} \cup Sockets, lock.fresh \in {None} \cup Sockets
    PROVE  ConnInv'
<1>1. LockInv'
  BY DEF ConnInv, LockInv, Free
<1>2. SockInv'
  BY DEF ConnInv, SockInv
<1>3. OrderInv'
  BY DEF ConnInv, OrderInv
<1>4. EventInv' /\ DisconnectIsSilent'
  BY DEF ConnInv, EventInv, DisconnectIsSilent
<1>5. OneConnection' /\ LossNoticed'
  BY DEF ConnInv, OneConnection, LossNoticed
<1> QED BY <1>1, <1>2, <1>3, <1>4, <1>5 DEF ConnInv

\* None is no socket, and nobody is no process.
LEMMA SocketNumbers == None \in Nat /\ None \notin Sockets /\ \A s \in Sockets : s \in Nat
  BY SocketsAssumption DEF Sockets, None

\* The mark for no lock holder is no goroutine.
LEMMA NobodyElse == NoProc \notin Procs
  BY DEF NoProc, Procs, Autos

\* connect: a socket is dialled, shaken hands with, and installed, while nobody
\* else can get at cli.socket.
LEMMA ConnectConn ==
    ASSUME ConnTypeOK, ConnInv, ConnTypeOK',
           (\E p \in Procs : ConnectBegin(p)) \/ DialOk \/ ConnectFail \/ HandshakeDead
              \/ HandshakeFinish \/ Install
    PROVE  ConnInv'
<1> USE DEF ConnInv
<1>0. /\ cli.socket \in {None} \cup Sockets /\ cli.socket \in Nat
      /\ lock.fresh \in {None} \cup Sockets /\ lock.fresh \in Nat
      /\ sock \in [Sockets -> SockRec] /\ sock' \in [Sockets -> SockRec]
      /\ None \notin Sockets /\ \A s \in Sockets : s \in Nat
      /\ lock \in [owner : Procs \cup {NoProc}, step : {"none", "dial", "hello", "finish"},
                        fresh : {None} \cup Sockets]
      /\ cli \in CliRec /\ seen \in SeenRec
      /\ NoProc \notin Procs
  <2>1. sock' \in [Sockets -> SockRec]
    BY DEF ConnTypeOK, SockRec
  <2>2. cli.socket \in {None} \cup Sockets
    BY Types DEF CliRec
  <2> QED BY <2>1, <2>2, Types, SocketNumbers, NobodyElse
<1>1. ASSUME NEW p \in Procs, ConnectBegin(p) PROVE ConnInv'
  <2>1. PICK f \in Sockets :
           /\ sock[f].conn = "new" /\ \A t \in Sockets : t < f => sock[t].conn # "new"
           /\ lock' = [owner |-> p, step |-> "dial", fresh |-> f]
    BY <1>1 DEF ConnectBegin
  <2>2. /\ lock.fresh = None /\ Free /\ cli'.socket = None /\ seen' = seen
        /\ cli.socket # None => sock[cli.socket].conn # "open"
    BY <1>0, <1>1 DEF ConnectBegin, LockInv, Live, CliRec
  <2>3. /\ lock'.owner = p /\ lock'.step = "dial" /\ lock'.fresh = f /\ p # NoProc /\ f # None
    BY <1>0, <2>1
  <2>4. \A s \in Sockets :
           /\ sock'[s].conn = sock[s].conn /\ sock'[s].notice = sock[s].notice
           /\ sock'[s].stream = sock[s].stream
           /\ s # cli.socket => sock'[s] = sock[s]
           /\ s = cli.socket => sock'[s].destroyed
    <3>1. CASE cli.socket = None
      BY <1>0, <1>1, <3>1 DEF ConnectBegin, UnlockedDisconnect
    <3>2. CASE cli.socket # None
      <4>1. PICK c \in Sockets : c = cli.socket /\ sock' = [sock EXCEPT ![c] = Stop(@, TRUE, FALSE)]
        BY <1>0, <1>1, <3>2, Zenon DEF ConnectBegin, UnlockedDisconnect
      <4> QED BY <1>0, <2>2, <4>1, SockDropped
    <3> QED BY <3>1, <3>2
  <2>5. f # cli.socket
    BY <2>1 DEF SockInv
  <2>6. LockInv'
    BY <2>1, <2>2, <2>3, <2>4 DEF LockInv, Free
  <2>7. SockInv'
    <3>1. \A s \in Sockets : sock[s].conn \in {"new", "open", "dead"}
      BY <1>0 DEF SockRec
    <3>2. ASSUME NEW s \in Sockets, s = cli.socket
          PROVE  sock'[s].conn = "dead" /\ sock'[s].destroyed
      BY <2>2, <2>4, <3>1, <3>2 DEF SockInv
    <3>3. ASSUME NEW s \in Sockets, s # cli.socket
          PROVE  sock'[s] = sock[s] /\ ~(sock[s].hook /\ ~sock[s].destroyed)
      BY <2>4, <3>3 DEF SockInv
    <3>4. ~sock[f].hook /\ ~sock[f].destroyed
      BY <2>1 DEF SockInv
    <3> QED BY <1>0, <2>1, <2>2, <2>3, <2>5, <3>2, <3>3, <3>4 DEF SockInv
  <2>8. OrderInv'
    BY <1>0, <2>1, <2>2, <2>3, <2>4 DEF OrderInv
  <2>9. EventInv' /\ DisconnectIsSilent'
    BY <1>0, <2>1, <2>2, <2>3, <2>4 DEF EventInv, DisconnectIsSilent
  <2>10. OneConnection' /\ LossNoticed'
    BY <1>0, <2>2, <2>3, <2>4 DEF OneConnection, LossNoticed
  <2> QED BY <2>6, <2>7, <2>8, <2>9, <2>10
<1>2. CASE DialOk \/ ConnectFail \/ HandshakeDead \/ HandshakeFinish \/ Install
  <2>1. /\ lock.step # "none" /\ lock.owner # NoProc /\ cli.socket = None /\ lock.fresh \in Sockets
    BY <1>0, <1>2 DEF DialOk, ConnectFail, HandshakeDead, HandshakeFinish, Install, LockInv, Free
  <2>2. PICK f \in Sockets : f = lock.fresh
    BY <2>1
  <2>3. CASE DialOk
    <3>1. /\ lock'.owner = lock.owner /\ lock'.step = "hello" /\ lock'.fresh = f
          /\ UNCHANGED <<cli, seen>> /\ sock[f].conn = "new"
      BY <1>0, <2>2, <2>3 DEF DialOk, LockInv
    <3>2. /\ sock'[f].conn = "open" /\ sock'[f].hook = sock[f].hook
          /\ sock'[f].destroyed = sock[f].destroyed /\ sock'[f].notice = sock[f].notice
          /\ \A t \in Sockets \ {f} : sock'[t] = sock[t]
      BY <1>0, <2>2, <2>3 DEF DialOk, SockRec
    <3>3. LockInv'
      BY <2>1, <2>2, <3>1, <3>2 DEF LockInv, Free
    <3>4. SockInv'
      BY <1>0, <2>1, <2>2, <3>1, <3>2 DEF SockInv
    <3>5. OrderInv'
      BY <1>0, <2>1, <2>2, <3>1, <3>2 DEF OrderInv
    <3>6. EventInv' /\ DisconnectIsSilent'
      BY <1>0, <2>1, <2>2, <3>1, <3>2 DEF EventInv, DisconnectIsSilent
    <3>7. OneConnection' /\ LossNoticed'
      BY <1>0, <2>1, <2>2, <3>1, <3>2 DEF OneConnection, LossNoticed
    <3> QED BY <3>3, <3>4, <3>5, <3>6, <3>7
  <2>4. CASE ConnectFail \/ HandshakeDead
    <3>1. /\ lock'.owner = NoProc /\ lock'.step = "none" /\ lock'.fresh = None
          /\ cli' = cli /\ seen'.events = seen.events /\ seen'.closedBy = seen.closedBy
          /\ seen'.blind = seen.blind
      <4>1. lock' = Unlocked /\ cli' = cli /\ seen' = [seen EXCEPT !.failed = lock.owner]
        BY <2>4 DEF ConnectFail, HandshakeDead
      <4> QED BY <1>0, <4>1 DEF Unlocked, SeenRec
    <3>2. /\ sock'[f].conn = "dead" /\ sock'[f].hook = sock[f].hook
          /\ sock'[f].destroyed = sock[f].destroyed /\ sock'[f].notice = "none"
          /\ \A t \in Sockets \ {f} : sock'[t] = sock[t]
      <4>0. ~sock[f].hook /\ sock[f].notice = "none" /\ sock[f] \in SockRec
        BY <1>0, <2>2 DEF SockInv
      <4>1. CASE HandshakeDead
        BY <1>0, <2>2, <4>0, <4>1 DEF HandshakeDead
      <4>2. CASE ConnectFail
        <5>1. PICK z : z = Close(sock[f], TRUE)
          OBVIOUS
        <5>2. /\ z \in SockRec /\ z.hook = sock[f].hook /\ z.destroyed = sock[f].destroyed
              /\ sock[f].conn # "open" => z = sock[f]
              /\ sock[f].conn = "open" => z.notice = IF sock[f].hook THEN "remote" ELSE "none"
          BY <4>0, <5>1, CloseRemote, Zenon
        <5>3. sock' = [sock EXCEPT ![f] = [z EXCEPT !.conn = "dead"]]
          BY <2>2, <4>2, <5>1, Zenon DEF ConnectFail
        <5> QED BY <1>0, <4>0, <5>2, <5>3 DEF SockRec
      <4> QED BY <2>4, <4>1, <4>2
    <3>3. LockInv'
      BY <1>0, <2>1, <3>1 DEF LockInv, Free
    <3>4. SockInv'
      BY <1>0, <2>1, <2>2, <3>1, <3>2 DEF SockInv
    <3>5. OrderInv'
      BY <1>0, <2>1, <2>2, <3>1, <3>2 DEF OrderInv
    <3>6. EventInv' /\ DisconnectIsSilent'
      BY <1>0, <2>1, <2>2, <3>1, <3>2 DEF EventInv, DisconnectIsSilent
    <3>7. OneConnection' /\ LossNoticed'
      BY <1>0, <2>1, <2>2, <3>1, <3>2 DEF OneConnection, LossNoticed
    <3> QED BY <3>3, <3>4, <3>5, <3>6, <3>7
  <2>5. CASE HandshakeFinish
    <3>1. /\ lock'.owner = lock.owner /\ lock'.step = "finish" /\ lock'.fresh = lock.fresh
          /\ UNCHANGED <<cli, seen, sock>> /\ sock[f].conn = "open"
      BY <1>0, <2>2, <2>5 DEF HandshakeFinish
    <3>2. LockInv'
      BY <2>1, <2>2, <3>1 DEF LockInv, Free
    <3> QED BY <3>1, <3>2
            DEF SockInv, OrderInv, EventInv, DisconnectIsSilent, OneConnection, LossNoticed
  <2>6. CASE Install
    <3>1. /\ lock'.owner = NoProc /\ lock'.step = "none" /\ lock'.fresh = None
          /\ cli'.socket = f /\ seen'.events = seen.events /\ seen'.closedBy = seen.closedBy
          /\ seen.blind \subseteq seen'.blind /\ (sock[f].conn # "open" => f \in seen'.blind)
          /\ sock[f].conn # "new"
      BY <1>0, <2>2, <2>6 DEF Install, Unlocked, SeenRec, CliRec, LockInv
    <3>2. /\ sock'[f].conn = sock[f].conn /\ sock'[f].hook
          /\ sock'[f].destroyed = sock[f].destroyed /\ sock'[f].notice = sock[f].notice
          /\ \A t \in Sockets \ {f} : sock'[t] = sock[t]
      BY <1>0, <2>2, <2>6 DEF Install, SockRec
    <3>3. LockInv'
      BY <1>0, <2>1, <3>1 DEF LockInv, Free
    <3>4. SockInv'
      BY <1>0, <2>1, <2>2, <3>1, <3>2 DEF SockInv
    <3>5. OrderInv'
      BY <1>0, <2>1, <2>2, <3>1, <3>2 DEF OrderInv
    <3>6. EventInv' /\ DisconnectIsSilent'
      BY <1>0, <2>1, <2>2, <3>1, <3>2 DEF EventInv, DisconnectIsSilent, SockInv
    <3>7. OneConnection' /\ LossNoticed'
      BY <1>0, <2>1, <2>2, <3>1, <3>2 DEF OneConnection, LossNoticed, SockRec
    <3> QED BY <3>3, <3>4, <3>5, <3>6, <3>7
  <2> QED BY <1>2, <2>3, <2>4, <2>5, <2>6
<1> QED BY <1>1, <1>2

\* unlockedDisconnect, ResetConnection and onDisconnect stop the socket that
\* cli.socket names; the server closes any open one.
LEMMA LossConn ==
    ASSUME ConnTypeOK, ConnInv, ConnTypeOK',
           (\E wish \in {"up", "down"} : Disconnect(wish) /\ lock' = lock) \/ ResetConnection
              \/ \E s \in Sockets : RemoteClose(s) \/ OnDisconnect(s)
    PROVE  ConnInv'
<1> USE DEF ConnInv
<1>0. /\ cli.socket \in {None} \cup Sockets /\ cli.socket \in Nat
      /\ lock.fresh \in {None} \cup Sockets /\ lock.fresh \in Nat
      /\ sock \in [Sockets -> SockRec]
      /\ None \notin Sockets /\ \A s \in Sockets : s \in Nat
      /\ \A s \in Sockets : sock[s].conn \in {"new", "open", "dead"}
      /\ cli \in CliRec /\ seen \in SeenRec
  <2>1. cli.socket \in {None} \cup Sockets /\ lock.fresh \in {None} \cup Sockets
    BY Types DEF CliRec
  <2>2. \A s \in Sockets : sock[s].conn \in {"new", "open", "dead"}
    BY Types DEF SockRec
  <2> QED BY <2>1, <2>2, Types, SocketNumbers
<1>1. ASSUME NEW wish \in {"up", "down"}, Disconnect(wish), lock' = lock PROVE ConnInv'
  <2>1. /\ Free /\ lock.fresh = None /\ cli'.socket = None /\ seen'.events = seen.events
        /\ seen'.blind = seen.blind
        /\ seen'.closedBy = [s \in Sockets |-> IF s = cli.socket THEN "disconnect"
                                               ELSE seen.closedBy[s]]
    BY <1>0, <1>1 DEF Disconnect, LockInv, CliRec, SeenRec
  <2>2. \A s \in Sockets : s # cli.socket => sock'[s] = sock[s]
    <3>1. CASE cli.socket = None
      BY <1>1, <3>1 DEF Disconnect, UnlockedDisconnect
    <3>2. CASE cli.socket # None
      <4>1. PICK c \in Sockets : c = cli.socket /\ sock' = [sock EXCEPT ![c] = Stop(@, TRUE, FALSE)]
        BY <1>0, <1>1, <3>2, Zenon DEF Disconnect, UnlockedDisconnect
      <4> QED BY <4>1, SockDropped
    <3> QED BY <3>1, <3>2
  <2>3. ASSUME NEW c \in Sockets, c = cli.socket
        PROVE  sock'[c].conn = "dead" /\ sock'[c].destroyed
    <3>1. sock' = [sock EXCEPT ![c] = Stop(@, TRUE, FALSE)]
      BY <1>0, <1>1, <2>3, Zenon DEF Disconnect, UnlockedDisconnect
    <3>2. CASE sock[c].destroyed
      BY <3>1, <3>2, SockDropped DEF SockInv
    <3>3. CASE ~sock[c].destroyed
      BY <1>0, <2>3, <3>1, <3>3, SockDropped DEF SockInv
    <3> QED BY <3>2, <3>3
  <2>4. LockInv'
    BY <1>1, <2>1 DEF LockInv, Free
  <2>5. SockInv'
    BY <1>0, <1>1, <2>1, <2>2, <2>3 DEF SockInv
  <2>6. OrderInv'
    BY <1>0, <1>1, <2>1, <2>2, <2>3 DEF OrderInv, SockInv
  <2>7. EventInv' /\ DisconnectIsSilent'
    BY <1>0, <1>1, <2>1, <2>2, <2>3 DEF EventInv, DisconnectIsSilent
  <2>8. OneConnection' /\ LossNoticed'
    BY <1>0, <1>1, <2>1, <2>2, <2>3 DEF OneConnection, LossNoticed
  <2> QED BY <2>4, <2>5, <2>6, <2>7, <2>8
<1>2. CASE ResetConnection
  <2>1. /\ Free /\ lock.fresh = None /\ cli'.socket = cli.socket /\ lock' = lock
    BY <1>0, <1>2 DEF ResetConnection, LockInv, CliRec
  <2>2. CASE cli.socket = None
    <3>1. UNCHANGED <<sock, seen>>
      BY <1>2, <2>2 DEF ResetConnection
    <3> QED BY <1>0, <2>1, <3>1, ConnKept
  <2>3. CASE cli.socket # None
    <3>1. PICK c \in Sockets : c = cli.socket /\ sock' = [sock EXCEPT ![c] = Stop(@, TRUE, TRUE)]
                               /\ seen' = ClosedBy(c, "reset")
      BY <1>0, <1>2, <2>3, Zenon DEF ResetConnection
    <3>2. /\ seen'.events = seen.events /\ seen'.blind = seen.blind
          /\ \A s \in Sockets \ {c} : seen'.closedBy[s] = seen.closedBy[s]
          /\ seen'.closedBy[c] = IF sock[c].conn = "open" THEN "reset" ELSE seen.closedBy[c]
      BY <1>0, <3>1 DEF ClosedBy, SeenRec
    <3>3. \A s \in Sockets \ {c} : sock'[s] = sock[s]
      BY <3>1, SockReset
    <3>4. sock'[c].conn = "dead" /\ sock'[c].destroyed /\ (sock[c].conn # "open" => sock'[c].notice = sock[c].notice)
          /\ (sock[c].conn = "open" => sock'[c].notice # "none")
      <4>1. sock[c].conn = "open" => sock[c].hook /\ ~sock[c].destroyed
        BY <3>1 DEF SockInv
      <4>2. sock[c].conn # "open" => sock[c].conn = "dead"
        BY <1>0, <3>1 DEF SockInv
      <4> QED BY <3>1, <4>1, <4>2, SockReset
    <3>c. c = cli.socket /\ cli'.socket = c /\ sock[c].conn # "new"
      BY <2>1, <3>1 DEF SockInv
    <3>5. LockInv'
      BY <2>1 DEF LockInv, Free
    <3>6. SockInv'
      BY <1>0, <2>1, <3>c, <3>3, <3>4 DEF SockInv
    <3>7. OrderInv'
      BY <1>0, <2>1, <3>c, <3>3, <3>4 DEF OrderInv
    <3>8. EventInv' /\ DisconnectIsSilent'
      BY <1>0, <2>1, <3>c, <3>2, <3>3, <3>4 DEF EventInv, DisconnectIsSilent
    <3>9. OneConnection' /\ LossNoticed'
      BY <1>0, <2>1, <3>c, <3>2, <3>3, <3>4 DEF OneConnection, LossNoticed
    <3> QED BY <3>5, <3>6, <3>7, <3>8, <3>9
  <2> QED BY <2>2, <2>3
<1>3. ASSUME NEW c \in Sockets, RemoteClose(c) PROVE ConnInv'
  <2>1. /\ UNCHANGED <<cli, lock>> /\ sock[c].conn = "open"
        /\ seen'.events = seen.events /\ seen'.blind = seen.blind
        /\ \A s \in Sockets \ {c} : seen'.closedBy[s] = seen.closedBy[s]
        /\ seen'.closedBy[c] = "remote"
    BY <1>0, <1>3 DEF RemoteClose, ClosedBy, SeenRec
  <2>2. /\ \A s \in Sockets \ {c} : sock'[s] = sock[s]
        /\ sock'[c].conn = "dead" /\ sock'[c].hook = sock[c].hook
        /\ sock'[c].destroyed = sock[c].destroyed /\ sock'[c].stream = sock[c].stream
        /\ sock'[c].notice = IF sock[c].hook THEN "remote" ELSE "none"
    BY <1>3, <2>1, SockClosed DEF RemoteClose
  <2>3. LockInv'
    BY <1>0, <2>1, <2>2 DEF LockInv, Free
  <2>4. SockInv'
    BY <1>0, <2>1, <2>2 DEF SockInv
  <2>5. OrderInv'
    BY <1>0, <2>1, <2>2 DEF OrderInv
  <2>6. EventInv' /\ DisconnectIsSilent'
    BY <1>0, <2>1, <2>2 DEF EventInv, DisconnectIsSilent
  <2>7. OneConnection' /\ LossNoticed'
    BY <1>0, <2>1, <2>2 DEF OneConnection, LossNoticed, SockInv
  <2> QED BY <2>3, <2>4, <2>5, <2>6, <2>7
<1>4. ASSUME NEW c \in Sockets, OnDisconnect(c) PROVE ConnInv'
  <2>1. /\ lock' = lock /\ lock.fresh = None /\ sock[c].notice # "none" /\ sock[c].conn = "dead"
        /\ cli'.socket = IF cli.socket = c THEN None ELSE cli.socket
        /\ seen'.blind = seen.blind /\ seen'.closedBy = seen.closedBy
    <3>1. lock' = lock /\ Free /\ sock[c].notice # "none"
      BY <1>4 DEF OnDisconnect
    <3>2. cli'.socket = IF cli.socket = c THEN None ELSE cli.socket
      BY <1>0, <1>4 DEF OnDisconnect, CliRec
    <3>3. seen'.blind = seen.blind /\ seen'.closedBy = seen.closedBy
      BY <1>0, <1>4 DEF OnDisconnect, SeenRec
    <3> QED BY <3>1, <3>2, <3>3 DEF LockInv, SockInv
  <2>2. /\ \A s \in Sockets \ {c} : sock'[s] = sock[s]
        /\ sock'[c].conn = "dead" /\ sock'[c].destroyed /\ sock'[c].notice = "none"
    BY <1>4, <2>1, SockLost DEF OnDisconnect
  <2>3. /\ \A s \in Sockets \ {c} : seen'.events[s] = seen.events[s]
        /\ seen'.events[c] = seen.events[c] \/ (cli.socket = c /\ seen'.events[c] = seen.events[c] + 1)
    BY <1>0, <1>4 DEF OnDisconnect, SeenRec
  <2>4. seen.events[c] = 0
    <3>1. seen.events[c] \in Nat
      BY <1>0 DEF SeenRec
    <3> QED BY <2>1, <3>1 DEF EventInv
  <2>5. LockInv'
    BY <1>0, <2>1, <2>2 DEF LockInv, Free
  <2>6. SockInv'
    BY <1>0, <2>1, <2>2 DEF SockInv
  <2>7. OrderInv'
    BY <1>0, <2>1, <2>2 DEF OrderInv
  <2>8. EventInv' /\ DisconnectIsSilent'
    BY <1>0, <2>1, <2>2, <2>3, <2>4 DEF EventInv, DisconnectIsSilent
  <2>9. OneConnection' /\ LossNoticed'
    BY <1>0, <2>1, <2>2 DEF OneConnection, LossNoticed
  <2> QED BY <2>5, <2>6, <2>7, <2>8, <2>9
<1> QED BY <1>1, <1>2, <1>3, <1>4

\* Every step keeps the part of the invariant that is about the connection.
LEMMA NextConn == ReqTypeOK /\ ConnInv /\ [Next]_vars => ConnInv'
<1> SUFFICES ASSUME ReqTypeOK, ConnInv, [Next]_vars PROVE ConnInv'
  OBVIOUS
<1>0. ConnTypeOK /\ ConnTypeOK'
  BY TypeStep DEF ReqTypeOK, ConnInv
<1>1. /\ cli.socket \in {None} \cup Sockets /\ lock.fresh \in {None} \cup Sockets
      /\ cli \in CliRec /\ seen \in SeenRec /\ sock \in [Sockets -> SockRec]
      /\ seen.wish \in {"up", "down"}
  BY <1>0, Types DEF CliRec, SeenRec
<1>2. CASE \/ (\E p \in Procs : ConnectBegin(p)) \/ DialOk \/ ConnectFail \/ HandshakeDead
           \/ HandshakeFinish \/ Install
  BY <1>0, <1>2, ConnectConn
<1>3. CASE \/ ResetConnection \/ UserDisconnect \/ LoginDisconnect
           \/ \E s \in Sockets : RemoteClose(s) \/ OnDisconnect(s) \/ KeepAliveDisconnect(s)
  <2>1. \/ \E wish \in {"up", "down"} : Disconnect(wish) /\ lock' = lock
        \/ ResetConnection
        \/ \E s \in Sockets : RemoteClose(s) \/ OnDisconnect(s)
    BY <1>1, <1>3 DEF UserDisconnect, LoginDisconnect, KeepAliveDisconnect
  <2> QED BY <1>0, <2>1, LossConn
<1>k. ASSUME UNCHANGED <<sock, lock, seen>>, cli'.socket = cli.socket PROVE ConnInv'
  BY <1>1, <1>k, ConnKept
<1>4. ASSUME NEW p \in Procs, ConnectRefused(p) \/ AutoWait(p) \/ AutoFailed(p) PROVE ConnInv'
  BY <1>4, <1>k DEF ConnectRefused, AutoWait, AutoFailed
<1>5. ASSUME NEW s \in Sockets, KeepAliveFail(s) \/ KeepAliveReset(s) PROVE ConnInv'
  BY <1>1, <1>5, <1>k DEF KeepAliveFail, KeepAliveReset, CliRec
<1>6. ASSUME NEW s \in Sockets, NEW k \in Kinds, EnqueueNode(s, k) PROVE ConnInv'
  <2>1. cli'.socket = cli.socket /\ UNCHANGED <<lock, seen>>
    BY <1>1, <1>6 DEF EnqueueNode, CliRec
  <2>2. PICK v : sock' = [sock EXCEPT ![s].stream = v]
    BY <1>6 DEF EnqueueNode, ServerSends
  <2>3. sock[s].conn # "new"
    BY <1>6 DEF EnqueueNode, ConnInv, SockInv
  <2>4. \A t \in Sockets :
           /\ sock'[t].conn = sock[t].conn /\ sock'[t].hook = sock[t].hook
           /\ sock'[t].destroyed = sock[t].destroyed /\ sock'[t].notice = sock[t].notice
           /\ sock'[t].stream = sock[t].stream \/ sock[t].conn # "new"
    BY <1>1, <2>2, <2>3 DEF SockRec
  <2> QED BY <1>1, <2>1, <2>4, ConnKept
<1>7. CASE UserConnect
  <2>1. seen' = [seen EXCEPT !.wish = "up"] /\ UNCHANGED <<cli, sock, lock>>
    BY <1>7 DEF UserConnect
  <2> QED BY <1>1, <2>1, ConnKept DEF SeenRec
<1>8. CASE TakeNode \/ HandleSuccess \/ HandleConnectFailure
  BY <1>1, <1>8, <1>k DEF TakeNode, HandleSuccess, HandleConnectFailure, CliRec
<1>9. CASE HandleStreamError
  <2>1. cli'.socket = cli.socket
    BY <1>1, <1>9 DEF HandleStreamError, CliRec
  <2>2. seen' = [seen EXCEPT !.stale = @ \/ handling.from # cli.socket] /\ UNCHANGED <<sock, lock>>
    BY <1>9 DEF HandleStreamError
  <2>3. seen'.events = seen.events /\ seen'.closedBy = seen.closedBy /\ seen'.blind = seen.blind
    BY <1>1, <2>2 DEF SeenRec
  <2> QED BY <1>1, <2>1, <2>2, <2>3, ConnKept
<1>10. CASE ReqNext
  <2>1. UNCHANGED <<cli, sock, lock, seen>>
    BY <1>10 DEF ReqNext, Begin, ReadSocket, Register, SendFrame, CancelResponse,
       ReceiveResponse, DeliverResponse, Answered, TimedOut, Reconnected, KeepConn
  <2> QED BY <1>k, <2>1
<1>11. CASE UNCHANGED vars
  BY <1>11, <1>k DEF vars
<1> QED BY <1>2, <1>3, <1>4, <1>5, <1>6, <1>7, <1>8, <1>9, <1>10, <1>11 DEF Next, ConnNext

-------------------------------------------------------------------------------
(* The order of handlerQueue *)

\* A socket never becomes new again, a stopped one stays stopped, and the one
\* cli.socket names is stopped before cli.socket changes.
LEMMA Forward ==
    ASSUME ReqTypeOK, ConnInv, [Next]_vars, NEW s \in Sockets
    PROVE  /\ sock[s].conn # "new" => sock'[s].conn # "new"
           /\ sock[s].destroyed => sock'[s].destroyed
           /\ s = cli.socket => cli'.socket = s \/ sock'[s].destroyed
           /\ \/ sock'[s].stream = sock[s].stream
              \/ /\ sock[s].hook /\ ~sock[s].destroyed
                 /\ \E k \in Kinds : EnqueueNode(s, k)
<1> DEFINE Goal == /\ sock[s].conn # "new" => sock'[s].conn # "new"
                   /\ sock[s].destroyed => sock'[s].destroyed
                   /\ s = cli.socket => cli'.socket = s \/ sock'[s].destroyed
                   /\ sock'[s].stream = sock[s].stream
<1>0. /\ ConnTypeOK /\ cli.socket \in {None} \cup Sockets /\ cli \in CliRec
      /\ sock \in [Sockets -> SockRec] /\ sock[s] \in SockRec /\ lock.fresh \in {None} \cup Sockets
      /\ None \notin Sockets
  <2>1. ConnTypeOK
    BY DEF ReqTypeOK
  <2>2. sock \in [Sockets -> SockRec] /\ cli \in CliRec
    BY <2>1, Types
  <2>3. cli.socket \in {None} \cup Sockets /\ sock[s] \in SockRec
    BY <2>2 DEF CliRec
  <2> QED BY <2>1, <2>2, <2>3, Types, SocketNumbers
<1>k. ASSUME sock' = sock, cli'.socket = cli.socket \/ cli.socket = None PROVE Goal
  BY <1>0, <1>k
<1>d. ASSUME UnlockedDisconnect PROVE Goal
  <2>1. CASE cli.socket = None
    BY <1>0, <1>d, <2>1 DEF UnlockedDisconnect
  <2>2. CASE cli.socket # None
    <3>1. PICK c \in Sockets : c = cli.socket /\ sock' = [sock EXCEPT ![c] = Stop(@, TRUE, FALSE)]
      BY <1>0, <1>d, <2>2, Zenon DEF UnlockedDisconnect
    <3>2. CASE sock[c].conn = "open"
      <4>1. ~sock[c].destroyed
        BY <3>2 DEF ConnInv, SockInv
      <4> QED BY <1>0, <3>1, <3>2, <4>1, SockDropped
    <3>3. CASE sock[c].conn # "open"
      BY <1>0, <3>1, <3>3, SockDropped
    <3> QED BY <3>2, <3>3
  <2> QED BY <2>1, <2>2
<1>1. ASSUME NEW p \in Procs, ConnectRefused(p) \/ AutoWait(p) \/ AutoFailed(p) PROVE Goal
  BY <1>1, <1>k DEF ConnectRefused, AutoWait, AutoFailed
<1>2. ASSUME NEW p \in Procs, ConnectBegin(p) PROVE Goal
  BY <1>2, <1>d DEF ConnectBegin
<1>3. CASE DialOk
  BY <1>0, <1>3 DEF DialOk, SockRec
<1>4. CASE ConnectFail
  <2>1. PICK f \in Sockets : f = lock.fresh
    BY <1>0, <1>4 DEF ConnectFail, ConnInv, LockInv
  <2>2. PICK z : z = Close(sock[f], TRUE)
    OBVIOUS
  <2>3. z \in SockRec /\ z.destroyed = sock[f].destroyed /\ z.stream = sock[f].stream
    <3>1. sock[f] \in SockRec
      BY <1>0
    <3> QED BY <3>1, <2>2, CloseRemote, Zenon
  <2>4. sock' = [sock EXCEPT ![f] = [z EXCEPT !.conn = "dead"]]
    BY <1>4, <2>1, <2>2, Zenon DEF ConnectFail
  <2>5. cli' = cli
    BY <1>4 DEF ConnectFail
  <2> QED BY <1>0, <2>3, <2>4, <2>5 DEF SockRec
<1>5. CASE HandshakeDead \/ HandshakeFinish
  BY <1>5, <1>k DEF HandshakeDead, HandshakeFinish
<1>6. CASE Install
  <2>1. cli.socket = None
    BY <1>6 DEF Install, ConnInv, LockInv
  <2> QED BY <1>0, <1>6, <2>1 DEF Install, SockRec
<1>7. ASSUME NEW c \in Sockets, RemoteClose(c) PROVE Goal
  BY <1>0, <1>7, SockClosed DEF RemoteClose
<1>8. ASSUME NEW c \in Sockets, OnDisconnect(c) PROVE Goal
  <2>1. /\ sock'[c].destroyed /\ sock'[c].stream = sock[c].stream /\ sock'[c].conn = sock[c].conn
        /\ \A t \in Sockets \ {c} : sock'[t] = sock[t]
    BY <1>0, <1>8, SockLost DEF OnDisconnect
  <2>2. cli.socket # c => cli' = cli
    BY <1>8 DEF OnDisconnect
  <2> QED BY <2>1, <2>2
<1>9. CASE UserDisconnect \/ LoginDisconnect \/ \E c \in Sockets : KeepAliveDisconnect(c)
  BY <1>9, <1>d DEF UserDisconnect, LoginDisconnect, KeepAliveDisconnect, Disconnect
<1>10. CASE ResetConnection
  <2>0. cli'.socket = cli.socket
    BY <1>0, <1>10 DEF ResetConnection, CliRec
  <2>1. CASE cli.socket = None
    BY <1>10, <1>k, <2>1 DEF ResetConnection
  <2>2. CASE cli.socket # None
    <3>1. PICK c \in Sockets : c = cli.socket /\ sock' = [sock EXCEPT ![c] = Stop(@, TRUE, TRUE)]
      BY <1>0, <1>10, <2>2, Zenon DEF ResetConnection
    <3>2. CASE sock[c].conn = "open"
      <4>1. ~sock[c].destroyed
        BY <3>2 DEF ConnInv, SockInv
      <4> QED BY <1>0, <3>1, <3>2, <4>1, SockReset
    <3>3. CASE sock[c].conn # "open"
      BY <1>0, <3>1, <3>3, SockReset
    <3> QED BY <3>2, <3>3
  <2> QED BY <2>1, <2>2
<1>11. ASSUME NEW c \in Sockets, KeepAliveFail(c) \/ KeepAliveReset(c) PROVE Goal
  BY <1>0, <1>11, <1>k DEF KeepAliveFail, KeepAliveReset, CliRec
<1>12. CASE UserConnect \/ TakeNode \/ HandleSuccess \/ HandleConnectFailure
  BY <1>0, <1>12, <1>k DEF UserConnect, TakeNode, HandleSuccess, HandleConnectFailure, CliRec
<1>13. CASE HandleStreamError
  <2>1. cli'.socket = cli.socket
    BY <1>0, <1>13 DEF HandleStreamError, CliRec
  <2> QED BY <1>13, <1>k, <2>1 DEF HandleStreamError
<1>14. CASE ReqNext \/ UNCHANGED vars
  <2>1. UNCHANGED <<cli, sock>>
    BY <1>14 DEF ReqNext, Begin, ReadSocket, Register, SendFrame, CancelResponse,
       ReceiveResponse, DeliverResponse, Answered, TimedOut, Reconnected, KeepConn, vars
  <2> QED BY <1>k, <2>1
<1>15. ASSUME NEW c \in Sockets, NEW k \in Kinds, EnqueueNode(c, k)
       PROVE  /\ sock[s].conn # "new" => sock'[s].conn # "new"
              /\ sock[s].destroyed => sock'[s].destroyed
              /\ s = cli.socket => cli'.socket = s
              /\ s # c => sock'[s] = sock[s]
              /\ sock[c].hook /\ ~sock[c].destroyed
  <2>1. PICK v : sock' = [sock EXCEPT ![c].stream = v]
    BY <1>15 DEF EnqueueNode, ServerSends
  <2>2. cli'.socket = cli.socket
    BY <1>0, <1>15 DEF EnqueueNode, CliRec
  <2> QED BY <1>0, <1>15, <2>1, <2>2 DEF EnqueueNode, SockRec
<1> QED BY <1>1, <1>2, <1>3, <1>4, <1>5, <1>6, <1>7, <1>8, <1>9, <1>10, <1>11, <1>12, <1>13, <1>14,
           <1>15 DEF Next, ConnNext

\* What a node says of its socket stays true.
LEMMA SoundKept ==
    ASSUME ReqTypeOK, ConnInv, [Next]_vars, NEW n \in Nodes, Sound(n)
    PROVE  Sound(n)'
<1>0. n.from \in Sockets
  BY DEF Nodes
<1>1. sock'[n.from].conn # "new"
  BY <1>0, Forward DEF Sound
<1>2. CASE sock'[n.from].stream = sock[n.from].stream
  BY <1>1, <1>2 DEF Sound
<1>3. CASE sock'[n.from].stream # sock[n.from].stream
  <2>1. PICK k \in Kinds : EnqueueNode(n.from, k)
    BY <1>0, <1>3, Forward
  <2>2. sock[n.from].stream = "in" /\ n.kind = "success" /\ k # "success"
    BY <2>1 DEF Sound, EnqueueNode, ServerSends
  <2>3. sock' = [sock EXCEPT ![n.from].stream = "over"] /\ sock \in [Sockets -> SockRec]
    BY <2>1, <2>2, Types DEF EnqueueNode, ServerSends, ReqTypeOK
  <2>4. sock'[n.from].stream = "over"
    BY <1>0, <2>3 DEF SockRec
  <2> QED BY <1>1, <2>4 DEF Sound
<1> QED BY <1>2, <1>3

\* handlerQueue is first in, first out, and a connection enqueues only while it
\* is the newest one.
LEMMA NextNodes == ReqTypeOK /\ ConnInv /\ NodesInv /\ [Next]_vars => NodesInv'
<1> SUFFICES ASSUME ReqTypeOK, ConnInv, NodesInv, [Next]_vars PROVE NodesInv'
  OBVIOUS
<1>0. /\ ConnTypeOK /\ queue \in Seq(Nodes) /\ handling \in Nodes \cup {NoNode}
      /\ DOMAIN queue = 1..Len(queue) /\ Len(queue) \in Nat
      /\ \A j \in DOMAIN queue : queue[j] \in Nodes
      /\ sock \in [Sockets -> SockRec]
  <2>1. ConnTypeOK /\ queue \in Seq(Nodes) /\ handling \in Nodes \cup {NoNode}
        /\ sock \in [Sockets -> SockRec]
    BY Types DEF ReqTypeOK
  <2> QED BY <2>1, LenProperties, ElementOfSeq
<1>1. ASSUME queue' = queue, handling' = handling \/ handling' = NoNode PROVE NodesInv'
  <2>1. \A j \in DOMAIN queue : Sound(queue[j])'
    BY <1>0, <1>1, SoundKept DEF NodesInv
  <2>2. handling' # NoNode => Sound(handling)'
    BY <1>0, <1>1, SoundKept DEF NodesInv
  <2> QED BY <1>1, <2>1, <2>2 DEF NodesInv, Before, Sound
<1>2. CASE TakeNode
  <2>1. queue # << >> /\ handling' = Head(queue) /\ queue' = Tail(queue) /\ sock' = sock
    BY <1>2 DEF TakeNode
  <2>2. /\ Head(queue) = queue[1] /\ Len(Tail(queue)) = Len(queue) - 1 /\ Tail(queue) \in Seq(Nodes)
        /\ \A i \in 1..Len(Tail(queue)) : Tail(queue)[i] = queue[i + 1]
    BY <1>0, <2>1, HeadTailProperties
  <2>3. Len(queue) >= 1
    BY <1>0, <2>1, EmptySeq
  <2>4. /\ DOMAIN queue' = 1..(Len(queue) - 1) /\ 1 \in DOMAIN queue
        /\ \A i \in DOMAIN queue' : queue'[i] = queue[i + 1] /\ i + 1 \in DOMAIN queue
    BY <1>0, <2>1, <2>2, <2>3, LenProperties
  <2>5. \A j \in DOMAIN queue' :
           /\ Sound(queue[j + 1]) /\ Before(queue[1], queue[j + 1])
           /\ \A i \in DOMAIN queue' : i < j => Before(queue[i + 1], queue[j + 1])
    BY <1>0, <2>4 DEF NodesInv
  <2>6. Sound(queue[1])
    BY <2>4 DEF NodesInv
  <2> QED BY <2>1, <2>2, <2>4, <2>5, <2>6 DEF NodesInv, Sound, Before
<1>3. ASSUME NEW s \in Sockets, NEW k \in Kinds, EnqueueNode(s, k) PROVE NodesInv'
  <2>0. handling' = handling
    BY <1>3 DEF EnqueueNode
  <2>1. CASE queue' = queue
    BY <1>1, <2>0, <2>1
  <2>2. CASE queue' # queue
    <3> DEFINE m == [kind |-> k, from |-> s]
               n == Len(queue)
    <3>1. queue' = Append(queue, m)
      BY <1>3, <2>2 DEF EnqueueNode
    <3>2. m \in Nodes /\ m.kind = k /\ m.from = s
      BY DEF Nodes
    <3> HIDE DEF m
    <3>3. /\ DOMAIN queue' = 1..(n + 1) /\ queue'[n + 1] = m
          /\ \A i \in 1..n : queue'[i] = queue[i]
      BY <1>0, <3>1, <3>2, AppendProperties
    <3>4. s = cli.socket /\ sock[s].conn # "new"
      BY <1>3 DEF EnqueueNode, ConnInv, SockInv
    <3>5. ASSUME NEW x \in Nodes, Sound(x) PROVE Before(x, m) /\ Sound(x)'
      <4>1. x.from \in Sockets /\ x.from \in Nat /\ s \in Nat
        BY SocketNumbers DEF Nodes
      <4>2. x.from <= s
        BY <3>4, <3>5, <4>1 DEF Sound, ConnInv, OrderInv
      <4>3. x.from = s => x.kind = "success" /\ k # "success"
        BY <1>3, <3>5 DEF Sound, EnqueueNode, ServerSends
      <4> QED BY <3>2, <3>5, <4>1, <4>2, <4>3, SoundKept DEF Before
    <3>6. Sound(m)'
      <4>1. sock' = [sock EXCEPT ![s].stream = IF k = "success" THEN "in" ELSE "over"]
        BY <1>3 DEF EnqueueNode, ServerSends
      <4>2. sock'[s].stream = (IF k = "success" THEN "in" ELSE "over")
        BY <1>0, <4>1 DEF SockRec
      <4>3. sock'[s].conn # "new"
        BY <3>4, Forward
      <4> QED BY <3>2, <4>2, <4>3 DEF Sound
    <3>7. ASSUME NEW j \in DOMAIN queue'
          PROVE  /\ Sound(queue[j])'
                 /\ \A i \in DOMAIN queue' : i < j => Before(queue'[i], queue'[j])
                 /\ handling # NoNode => Before(handling, queue'[j])
      <4>1. CASE j = n + 1
        <5>1. \A i \in DOMAIN queue' : i < j => i \in DOMAIN queue
          BY <1>0, <3>3, <4>1
        <5>2. \A i \in DOMAIN queue : Before(queue[i], m)
          BY <1>0, <3>5 DEF NodesInv
        <5>3. handling # NoNode => Before(handling, m)
          BY <1>0, <3>5 DEF NodesInv
        <5>4. queue'[j] = m
          BY <3>3, <4>1
        <5>5. Sound(queue[j])'
          BY <3>6, <5>4 DEF Sound
        <5> QED BY <1>0, <3>3, <5>1, <5>2, <5>3, <5>4, <5>5
      <4>2. CASE j # n + 1
        <5>1. j \in DOMAIN queue /\ queue'[j] = queue[j]
          BY <1>0, <3>3, <4>2
        <5>2. \A i \in DOMAIN queue' : i < j => i \in DOMAIN queue /\ queue'[i] = queue[i]
          BY <1>0, <3>3, <5>1
        <5>3. PICK x \in Nodes : x = queue[j] /\ Sound(x)
          BY <1>0, <5>1 DEF NodesInv
        <5>4. Sound(queue[j])'
          BY <3>5, <5>1, <5>3 DEF Sound
        <5> QED BY <5>1, <5>2, <5>4 DEF NodesInv
      <4> QED BY <4>1, <4>2
    <3>8. ASSUME handling # NoNode PROVE Sound(handling)'
      <4>1. PICK x \in Nodes : x = handling /\ Sound(x)
        BY <1>0, <3>8 DEF NodesInv
      <4> QED BY <2>0, <3>5, <4>1 DEF Sound
    <3> QED BY <2>0, <3>7, <3>8 DEF NodesInv, Before
  <2> QED BY <2>1, <2>2
<1>4. CASE UNCHANGED vars \/ ReqNext
  BY <1>1, <1>4 DEF vars, ReqNext, Begin, ReadSocket, Register, SendFrame, CancelResponse,
       ReceiveResponse, DeliverResponse, Answered, TimedOut, Reconnected, KeepConn
<1>5. ASSUME ConnNext, ~TakeNode, \A s \in Sockets, k \in Kinds : ~EnqueueNode(s, k)
      PROVE  NodesInv'
  <2>1. queue' = queue /\ (handling' = handling \/ handling' = NoNode)
    BY <1>5 DEF ConnNext, ConnectRefused, ConnectBegin, AutoWait, AutoFailed, DialOk, ConnectFail,
       HandshakeDead, HandshakeFinish, Install, RemoteClose, OnDisconnect, KeepAliveFail,
       KeepAliveDisconnect, KeepAliveReset, UserConnect, UserDisconnect, ResetConnection,
       HandleSuccess, HandleStreamError, LoginDisconnect, HandleConnectFailure
  <2> QED BY <1>1, <2>1
<1> QED BY <1>2, <1>3, <1>4, <1>5 DEF Next

-------------------------------------------------------------------------------
(* What the connection does to a query *)

\* Stale errors are remembered.
LEMMA StaleKept == ASSUME ReqTypeOK, [Next]_vars, seen.stale PROVE seen'.stale
<1>0. seen \in SeenRec
  BY Types DEF ReqTypeOK
<1>k. ASSUME seen' = seen PROVE seen'.stale
  BY <1>k
<1>1. CASE ConnNext
  <2>1. CASE UserDisconnect \/ LoginDisconnect \/ \E c \in Sockets : KeepAliveDisconnect(c)
    <3>1. PICK wish, cb : seen' = [seen EXCEPT !.wish = wish, !.closedBy = cb]
      BY <2>1 DEF UserDisconnect, LoginDisconnect, KeepAliveDisconnect, Disconnect
    <3> QED BY <1>0, <3>1 DEF SeenRec
  <2>2. CASE UserConnect
    BY <1>0, <2>2 DEF UserConnect, SeenRec
  <2>3. CASE ConnectFail \/ HandshakeDead
    <3>1. seen' = [seen EXCEPT !.failed = lock.owner]
      BY <2>3 DEF ConnectFail, HandshakeDead
    <3> QED BY <1>0, <3>1 DEF SeenRec
  <2>4. CASE Install
    <3>1. PICK b : seen' = [seen EXCEPT !.blind = b, !.failed = NoProc]
      BY <2>4 DEF Install
    <3> QED BY <1>0, <3>1 DEF SeenRec
  <2>5. ASSUME NEW c, NEW who, seen' = ClosedBy(c, who) PROVE seen'.stale
    BY <1>0, <2>5 DEF ClosedBy, SeenRec
  <2>6. CASE ResetConnection \/ \E c \in Sockets : RemoteClose(c)
    <3>1. seen' = seen \/ (\E c : seen' = ClosedBy(c, "reset")) \/ (\E c : seen' = ClosedBy(c, "remote"))
      BY <2>6, Zenon DEF ResetConnection, RemoteClose
    <3> QED BY <1>k, <2>5, <3>1
  <2>7. ASSUME NEW c \in Sockets, OnDisconnect(c) PROVE seen'.stale
    <3>1. CASE seen' = seen
      BY <1>k, <3>1
    <3>2. CASE seen' = [seen EXCEPT !.events[c] = @ + 1]
      BY <1>0, <3>2 DEF SeenRec
    <3> QED BY <2>7, <3>1, <3>2, Zenon DEF OnDisconnect
  <2>8. CASE HandleStreamError
    <3>1. seen' = [seen EXCEPT !.stale = @ \/ handling.from # cli.socket]
      BY <2>8 DEF HandleStreamError
    <3> QED BY <1>0, <3>1 DEF SeenRec
  <2>9. CASE \/ (\E q \in Procs : ConnectRefused(q) \/ ConnectBegin(q) \/ AutoWait(q) \/ AutoFailed(q))
             \/ DialOk \/ HandshakeFinish \/ TakeNode \/ HandleSuccess \/ HandleConnectFailure
             \/ \E c \in Sockets : \/ KeepAliveFail(c) \/ KeepAliveReset(c)
                                   \/ \E k \in Kinds : EnqueueNode(c, k)
    BY <1>k, <2>9 DEF ConnectRefused, ConnectBegin, AutoWait, AutoFailed, DialOk, HandshakeFinish,
       TakeNode, HandleSuccess, HandleConnectFailure, KeepAliveFail, KeepAliveReset, EnqueueNode
  <2> QED BY <1>1, <2>1, <2>2, <2>3, <2>4, <2>6, <2>7, <2>8, <2>9 DEF ConnNext
<1>2. CASE ReqNext \/ UNCHANGED vars
  BY <1>k, <1>2 DEF vars, ReqNext, Begin, ReadSocket, Register, SendFrame, CancelResponse,
       ReceiveResponse, DeliverResponse, Answered, TimedOut, Reconnected, KeepConn
<1> QED BY <1>1, <1>2 DEF Next

\* After a stream error of the connection in use nobody logs in over it again.
LEMMA EndedKept ==
    ASSUME ReqTypeOK, ConnInv, NodesInv, [Next]_vars, NEW s \in Sockets, Ended(s)
    PROVE  Ended(s)' \/ sock'[s].destroyed
<1> SUFFICES ASSUME ~sock'[s].destroyed PROVE Ended(s)'
  OBVIOUS
<1>0. /\ queue \in Seq(Nodes) /\ handling \in Nodes \cup {NoNode} /\ cli \in CliRec
      /\ \A n \in Nodes : n.from \in Sockets
      /\ \A t \in Sockets : t \in Nat
      /\ DOMAIN queue = 1..Len(queue) /\ Len(queue) \in Nat
  BY Types, LenProperties, SocketNumbers DEF ReqTypeOK, Nodes
<1>1. cli'.socket = s /\ s = cli.socket
  BY Forward DEF Ended
<1>2. \A t \in Sockets, k \in Kinds : ~EnqueueNode(t, k)
  BY DEF Ended, EnqueueNode, ServerSends, ConnInv, SockInv
<1>3. sock'[s].stream = "over"
  BY <1>2, Forward DEF Ended
<1>4. ~HandleSuccess
  <2> SUFFICES ASSUME HandleSuccess PROVE FALSE
    OBVIOUS
  <2>1. handling \in Nodes /\ handling.kind = "success"
    BY <1>0 DEF HandleSuccess, NoNode
  <2>2. handling # NoNode
    BY <2>1 DEF NoNode
  <2>3. s <= handling.from /\ handling.from # s
    BY <2>1, <2>2 DEF Ended
  <2>4. sock[handling.from].conn # "new"
    BY <2>2 DEF NodesInv, Sound
  <2>5. ~(s < handling.from)
    BY <1>0, <1>1, <2>1, <2>4 DEF ConnInv, OrderInv
  <2> QED BY <1>0, <2>1, <2>3, <2>5
<1>5. ~cli'.loggedIn
  <2>1. ~cli.loggedIn
    BY DEF Ended
  <2>2. CASE cli'.loggedIn = cli.loggedIn
    BY <2>1, <2>2
  <2>3. CASE HandleStreamError
    <3>1. PICK deletes \in BOOLEAN :
             cli' = [cli EXCEPT !.loggedIn = FALSE, !.deleted = @ \/ deletes,
                                !.expected = @ \/ handling.kind \in {"removed", "replaced"},
                                !.force = @ /\ handling.kind \notin {"removed", "replaced"}]
      BY <2>3 DEF HandleStreamError
    <3> QED BY <1>0, <3>1 DEF CliRec
  <2>4. CASE ReqNext \/ UNCHANGED vars
    <3>1. cli' = cli
      BY <2>4 DEF vars, ReqNext, Begin, ReadSocket, Register, SendFrame, CancelResponse,
         ReceiveResponse, DeliverResponse, Answered, TimedOut, Reconnected, KeepConn
    <3> QED BY <2>2, <3>1
  <2>5. ASSUME ConnNext, ~HandleStreamError PROVE cli'.loggedIn = cli.loggedIn
    <3>1. CASE cli' = cli
      BY <3>1
    <3>2. CASE UserDisconnect \/ LoginDisconnect \/ \E c \in Sockets : KeepAliveDisconnect(c)
      BY <1>0, <3>2 DEF UserDisconnect, LoginDisconnect, KeepAliveDisconnect, Disconnect, CliRec
    <3>3. CASE Install \/ ResetConnection \/ HandleConnectFailure
      BY <1>0, <3>3 DEF Install, ResetConnection, HandleConnectFailure, CliRec
    <3>4. ASSUME NEW c \in Sockets, KeepAliveReset(c) \/ OnDisconnect(c)
          PROVE  cli'.loggedIn = cli.loggedIn
      BY <1>0, <3>4 DEF KeepAliveReset, OnDisconnect, CliRec
    <3>5. ASSUME NEW p \in Procs, ConnectBegin(p) PROVE cli'.loggedIn = cli.loggedIn
      BY <1>0, <3>5 DEF ConnectBegin, CliRec
    <3>6. CASE \/ (\E q \in Procs : ConnectRefused(q) \/ AutoWait(q) \/ AutoFailed(q))
               \/ DialOk \/ ConnectFail \/ HandshakeDead \/ HandshakeFinish \/ TakeNode \/ UserConnect
               \/ \E c \in Sockets : RemoteClose(c) \/ KeepAliveFail(c)
      BY <3>1, <3>6 DEF ConnectRefused, AutoWait, AutoFailed, DialOk, ConnectFail, HandshakeDead,
         HandshakeFinish, TakeNode, UserConnect, RemoteClose, KeepAliveFail
    <3> QED BY <1>2, <1>4, <2>5, <3>2, <3>3, <3>4, <3>5, <3>6 DEF ConnNext
  <2> QED BY <2>2, <2>3, <2>4, <2>5 DEF Next
<1>6. CASE TakeNode
  <2>1. queue # << >> /\ handling' = Head(queue) /\ queue' = Tail(queue)
    BY <1>6 DEF TakeNode
  <2>2. /\ Head(queue) = queue[1] /\ Len(Tail(queue)) = Len(queue) - 1 /\ Tail(queue) \in Seq(Nodes)
        /\ \A i \in 1..Len(Tail(queue)) : Tail(queue)[i] = queue[i + 1]
    BY <1>0, <2>1, HeadTailProperties
  <2>3. Len(queue) >= 1
    BY <1>0, <2>1, EmptySeq
  <2>4. /\ DOMAIN queue' = 1..(Len(queue) - 1) /\ 1 \in DOMAIN queue
        /\ \A i \in DOMAIN queue' : queue'[i] = queue[i + 1] /\ i + 1 \in DOMAIN queue
    BY <1>0, <2>1, <2>2, <2>3, LenProperties
  <2> QED BY <1>1, <1>3, <1>5, <2>1, <2>2, <2>4 DEF Ended
<1>7. CASE ~TakeNode
  <2>1. queue' = queue /\ (handling' = handling \/ handling' = NoNode)
    BY <1>2, <1>7 DEF Next, ConnNext, ConnectRefused, ConnectBegin, AutoWait, AutoFailed, DialOk,
       ConnectFail, HandshakeDead, HandshakeFinish, Install, RemoteClose, OnDisconnect,
       KeepAliveFail, KeepAliveDisconnect, KeepAliveReset, UserConnect, UserDisconnect,
       ResetConnection, HandleSuccess, HandleStreamError, LoginDisconnect, HandleConnectFailure,
       vars, ReqNext, Begin, ReadSocket, Register, SendFrame, CancelResponse,
       ReceiveResponse, DeliverResponse, Answered, TimedOut, Reconnected, KeepConn
  <2> QED BY <1>1, <1>3, <1>5, <2>1 DEF Ended
<1> QED BY <1>6, <1>7

\* clearResponseWaiters tells the waiters of a disconnect only when the connection
\* in use is stopped or its stream has ended, or for a stale stream error.
LEMMA WaitersEffect ==
    ASSUME ReqTypeOK, ConnInv, NodesInv, ConnNext, UNCHANGED reqVars
    PROVE  \/ UNCHANGED <<waiters, chan>> /\ (cli.socket = None \/ cli'.socket = cli.socket)
           \/ ClearResponseWaiters("auth")
           \/ /\ ClearResponseWaiters("disconnect")
              /\ \/ seen'.stale
                 \/ \A s \in Sockets : s = cli.socket => sock'[s].destroyed \/ Ended(s)'
<1> DEFINE Kept == UNCHANGED <<waiters, chan>> /\ (cli.socket = None \/ cli'.socket = cli.socket)
           Told == /\ ClearResponseWaiters("disconnect")
                   /\ \A s \in Sockets : s = cli.socket => sock'[s].destroyed
<1>0. /\ ConnTypeOK /\ queue \in Seq(Nodes) /\ handling \in Nodes \cup {NoNode} /\ cli \in CliRec
      /\ cli.socket \in {None} \cup Sockets /\ seen \in SeenRec
      /\ sock \in [Sockets -> SockRec]
      /\ None \notin Sockets /\ \A t \in Sockets : t \in Nat
  BY Types, SocketNumbers DEF ReqTypeOK, CliRec
<1>d. ASSUME UnlockedDisconnect PROVE (Kept \/ cli.socket # None) /\ (Told \/ (UNCHANGED <<waiters, chan>> /\ cli.socket = None))
  <2>1. CASE cli.socket = None
    BY <1>d, <2>1 DEF UnlockedDisconnect, KeepWaiters
  <2>2. CASE cli.socket # None
    <3>1. PICK c \in Sockets : c = cli.socket /\ sock' = [sock EXCEPT ![c] = Stop(@, TRUE, FALSE)]
      BY <1>0, <1>d, <2>2, Zenon DEF UnlockedDisconnect
    <3>2. sock'[c].destroyed
      BY <1>0, <3>1, SockDropped
    <3> QED BY <1>d, <2>2, <3>1, <3>2 DEF UnlockedDisconnect
  <2> QED BY <2>1, <2>2
<1>1. ASSUME NEW p \in Procs, ConnectRefused(p) \/ AutoWait(p) \/ AutoFailed(p) PROVE Kept
  BY <1>1 DEF ConnectRefused, AutoWait, AutoFailed
<1>2. ASSUME NEW p \in Procs, ConnectBegin(p) PROVE Kept \/ Told
  BY <1>2, <1>d DEF ConnectBegin
<1>3. CASE DialOk \/ ConnectFail \/ HandshakeDead \/ HandshakeFinish
  BY <1>3 DEF DialOk, ConnectFail, HandshakeDead, HandshakeFinish
<1>4. CASE Install
  <2>1. cli.socket = None
    BY <1>4 DEF Install, ConnInv, LockInv
  <2> QED BY <1>4, <2>1 DEF Install
<1>5. ASSUME NEW c \in Sockets, RemoteClose(c) PROVE Kept
  BY <1>5 DEF RemoteClose
<1>6. ASSUME NEW c \in Sockets, OnDisconnect(c) PROVE Kept \/ Told
  <2>1. sock'[c].destroyed
    BY <1>0, <1>6, SockLost DEF OnDisconnect
  <2> QED BY <1>6, <2>1 DEF OnDisconnect
<1>7. CASE UserDisconnect \/ LoginDisconnect \/ \E c \in Sockets : KeepAliveDisconnect(c)
  BY <1>7, <1>d DEF UserDisconnect, LoginDisconnect, KeepAliveDisconnect, Disconnect
<1>8. CASE ResetConnection
  <2>0. cli'.socket = cli.socket
    BY <1>0, <1>8 DEF ResetConnection, CliRec
  <2>1. CASE cli.socket = None
    BY <1>8, <2>0, <2>1 DEF ResetConnection
  <2>2. CASE cli.socket # None
    <3>1. PICK c \in Sockets : c = cli.socket /\ sock' = [sock EXCEPT ![c] = Stop(@, TRUE, TRUE)]
      BY <1>0, <1>8, <2>2, Zenon DEF ResetConnection
    <3>2. sock'[c].destroyed
      BY <1>0, <3>1, SockReset
    <3> QED BY <1>8, <2>2, <3>1, <3>2 DEF ResetConnection
  <2> QED BY <2>1, <2>2
<1>9. ASSUME NEW c \in Sockets, KeepAliveFail(c) \/ KeepAliveReset(c) \/ \E k \in Kinds : EnqueueNode(c, k)
      PROVE  Kept
  BY <1>0, <1>9 DEF KeepAliveFail, KeepAliveReset, EnqueueNode, CliRec
<1>10. CASE UserConnect \/ TakeNode \/ HandleSuccess \/ HandleConnectFailure
  BY <1>0, <1>10 DEF UserConnect, TakeNode, HandleSuccess, HandleConnectFailure, CliRec
<1>11. CASE HandleStreamError
  <2>1. CASE handling.kind \in {"401", "removed", "replaced"}
    BY <1>11, <2>1 DEF HandleStreamError
  <2>2. CASE handling.kind \notin {"401", "removed", "replaced"}
    <3>1. ClearResponseWaiters("disconnect")
      BY <1>11, <2>2 DEF HandleStreamError
    <3>2. seen' = [seen EXCEPT !.stale = @ \/ handling.from # cli.socket]
          /\ UNCHANGED <<sock, queue>> /\ handling' = NoNode
          /\ handling.kind \in {"515", "401", "removed", "replaced", "error"}
      BY <1>11 DEF HandleStreamError
    <3>3. CASE handling.from # cli.socket
      BY <1>0, <3>1, <3>2, <3>3 DEF SeenRec
    <3>4. CASE handling.from = cli.socket
      <4>1. handling \in Nodes /\ handling # NoNode
        BY <1>0, <3>2 DEF NoNode
      <4>2. PICK c \in Sockets : c = cli.socket /\ c = handling.from
        BY <3>4, <4>1 DEF Nodes
      <4>3. cli'.socket = c /\ ~cli'.loggedIn
        <5>1. PICK deletes \in BOOLEAN :
                 cli' = [cli EXCEPT !.loggedIn = FALSE, !.deleted = @ \/ deletes,
                                    !.expected = @ \/ handling.kind \in {"removed", "replaced"},
                                    !.force = @ /\ handling.kind \notin {"removed", "replaced"}]
          BY <1>11 DEF HandleStreamError
        <5> QED BY <1>0, <4>2, <5>1 DEF CliRec
      <4>4. sock[c].stream = "over"
        BY <3>2, <4>1, <4>2 DEF NodesInv, Sound
      <4>5. \A j \in DOMAIN queue : queue[j] \in Nodes /\ c < queue[j].from
        BY <1>0, <3>2, <4>1, <4>2 DEF NodesInv, Before
      <4>6. \A j \in DOMAIN queue : c <= queue[j].from /\ queue[j].from # c
        BY <1>0, <4>5 DEF Nodes
      <4>7. Ended(c)'
        BY <3>2, <4>3, <4>4, <4>6 DEF Ended
      <4> QED BY <3>1, <4>2, <4>7
    <3> QED BY <3>3, <3>4
  <2> QED BY <2>1, <2>2
<1> QED BY <1>1, <1>2, <1>3, <1>4, <1>5, <1>6, <1>7, <1>8, <1>9, <1>10, <1>11 DEF ConnNext

\* The connection's steps keep the invariant of every query.
LEMMA ConnQuery ==
    ASSUME ReqTypeOK, ConnInv, NodesInv, QueryInv, ConnNext, UNCHANGED reqVars
    PROVE  QueryInv'
<1> SUFFICES ASSUME NEW r \in Requests
             PROVE  WaiterInv(r)' /\ UsedInv(r)' /\ RepeatInv(r)' /\ PanicInv(r)'
  BY DEF QueryInv
<1>0. WaiterInv(r) /\ UsedInv(r) /\ RepeatInv(r) /\ PanicInv(r) /\ UNCHANGED <<rq, taken, wrote>>
      /\ [Next]_vars
  BY DEF QueryInv, reqVars, Next
<1>1. /\ waiters \subseteq Requests /\ chan \in [Requests -> ChanSet]
      /\ rq[r].s \in {None} \cup Sockets /\ rq[r] \in RqRec
  <2>1. rq[r] \in RqRec
    BY ReqTypes
  <2> QED BY <2>1, ReqTypes, Types DEF RqRec
<1>2. /\ (r \in waiters' => r \in waiters)
      /\ \/ chan'[r] = chan[r] /\ (r \in waiters => r \in waiters' /\ (cli.socket = None \/ cli'.socket = cli.socket))
         \/ r \in waiters /\ r \notin waiters' /\ chan'[r] = "auth"
         \/ /\ r \in waiters /\ r \notin waiters' /\ chan'[r] = "disconnect"
            /\ \/ seen'.stale
               \/ \A s \in Sockets : s = cli.socket => sock'[s].destroyed \/ Ended(s)'
  <2>1. r \in waiters => chan[r] = "empty"
    BY <1>0 DEF WaiterInv
  <2>2. CASE UNCHANGED <<waiters, chan>> /\ (cli.socket = None \/ cli'.socket = cli.socket)
    BY <2>2
  <2>3. CASE ClearResponseWaiters("auth")
    BY <2>1, <2>3 DEF ClearResponseWaiters
  <2>4. CASE /\ ClearResponseWaiters("disconnect")
             /\ \/ seen'.stale
                \/ \A s \in Sockets : s = cli.socket => sock'[s].destroyed \/ Ended(s)'
    <3>1. /\ r \notin waiters'
          /\ chan'[r] = IF r \notin waiters THEN chan[r] ELSE "disconnect"
      BY <2>1, <2>4 DEF ClearResponseWaiters
    <3> QED BY <2>4, <3>1
  <2> QED BY <2>2, <2>3, <2>4, WaitersEffect
<1>3. WaiterInv(r)'
  BY <1>0, <1>2 DEF WaiterInv
<1>f. \A s \in Sockets : /\ sock[s].destroyed => sock'[s].destroyed
                         /\ s = cli.socket => cli'.socket = s \/ sock'[s].destroyed
                         /\ Ended(s) => Ended(s)' \/ sock'[s].destroyed
  BY <1>0, Forward, EndedKept
<1>4. UsedInv(r)'
  <2>1. \A s \in Sockets : wrote[r][s] > 0 => s = cli'.socket \/ sock'[s].destroyed
    BY <1>0, <1>f DEF UsedInv
  <2>2. rq[r].s # None => rq[r].s = cli'.socket \/ sock'[rq[r].s].destroyed
    BY <1>0, <1>1, <1>f DEF UsedInv
  <2>3. ASSUME rq[r].at = "wait", chan'[r] = "empty" PROVE r \in taken \/ rq[r].s = cli'.socket
    <3>1. chan[r] = "empty" /\ rq[r].s # None
      BY <1>0, <1>2, <2>3 DEF UsedInv, WaiterInv
    <3>2. r \in taken \/ (r \in waiters /\ rq[r].s = cli.socket)
      BY <1>0, <2>3, <3>1 DEF UsedInv, WaiterInv
    <3> QED BY <1>2, <2>3, <3>1, <3>2
  <2> QED BY <1>0, <2>1, <2>2, <2>3 DEF UsedInv
<1>5. Excused(r) => Excused(r)'
  BY <1>0, StaleKept DEF Excused
<1>6. RepeatInv(r)'
  <2> SUFFICES ASSUME NEW s \in Sockets
               PROVE  /\ rq[r].try = 1 => wrote[r][s] <= 1 /\ (Unsent(r) => wrote[r][s] = 0)
                      /\ rq[r].try = 1 /\ chan'[r] = "disconnect" /\ wrote[r][s] > 0
                            => sock'[s].destroyed \/ Excused(r)' \/ Ended(s)'
                      /\ rq[r].try = 2 /\ Unsent(r) /\ wrote[r][s] > 0
                            => wrote[r][s] = 1 /\ (sock'[s].destroyed \/ Excused(r)')
                      /\ wrote[r][s] > 1 => Excused(r)'
    BY <1>0 DEF RepeatInv, Unsent
  <2>1. ASSUME rq[r].try = 1, chan'[r] = "disconnect", wrote[r][s] > 0
        PROVE  sock'[s].destroyed \/ Excused(r)' \/ Ended(s)'
    <3>1. CASE chan[r] = "disconnect"
      <4>1. sock[s].destroyed \/ Excused(r) \/ Ended(s)
        BY <1>0, <2>1, <3>1 DEF RepeatInv
      <4> QED BY <1>5, <1>f, <4>1
    <3>2. CASE chan[r] # "disconnect"
      <4>1. \/ seen'.stale
            \/ \A t \in Sockets : t = cli.socket => sock'[t].destroyed \/ Ended(t)'
        BY <1>2, <2>1, <3>2
      <4>2. s = cli.socket \/ sock[s].destroyed
        BY <1>0, <2>1 DEF UsedInv
      <4> QED BY <1>f, <4>1, <4>2 DEF Excused
    <3> QED BY <3>1, <3>2
  <2> QED BY <1>0, <1>5, <1>f, <2>1 DEF RepeatInv
<1>7. PanicInv(r)'
  BY <1>0, <1>2, <1>5 DEF PanicInv, Unsent, WaiterInv
<1> QED BY <1>3, <1>4, <1>6, <1>7

\* A query that a step leaves alone keeps its invariant.
LEMMA QueryKept ==
    ASSUME NEW q \in Requests, WaiterInv(q), UsedInv(q), RepeatInv(q), PanicInv(q),
           rq'[q] = rq[q], chan'[q] = chan[q], wrote'[q] = wrote[q],
           q \in waiters' <=> q \in waiters, q \in taken' <=> q \in taken,
           UNCHANGED <<cli, sock, seen, queue, handling>>
    PROVE  WaiterInv(q)' /\ UsedInv(q)' /\ RepeatInv(q)' /\ PanicInv(q)'
<1>1. WaiterInv(q)'
  BY DEF WaiterInv
<1>2. UsedInv(q)'
  BY DEF UsedInv
<1>3. /\ Unsent(q)' <=> Unsent(q)
      /\ Excused(q)' <=> Excused(q)
      /\ \A s \in Sockets : Ended(s)' <=> Ended(s)
  BY DEF Unsent, Excused, Ended
<1>4. RepeatInv(q)'
  BY <1>3 DEF RepeatInv
<1>5. PanicInv(q)'
  BY <1>3 DEF PanicInv
<1> QED BY <1>1, <1>2, <1>4, <1>5

\* A query that moves to another place: its waiter, its channel and its attempt
\* are left alone.
LEMMA GoEffect ==
    ASSUME ReqTypeOK, NEW r \in Requests, NEW at, Go(r, at)
    PROVE  /\ rq'[r].at = at /\ rq'[r].s = rq[r].s /\ rq'[r].try = rq[r].try
           /\ rq'[r].cancelled = rq[r].cancelled /\ rq'[r].early = rq[r].early
           /\ \A q \in Requests \ {r} : rq'[q] = rq[q]
<1>1. rq \in [Requests -> RqRec] /\ rq[r] \in RqRec
  BY ReqTypes
<1> QED BY <1>1 DEF Go, RqRec

\* The steps of a query keep the invariant of every query.
LEMMA ReqQuery ==
    ASSUME ReqTypeOK, ConnInv, QueryInv, ReqNext
    PROVE  QueryInv'
<1> SUFFICES ASSUME NEW r \in Requests,
                    \/ Begin(r) \/ ReadSocket(r) \/ Register(r) \/ SendFrame(r)
                    \/ CancelResponse(r) \/ ReceiveResponse(r) \/ DeliverResponse(r)
                    \/ Answered(r) \/ TimedOut(r) \/ Reconnected(r)
             PROVE  QueryInv'
  BY DEF ReqNext
<1>0. /\ WaiterInv(r) /\ UsedInv(r) /\ RepeatInv(r) /\ PanicInv(r)
      /\ rq \in [Requests -> RqRec] /\ rq[r] \in RqRec /\ taken \subseteq Requests
      /\ wrote \in [Requests -> [Sockets -> Nat]] /\ wrote[r] \in [Sockets -> Nat]
      /\ waiters \subseteq Requests /\ chan \in [Requests -> ChanSet]
      /\ cli.socket \in {None} \cup Sockets /\ rq[r].s \in {None} \cup Sockets
      /\ rq[r].try \in {1, 2} /\ cli.loggedIn \in BOOLEAN
  <2>1. rq[r] \in RqRec /\ cli \in CliRec
    BY ReqTypes, Types
  <2> QED BY <2>1, ReqTypes, Types DEF QueryInv, RqRec, CliRec
<1>k. UNCHANGED <<cli, sock, seen, queue, handling>>
  <2>1. KeepConn
    BY Zenon DEF Begin, ReadSocket, Register, SendFrame, CancelResponse, ReceiveResponse,
       DeliverResponse, Answered, TimedOut, Reconnected
  <2> QED BY <2>1 DEF KeepConn
<1>q. ASSUME \A q \in Requests \ {r} :
                /\ rq'[q] = rq[q] /\ chan'[q] = chan[q] /\ wrote'[q] = wrote[q]
                /\ q \in waiters' <=> q \in waiters
                /\ q \in taken' <=> q \in taken,
             WaiterInv(r)', UsedInv(r)', RepeatInv(r)', PanicInv(r)'
      PROVE  QueryInv'
  <2> SUFFICES ASSUME NEW q \in Requests
               PROVE  WaiterInv(q)' /\ UsedInv(q)' /\ RepeatInv(q)' /\ PanicInv(q)'
    BY DEF QueryInv
  <2>1. CASE q = r
    BY <1>q, <2>1
  <2>2. CASE q # r
    <3>1. WaiterInv(q) /\ UsedInv(q) /\ RepeatInv(q) /\ PanicInv(q)
      BY DEF QueryInv
    <3> QED BY <1>k, <1>q, <2>2, <3>1, QueryKept
  <2> QED BY <2>1, <2>2
<1>e. \A s \in Sockets : Ended(s)' <=> Ended(s)
  BY <1>k DEF Ended
<1>w. ASSUME WaitResponse(r)
      PROVE  /\ r \in waiters' /\ chan'[r] = "empty"
             /\ \A q \in Requests \ {r} : chan'[q] = chan[q] /\ (q \in waiters' <=> q \in waiters)
  BY <1>0, <1>w DEF WaitResponse
<1>1. CASE Begin(r)
  <2>1. /\ rq[r].at = "idle" /\ WaitResponse(r) /\ Go(r, "socket") /\ UNCHANGED <<taken, wrote>>
    BY <1>1 DEF Begin
  <2>2. /\ rq'[r].at = "socket" /\ rq'[r].s = rq[r].s /\ rq'[r].try = rq[r].try
        /\ rq'[r].cancelled = rq[r].cancelled /\ rq'[r].early = rq[r].early
        /\ \A q \in Requests \ {r} : rq'[q] = rq[q]
    BY <2>1, GoEffect
  <2>3. WaiterInv(r)'
    BY <1>0, <1>w, <2>1, <2>2 DEF WaiterInv
  <2>4. UsedInv(r)'
    BY <1>0, <1>k, <2>1, <2>2 DEF UsedInv
  <2>5. RepeatInv(r)'
    BY <1>0, <1>k, <1>w, <2>1, <2>2 DEF RepeatInv, Unsent, Excused, WaiterInv
  <2>6. PanicInv(r)'
    BY <1>0, <1>k, <1>w, <2>1, <2>2 DEF PanicInv, Excused, WaiterInv
  <2> QED BY <1>q, <1>w, <2>1, <2>2, <2>3, <2>4, <2>5, <2>6
<1>2. CASE ReadSocket(r)
  <2>1. PICK a : /\ a = (IF rq[r].try = 1 THEN IF cli.socket = None THEN "cancel" ELSE "write"
                         ELSE IF cli.socket = None THEN "failed" ELSE "register")
                 /\ rq' = [rq EXCEPT ![r].s = cli.socket, ![r].at = a]
    BY <1>2, Zenon DEF ReadSocket
  <2>2. /\ rq'[r].at = a /\ rq'[r].s = cli.socket /\ rq'[r].try = rq[r].try
        /\ rq'[r].cancelled = rq[r].cancelled /\ rq'[r].early = rq[r].early
        /\ \A q \in Requests \ {r} : rq'[q] = rq[q]
    BY <1>0, <2>1 DEF RqRec
  <2>3. rq[r].at = "socket" /\ UNCHANGED <<waiters, chan, taken, wrote>>
    BY <1>2 DEF ReadSocket
  <2>4. WaiterInv(r)'
    BY <1>0, <2>1, <2>2, <2>3 DEF WaiterInv
  <2>5. UsedInv(r)'
    BY <1>0, <1>k, <2>1, <2>2, <2>3 DEF UsedInv
  <2>6. RepeatInv(r)'
    BY <1>0, <1>k, <1>e, <2>1, <2>2, <2>3 DEF RepeatInv, Unsent, Excused
  <2>7. PanicInv(r)'
    BY <1>0, <1>k, <2>1, <2>2, <2>3 DEF PanicInv, Unsent, Excused
  <2> QED BY <1>q, <2>2, <2>3, <2>4, <2>5, <2>6, <2>7
<1>3. CASE Register(r)
  <2>1. /\ rq[r].at = "register" /\ WaitResponse(r) /\ Go(r, "write") /\ UNCHANGED <<taken, wrote>>
    BY <1>3 DEF Register
  <2>2. /\ rq'[r].at = "write" /\ rq'[r].s = rq[r].s /\ rq'[r].try = rq[r].try
        /\ rq'[r].cancelled = rq[r].cancelled /\ rq'[r].early = rq[r].early
        /\ \A q \in Requests \ {r} : rq'[q] = rq[q]
    BY <2>1, GoEffect
  <2>3. WaiterInv(r)'
    BY <1>0, <1>w, <2>1, <2>2 DEF WaiterInv
  <2>4. UsedInv(r)'
    BY <1>0, <1>k, <2>1, <2>2 DEF UsedInv
  <2>5. RepeatInv(r)'
    BY <1>0, <1>k, <1>w, <2>1, <2>2 DEF RepeatInv, Unsent, Excused, WaiterInv
  <2>6. PanicInv(r)'
    BY <1>0, <1>k, <1>w, <2>1, <2>2 DEF PanicInv, Excused, WaiterInv
  <2> QED BY <1>q, <1>w, <2>1, <2>2, <2>3, <2>4, <2>5, <2>6
<1>4. CASE SendFrame(r)
  <2>0. rq[r].at = "write" /\ UNCHANGED <<waiters, chan, taken>> /\ rq[r].s \in Sockets
    <3>1. rq[r].at = "write" /\ UNCHANGED <<waiters, chan, taken>>
      BY <1>4, Zenon DEF SendFrame
    <3> QED BY <1>0, <3>1 DEF UsedInv
  <2>1. CASE /\ sock[rq[r].s].conn = "open"
             /\ wrote' = [wrote EXCEPT ![r][rq[r].s] = @ + 1]
             /\ \E cancels \in BOOLEAN :
                   rq' = [rq EXCEPT ![r].at = IF cancels THEN "cancel" ELSE "wait",
                                    ![r].cancelled = cancels,
                                    ![r].early = @ \/ r \notin waiters]
    <3>1. PICK c \in Sockets : c = rq[r].s /\ c = cli.socket /\ ~sock[c].destroyed
      BY <1>0, <2>0, <2>1 DEF UsedInv, ConnInv, SockInv
    <3>2. PICK cancels \in BOOLEAN :
             rq' = [rq EXCEPT ![r].at = IF cancels THEN "cancel" ELSE "wait",
                              ![r].cancelled = cancels,
                              ![r].early = @ \/ r \notin waiters]
      BY <2>1, Zenon
    <3>3. /\ rq'[r].at = (IF cancels THEN "cancel" ELSE "wait") /\ rq'[r].s = c
          /\ rq'[r].try = rq[r].try /\ rq'[r].cancelled = cancels
          /\ rq'[r].early <=> (rq[r].early \/ r \notin waiters)
          /\ \A q \in Requests \ {r} : rq'[q] = rq[q]
      <4>1. PICK a \in {"cancel", "wait"} : a = IF cancels THEN "cancel" ELSE "wait"
        OBVIOUS
      <4>2. PICK e \in BOOLEAN : e = (rq[r].early \/ r \notin waiters)
        OBVIOUS
      <4>3. rq' = [rq EXCEPT ![r].at = a, ![r].cancelled = cancels, ![r].early = e]
        BY <3>2, <4>1, <4>2
      <4>4. /\ rq'[r].at = a /\ rq'[r].s = c
            /\ rq'[r].try = rq[r].try /\ rq'[r].cancelled = cancels
            /\ rq'[r].early = e
            /\ \A q \in Requests \ {r} : rq'[q] = rq[q]
        BY <1>0, <3>1, <4>3 DEF RqRec
      <4> QED BY <4>1, <4>2, <4>4
    <3>4. /\ \A s \in Sockets : wrote'[r][s] = IF s = c THEN wrote[r][s] + 1 ELSE wrote[r][s]
          /\ \A q \in Requests \ {r} : wrote'[q] = wrote[q]
      BY <1>0, <2>1, <3>1
    <3>5. ~Unsent(r)' /\ (Excused(r) => Excused(r)') /\ Unsent(r)
      BY <1>k, <2>0, <3>3 DEF Unsent, Excused
    <3>6. WaiterInv(r)'
      BY <1>0, <2>0, <3>3 DEF WaiterInv
    <3>7. UsedInv(r)'
      BY <1>0, <1>k, <2>0, <3>1, <3>3, <3>4, SocketNumbers DEF UsedInv
    <3>8. RepeatInv(r)'
      <4> SUFFICES ASSUME NEW s \in Sockets
                   PROVE  /\ rq'[r].try = 1 => wrote'[r][s] <= 1
                          /\ rq'[r].try = 1 /\ chan'[r] = "disconnect" => Excused(r)'
                          /\ wrote'[r][s] > 1 => Excused(r)'
        BY <3>5 DEF RepeatInv
      <4>1. /\ rq[r].try = 1 => wrote[r][s] = 0
            /\ rq[r].try = 2 /\ wrote[r][s] > 0 => wrote[r][s] = 1 /\ (sock[s].destroyed \/ Excused(r))
            /\ wrote[r][s] > 1 => Excused(r)
        BY <1>0, <3>5 DEF RepeatInv
      <4>2. wrote[r][s] \in Nat
        BY <1>0
      <4>3. chan'[r] = "disconnect" => Excused(r)'
        BY <1>0, <2>0, <3>3 DEF WaiterInv, Excused
      <4> QED BY <1>0, <3>1, <3>3, <3>4, <3>5, <4>1, <4>2, <4>3
    <3>9. PanicInv(r)'
      BY <1>0, <2>0, <3>3, <3>5 DEF PanicInv, WaiterInv
    <3> QED BY <1>q, <2>0, <3>3, <3>4, <3>6, <3>7, <3>8, <3>9
  <2>2. CASE Go(r, "cancel") /\ UNCHANGED wrote
    <3>1. /\ rq'[r].at = "cancel" /\ rq'[r].s = rq[r].s /\ rq'[r].try = rq[r].try
          /\ rq'[r].cancelled = rq[r].cancelled /\ rq'[r].early = rq[r].early
          /\ \A q \in Requests \ {r} : rq'[q] = rq[q]
      BY <2>2, GoEffect
    <3>2. Unsent(r)' /\ Unsent(r) /\ (Excused(r)' <=> Excused(r))
      BY <1>0, <1>k, <2>0, <3>1 DEF Unsent, Excused, WaiterInv
    <3>3. WaiterInv(r)'
      BY <1>0, <2>0, <3>1 DEF WaiterInv
    <3>4. UsedInv(r)'
      BY <1>0, <1>k, <2>0, <2>2, <3>1 DEF UsedInv
    <3>5. RepeatInv(r)'
      BY <1>0, <1>k, <1>e, <2>0, <2>2, <3>1, <3>2 DEF RepeatInv
    <3>6. PanicInv(r)'
      BY <1>0, <2>0, <3>1, <3>2 DEF PanicInv
    <3> QED BY <1>q, <2>0, <2>2, <3>1, <3>3, <3>4, <3>5, <3>6
  <2>3. CASE rq' = [rq EXCEPT ![r].at = "cancel", ![r].cancelled = TRUE] /\ UNCHANGED wrote
    <3>1. /\ rq'[r].at = "cancel" /\ rq'[r].s = rq[r].s /\ rq'[r].try = rq[r].try
          /\ rq'[r].cancelled /\ rq'[r].early = rq[r].early
          /\ \A q \in Requests \ {r} : rq'[q] = rq[q]
      BY <1>0, <2>3 DEF RqRec
    <3>2. ~Unsent(r)' /\ (Excused(r)' <=> Excused(r))
      BY <1>0, <1>k, <2>0, <3>1 DEF Unsent, Excused
    <3>3. WaiterInv(r)'
      BY <1>0, <2>0, <3>1 DEF WaiterInv
    <3>4. UsedInv(r)'
      BY <1>0, <1>k, <2>0, <2>3, <3>1 DEF UsedInv
    <3>5. RepeatInv(r)'
      BY <1>0, <1>k, <1>e, <2>0, <2>3, <3>1, <3>2 DEF RepeatInv
    <3>6. PanicInv(r)'
      BY <3>1 DEF PanicInv
    <3> QED BY <1>q, <2>0, <2>3, <3>1, <3>3, <3>4, <3>5, <3>6
  <2> QED BY <1>4, <2>1, <2>2, <2>3, Zenon DEF SendFrame
<1>5. CASE CancelResponse(r)
  <2>1. /\ rq[r].at = "cancel" /\ Go(r, "failed") /\ UNCHANGED <<taken, wrote>>
        /\ waiters' = waiters \ {r}
        /\ chan' = [chan EXCEPT ![r] = IF @ = "closed" THEN "panic" ELSE "closed"]
    BY <1>5 DEF CancelResponse
  <2>2. /\ rq'[r].at = "failed" /\ rq'[r].s = rq[r].s /\ rq'[r].try = rq[r].try
        /\ rq'[r].cancelled = rq[r].cancelled /\ rq'[r].early = rq[r].early
        /\ \A q \in Requests \ {r} : rq'[q] = rq[q]
    BY <2>1, GoEffect
  <2>3. chan'[r] = "closed" /\ \A q \in Requests \ {r} : chan'[q] = chan[q]
    BY <1>0, <2>1 DEF WaiterInv
  <2>4. WaiterInv(r)'
    BY <1>0, <2>1, <2>2, <2>3 DEF WaiterInv
  <2>5. UsedInv(r)'
    BY <1>0, <1>k, <2>1, <2>2 DEF UsedInv
  <2>6. RepeatInv(r)'
    BY <1>0, <1>k, <2>1, <2>2, <2>3 DEF RepeatInv, Unsent, Excused
  <2>7. PanicInv(r)'
    BY <1>0, <1>k, <2>1, <2>2, <2>3 DEF PanicInv, Unsent, Excused
  <2> QED BY <1>q, <2>1, <2>2, <2>3, <2>4, <2>5, <2>6, <2>7
<1>6. CASE ReceiveResponse(r)
  <2>1. /\ r \in waiters /\ waiters' = waiters \ {r} /\ taken' = taken \cup {r}
        /\ UNCHANGED <<chan, rq, wrote>>
    BY <1>6 DEF ReceiveResponse
  <2>2. PICK s \in Sockets : wrote[r][s] > 0 /\ sock[s].hook /\ ~sock[s].destroyed
    BY <1>6 DEF ReceiveResponse
  <2>3. Unsent(r) => Excused(r)
    BY <1>0, <2>2 DEF RepeatInv
  <2>4. WaiterInv(r)'
    BY <1>0, <2>1 DEF WaiterInv
  <2>5. UsedInv(r)'
    BY <1>0, <1>k, <2>1 DEF UsedInv
  <2>6. RepeatInv(r)'
    BY <1>0, <1>k, <1>e, <2>1 DEF RepeatInv, Unsent, Excused
  <2>7. PanicInv(r)'
    BY <1>0, <1>k, <2>1, <2>3 DEF PanicInv, Unsent, Excused, WaiterInv
  <2> QED BY <1>q, <2>1, <2>4, <2>5, <2>6, <2>7
<1>7. CASE DeliverResponse(r)
  <2>1. /\ r \in taken /\ taken' = taken \ {r} /\ UNCHANGED <<waiters, rq, wrote>>
        /\ chan' = [chan EXCEPT ![r] = IF @ = "empty" THEN "response" ELSE "panic"]
    BY <1>7 DEF DeliverResponse
  <2>2. /\ chan'[r] = IF chan[r] = "empty" THEN "response" ELSE "panic"
        /\ \A q \in Requests \ {r} : chan'[q] = chan[q]
    BY <1>0, <2>1
  <2>3. WaiterInv(r)'
    BY <1>0, <2>1, <2>2 DEF WaiterInv
  <2>4. UsedInv(r)'
    BY <1>0, <1>k, <2>1, <2>2 DEF UsedInv
  <2>5. RepeatInv(r)'
    BY <1>0, <1>k, <1>e, <2>1, <2>2 DEF RepeatInv, Unsent, Excused
  <2>6. PanicInv(r)'
    BY <1>0, <1>k, <2>1, <2>2 DEF PanicInv, Excused, WaiterInv
  <2> QED BY <1>q, <2>1, <2>2, <2>3, <2>4, <2>5, <2>6
<1>8. CASE Answered(r) \/ TimedOut(r)
  <2>1. PICK a \in {"reconnect", "done", "failed"} :
           /\ rq[r].at = "wait" /\ Go(r, a) /\ UNCHANGED <<waiters, chan, taken, wrote>>
           /\ a = "reconnect" => chan[r] = "disconnect" /\ rq[r].try = 1
           /\ a = "done" => chan[r] = "response"
    BY <1>8 DEF Answered, TimedOut
  <2>2. /\ rq'[r].at = a /\ rq'[r].s = rq[r].s /\ rq'[r].try = rq[r].try
        /\ rq'[r].cancelled = rq[r].cancelled /\ rq'[r].early = rq[r].early
        /\ \A q \in Requests \ {r} : rq'[q] = rq[q]
    BY <2>1, GoEffect
  <2>3. WaiterInv(r)'
    BY <1>0, <2>1, <2>2 DEF WaiterInv
  <2>4. UsedInv(r)'
    BY <1>0, <1>k, <2>1, <2>2 DEF UsedInv
  <2>5. RepeatInv(r)'
    BY <1>0, <1>k, <1>e, <2>1, <2>2 DEF RepeatInv, Unsent, Excused
  <2>6. PanicInv(r)'
    BY <1>0, <1>k, <2>1, <2>2 DEF PanicInv, Unsent, Excused
  <2> QED BY <1>q, <2>1, <2>2, <2>3, <2>4, <2>5, <2>6
<1>9. CASE Reconnected(r)
  <2>0. rq[r].at = "reconnect" /\ UNCHANGED <<waiters, chan, taken, wrote>>
    BY <1>9 DEF Reconnected
  <2>1. CASE Go(r, "failed")
    <3>1. /\ rq'[r].at = "failed" /\ rq'[r].s = rq[r].s /\ rq'[r].try = rq[r].try
          /\ rq'[r].cancelled = rq[r].cancelled /\ rq'[r].early = rq[r].early
          /\ \A q \in Requests \ {r} : rq'[q] = rq[q]
      BY <2>1, GoEffect
    <3>2. WaiterInv(r)'
      BY <1>0, <2>0, <3>1 DEF WaiterInv
    <3>3. UsedInv(r)'
      BY <1>0, <1>k, <2>0, <3>1 DEF UsedInv
    <3>4. RepeatInv(r)'
      BY <1>0, <1>k, <1>e, <2>0, <3>1 DEF RepeatInv, Unsent, Excused
    <3>5. PanicInv(r)'
      BY <1>0, <1>k, <2>0, <3>1 DEF PanicInv, Unsent, Excused
    <3> QED BY <1>q, <2>0, <3>1, <3>2, <3>3, <3>4, <3>5
  <2>2. CASE cli.loggedIn /\ rq' = [rq EXCEPT ![r].at = "socket", ![r].try = 2]
    <3>1. /\ rq'[r].at = "socket" /\ rq'[r].s = rq[r].s /\ rq'[r].try = 2
          /\ rq'[r].cancelled = rq[r].cancelled /\ rq'[r].early = rq[r].early
          /\ \A q \in Requests \ {r} : rq'[q] = rq[q]
      <4>1. 2 \in 1..2
        OBVIOUS
      <4> QED BY <1>0, <2>2, <4>1 DEF RqRec
    <3>2. chan[r] = "disconnect" /\ rq[r].try = 1
      BY <1>0, <2>0 DEF WaiterInv
    <3>3. WaiterInv(r)'
      BY <1>0, <2>0, <3>1, <3>2 DEF WaiterInv
    <3>4. UsedInv(r)'
      BY <1>0, <1>k, <2>0, <3>1, <3>2 DEF UsedInv
    <3>5. RepeatInv(r)'
      <4>1. \A s \in Sockets : ~Ended(s) /\ wrote[r][s] \in Nat
        BY <1>0, <2>2 DEF Ended
      <4> QED BY <1>0, <1>k, <2>0, <3>1, <3>2, <4>1 DEF RepeatInv, Unsent, Excused
    <3>6. PanicInv(r)'
      BY <1>0, <1>k, <2>0, <3>1, <3>2 DEF PanicInv, WaiterInv, Excused
    <3> QED BY <1>q, <2>0, <3>1, <3>3, <3>4, <3>5, <3>6
  <2> QED BY <1>9, <2>1, <2>2 DEF Reconnected
<1> QED BY <1>1, <1>2, <1>3, <1>4, <1>5, <1>6, <1>7, <1>8, <1>9

-------------------------------------------------------------------------------
(* The theorems *)

\* The program starts with nothing dialled, queued or asked.
LEMMA InitIInv == Init => IInv
<1> SUFFICES ASSUME Init PROVE IInv
  OBVIOUS
<1> USE DEF Init, ConnInit
<1>0. None \in Nat /\ None \notin Sockets /\ (\A s \in Sockets : s \in Nat) /\ NoProc \notin Procs
  BY SocketNumbers, NobodyElse
<1>1. ReqTypeOK
  <2>1. sock \in [Sockets -> SockRec]
    BY DEF SockRec
  <2>2. cli \in CliRec /\ seen \in SeenRec
    BY DEF CliRec, SeenRec
  <2>3. /\ lock \in [owner : Procs \cup {NoProc}, step : {"none", "dial", "hello", "finish"},
                      fresh : {None} \cup Sockets]
        /\ pc \in [Procs -> PcSet] /\ ping \in [Sockets -> {"off", "run", "failed", "reset"}]
        /\ reset \in Nat /\ handling \in Nodes \cup {NoNode} /\ waiters \subseteq Requests
        /\ chan \in [Requests -> ChanSet] /\ left \in [Ops -> Nat]
    BY BudgetsAssumption DEF PcSet, ChanSet
  <2>4. queue \in Seq(Nodes) /\ Len(queue) <= QueueCap
    <3>1. queue = << >> /\ QueueCap \in Nat
      BY SocketsAssumption
    <3> QED BY <3>1
  <2>5. rq \in [Requests -> RqRec]
    <3>1. None \in {None} \cup Sockets /\ 1 \in 1..2
      OBVIOUS
    <3> QED BY <3>1 DEF RqRec
  <2>6. taken \subseteq Requests /\ wrote \in [Requests -> [Sockets -> Nat]]
    OBVIOUS
  <2> QED BY <2>1, <2>2, <2>3, <2>4, <2>5, <2>6
          DEF ReqTypeOK, ConnTypeOK, SockRec, CliRec, SeenRec, PcSet, ChanSet, RqRec
<1>2. ConnInv
  BY <1>0 DEF ConnInv, LockInv, SockInv, OrderInv, EventInv, OneConnection, DisconnectIsSilent,
     LossNoticed, Free
<1>3. NodesInv
  BY DEF NodesInv
<1>4. QueryInv
  BY <1>0 DEF QueryInv, WaiterInv, UsedInv, RepeatInv, PanicInv, Unsent
<1> QED BY <1>1, <1>2, <1>3, <1>4 DEF IInv

\* Every step keeps the invariant.
LEMMA NextIInv == IInv /\ [Next]_vars => IInv'
<1> SUFFICES ASSUME ReqTypeOK, ConnInv, NodesInv, QueryInv, [Next]_vars PROVE IInv'
  BY DEF IInv
<1>1. ReqTypeOK'
  BY TypeStep DEF ConnInv
<1>2. ConnInv'
  BY NextConn
<1>3. NodesInv'
  BY NextNodes
<1>4. QueryInv'
  <2>1. CASE UNCHANGED vars
    <3>1. \A r \in Requests : WaiterInv(r) /\ UsedInv(r) /\ RepeatInv(r) /\ PanicInv(r)
      BY DEF QueryInv
    <3>2. UNCHANGED <<cli, sock, seen, queue, handling, rq, chan, wrote, waiters, taken>>
      BY <2>1 DEF vars
    <3> QED BY <3>1, <3>2, QueryKept DEF QueryInv
  <2>2. CASE ConnNext /\ UNCHANGED reqVars
    BY <2>2, ConnQuery
  <2>3. CASE ReqNext
    BY <2>3, ReqQuery
  <2> QED BY <2>1, <2>2, <2>3 DEF Next
<1> QED BY <1>1, <1>2, <1>3, <1>4 DEF IInv

\* The inductive invariant, for any number of sockets and queries, any capacity of
\* handlerQueue and any inputs.
THEOREM Invariance == Spec => []IInv
  BY InitIInv, NextIInv, PTL DEF Spec

\* The types of the connection and of the queries (client.go, request.go).
THEOREM TypeCorrect == Spec => []ReqTypeOK
<1>1. IInv => ReqTypeOK
  BY DEF IInv
<1> QED BY <1>1, Invariance, PTL

\* connect, unlockedDisconnect, ResetConnection and onDisconnect never leave two
\* connections open, whatever their order and however often the server closes one.
THEOREM SingleConnection == Spec => []OneConnection
<1>1. IInv => OneConnection
  BY DEF IInv, ConnInv
<1> QED BY <1>1, Invariance, PTL

\* A socket has at most one Disconnected event, and none after Disconnect.
THEOREM SilentDisconnect == Spec => []DisconnectIsSilent
<1>1. IInv => DisconnectIsSilent
  BY DEF IInv, ConnInv
<1> QED BY <1>1, Invariance, PTL

\* The loss of the connection in use is noticed, except in the window before
\* newNoiseSocket sets OnDisconnect.
THEOREM NoticedLoss == Spec => []LossNoticed
<1>1. IInv => LossNoticed
  BY DEF IInv, ConnInv
<1> QED BY <1>1, Invariance, PTL

\* sendIQ never waits for a connection whose loss has been handled.
THEOREM QueriesServed == Spec => []NoHungQuery
<1>1. IInv => NoHungQuery
  <2> SUFFICES ASSUME IInv, NEW r \in Requests, rq[r].at = "wait", chan[r] = "empty"
               PROVE  r \in taken \/ (r \in waiters /\ rq[r].s = cli.socket)
    BY DEF NoHungQuery
  <2>1. WaiterInv(r) /\ UsedInv(r)
    BY DEF IInv, QueryInv
  <2> QED BY <2>1 DEF WaiterInv, UsedInv
<1> QED BY <1>1, Invariance, PTL

\* receiveResponse panics on a closed channel in the named cases only.
THEOREM PanicCases == Spec => []PanicExplained
<1>1. IInv => PanicExplained
  BY DEF IInv, QueryInv, PanicInv, PanicExplained, Excused
<1> QED BY <1>1, Invariance, PTL

\* retryFrame repeats a frame on the connection that has it in the named cases only.
THEOREM RepeatCases == Spec => []NoRepeat
<1>1. IInv => NoRepeat
  BY DEF IInv, QueryInv, RepeatInv, NoRepeat, Excused
<1> QED BY <1>1, Invariance, PTL

-------------------------------------------------------------------------------
(* The refinement: every step is one of ConnLife or cannot be seen there *)

\* Who closed a socket is known from the moment it is dead; one that died in use
\* or during the handshake was not closed by a failed connect.
CloseInv ==
    \A s \in Sockets :
       /\ sock[s].conn # "dead" => seen.closedBy[s] = "none"
       /\ (s = cli.socket \/ s = lock.fresh) /\ sock[s].conn = "dead"
             => seen.closedBy[s] \in {"remote", "reset"}

\* Steps that leave sockets, events and who closed them alone.
Kept == /\ \A s \in Sockets :
              /\ sock'[s].conn = sock[s].conn
              /\ s = cli'.socket \/ s = lock'.fresh
                    => s = cli.socket \/ s = lock.fresh \/ sock[s].conn = "new"
        /\ seen'.events = seen.events /\ seen'.closedBy = seen.closedBy

\* What the mapping needs of the types.
LEMMA LifeTypes ==
    ASSUME ConnTypeOK
    PROVE  /\ cli.socket \in {None} \cup Sockets /\ lock.fresh \in {None} \cup Sockets
           /\ None \notin Sockets /\ (\A s \in Sockets : s \in Nat)
           /\ cli \in CliRec /\ seen \in SeenRec /\ sock \in [Sockets -> SockRec]
           /\ \A s \in Sockets : /\ sock[s].conn \in {"new", "open", "dead"} /\ seen.events[s] \in Nat
                                 /\ seen.closedBy[s] \in {"none", "remote", "disconnect", "reset"}
<1>1. cli \in CliRec /\ seen \in SeenRec /\ sock \in [Sockets -> SockRec]
      /\ lock.fresh \in {None} \cup Sockets
  BY Types
<1>2. cli.socket \in {None} \cup Sockets
  BY <1>1 DEF CliRec
<1>3. \A s \in Sockets : sock[s].conn \in {"new", "open", "dead"}
  BY <1>1 DEF SockRec
<1>4. \A s \in Sockets : seen.events[s] \in Nat
                         /\ seen.closedBy[s] \in {"none", "remote", "disconnect", "reset"}
  BY <1>1 DEF SeenRec
<1> QED BY <1>1, <1>2, <1>3, <1>4, SocketNumbers

\* What a socket looks like in ConnLife.
LEMMA StateOf ==
    ASSUME NEW s
    PROVE  /\ sock[s].conn = "new" => State(s) = "new"
           /\ sock[s].conn = "open" => State(s) = "up"
           /\ sock[s].conn = "dead" =>
                 /\ seen.events[s] > 0 => State(s) = "told"
                 /\ ~(seen.events[s] > 0) =>
                       /\ seen.closedBy[s] = "none" => State(s) = "failed"
                       /\ seen.closedBy[s] = "disconnect" => State(s) = "dropped"
                       /\ seen.closedBy[s] \in {"remote", "reset"} => State(s) = "lost"
<1>1. Fate["none"] = "failed" /\ Fate["disconnect"] = "dropped"
      /\ Fate["remote"] = "lost" /\ Fate["reset"] = "lost"
  BY DEF Fate
<1> QED BY <1>1 DEF State

\* The same after a step.
LEMMA StateOfNext ==
    ASSUME NEW s
    PROVE  /\ sock'[s].conn = "new" => State(s)' = "new"
           /\ sock'[s].conn = "open" => State(s)' = "up"
           /\ sock'[s].conn = "dead" =>
                 /\ seen'.events[s] > 0 => State(s)' = "told"
                 /\ ~(seen'.events[s] > 0) =>
                       /\ seen'.closedBy[s] = "none" => State(s)' = "failed"
                       /\ seen'.closedBy[s] = "disconnect" => State(s)' = "dropped"
                       /\ seen'.closedBy[s] \in {"remote", "reset"} => State(s)' = "lost"
<1>1. Fate["none"] = "failed" /\ Fate["disconnect"] = "dropped"
      /\ Fate["remote"] = "lost" /\ Fate["reset"] = "lost"
  BY DEF Fate
<1> QED BY <1>1 DEF State, Fate

\* "new" and "up" stand for nothing else.
LEMMA NewAndUp ==
    ASSUME ConnTypeOK, NEW s \in Sockets
    PROVE  /\ State(s) = "new" <=> sock[s].conn = "new"
           /\ State(s) = "up" <=> sock[s].conn = "open"
<1>1. /\ sock[s].conn \in {"new", "open", "dead"} /\ seen.events[s] \in Nat
      /\ seen.closedBy[s] \in {"none", "remote", "disconnect", "reset"}
  BY LifeTypes
<1> QED BY <1>1, StateOf

\* Steps ConnLife cannot see.
LEMMA KeptIsStutter ==
    ASSUME ConnTypeOK, CloseInv, Kept
    PROVE  CloseInv' /\ UNCHANGED [s \in Sockets |-> State(s)]
<1>1. \A s \in Sockets : State(s)' = State(s)
  BY DEF Kept, State
<1>2. CloseInv'
  BY DEF Kept, CloseInv
<1> QED BY <1>1, <1>2

\* The socket in use and the one being dialled are the last ones tried.
LEMMA LatestInUse ==
    ASSUME ConnTypeOK, ConnInv, NEW c \in Sockets, c = cli.socket \/ c = lock.fresh
    PROVE  CF!Latest(c)
<1>1. \A t \in Sockets : State(t) = "new" <=> sock[t].conn = "new"
  BY NewAndUp
<1>2. \A t \in Sockets : (t < c => sock[t].conn # "new") /\ (t > c => sock[t].conn = "new")
  BY LifeTypes DEF ConnInv, SockInv, OrderInv
<1> QED BY <1>1, <1>2 DEF CF!Latest

\* A step that changes one socket, the last one.
LEMMA OneBecomes ==
    ASSUME ConnTypeOK, ConnInv, NEW c \in Sockets, c = cli.socket \/ c = lock.fresh,
           \A s \in Sockets \ {c} : /\ sock'[s].conn = sock[s].conn
                                    /\ seen'.events[s] = seen.events[s]
                                    /\ seen'.closedBy[s] = seen.closedBy[s],
           NEW x, State(c)' = x
    PROVE  CF!Becomes(c, x)
<1>1. \A s \in Sockets \ {c} : State(s)' = State(s)
  BY DEF State
<1>2. [s \in Sockets |-> State(s)'] = [[s \in Sockets |-> State(s)] EXCEPT ![c] = x]
  BY <1>1
<1> QED BY <1>2, LatestInUse DEF CF!Becomes

\* Dial and handshake.
LEMMA ConnectMaps ==
    ASSUME ConnTypeOK, ConnInv, CloseInv, DialOk \/ ConnectFail
    PROVE  CloseInv' /\ (CF!Next \/ UNCHANGED [s \in Sockets |-> State(s)])
<1>0. /\ cli.socket = None /\ lock.fresh \in Sockets /\ None \notin Sockets
      /\ cli' = cli /\ (lock'.fresh = lock.fresh \/ lock'.fresh = None)
      /\ seen'.events = seen.events /\ seen'.closedBy = seen.closedBy
      /\ sock \in [Sockets -> SockRec]
  <2>1. /\ lock \in [owner : Procs \cup {NoProc}, step : {"none", "dial", "hello", "finish"},
                     fresh : {None} \cup Sockets]
        /\ seen \in SeenRec
    BY Types
  <2>2. lock.step # "none" /\ cli' = cli
        /\ (lock' = [lock EXCEPT !.step = "hello"] \/ lock' = Unlocked)
        /\ (seen' = seen \/ seen' = [seen EXCEPT !.failed = lock.owner])
    BY DEF DialOk, ConnectFail
  <2>3. lock'.fresh = lock.fresh \/ lock'.fresh = None
    BY <2>1, <2>2 DEF Unlocked
  <2>4. seen'.events = seen.events /\ seen'.closedBy = seen.closedBy
    BY <2>1, <2>2 DEF SeenRec
  <2> QED BY <2>1, <2>2, <2>3, <2>4, LifeTypes DEF ConnInv, LockInv
<1>1. PICK c \in Sockets : c = lock.fresh
  BY <1>0
<1>2. seen.events[c] = 0
  BY <1>1, LifeTypes DEF ConnInv, EventInv
<1>3. CASE DialOk
  <2>1. /\ sock'[c].conn = "open" /\ sock[c].conn = "new"
        /\ \A t \in Sockets \ {c} : sock'[t] = sock[t]
    BY <1>0, <1>1, <1>3 DEF DialOk, SockRec, ConnInv, LockInv
  <2>2. State(c) = "new" /\ State(c)' = "up"
    BY <2>1, StateOf, StateOfNext
  <2>3. \A s \in Sockets : State(s) # "up"
    <3>1. \A s \in Sockets : sock[s].conn # "open"
      BY <1>0, <1>1, <2>1 DEF ConnInv, OneConnection
    <3> QED BY <3>1, NewAndUp
  <2>4. CF!Becomes(c, "up")
    BY <1>0, <1>1, <2>1, <2>2, OneBecomes
  <2>5. CF!Up(c)
    BY <2>2, <2>3, <2>4 DEF CF!Up, CF!NoneUp
  <2>6. CloseInv'
    BY <1>0, <1>1, <2>1 DEF CloseInv
  <2> QED BY <2>5, <2>6 DEF CF!Next
<1>4. CASE ConnectFail
  <2>1. /\ sock'[c].conn = "dead" /\ lock'.fresh = None
        /\ \A t \in Sockets \ {c} : sock'[t] = sock[t]
    <3>1. PICK z : z = Close(sock[c], TRUE)
      OBVIOUS
    <3>2. z \in SockRec
      BY <1>0, <3>1, CloseRemote, Zenon
    <3>3. sock' = [sock EXCEPT ![c] = [z EXCEPT !.conn = "dead"]] /\ lock' = Unlocked
      BY <1>1, <1>4, <3>1, Zenon DEF ConnectFail
    <3> QED BY <1>0, <3>2, <3>3 DEF SockRec, Unlocked
  <2>2. CloseInv'
    BY <1>0, <1>1, <2>1 DEF CloseInv
  <2>3. CASE sock[c].conn = "dead"
    <3>1. \A s \in Sockets : sock'[s].conn = sock[s].conn
      BY <2>1, <2>3
    <3> QED BY <1>0, <2>1, <3>1, KeptIsStutter DEF Kept
  <2>4. CASE sock[c].conn # "dead"
    <3>1. seen.closedBy[c] = "none" /\ sock[c].conn \in {"new", "open"}
      BY <2>4, LifeTypes DEF CloseInv
    <3>2. State(c) \in {"new", "up"} /\ State(c)' = "failed"
      BY <1>0, <1>2, <2>1, <3>1, StateOf, StateOfNext
    <3>3. CF!Becomes(c, "failed")
      BY <1>0, <1>1, <2>1, <3>2, OneBecomes
    <3>4. CF!Fail(c)
      BY <3>2, <3>3 DEF CF!Fail
    <3> QED BY <2>2, <3>4 DEF CF!Next
  <2> QED BY <2>3, <2>4
<1> QED BY <1>3, <1>4

\* Disconnect, on whichever goroutine.
LEMMA DisconnectMaps ==
    ASSUME ConnTypeOK, ConnInv, CloseInv, NEW wish \in {"up", "down"}, Disconnect(wish), lock' = lock
    PROVE  CloseInv' /\ (CF!Next \/ UNCHANGED [s \in Sockets |-> State(s)])
<1>0. /\ cli.socket \in {None} \cup Sockets /\ None \notin Sockets /\ lock.fresh = None
      /\ cli'.socket = None /\ seen'.events = seen.events
      /\ seen'.closedBy = [s \in Sockets |-> IF s = cli.socket THEN "disconnect" ELSE seen.closedBy[s]]
  BY LifeTypes DEF Disconnect, CliRec, SeenRec, ConnInv, LockInv
<1>1. CASE cli.socket = None
  <2>1. sock' = sock
    BY <1>1 DEF Disconnect, UnlockedDisconnect
  <2>2. seen'.closedBy = seen.closedBy
    BY <1>0, <1>1, LifeTypes DEF SeenRec
  <2> QED BY <1>0, <2>1, <2>2, KeptIsStutter DEF Kept
<1>2. CASE cli.socket # None
  <2>1. PICK c \in Sockets : c = cli.socket /\ sock' = [sock EXCEPT ![c] = Stop(@, TRUE, FALSE)]
    BY <1>0, <1>2, Zenon DEF Disconnect, UnlockedDisconnect
  <2>2. /\ \A t \in Sockets \ {c} : sock'[t] = sock[t]
        /\ sock'[c].conn = "dead"
    <3>1. sock[c].conn # "new" /\ (sock[c].destroyed => sock[c].conn = "dead")
      BY <2>1 DEF ConnInv, SockInv
    <3> QED BY <2>1, <3>1, SockDropped, LifeTypes
  <2>3. seen.events[c] = 0 /\ sock[c].conn \in {"open", "dead"}
    BY <2>1, LifeTypes DEF ConnInv, EventInv, SockInv
  <2>c. /\ seen'.closedBy[c] = "disconnect" /\ seen'.events[c] = 0
        /\ \A s \in Sockets \ {c} : seen'.closedBy[s] = seen.closedBy[s]
    BY <1>0, <2>1, <2>3
  <2>4. State(c) \in {"up", "lost"} /\ State(c)' = "dropped"
    <3>1. sock[c].conn = "dead" => seen.closedBy[c] \in {"remote", "reset"}
      BY <2>1 DEF CloseInv
    <3>2. State(c) \in {"up", "lost"}
      BY <2>3, <3>1, StateOf
    <3>3. State(c)' = "dropped"
      BY <2>2, <2>c, StateOfNext
    <3> QED BY <3>2, <3>3
  <2>5. CF!Becomes(c, "dropped")
    BY <1>0, <2>1, <2>2, <2>c, <2>4, OneBecomes
  <2>6. CF!Drop(c)
    BY <2>4, <2>5 DEF CF!Drop
  <2>7. CloseInv'
    <3>1. \A s \in Sockets : s # cli'.socket /\ s # lock'.fresh
      BY <1>0
    <3>2. \A s \in Sockets : sock'[s].conn # "dead" => seen'.closedBy[s] = "none"
      BY <2>2, <2>c DEF CloseInv
    <3> QED BY <3>1, <3>2 DEF CloseInv
  <2> QED BY <2>6, <2>7 DEF CF!Next
<1> QED BY <1>1, <1>2

\* A socket that is open dies, by the server or by ResetConnection.
LEMMA LoseMaps ==
    ASSUME ConnTypeOK, ConnInv, CloseInv, NEW c \in Sockets, sock[c].conn = "open",
           sock'[c].conn = "dead", \A s \in Sockets \ {c} : sock'[s] = sock[s],
           cli'.socket = cli.socket, lock' = lock, seen'.events = seen.events,
           \A s \in Sockets \ {c} : seen'.closedBy[s] = seen.closedBy[s],
           seen'.closedBy[c] \in {"remote", "reset"}
    PROVE  CloseInv' /\ CF!Next
<1>1. c = cli.socket \/ c = lock.fresh
  BY DEF ConnInv, OneConnection
<1>2. seen.events[c] = 0
  BY <1>1, LifeTypes DEF ConnInv, EventInv
<1>3. State(c) = "up" /\ State(c)' = "lost"
  BY <1>2, StateOf, StateOfNext
<1>4. CF!Becomes(c, "lost")
  BY <1>1, <1>3, OneBecomes
<1>5. CF!Lose(c)
  BY <1>3, <1>4 DEF CF!Lose
<1>6. CloseInv'
  BY DEF CloseInv
<1> QED BY <1>5, <1>6 DEF CF!Next

\* RemoteClose and ResetConnection.
LEMMA CloseMaps ==
    ASSUME ConnTypeOK, ConnInv, CloseInv, ResetConnection \/ \E s \in Sockets : RemoteClose(s)
    PROVE  CloseInv' /\ (CF!Next \/ UNCHANGED [s \in Sockets |-> State(s)])
<1>0. /\ cli.socket \in {None} \cup Sockets /\ None \notin Sockets /\ seen \in SeenRec /\ cli \in CliRec
  BY LifeTypes
<1>1. ASSUME NEW c \in Sockets, RemoteClose(c) PROVE CloseInv' /\ CF!Next
  <2>1. /\ UNCHANGED <<cli, lock>> /\ sock[c].conn = "open"
        /\ seen'.events = seen.events /\ seen'.closedBy[c] = "remote"
        /\ \A s \in Sockets \ {c} : seen'.closedBy[s] = seen.closedBy[s]
    BY <1>0, <1>1 DEF RemoteClose, ClosedBy, SeenRec
  <2>2. sock'[c].conn = "dead" /\ \A s \in Sockets \ {c} : sock'[s] = sock[s]
    BY <1>1, <2>1, SockClosed DEF RemoteClose
  <2> QED BY <2>1, <2>2, LoseMaps
<1>2. CASE ResetConnection /\ cli.socket = None
  <2>1. cli'.socket = cli.socket /\ UNCHANGED <<sock, seen, lock>>
    BY <1>0, <1>2 DEF ResetConnection, CliRec
  <2> QED BY <2>1, KeptIsStutter DEF Kept
<1>3. CASE ResetConnection /\ cli.socket # None
  <2>1. PICK c \in Sockets : c = cli.socket /\ sock' = [sock EXCEPT ![c] = Stop(@, TRUE, TRUE)]
                             /\ seen' = ClosedBy(c, "reset")
    BY <1>0, <1>3, Zenon DEF ResetConnection
  <2>2. cli'.socket = cli.socket /\ lock' = lock
    BY <1>0, <1>3 DEF ResetConnection, CliRec
  <2>3. \A s \in Sockets \ {c} : sock'[s] = sock[s]
    BY <2>1, SockReset
  <2>4. CASE sock[c].conn = "open"
    <3>1. /\ seen'.events = seen.events /\ seen'.closedBy[c] = "reset"
          /\ \A s \in Sockets \ {c} : seen'.closedBy[s] = seen.closedBy[s]
      BY <1>0, <2>1, <2>4 DEF ClosedBy, SeenRec
    <3>2. sock'[c].conn = "dead"
      BY <2>1, <2>4, SockReset DEF ConnInv, SockInv
    <3> QED BY <2>2, <2>3, <2>4, <3>1, <3>2, LoseMaps
  <2>5. CASE sock[c].conn # "open"
    <3>1. sock'[c].conn = sock[c].conn /\ seen' = seen
      BY <2>1, <2>5, SockReset DEF ClosedBy
    <3> QED BY <2>2, <2>3, <3>1, KeptIsStutter DEF Kept
  <2> QED BY <2>4, <2>5
<1> QED BY <1>1, <1>2, <1>3

\* onDisconnect tells of the last connection, or of none.
LEMMA TellMaps ==
    ASSUME ConnTypeOK, ConnInv, CloseInv, NEW c \in Sockets, OnDisconnect(c)
    PROVE  CloseInv' /\ (CF!Next \/ UNCHANGED [s \in Sockets |-> State(s)])
<1>0. /\ cli \in CliRec /\ seen \in SeenRec /\ None \notin Sockets
  BY LifeTypes
<1>1. /\ lock' = lock /\ lock.fresh = None /\ sock[c].notice # "none" /\ sock[c].conn = "dead"
      /\ cli'.socket = IF cli.socket = c THEN None ELSE cli.socket
      /\ seen'.closedBy = seen.closedBy
  <2>1. lock' = lock /\ Free /\ sock[c].notice # "none"
    BY DEF OnDisconnect
  <2>2. cli'.socket = IF cli.socket = c THEN None ELSE cli.socket
    BY <1>0 DEF OnDisconnect, CliRec
  <2>3. seen'.closedBy = seen.closedBy
    BY <1>0 DEF OnDisconnect, SeenRec
  <2> QED BY <2>1, <2>2, <2>3 DEF ConnInv, LockInv, SockInv
<1>2. \A s \in Sockets : sock'[s].conn = sock[s].conn
  BY <1>1, SockLost DEF OnDisconnect
<1>3. CASE seen'.events = seen.events
  BY <1>0, <1>1, <1>2, <1>3, KeptIsStutter DEF Kept
<1>4. CASE cli.socket = c /\ seen' = [seen EXCEPT !.events[c] = @ + 1]
  <2>1. /\ seen.events[c] = 0 /\ seen'.events[c] = 1
        /\ \A s \in Sockets \ {c} : seen'.events[s] = seen.events[s]
    <3>1. seen.events[c] = 0
      BY <1>1, LifeTypes DEF ConnInv, EventInv
    <3> QED BY <1>0, <1>4, <3>1 DEF SeenRec
  <2>2. State(c) = "lost" /\ State(c)' = "told"
    <3>1. seen.closedBy[c] \in {"remote", "reset"}
      BY <1>1, <1>4 DEF ConnInv, EventInv
    <3> QED BY <1>1, <1>2, <2>1, <3>1, StateOf, StateOfNext
  <2>3. \A s \in Sockets : State(s) # "up"
    <3>1. \A s \in Sockets : sock[s].conn # "open"
      BY <1>0, <1>1, <1>4 DEF ConnInv, OneConnection
    <3> QED BY <3>1, NewAndUp
  <2>4. CF!Becomes(c, "told")
    BY <1>1, <1>2, <1>4, <2>1, <2>2, OneBecomes
  <2>5. CF!Tell(c)
    BY <2>2, <2>3, <2>4 DEF CF!Tell, CF!NoneUp
  <2>6. CloseInv'
    BY <1>0, <1>1, <1>2 DEF CloseInv
  <2> QED BY <2>5, <2>6 DEF CF!Next
<1>5. seen' = seen \/ (cli.socket = c /\ seen' = [seen EXCEPT !.events[c] = @ + 1])
  BY DEF OnDisconnect
<1> QED BY <1>3, <1>4, <1>5

\* All other steps leave the sockets as they are.
LEMMA OthersKeep ==
    ASSUME ReqTypeOK, ConnInv, [Next]_vars
    PROVE  \/ Kept \/ DialOk \/ ConnectFail \/ ResetConnection
           \/ (\E wish \in {"up", "down"} : Disconnect(wish) /\ lock' = lock)
           \/ \E s \in Sockets : RemoteClose(s) \/ OnDisconnect(s)
<1>0. ConnTypeOK
  BY DEF ReqTypeOK
<1>1. /\ cli.socket \in {None} \cup Sockets /\ None \notin Sockets
      /\ cli \in CliRec /\ seen \in SeenRec /\ sock \in [Sockets -> SockRec]
      /\ seen.wish \in {"up", "down"}
      /\ lock \in [owner : Procs \cup {NoProc}, step : {"none", "dial", "hello", "finish"},
                   fresh : {None} \cup Sockets]
  BY <1>0, Types, LifeTypes DEF SeenRec
<1>k. ASSUME UNCHANGED <<sock, lock>>, cli'.socket = cli.socket,
             seen'.events = seen.events, seen'.closedBy = seen.closedBy
      PROVE  Kept
  BY <1>k DEF Kept
<1>2. ASSUME NEW p \in Procs, ConnectBegin(p) PROVE Kept
  <2>1. PICK f \in Sockets : sock[f].conn = "new" /\ lock' = [owner |-> p, step |-> "dial", fresh |-> f]
    BY <1>2 DEF ConnectBegin
  <2>2. cli'.socket = None /\ seen' = seen /\ (cli.socket # None => sock[cli.socket].conn # "open")
    BY <1>1, <1>2 DEF ConnectBegin, Live, CliRec
  <2>3. \A s \in Sockets : sock'[s].conn = sock[s].conn
    <3>1. CASE cli.socket = None
      BY <1>2, <3>1 DEF ConnectBegin, UnlockedDisconnect
    <3>2. CASE cli.socket # None
      <4>1. PICK c \in Sockets : c = cli.socket /\ sock' = [sock EXCEPT ![c] = Stop(@, TRUE, FALSE)]
        BY <1>1, <1>2, <3>2, Zenon DEF ConnectBegin, UnlockedDisconnect
      <4>2. sock'[c].conn = sock[c].conn /\ \A t \in Sockets \ {c} : sock'[t] = sock[t]
        BY <1>0, <2>2, <3>2, <4>1, SockDropped
      <4> QED BY <4>2
    <3> QED BY <3>1, <3>2
  <2> QED BY <1>1, <2>1, <2>2, <2>3 DEF Kept
<1>3. CASE HandshakeDead \/ HandshakeFinish
  <2>1. /\ UNCHANGED <<sock, cli>>
        /\ (lock' = Unlocked \/ lock' = [lock EXCEPT !.step = "finish"])
        /\ (seen' = seen \/ seen' = [seen EXCEPT !.failed = lock.owner])
    BY <1>3 DEF HandshakeDead, HandshakeFinish
  <2>2. lock'.fresh = lock.fresh \/ lock'.fresh = None
    BY <1>1, <2>1 DEF Unlocked
  <2>3. seen'.events = seen.events /\ seen'.closedBy = seen.closedBy
    BY <1>1, <2>1 DEF SeenRec
  <2> QED BY <1>1, <2>1, <2>2, <2>3 DEF Kept
<1>4. CASE Install
  <2>1. cli'.socket = lock.fresh /\ lock'.fresh = None
        /\ seen'.events = seen.events /\ seen'.closedBy = seen.closedBy
    BY <1>1, <1>4 DEF Install, Unlocked, SeenRec, CliRec
  <2>2. \A s \in Sockets : sock'[s].conn = sock[s].conn
    BY <1>1, <1>4 DEF Install, SockRec
  <2> QED BY <1>1, <2>1, <2>2 DEF Kept
<1>5. CASE \/ UserDisconnect \/ LoginDisconnect \/ \E s \in Sockets : KeepAliveDisconnect(s)
  <2>1. \E wish \in {"up", "down"} : Disconnect(wish) /\ lock' = lock
    BY <1>1, <1>5 DEF UserDisconnect, LoginDisconnect, KeepAliveDisconnect
  <2> QED BY <2>1
<1>6. ASSUME NEW p \in Procs, ConnectRefused(p) \/ AutoWait(p) \/ AutoFailed(p) PROVE Kept
  BY <1>6, <1>k DEF ConnectRefused, AutoWait, AutoFailed
<1>7. ASSUME NEW s \in Sockets, KeepAliveFail(s) \/ KeepAliveReset(s) PROVE Kept
  BY <1>1, <1>7, <1>k DEF KeepAliveFail, KeepAliveReset, CliRec
<1>8. ASSUME NEW s \in Sockets, NEW k \in Kinds, EnqueueNode(s, k) PROVE Kept
  <2>1. cli'.socket = cli.socket /\ UNCHANGED <<lock, seen>>
    BY <1>1, <1>8 DEF EnqueueNode, CliRec
  <2>2. PICK v : sock' = [sock EXCEPT ![s].stream = v]
    BY <1>8 DEF EnqueueNode, ServerSends
  <2>3. \A t \in Sockets : sock'[t].conn = sock[t].conn
    BY <1>1, <2>2 DEF SockRec
  <2> QED BY <2>1, <2>3 DEF Kept
<1>9. CASE UserConnect
  BY <1>1, <1>9, <1>k DEF UserConnect, SeenRec
<1>10. CASE TakeNode \/ HandleSuccess \/ HandleConnectFailure
  <2>1. cli'.socket = cli.socket
    BY <1>1, <1>10 DEF TakeNode, HandleSuccess, HandleConnectFailure, CliRec
  <2>2. UNCHANGED <<sock, lock, seen>>
    BY <1>10 DEF TakeNode, HandleSuccess, HandleConnectFailure
  <2> QED BY <1>k, <2>1, <2>2
<1>11. CASE HandleStreamError
  <2>1. cli'.socket = cli.socket
    BY <1>1, <1>11 DEF HandleStreamError, CliRec
  <2>2. seen' = [seen EXCEPT !.stale = @ \/ handling.from # cli.socket] /\ UNCHANGED <<sock, lock>>
    BY <1>11 DEF HandleStreamError
  <2>3. seen'.events = seen.events /\ seen'.closedBy = seen.closedBy
    BY <1>1, <2>2 DEF SeenRec
  <2> QED BY <1>k, <2>1, <2>2, <2>3
<1>12. CASE ReqNext
  <2>1. ASSUME NEW r \in Requests,
               \/ Begin(r) \/ ReadSocket(r) \/ Register(r) \/ SendFrame(r) \/ CancelResponse(r)
               \/ ReceiveResponse(r) \/ DeliverResponse(r) \/ Answered(r) \/ TimedOut(r) \/ Reconnected(r)
        PROVE  KeepConn
    BY <2>1 DEF Begin, ReadSocket, Register, SendFrame, CancelResponse, ReceiveResponse,
       DeliverResponse, Answered, TimedOut, Reconnected
  <2>2. UNCHANGED <<cli, sock, lock, seen>>
    BY <1>12, <2>1 DEF ReqNext, KeepConn
  <2> QED BY <1>k, <2>2
<1>13. CASE UNCHANGED vars
  BY <1>13, <1>k DEF vars
<1> QED BY <1>2, <1>3, <1>4, <1>5, <1>6, <1>7, <1>8, <1>9, <1>10, <1>11, <1>12, <1>13
        DEF Next, ConnNext

\* Every step of the client is a step of ConnLife or a stutter.
LEMMA NextLife ==
    IInv /\ CloseInv /\ [Next]_vars => CloseInv' /\ [CF!Next]_[s \in Sockets |-> State(s)]
<1> SUFFICES ASSUME IInv, CloseInv, [Next]_vars
             PROVE  CloseInv' /\ (CF!Next \/ UNCHANGED [s \in Sockets |-> State(s)])
  OBVIOUS
<1>1. ReqTypeOK /\ ConnTypeOK /\ ConnInv
  BY DEF IInv, ReqTypeOK
<1>2. CASE Kept
  BY <1>1, <1>2, KeptIsStutter
<1>3. CASE DialOk \/ ConnectFail
  BY <1>1, <1>3, ConnectMaps
<1>4. CASE \E wish \in {"up", "down"} : Disconnect(wish) /\ lock' = lock
  BY <1>1, <1>4, DisconnectMaps
<1>5. CASE ResetConnection \/ \E s \in Sockets : RemoteClose(s)
  BY <1>1, <1>5, CloseMaps
<1>6. CASE \E s \in Sockets : OnDisconnect(s)
  BY <1>1, <1>6, TellMaps
<1> QED BY <1>1, <1>2, <1>3, <1>4, <1>5, <1>6, OthersKeep

\* A client that has not connected yet.
LEMMA InitLife == Init => CF!Init /\ CloseInv
<1> SUFFICES ASSUME Init PROVE CF!Init /\ CloseInv
  OBVIOUS
<1>1. \A s \in Sockets : sock[s].conn = "new" /\ seen.closedBy[s] = "none"
  BY DEF Init, ConnInit
<1>2. \A s \in Sockets : State(s) = "new"
  BY <1>1, StateOf
<1> QED BY <1>1, <1>2 DEF CF!Init, CloseInv

\* Whatever order the user, the keepalive loop, the callbacks, the server's nodes and
\* the reconnecting goroutines get socketLock in: one connection is up at a time, and a
\* Disconnected event is sent once, for a connection that was lost and not dropped,
\* before the next one is tried.
THEOREM ClientImplementsConnLife == Spec => ImplementsConnLife
  BY InitLife, NextLife, Invariance, PTL DEF Spec, ImplementsConnLife, CF!Spec
===============================================================================
