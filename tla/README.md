# WhatsRook: TLA+ models of the call engine and the client under it

WhatsRook is a command-line tool and Go library that connects to WhatsApp. Its
concurrent logic is in `wa-core`: a voice and video call engine in which stanzas,
user operations and media goroutines meet in one map of calls, and below it a
client that keeps one websocket connection alive, matches answers to queries and
repeats messages that could not be read. Handlers release their locks several
times before they are done. This directory models these parts, checks them with
TLC and proves the safety of all of them but the frame socket with TLAPS.

## Inventory of the system

| Part | State it keeps | Operations | Meets |
|---|---|---|---|
| call registry (`call_registry.go`), session (`call_crypto_session.go`) | id -> session, phase, cancel handle of the media goroutine | Insert, SetMediaTask, Transition, Remove, AbortAll | an integrator's goroutines; cancel handles are called outside the mutex |
| call engine (`call_engine.go`) | `e.calls`: id -> `engineCall` (relay, started, cancel, acceptPending, acceptSent, video flags, parked requests) | placeCall, answer, reject, hangup, video operations, one handler per stanza | three kinds of threads, see below |
| call handle (`call_livecall.go`) | phase, callbacks, player and sink, notification queue | setPhase, OnX registrations, markPeerAccepted | engine, media goroutine, user code |
| media goroutine (`call_engine_media.go`) | context, receivers, replay filter, video sender | maybeStartMedia, connect, publish, receive loop, clean-up | engine (by call id), relay fanout |
| relay fanout (`call_engine_relay_fanout.go`, `relay/`) | one channel per relay, merged queue, live readers, closeOnce | readLoop, Recv, Send, Close, Duplicate | one reader goroutine per relay, the receive loop |
| peer election (`preferQualifiedPeer`, `rekeyPeer`) | answering device, published rekey function | onAccept, onRelay, publication in runMedia | engine, media goroutine |
| group calls (`call_engine_group_*.go`, `call_group_*.go`) | roster and epoch transactions, receivers, waiting room | updates, raw epochs, admit, mix | engine, media goroutine |
| player and playout (`call_player.go`, `call_audio*.go`, `call_source.go`, `call_sink.go`) | position, paused/stopped, jitter buffer | play, pause, stop, push, pop | media goroutine, user code |
| app data (`call_appdata.go`) | sender index, receiver windows | reactions, raised hands | media goroutine |
| signalling, RTP, SRTP, STUN, MLow | wire formats, ciphers, codec state | build, parse, protect, encode | pure |
| connection (`client.go`, `connectionevents.go`, `keepalive.go`, `handshake.go`) | socket, expected disconnect, login flag, handler queue | connect, disconnect, reconnect, keepalive, dispatch | socket goroutines, queue, users |
| request waiters (`request.go`) | request id -> channel | wait, receive, clear, cancel, retry | reader, queue, users |
| sockets (`socket/`) | partial frame, counters, closed flags | read pump, send, close | connection |
| pairing (`pair*.go`, `qrchan.go`) | QR emitter, pairing secrets | emit, event, close | connection events |
| messages, receipts, retries, prekeys, app state | Signal sessions, retry counters, patch chains | send, receive, retry, sync | queue, store |
| store (`store/`, `cli/store`) | SQL tables | get, put | everybody |
| bot sessions, API hub, group manager (`cli/`) | session loop, websocket clients, group cache | start, log out, broadcast, sync | wa-core events |
| plugins, cache, updater, utilities | commands, TTL map, files | one handler each | bot |

What is hard here: handlers of different threads that interleave at every unlock
(`mute_v2`, group stanzas and acks run on the socket reader, other call stanzas on
the handler queue, user operations anywhere); media goroutines that outlive or
overtake the call they belong to; state read under one lock and written under the
next; copies of a packet over several relays with a 16-bit sequence number; sends
that fail half-way; reconnects that are started from three places and cancelled by
a flag; counters that are cleared while goroutines that used them still run. The
full list, with lines, is under `hazards` in `PROJECT.json`.

What makes each part correct:

* registry: a live media goroutine belongs to a registered call or is being
  cancelled; handles are not shared;
* engine: every media goroutine can be cancelled by whoever ends the call; media
  starts exactly once, in whatever order key, relay and answer come; an incoming
  call is accepted once; the end is reported once and after the cancel;
* fanout: a packet reaches the playout once; closing loses nothing already
  merged, is done by the last reader, and leaves no goroutine behind;
* video: nothing before a keyframe, no toggle ahead of the accept, no request
  parked for ever, an upgrade accepted once;
* connection: one open socket; a lost one is noticed and dialled again, one the user
  gave up is not and makes no event;
* queries: each one that waits can still be answered or told of the disconnect; a
  frame is not repeated on the connection that has it;
* frame socket: frames come out as they were sent, however the websocket cuts them;
* group call: rosters and key epochs go forward and reach the receivers in whatever
  order they come; no key survives the call;
* retries: the last messages are kept, resends and session recreations are bounded,
  and the phone is asked exactly for what cannot be read.

## Modules

`CallSession` holds the phase machine of a session as operators. `CallRegistry`
extends it. `CallEngine`, `RelayFanout` and `CallVideo` are three views of one
call: its life, its packets and its video. They overlap at `finishCall` (which
appears as a cancelled context in `RelayFanout` and as `FinishCall` in
`CallVideo`) and at `sendAccept`. `CallLife` is the abstract call that `CallEngine`
implements. `GroupCall` (with the receivers as operators in `GroupReceivers`) is
the same engine for group calls and implements the abstract `GroupView`. `Requests`
composes info queries with `Connection`, which it extends: both change the map of
waiters; its connections implement the abstract `ConnLife`. `FrameSocket` and `Retries`
(with the caches as operators in `BoundedCache`) stand alone. `MC*` modules instantiate
them for TLC, `*Proofs` modules hold the theorems. Every property is broken by a mutant, an operator
marked `Mutant` beside the definition it replaces.

### CallRegistry, CallSession

`calls` is `r.calls`; `live` the goroutines whose context is not cancelled;
`toCancel` the handles a method has copied under the mutex and not yet called.
Insert, SetMediaTask, Transition, Remove and AbortAll are the locked parts;
`Cancel` is the call of a handle after the unlock, so it interleaves with every
other method.

### CallEngine

`calls`, `ent`, `hdl` and `media` are the heap: the map, the `engineCall`
objects, the `Call` handles and the media goroutines. Objects are taken from
finite sets and never reused. `th` gives each thread its place in a handler
and its locals. A handler is cut exactly where the code unlocks:

| code | actions |
|---|---|
| `placeCall` | PlaceCall, SendOffer |
| `answer` | Answer, AnswerPhase, then maybeStartMedia |
| `reject`, `hangup`, `onTerminate`, `onReject`, error ack | Hangup, EndStanza -> CancelMedia -> EndCall |
| `maybeStartMedia` | StartMedia or NotStarted, LaunchMedia |
| `onOffer` | OnOffer, Offered |
| `onRelay` (relaylatency, transport, relay ack, nested) | RelayStanza, NestedRelay |
| `onPreAccept` | OnPreAccept, PreAcceptPhase |
| `onAccept` | OnAccept, AcceptReadPhase, AcceptPhase |
| `mute_v2`, `sendAccept` | OnMute, SendAccept, AcceptSent |
| `runMedia` | Connected, ConnectFailed, InstallReceivers, LoopTop, RecvAudio, RecvOther, RecvFailed |

Two steps of the code are one step here, because nobody can tell the difference:
`answer`'s lookup and its locked assignment (a flag of an entry that has left the
map is never read), and the two reads of `acceptPending` in `onCallRaw` and
`sendAccept` (only the socket reader clears it). `known` says that the integrator
holds a handle: only then can he call its methods. Keys, JIDs, codecs and XML are
left out; the group branches are in `GroupCall`. A repeated offer carries a relay if the
first one did (`RelayInOffer`), because it is the same stanza.

`CallLife` knows calls (none, live, over) and the media goroutines started for
them: media starts for live calls only and one at a time, and a call is over, for
good, once its media has been stopped. `CL == INSTANCE CallLife WITH ...` maps a
Call without its OnEnd to live, `media` to owners and cancelled contexts.

### RelayFanout

The peer sends packets 1, 2, ...; `next[r]` is what relay r forwards next; a relay
may lose packets or go down. `reader` are the `readLoop` goroutines, `packets` the
merged channel with capacity `Backlog`, `once` and `closer` the progress of
`closeOnce`, `loop` the receive loop, `ring` the slots of the replay filter.
`delivered`, `lost` and `owed` only record what happened. The real sizes are 256
packets, 1024 slots and 65536 sequence numbers; they are constants here.
`MaxLag` says how far behind the slowest copy may be. It equals `Ring` in the
runs: that is the reorder window the filter is made for, and a copy that lags a
full ring is delivered again. `WindowAssumption` states it (`MaxLag <= Ring`).
`Budgets` bounds what peer, relays and owner do.

### CallVideo

`v` are the video fields of the entry, `s` the `videoSender`, `tx` whether it is
published, `wire` what has been transmitted. Each operation is a first critical
section (StartVideo, StopVideo, AcceptVideo, Toggle, Turn, OnVideoStanza), then
ApplyToSender, SendVideoState (which may fail) and Undo, in the code's order for
each. The media goroutine publishes its sender once per call, as `started` says, and a
sender begins without a frame. A peer is assumed to
accept (state 4) only what it was asked for. The accept is armed once: what a second
Answer does to it is a question of `CallEngine` (run `engine_accept`). The sender is looked
up and used in one step; a keyframe counts also when the channel fails, because
`keyframeRequired` is cleared before the packets are sent.

### Connection, Requests

`cli` are the client's socket and flags, `sock` the sockets in the order they are
dialled, `lock` the holder of `socketLock`: connect keeps it while it dials and
shakes hands, so everybody else waits; the other operations hold it for one step.

| code | actions |
|---|---|
| `unlockedConnect`, `doHandshake` | ConnectRefused, ConnectBegin, DialOk, ConnectFail, HandshakeDead, HandshakeFinish, Install |
| `Disconnect`, `ResetConnection`, `onDisconnect` | UserDisconnect, ResetConnection, RemoteClose, OnDisconnect |
| `autoReconnect` | AutoWait, ConnectBegin or ConnectRefused, AutoFailed |
| `keepAliveLoop` | KeepAliveFail, KeepAliveDisconnect, KeepAliveReset |
| `enqueueNode`, `handlerQueueLoop` | EnqueueNode, TakeNode |
| login and stream-error nodes | HandleSuccess, HandleStreamError, LoginDisconnect, HandleConnectFailure |
| `sendIQ`, `retryFrame` | Begin, ReadSocket, Register, SendFrame, Answered, TimedOut, Reconnected |
| waiters | WaitResponse, CancelResponse, ReceiveResponse, DeliverResponse, ClearResponseWaiters |

The socket's `stream` is the server's side (external): it sends no second login
answer and nothing after a stream error. The client has its default options
(automatic reconnect on, everything else off). A send on a closed channel is a
value of `chan` ("panic"), so that it can be asked when it happens. `HandleStreamError`
sets its flags in one step: the handler queue is their only writer there, and none of the
readers looks at two of them under one lock. Where it starts a goroutine, that goroutine's
Disconnect and connect are steps of their own.

`ConnLife` knows each connection as new, up, failed, dropped, lost or told: they are tried
in turn, one is up at a time, and the integrator is told of a lost one, once, before the
next is tried. `CF == INSTANCE ConnLife WITH ...` takes the state from the socket, who
closed it, and whether its Disconnected event was sent. A connection that failed before
its installation, that Disconnect dropped, or that was lost when a connect replaced it is
never told of.

### FrameSocket

Bytes are named by frame and place, so that frames that come out can be compared
with those sent. `Read` cuts the stream at any byte; StartFrame, PartialHeader and
ContinueFrame are the branches of the loop in `processData`. Bytes that are no
length, when the loop takes them for one, say anything.

### GroupCall, GroupReceivers

The calls under one id. Each group offer and each join makes a new handle, numbered
from 1 (`MaxCalls` bounds them), in the entry that is registered or, after the end, in a
new one: group offers are handled ahead of the filters for ended and stale calls. `m` is
the `engineCall`, `call` its newest handle; `md[n]` and `r[n]` are the media goroutine that
was started under handle n, up to the publication of its receivers, and its
`participantReceiveRegistry`. Goroutines and handlers of an ended call go on and look the
id up again, so that they may find the entry of the next call. `th` are the threads as in
`CallEngine`. Rosters and key epochs carry transaction ids.

| code | actions |
|---|---|
| `placeGroupCall`, `joinPublicCallLink`, `onGroupOffer` | PlaceGroupCall, SendGroupOffer, JoinPublicCallLink, OnGroupOffer, all through Register |
| `applyGroupUpdate` | UpdateLooksUp, UpdateReceivers, UpdateInstalls, AdmitReadsPhase, AdmitSetsPhase, SetGroupState, StartMedia |
| `installGroupEpoch`, `distributeRequestedGroupEpoch` | EncRekeyStanza, Distribute, EpochLooksUp, EpochReceivers, EpochInstalls |
| waiting room | WaitingRoomUpdate, WaitingRoomSets, StartHeartbeat |
| `runMedia` | MediaConnects, MediaReadsMode, MediaSnapshot, MediaFills, MediaPublishes, MediaGivesUp, MediaPublishesDirect |
| `finishCall` | FinishCall, FinishClears, FinishEnds |

A media goroutine that returns before its receivers are made (a stream id cannot be
derived, no relay is reachable, the registry cannot be made) is "early"; one that returns
between that and the publication has "failed".

`hist` names the gaps of the code that the properties make exceptions for:

* "roster", "epoch": the published receivers miss what a handler had in hand that looked
  for receivers before they were published; what came while the call was still a one-to-one
  call; or all of it, when the goroutine of an ended call published its own receivers in
  the entry of the next (`Overtaken`);
* "key": an epoch was applied to receivers that had been wiped;
* "handle": the handle replaced one of a live call with a roster. `applyGroupUpdate` drops
  the roster of the repeated offer because its transaction is known, so `GroupState` of the
  new handle has nothing to show before the next roster, although its comment calls it "the
  latest group-call roster". `HandleSeesRoster` says exactly this.

Left out: what is written to a handle that has been replaced; participants, their
decryption, invitations and the mixer; one-to-one calls other than outgoing ones with key
and relay known (`PlaceCall`), which are there for the roster that turns them into group
calls. A roster that names a device twice is one that is `bad`. `TxAssumption` makes
transaction ids positive: a roster with transaction 0, which
`TestAuthoritativeTransactionZeroReplacesSeededGroupState` allows as a first one, is not a
case. `AdmitSetsPhase` is one step, although the phase and the waiting-room state are set
under two locks: nothing looks at the two together in between.

`GroupView` is what the integrator and the media may rely on: while the call lives it
takes rosters and epochs in the order of their transaction ids, and none afterwards; the
handle follows the roster and is never ahead of it; media goes forward, uses no epoch ahead
of its roster, and is not wiped while the call uses it. A live call may get a new handle,
and after the end a call may begin again, with nothing. `GV == INSTANCE GroupView WITH ...`
maps it to the entry (`m`), the handle (`call`) and the receivers (`r`), three objects that
the code changes under three different locks.

### Retries, BoundedCache

`recent` is the ring of sent messages, `asked`, `recreated` and `retries` the bounded
maps, `hnd`, `ask` and `phone` the goroutines that handle a retry receipt, send one,
and ask the phone after a delay. They are cut at each lock of `retry.go`.
Time is counted in windows: an hour has passed or it has not. Devices have a Signal
session at the start and may lose it; a fetch of prekeys may fail. New goroutines take
the first free place, because they are alike.

A device writes from its phone number or its LID (`LidOf`). `shouldRecreateSession` asks
for a session under the JID of the receipt; the message is then encrypted to the LID, to
which the session may be moved (`Migrated`: it may also fail, or be skipped because the
cache of migrated users has it). So the session of a phone number is missed once it has been
moved, and every receipt without a bundle recreates it. `RecreatedOnce` counts these apart:
the hour applies to the sessions the lookup finds. Parts of a stanza are read one by one, so
a message may be read and have a part that is not. Left out: the request to the phone that a
stanza marked unavailable makes at once, and PreRetryCallback, which can only drop a receipt
after it was counted.

## Runs

| run | what it shows | states |
|---|---|---|
| `call_registry` | a goroutine is owned or about to be cancelled, and every one whose call is gone is cancelled in the end | 2,212 |
| `engine` | ownership, single start, no lost start, one accept for each Answer, end after cancel, reported end, and the refinement of `CallLife`, for incoming and outgoing calls and both at once | 381,423 |
| `fanout` | deduplication over a full turn of the sequence numbers, closing; the loop and its readers end | 508,439 |
| `video` | keyframes, deferral and release of toggles around the accept, an upgrade accepted once | 1,705,233 |
| `requests` | one connection, silent Disconnect, noticed losses, another dial after a loss, and the refinement of `ConnLife`; no hung query, no unexplained repetition or panic | 716,388 |
| `group_call` | rosters and epochs reach receivers and handle, and the refinement of `GroupView`, for two calls under one id; media starts and, once it has relays and receivers, fails for a reason only; keys are gone at the end | 2,232,865 |
| `retries` | the ring, the bounds on resends and recreations, distinct counts, cancellable and eventual requests to the phone | 597,571 |

Five runs end in a counterexample, because the code does not do what a comment or
test of the repository says. `findings` in `PROJECT.json` quotes the lines.

| run | counterexample |
|---|---|
| `engine_ended` | preaccept reads Calling, the user hangs up, the handler sets Ringing: an ended call rings |
| `engine_accept` | Answer, mute_v2 (the accept goes out), Answer again, mute_v2: a second accept, although Answer is to be a "No-op error if the call is not in a ringing state" |
| `disconnect_stays` | a lost connection's autoReconnect is past its wait, the user calls Disconnect, the reconnect gets the lock and connects |
| `frame_split` | the second message of a frame is copied three bytes too far |
| `group_room` | a waiting-room update, then the admission: the handle still says it waits |

Met while modelling, and left without a run of their own, mostly because what should
happen is open: a `mute_v2` that comes before Answer is
consumed and the accept waits for another; a cancelled receive loop stays in Recv
while its relays are open and silent; a peer's late acceptance turns video on after
StopVideo; a connection that dies between the last handshake message and the
installation of its callback is noticed by nobody (`LossNoticed` names it); a response
may meet a channel closed by a cancelled query (`PanicExplained`); a heartbeat of the
waiting room that is started after the admission goes on to the end of the call; a dial
whose upgrade is never answered holds `socketLock` for ever; a repeated group offer leaves its
handle without a roster (`HandleSeesRoster`); media of an ended group call may publish its
receivers in the next call under the id (`RosterReachesMedia`); a session that was moved to
the LID is recreated by every receipt from the phone number (`RecreatedOnce`).

### Bounds

Each module states the type of its variables in `TypeOK` (`ReqTypeOK` in `Requests`). The
frame socket's serves the reader; the others are proved with the invariants of their
modules, and no run repeats them.

A cfg gives each run a set of budgets, one of which a behaviour gets: how often each
input may come. Several small budgets reach the pairs and triples that matter where one
large budget would not finish.

* Registry: two calls and two goroutines are what it takes to mix up owners. A
  goroutine's name may be used again after its cancel.
* Engine: one incoming and one outgoing id, two handles, two entries and two media
  goroutines, so that a repeated offer can replace the handle of a registered call and
  an offer after the end gets a new entry under the old id. An offer, an Answer and a mute
  come up to twice, everything else once, on three threads; a second Answer races the mutes
  of the first in a budget of its own.
* Fanout: two relays, a ring of two and four sequence numbers with five packets, so
  that the numbers wrap and a slot is reused; a backlog of two that fills. One budget has the
  losses, one a relay that dies on the way, and one, with two packets, the death of both and
  the end of the call. No symmetry, because the run checks liveness.
* Video: each operation once, toggles twice; two integrator goroutines for the
  upgrade. The orientations are 0 and 1, and 4 as the invalid argument.
* Requests: three sockets (the lost one, its replacement, and the one a stale
  goroutine dials), a queue of one so that it fills, one query with its repetition.
  Ten budgets put the connecting goroutines, the nodes and the query against
  each other.
* Frames: two frames of up to five bytes; the counterexample needs a payload longer than
  a length, and a second frame to be lost behind it.
* Group call: three transaction ids, two keys (one's own and another's), rosters with and
  without relay, key request and fault; two rosters and an epoch beside the way the call
  begins and its end. Two handles: a second offer comes while the call lives or after its end,
  with the media of the first still on its way. Two attempts instead of
  `groupRegistryInstallMaxAttempts`.
* Retries: a ring of two for three keys and six sends (it wraps twice), one device under its
  two addresses, two handlers in parallel, counters with one key and limits of two and three instead of
  10 and 5, one entry of recreation history, two messages, one hour that passes and one
  Disconnect.

`CHECK_DEADLOCK FALSE` where a behaviour ends because the budget is spent. The
registry never stops and is checked for deadlock.

### Fairness

Only goroutines that have begun something are fair: the Go scheduler runs a runnable
goroutine, so the rest of a handler (`ThreadStep`), a registry method's
cancellations, the readers, the loop and Close go on. In `Requests` a handshake
ends (`NoiseHandshakeResponseTimeout`), waiting goroutines get the
mutex in turn (Go's mutexes do not starve), and delays are finite. Nothing is assumed of a
dial: `websocket.Dial` gets a context without a deadline and an http client without a timeout,
so `RedialsAfterLoss` ends with the dial and does not say that it succeeds or fails. In `Retries`
the delay before the phone is asked ends and goroutines that can run do. Users,
peers, relays, server and network promise nothing; a connect may fail as often as its
budget allows. A blocked Recv or select is not enabled, so fairness does not unblock it.

## Proofs

TLAPS proves for every value of the constants:

* `CallRegistryProofs`: `NoTaskOutlivesItsCall` (`Spec => []NoOrphanTask`).
  NoOrphanTask alone is not inductive: a goroutine that is attached to two calls
  would be cancelled for one of them. The invariant `IInv` adds that no handle has
  two owners (OneOwner) and that attached handles and those in the hands of a
  method are live (AttachedLive, CancelledOnce), so that a handle handed over is new.
* `CallEngineProofs`: `TypeCorrect`, `EveryMediaIsOwned`, `MediaStartsOnce` and
  `EndFollowsCancel`, from one invariant
  `Inv == WellFormed /\ OwnInv /\ EndInv /\ FreeMediaOK`, and `StartIsNotLost` and
  `AcceptsCounted` from two more on top of it.
  * `WellFormed` is the type invariant, strengthened by what a thread inside a handler
    knows about its call.
  * `OwnInv`: a registered entry holds a Call of its own id, hence no entry is
    registered twice (RegisteredOK); a cancel handle and a goroutine exist only for
    entries with `started` set (CancelStarted, MediaStarted). So StartMedia never
    overwrites a cancel handle, and FinishCall takes over the only one.
  * `EndInv`: a Call is ended by one thread at a time, which holds all that is left
    to cancel (EndingOK); a live goroutine of a registered Call is the one its entry can
    cancel (RunsUnderEntry); after OnEnd nothing of the Call is left (EndedOK). It is
    needed because a repeated offer replaces the Call in an entry while the media of the
    old one runs.
  Most actions touch none of this; the lemma `SilentKeeps` shows once that such steps
  preserve the invariant, and one lemma per remaining action (PlaceCall, OnOffer,
  StartMedia, FinishCall, CancelMedia, EndCall) shows it for the others.
  * `StartInv` (for `NoLostStart`): a registered call with a relay that is outgoing or
    accepted is started, or a thread is on its way to maybeStartMedia for it (OnItsWay). The
    hard case is the relay in an offer, which starts nothing: the offer comes before the
    Answer, because only a handle that was handed out can be answered, and if it is
    delivered again the entry has its relay already (`RelayInOffer`: a repeated offer is the
    same stanza, so it carries a relay again or not again).
  * `AcceptInv` (for `AcceptPerAnswer`): the accepts sent, the one a thread is sending and the
    one that is pending each have an Answer of their own, for any number of Answers and mutes.
    That there is one accept per call, which the comments say, is not so (`engine_accept`).
  `PlainKeeps` disposes of the steps that touch none of these fields; every other action
  has a lemma (`...Starts`).
* `CallLifeProofs`: `EngineImplementsCallLife` (`Spec => ImplementsCallLife`). `StepKinds`
  sorts a step of the engine into silent ones, which `CallLife` cannot see, and the six
  above; the `...Does` lemmas say what these change, the `...Maps` lemmas which step
  of `CallLife` that is. Besides `Inv` it takes `HeldExists`: a cancel handle, in an entry
  or in the hands of finishCall, is that of a goroutine that was started, so that cancelling
  it is a Stop.

* `RelayFanoutProofs`: `FilterOnce`, `FilterKeepsFresh`, `ClosedByLast`, `DrainedFirst`, for
  any relays, backlog, ring, sequence space and number of packets.
  * A copy that is late is a danger only if the slot it falls into has been overwritten by a
    newer packet. `LagInv` says no copy on its way is `MaxLag` packets behind the peer,
    `QueueInv` carries this through the merged queue (no packet is queued behind one that is
    `MaxLag` newer) to the loop, and `RingInv` says that a slot names the newest packet of
    the slot that came through. With `MaxLag <= Ring` two packets of a slot are a ring apart
    and the older one can no longer come.
  * `CloseInv`: the counter `live` is never below the readers still to come through
    readerExited, and a reader leaves before the close only if its relay is down.
  * `DrainInv`: packets are owed after the close only, and never more than are queued.
* `RequestsProofs`: `SingleConnection`, `SilentDisconnect`, `NoticedLoss`, `QueriesServed`,
  `PanicCases`, `RepeatCases`, for any number of sockets, queries and nodes in the queue.
  * Connection: the holder of socketLock is the only one with a fresh socket (`LockInv`); a
    socket is installed with its callback and stopped before the client's socket names
    another (`SockInv`); they are used in the order they were dialled (`OrderInv`); the event
    of a socket is sent when it is out of use (`EventInv`). `NodesInv` keeps the handler queue
    in the order of the connections, so that a login answer or stream error can be told from
    a stale one.
  * Queries: where a query is determines where its waiter is (`WaiterInv`), which sockets it
    can have written on (`UsedInv`), what it has written when it tries again (`RepeatInv`), and
    whether a response can still be on its way to its channel (`PanicInv`).
  * `ClientImplementsConnLife` (`Spec => ImplementsConnLife`): `OthersKeep` sorts out the
    steps `ConnLife` cannot see, the `...Maps` lemmas show the others to be Up, Fail, Lose,
    Drop or Tell. It takes `ConnInv` and `CloseInv`: a socket that dies in use or during the
    handshake was closed by the server or by a reset, so that a failed connect is not
    mistaken for a lost one. `LatestInUse` is the heart: whatever changes is the last
    connection, since its socket is the client's or the one that is being dialled.
* `CallVideoProofs`: `OpensWithKeyframe`, `TogglesWait`, `NothingStaysParked`,
  `UpgradesAnsweredOnce`, for any number of threads. `ThreadInv` says what a thread in the
  middle of an operation still relies on after the unlock; `ParkedInv` that a parked request
  has the accept, or the thread that sends it, still ahead; `UpgradeInv` counts: upgrades being
  answered, answered and pending are never more than were asked for.
* `RetriesProofs`: `RingKeepsLast`, `ResendLimit`, `SessionOnce`, `ReceiptsDiffer`, `CancelFinds`,
  for any sizes, limits, devices, messages and goroutines. `RingInv` ties each place of the
  ring to a place in the order of arrivals; `RequestInv` counts the handlers that have passed
  the limit and not yet sent; `ReceiptInv` bounds every count on a receipt by the counter of
  its generation; `PhoneInv` says that the goroutine that waits is the one the map has;
  `RecreateInv` that a session recreated this hour in spite of one is noted, so that the lookup
  does not recreate it again when it finds it; `SizeInv` that
  the maps respect their limits. The operators of `BoundedCache` have lemmas of
  their own (what a counter, a pruned map and a full map hold afterwards).
* `GroupCallProofs`: `RosterArrives`, `EpochArrives`, `KeysWiped`, `HandleCurrent`, `StartNotLost`,
  `FailureExplained` and the refinement `GroupImplementsView`, for any transaction ids, keys,
  rosters, integrator threads, number of attempts and number of calls under the id.
  * Receivers: `UpdateFacts`, `EpochFacts` and `ClearFacts` say what the three methods do to
    receivers that are `Sorted` (no epoch newer than the roster is installed, none older is
    buffered). `AtMost` (nothing newer than an epoch is known, and no other key under it) is
    what makes the receivers accept that epoch, `Holds` that they have it. So the error paths
    for conflicting epochs cannot be taken from the media loop.
  * `EntryInv` ties the entry to the goroutine started for it and to the receivers it has;
    `GoInv` follows every goroutine and its receivers, those of ended calls too: receivers
    that are made are being filled, published, or in the hands of a finishCall. `ThreadInv`
    says what a thread has in hand (epochs come on the socket reader only, which is why no two
    of them race; what finishCall takes down is no longer the entry's).
  * `RosterInv` and `EpochInv`: published receivers are never behind the entry, and ahead of it
    only for a handler about to install. `HandleInv` and `StartInv`: a handle that is behind,
    or media that could be started, has a thread on its way. `MediaInv`: what the media loop of
    the entry's own goroutine has copied is not ahead of the entry, nor the receivers ahead of
    the copy; `FailureExplained` comes out of it.
  * Several calls make the invariant wider than one would: a goroutine of an ended call can
    be anywhere in its loop when the id is registered again. `Advance` (handles are
    numbered upwards, a goroutine is new when media is started) keeps its number apart from
    that of the entry's own.
  * The refinement needs no more than this invariant. Each step changes one of entry, handle
    and receivers: `HearMaps` makes a step of the receivers a Hear,
    `ThreadInv` (a thread that tells the handle has a roster no newer than the entry's) makes
    SetGroupState a Show, Register is a Begin or a Replace, and `GoInv` with `ThreadInv` shows
    that whoever wipes receivers wipes some that the entry does not hold.

Each invariant was checked with TLC on the instances of the runs before it was proved.
Three attempts failed and taught something about the code: that the accepts of a call are
bounded by one is made false by a second Answer, and is now the run `engine_accept`;
`NoFreshDrop` had allowed a drop only one turn of
the sequence numbers after its cause, which is true of the small run and false beyond two
turns, so it now says what the code does; and a sender of `CallVideo` could be
published a second time in the state it was withdrawn in, which maybeStartMedia excludes.

The assumptions are `HeapAssumption` (the null reference is no object, the two
engine threads are not integrator threads), `RelaysAssumption`, `ThreadAssumption`,
`NoneAssumption`, `LidAssumption` (the LID of a LID is itself), `TxAssumption` (transaction ids are positive, "no key" is no key) and the like,
which keep names apart; the assumptions on sizes, budgets, cases and rosters, which
type the inputs; `NoTaskAssumption`; and, as the only one that limits the environment,
`WindowAssumption`. TLC evaluates them in every run.

Only model-checked: liveness (`EventuallyCancelled`, `EndReported`, `RecvUnblocks`,
`ReadersGo`, `RedialsAfterLoss`, `PhoneAsked`), because the installed
provers do not handle fairness and ENABLED; and the five runs that end in a counterexample.
Every invariant and every step property of the passing runs is a theorem. No module declares a RECURSIVE
operator, which would take the SMT backend away from its proofs, and nothing is proved by
induction over data.

## Not modelled

Wire formats, ciphers and the speech codec are data or floating point. SQL
atomicity is the database's. Chat commands are single handlers with I/O, and the generated
protobuf code, which is most of the repository by lines, has no behaviour of its own. The
audio sender, the STUN keepalive and RTCP reports of runMedia change no state the
properties see. Signal sessions are an external library: a session is there or not.
`components` in `PROJECT.json` lists every part with its reason.

## Plan

In this order, the next modules:

1. `CallRekey`: peer election against the publication of rekeyPeer; attribution of
   acks without a call id; the media goroutine's clean-up by call id.
2. `CallNotify`: the notification queue with its generations.
3. `QRChannel`: the emitter's check and send against the event handler's close.
4. `BotSession`, `GroupCache`: logout between two sessions; SyncAll against events.
5. `CallPlayer`: pause, stop and end against the pump goroutine.
