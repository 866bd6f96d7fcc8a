--------------------------- MODULE CallEngineProofs ---------------------------
(***************************************************************************)
(* Proofs about CallEngine, for every number of calls, handles, entries,   *)
(* media goroutines and integrator goroutines.                             *)
(***************************************************************************)
EXTENDS CallEngine, TLAPS

\* A thread inside a handler knows the id of its call; one that will go on
\* with the tail of onAccept also knows the entry.
ThreadOK ==
    \A t \in Threads :
       /\ th[t].pc # "idle" => th[t].id \in CallIds
       /\ th[t].pc = "accepted" \/ th[t].ret = "accepted" => th[t].ent \in Entries
       /\ th[t].pc \in {"offer", "offered"} =>
             th[t].call \in Handles /\ hdl[th[t].call].id \in CallIds

\* The integrator only holds handles of real calls.
KnownOK == \A h \in Handles : hdl[h].known => hdl[h].id \in CallIds

\* A registered entry holds a Call of its own id, so no entry is registered
\* under two ids.
RegisteredOK ==
    \A id \in CallIds : calls[id] # None => hdl[ent[calls[id]].call].id = id

\* A cancel handle belongs to a started entry.
CancelStarted == \A e \in Entries : ent[e].cancel # None => ent[e].started

\* A media goroutine was started for an entry that says so.
MediaStarted ==
    \A m \in Medias : media[m].st # "none" =>
       media[m].ent \in Entries /\ ent[media[m].ent].started

\* maybeStartMedia launches what it has just recorded.
LaunchOK ==
    \A t \in Threads : th[t].pc = "launch" =>
       th[t].media \in Medias /\ media[th[t].media].st # "none"

WellFormed == TypeOK /\ ThreadOK /\ KnownOK

\* The inductive invariant behind MediaOwned and MediaOnce.
OwnInv == LaunchOK /\ RegisteredOK /\ CancelStarted /\ MediaStarted /\ MediaOwned /\ MediaOnce

\* finishCall has taken the call out and has not told the listener yet.
Ending(t) == th[t].pc \in {"cancel", "end"}

\* Handles in use are no free ones.
HandlesUsed ==
    /\ \A m \in Medias : media[m].st # "none" =>
          media[m].call \in Handles /\ hdl[media[m].call].id \in CallIds
    /\ \A t \in Threads : Ending(t) =>
          th[t].call \in Handles /\ hdl[th[t].call].id \in CallIds

\* A media goroutine that runs for the Call of a registered entry is cancelled
\* through this entry.
RunsUnderEntry ==
    \A id \in CallIds, m \in Medias :
       /\ calls[id] # None /\ media[m].st # "none" /\ ~media[m].cancelled
       /\ media[m].call = ent[calls[id]].call
       => ent[calls[id]].cancel = m

\* A Call is being ended by one thread, after it was taken out of e.calls and
\* before OnEnd, and this thread holds what is left to cancel.
EndingOK ==
    \A t \in Threads : Ending(t) =>
       /\ \A id \in CallIds : calls[id] # None => ent[calls[id]].call # th[t].call
       /\ \A u \in Threads : Ending(u) /\ u # t => th[u].call # th[t].call
       /\ hdl[th[t].call].onEnd = 0
       /\ \A m \in Medias : media[m].st # "none" /\ media[m].call = th[t].call =>
             media[m].cancelled \/ (th[t].pc = "cancel" /\ th[t].media = m)

\* OnEnd comes last.
EndedOK ==
    \A h \in Handles :
       /\ hdl[h].onEnd \in {0, 1}
       /\ hdl[h].id = None => hdl[h].onEnd = 0
       /\ hdl[h].onEnd = 1 =>
             /\ \A id \in CallIds : calls[id] # None => ent[calls[id]].call # h
             /\ \A m \in Medias : media[m].st # "none" /\ media[m].call = h => media[m].cancelled

\* The inductive invariant behind EndAfterCancel.
EndInv == HandlesUsed /\ RunsUnderEntry /\ EndingOK /\ EndedOK

\* A media goroutine that does not exist has no Call.
FreeMediaOK == \A m \in Medias : media[m].st = "none" => media[m].call = None
-------------------------------------------------------------------------------
USE DEF Threads

\* The initial state is well formed.
LEMMA InitWellFormed == Init => WellFormed
  BY HeapAssumption, BudgetAssumption
  DEF Init, WellFormed, TypeOK, ThreadOK, KnownOK, EntryType, HandleType, MediaType,
      ThreadType, FreeEntry, FreeHandle, FreeMedia, Idle, PCs, Phases, None

\* What a new thread record is made of.
LEMMA ThreadRecord ==
    ASSUME NEW pc \in PCs, NEW id \in CallIds \cup {None}, NEW e \in Entries \cup {None},
           NEW h \in Handles \cup {None}, NEW m \in Medias \cup {None},
           NEW ret \in {"idle", "accepted"}, NEW flag \in BOOLEAN
    PROVE  Thread(pc, id, e, h, m, ret, flag) \in ThreadType
  BY DEF Thread, ThreadType

\* A thread in no handler has the type of a thread.
LEMMA IdleRecord == Idle \in ThreadType
  BY DEF Idle, ThreadType, PCs

\* An input is taken from what is left.
LEMMA SpendType ==
    ASSUME left \in [Inputs -> Nat], NEW k, Spend(k)
    PROVE  left' \in [Inputs -> Nat]
  <1>1. \A j \in Inputs : left'[j] \in Nat
    <2> SUFFICES ASSUME NEW j \in Inputs PROVE left'[j] \in Nat
      OBVIOUS
    <2>1. CASE j = k
      BY <2>1 DEF Spend
    <2>2. CASE j # k
      BY <2>2 DEF Spend
    <2> QED BY <2>1, <2>2
  <1>2. DOMAIN left' = Inputs /\ left' = [j \in DOMAIN left' |-> left'[j]]
    BY DEF Spend
  <1> QED BY <1>1, <1>2

\* Stanzas and user operations keep the state well formed.
LEMMA PlaceCallWellFormed ==
    ASSUME WellFormed, NEW t \in Apps, NEW id \in OutIds, NEW h \in Handles, NEW e \in Entries,
           PlaceCall(t, id, h, e)
    PROVE  WellFormed'
  <1> USE DEF WellFormed, TypeOK
  <1>1. id \in CallIds /\ t \in Threads
    BY HeapAssumption
  <1>2. hdl' \in [Handles -> HandleType]
    BY <1>1 DEF PlaceCall, HandleType, FreeHandle, Phases
  <1>3. ent' \in [Entries -> EntryType]
    BY <1>1 DEF PlaceCall, EntryType, FreeEntry
  <1>4. th' \in [Threads -> ThreadType]
    BY <1>1 DEF PlaceCall, Goto, ThreadType, Thread, PCs
  <1>5. left' \in [Inputs -> Nat]
    BY SpendType DEF PlaceCall
  <1>6. \A i \in CallIds : calls'[i] # None => ent'[calls'[i]].call # None
    <2> SUFFICES ASSUME NEW i \in CallIds, calls'[i] # None
                 PROVE  ent'[calls'[i]].call # None
      OBVIOUS
    <2>1. calls'[i] = e \/ calls'[i] = calls[i]
      BY <1>1 DEF PlaceCall
    <2>2. ent'[e].call = h
      BY DEF PlaceCall, FreeEntry
    <2>3. \A f \in Entries : f # e => ent'[f] = ent[f]
      BY DEF PlaceCall
    <2> QED BY <2>1, <2>2, <2>3, HeapAssumption
  <1>7. TypeOK'
    BY <1>1, <1>2, <1>3, <1>4, <1>5, <1>6 DEF PlaceCall
  <1>8. ThreadOK'
    BY <1>1 DEF PlaceCall, ThreadOK, Goto, Thread, FreeHandle, FreeHandles
  <1>9. KnownOK'
    BY <1>1 DEF PlaceCall, KnownOK, FreeHandle
  <1> QED BY <1>7, <1>8, <1>9

\* What is asked of the record a thread moves to.
GoodThread(r) ==
    /\ r \in ThreadType
    /\ r.pc # "idle" => r.id \in CallIds
    /\ r.pc = "accepted" \/ r.ret = "accepted" => r.ent \in Entries
    /\ r.pc \in {"offer", "offered"} => r.call \in Handles /\ hdl'[r.call].id \in CallIds

\* No Call loses its id.
IdsKept == \A g \in Handles : hdl[g].id \in CallIds => hdl'[g].id = hdl[g].id

\* One thread goes on in its handler; handles keep the ids the other threads rely on.
LEMMA ThreadMoves ==
    ASSUME WellFormed, NEW t \in Threads, NEW r, Goto(t, r), GoodThread(r), IdsKept
    PROVE  th' \in [Threads -> ThreadType] /\ ThreadOK'
  BY DEF WellFormed, TypeOK, ThreadOK, Goto, GoodThread, IdsKept

\* No thread moves.
LEMMA ThreadsStay ==
    ASSUME WellFormed, UNCHANGED th, IdsKept
    PROVE  th' \in [Threads -> ThreadType] /\ ThreadOK'
  BY DEF WellFormed, TypeOK, ThreadOK, IdsKept

\* A thread in no handler relies on nothing.
LEMMA IdleGood == GoodThread(Idle)
  BY IdleRecord DEF GoodThread, Idle

\* A Call whose phase changes stays the same Call.
LEMMA PhaseChanges ==
    ASSUME WellFormed, NEW h, NEW p \in Phases, SetPhase(h, p)
    PROVE  /\ hdl' \in [Handles -> HandleType] /\ IdsKept /\ KnownOK'
           /\ \A g \in Handles : hdl'[g].id = hdl[g].id /\ hdl'[g].onEnd = hdl[g].onEnd
  <1>1. \A g \in Handles : hdl'[g] = IF g = h THEN [hdl[g] EXCEPT !.phase = p] ELSE hdl[g]
    BY DEF WellFormed, TypeOK, SetPhase
  <1>2. \A g \in Handles : [hdl[g] EXCEPT !.phase = p] \in HandleType
    BY DEF WellFormed, TypeOK, HandleType
  <1>3. hdl' \in [Handles -> HandleType]
    BY <1>1, <1>2 DEF WellFormed, TypeOK, SetPhase
  <1>4. \A g \in Handles : /\ hdl'[g].id = hdl[g].id /\ hdl'[g].onEnd = hdl[g].onEnd
                           /\ hdl'[g].known = hdl[g].known
    BY <1>1 DEF WellFormed, TypeOK, HandleType
  <1> QED BY <1>3, <1>4 DEF WellFormed, KnownOK, IdsKept

\* No handle changes.
LEMMA HandlesStay ==
    ASSUME WellFormed, UNCHANGED hdl
    PROVE  hdl' \in [Handles -> HandleType] /\ IdsKept /\ KnownOK'
  BY DEF WellFormed, TypeOK, KnownOK, IdsKept

\* Where maybeStartMedia returns to is well formed.
LEMMA ReturnGood ==
    ASSUME WellFormed, NEW t \in Threads, th[t].pc # "idle"
    PROVE  GoodThread(Return(t))
  <1>1. th[t] \in ThreadType
    BY DEF WellFormed, TypeOK
  <1>2. CASE th[t].ret = "idle"
    BY <1>2, IdleGood DEF Return
  <1>3. CASE th[t].ret = "accepted"
    <2>1. Return(t) \in ThreadType
      BY <1>1, <1>3 DEF Return, Thread, ThreadType, PCs
    <2> QED
      BY <1>1, <1>3, <2>1 DEF WellFormed, ThreadOK, Return, Thread, GoodThread
  <1> QED BY <1>1, <1>2, <1>3 DEF ThreadType

\* So is the call of maybeStartMedia.
LEMMA StartGood ==
    ASSUME WellFormed, NEW t \in Threads, NEW id \in CallIds, NEW ret \in {"idle", "accepted"},
           ret = "accepted" => th[t].ent \in Entries
    PROVE  GoodThread(Thread("start", id, th[t].ent, None, None, ret, FALSE))
  <1>1. th[t] \in ThreadType
    BY DEF WellFormed, TypeOK
  <1> QED BY <1>1 DEF GoodThread, Thread, ThreadType, PCs

\* onOffer keeps the state well formed.
LEMMA OnOfferWellFormed ==
    ASSUME WellFormed, NEW id \in CallIds, NEW h \in Handles, OnOffer(id, h)
    PROVE  WellFormed'
  <1> USE DEF WellFormed, TypeOK
  <1>1. PICK e \in Entries :
          /\ e \in IF calls[id] = None THEN FreeEntries ELSE {calls[id]}
          /\ calls' = [calls EXCEPT ![id] = e]
          /\ ent' = [ent EXCEPT ![e].call = h, ![e].direction = "incoming",
                                ![e].relay = @ \/ id \in RelayInOffer]
          /\ Goto("queue", Thread("offered", id, e, h, None, "idle", FALSE))
    BY DEF OnOffer, FreeEntries
  <1>2. hdl' \in [Handles -> HandleType] /\ hdl'[h].id = id
    BY DEF OnOffer, HandleType, FreeHandle, Phases
  <1>3. IdsKept /\ KnownOK'
    BY HeapAssumption DEF OnOffer, FreeHandle, FreeHandles, IdsKept, KnownOK
  <1>4. ent' \in [Entries -> EntryType] /\ ent'[e].call = h
    <2> DEFINE relay == ent[e].relay \/ id \in RelayInOffer
    <2>1. relay \in BOOLEAN
      OBVIOUS
    <2> DEFINE new == [ent[e] EXCEPT !.call = h, !.direction = "incoming", !.relay = relay]
    <2>2. new \in EntryType /\ new.call = h
      <3>1. ent[e] \in EntryType
        OBVIOUS
      <3>2. new = [ent[e] EXCEPT !.call = h, !.direction = "incoming", !.relay = relay]
        OBVIOUS
      <3> HIDE DEF new, relay, WellFormed, TypeOK
      <3> QED BY <2>1, <3>1, <3>2 DEF EntryType
    <2>3. ent' = [ent EXCEPT ![e] = new]
      BY <1>1
    <2> HIDE DEF new
    <2> QED BY <2>2, <2>3
  <1>5. th' \in [Threads -> ThreadType] /\ ThreadOK'
    <2>1. GoodThread(Thread("offered", id, e, h, None, "idle", FALSE))
      BY <1>2 DEF GoodThread, Thread, ThreadType, PCs
    <2> QED BY <1>1, <1>3, <2>1, ThreadMoves
  <1>6. left' \in [Inputs -> Nat]
    BY SpendType DEF OnOffer
  <1>7. \A i \in CallIds : calls'[i] # None => ent'[calls'[i]].call # None
    <2> SUFFICES ASSUME NEW i \in CallIds, calls'[i] # None
                 PROVE  ent'[calls'[i]].call # None
      OBVIOUS
    <2>1. calls'[i] = e \/ (calls'[i] = calls[i] /\ calls[i] \in Entries)
      BY <1>1
    <2>2. \A f \in Entries : f # e => ent'[f] = ent[f]
      BY <1>1
    <2> QED BY <1>4, <2>1, <2>2, HeapAssumption
  <1> QED BY <1>1, <1>2, <1>3, <1>4, <1>5, <1>6, <1>7 DEF OnOffer

\* finishCall: the thread takes the entry, its Call and its cancel handle along.
LEMMA FinishCallWellFormed ==
    ASSUME WellFormed, NEW t \in Threads, NEW id \in CallIds, FinishCall(t, id),
           left' \in [Inputs -> Nat]
    PROVE  WellFormed'
  <1> USE DEF WellFormed, TypeOK
  <1> DEFINE e == calls[id]
             r == Thread("cancel", id, e, ent[e].call, ent[e].cancel, "idle", FALSE)
  <1>1. e \in Entries /\ ent[e] \in EntryType
    BY DEF FinishCall
  <1>2. GoodThread(r)
    BY <1>1 DEF GoodThread, Thread, ThreadType, EntryType, PCs
  <1>3. Goto(t, r) /\ UNCHANGED <<hdl, media>>
    BY DEF FinishCall
  <1>4. IdsKept /\ KnownOK' /\ hdl' \in [Handles -> HandleType]
    BY <1>3, HandlesStay
  <1>5. th' \in [Threads -> ThreadType] /\ ThreadOK'
    BY <1>2, <1>3, <1>4, ThreadMoves
  <1>6. /\ ent' \in [Entries -> EntryType]
        /\ \A f \in Entries : ent'[f].call = ent[f].call
    BY <1>1 DEF FinishCall, EntryType
  <1>7. /\ calls' \in [CallIds -> Entries \cup {None}]
        /\ \A i \in CallIds : calls'[i] # None => calls'[i] = calls[i]
    BY DEF FinishCall
  <1> QED BY <1>3, <1>4, <1>5, <1>6, <1>7

\* maybeStartMedia: the entry gets the cancel handle of a fresh goroutine.
LEMMA StartMediaWellFormed ==
    ASSUME WellFormed, NEW t \in Threads, NEW m \in Medias, StartMedia(t, m)
    PROVE  WellFormed'
  <1> USE DEF WellFormed, TypeOK
  <1> DEFINE e == calls[th[t].id]
             r == [th[t] EXCEPT !.pc = "launch", !.media = m]
             new == [FreeMedia EXCEPT !.st = "pending", !.id = th[t].id,
                                      !.ent = e, !.call = ent[e].call]
  <1>1. th[t] \in ThreadType /\ th[t].id \in CallIds /\ th[t].pc = "start"
    BY DEF StartMedia, ThreadOK
  <1>2. e \in Entries /\ ent[e] \in EntryType
    BY <1>1 DEF StartMedia, CanStart
  <1>3. Goto(t, r) /\ UNCHANGED <<calls, hdl, left>>
    BY DEF StartMedia
  <1>4. IdsKept /\ KnownOK' /\ hdl' \in [Handles -> HandleType]
    BY <1>3, HandlesStay
  <1>5. GoodThread(r)
    BY <1>1 DEF GoodThread, ThreadType, ThreadOK, PCs
  <1>6. th' \in [Threads -> ThreadType] /\ ThreadOK'
    BY <1>3, <1>4, <1>5, ThreadMoves
  <1>7. /\ ent' \in [Entries -> EntryType]
        /\ \A f \in Entries : ent'[f].call = ent[f].call
    BY <1>2 DEF StartMedia, EntryType
  <1>8. media' \in [Medias -> MediaType]
    <2>1. new \in MediaType
      BY <1>1, <1>2 DEF MediaType, EntryType, FreeMedia
    <2>2. media' = [media EXCEPT ![m] = new]
      BY DEF StartMedia
    <2> HIDE DEF new
    <2> QED BY <2>1, <2>2
  <1> QED BY <1>3, <1>4, <1>6, <1>7, <1>8

\* The update of a context by cancel().
LEMMA CancelledContext ==
    ASSUME NEW x \in MediaType
    PROVE  LET new == [x EXCEPT !.cancelled = TRUE]
           IN  /\ new \in MediaType /\ new.st = x.st /\ new.ent = x.ent
               /\ new.call = x.call /\ new.cancelled
  BY DEF MediaType

\* The update of a Call by finishCall.
LEMMA EndedHandle ==
    ASSUME NEW x \in HandleType
    PROVE  LET new == [x EXCEPT !.phase = "ended", !.onEnd = @ + 1]
           IN  /\ new \in HandleType /\ new.id = x.id /\ new.known = x.known
               /\ new.onEnd = x.onEnd + 1
  <1> DEFINE n == x.onEnd + 1
  <1>1. n \in Nat
    BY DEF HandleType
  <1>2. LET new == [x EXCEPT !.phase = "ended", !.onEnd = n]
        IN  new \in HandleType /\ new.id = x.id /\ new.known = x.known /\ new.onEnd = n
    <2> HIDE DEF n
    <2> QED BY <1>1 DEF HandleType, Phases
  <1> QED BY <1>2

\* finishCall calls the cancel handle it took.
LEMMA CancelMediaWellFormed ==
    ASSUME WellFormed, NEW t \in Threads, CancelMedia(t)
    PROVE  WellFormed'
  <1> USE DEF WellFormed, TypeOK
  <1> DEFINE r == [th[t] EXCEPT !.pc = "end", !.media = None]
  <1>1. th[t] \in ThreadType /\ th[t].pc = "cancel"
    BY DEF CancelMedia
  <1>2. Goto(t, r) /\ UNCHANGED <<calls, ent, hdl, left>>
    BY DEF CancelMedia
  <1>3. IdsKept /\ KnownOK' /\ hdl' \in [Handles -> HandleType]
    BY <1>2, HandlesStay
  <1>4. GoodThread(r)
    BY <1>1 DEF GoodThread, ThreadType, ThreadOK, PCs
  <1>5. th' \in [Threads -> ThreadType] /\ ThreadOK'
    BY <1>2, <1>3, <1>4, ThreadMoves
  <1>6. media' \in [Medias -> MediaType]
    <2>1. \A m \in Medias : media'[m] = media[m] \/ media'[m] = [media[m] EXCEPT !.cancelled = TRUE]
      BY DEF CancelMedia
    <2>2. \A m \in Medias : media[m] \in MediaType
      OBVIOUS
    <2>3. \A m \in Medias : media'[m] \in MediaType
      <3> HIDE DEF WellFormed, TypeOK
      <3> QED BY <2>1, <2>2, CancelledContext
    <2> QED BY <2>3 DEF CancelMedia
  <1> QED BY <1>2, <1>3, <1>5, <1>6

\* finishCall reports the end on the Call it took.
LEMMA EndCallWellFormed ==
    ASSUME WellFormed, NEW t \in Threads, EndCall(t)
    PROVE  WellFormed'
  <1> USE DEF WellFormed, TypeOK
  <1> DEFINE h == th[t].call
  <1>1. Goto(t, Idle) /\ UNCHANGED <<calls, ent, media, left>>
    BY DEF EndCall
  <1>2. \A g \in Handles :
          hdl'[g] = hdl[g] \/ hdl'[g] = [hdl[g] EXCEPT !.phase = "ended", !.onEnd = @ + 1]
    BY DEF EndCall
  <1>3. \A g \in Handles : /\ hdl'[g] \in HandleType /\ hdl'[g].id = hdl[g].id
                           /\ hdl'[g].known = hdl[g].known
    <2>1. \A g \in Handles : hdl[g] \in HandleType
      OBVIOUS
    <2> HIDE DEF WellFormed, TypeOK
    <2> QED BY <1>2, <2>1, EndedHandle
  <1>4. IdsKept /\ KnownOK' /\ hdl' \in [Handles -> HandleType]
    BY <1>3 DEF EndCall, IdsKept, KnownOK
  <1>5. th' \in [Threads -> ThreadType] /\ ThreadOK'
    BY <1>1, <1>4, IdleGood, ThreadMoves
  <1> QED BY <1>1, <1>4, <1>5
-------------------------------------------------------------------------------
(* Steps that neither create, start, cancel nor end anything *)

EntriesKept ==
    \A e \in Entries : /\ ent'[e].call = ent[e].call /\ ent'[e].started = ent[e].started
                       /\ ent'[e].cancel = ent[e].cancel
HandlesKept ==
    \A h \in Handles : hdl'[h].id = hdl[h].id /\ hdl'[h].onEnd = hdl[h].onEnd
MediasKept ==
    \A m \in Medias :
       /\ media'[m].st = "none" <=> media[m].st = "none"
       /\ media[m].st = "none" => media'[m] = media[m]
       /\ media'[m].ent = media[m].ent /\ media'[m].call = media[m].call
       /\ media'[m].cancelled = media[m].cancelled
ThreadsKept ==
    \A t \in Threads :
       th'[t] = th[t] \/ (~Ending(t) /\ th'[t].pc \notin {"cancel", "end", "launch"})

Silent == UNCHANGED calls /\ EntriesKept /\ HandlesKept /\ MediasKept /\ ThreadsKept

\* What makes a step silent, variable by variable.
EntStep == ent' \in [Entries -> EntryType] /\ EntriesKept
HdlStep == hdl' \in [Handles -> HandleType] /\ HandlesKept /\ KnownOK'
MediaOnlyStep == media' \in [Medias -> MediaType] /\ MediasKept
RestStep == UNCHANGED calls /\ left' \in [Inputs -> Nat]

\* A thread takes a step that neither ends a call nor starts or stops media.
LEMMA SilentMove ==
    ASSUME WellFormed, NEW t \in Threads, NEW r, Goto(t, r), GoodThread(r),
           ~Ending(t), r.pc \notin {"cancel", "end", "launch"},
           EntStep, HdlStep, MediaOnlyStep, RestStep
    PROVE  WellFormed' /\ Silent
  <1>1. IdsKept
    BY DEF HdlStep, HandlesKept, IdsKept
  <1>2. th' \in [Threads -> ThreadType] /\ ThreadOK'
    BY <1>1, ThreadMoves
  <1>3. ThreadsKept
    BY DEF WellFormed, TypeOK, Goto, ThreadsKept, Ending
  <1>4. TypeOK'
    BY <1>2 DEF WellFormed, TypeOK, EntStep, EntriesKept, HdlStep, MediaOnlyStep, RestStep
  <1> QED
    BY <1>2, <1>3, <1>4
    DEF WellFormed, Silent, EntStep, HdlStep, MediaOnlyStep, RestStep

\* The media goroutine takes such a step.
LEMMA SilentStay ==
    ASSUME WellFormed, UNCHANGED th, EntStep, HdlStep, MediaOnlyStep, RestStep
    PROVE  WellFormed' /\ Silent
  <1>1. IdsKept
    BY DEF HdlStep, HandlesKept, IdsKept
  <1>2. th' \in [Threads -> ThreadType] /\ ThreadOK'
    BY <1>1, ThreadsStay
  <1>3. ThreadsKept
    BY DEF ThreadsKept
  <1>4. TypeOK'
    BY <1>2 DEF WellFormed, TypeOK, EntStep, EntriesKept, HdlStep, MediaOnlyStep, RestStep
  <1> QED
    BY <1>2, <1>3, <1>4
    DEF WellFormed, Silent, EntStep, HdlStep, MediaOnlyStep, RestStep

\* Variables that do not change.
LEMMA Unchanged ==
    ASSUME WellFormed
    PROVE  /\ UNCHANGED ent => EntStep
           /\ UNCHANGED hdl => HdlStep
           /\ UNCHANGED media => MediaOnlyStep
           /\ UNCHANGED <<calls, left>> => RestStep
  BY DEF WellFormed, TypeOK, KnownOK, EntStep, EntriesKept, HdlStep, HandlesKept,
         MediaOnlyStep, MediasKept, RestStep

\* An input that leaves the map of calls alone.
LEMMA SpendRest ==
    ASSUME WellFormed, NEW k, Spend(k), UNCHANGED calls
    PROVE  RestStep
  BY SpendType DEF WellFormed, TypeOK, RestStep

\* A step that changes a field of one entry which the invariants do not read.
LEMMA EntryChanges ==
    ASSUME WellFormed, NEW e,
           \/ \E b \in BOOLEAN : ent' = [ent EXCEPT ![e].acceptPending = b]
           \/ \E b \in BOOLEAN : ent' = [ent EXCEPT ![e].acceptSent = b]
           \/ \E b \in BOOLEAN : ent' = [ent EXCEPT ![e].relay = b]
           \/ ent' = [ent EXCEPT ![e].accepts = @ + 1]
           \/ ent' = [ent EXCEPT ![e].acceptPending = TRUE, ![e].answers = @ + 1]
    PROVE  EntStep
  <1>0. DOMAIN ent' = Entries /\ ent' = [f \in Entries |-> ent'[f]]
    BY DEF WellFormed, TypeOK
  <1>1. \A f \in Entries : \E b \in BOOLEAN :
          \/ ent'[f] = ent[f]
          \/ ent'[f] = [ent[f] EXCEPT !.acceptPending = b]
          \/ ent'[f] = [ent[f] EXCEPT !.acceptSent = b]
          \/ ent'[f] = [ent[f] EXCEPT !.relay = b]
          \/ ent'[f] = [ent[f] EXCEPT !.accepts = @ + 1]
          \/ ent'[f] = [ent[f] EXCEPT !.acceptPending = TRUE, !.answers = @ + 1]
    BY DEF WellFormed, TypeOK
  <1>2. \A f \in Entries : ent[f] \in EntryType
    BY DEF WellFormed, TypeOK
  <1>3. \A f \in Entries : /\ ent'[f] \in EntryType /\ ent'[f].call = ent[f].call
                           /\ ent'[f].started = ent[f].started /\ ent'[f].cancel = ent[f].cancel
    <2> TAKE f \in Entries
    <2>1. PICK b \in BOOLEAN :
            \/ ent'[f] = ent[f]
            \/ ent'[f] = [ent[f] EXCEPT !.acceptPending = b]
            \/ ent'[f] = [ent[f] EXCEPT !.acceptSent = b]
            \/ ent'[f] = [ent[f] EXCEPT !.relay = b]
            \/ ent'[f] = [ent[f] EXCEPT !.accepts = @ + 1]
            \/ ent'[f] = [ent[f] EXCEPT !.acceptPending = TRUE, !.answers = @ + 1]
      BY <1>1
    <2>2. CASE ent'[f] = ent[f]
      BY <1>2, <2>2
    <2>3. CASE ent'[f] = [ent[f] EXCEPT !.acceptPending = b]
      BY <1>2, <2>3 DEF EntryType
    <2>4. CASE ent'[f] = [ent[f] EXCEPT !.acceptSent = b]
      BY <1>2, <2>4 DEF EntryType
    <2>5. CASE ent'[f] = [ent[f] EXCEPT !.relay = b]
      BY <1>2, <2>5 DEF EntryType
    <2>6. CASE ent'[f] = [ent[f] EXCEPT !.accepts = @ + 1]
      <3>1. ent[f].accepts + 1 \in Nat
        BY <1>2 DEF EntryType
      <3> QED BY <1>2, <2>6, <3>1 DEF EntryType
    <2>7. CASE ent'[f] = [ent[f] EXCEPT !.acceptPending = TRUE, !.answers = @ + 1]
      <3>1. ent[f].answers + 1 \in Nat
        BY <1>2 DEF EntryType
      <3> QED BY <1>2, <2>7, <3>1 DEF EntryType
    <2> QED BY <2>1, <2>2, <2>3, <2>4, <2>5, <2>6, <2>7
  <1> QED BY <1>0, <1>3 DEF EntStep, EntriesKept

\* A Call gets a new phase, or becomes known to the integrator.
LEMMA PhaseStep ==
    ASSUME WellFormed, NEW h, NEW p \in Phases, SetPhase(h, p)
    PROVE  HdlStep
  BY PhaseChanges DEF HdlStep, HandlesKept

\* The integrator is handed a Call.
LEMMA KnownStep ==
    ASSUME WellFormed, NEW h \in Handles, hdl[h].id \in CallIds,
           hdl' = [hdl EXCEPT ![h].known = TRUE]
    PROVE  HdlStep
  <1>1. \A g \in Handles : hdl'[g] = IF g = h THEN [hdl[g] EXCEPT !.known = TRUE] ELSE hdl[g]
    BY DEF WellFormed, TypeOK
  <1>2. \A g \in Handles : LET y == [hdl[g] EXCEPT !.known = TRUE]
                           IN  y \in HandleType /\ y.id = hdl[g].id /\ y.onEnd = hdl[g].onEnd
    BY DEF WellFormed, TypeOK, HandleType
  <1>3. hdl' \in [Handles -> HandleType] /\ HandlesKept
    BY <1>1, <1>2 DEF WellFormed, TypeOK, HandlesKept
  <1>4. KnownOK'
    BY <1>1, <1>2 DEF WellFormed, KnownOK
  <1> QED BY <1>3, <1>4 DEF HdlStep

\* Threads inside a handler that finishCall is not part of.
LEMMA SilentThreadSteps ==
    ASSUME WellFormed, NEW t \in Threads,
           \/ SendOffer(t) \/ AnswerPhase(t) \/ NotStarted(t)
           \/ t = "queue" /\ (Offered \/ PreAcceptPhase \/ AcceptReadPhase \/ AcceptPhase)
    PROVE  WellFormed' /\ Silent
  <1> DEFINE r == th[t]
  <1>1. r \in ThreadType
    BY DEF WellFormed, TypeOK
  <1>2. CASE SendOffer(t)
    <2>1. Goto(t, Idle) /\ UNCHANGED <<calls, ent, media, left>> /\ r.pc = "offer"
      BY <1>2 DEF SendOffer
    <2>2. r.call \in Handles /\ hdl[r.call].id \in CallIds
      BY <2>1 DEF WellFormed, ThreadOK
    <2>3. HdlStep
      BY <1>2, <2>2, KnownStep, Unchanged DEF SendOffer
    <2> QED BY <2>1, <2>3, Unchanged, SilentMove, IdleGood DEF Idle, Ending
  <1>3. CASE AnswerPhase(t)
    <2>1. /\ Goto(t, Thread("start", r.id, r.ent, None, None, "idle", FALSE))
          /\ UNCHANGED <<calls, ent, media, left>> /\ r.pc = "answered"
      BY <1>3 DEF AnswerPhase, GotoStart
    <2>2. HdlStep
      BY <1>3, PhaseStep DEF AnswerPhase, Phases
    <2>3. GoodThread(Thread("start", r.id, r.ent, None, None, "idle", FALSE))
      BY <2>1, StartGood DEF WellFormed, ThreadOK
    <2> QED BY <2>1, <2>2, <2>3, Unchanged, SilentMove DEF Thread, Ending
  <1>4. CASE NotStarted(t)
    <2>1. Goto(t, Return(t)) /\ UNCHANGED <<calls, ent, hdl, media, left>> /\ r.pc = "start"
      BY <1>4 DEF NotStarted
    <2>2. GoodThread(Return(t)) /\ Return(t).pc \notin {"cancel", "end", "launch"}
      BY <2>1, ReturnGood DEF Return, Idle, Thread
    <2> QED BY <2>1, <2>2, Unchanged, SilentMove DEF Ending
  <1>5. CASE t = "queue" /\ Offered
    <2>1. Goto(t, Idle) /\ UNCHANGED <<calls, ent, media, left>> /\ r.pc = "offered"
      BY <1>5 DEF Offered
    <2>2. r.call \in Handles /\ hdl[r.call].id \in CallIds
      BY <2>1 DEF WellFormed, ThreadOK
    <2>3. HdlStep
      BY <1>5, <2>2, KnownStep DEF Offered
    <2> QED BY <2>1, <2>3, Unchanged, SilentMove, IdleGood DEF Idle, Ending
  <1>6. CASE t = "queue" /\ PreAcceptPhase
    <2> DEFINE n == IF r.flag THEN Thread("relay", r.id, r.ent, None, None, "idle", FALSE) ELSE Idle
    <2>1. Goto(t, n) /\ UNCHANGED <<calls, ent, media, left>> /\ r.pc = "ringing"
      BY <1>6 DEF PreAcceptPhase
    <2>2. HdlStep
      BY <1>6, PhaseStep DEF PreAcceptPhase, Phases
    <2>3. GoodThread(n) /\ n.pc \notin {"cancel", "end", "launch"}
      <3>1. r.id \in CallIds
        BY <2>1 DEF WellFormed, ThreadOK
      <3>2. GoodThread(Thread("relay", r.id, r.ent, None, None, "idle", FALSE))
        BY <1>1, <3>1 DEF GoodThread, Thread, ThreadType, PCs
      <3> QED BY <3>2, IdleGood DEF Thread, Idle
    <2> HIDE DEF n
    <2> QED BY <2>1, <2>2, <2>3, Unchanged, SilentMove DEF Ending
  <1>7. CASE t = "queue" /\ AcceptReadPhase
    <2> DEFINE h == ent[r.ent].call
               b == hdl[h].phase \in BeforeConnecting
               n == Thread("acceptPhase", r.id, r.ent, h, None, "idle", b)
    <2>1. Goto(t, n) /\ UNCHANGED <<calls, ent, hdl, media, left>> /\ r.pc = "accepted"
      BY <1>7 DEF AcceptReadPhase
    <2>2. r.id \in CallIds /\ r.ent \in Entries
      BY <2>1 DEF WellFormed, ThreadOK
    <2>3. h \in Handles \cup {None}
      BY <2>2 DEF WellFormed, TypeOK, EntryType
    <2>4. b \in BOOLEAN
      OBVIOUS
    <2>5. GoodThread(n) /\ n.pc = "acceptPhase"
      <3> HIDE DEF h, b
      <3> QED BY <1>1, <2>2, <2>3, <2>4 DEF GoodThread, Thread, ThreadType, PCs
    <2> HIDE DEF n
    <2> QED BY <2>1, <2>5, Unchanged, SilentMove DEF Ending
  <1>8. CASE t = "queue" /\ AcceptPhase
    <2>1. /\ Goto(t, Thread("start", r.id, r.ent, None, None, "idle", FALSE))
          /\ UNCHANGED <<calls, ent, media, left>> /\ r.pc = "acceptPhase"
      BY <1>8 DEF AcceptPhase, GotoStart
    <2>2. HdlStep
      BY <1>8, PhaseStep, Unchanged DEF AcceptPhase, Phases
    <2>3. GoodThread(Thread("start", r.id, r.ent, None, None, "idle", FALSE))
      BY <2>1, StartGood DEF WellFormed, ThreadOK
    <2> QED BY <2>1, <2>2, <2>3, Unchanged, SilentMove DEF Thread, Ending
  <1> QED BY <1>2, <1>3, <1>4, <1>5, <1>6, <1>7, <1>8

\* onRelay, from a stanza of its own or inside onPreAccept and onAccept.
LEMMA SilentRelay ==
    ASSUME WellFormed, NEW t \in Threads, NEW id \in CallIds, NEW ret \in {"idle", "accepted"},
           ret = "accepted" => th[t].ent \in Entries, ~Ending(t),
           OnRelay(t, id, ret), left' \in [Inputs -> Nat]
    PROVE  WellFormed' /\ Silent
  <1>1. /\ Goto(t, Thread("start", id, th[t].ent, None, None, ret, FALSE))
        /\ UNCHANGED <<calls, hdl, media>>
    BY DEF OnRelay, GotoStart
  <1>2. EntStep
    BY EntryChanges DEF OnRelay
  <1>3. RestStep
    BY <1>1 DEF WellFormed, TypeOK, RestStep
  <1>4. GoodThread(Thread("start", id, th[t].ent, None, None, ret, FALSE))
    BY StartGood
  <1> QED BY <1>1, <1>2, <1>3, <1>4, Unchanged, SilentMove DEF Thread

\* onRelay inside an accept: a relay is stored, no call ends, no media starts.
LEMMA SilentNestedRelay ==
    ASSUME WellFormed, NEW t \in Threads, NestedRelay(t)
    PROVE  WellFormed' /\ Silent
  <1>1. th[t] \in ThreadType /\ th[t].pc = "relay" /\ UNCHANGED left
    BY DEF WellFormed, TypeOK, NestedRelay
  <1>2. th[t].id \in CallIds /\ (th[t].ret = "accepted" => th[t].ent \in Entries)
    BY <1>1 DEF WellFormed, ThreadOK
  <1>3. CASE calls[th[t].id] # None
    BY <1>1, <1>2, <1>3, SilentRelay DEF NestedRelay, Ending, ThreadType, WellFormed, TypeOK
  <1>4. CASE calls[th[t].id] = None
    <2>1. Goto(t, Return(t)) /\ UNCHANGED <<calls, ent, hdl, media, left>>
      BY <1>4 DEF NestedRelay
    <2>2. GoodThread(Return(t)) /\ Return(t).pc \notin {"cancel", "end", "launch"}
      BY <1>1, ReturnGood DEF Return, Idle, Thread
    <2> QED BY <1>1, <2>1, <2>2, Unchanged, SilentMove DEF Ending
  <1> QED BY <1>3, <1>4

\* Stanzas that begin a handler.
LEMMA SilentStanzas ==
    ASSUME WellFormed, NEW id \in CallIds,
           \/ \E t \in {"raw", "queue"} : RelayStanza(t, id)
           \/ \E w \in BOOLEAN : OnPreAccept(id, w) \/ OnAccept(id, w)
           \/ OnMute(id)
    PROVE  WellFormed' /\ Silent
  <1>1. CASE \E t \in {"raw", "queue"} : RelayStanza(t, id)
    <2>1. PICK t \in {"raw", "queue"} : RelayStanza(t, id)
      BY <1>1
    <2>2. left' \in [Inputs -> Nat]
      BY <2>1, SpendType DEF RelayStanza, WellFormed, TypeOK
    <2> QED BY <2>1, <2>2, SilentRelay DEF RelayStanza, Ending
  <1>2. ASSUME NEW w \in BOOLEAN, OnPreAccept(id, w) PROVE WellFormed' /\ Silent
    <2> DEFINE e == calls[id]
               a == Thread("ringing", id, e, ent[e].call, None, "idle", w)
               b == Thread("relay", id, e, None, None, "idle", FALSE)
    <2>1. e \in Entries /\ ent[e].call \in Handles \cup {None}
      BY <1>2 DEF OnPreAccept, WellFormed, TypeOK, EntryType
    <2>2. GoodThread(a) /\ GoodThread(b) /\ {a.pc, b.pc} = {"ringing", "relay"}
      BY <2>1 DEF GoodThread, Thread, ThreadType, PCs
    <2>3. \E n \in {a, b, Idle} : Goto("queue", n)
      BY <1>2 DEF OnPreAccept
    <2>4. RestStep /\ UNCHANGED <<ent, hdl, media>> /\ ~Ending("queue")
      BY <1>2, SpendRest DEF OnPreAccept, Ending
    <2> HIDE DEF a, b
    <2> QED BY <2>2, <2>3, <2>4, IdleGood, Unchanged, SilentMove DEF Idle
  <1>3. ASSUME NEW w \in BOOLEAN, OnAccept(id, w) PROVE WellFormed' /\ Silent
    <2> DEFINE e == calls[id]
               a == Thread("relay", id, e, None, None, "accepted", FALSE)
               b == Thread("accepted", id, e, None, None, "idle", FALSE)
    <2>1. e \in Entries
      BY <1>3 DEF OnAccept, WellFormed, TypeOK
    <2>2. GoodThread(a) /\ GoodThread(b) /\ {a.pc, b.pc} = {"relay", "accepted"}
      BY <2>1 DEF GoodThread, Thread, ThreadType, PCs
    <2>3. \E n \in {a, b} : Goto("queue", n)
      BY <1>3 DEF OnAccept
    <2>4. RestStep /\ UNCHANGED <<ent, hdl, media>> /\ ~Ending("queue")
      BY <1>3, SpendRest DEF OnAccept, Ending
    <2> HIDE DEF a, b
    <2> QED BY <2>2, <2>3, <2>4, Unchanged, SilentMove
  <1>4. CASE OnMute(id)
    <2> DEFINE e == calls[id]
               a == Thread("accepting", id, e, None, None, "idle", FALSE)
    <2>1. RestStep /\ UNCHANGED <<hdl, media>> /\ ~Ending("raw")
      BY <1>4, SpendType DEF OnMute, Ending, RestStep, WellFormed, TypeOK
    <2>2. CASE UNCHANGED <<ent, th>>
      BY <2>1, <2>2, Unchanged, SilentStay
    <2>3. CASE /\ e # None /\ ent' = [ent EXCEPT ![e].acceptPending = FALSE]
               /\ Goto("raw", a)
      <3>1. GoodThread(a) /\ a.pc = "accepting"
        BY <2>3 DEF GoodThread, Thread, ThreadType, PCs, WellFormed, TypeOK
      <3>2. EntStep
        BY <2>3, EntryChanges
      <3> HIDE DEF a
      <3> QED BY <2>1, <2>3, <3>1, <3>2, Unchanged, SilentMove
    <2> QED BY <1>4, <2>2, <2>3 DEF OnMute
  <1> QED BY <1>1, <1>2, <1>3, <1>4

\* answer, and the accept that is sent later.
LEMMA SilentAnswer ==
    ASSUME WellFormed,
           \/ \E t \in Apps, h \in Handles : Answer(t, h)
           \/ SendAccept
           \/ AcceptSent
    PROVE  WellFormed' /\ Silent
  <1>1. ASSUME NEW t \in Apps, NEW h \in Handles, Answer(t, h) PROVE WellFormed' /\ Silent
    <2> DEFINE e == calls[hdl[h].id]
               a == Thread("answered", hdl[h].id, e, h, None, "idle", FALSE)
    <2>1. hdl[h].id \in CallIds
      BY <1>1 DEF Answer, WellFormed, KnownOK
    <2>2. e \in Entries
      BY <1>1, <2>1 DEF Answer, WellFormed, TypeOK
    <2>3. GoodThread(a) /\ a.pc = "answered"
      BY <2>1, <2>2 DEF GoodThread, Thread, ThreadType, PCs
    <2>4. EntStep
      BY <1>1, EntryChanges DEF Answer
    <2>5. RestStep /\ UNCHANGED <<hdl, media>> /\ ~Ending(t) /\ Goto(t, a)
      BY <1>1, SpendRest DEF Answer, Ending
    <2> HIDE DEF a
    <2> QED BY <2>3, <2>4, <2>5, Unchanged, SilentMove
  <1>2. CASE SendAccept
    <2> DEFINE a == [th["raw"] EXCEPT !.pc = "acceptSent"]
    <2>1. th["raw"] \in ThreadType /\ th["raw"].id \in CallIds
      BY <1>2 DEF SendAccept, WellFormed, TypeOK, ThreadOK
    <2>2. GoodThread(a) /\ a.pc = "acceptSent"
      BY <1>2, <2>1 DEF SendAccept, GoodThread, ThreadType, PCs, WellFormed, ThreadOK
    <2>3. EntStep
      BY <1>2, EntryChanges, Unchanged DEF SendAccept
    <2>4. RestStep /\ UNCHANGED <<hdl, media>> /\ ~Ending("raw")
      BY <1>2, Unchanged DEF SendAccept, Ending
    <2>5. Goto("raw", a) \/ Goto("raw", Idle)
      BY <1>2 DEF SendAccept
    <2> HIDE DEF a
    <2> QED BY <2>2, <2>3, <2>4, <2>5, IdleGood, Unchanged, SilentMove DEF Idle
  <1>3. CASE AcceptSent
    <2>1. EntStep
      BY <1>3, EntryChanges, Unchanged DEF AcceptSent
    <2>2. RestStep /\ UNCHANGED <<hdl, media>> /\ ~Ending("raw") /\ Goto("raw", Idle)
      BY <1>3, Unchanged DEF AcceptSent, Ending
    <2> QED BY <2>1, <2>2, IdleGood, Unchanged, SilentMove DEF Idle
  <1> QED BY <1>1, <1>2, <1>3

\* A media goroutine that exists moves on.
LEMMA MediaMoves ==
    ASSUME WellFormed, NEW m \in Medias, media[m].st # "none",
           NEW to \in {"connect", "install", "loop", "recv", "exited"},
           \/ media' = [media EXCEPT ![m].st = to]
           \/ media' = [media EXCEPT ![m].st = to, ![m].rtpIn = TRUE]
    PROVE  MediaOnlyStep
  <1>1. \A n \in Medias : n # m => media'[n] = media[n]
    BY DEF WellFormed, TypeOK
  <1>2. media[m] \in MediaType
    BY DEF WellFormed, TypeOK
  <1>3. \/ media'[m] = [media[m] EXCEPT !.st = to]
        \/ media'[m] = [media[m] EXCEPT !.st = to, !.rtpIn = TRUE]
    BY DEF WellFormed, TypeOK
  <1>4. /\ media'[m] \in MediaType /\ media'[m].st # "none"
        /\ media'[m].ent = media[m].ent /\ media'[m].call = media[m].call
        /\ media'[m].cancelled = media[m].cancelled
    <2>1. CASE media'[m] = [media[m] EXCEPT !.st = to]
      BY <1>2, <2>1 DEF MediaType
    <2>2. CASE media'[m] = [media[m] EXCEPT !.st = to, !.rtpIn = TRUE]
      BY <1>2, <2>2 DEF MediaType
    <2> QED BY <1>3, <2>1, <2>2
  <1>5. media' \in [Medias -> MediaType]
    BY <1>1, <1>4 DEF WellFormed, TypeOK
  <1> QED BY <1>1, <1>4, <1>5 DEF MediaOnlyStep, MediasKept

\* The update of a Call by the first audio packet.
LEMMA ActiveHandle ==
    ASSUME NEW x \in HandleType
    PROVE  LET new == [x EXCEPT !.phase = "active", !.onReady = @ + 1]
           IN  /\ new \in HandleType /\ new.id = x.id /\ new.known = x.known
               /\ new.onEnd = x.onEnd
  <1> DEFINE n == x.onReady + 1
  <1>1. n \in Nat
    BY DEF HandleType
  <1>2. LET new == [x EXCEPT !.phase = "active", !.onReady = n]
        IN  /\ new \in HandleType /\ new.id = x.id /\ new.known = x.known
            /\ new.onEnd = x.onEnd
    <2> HIDE DEF n
    <2> QED BY <1>1 DEF HandleType, Phases
  <1> QED BY <1>2

\* The steps of runMedia after its start.
LEMMA SilentMedia ==
    ASSUME WellFormed, NEW m \in Medias, MediaLoop(m)
    PROVE  WellFormed' /\ Silent
  <1> USE DEF MediaStep
  <1>1. UNCHANGED <<calls, ent, th, left>>
    BY DEF MediaLoop, Connected, ConnectFailed, InstallReceivers, LoopTop, RecvAudio, RecvOther, RecvFailed
  <1>2. MediaOnlyStep
    BY MediaMoves
    DEF MediaLoop, Connected, ConnectFailed, InstallReceivers, LoopTop, RecvAudio, RecvOther, RecvFailed
  <1>3. HdlStep
    <2>1. CASE UNCHANGED hdl
      BY <2>1, Unchanged
    <2>2. CASE hdl' = [hdl EXCEPT ![media[m].call].phase = "active",
                                  ![media[m].call].onReady = @ + 1]
      <3>1. \A g \in Handles : \/ hdl'[g] = hdl[g]
                              \/ hdl'[g] = [hdl[g] EXCEPT !.phase = "active", !.onReady = @ + 1]
        BY <2>2 DEF WellFormed, TypeOK
      <3>2. \A g \in Handles : hdl[g] \in HandleType
        BY DEF WellFormed, TypeOK
      <3>3. \A g \in Handles : /\ hdl'[g] \in HandleType /\ hdl'[g].id = hdl[g].id
                               /\ hdl'[g].onEnd = hdl[g].onEnd /\ hdl'[g].known = hdl[g].known
        BY <3>1, <3>2, ActiveHandle
      <3>4. hdl' \in [Handles -> HandleType]
        BY <2>2, <3>3 DEF WellFormed, TypeOK
      <3> QED BY <3>3, <3>4 DEF HdlStep, HandlesKept, WellFormed, KnownOK
    <2> QED
      BY <2>1, <2>2
      DEF MediaLoop, Connected, ConnectFailed, InstallReceivers, LoopTop, RecvAudio, RecvOther, RecvFailed
  <1> QED BY <1>1, <1>2, <1>3, Unchanged, SilentStay

\* maybeStartMedia launches the goroutine it has prepared.
LEMMA SilentLaunch ==
    ASSUME WellFormed, LaunchOK, NEW t \in Threads, LaunchMedia(t)
    PROVE  WellFormed' /\ Silent
  <1>1. /\ Goto(t, Return(t)) /\ UNCHANGED <<calls, ent, left>> /\ th[t].pc = "launch"
        /\ SetPhase(media[th[t].media].call, "connecting")
        /\ media' = [media EXCEPT ![th[t].media].st = "connect"]
    BY DEF LaunchMedia
  <1>2. HdlStep
    BY <1>1, PhaseStep DEF Phases
  <1>3. MediaOnlyStep
    BY <1>1, MediaMoves DEF LaunchOK
  <1>4. GoodThread(Return(t)) /\ Return(t).pc \notin {"cancel", "end", "launch"}
    BY <1>1, ReturnGood DEF Return, Idle, Thread
  <1> QED BY <1>1, <1>2, <1>3, <1>4, Unchanged, SilentMove DEF Ending

\* A silent step keeps every invariant.
LEMMA SilentKeeps ==
    ASSUME WellFormed, OwnInv, EndInv, FreeMediaOK, Silent
    PROVE  OwnInv' /\ EndInv' /\ FreeMediaOK'
  <1> USE DEF Silent, EntriesKept, HandlesKept, MediasKept, ThreadsKept, WellFormed, TypeOK
  <1>0. \A id \in CallIds : calls[id] # None => calls[id] \in Entries /\ ent[calls[id]].call \in Handles
    BY DEF EntryType
  <1>1. LaunchOK' /\ CancelStarted' /\ MediaStarted' /\ MediaOnce'
    <2>1. LaunchOK'
      <3> SUFFICES ASSUME NEW t \in Threads, th'[t].pc = "launch"
                   PROVE  th'[t].media \in Medias /\ media'[th'[t].media].st # "none"
        BY DEF LaunchOK
      <3>1. th'[t] = th[t]
        OBVIOUS
      <3>2. th[t].media \in Medias /\ media[th[t].media].st # "none"
        BY <3>1 DEF OwnInv, LaunchOK
      <3> HIDE DEF WellFormed, TypeOK, ThreadsKept
      <3> QED BY <3>1, <3>2
    <2>2. CancelStarted' /\ MediaStarted'
      BY DEF OwnInv, CancelStarted, MediaStarted
    <2>3. MediaOnce'
      BY DEF OwnInv, MediaOnce
    <2> QED BY <2>1, <2>2, <2>3
  <1>2. RegisteredOK'
    BY <1>0 DEF OwnInv, RegisteredOK
  <1>3. MediaOwned'
    <2> SUFFICES ASSUME NEW m \in Medias, media'[m].st # "none", ~media'[m].cancelled
                 PROVE  \/ \E id \in CallIds : calls'[id] # None /\ ent'[calls'[id]].cancel = m
                        \/ \E t \in Threads : th'[t].pc = "cancel" /\ th'[t].media = m
      BY DEF MediaOwned
    <2>1. media[m].st # "none" /\ ~media[m].cancelled
      OBVIOUS
    <2>2. CASE \E id \in CallIds : calls[id] # None /\ ent[calls[id]].cancel = m
      BY <2>2, <1>0
    <2>3. CASE \E t \in Threads : th[t].pc = "cancel" /\ th[t].media = m
      BY <2>3 DEF Ending
    <2> QED BY <2>1, <2>2, <2>3 DEF OwnInv, MediaOwned
  <1>4. \A t \in Threads : (Ending(t))' => th'[t] = th[t] /\ Ending(t)
    BY DEF Ending
  <1>5. HandlesUsed'
    BY <1>4 DEF EndInv, HandlesUsed
  <1>6. RunsUnderEntry'
    BY <1>0 DEF EndInv, RunsUnderEntry
  <1>7. EndingOK'
    <2> SUFFICES ASSUME NEW t \in Threads, (Ending(t))'
                 PROVE  /\ \A id \in CallIds : calls'[id] # None => ent'[calls'[id]].call # th'[t].call
                        /\ \A u \in Threads : (Ending(u))' /\ u # t => th'[u].call # th'[t].call
                        /\ hdl'[th'[t].call].onEnd = 0
                        /\ \A m \in Medias : media'[m].st # "none" /\ media'[m].call = th'[t].call =>
                              media'[m].cancelled \/ (th'[t].pc = "cancel" /\ th'[t].media = m)
      BY DEF EndingOK
    <2>1. th'[t] = th[t] /\ Ending(t) /\ th[t].call \in Handles
      BY <1>4 DEF EndInv, HandlesUsed
    <2> HIDE DEF WellFormed, TypeOK, ThreadsKept
    <2>6. /\ hdl[th[t].call].onEnd = 0
          /\ \A m \in Medias : media[m].st # "none" /\ media[m].call = th[t].call =>
                media[m].cancelled \/ (th[t].pc = "cancel" /\ th[t].media = m)
      <3> HIDE DEF Silent
      <3> QED BY <2>1 DEF EndInv, EndingOK
    <2>2. \A id \in CallIds : calls'[id] # None => ent'[calls'[id]].call # th'[t].call
      BY <1>0, <2>1 DEF EndInv, EndingOK
    <2>3. \A u \in Threads : (Ending(u))' /\ u # t => th'[u].call # th'[t].call
      BY <1>4, <2>1 DEF EndInv, EndingOK
    <2>4. hdl'[th'[t].call].onEnd = 0
      BY <2>1, <2>6
    <2>5. \A m \in Medias : media'[m].st # "none" /\ media'[m].call = th'[t].call =>
             media'[m].cancelled \/ (th'[t].pc = "cancel" /\ th'[t].media = m)
      BY <2>1, <2>6
    <2> QED BY <2>2, <2>3, <2>4, <2>5
  <1>8. EndedOK'
    <2> HIDE DEF WellFormed, TypeOK, ThreadsKept
    <2> QED BY <1>0 DEF EndInv, EndedOK
  <1>9. FreeMediaOK'
    BY DEF FreeMediaOK
  <1> QED BY <1>1, <1>2, <1>3, <1>5, <1>6, <1>7, <1>8, <1>9 DEF OwnInv, EndInv
-------------------------------------------------------------------------------
(* placeCall and onOffer register a call *)

\* What the two have in common.
Register(t, id, h, e) ==
    /\ hdl[h].id = None /\ hdl'[h].id = id /\ hdl'[h].onEnd = 0
    /\ \A g \in Handles : g # h => hdl'[g] = hdl[g]
    /\ calls[id] = e \/ (calls[id] = None /\ ent[e].call = None)
    /\ calls' = [calls EXCEPT ![id] = e]
    /\ ent'[e].call = h /\ ent'[e].started = ent[e].started /\ ent'[e].cancel = ent[e].cancel
    /\ \A f \in Entries : f # e => ent'[f] = ent[f]
    /\ ~Ending(t) /\ th'[t].pc \notin {"cancel", "end", "launch"}
    /\ \A u \in Threads : u # t => th'[u] = th[u]
    /\ UNCHANGED media

\* placeCall puts a fresh entry and a fresh Call under a fresh id.
LEMMA PlaceCallRegisters ==
    ASSUME WellFormed, OwnInv, NEW t \in Apps, NEW id \in OutIds, NEW h \in Handles, NEW e \in Entries,
           PlaceCall(t, id, h, e)
    PROVE  Register(t, id, h, e)
  <1> USE DEF WellFormed, TypeOK
  <1>1. id \in CallIds /\ t \in Threads
    BY HeapAssumption
  <1>2. calls[id] = None
    <2>1. calls[id] # None => calls[id] \in Entries /\ ent[calls[id]].call \in Handles
      BY <1>1 DEF EntryType
    <2> QED BY <1>1, <2>1 DEF OwnInv, RegisteredOK, PlaceCall
  <1>3. /\ hdl[h].id = None /\ hdl'[h].id = id /\ hdl'[h].onEnd = 0
        /\ \A g \in Handles : g # h => hdl'[g] = hdl[g]
    BY DEF PlaceCall, FreeHandles, FreeHandle
  <1>4. /\ ent[e].call = None
        /\ ent'[e].call = h /\ ent'[e].started = ent[e].started /\ ent'[e].cancel = ent[e].cancel
        /\ \A f \in Entries : f # e => ent'[f] = ent[f]
    <2>1. ent[e] = FreeEntry /\ ent' = [ent EXCEPT ![e] = [FreeEntry EXCEPT !.call = h, !.direction = "outgoing"]]
      BY DEF PlaceCall, FreeEntries
    <2>2. ent'[e] = [FreeEntry EXCEPT !.call = h, !.direction = "outgoing"]
      BY <2>1
    <2>3. \A f \in Entries : f # e => ent'[f] = ent[f]
      BY <2>1
    <2>4. ent[e].call = None /\ ent'[e].call = h
      BY DEF PlaceCall, FreeEntry, FreeEntries
    <2> HIDE DEF WellFormed, TypeOK
    <2>5. ent'[e].started = ent[e].started /\ ent'[e].cancel = ent[e].cancel
      <3>1. FreeEntry \in EntryType
        BY DEF FreeEntry, EntryType
      <3>2. ent[e] \in EntryType
        BY <2>1, <3>1
      <3>3. ent'[e] = [ent[e] EXCEPT !.call = h, !.direction = "outgoing"]
        BY <2>1, <2>2
      <3> QED BY <3>2, <3>3 DEF EntryType
    <2> QED BY <2>3, <2>4, <2>5
  <1>5. /\ ~Ending(t) /\ th'[t].pc = "offer"
        /\ \A u \in Threads : u # t => th'[u] = th[u]
    BY <1>1 DEF PlaceCall, Ending, Goto, Thread
  <1> QED BY <1>2, <1>3, <1>4, <1>5 DEF Register, PlaceCall

\* onOffer does so for an id that is not registered.
LEMMA OnOfferRegisters ==
    ASSUME WellFormed, NEW id \in CallIds, NEW h \in Handles, OnOffer(id, h)
    PROVE  \E e \in Entries : Register("queue", id, h, e)
  <1> USE DEF WellFormed, TypeOK
  <1>1. PICK e \in Entries :
          /\ e \in IF calls[id] = None THEN FreeEntries ELSE {calls[id]}
          /\ calls' = [calls EXCEPT ![id] = e]
          /\ ent' = [ent EXCEPT ![e].call = h, ![e].direction = "incoming",
                                ![e].relay = @ \/ id \in RelayInOffer]
          /\ Goto("queue", Thread("offered", id, e, h, None, "idle", FALSE))
    BY DEF OnOffer, FreeEntries
  <1>2. /\ hdl[h].id = None /\ hdl'[h].id = id /\ hdl'[h].onEnd = 0
        /\ \A g \in Handles : g # h => hdl'[g] = hdl[g]
    BY DEF OnOffer, FreeHandles, FreeHandle
  <1>3. /\ ent'[e].call = h /\ ent'[e].started = ent[e].started /\ ent'[e].cancel = ent[e].cancel
        /\ \A f \in Entries : f # e => ent'[f] = ent[f]
    <2> DEFINE relay == ent[e].relay \/ id \in RelayInOffer
               new == [ent[e] EXCEPT !.call = h, !.direction = "incoming", !.relay = relay]
    <2>0. relay \in BOOLEAN
      OBVIOUS
    <2>1. ent[e] \in EntryType
      OBVIOUS
    <2>2. new.call = h /\ new.started = ent[e].started /\ new.cancel = ent[e].cancel
      <3>1. new = [ent[e] EXCEPT !.call = h, !.direction = "incoming", !.relay = relay]
        OBVIOUS
      <3> HIDE DEF new, relay, WellFormed, TypeOK
      <3> QED BY <2>0, <2>1, <3>1 DEF EntryType
    <2>3. ent' = [ent EXCEPT ![e] = new]
      BY <1>1
    <2> HIDE DEF new
    <2> QED BY <2>2, <2>3
  <1>4. /\ ~Ending("queue") /\ th'["queue"].pc = "offered"
        /\ \A u \in Threads : u # "queue" => th'[u] = th[u]
    BY <1>1 DEF OnOffer, Ending, Goto, Thread
  <1>5. calls[id] = e \/ (calls[id] = None /\ ent[e].call = None)
    BY <1>1 DEF FreeEntries, FreeEntry
  <1> QED BY <1>1, <1>2, <1>3, <1>4, <1>5 DEF Register, OnOffer

\* A registration: the new entry has no media, the other entries keep theirs.
LEMMA RegisterKeeps ==
    ASSUME WellFormed, OwnInv, EndInv, FreeMediaOK,
           NEW t \in Threads, NEW id \in CallIds, NEW h \in Handles, NEW e \in Entries,
           Register(t, id, h, e)
    PROVE  OwnInv' /\ EndInv' /\ FreeMediaOK'
  <1>0. \A i \in CallIds : calls[i] # None => calls[i] \in Entries /\ ent[calls[i]].call \in Handles
    BY DEF WellFormed, TypeOK, EntryType
  <1>1. calls'[id] = e /\ \A i \in CallIds : i # id => calls'[i] = calls[i] /\ calls[i] # e
    <2>1. calls'[id] = e /\ \A i \in CallIds : i # id => calls'[i] = calls[i]
      BY DEF Register, WellFormed, TypeOK
    <2>2. \A i \in CallIds : i # id => calls[i] # e
      BY <1>0, HeapAssumption DEF Register, OwnInv, RegisteredOK, WellFormed, TypeOK
    <2> QED BY <2>1, <2>2
  <1>2. None \notin CallIds /\ None \notin Entries /\ None \notin Handles /\ None \notin Medias
    BY HeapAssumption
  <1> USE DEF Register
  <1>3. LaunchOK' /\ CancelStarted' /\ MediaStarted' /\ MediaOnce' /\ FreeMediaOK'
    <2>1. LaunchOK'
      BY DEF OwnInv, LaunchOK
    <2>2. CancelStarted' /\ MediaStarted'
      BY DEF OwnInv, CancelStarted, MediaStarted
    <2>3. MediaOnce' /\ FreeMediaOK'
      BY DEF OwnInv, MediaOnce, FreeMediaOK
    <2> QED BY <2>1, <2>2, <2>3
  <1>4. RegisteredOK'
    BY <1>0, <1>1, <1>2 DEF OwnInv, RegisteredOK
  <1>5. MediaOwned'
    <2> SUFFICES ASSUME NEW m \in Medias, media[m].st # "none", ~media[m].cancelled
                 PROVE  \/ \E i \in CallIds : calls'[i] # None /\ ent'[calls'[i]].cancel = m
                        \/ \E u \in Threads : th'[u].pc = "cancel" /\ th'[u].media = m
      BY DEF MediaOwned
    <2>1. CASE \E i \in CallIds : calls[i] # None /\ ent[calls[i]].cancel = m
      <3>1. PICK i \in CallIds : calls[i] # None /\ ent[calls[i]].cancel = m
        BY <2>1
      <3>2. calls'[i] # None /\ ent'[calls'[i]].cancel = m
        BY <1>0, <1>1, <1>2, <3>1
      <3> QED BY <3>2
    <2>2. CASE \E u \in Threads : th[u].pc = "cancel" /\ th[u].media = m
      BY <2>2 DEF Ending
    <2> QED BY <2>1, <2>2 DEF OwnInv, MediaOwned
  <1>6. \A u \in Threads : (Ending(u))' => th'[u] = th[u] /\ Ending(u) /\ u # t
    BY DEF Ending
  <1>7. HandlesUsed'
    BY <1>2, <1>6 DEF EndInv, HandlesUsed
  <1>8. \A m \in Medias : media[m].st # "none" => media[m].call # h
    BY <1>2 DEF EndInv, HandlesUsed
  <1>9. \A u \in Threads : Ending(u) => th[u].call \in Handles /\ th[u].call # h
    BY <1>2 DEF EndInv, HandlesUsed
  <1>10. \A i \in CallIds : calls'[i] # None =>
            \/ ent'[calls'[i]].call = h
            \/ calls'[i] = calls[i] /\ ent'[calls[i]] = ent[calls[i]]
    BY <1>0, <1>1
  <1>11. RunsUnderEntry'
    BY <1>8, <1>10 DEF EndInv, RunsUnderEntry
  <1>12. EndingOK'
    <2> SUFFICES ASSUME NEW u \in Threads, (Ending(u))'
                 PROVE  /\ \A i \in CallIds : calls'[i] # None => ent'[calls'[i]].call # th'[u].call
                        /\ \A v \in Threads : (Ending(v))' /\ v # u => th'[v].call # th'[u].call
                        /\ hdl'[th'[u].call].onEnd = 0
                        /\ \A m \in Medias : media'[m].st # "none" /\ media'[m].call = th'[u].call =>
                              media'[m].cancelled \/ (th'[u].pc = "cancel" /\ th'[u].media = m)
      BY DEF EndingOK
    <2> QED BY <1>6, <1>9, <1>10 DEF EndInv, EndingOK
  <1>13. EndedOK'
    BY <1>2, <1>8, <1>10 DEF EndInv, EndedOK
  <1> QED BY <1>3, <1>4, <1>5, <1>7, <1>11, <1>12, <1>13 DEF OwnInv, EndInv
-------------------------------------------------------------------------------
(* finishCall *)

\* A registered entry holds the Call of its id, and no two ids share one.
LEMMA RegisteredFacts ==
    ASSUME WellFormed, OwnInv
    PROVE  /\ \A i \in CallIds : calls[i] # None =>
                 /\ calls[i] \in Entries /\ ent[calls[i]].call \in Handles
                 /\ hdl[ent[calls[i]].call].id = i
           /\ \A i, j \in CallIds : calls[i] # None /\ calls[j] # None /\ i # j =>
                 calls[i] # calls[j] /\ ent[calls[i]].call # ent[calls[j]].call
  <1>1. \A i \in CallIds : calls[i] # None =>
           calls[i] \in Entries /\ ent[calls[i]].call \in Handles
    BY DEF WellFormed, TypeOK, EntryType
  <1> QED BY <1>1 DEF OwnInv, RegisteredOK

\* finishCall: the cancel handle passes from the entry to the thread.
LEMMA FinishCallKeeps ==
    ASSUME WellFormed, OwnInv, EndInv, FreeMediaOK, NEW t \in Threads, NEW id \in CallIds,
           th[t].pc = "idle", FinishCall(t, id)
    PROVE  OwnInv' /\ EndInv' /\ FreeMediaOK'
  <1> DEFINE e == calls[id]
             h == ent[e].call
  <1>1. /\ e # None /\ e \in Entries /\ h \in Handles /\ hdl[h].id = id
        /\ \A i \in CallIds : calls[i] # None /\ i # id => calls[i] # e /\ ent[calls[i]].call # h
    BY RegisteredFacts DEF FinishCall
  <1>2. calls'[id] = None /\ \A i \in CallIds : i # id => calls'[i] = calls[i]
    BY DEF FinishCall, WellFormed, TypeOK
  <1>3. /\ \A f \in Entries : f # e => ent'[f] = ent[f]
        /\ ent'[e].call = ent[e].call /\ ent'[e].started = ent[e].started /\ ent'[e].cancel = None
    <2>1. ent[e] \in EntryType
      BY <1>1 DEF WellFormed, TypeOK
    <2>2. ent'[e] = [ent[e] EXCEPT !.cancel = None] /\ \A f \in Entries : f # e => ent'[f] = ent[f]
      BY <1>1 DEF FinishCall, WellFormed, TypeOK
    <2> QED BY <2>1, <2>2 DEF EntryType
  <1>4. /\ th'[t].pc = "cancel" /\ th'[t].call = h /\ th'[t].media = ent[e].cancel
        /\ \A u \in Threads : u # t => th'[u] = th[u]
    BY DEF FinishCall, Goto, Thread, WellFormed, TypeOK
  <1>5. UNCHANGED <<hdl, media>> /\ ~Ending(t)
    BY DEF FinishCall, Ending
  <1>6. \A i \in CallIds : calls'[i] # None =>
           /\ i # id /\ calls'[i] = calls[i] /\ calls[i] \in Entries /\ calls[i] # e
           /\ ent'[calls[i]] = ent[calls[i]]
    BY <1>1, <1>2, <1>3, RegisteredFacts
  <1>7. \A u \in Threads : (Ending(u))' => u = t \/ (th'[u] = th[u] /\ Ending(u))
    BY <1>4 DEF Ending
  <1> HIDE DEF e, h
  <1>8. LaunchOK' /\ CancelStarted' /\ MediaStarted' /\ MediaOnce' /\ FreeMediaOK'
    <2>1. LaunchOK'
      BY <1>4, <1>5 DEF OwnInv, LaunchOK
    <2>2. CancelStarted'
      BY <1>3 DEF OwnInv, CancelStarted
    <2>3. MediaStarted'
      BY <1>3, <1>5 DEF OwnInv, MediaStarted
    <2>4. MediaOnce' /\ FreeMediaOK'
      BY <1>5 DEF OwnInv, MediaOnce, FreeMediaOK
    <2> QED BY <2>1, <2>2, <2>3, <2>4
  <1>9. RegisteredOK'
    BY <1>5, <1>6 DEF OwnInv, RegisteredOK
  <1>10. MediaOwned'
    <2> SUFFICES ASSUME NEW m \in Medias, media[m].st # "none", ~media[m].cancelled
                 PROVE  \/ \E i \in CallIds : calls'[i] # None /\ ent'[calls'[i]].cancel = m
                        \/ \E u \in Threads : th'[u].pc = "cancel" /\ th'[u].media = m
      BY <1>5 DEF MediaOwned
    <2>1. CASE \E i \in CallIds : calls[i] # None /\ ent[calls[i]].cancel = m
      <3>1. PICK i \in CallIds : calls[i] # None /\ ent[calls[i]].cancel = m
        BY <2>1
      <3>2. CASE i = id
        BY <1>4, <3>1, <3>2 DEF e
      <3>3. CASE i # id
        <4>1. calls'[i] # None /\ ent'[calls'[i]].cancel = m
          BY <1>2, <1>6, <3>1, <3>3
        <4> QED BY <4>1
      <3> QED BY <3>2, <3>3
    <2>2. CASE \E u \in Threads : th[u].pc = "cancel" /\ th[u].media = m
      BY <1>4, <2>2
    <2> QED BY <2>1, <2>2 DEF OwnInv, MediaOwned
  <1>11. HandlesUsed'
    BY <1>1, <1>4, <1>5, <1>7 DEF EndInv, HandlesUsed
  <1>12. RunsUnderEntry'
    BY <1>5, <1>6 DEF EndInv, RunsUnderEntry
  <1>13. EndingOK'
    <2> SUFFICES ASSUME NEW u \in Threads, (Ending(u))'
                 PROVE  /\ \A i \in CallIds : calls'[i] # None => ent'[calls'[i]].call # th'[u].call
                        /\ \A v \in Threads : (Ending(v))' /\ v # u => th'[v].call # th'[u].call
                        /\ hdl'[th'[u].call].onEnd = 0
                        /\ \A m \in Medias : media'[m].st # "none" /\ media'[m].call = th'[u].call =>
                              media'[m].cancelled \/ (th'[u].pc = "cancel" /\ th'[u].media = m)
      BY DEF EndingOK
    <2>1. \A v \in Threads : Ending(v) => th[v].call # h
      BY <1>1 DEF EndInv, EndingOK, e, h
    <2>2. CASE u = t
      <3>1. \A i \in CallIds : calls'[i] # None => ent'[calls'[i]].call # th'[t].call
        BY <1>1, <1>4, <1>6
      <3>2. \A v \in Threads : (Ending(v))' /\ v # t => th'[v].call # th'[t].call
        BY <1>4, <1>7, <2>1
      <3>3. hdl'[th'[t].call].onEnd = 0
        BY <1>1, <1>4, <1>5 DEF EndInv, EndedOK, e, h
      <3>4. \A m \in Medias : media'[m].st # "none" /\ media'[m].call = th'[t].call =>
               media'[m].cancelled \/ (th'[t].pc = "cancel" /\ th'[t].media = m)
        <4>1. \A m \in Medias : media[m].st # "none" /\ ~media[m].cancelled /\ media[m].call = h =>
                 ent[e].cancel = m
          BY <1>1 DEF EndInv, RunsUnderEntry, e, h
        <4> QED BY <1>4, <1>5, <4>1
      <3> QED BY <2>2, <3>1, <3>2, <3>3, <3>4
    <2>3. CASE u # t
      <3>1. th'[u] = th[u] /\ Ending(u)
        BY <1>7, <2>3
      <3>2. \A i \in CallIds : calls'[i] # None => ent'[calls'[i]].call # th'[u].call
        BY <1>6, <3>1 DEF EndInv, EndingOK
      <3>3. \A v \in Threads : (Ending(v))' /\ v # u => th'[v].call # th'[u].call
        <4>1. \A v \in Threads : Ending(v) /\ v # u => th[v].call # th[u].call
          BY <3>1 DEF EndInv, EndingOK
        <4> QED BY <1>4, <1>7, <2>1, <3>1, <4>1
      <3>4. hdl'[th'[u].call].onEnd = 0
        BY <1>5, <3>1 DEF EndInv, EndingOK
      <3>5. \A m \in Medias : media'[m].st # "none" /\ media'[m].call = th'[u].call =>
               media'[m].cancelled \/ (th'[u].pc = "cancel" /\ th'[u].media = m)
        BY <1>5, <3>1 DEF EndInv, EndingOK
      <3> QED BY <3>2, <3>3, <3>4, <3>5
    <2> QED BY <2>2, <2>3
  <1>14. EndedOK'
    BY <1>5, <1>6 DEF EndInv, EndedOK
  <1> QED BY <1>8, <1>9, <1>10, <1>11, <1>12, <1>13, <1>14 DEF OwnInv, EndInv

\* finishCall cancels: nothing of the Call runs any more.
LEMMA CancelMediaKeeps ==
    ASSUME WellFormed, OwnInv, EndInv, FreeMediaOK, NEW t \in Threads, CancelMedia(t)
    PROVE  OwnInv' /\ EndInv' /\ FreeMediaOK'
  <1>1. \A m \in Medias :
           /\ media'[m].st = media[m].st /\ media'[m].ent = media[m].ent
           /\ media'[m].call = media[m].call
           /\ media[m].cancelled \/ m = th[t].media => media'[m].cancelled
           /\ m # th[t].media => media'[m] = media[m]
    <2> SUFFICES ASSUME NEW m \in Medias
                 PROVE  /\ media'[m].st = media[m].st /\ media'[m].ent = media[m].ent
                        /\ media'[m].call = media[m].call
                        /\ media[m].cancelled \/ m = th[t].media => media'[m].cancelled
                        /\ m # th[t].media => media'[m] = media[m]
      OBVIOUS
    <2>1. media[m] \in MediaType
      BY DEF WellFormed, TypeOK
    <2>2. CASE m = th[t].media
      <3>1. media'[m] = [media[m] EXCEPT !.cancelled = TRUE]
        BY <2>2, HeapAssumption DEF CancelMedia, WellFormed, TypeOK
      <3> QED BY <2>1, <2>2, <3>1 DEF MediaType
    <2>3. CASE m # th[t].media
      <3>1. media'[m] = media[m]
        BY <2>3 DEF CancelMedia, WellFormed, TypeOK
      <3> QED BY <2>3, <3>1
    <2> QED BY <2>2, <2>3
  <1>2. UNCHANGED <<calls, ent, hdl>> /\ th[t].pc = "cancel"
    BY DEF CancelMedia
  <1>3. /\ th'[t].pc = "end" /\ th'[t].call = th[t].call
        /\ \A u \in Threads : u # t => th'[u] = th[u]
    <2>1. th[t] \in ThreadType
      BY DEF WellFormed, TypeOK
    <2>2. /\ th'[t] = [th[t] EXCEPT !.pc = "end", !.media = None]
          /\ \A u \in Threads : u # t => th'[u] = th[u]
      BY DEF CancelMedia, Goto, WellFormed, TypeOK
    <2> QED BY <2>1, <2>2 DEF ThreadType
  <1>4. \A u \in Threads : (Ending(u))' => Ending(u) /\ th'[u].call = th[u].call
    BY <1>2, <1>3 DEF Ending
  <1>5. LaunchOK' /\ CancelStarted' /\ MediaStarted' /\ MediaOnce' /\ FreeMediaOK'
    <2>1. LaunchOK'
      BY <1>1, <1>3 DEF OwnInv, LaunchOK
    <2>2. CancelStarted' /\ MediaStarted'
      BY <1>1, <1>2 DEF OwnInv, CancelStarted, MediaStarted
    <2>3. MediaOnce' /\ FreeMediaOK'
      BY <1>1 DEF OwnInv, MediaOnce, FreeMediaOK
    <2> QED BY <2>1, <2>2, <2>3
  <1>6. RegisteredOK'
    BY <1>2 DEF OwnInv, RegisteredOK
  <1>7. MediaOwned'
    <2> SUFFICES ASSUME NEW m \in Medias, media'[m].st # "none", ~media'[m].cancelled
                 PROVE  \/ \E i \in CallIds : calls'[i] # None /\ ent'[calls'[i]].cancel = m
                        \/ \E u \in Threads : th'[u].pc = "cancel" /\ th'[u].media = m
      BY DEF MediaOwned
    <2>1. media[m].st # "none" /\ ~media[m].cancelled /\ m # th[t].media
      BY <1>1
    <2>2. CASE \E i \in CallIds : calls[i] # None /\ ent[calls[i]].cancel = m
      BY <1>2, <2>2
    <2>3. CASE \E u \in Threads : th[u].pc = "cancel" /\ th[u].media = m
      BY <1>3, <2>1, <2>3
    <2> QED BY <2>1, <2>2, <2>3 DEF OwnInv, MediaOwned
  <1>8. HandlesUsed'
    BY <1>1, <1>2, <1>4 DEF EndInv, HandlesUsed
  <1>9. RunsUnderEntry'
    BY <1>1, <1>2 DEF EndInv, RunsUnderEntry
  <1>10. EndingOK'
    <2> SUFFICES ASSUME NEW u \in Threads, (Ending(u))'
                 PROVE  /\ \A i \in CallIds : calls'[i] # None => ent'[calls'[i]].call # th'[u].call
                        /\ \A v \in Threads : (Ending(v))' /\ v # u => th'[v].call # th'[u].call
                        /\ hdl'[th'[u].call].onEnd = 0
                        /\ \A m \in Medias : media'[m].st # "none" /\ media'[m].call = th'[u].call =>
                              media'[m].cancelled \/ (th'[u].pc = "cancel" /\ th'[u].media = m)
      BY DEF EndingOK
    <2>1. Ending(u) /\ th'[u].call = th[u].call
      BY <1>4
    <2>2. /\ \A i \in CallIds : calls[i] # None => ent[calls[i]].call # th[u].call
          /\ \A v \in Threads : Ending(v) /\ v # u => th[v].call # th[u].call
          /\ hdl[th[u].call].onEnd = 0
          /\ \A m \in Medias : media[m].st # "none" /\ media[m].call = th[u].call =>
                media[m].cancelled \/ (th[u].pc = "cancel" /\ th[u].media = m)
      BY <2>1 DEF EndInv, EndingOK
    <2>3. \A m \in Medias : media'[m].st # "none" /\ media'[m].call = th'[u].call =>
             media'[m].cancelled \/ (th'[u].pc = "cancel" /\ th'[u].media = m)
      BY <1>1, <1>3, <2>1, <2>2
    <2> QED BY <1>2, <1>4, <2>1, <2>2, <2>3
  <1>11. EndedOK'
    BY <1>1, <1>2 DEF EndInv, EndedOK
  <1> QED BY <1>5, <1>6, <1>7, <1>8, <1>9, <1>10, <1>11 DEF OwnInv, EndInv

\* finishCall reports the end once, when nothing of the Call runs.
LEMMA EndCallKeeps ==
    ASSUME WellFormed, OwnInv, EndInv, FreeMediaOK, NEW t \in Threads, EndCall(t)
    PROVE  OwnInv' /\ EndInv' /\ FreeMediaOK'
  <1> DEFINE h == th[t].call
  <1>1. UNCHANGED <<calls, ent, media>> /\ th[t].pc = "end" /\ Ending(t)
    BY DEF EndCall, Ending
  <1>2. h \in Handles /\ hdl[h].id \in CallIds /\ hdl[h].onEnd = 0
    BY <1>1 DEF EndInv, HandlesUsed, EndingOK
  <1>3. /\ th'[t].pc = "idle"
        /\ \A u \in Threads : u # t => th'[u] = th[u]
    BY DEF EndCall, Goto, Idle, WellFormed, TypeOK
  <1>4. /\ \A g \in Handles : g # h => hdl'[g] = hdl[g]
        /\ hdl'[h].id = hdl[h].id /\ hdl'[h].onEnd \in {0, 1}
    <2>1. hdl[h] \in HandleType
      BY <1>2 DEF WellFormed, TypeOK
    <2>2. \A g \in Handles : g # h => hdl'[g] = hdl[g]
      BY <1>2 DEF EndCall, WellFormed, TypeOK
    <2>3. CASE UNCHANGED hdl
      BY <1>2, <2>2, <2>3
    <2>4. CASE hdl' = [hdl EXCEPT ![h].phase = "ended", ![h].onEnd = @ + 1]
      <3>1. hdl'[h] = [hdl[h] EXCEPT !.phase = "ended", !.onEnd = @ + 1]
        BY <1>2, <2>4 DEF WellFormed, TypeOK
      <3>2. hdl'[h].id = hdl[h].id /\ hdl'[h].onEnd = hdl[h].onEnd + 1
        BY <2>1, <3>1, EndedHandle
      <3> QED BY <1>2, <2>2, <3>2
    <2> QED BY <2>3, <2>4 DEF EndCall
  <1>5. \A g \in Handles : hdl'[g].id = hdl[g].id
    BY <1>4
  <1>6. \A u \in Threads : (Ending(u))' => u # t /\ th'[u] = th[u] /\ Ending(u)
    BY <1>3 DEF Ending
  <1>7. /\ \A i \in CallIds : calls[i] # None => ent[calls[i]].call # h
        /\ \A u \in Threads : Ending(u) /\ u # t => th[u].call # h
        /\ \A m \in Medias : media[m].st # "none" /\ media[m].call = h => media[m].cancelled
    BY <1>1 DEF EndInv, EndingOK
  <1> HIDE DEF h
  <1>8. LaunchOK' /\ CancelStarted' /\ MediaStarted' /\ MediaOnce' /\ FreeMediaOK'
    <2>1. LaunchOK'
      BY <1>1, <1>3 DEF OwnInv, LaunchOK
    <2>2. CancelStarted' /\ MediaStarted' /\ MediaOnce' /\ FreeMediaOK'
      BY <1>1 DEF OwnInv, CancelStarted, MediaStarted, MediaOnce, FreeMediaOK
    <2> QED BY <2>1, <2>2
  <1>9. RegisteredOK'
    BY <1>1, <1>5, RegisteredFacts DEF RegisteredOK
  <1>10. MediaOwned'
    BY <1>1, <1>3 DEF OwnInv, MediaOwned
  <1>11. HandlesUsed'
    BY <1>1, <1>5, <1>6 DEF EndInv, HandlesUsed
  <1>12. RunsUnderEntry'
    BY <1>1 DEF EndInv, RunsUnderEntry
  <1>13. EndingOK'
    <2> SUFFICES ASSUME NEW u \in Threads, (Ending(u))'
                 PROVE  /\ \A i \in CallIds : calls'[i] # None => ent'[calls'[i]].call # th'[u].call
                        /\ \A v \in Threads : (Ending(v))' /\ v # u => th'[v].call # th'[u].call
                        /\ hdl'[th'[u].call].onEnd = 0
                        /\ \A m \in Medias : media'[m].st # "none" /\ media'[m].call = th'[u].call =>
                              media'[m].cancelled \/ (th'[u].pc = "cancel" /\ th'[u].media = m)
      BY DEF EndingOK
    <2>1. u # t /\ th'[u] = th[u] /\ Ending(u) /\ th[u].call \in Handles
      BY <1>6 DEF EndInv, HandlesUsed
    <2>2. hdl'[th'[u].call].onEnd = 0
      BY <1>4, <1>7, <2>1 DEF EndInv, EndingOK
    <2> QED BY <1>1, <1>6, <2>1, <2>2 DEF EndInv, EndingOK
  <1>14. EndedOK'
    <2> SUFFICES ASSUME NEW g \in Handles
                 PROVE  /\ hdl'[g].onEnd \in {0, 1}
                        /\ hdl'[g].id = None => hdl'[g].onEnd = 0
                        /\ hdl'[g].onEnd = 1 =>
                              /\ \A i \in CallIds : calls[i] # None => ent[calls[i]].call # g
                              /\ \A m \in Medias : media[m].st # "none" /\ media[m].call = g =>
                                    media[m].cancelled
      BY <1>1 DEF EndedOK
    <2>1. CASE g = h
      BY <1>2, <1>4, <1>7, <2>1, HeapAssumption
    <2>2. CASE g # h
      BY <1>4, <2>2 DEF EndInv, EndedOK
    <2> QED BY <2>1, <2>2
  <1> QED BY <1>8, <1>9, <1>10, <1>11, <1>12, <1>13, <1>14 DEF OwnInv, EndInv
-------------------------------------------------------------------------------
(* maybeStartMedia *)

\* maybeStartMedia: the entry had no goroutine and now owns one.
LEMMA StartMediaKeeps ==
    ASSUME WellFormed, OwnInv, EndInv, FreeMediaOK, NEW t \in Threads, NEW m \in Medias,
           StartMedia(t, m)
    PROVE  OwnInv' /\ EndInv' /\ FreeMediaOK'
  <1> DEFINE id == th[t].id
             e == calls[id]
             h == ent[e].call
  <1>1. id \in CallIds /\ th[t].pc = "start" /\ th[t] \in ThreadType
    BY DEF StartMedia, WellFormed, TypeOK, ThreadOK
  <1>2. e # None /\ ~ent[e].started /\ media[m] = FreeMedia
    BY DEF StartMedia, CanStart, FreeMedias
  <1>3. e \in Entries /\ h \in Handles /\ hdl[h].id = id /\ ent[e] \in EntryType
    BY <1>1, <1>2, RegisteredFacts DEF WellFormed, TypeOK
  <1>4. /\ ent'[e].call = h /\ ent'[e].started /\ ent'[e].cancel = m
        /\ \A f \in Entries : f # e => ent'[f] = ent[f]
    <2>1. /\ ent'[e] = [ent[e] EXCEPT !.started = TRUE, !.cancel = m]
          /\ \A f \in Entries : f # e => ent'[f] = ent[f]
      BY <1>3 DEF StartMedia, WellFormed, TypeOK
    <2>2. ent'[e].call = h /\ ent'[e].cancel = m
      BY <1>3, <2>1 DEF EntryType
    <2>3. ent'[e].started
      BY <1>3, <2>1 DEF EntryType
    <2> QED BY <2>1, <2>2, <2>3
  <1>5. /\ media'[m].st = "pending" /\ media'[m].ent = e /\ media'[m].call = h
        /\ ~media'[m].cancelled
        /\ \A n \in Medias : n # m => media'[n] = media[n]
    <2>1. /\ media'[m] = [FreeMedia EXCEPT !.st = "pending", !.id = id, !.ent = e, !.call = h]
          /\ \A n \in Medias : n # m => media'[n] = media[n]
      BY DEF StartMedia, WellFormed, TypeOK
    <2> HIDE DEF e, h, id
    <2>2. media'[m].st = "pending" /\ media'[m].ent = e /\ media'[m].call = h
      BY <2>1 DEF FreeMedia
    <2>3. ~media'[m].cancelled
      BY <2>1 DEF FreeMedia
    <2> QED BY <2>1, <2>2, <2>3
  <1>6. /\ th'[t].pc = "launch" /\ th'[t].media = m
        /\ \A u \in Threads : u # t => th'[u] = th[u]
    <2>1. /\ th'[t] = [th[t] EXCEPT !.pc = "launch", !.media = m]
          /\ \A u \in Threads : u # t => th'[u] = th[u]
      BY DEF StartMedia, Goto, WellFormed, TypeOK
    <2> QED BY <1>1, <2>1 DEF ThreadType
  <1>7. UNCHANGED <<calls, hdl>> /\ media[m].st = "none"
    BY <1>2 DEF StartMedia, FreeMedia
  <1>8. ent[e].cancel = None
    BY <1>2, <1>3 DEF OwnInv, CancelStarted
  <1>9. \A n \in Medias : media[n].st # "none" => media[n].ent \in Entries /\ media[n].ent # e
    BY <1>2 DEF OwnInv, MediaStarted
  <1>10. \A f \in Entries : ent'[f].call = ent[f].call
    BY <1>4
  <1>11. \A u \in Threads : (Ending(u))' => u # t /\ th'[u] = th[u] /\ Ending(u)
    BY <1>6 DEF Ending
  <1>12. None \notin Medias /\ \A i \in CallIds : calls[i] # None => calls[i] \in Entries
    BY HeapAssumption DEF WellFormed, TypeOK
  <1>13. \A i \in CallIds : calls[i] # None /\ i # id => ent[calls[i]].call # h /\ calls[i] # e
    BY <1>1, <1>2, RegisteredFacts
  <1> HIDE DEF id, e, h
  <1>14. LaunchOK'
    BY <1>5, <1>6 DEF OwnInv, LaunchOK
  <1>15. CancelStarted' /\ MediaStarted'
    <2>1. CancelStarted'
      BY <1>4 DEF OwnInv, CancelStarted
    <2>2. MediaStarted'
      BY <1>3, <1>4, <1>5, <1>9 DEF OwnInv, MediaStarted
    <2> QED BY <2>1, <2>2
  <1>16. MediaOnce' /\ FreeMediaOK'
    <2>1. MediaOnce'
      BY <1>5, <1>9 DEF OwnInv, MediaOnce
    <2>2. FreeMediaOK'
      BY <1>5 DEF FreeMediaOK
    <2> QED BY <2>1, <2>2
  <1>17. RegisteredOK'
    BY <1>7, <1>10, <1>12 DEF OwnInv, RegisteredOK
  <1>18. MediaOwned'
    <2> SUFFICES ASSUME NEW n \in Medias, media'[n].st # "none", ~media'[n].cancelled
                 PROVE  \/ \E i \in CallIds : calls'[i] # None /\ ent'[calls'[i]].cancel = n
                        \/ \E u \in Threads : th'[u].pc = "cancel" /\ th'[u].media = n
      BY DEF MediaOwned
    <2>1. CASE n = m
      <3>1. calls'[id] # None /\ ent'[calls'[id]].cancel = n
        BY <1>2, <1>4, <1>7, <2>1 DEF e
      <3> QED BY <1>1, <3>1
    <2>2. CASE n # m
      <3>1. media[n].st # "none" /\ ~media[n].cancelled
        BY <1>5, <2>2
      <3>2. CASE \E i \in CallIds : calls[i] # None /\ ent[calls[i]].cancel = n
        <4>1. PICK i \in CallIds : calls[i] # None /\ ent[calls[i]].cancel = n
          BY <3>2
        <4>2. calls[i] # e
          BY <1>8, <1>12, <4>1
        <4> QED BY <1>4, <1>7, <1>12, <4>1, <4>2
      <3>3. CASE \E u \in Threads : th[u].pc = "cancel" /\ th[u].media = n
        BY <1>1, <1>6, <3>3
      <3> QED BY <3>1, <3>2, <3>3 DEF OwnInv, MediaOwned
    <2> QED BY <2>1, <2>2
  <1>19. HandlesUsed'
    BY <1>1, <1>3, <1>5, <1>7, <1>11 DEF EndInv, HandlesUsed
  <1>20. RunsUnderEntry'
    <2> SUFFICES ASSUME NEW i \in CallIds, NEW n \in Medias, calls[i] # None,
                        media'[n].st # "none", ~media'[n].cancelled,
                        media'[n].call = ent'[calls[i]].call
                 PROVE  ent'[calls[i]].cancel = n
      BY <1>7 DEF RunsUnderEntry
    <2>0. calls[i] \in Entries /\ ent'[calls[i]].call = ent[calls[i]].call
      BY <1>10, <1>12
    <2>1. CASE n = m
      <3>1. i = id
        BY <1>5, <1>13, <2>0, <2>1
      <3> QED BY <1>4, <2>1, <3>1 DEF e
    <2>2. CASE n # m
      <3>1. media'[n] = media[n]
        BY <1>5, <2>2
      <3>2. ent[calls[i]].cancel = n
        BY <2>0, <3>1 DEF EndInv, RunsUnderEntry
      <3>3. calls[i] # e
        BY <1>8, <1>12, <3>2
      <3> QED BY <1>4, <2>0, <3>2, <3>3
    <2> QED BY <2>1, <2>2
  <1>21. \A u \in Threads : Ending(u) => th[u].call # h
    <2> SUFFICES ASSUME NEW u \in Threads, Ending(u) PROVE th[u].call # h
      OBVIOUS
    <2>1. \A i \in CallIds : calls[i] # None => ent[calls[i]].call # th[u].call
      BY DEF EndInv, EndingOK
    <2> QED BY <1>1, <1>2, <2>1 DEF e, h
  <1>22. EndingOK'
    <2> SUFFICES ASSUME NEW u \in Threads, (Ending(u))'
                 PROVE  /\ \A i \in CallIds : calls'[i] # None => ent'[calls'[i]].call # th'[u].call
                        /\ \A v \in Threads : (Ending(v))' /\ v # u => th'[v].call # th'[u].call
                        /\ hdl'[th'[u].call].onEnd = 0
                        /\ \A n \in Medias : media'[n].st # "none" /\ media'[n].call = th'[u].call =>
                              media'[n].cancelled \/ (th'[u].pc = "cancel" /\ th'[u].media = n)
      BY DEF EndingOK
    <2>1. th'[u] = th[u] /\ Ending(u)
      BY <1>11
    <2>2. \A i \in CallIds : calls'[i] # None => ent'[calls'[i]].call # th'[u].call
      BY <1>7, <1>10, <1>12, <2>1 DEF EndInv, EndingOK
    <2>3. \A v \in Threads : (Ending(v))' /\ v # u => th'[v].call # th'[u].call
      <3>1. \A v \in Threads : Ending(v) /\ v # u => th[v].call # th[u].call
        BY <2>1 DEF EndInv, EndingOK
      <3> QED BY <1>11, <2>1, <3>1
    <2>4. hdl'[th'[u].call].onEnd = 0
      BY <1>7, <2>1 DEF EndInv, EndingOK
    <2>5. \A n \in Medias : media'[n].st # "none" /\ media'[n].call = th'[u].call =>
             media'[n].cancelled \/ (th'[u].pc = "cancel" /\ th'[u].media = n)
      BY <1>5, <1>21, <2>1 DEF EndInv, EndingOK
    <2> QED BY <2>2, <2>3, <2>4, <2>5
  <1>23. hdl[h].onEnd # 1
    BY <1>1, <1>2, <1>3 DEF EndInv, EndedOK, e, h
  <1>24. EndedOK'
    BY <1>5, <1>7, <1>10, <1>12, <1>23 DEF EndInv, EndedOK
  <1> QED BY <1>14, <1>15, <1>16, <1>17, <1>18, <1>19, <1>20, <1>22, <1>24 DEF OwnInv, EndInv
-------------------------------------------------------------------------------
(* The invariant and what follows from it *)

\* What every reachable state of the engine satisfies.
Inv == WellFormed /\ OwnInv /\ EndInv /\ FreeMediaOK

\* The invariant holds before the first call.
LEMMA InitInv == Init => Inv
  <1> SUFFICES ASSUME Init PROVE Inv
    OBVIOUS
  <1>1. WellFormed
    BY InitWellFormed
  <1>2. /\ \A m \in Medias : media[m].st = "none" /\ media[m].call = None
        /\ \A t \in Threads : th[t].pc = "idle"
        /\ \A h \in Handles : hdl[h].onEnd = 0
        /\ \A e \in Entries : ent[e].cancel = None
        /\ \A id \in CallIds : calls[id] = None
    BY DEF Init, FreeMedia, Idle, FreeHandle, FreeEntry
  <1>3. OwnInv
    BY <1>2 DEF OwnInv, LaunchOK, RegisteredOK, CancelStarted, MediaStarted, MediaOwned, MediaOnce
  <1>4. EndInv
    BY <1>2 DEF EndInv, HandlesUsed, RunsUnderEntry, EndingOK, EndedOK, Ending
  <1> QED BY <1>1, <1>2, <1>3, <1>4 DEF Inv, FreeMediaOK

\* A user operation keeps the invariant.
LEMMA UserInv == Inv /\ UserStep => Inv'
  <1> SUFFICES ASSUME Inv, NEW t \in Apps,
                      \/ \E id \in OutIds, h \in Handles, e \in Entries : PlaceCall(t, id, h, e)
                      \/ \E h \in Handles : Answer(t, h) \/ Hangup(t, h)
               PROVE  Inv'
    BY DEF UserStep
  <1> USE DEF Inv
  <1>1. ASSUME NEW id \in OutIds, NEW h \in Handles, NEW e \in Entries, PlaceCall(t, id, h, e)
        PROVE  Inv'
    <2>1. id \in CallIds /\ t \in Threads
      BY HeapAssumption
    <2>2. WellFormed'
      BY <1>1, PlaceCallWellFormed
    <2>3. Register(t, id, h, e)
      BY <1>1, PlaceCallRegisters
    <2> QED BY <2>1, <2>2, <2>3, RegisterKeeps
  <1>2. ASSUME NEW h \in Handles, Answer(t, h) PROVE Inv'
    BY <1>2, SilentAnswer, SilentKeeps
  <1>3. ASSUME NEW h \in Handles, Hangup(t, h) PROVE Inv'
    <2>1. hdl[h].id \in CallIds
      BY <1>3 DEF Hangup, WellFormed, KnownOK
    <2>2. left' \in [Inputs -> Nat]
      BY <1>3, SpendType DEF Hangup, WellFormed, TypeOK
    <2>3. th[t].pc = "idle" /\ FinishCall(t, hdl[h].id)
      BY <1>3 DEF Hangup
    <2> QED BY <2>1, <2>2, <2>3, FinishCallWellFormed, FinishCallKeeps
  <1> QED BY <1>1, <1>2, <1>3

\* So does a stanza.
LEMMA StanzaInv == Inv /\ StanzaStep => Inv'
  <1> SUFFICES ASSUME Inv, StanzaStep PROVE Inv'
    OBVIOUS
  <1> USE DEF Inv
  <1>1. ASSUME NEW id \in CallIds, NEW h \in Handles, OnOffer(id, h) PROVE Inv'
    <2>1. WellFormed'
      BY <1>1, OnOfferWellFormed
    <2>2. PICK e \in Entries : Register("queue", id, h, e)
      BY <1>1, OnOfferRegisters
    <2> QED BY <2>1, <2>2, RegisterKeeps
  <1>2. ASSUME NEW t \in {"raw", "queue"}, NEW id \in CallIds, EndStanza(t, id) PROVE Inv'
    <2>1. left' \in [Inputs -> Nat]
      BY <1>2, SpendType DEF EndStanza, WellFormed, TypeOK
    <2>2. th[t].pc = "idle" /\ FinishCall(t, id)
      BY <1>2 DEF EndStanza
    <2> QED BY <2>1, <2>2, FinishCallWellFormed, FinishCallKeeps
  <1>3. ASSUME NEW id \in CallIds,
               \/ \E t \in {"raw", "queue"} : RelayStanza(t, id)
               \/ \E w \in BOOLEAN : OnPreAccept(id, w) \/ OnAccept(id, w)
               \/ OnMute(id)
        PROVE  Inv'
    <2>1. WellFormed' /\ Silent
      BY <1>3, SilentStanzas
    <2> QED BY <2>1, SilentKeeps
  <1> QED BY <1>1, <1>2, <1>3 DEF StanzaStep

\* So does the rest of a handler, and so does a media goroutine.
LEMMA ThreadInv ==
    ASSUME Inv, NEW t \in Threads, ThreadStep(t)
    PROVE  Inv'
  <1> USE DEF Inv
  <1>1. CASE CancelMedia(t)
    BY <1>1, CancelMediaWellFormed, CancelMediaKeeps
  <1>2. CASE EndCall(t)
    BY <1>2, EndCallWellFormed, EndCallKeeps
  <1>3. ASSUME NEW m \in Medias, StartMedia(t, m) PROVE Inv'
    BY <1>3, StartMediaWellFormed, StartMediaKeeps
  <1>4. CASE LaunchMedia(t)
    BY <1>4, SilentLaunch, SilentKeeps DEF OwnInv
  <1>5. CASE \/ SendOffer(t) \/ AnswerPhase(t) \/ NotStarted(t)
             \/ t = "queue" /\ (Offered \/ PreAcceptPhase \/ AcceptReadPhase \/ AcceptPhase)
    BY <1>5, SilentThreadSteps, SilentKeeps
  <1>6. CASE NestedRelay(t)
    BY <1>6, SilentNestedRelay, SilentKeeps
  <1>7. CASE SendAccept \/ AcceptSent
    BY <1>7, SilentAnswer, SilentKeeps
  <1> QED BY <1>1, <1>2, <1>3, <1>4, <1>5, <1>6, <1>7 DEF ThreadStep

\* Every step of the engine keeps the invariant.
LEMMA NextInv == Inv /\ [Next]_vars => Inv'
  <1> SUFFICES ASSUME Inv, [Next]_vars PROVE Inv'
    OBVIOUS
  <1>1. CASE UserStep
    BY <1>1, UserInv
  <1>2. CASE StanzaStep
    BY <1>2, StanzaInv
  <1>3. CASE \E t \in Threads : ThreadStep(t)
    BY <1>3, ThreadInv
  <1>4. CASE \E m \in Medias : MediaLoop(m)
    BY <1>4, SilentMedia, SilentKeeps DEF Inv
  <1>5. CASE UNCHANGED vars
    <2>1. EntStep /\ HdlStep /\ MediaOnlyStep /\ RestStep /\ UNCHANGED th
      BY <1>5, Unchanged DEF Inv, vars
    <2> QED BY <2>1, SilentStay, SilentKeeps DEF Inv
  <1> QED BY <1>1, <1>2, <1>3, <1>4, <1>5 DEF Next

\* In every behaviour of the engine the invariant holds.
THEOREM Invariance == Spec => []Inv
  BY InitInv, NextInv, PTL DEF Spec

\* Every variable of the engine keeps its type, and no entry is visible in
\* e.calls before it holds its Call.
THEOREM TypeCorrect == Spec => []TypeOK
  <1>1. Inv => TypeOK
    BY DEF Inv, WellFormed
  <1> QED BY <1>1, Invariance, PTL

\* A media goroutine that has not been cancelled is held, for cancelling, by a
\* registered call or by a finishCall on its way to cancel it.
THEOREM EveryMediaIsOwned == Spec => []MediaOwned
  <1>1. Inv => MediaOwned
    BY DEF Inv, OwnInv
  <1> QED BY <1>1, Invariance, PTL

\* maybeStartMedia starts at most one media goroutine for a call.
THEOREM MediaStartsOnce == Spec => []MediaOnce
  <1>1. Inv => MediaOnce
    BY DEF Inv, OwnInv
  <1> QED BY <1>1, Invariance, PTL

\* finishCall reports the end of a call once, after its media is cancelled.
THEOREM EndFollowsCancel == Spec => []EndAfterCancel
  <1>1. Inv => EndAfterCancel
    <2> SUFFICES ASSUME Inv, NEW h \in Handles
                 PROVE  /\ hdl[h].onEnd <= 1
                        /\ hdl[h].onEnd = 1 =>
                              \A m \in Medias : media[m].call = h => media[m].cancelled
      BY DEF EndAfterCancel
    <2>1. hdl[h].onEnd \in {0, 1}
      BY DEF Inv, EndInv, EndedOK
    <2>2. \A m \in Medias : media[m].call = h => media[m].st # "none"
      BY HeapAssumption DEF Inv, FreeMediaOK
    <2>3. hdl[h].onEnd = 1 => \A m \in Medias : media[m].call = h => media[m].cancelled
      BY <2>2 DEF Inv, EndInv, EndedOK
    <2> QED BY <2>1, <2>3
  <1> QED BY <1>1, Invariance, PTL
-------------------------------------------------------------------------------
(* Starting the media and sending the accept *)

\* A call whose offers carry the relay has it as long as it is registered.
RelayOffered ==
    \A id \in RelayInOffer \ OutIds : calls[id] # None => ent[calls[id]].relay

\* The socket reader is sending the accept of e.
Accepting(e) == th["raw"].pc \in {"accepting", "acceptSent"} /\ th["raw"].ent = e

\* The call is placed, answered, or between answer and accept.
Wanted(e) == \/ ent[e].direction = "outgoing" \/ ent[e].acceptPending
             \/ ent[e].acceptSent \/ Accepting(e)

\* A thread is on its way into maybeStartMedia for the call.
OnItsWay(id) == \E t \in Threads : th[t].pc \in {"answered", "start"} /\ th[t].id = id

\* Media that could be started and has not been is about to be.
StartComes ==
    \A id \in CallIds :
       calls[id] # None /\ ent[calls[id]].relay /\ Wanted(calls[id]) =>
          ent[calls[id]].started \/ OnItsWay(id)

\* The inductive invariant behind NoLostStart.
StartInv == RelayOffered /\ StartComes

\* The inductive invariant behind AcceptPerAnswer: an accept that is pending and one
\* that is being sent each have an Answer of their own.
AcceptInv ==
    \A e \in Entries :
       /\ ent[e].accepts <= ent[e].answers
       /\ ent[e].acceptPending => ent[e].accepts < ent[e].answers
       /\ th["raw"].pc = "accepting" /\ th["raw"].ent = e =>
             /\ ent[e].accepts < ent[e].answers
             /\ ent[e].acceptPending => ent[e].accepts + 1 < ent[e].answers
       /\ Accepting(e) => ent[e].answers > 0

\* What these invariants read of an entry.
FieldsSame(e) ==
    /\ ent'[e].direction = ent[e].direction /\ ent'[e].relay = ent[e].relay
    /\ ent'[e].started = ent[e].started /\ ent'[e].acceptPending = ent[e].acceptPending
    /\ ent'[e].acceptSent = ent[e].acceptSent /\ ent'[e].answers = ent[e].answers
    /\ ent'[e].accepts = ent[e].accepts

\* Threads on their way to maybeStartMedia stay on it.
WaysKept ==
    \A t \in Threads : th[t].pc \in {"answered", "start"} =>
       th'[t].pc \in {"answered", "start"} /\ th'[t].id = th[t].id

\* The socket reader does not come to the sending of an accept.
NoNewAccept == th'["raw"].pc \in {"accepting", "acceptSent"} => th'["raw"] = th["raw"]

Plain == UNCHANGED calls /\ (\A e \in Entries : FieldsSame(e)) /\ WaysKept /\ NoNewAccept

\* Steps that change none of this keep the invariants.
LEMMA PlainKeeps == Inv /\ StartInv /\ AcceptInv /\ Plain => StartInv' /\ AcceptInv'
  <1> SUFFICES ASSUME Inv, StartInv, AcceptInv, Plain PROVE StartInv' /\ AcceptInv'
    OBVIOUS
  <1>1. \A id \in CallIds : calls[id] # None => calls[id] \in Entries
    BY DEF Inv, WellFormed, TypeOK
  <1>2. RelayOffered'
    BY <1>1, HeapAssumption DEF Plain, FieldsSame, StartInv, RelayOffered
  <1>3. ASSUME NEW id \in CallIds, calls'[id] # None, ent'[calls'[id]].relay, Wanted(calls[id])'
        PROVE  ent'[calls'[id]].started \/ OnItsWay(id)'
    <2>1. calls'[id] = calls[id] /\ calls[id] \in Entries
      BY <1>1, <1>3 DEF Plain
    <2>2. FieldsSame(calls[id])
      BY <2>1 DEF Plain
    <2>3. Wanted(calls[id])
      BY <1>3, <2>1, <2>2 DEF Plain, NoNewAccept, FieldsSame, Wanted, Accepting
    <2>4. ent[calls[id]].started \/ OnItsWay(id)
      BY <1>3, <2>1, <2>2, <2>3 DEF FieldsSame, StartInv, StartComes
    <2>5. OnItsWay(id) => OnItsWay(id)'
      BY DEF Plain, WaysKept, OnItsWay
    <2> QED BY <2>1, <2>2, <2>4, <2>5 DEF FieldsSame
  <1>4. StartComes'
    BY <1>3 DEF StartComes
  <1>5. AcceptInv'
    BY DEF Plain, NoNewAccept, FieldsSame, AcceptInv, Accepting
  <1> QED BY <1>2, <1>4, <1>5 DEF StartInv

\* A thread moves outside of what the invariants read.
LEMMA PlainMove ==
    ASSUME Inv, NEW t \in Threads, NEW r, Goto(t, r), UNCHANGED calls,
           \A e \in Entries : FieldsSame(e),
           th[t].pc \in {"answered", "start"} =>
              r.pc \in {"answered", "start"} /\ r.id = th[t].id,
           r.pc \notin {"accepting", "acceptSent"}
    PROVE  Plain
  BY DEF Inv, WellFormed, TypeOK, Goto, Plain, WaysKept, NoNewAccept

\* The entries are left alone.
LEMMA SameEntries == UNCHANGED ent => \A e \in Entries : FieldsSame(e)
  BY DEF FieldsSame

\* Handlers that only look, and the phases they set.
LEMMA PlainThreads ==
    ASSUME Inv, NEW t \in Threads,
           \/ SendOffer(t) \/ AnswerPhase(t) \/ CancelMedia(t) \/ EndCall(t) \/ LaunchMedia(t)
           \/ t = "queue" /\ (Offered \/ PreAcceptPhase \/ AcceptReadPhase \/ AcceptPhase)
           \/ NestedRelay(t) /\ calls[th[t].id] = None
    PROVE  Plain
  <1> DEFINE r == th[t]
  <1>0. r \in ThreadType /\ UNCHANGED <<calls, ent>>
    BY DEF Inv, WellFormed, TypeOK, SendOffer, AnswerPhase, CancelMedia, EndCall, LaunchMedia,
           Offered, PreAcceptPhase, AcceptReadPhase, AcceptPhase, NestedRelay
  <1>1. r.pc # "start" /\ Return(t).pc \in {"idle", "accepted"}
    BY DEF SendOffer, AnswerPhase, CancelMedia, EndCall, LaunchMedia, Offered, PreAcceptPhase,
           AcceptReadPhase, AcceptPhase, NestedRelay, Return, Thread, Idle
  <1>2. CASE SendOffer(t) \/ EndCall(t) \/ (t = "queue" /\ Offered)
    BY <1>0, <1>2, PlainMove, SameEntries DEF SendOffer, EndCall, Offered, Idle
  <1>3. CASE AnswerPhase(t) \/ (t = "queue" /\ AcceptPhase)
    <2>1. Goto(t, Thread("start", r.id, r.ent, None, None, "idle", FALSE))
      BY <1>3 DEF AnswerPhase, AcceptPhase, GotoStart
    <2> QED BY <1>0, <2>1, PlainMove, SameEntries DEF Thread
  <1>4. CASE CancelMedia(t)
    <2>1. Goto(t, [r EXCEPT !.pc = "end", !.media = None]) /\ r.pc = "cancel"
      BY <1>4 DEF CancelMedia
    <2>2. [r EXCEPT !.pc = "end", !.media = None].pc = "end"
      BY <1>0 DEF ThreadType
    <2> QED BY <1>0, <2>1, <2>2, PlainMove, SameEntries
  <1>5. CASE LaunchMedia(t) \/ (NestedRelay(t) /\ calls[th[t].id] = None)
    <2>1. Goto(t, Return(t)) /\ r.pc \in {"launch", "relay"}
      BY <1>5 DEF LaunchMedia, NestedRelay
    <2> QED BY <1>0, <1>1, <2>1, PlainMove, SameEntries
  <1>6. CASE t = "queue" /\ PreAcceptPhase
    <2> DEFINE n == IF r.flag THEN Thread("relay", r.id, r.ent, None, None, "idle", FALSE) ELSE Idle
    <2>1. Goto(t, n) /\ r.pc = "ringing" /\ n.pc \in {"relay", "idle"}
      BY <1>6 DEF PreAcceptPhase, Thread, Idle
    <2> HIDE DEF n
    <2> QED BY <1>0, <2>1, PlainMove, SameEntries
  <1>7. CASE t = "queue" /\ AcceptReadPhase
    <2> DEFINE h == ent[r.ent].call
               n == Thread("acceptPhase", r.id, r.ent, h, None, "idle", hdl[h].phase \in BeforeConnecting)
    <2>1. Goto(t, n) /\ r.pc = "accepted" /\ n.pc = "acceptPhase"
      BY <1>7 DEF AcceptReadPhase, Thread
    <2> HIDE DEF n
    <2> QED BY <1>0, <2>1, PlainMove, SameEntries
  <1> QED BY <1>2, <1>3, <1>4, <1>5, <1>6, <1>7

\* Stanzas of the caller's side, and the media goroutines.
LEMMA PlainOthers ==
    ASSUME Inv,
           \/ \E id \in CallIds, w \in BOOLEAN : OnPreAccept(id, w) \/ OnAccept(id, w)
           \/ \E m \in Medias : MediaLoop(m)
           \/ UNCHANGED vars
    PROVE  Plain
  <1>1. ASSUME NEW id \in CallIds, NEW w \in BOOLEAN, OnPreAccept(id, w) \/ OnAccept(id, w)
        PROVE  Plain
    <2>1. PICK r : Goto("queue", r) /\ r.pc \in {"ringing", "relay", "accepted", "idle"}
      BY <1>1 DEF OnPreAccept, OnAccept, Thread, Idle
    <2> QED BY <1>1, <2>1, PlainMove, SameEntries DEF OnPreAccept, OnAccept
  <1>2. CASE UNCHANGED <<calls, ent, th>>
    BY <1>2, SameEntries DEF Plain, WaysKept, NoNewAccept
  <1>3. ASSUME NEW m \in Medias, MediaLoop(m) PROVE UNCHANGED <<calls, ent, th>>
    BY <1>3 DEF MediaLoop, MediaStep, Connected, ConnectFailed, InstallReceivers, LoopTop,
                RecvAudio, RecvOther, RecvFailed
  <1> QED BY <1>1, <1>2, <1>3 DEF vars

\* placeCall: a new entry has neither relay nor accept.
LEMMA PlaceCallStarts ==
    ASSUME Inv, StartInv, AcceptInv, NEW t \in Apps, NEW id \in OutIds, NEW h \in Handles,
           NEW e \in Entries, PlaceCall(t, id, h, e)
    PROVE  StartInv' /\ AcceptInv'
  <1>0. /\ id \in CallIds /\ t \in Threads /\ t # "raw" /\ th[t].pc = "idle"
        /\ calls \in [CallIds -> Entries \cup {None}]
    BY HeapAssumption DEF PlaceCall, Inv, WellFormed, TypeOK
  <1>1. /\ calls' = [calls EXCEPT ![id] = e]
        /\ \A f \in Entries : f # e => ent'[f] = ent[f]
        /\ ent[e] = FreeEntry
        /\ ent'[e] = [FreeEntry EXCEPT !.call = h, !.direction = "outgoing"]
    BY DEF PlaceCall, FreeEntries, Inv, WellFormed, TypeOK
  <1>2. /\ th'[t] = Thread("offer", id, e, h, None, "idle", FALSE)
        /\ \A u \in Threads : u # t => th'[u] = th[u]
    BY <1>0 DEF PlaceCall, Goto, Inv, WellFormed, TypeOK
  <1>3. \A i \in CallIds : i # id /\ calls'[i] # None =>
           calls'[i] = calls[i] /\ calls[i] \in Entries /\ calls[i] # e
    BY <1>0, <1>1 DEF Inv, WellFormed, TypeOK, FreeEntry
  <1>4. ent[e].acceptPending = FALSE /\ ent[e].accepts = 0 /\ ent[e].answers = 0
        /\ ent'[e].acceptPending = FALSE /\ ent'[e].accepts = 0 /\ ent'[e].answers = 0
        /\ ~ent'[e].relay
    BY <1>1 DEF FreeEntry
  <1>5. th'["raw"] = th["raw"] /\ WaysKept
    BY <1>0, <1>2 DEF WaysKept
  <1>6. AcceptInv'
    BY <1>1, <1>4, <1>5 DEF AcceptInv, Accepting
  <1>7. RelayOffered'
    BY <1>1, <1>3, HeapAssumption DEF StartInv, RelayOffered
  <1>8. StartComes'
    <2> SUFFICES ASSUME NEW i \in CallIds, calls'[i] # None, ent'[calls'[i]].relay, Wanted(calls[i])'
                 PROVE  ent'[calls'[i]].started \/ OnItsWay(i)'
      BY DEF StartComes
    <2>1. i # id
      BY <1>0, <1>1, <1>4
    <2>2. calls'[i] = calls[i] /\ ent'[calls[i]] = ent[calls[i]] /\ calls[i] \in Entries
      BY <1>1, <1>3, <2>1
    <2>3. Wanted(calls[i])
      BY <1>5, <2>2 DEF Wanted, Accepting
    <2>4. ent[calls[i]].started \/ OnItsWay(i)
      BY <2>2, <2>3 DEF StartInv, StartComes
    <2> QED BY <1>5, <2>2, <2>4 DEF OnItsWay, WaysKept
  <1> QED BY <1>6, <1>7, <1>8 DEF StartInv

\* onOffer: an offer brings a relay to a new entry, which nobody has answered, or
\* to one that has it already.
LEMMA OnOfferStarts ==
    ASSUME Inv, StartInv, AcceptInv, NEW id \in CallIds \ OutIds, NEW h \in Handles, OnOffer(id, h)
    PROVE  StartInv' /\ AcceptInv'
  <1>1. PICK e \in Entries :
          /\ e \in IF calls[id] = None THEN FreeEntries ELSE {calls[id]}
          /\ calls' = [calls EXCEPT ![id] = e]
          /\ ent' = [ent EXCEPT ![e].call = h, ![e].direction = "incoming",
                                ![e].relay = @ \/ id \in RelayInOffer]
          /\ Goto("queue", Thread("offered", id, e, h, None, "idle", FALSE))
    <2>1. calls[id] \in Entries \cup {None}
      BY DEF Inv, WellFormed, TypeOK
    <2>2. \A e \in IF calls[id] = None THEN FreeEntries ELSE {calls[id]} : e \in Entries
      BY <2>1 DEF FreeEntries
    <2> QED BY <2>2, Zenon DEF OnOffer
  <1>2. calls \in [CallIds -> Entries \cup {None}] /\ ent[e] \in EntryType
    BY DEF Inv, WellFormed, TypeOK
  <1> DEFINE b == ent[e].relay \/ id \in RelayInOffer
  <1>3. /\ \A f \in Entries : f # e => ent'[f] = ent[f]
        /\ ent'[e] = [ent[e] EXCEPT !.call = h, !.direction = "incoming", !.relay = b]
    BY <1>1 DEF Inv, WellFormed, TypeOK
  <1>4. /\ ent'[e].direction = "incoming" /\ ent'[e].relay = b
        /\ ent'[e].started = ent[e].started /\ ent'[e].acceptPending = ent[e].acceptPending
        /\ ent'[e].acceptSent = ent[e].acceptSent /\ ent'[e].answers = ent[e].answers
        /\ ent'[e].accepts = ent[e].accepts
    <2> HIDE DEF b
    <2> QED BY <1>2, <1>3 DEF EntryType
  <1>5. th'["raw"] = th["raw"] /\ WaysKept
    BY <1>1 DEF OnOffer, Goto, Thread, WaysKept, Inv, WellFormed, TypeOK
  <1>6. AcceptInv'
    BY <1>3, <1>4, <1>5 DEF AcceptInv, Accepting
  <1>7. \A i \in CallIds : i # id /\ calls'[i] # None =>
           calls'[i] = calls[i] /\ calls[i] \in Entries /\ calls[i] # e
    <2> SUFFICES ASSUME NEW i \in CallIds, i # id, calls'[i] # None
                 PROVE  calls'[i] = calls[i] /\ calls[i] \in Entries /\ calls[i] # e
      OBVIOUS
    <2>1. calls'[i] = calls[i] /\ calls[i] \in Entries
      BY <1>1, <1>2
    <2>2. CASE calls[id] = None
      <3>1. ent[e] = FreeEntry
        BY <1>1, <2>2 DEF FreeEntries
      <3> QED BY <2>1, <3>1 DEF Inv, WellFormed, TypeOK, FreeEntry
    <2>3. CASE calls[id] # None
      BY <1>1, <2>1, <2>3 DEF Inv, OwnInv, RegisteredOK
    <2> QED BY <2>1, <2>2, <2>3
  <1>8. RelayOffered'
    <2> SUFFICES ASSUME NEW i \in RelayInOffer \ OutIds, calls'[i] # None
                 PROVE  ent'[calls'[i]].relay
      BY DEF RelayOffered
    <2>1. i \in CallIds
      BY HeapAssumption
    <2>2. CASE i = id
      BY <1>1, <1>2, <1>4, <2>1, <2>2
    <2>3. CASE i # id
      BY <1>3, <1>7, <2>1, <2>3 DEF StartInv, RelayOffered
    <2> QED BY <2>2, <2>3
  <1>9. StartComes'
    <2> SUFFICES ASSUME NEW i \in CallIds, calls'[i] # None, ent'[calls'[i]].relay, Wanted(calls[i])'
                 PROVE  ent'[calls'[i]].started \/ OnItsWay(i)'
      BY DEF StartComes
    <2>1. OnItsWay(i) => OnItsWay(i)'
      BY <1>5 DEF OnItsWay, WaysKept
    <2>2. CASE i # id
      <3>1. calls'[i] = calls[i] /\ ent'[calls[i]] = ent[calls[i]] /\ calls[i] \in Entries
        BY <1>3, <1>7, <2>2
      <3>2. Wanted(calls[i])
        BY <1>5, <3>1 DEF Wanted, Accepting
      <3> QED BY <2>1, <3>1, <3>2 DEF StartInv, StartComes
    <2>3. CASE i = id
      <3>1. calls'[i] = e
        BY <1>1, <1>2, <2>3
      <3>2. ent[e].acceptPending \/ ent[e].acceptSent \/ Accepting(e)
        BY <1>4, <1>5, <3>1 DEF Wanted, Accepting
      <3>3. calls[id] = e
        <4>1. CASE calls[id] = None
          <5>1. ent[e] = FreeEntry
            BY <1>1, <4>1 DEF FreeEntries
          <5>2. Accepting(e)
            BY <3>2, <5>1 DEF FreeEntry
          <5> QED BY <5>1, <5>2 DEF FreeEntry, AcceptInv
        <4> QED BY <1>1, <4>1
      <3>4. ent[e].relay
        BY <1>4, <2>3, <3>1, <3>3, HeapAssumption DEF StartInv, RelayOffered
      <3>5. ent[e].started \/ OnItsWay(i)
        BY <2>3, <3>2, <3>3, <3>4, HeapAssumption DEF StartInv, StartComes, Wanted
      <3> QED BY <1>4, <2>1, <3>1, <3>5
    <2> QED BY <2>2, <2>3
  <1> QED BY <1>6, <1>8, <1>9 DEF StartInv

\* A step of one thread that adds nothing to what is wanted: the entries of other
\* calls and the other threads keep what they have.
LEMMA OthersStart ==
    ASSUME Inv, StartInv, NEW t \in Threads, NEW i \in CallIds,
           \A u \in Threads : u # t => th'[u] = th[u],
           calls[i] # None, calls'[i] = calls[i], FieldsSame(calls[i]),
           ent'[calls[i]].relay, Wanted(calls[i])',
           Accepting(calls[i])' => Accepting(calls[i]),
           th[t].pc \in {"answered", "start"} /\ th[t].id = i =>
              th'[t].pc \in {"answered", "start"} /\ th'[t].id = i
    PROVE  ent'[calls[i]].started \/ OnItsWay(i)'
  <1>1. Wanted(calls[i])
    BY DEF Wanted, FieldsSame
  <1>2. ent[calls[i]].started \/ OnItsWay(i)
    BY <1>1 DEF StartInv, StartComes, FieldsSame
  <1> QED BY <1>2 DEF OnItsWay, FieldsSame

\* Answer goes to maybeStartMedia, and owes the accept it asks for.
LEMMA AnswerStarts ==
    ASSUME Inv, StartInv, AcceptInv, NEW t \in Apps, NEW h \in Handles, Answer(t, h)
    PROVE  StartInv' /\ AcceptInv'
  <1> DEFINE id == hdl[h].id
             e == calls[id]
  <1>0. id \in CallIds /\ t \in Threads /\ t # "raw"
    BY HeapAssumption DEF Answer, Inv, WellFormed, KnownOK
  <1>1. e \in Entries /\ ent[e] \in EntryType
    BY <1>0 DEF Answer, Inv, WellFormed, TypeOK
  <1>2. /\ UNCHANGED calls
        /\ \A f \in Entries : f # e => ent'[f] = ent[f]
        /\ ent'[e] = [ent[e] EXCEPT !.acceptPending = TRUE, !.answers = @ + 1]
        /\ th[t].pc = "idle"
        /\ th'[t] = Thread("answered", id, e, h, None, "idle", FALSE)
        /\ \A u \in Threads : u # t => th'[u] = th[u]
    BY <1>0, <1>1 DEF Answer, Goto, Inv, WellFormed, TypeOK
  <1>3. /\ ent'[e].relay = ent[e].relay /\ ent'[e].started = ent[e].started
        /\ ent'[e].answers = ent[e].answers + 1 /\ ent'[e].accepts = ent[e].accepts
        /\ ent[e].answers \in Nat /\ ent[e].accepts \in Nat
    BY <1>1, <1>2 DEF EntryType
  <1>4. AcceptInv'
    <2>1. th'["raw"] = th["raw"]
      BY <1>0, <1>2
    <2>2. /\ ent[e].accepts <= ent[e].answers
          /\ th["raw"].pc = "accepting" /\ th["raw"].ent = e => ent[e].accepts < ent[e].answers
      BY <1>1 DEF AcceptInv
    <2>3. ASSUME NEW f \in Entries, f # e
          PROVE  /\ ent'[f] = ent[f]
                 /\ ent[f].accepts <= ent[f].answers
                 /\ ent[f].acceptPending => ent[f].accepts < ent[f].answers
                 /\ th["raw"].pc = "accepting" /\ th["raw"].ent = f =>
                       /\ ent[f].accepts < ent[f].answers
                       /\ ent[f].acceptPending => ent[f].accepts + 1 < ent[f].answers
                 /\ Accepting(f) => ent[f].answers > 0
      BY <1>2, <2>3 DEF AcceptInv
    <2>4. /\ ent'[e].accepts < ent'[e].answers /\ ent'[e].answers > 0
          /\ th["raw"].pc = "accepting" /\ th["raw"].ent = e => ent'[e].accepts + 1 < ent'[e].answers
          /\ ent'[e].accepts <= ent'[e].answers
      <3> HIDE DEF e
      <3> QED BY <1>3, <2>2
    <2> HIDE DEF e
    <2> QED BY <2>1, <2>3, <2>4 DEF AcceptInv, Accepting
  <1>5. \A i \in CallIds : calls[i] # None => calls[i] \in Entries
    BY DEF Inv, WellFormed, TypeOK
  <1>6. RelayOffered'
    BY <1>2, <1>3, <1>5, HeapAssumption DEF StartInv, RelayOffered
  <1>7. StartComes'
    <2> SUFFICES ASSUME NEW i \in CallIds, calls'[i] # None, ent'[calls'[i]].relay, Wanted(calls[i])'
                 PROVE  ent'[calls'[i]].started \/ OnItsWay(i)'
      BY DEF StartComes
    <2>1. CASE i = id
      BY <1>0, <1>2, <2>1 DEF OnItsWay, Thread
    <2>2. CASE i # id
      <3>1. calls[i] \in Entries /\ calls[i] # e
        BY <1>0, <1>1, <1>2, <1>5, <2>2 DEF Inv, OwnInv, RegisteredOK
      <3>2. FieldsSame(calls[i]) /\ (Accepting(calls[i])' => Accepting(calls[i]))
        BY <1>0, <1>2, <3>1 DEF FieldsSame, Accepting
      <3> QED BY <1>0, <1>2, <3>2, OthersStart
    <2> QED BY <2>1, <2>2
  <1> QED BY <1>4, <1>6, <1>7 DEF StartInv

\* onRelay goes to maybeStartMedia.
LEMMA OnRelayStarts ==
    ASSUME Inv, StartInv, AcceptInv, NEW t \in Threads, NEW id \in CallIds, NEW ret,
           th[t].pc \notin {"answered", "start"}, OnRelay(t, id, ret)
    PROVE  StartInv' /\ AcceptInv'
  <1> DEFINE e == calls[id]
  <1>1. e \in Entries /\ ent[e] \in EntryType
    BY DEF OnRelay, Inv, WellFormed, TypeOK
  <1>2. /\ UNCHANGED calls
        /\ \A f \in Entries : f # e => ent'[f] = ent[f]
        /\ ent'[e] = [ent[e] EXCEPT !.relay = TRUE]
        /\ th'[t] = Thread("start", id, th[t].ent, None, None, ret, FALSE)
        /\ \A u \in Threads : u # t => th'[u] = th[u]
    BY <1>1 DEF OnRelay, GotoStart, Goto, Inv, WellFormed, TypeOK
  <1>3. /\ ent'[e].relay /\ ent'[e].answers = ent[e].answers
        /\ ent'[e].accepts = ent[e].accepts /\ ent'[e].acceptPending = ent[e].acceptPending
    BY <1>1, <1>2 DEF EntryType
  <1>4. th'["raw"].pc \in {"accepting", "acceptSent"} => th'["raw"] = th["raw"]
    BY <1>2 DEF Thread
  <1>5. AcceptInv'
    BY <1>2, <1>3, <1>4 DEF AcceptInv, Accepting
  <1>6. \A i \in CallIds : calls[i] # None => calls[i] \in Entries
    BY DEF Inv, WellFormed, TypeOK
  <1>7. RelayOffered'
    BY <1>2, <1>3, <1>6, HeapAssumption DEF StartInv, RelayOffered
  <1>8. StartComes'
    <2> SUFFICES ASSUME NEW i \in CallIds, calls'[i] # None, ent'[calls'[i]].relay, Wanted(calls[i])'
                 PROVE  ent'[calls'[i]].started \/ OnItsWay(i)'
      BY DEF StartComes
    <2>1. CASE i = id
      BY <1>2, <2>1 DEF OnItsWay, Thread
    <2>2. CASE i # id
      <3>1. calls[i] \in Entries /\ calls[i] # e
        BY <1>1, <1>2, <1>6, <2>2 DEF Inv, OwnInv, RegisteredOK
      <3>2. FieldsSame(calls[i]) /\ (Accepting(calls[i])' => Accepting(calls[i]))
        BY <1>2, <1>4, <3>1 DEF FieldsSame, Accepting
      <3> QED BY <1>2, <3>2, OthersStart
    <2> QED BY <2>1, <2>2
  <1> QED BY <1>5, <1>7, <1>8 DEF StartInv

\* maybeStartMedia starts the media of its call.
LEMMA StartMediaStarts ==
    ASSUME Inv, StartInv, AcceptInv, NEW t \in Threads, NEW m \in Medias, StartMedia(t, m)
    PROVE  StartInv' /\ AcceptInv'
  <1> DEFINE id == th[t].id
             e == calls[id]
  <1>0. id \in CallIds /\ th[t] \in ThreadType
    BY DEF StartMedia, Inv, WellFormed, TypeOK, ThreadOK
  <1>1. e \in Entries /\ ent[e] \in EntryType
    BY <1>0 DEF StartMedia, CanStart, Inv, WellFormed, TypeOK
  <1>2. /\ UNCHANGED calls
        /\ \A f \in Entries : f # e => ent'[f] = ent[f]
        /\ ent'[e] = [ent[e] EXCEPT !.started = TRUE, !.cancel = m]
        /\ th'[t] = [th[t] EXCEPT !.pc = "launch", !.media = m]
        /\ \A u \in Threads : u # t => th'[u] = th[u]
    BY <1>0, <1>1 DEF StartMedia, Goto, Inv, WellFormed, TypeOK
  <1>3. /\ ent'[e].relay = ent[e].relay /\ ent'[e].started /\ ent'[e].answers = ent[e].answers
        /\ ent'[e].accepts = ent[e].accepts /\ ent'[e].acceptPending = ent[e].acceptPending
    BY <1>1, <1>2 DEF EntryType
  <1>4. th'["raw"].pc \in {"accepting", "acceptSent"} => th'["raw"] = th["raw"]
    <2>1. th'[t].pc = "launch"
      BY <1>0, <1>2 DEF ThreadType
    <2> QED BY <1>2, <2>1
  <1>5. AcceptInv'
    BY <1>2, <1>3, <1>4 DEF AcceptInv, Accepting
  <1>6. \A i \in CallIds : calls[i] # None => calls[i] \in Entries
    BY DEF Inv, WellFormed, TypeOK
  <1>7. RelayOffered'
    BY <1>2, <1>3, <1>6, HeapAssumption DEF StartInv, RelayOffered
  <1>8. StartComes'
    <2> SUFFICES ASSUME NEW i \in CallIds, calls'[i] # None, ent'[calls'[i]].relay, Wanted(calls[i])'
                 PROVE  ent'[calls'[i]].started \/ OnItsWay(i)'
      BY DEF StartComes
    <2>1. CASE i = id
      BY <1>2, <1>3, <2>1
    <2>2. CASE i # id
      <3>1. calls[i] \in Entries /\ calls[i] # e
        BY <1>0, <1>1, <1>2, <1>6, <2>2 DEF Inv, OwnInv, RegisteredOK
      <3>2. FieldsSame(calls[i]) /\ (Accepting(calls[i])' => Accepting(calls[i]))
        BY <1>2, <1>4, <3>1 DEF FieldsSame, Accepting
      <3> QED BY <1>2, <2>2, <3>2, OthersStart
    <2> QED BY <2>1, <2>2
  <1> QED BY <1>5, <1>7, <1>8 DEF StartInv

\* maybeStartMedia returns for a call that is gone, started or without a relay.
LEMMA NotStartedStarts ==
    ASSUME Inv, StartInv, AcceptInv, NEW t \in Threads, NotStarted(t)
    PROVE  StartInv' /\ AcceptInv'
  <1>1. /\ UNCHANGED <<calls, ent>> /\ th'[t] = Return(t)
        /\ \A u \in Threads : u # t => th'[u] = th[u]
    BY DEF NotStarted, Goto, Inv, WellFormed, TypeOK
  <1>2. th'["raw"].pc \in {"accepting", "acceptSent"} => th'["raw"] = th["raw"]
    BY <1>1 DEF Return, Idle, Thread
  <1>3. AcceptInv'
    BY <1>1, <1>2 DEF AcceptInv, Accepting
  <1>4. RelayOffered'
    BY <1>1 DEF StartInv, RelayOffered
  <1>5. StartComes'
    <2> SUFFICES ASSUME NEW i \in CallIds, calls'[i] # None, ent'[calls'[i]].relay, Wanted(calls[i])'
                 PROVE  ent'[calls'[i]].started \/ OnItsWay(i)'
      BY DEF StartComes
    <2>1. CASE i = th[t].id
      BY <1>1, <2>1 DEF NotStarted, CanStart
    <2>2. CASE i # th[t].id
      <3>1. FieldsSame(calls[i]) /\ (Accepting(calls[i])' => Accepting(calls[i]))
        BY <1>1, <1>2 DEF FieldsSame, Accepting
      <3> QED BY <1>1, <2>2, <3>1, OthersStart
    <2> QED BY <2>1, <2>2
  <1> QED BY <1>3, <1>4, <1>5 DEF StartInv

\* finishCall takes the call out of e.calls; what its entry says stays.
LEMMA FinishCallStarts ==
    ASSUME Inv, StartInv, AcceptInv, NEW t \in Threads, NEW id \in CallIds,
           th[t].pc = "idle", FinishCall(t, id)
    PROVE  StartInv' /\ AcceptInv'
  <1> DEFINE e == calls[id]
  <1>1. e \in Entries /\ ent[e] \in EntryType
    BY DEF FinishCall, Inv, WellFormed, TypeOK
  <1>2. /\ calls' = [calls EXCEPT ![id] = None]
        /\ \A f \in Entries : f # e => ent'[f] = ent[f]
        /\ ent'[e] = [ent[e] EXCEPT !.cancel = None]
        /\ th'[t] = Thread("cancel", id, e, ent[e].call, ent[e].cancel, "idle", FALSE)
        /\ \A u \in Threads : u # t => th'[u] = th[u]
    BY <1>1 DEF FinishCall, Goto, Inv, WellFormed, TypeOK
  <1>3. \A f \in Entries : FieldsSame(f)
    BY <1>1, <1>2 DEF EntryType, FieldsSame
  <1>4. th'["raw"].pc \in {"accepting", "acceptSent"} => th'["raw"] = th["raw"]
    BY <1>2 DEF Thread
  <1>5. AcceptInv'
    BY <1>3, <1>4 DEF AcceptInv, Accepting, FieldsSame
  <1>6. \A i \in CallIds : calls'[i] # None => calls'[i] = calls[i] /\ calls[i] \in Entries
    BY <1>2 DEF Inv, WellFormed, TypeOK
  <1>7. RelayOffered'
    BY <1>3, <1>6, HeapAssumption DEF StartInv, RelayOffered, FieldsSame
  <1>8. StartComes'
    <2> SUFFICES ASSUME NEW i \in CallIds, calls'[i] # None, ent'[calls'[i]].relay, Wanted(calls[i])'
                 PROVE  ent'[calls'[i]].started \/ OnItsWay(i)'
      BY DEF StartComes
    <2>1. FieldsSame(calls[i]) /\ calls'[i] = calls[i]
      BY <1>3, <1>6
    <2>2. Accepting(calls[i])' => Accepting(calls[i])
      BY <1>4, <2>1 DEF Accepting
    <2> QED BY <1>2, <2>1, <2>2, OthersStart
  <1> QED BY <1>5, <1>7, <1>8 DEF StartInv

\* sendAccept takes the pending accept: what was wanted stays wanted.
LEMMA OnMuteStarts ==
    ASSUME Inv, StartInv, AcceptInv, NEW id \in CallIds, OnMute(id)
    PROVE  StartInv' /\ AcceptInv'
  <1> DEFINE e == calls[id]
  <1>1. CASE UNCHANGED <<ent, th>>
    <2>1. Plain
      BY <1>1, SameEntries DEF OnMute, Plain, WaysKept, NoNewAccept
    <2> QED BY <2>1, PlainKeeps
  <1>2. CASE /\ e # None /\ ent[e].acceptPending
             /\ ent' = [ent EXCEPT ![e].acceptPending = FALSE]
             /\ Goto("raw", Thread("accepting", id, e, None, None, "idle", FALSE))
    <2>1. e \in Entries /\ ent[e] \in EntryType /\ "raw" \in Threads
      BY <1>2 DEF Inv, WellFormed, TypeOK
    <2>2. /\ UNCHANGED calls /\ th["raw"].pc = "idle"
          /\ \A f \in Entries : f # e => ent'[f] = ent[f]
          /\ ent'[e] = [ent[e] EXCEPT !.acceptPending = FALSE]
          /\ th'["raw"] = Thread("accepting", id, e, None, None, "idle", FALSE)
          /\ \A u \in Threads : u # "raw" => th'[u] = th[u]
      BY <1>2, <2>1 DEF OnMute, Goto, Inv, WellFormed, TypeOK
    <2>3. /\ ~ent'[e].acceptPending /\ ent'[e].relay = ent[e].relay
          /\ ent'[e].started = ent[e].started /\ ent'[e].answers = ent[e].answers
          /\ ent'[e].accepts = ent[e].accepts
          /\ ent[e].answers \in Nat /\ ent[e].accepts \in Nat
      BY <2>1, <2>2 DEF EntryType
    <2>4. th'["raw"].pc = "accepting" /\ th'["raw"].ent = e
      BY <2>2 DEF Thread
    <2>5. ent[e].accepts < ent[e].answers
      BY <1>2, <2>1 DEF AcceptInv
    <2>6. ent[e].answers > 0 /\ ent[e].accepts <= ent[e].answers
      <3> HIDE DEF e
      <3> QED BY <2>3, <2>5
    <2>7. AcceptInv'
      <3> HIDE DEF e
      <3> QED BY <2>2, <2>3, <2>4, <2>5, <2>6 DEF AcceptInv, Accepting
    <2>8. \A i \in CallIds : calls[i] # None => calls[i] \in Entries
      BY DEF Inv, WellFormed, TypeOK
    <2>9. RelayOffered'
      BY <2>2, <2>3, <2>8, HeapAssumption DEF StartInv, RelayOffered
    <2>10. StartComes'
      <3> SUFFICES ASSUME NEW i \in CallIds, calls'[i] # None, ent'[calls'[i]].relay, Wanted(calls[i])'
                   PROVE  ent'[calls'[i]].started \/ OnItsWay(i)'
        BY DEF StartComes
      <3>1. CASE i = id
        <4>1. ent[e].started \/ OnItsWay(id)
          BY <1>2, <2>2, <2>3, <3>1 DEF StartInv, StartComes, Wanted
        <4>2. OnItsWay(id) => OnItsWay(id)'
          BY <2>2 DEF OnItsWay
        <4> QED BY <2>2, <2>3, <3>1, <4>1, <4>2
      <3>2. CASE i # id
        <4>1. calls[i] \in Entries /\ calls[i] # e
          BY <2>1, <2>2, <2>8, <3>2, <1>2 DEF Inv, OwnInv, RegisteredOK
        <4>2. FieldsSame(calls[i]) /\ (Accepting(calls[i])' => Accepting(calls[i]))
          BY <2>2, <2>4, <4>1 DEF FieldsSame, Accepting
        <4> QED BY <2>1, <2>2, <4>2, OthersStart
      <3> QED BY <3>1, <3>2
    <2> QED BY <2>7, <2>9, <2>10 DEF StartInv
  <1> QED BY <1>1, <1>2 DEF OnMute

\* sendAccept transmits, or fails and owes nothing any more.
LEMMA SendAcceptStarts ==
    ASSUME Inv, StartInv, AcceptInv, SendAccept
    PROVE  StartInv' /\ AcceptInv'
  <1> DEFINE e == th["raw"].ent
             a == [th["raw"] EXCEPT !.pc = "acceptSent"]
  <1>0. /\ "raw" \in Threads /\ th["raw"] \in ThreadType /\ th["raw"].pc = "accepting"
        /\ UNCHANGED calls
        /\ \A i \in CallIds : calls[i] # None => calls[i] \in Entries
    BY DEF SendAccept, Inv, WellFormed, TypeOK
  <1>1. CASE Goto("raw", Idle) /\ UNCHANGED ent
    <2>1. Plain
      BY <1>0, <1>1, SameEntries, PlainMove DEF Idle
    <2> QED BY <2>1, PlainKeeps
  <1>2. CASE ent' = [ent EXCEPT ![e].accepts = @ + 1] /\ Goto("raw", a)
    <2>1. /\ th'["raw"] = a /\ a.pc = "acceptSent" /\ a.ent = e
          /\ \A u \in Threads : u # "raw" => th'[u] = th[u]
      BY <1>0, <1>2 DEF Goto, ThreadType, Inv, WellFormed, TypeOK
    <2>2. \A f \in Entries :
             /\ ent'[f].direction = ent[f].direction /\ ent'[f].relay = ent[f].relay
             /\ ent'[f].started = ent[f].started /\ ent'[f].acceptPending = ent[f].acceptPending
             /\ ent'[f].acceptSent = ent[f].acceptSent /\ ent'[f].answers = ent[f].answers
             /\ ent'[f].accepts = IF f = e THEN ent[f].accepts + 1 ELSE ent[f].accepts
             /\ ent[f].answers \in Nat /\ ent[f].accepts \in Nat
      <3> SUFFICES ASSUME NEW f \in Entries
                   PROVE  /\ ent'[f].direction = ent[f].direction /\ ent'[f].relay = ent[f].relay
                          /\ ent'[f].started = ent[f].started
                          /\ ent'[f].acceptPending = ent[f].acceptPending
                          /\ ent'[f].acceptSent = ent[f].acceptSent
                          /\ ent'[f].answers = ent[f].answers
                          /\ ent'[f].accepts = IF f = e THEN ent[f].accepts + 1 ELSE ent[f].accepts
                          /\ ent[f].answers \in Nat /\ ent[f].accepts \in Nat
        OBVIOUS
      <3>1. ent[f] \in EntryType
        BY DEF Inv, WellFormed, TypeOK
      <3>2. ent'[f] = IF f = e THEN [ent[f] EXCEPT !.accepts = @ + 1] ELSE ent[f]
        BY <1>2 DEF Inv, WellFormed, TypeOK
      <3> HIDE DEF e
      <3> QED BY <3>1, <3>2 DEF EntryType
    <2>3. AcceptInv'
      <3> SUFFICES ASSUME NEW f \in Entries
                   PROVE  /\ ent'[f].accepts <= ent'[f].answers
                          /\ ent'[f].acceptPending => ent'[f].accepts < ent'[f].answers
                          /\ Accepting(f)' => ent'[f].answers > 0
        BY <2>1 DEF AcceptInv
      <3>1. CASE f = e
        <4>1. /\ ent[f].accepts < ent[f].answers
              /\ ent[f].acceptPending => ent[f].accepts + 1 < ent[f].answers
              /\ ent[f].answers > 0
          BY <1>0, <3>1 DEF AcceptInv, Accepting
        <4> HIDE DEF e, a
        <4> QED BY <2>2, <3>1, <4>1
      <3>2. CASE f # e
        BY <2>1, <2>2, <3>2 DEF AcceptInv, Accepting
      <3> QED BY <3>1, <3>2
    <2>4. RelayOffered'
      BY <1>0, <2>2, HeapAssumption DEF StartInv, RelayOffered
    <2>5. \A f \in Entries : Wanted(f)' => Wanted(f)
      BY <1>0, <2>1, <2>2 DEF Wanted, Accepting
    <2>6. \A i \in CallIds : OnItsWay(i) => OnItsWay(i)'
      BY <1>0, <2>1 DEF OnItsWay
    <2>7. StartComes'
      BY <1>0, <2>2, <2>5, <2>6 DEF StartInv, StartComes
    <2> QED BY <2>3, <2>4, <2>7 DEF StartInv
  <1> QED BY <1>0, <1>1, <1>2 DEF SendAccept

\* ... and says so in the entry, if that is still registered.
LEMMA AcceptSentStarts ==
    ASSUME Inv, StartInv, AcceptInv, AcceptSent
    PROVE  StartInv' /\ AcceptInv'
  <1> DEFINE e == th["raw"].ent
  <1>0. /\ "raw" \in Threads /\ th["raw"] \in ThreadType /\ th["raw"].pc = "acceptSent"
        /\ UNCHANGED calls
        /\ \A i \in CallIds : calls[i] # None => calls[i] \in Entries
    BY DEF AcceptSent, Inv, WellFormed, TypeOK
  <1>1. th'["raw"].pc = "idle" /\ \A u \in Threads : u # "raw" => th'[u] = th[u]
    BY <1>0 DEF AcceptSent, Goto, Idle, Inv, WellFormed, TypeOK
  <1>2. \A f \in Entries :
           /\ ent'[f].direction = ent[f].direction /\ ent'[f].relay = ent[f].relay
           /\ ent'[f].started = ent[f].started /\ ent'[f].acceptPending = ent[f].acceptPending
           /\ ent'[f].acceptSent => ent[f].acceptSent \/ f = e
           /\ ent'[f].answers = ent[f].answers /\ ent'[f].accepts = ent[f].accepts
    <2> SUFFICES ASSUME NEW f \in Entries
                 PROVE  /\ ent'[f].direction = ent[f].direction /\ ent'[f].relay = ent[f].relay
                        /\ ent'[f].started = ent[f].started
                        /\ ent'[f].acceptPending = ent[f].acceptPending
                        /\ ent'[f].acceptSent => ent[f].acceptSent \/ f = e
                        /\ ent'[f].answers = ent[f].answers /\ ent'[f].accepts = ent[f].accepts
      OBVIOUS
    <2>1. ent[f] \in EntryType
      BY DEF Inv, WellFormed, TypeOK
    <2>2. ent'[f] = ent[f] \/ (f = e /\ ent'[f] = [ent[f] EXCEPT !.acceptSent = TRUE])
      BY DEF AcceptSent, Inv, WellFormed, TypeOK
    <2> HIDE DEF e
    <2> QED BY <2>1, <2>2 DEF EntryType
  <1>3. AcceptInv'
    BY <1>1, <1>2 DEF AcceptInv, Accepting
  <1>4. RelayOffered'
    BY <1>0, <1>2, HeapAssumption DEF StartInv, RelayOffered
  <1>5. \A f \in Entries : Wanted(f)' => Wanted(f)
    BY <1>0, <1>1, <1>2 DEF Wanted, Accepting
  <1>6. \A i \in CallIds : OnItsWay(i) => OnItsWay(i)'
    BY <1>0, <1>1 DEF OnItsWay
  <1>7. StartComes'
    BY <1>0, <1>2, <1>5, <1>6 DEF StartInv, StartComes
  <1> QED BY <1>3, <1>4, <1>7 DEF StartInv

\* Every step of the engine keeps both invariants.
LEMMA NextStarts == Inv /\ StartInv /\ AcceptInv /\ [Next]_vars => StartInv' /\ AcceptInv'
  <1> SUFFICES ASSUME Inv, StartInv, AcceptInv, [Next]_vars PROVE StartInv' /\ AcceptInv'
    OBVIOUS
  <1>1. CASE UserStep
    <2>1. PICK t \in Apps :
             \/ \E id \in OutIds, h \in Handles, e \in Entries : PlaceCall(t, id, h, e)
             \/ \E h \in Handles : Answer(t, h) \/ Hangup(t, h)
      BY <1>1 DEF UserStep
    <2>2. ASSUME NEW h \in Handles, Hangup(t, h) PROVE StartInv' /\ AcceptInv'
      <3>1. hdl[h].id \in CallIds /\ th[t].pc = "idle" /\ FinishCall(t, hdl[h].id)
        BY <2>2 DEF Hangup, Inv, WellFormed, KnownOK
      <3> QED BY <3>1, FinishCallStarts
    <2> QED BY <2>1, <2>2, PlaceCallStarts, AnswerStarts
  <1>2. CASE StanzaStep
    <2>1. ASSUME NEW t \in {"raw", "queue"}, NEW id \in CallIds, RelayStanza(t, id) \/ EndStanza(t, id)
          PROVE  StartInv' /\ AcceptInv'
      <3>1. CASE RelayStanza(t, id)
        BY <3>1, OnRelayStarts DEF RelayStanza
      <3>2. CASE EndStanza(t, id)
        BY <3>2, FinishCallStarts DEF EndStanza
      <3> QED BY <2>1, <3>1, <3>2
    <2>2. ASSUME NEW id \in CallIds, NEW w \in BOOLEAN, OnPreAccept(id, w) \/ OnAccept(id, w)
          PROVE  StartInv' /\ AcceptInv'
      BY <2>2, PlainOthers, PlainKeeps
    <2>3. ASSUME NEW id \in CallIds \ OutIds, OnMute(id) \/ \E h \in Handles : OnOffer(id, h)
          PROVE  StartInv' /\ AcceptInv'
      BY <2>3, OnMuteStarts, OnOfferStarts
    <2> QED BY <1>2, <2>1, <2>2, <2>3 DEF StanzaStep
  <1>3. ASSUME NEW t \in Threads, ThreadStep(t) PROVE StartInv' /\ AcceptInv'
    <2>1. CASE \/ SendOffer(t) \/ AnswerPhase(t) \/ CancelMedia(t) \/ EndCall(t) \/ LaunchMedia(t)
               \/ t = "queue" /\ (Offered \/ PreAcceptPhase \/ AcceptReadPhase \/ AcceptPhase)
               \/ NestedRelay(t) /\ calls[th[t].id] = None
      BY <2>1, PlainThreads, PlainKeeps
    <2>2. CASE NestedRelay(t) /\ calls[th[t].id] # None
      <3>1. OnRelay(t, th[t].id, th[t].ret) /\ th[t].pc = "relay" /\ th[t].id \in CallIds
        BY <2>2 DEF NestedRelay, Inv, WellFormed, ThreadOK
      <3> QED BY <3>1, OnRelayStarts
    <2>3. CASE NotStarted(t) \/ \E m \in Medias : StartMedia(t, m)
      BY <2>3, NotStartedStarts, StartMediaStarts
    <2>4. CASE SendAccept \/ AcceptSent
      BY <2>4, SendAcceptStarts, AcceptSentStarts
    <2> QED BY <1>3, <2>1, <2>2, <2>3, <2>4 DEF ThreadStep
  <1>4. CASE (\E m \in Medias : MediaLoop(m)) \/ UNCHANGED vars
    BY <1>4, PlainOthers, PlainKeeps
  <1> QED BY <1>1, <1>2, <1>3, <1>4 DEF Next

\* In every behaviour of the engine both invariants hold.
LEMMA StartInvariance == Spec => [](StartInv /\ AcceptInv)
  <1>1. Init => StartInv /\ AcceptInv
    <2> SUFFICES ASSUME Init PROVE StartInv /\ AcceptInv
      OBVIOUS
    <2>1. /\ \A id \in CallIds : calls[id] = None
          /\ th["raw"].pc = "idle"
          /\ \A e \in Entries : /\ ent[e].accepts = 0 /\ ent[e].answers = 0
                                /\ ent[e].acceptPending = FALSE
      BY DEF Init, Idle, FreeEntry
    <2> QED BY <2>1, HeapAssumption DEF StartInv, RelayOffered, StartComes, AcceptInv, Accepting
  <1> QED BY <1>1, NextStarts, Invariance, PTL DEF Spec

\* Once key and relay are known and the call is placed or answered, no order of
\* offers, answers, relay stanzas and acks on the three kinds of threads leaves
\* maybeStartMedia with its media not started, for any number of inputs.
THEOREM StartIsNotLost == Spec => []NoLostStart
  <1>1. StartInv => NoLostStart
    <2> SUFFICES ASSUME StartInv, Quiet, NEW id \in CallIds, calls[id] # None,
                        ent[calls[id]].relay,
                        \/ ent[calls[id]].direction = "outgoing"
                        \/ ent[calls[id]].acceptPending
                        \/ ent[calls[id]].acceptSent
                 PROVE  ent[calls[id]].started
      BY DEF NoLostStart
    <2>1. Wanted(calls[id])
      BY DEF Wanted
    <2>2. ~OnItsWay(id)
      BY DEF OnItsWay, Quiet
    <2> QED BY <2>1, <2>2 DEF StartInv, StartComes
  <1> QED BY <1>1, StartInvariance, PTL

\* sendAccept never puts more accepts on the wire than Answer was called, in
\* whatever order mute_v2 stanzas and Answers come.
THEOREM AcceptsCounted == Spec => []AcceptPerAnswer
  <1>1. AcceptInv => AcceptPerAnswer
    BY DEF AcceptInv, AcceptPerAnswer
  <1> QED BY <1>1, StartInvariance, PTL
===============================================================================
