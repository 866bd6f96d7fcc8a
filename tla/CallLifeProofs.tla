---------------------------- MODULE CallLifeProofs ----------------------------
(***************************************************************************)
(* CallEngine implements CallLife, for every number of calls, handles,     *)
(* media goroutines and threads.                                           *)
(***************************************************************************)
EXTENDS CallEngineProofs

\* A cancel handle, in an entry or taken over by finishCall, is that of a media
\* goroutine that was started.
HeldExists ==
    /\ \A e \in Entries : ent[e].cancel # None => media[ent[e].cancel].st # "none"
    /\ \A t \in Threads : th[t].pc = "cancel" /\ th[t].media # None =>
          media[th[t].media].st # "none"

\* The steps that CallLife can see, and FinishCall, which prepares two of them.
Visible ==
    \/ \E t \in Threads, id \in CallIds, h \in Handles, e \in Entries : Register(t, id, h, e)
    \/ \E t \in Threads, id \in CallIds : th[t].pc = "idle" /\ FinishCall(t, id)
    \/ \E t \in Threads : CancelMedia(t) \/ EndCall(t) \/ \E m \in Medias : StartMedia(t, m)
-------------------------------------------------------------------------------
USE DEF Threads

\* Every step is one of these or moves nothing that CallLife can see.
LEMMA StepKinds == Inv /\ [Next]_vars => Silent \/ Visible
  <1> SUFFICES ASSUME Inv, [Next]_vars PROVE Silent \/ Visible
    OBVIOUS
  <1> USE DEF Inv
  <1>1. CASE UserStep
    <2>1. PICK t \in Apps :
             \/ \E id \in OutIds, h \in Handles, e \in Entries : PlaceCall(t, id, h, e)
             \/ \E h \in Handles : Answer(t, h) \/ Hangup(t, h)
      BY <1>1 DEF UserStep
    <2>2. t \in Threads
      OBVIOUS
    <2>3. ASSUME NEW id \in OutIds, NEW h \in Handles, NEW e \in Entries, PlaceCall(t, id, h, e)
          PROVE  Visible
      <3>1. id \in CallIds
        BY HeapAssumption
      <3>2. Register(t, id, h, e)
        BY <2>3, PlaceCallRegisters
      <3> QED BY <2>2, <3>1, <3>2 DEF Visible
    <2>4. ASSUME NEW h \in Handles, Answer(t, h) PROVE Silent
      BY <2>4, SilentAnswer
    <2>5. ASSUME NEW h \in Handles, Hangup(t, h) PROVE Visible
      BY <2>2, <2>5 DEF Hangup, WellFormed, KnownOK, Visible
    <2> QED BY <2>1, <2>3, <2>4, <2>5
  <1>2. CASE StanzaStep
    <2>1. ASSUME NEW id \in CallIds, NEW h \in Handles, OnOffer(id, h) PROVE Visible
      BY <2>1, OnOfferRegisters DEF Visible
    <2>2. ASSUME NEW t \in {"raw", "queue"}, NEW id \in CallIds, EndStanza(t, id) PROVE Visible
      BY <2>2 DEF EndStanza, Visible
    <2>3. ASSUME NEW id \in CallIds,
                 \/ \E t \in {"raw", "queue"} : RelayStanza(t, id)
                 \/ \E w \in BOOLEAN : OnPreAccept(id, w) \/ OnAccept(id, w)
                 \/ OnMute(id)
          PROVE  Silent
      BY <2>3, SilentStanzas
    <2> QED BY <1>2, <2>1, <2>2, <2>3 DEF StanzaStep
  <1>3. ASSUME NEW t \in Threads, ThreadStep(t) PROVE Silent \/ Visible
    <2>1. CASE CancelMedia(t) \/ EndCall(t) \/ \E m \in Medias : StartMedia(t, m)
      BY <2>1 DEF Visible
    <2>2. CASE LaunchMedia(t)
      BY <2>2, SilentLaunch DEF OwnInv
    <2>3. CASE \/ SendOffer(t) \/ AnswerPhase(t) \/ NotStarted(t)
               \/ t = "queue" /\ (Offered \/ PreAcceptPhase \/ AcceptReadPhase \/ AcceptPhase)
      BY <2>3, SilentThreadSteps
    <2>4. CASE NestedRelay(t)
      BY <2>4, SilentNestedRelay
    <2>5. CASE SendAccept \/ AcceptSent
      BY <2>5, SilentAnswer
    <2> QED BY <1>3, <2>1, <2>2, <2>3, <2>4, <2>5 DEF ThreadStep
  <1>4. CASE \E m \in Medias : MediaLoop(m)
    BY <1>4, SilentMedia
  <1>5. CASE UNCHANGED vars
    <2>1. EntStep /\ HdlStep /\ MediaOnlyStep /\ RestStep /\ UNCHANGED th
      BY <1>5, Unchanged DEF vars
    <2> QED BY <2>1, SilentStay
  <1> QED BY <1>1, <1>2, <1>3, <1>4, <1>5 DEF Next
-------------------------------------------------------------------------------
(* What the visible steps do *)

\* finishCall moves the cancel handle and changes neither Calls nor goroutines.
LEMMA FinishCallDoes ==
    ASSUME Inv, NEW t \in Threads, NEW id \in CallIds, FinishCall(t, id)
    PROVE  /\ calls[id] \in Entries
           /\ \A e \in Entries : ent'[e].cancel = IF e = calls[id] THEN None ELSE ent[e].cancel
           /\ th'[t].media = ent[calls[id]].cancel
           /\ \A u \in Threads : u # t => th'[u] = th[u]
           /\ UNCHANGED <<hdl, media>>
  <1>1. calls[id] \in Entries
    BY DEF FinishCall, Inv, WellFormed, TypeOK
  <1>2. \A e \in Entries : ent'[e].cancel = IF e = calls[id] THEN None ELSE ent[e].cancel
    <2> SUFFICES ASSUME NEW e \in Entries
                 PROVE  ent'[e].cancel = IF e = calls[id] THEN None ELSE ent[e].cancel
      OBVIOUS
    <2>1. ent[e] \in EntryType
      BY DEF Inv, WellFormed, TypeOK
    <2>2. ent'[e] = IF e = calls[id] THEN [ent[e] EXCEPT !.cancel = None] ELSE ent[e]
      BY DEF FinishCall, Inv, WellFormed, TypeOK
    <2> QED BY <2>1, <2>2 DEF EntryType
  <1>3. /\ th'[t].media = ent[calls[id]].cancel
        /\ \A u \in Threads : u # t => th'[u] = th[u]
    BY DEF FinishCall, Goto, Thread, Inv, WellFormed, TypeOK
  <1> QED BY <1>1, <1>2, <1>3 DEF FinishCall

\* finishCall cancels the goroutine whose handle it holds, and no other.
LEMMA CancelMediaDoes ==
    ASSUME Inv, NEW t \in Threads, CancelMedia(t)
    PROVE  /\ \A m \in Medias :
                 /\ media'[m].st = media[m].st /\ media'[m].call = media[m].call
                 /\ media'[m].cancelled = (media[m].cancelled \/ m = th[t].media)
           /\ th'[t].pc = "end" /\ \A u \in Threads : u # t => th'[u] = th[u]
           /\ th[t].media \in Medias \cup {None}
           /\ UNCHANGED <<ent, hdl>>
  <1>1. ASSUME NEW m \in Medias
        PROVE  /\ media'[m].st = media[m].st /\ media'[m].call = media[m].call
               /\ media'[m].cancelled = (media[m].cancelled \/ m = th[t].media)
    <2>1. media[m] \in MediaType
      BY DEF Inv, WellFormed, TypeOK
    <2>2. CASE m = th[t].media
      <3>1. media'[m] = [media[m] EXCEPT !.cancelled = TRUE]
        BY <2>2, HeapAssumption DEF CancelMedia, Inv, WellFormed, TypeOK
      <3> QED BY <2>1, <2>2, <3>1 DEF MediaType
    <2>3. CASE m # th[t].media
      <3>1. media'[m] = media[m]
        BY <2>3 DEF CancelMedia, Inv, WellFormed, TypeOK
      <3> QED BY <2>1, <2>3, <3>1 DEF MediaType
    <2> QED BY <2>2, <2>3
  <1>2. th[t] \in ThreadType
    BY DEF Inv, WellFormed, TypeOK
  <1>3. th'[t].pc = "end" /\ \A u \in Threads : u # t => th'[u] = th[u]
    BY <1>2 DEF CancelMedia, Goto, ThreadType, Inv, WellFormed, TypeOK
  <1>4. th[t].media \in Medias \cup {None}
    BY <1>2 DEF ThreadType
  <1> QED BY <1>1, <1>3, <1>4 DEF CancelMedia

\* finishCall sets the end of one Call.
LEMMA EndCallDoes ==
    ASSUME Inv, NEW t \in Threads, EndCall(t)
    PROVE  /\ th[t].pc = "end" /\ th[t].call \in Handles /\ hdl[th[t].call].id \in CallIds
           /\ \A g \in Handles :
                 /\ hdl'[g].id = hdl[g].id
                 /\ g # th[t].call => hdl'[g].onEnd = hdl[g].onEnd
           /\ hdl[th[t].call].onEnd = 0 /\ hdl'[th[t].call].onEnd \in {0, 1}
           /\ th'[t] = Idle /\ \A u \in Threads : u # t => th'[u] = th[u]
           /\ UNCHANGED <<ent, media>>
  <1> DEFINE h == th[t].call
  <1>1. th[t].pc = "end" /\ h \in Handles /\ hdl[h].id \in CallIds /\ hdl[h].onEnd = 0
    BY DEF EndCall, Inv, EndInv, HandlesUsed, EndingOK, Ending
  <1>2. hdl[h] \in HandleType
    BY <1>1 DEF Inv, WellFormed, TypeOK
  <1>3. \A g \in Handles : g # h => hdl'[g] = hdl[g]
    BY DEF EndCall, Inv, WellFormed, TypeOK
  <1>4. hdl'[h].id = hdl[h].id /\ hdl'[h].onEnd \in {0, 1}
    <2>1. \/ hdl'[h] = hdl[h]
          \/ hdl'[h] = [hdl[h] EXCEPT !.phase = "ended", !.onEnd = @ + 1]
      BY <1>1 DEF EndCall, Inv, WellFormed, TypeOK
    <2>2. CASE hdl'[h] = hdl[h]
      BY <1>1, <2>2
    <2>3. CASE hdl'[h] = [hdl[h] EXCEPT !.phase = "ended", !.onEnd = @ + 1]
      <3>1. hdl'[h].id = hdl[h].id /\ hdl'[h].onEnd = hdl[h].onEnd + 1
        BY <1>2, <2>3, EndedHandle
      <3> QED BY <1>1, <3>1
    <2> QED BY <2>1, <2>2, <2>3
  <1>5. th'[t] = Idle /\ \A u \in Threads : u # t => th'[u] = th[u]
    BY DEF EndCall, Goto, Inv, WellFormed, TypeOK
  <1> QED BY <1>1, <1>3, <1>4, <1>5 DEF EndCall

\* maybeStartMedia of thread t starts m for the Call of entry e.
Starts(t, m, id, e) ==
    /\ calls[id] = e /\ ent[e].call \in Handles /\ hdl[ent[e].call].id = id
    /\ ~ent[e].started
    /\ ent'[e].cancel = m /\ \A f \in Entries : f # e => ent'[f] = ent[f]
    /\ media[m] = FreeMedia
    /\ media'[m].st = "pending" /\ media'[m].call = ent[e].call
    /\ media'[m].cancelled = FALSE
    /\ \A n \in Medias : n # m => media'[n] = media[n]
    /\ th'[t].pc = "launch" /\ \A u \in Threads : u # t => th'[u] = th[u]
    /\ UNCHANGED hdl

\* maybeStartMedia makes one goroutine, for the Call of its entry.
LEMMA StartMediaDoes ==
    ASSUME Inv, NEW t \in Threads, NEW m \in Medias, StartMedia(t, m)
    PROVE  \E e \in Entries, id \in CallIds : Starts(t, m, id, e)
  <1> DEFINE id == th[t].id
             e == calls[id]
  <1>1. id \in CallIds /\ th[t] \in ThreadType
    BY DEF StartMedia, Inv, WellFormed, TypeOK, ThreadOK
  <1>2. e # None /\ ~ent[e].started /\ media[m] = FreeMedia
    BY DEF StartMedia, CanStart, FreeMedias
  <1>3. e \in Entries /\ ent[e].call \in Handles /\ hdl[ent[e].call].id = id
    BY <1>1, <1>2, RegisteredFacts DEF Inv
  <1>4. ent'[e].cancel = m /\ \A f \in Entries : f # e => ent'[f] = ent[f]
    <2>1. /\ ent'[e] = [ent[e] EXCEPT !.started = TRUE, !.cancel = m]
          /\ \A f \in Entries : f # e => ent'[f] = ent[f]
      BY <1>3 DEF StartMedia, Inv, WellFormed, TypeOK
    <2>2. ent[e] \in EntryType
      BY <1>3 DEF Inv, WellFormed, TypeOK
    <2> QED BY <2>1, <2>2 DEF EntryType
  <1>5. /\ media'[m].st = "pending" /\ media'[m].call = ent[e].call
        /\ media'[m].cancelled = FALSE
        /\ \A n \in Medias : n # m => media'[n] = media[n]
    BY DEF StartMedia, FreeMedia, Inv, WellFormed, TypeOK
  <1>6. th'[t].pc = "launch" /\ \A u \in Threads : u # t => th'[u] = th[u]
    BY <1>1 DEF StartMedia, Goto, ThreadType, Inv, WellFormed, TypeOK
  <1>7. UNCHANGED hdl
    BY DEF StartMedia
  <1> HIDE DEF e, id
  <1>8. calls[id] = e
    BY DEF e
  <1> QED BY <1>1, <1>2, <1>3, <1>4, <1>5, <1>6, <1>7, <1>8 DEF Starts
-------------------------------------------------------------------------------
(* The refinement *)

\* No cancel handle exists at the start.
LEMMA InitHeld == Init => HeldExists
  BY DEF Init, HeldExists, FreeEntry, Idle

\* Every cancel handle in an entry or in the hands of finishCall is that of a started goroutine.
LEMMA NextHeld == Inv /\ HeldExists /\ [Next]_vars => HeldExists'
  <1> SUFFICES ASSUME Inv, HeldExists, [Next]_vars PROVE HeldExists'
    OBVIOUS
  <1> USE DEF HeldExists
  <1>0. /\ \A e \in Entries : ent[e].cancel \in Medias \cup {None}
        /\ \A t \in Threads : th[t].media \in Medias \cup {None}
    BY DEF Inv, WellFormed, TypeOK, EntryType, ThreadType
  <1>1. CASE Silent
    <2>1. \A e \in Entries : ent'[e].cancel = ent[e].cancel
      BY <1>1 DEF Silent, EntriesKept
    <2>2. \A m \in Medias : media'[m].st = "none" <=> media[m].st = "none"
      BY <1>1 DEF Silent, MediasKept
    <2>3. \A t \in Threads : th'[t] = th[t] \/ th'[t].pc # "cancel"
      BY <1>1 DEF Silent, ThreadsKept
    <2> QED BY <1>0, <2>1, <2>2, <2>3
  <1>2. ASSUME NEW t \in Threads, NEW id \in CallIds, NEW h \in Handles, NEW e \in Entries,
               Register(t, id, h, e)
        PROVE  HeldExists'
    <2>1. \A f \in Entries : ent'[f].cancel = ent[f].cancel
      BY <1>2 DEF Register
    <2>2. \A u \in Threads : th'[u] = th[u] \/ th'[u].pc # "cancel"
      BY <1>2 DEF Register
    <2>3. UNCHANGED media
      BY <1>2 DEF Register
    <2> QED BY <2>1, <2>2, <2>3
  <1>3. ASSUME NEW t \in Threads, NEW id \in CallIds, FinishCall(t, id) PROVE HeldExists'
    BY <1>3, FinishCallDoes
  <1>4. ASSUME NEW t \in Threads, CancelMedia(t) PROVE HeldExists'
    BY <1>0, <1>4, CancelMediaDoes
  <1>5. ASSUME NEW t \in Threads, EndCall(t) PROVE HeldExists'
    BY <1>5, EndCallDoes DEF Idle
  <1>6. ASSUME NEW t \in Threads, NEW m \in Medias, StartMedia(t, m) PROVE HeldExists'
    <2>1. PICK e \in Entries, id \in CallIds : Starts(t, m, id, e)
      BY <1>6, StartMediaDoes
    <2>2. \A n \in Medias : media[n].st # "none" => media'[n].st # "none"
      BY <2>1 DEF Starts, FreeMedia
    <2>3. \A f \in Entries : ent'[f].cancel = ent[f].cancel \/ ent'[f].cancel = m
      BY <2>1 DEF Starts
    <2>4. media'[m].st # "none" /\ \A u \in Threads : th'[u] = th[u] \/ th'[u].pc # "cancel"
      BY <2>1 DEF Starts
    <2> QED BY <1>0, <2>2, <2>3, <2>4
  <1> QED BY <1>1, <1>2, <1>3, <1>4, <1>5, <1>6, StepKinds DEF Visible

\* Nothing lives in the initial state.
LEMMA InitMaps == Init => CL!Init
  BY DEF Init, CL!Init, Life, FreeHandle, FreeMedia

\* What an entry's Call is to CallLife, and what runs for it.
LEMMA MediaOfHandle ==
    ASSUME Inv, NEW h \in Handles, NEW m \in Medias, media[m].call = h
    PROVE  media[m].st # "none"
  BY HeapAssumption DEF Inv, FreeMediaOK

\* A step that keeps ids, ends and owners is a stutter of CallLife.
LEMMA KeptIsStutter ==
    ASSUME \A h \in Handles : hdl'[h].id = hdl[h].id /\ hdl'[h].onEnd = hdl[h].onEnd,
           \A m \in Medias : /\ media'[m].call = media[m].call
                              /\ media'[m].cancelled = media[m].cancelled
    PROVE  UNCHANGED CL!vars
  BY DEF CL!vars, Life

\* placeCall and onOffer begin an abstract call.
LEMMA RegisterMaps ==
    ASSUME Inv, NEW t \in Threads, NEW id \in CallIds, NEW h \in Handles, NEW e \in Entries,
           Register(t, id, h, e)
    PROVE  CL!Begin(h)
  <1>1. Life(h) = "none" /\ Life(h)' = "live"
    BY HeapAssumption DEF Register, Life
  <1>2. \A g \in Handles : g # h => Life(g)' = Life(g)
    BY DEF Register, Life
  <1> QED BY <1>1, <1>2 DEF Register, CL!Begin

\* maybeStartMedia starts abstract media.
LEMMA StartMediaMaps ==
    ASSUME Inv, NEW t \in Threads, NEW m \in Medias, StartMedia(t, m)
    PROVE  \E h \in Handles : CL!Start(m, h)
  <1>1. PICK e \in Entries, id \in CallIds : Starts(t, m, id, e)
    BY StartMediaDoes
  <1>2. PICK h \in Handles : h = ent[e].call
    BY <1>1 DEF Starts
  <1>3. calls[id] = e /\ e # None /\ hdl[h].id = id /\ ~ent[e].started
    BY <1>1, <1>2, HeapAssumption DEF Starts
  <1>4. Life(h) = "live"
    <2>1. hdl[h].id # None
      BY <1>3, HeapAssumption
    <2>2. hdl[h].onEnd = 0
      BY <1>2, <1>3 DEF Inv, EndInv, EndedOK
    <2> QED BY <2>1, <2>2 DEF Life
  <1>5. \A n \in Medias : media[n].call = h => media[n].cancelled
    <2> SUFFICES ASSUME NEW n \in Medias, media[n].call = h, ~media[n].cancelled PROVE FALSE
      OBVIOUS
    <2>1. media[n].st # "none"
      BY MediaOfHandle
    <2>2. ent[e].cancel = n
      BY <1>2, <1>3, <2>1 DEF Inv, EndInv, RunsUnderEntry
    <2>3. ent[e].started
      BY <2>2, HeapAssumption DEF Inv, OwnInv, CancelStarted
    <2> QED BY <1>3, <2>3
  <1>6. media[m].call = None /\ media[m].cancelled = FALSE
    BY <1>1 DEF Starts, FreeMedia
  <1>7. [n \in Medias |-> media'[n].call] = [[n \in Medias |-> media[n].call] EXCEPT ![m] = h]
    BY <1>1, <1>2 DEF Starts
  <1>8. [n \in Medias |-> media'[n].cancelled] = [n \in Medias |-> media[n].cancelled]
    BY <1>1, <1>6 DEF Starts
  <1>9. [g \in Handles |-> Life(g)'] = [g \in Handles |-> Life(g)]
    BY <1>1 DEF Starts, Life
  <1>10. CL!Start(m, h)
    BY <1>4, <1>5, <1>6, <1>7, <1>8, <1>9 DEF CL!Start, CL!AllStopped
  <1> QED BY <1>10

\* A cancel stops abstract media, or does nothing if it was stopped.
LEMMA CancelMediaMaps ==
    ASSUME Inv, HeldExists, NEW t \in Threads, CancelMedia(t)
    PROVE  (\E m \in Medias : CL!Stop(m)) \/ UNCHANGED CL!vars
  <1>1. PICK m \in Medias \cup {None} : m = th[t].media
    BY CancelMediaDoes
  <1>2. /\ \A n \in Medias :
              /\ media'[n].st = media[n].st /\ media'[n].call = media[n].call
              /\ media'[n].cancelled = (media[n].cancelled \/ n = m)
        /\ UNCHANGED hdl
    BY <1>1, CancelMediaDoes
  <1>3. \A n \in Medias : media[n].cancelled \in BOOLEAN
    BY DEF Inv, WellFormed, TypeOK, MediaType
  <1>4. CASE m = None \/ (m \in Medias /\ media[m].cancelled)
    <2>1. \A n \in Medias : media'[n].cancelled = media[n].cancelled
      BY <1>2, <1>3, <1>4, HeapAssumption
    <2> QED BY <1>2, <2>1, KeptIsStutter
  <1>5. CASE m \in Medias /\ ~media[m].cancelled
    <2>1. media[m].call # None
      BY <1>1, <1>5, HeapAssumption DEF HeldExists, CancelMedia, Inv, EndInv, HandlesUsed
    <2>2. [n \in Medias |-> media'[n].call] = [n \in Medias |-> media[n].call]
      BY <1>2
    <2>3. \A n \in Medias : media'[n].cancelled = IF n = m THEN TRUE ELSE media[n].cancelled
      BY <1>2, <1>3
    <2>4. [n \in Medias |-> media'[n].cancelled]
             = [[n \in Medias |-> media[n].cancelled] EXCEPT ![m] = TRUE]
      BY <2>3
    <2>5. [g \in Handles |-> Life(g)'] = [g \in Handles |-> Life(g)]
      BY <1>2 DEF Life
    <2>6. CL!Stop(m)
      BY <1>5, <2>1, <2>2, <2>4, <2>5 DEF CL!Stop
    <2> QED BY <1>5, <2>6
  <1> QED BY <1>4, <1>5

\* The reported end is the end of the abstract call.
LEMMA EndCallMaps ==
    ASSUME Inv, NEW t \in Threads, EndCall(t)
    PROVE  (\E h \in Handles : CL!Over(h)) \/ UNCHANGED CL!vars
  <1>1. PICK h \in Handles : h = th[t].call
    BY EndCallDoes
  <1>2. hdl[h].id # None /\ hdl[h].onEnd = 0 /\ hdl'[h].onEnd \in {0, 1}
    BY <1>1, EndCallDoes, HeapAssumption
  <1>3. /\ \A g \in Handles : /\ hdl'[g].id = hdl[g].id
                              /\ g # h => hdl'[g].onEnd = hdl[g].onEnd
        /\ UNCHANGED media
    BY <1>1, EndCallDoes
  <1>4. CASE hdl'[h].onEnd = 0
    BY <1>2, <1>3, <1>4, KeptIsStutter
  <1>5. CASE hdl'[h].onEnd = 1
    <2>1. Life(h) = "live" /\ Life(h)' = "over"
      BY <1>2, <1>3, <1>5 DEF Life
    <2>2. \A g \in Handles : g # h => Life(g)' = Life(g)
      BY <1>3 DEF Life
    <2>3. \A m \in Medias : media[m].call = h => media[m].cancelled
      BY <1>1, EndCallDoes, MediaOfHandle DEF Inv, EndInv, EndingOK, Ending
    <2>4. CL!Over(h)
      BY <1>3, <2>1, <2>2, <2>3 DEF CL!Over, CL!AllStopped
    <2> QED BY <2>4
  <1> QED BY <1>2, <1>4, <1>5

\* Every step of the engine is a step of CallLife or a stutter.
LEMMA NextMaps == Inv /\ HeldExists /\ [Next]_vars => [CL!Next]_CL!vars
  <1> SUFFICES ASSUME Inv, HeldExists, [Next]_vars PROVE CL!Next \/ UNCHANGED CL!vars
    OBVIOUS
  <1>1. CASE Silent
    BY <1>1, KeptIsStutter DEF Silent, HandlesKept, MediasKept
  <1>2. ASSUME NEW t \in Threads, NEW id \in CallIds, NEW h \in Handles, NEW e \in Entries,
               Register(t, id, h, e)
        PROVE  CL!Next
    BY <1>2, RegisterMaps DEF CL!Next
  <1>3. ASSUME NEW t \in Threads, NEW id \in CallIds, FinishCall(t, id) PROVE UNCHANGED CL!vars
    BY <1>3, FinishCallDoes, KeptIsStutter
  <1>4. ASSUME NEW t \in Threads, CancelMedia(t) PROVE CL!Next \/ UNCHANGED CL!vars
    BY <1>4, CancelMediaMaps DEF CL!Next
  <1>5. ASSUME NEW t \in Threads, EndCall(t) PROVE CL!Next \/ UNCHANGED CL!vars
    BY <1>5, EndCallMaps DEF CL!Next
  <1>6. ASSUME NEW t \in Threads, NEW m \in Medias, StartMedia(t, m) PROVE CL!Next
    BY <1>6, StartMediaMaps DEF CL!Next
  <1> QED BY <1>1, <1>2, <1>3, <1>4, <1>5, <1>6, StepKinds DEF Visible

\* Whatever the users, the peers and the server do, and in whatever order the
\* threads of the engine run, it keeps what CallLife promises: media only for
\* calls that live, one goroutine at a time, all of it stopped before OnEnd.
THEOREM EngineImplementsCallLife == Spec => ImplementsCallLife
  <1>1. Spec => []HeldExists
    BY InitHeld, NextHeld, Invariance, PTL DEF Spec
  <1> QED BY <1>1, InitMaps, NextMaps, Invariance, PTL DEF Spec, ImplementsCallLife, CL!Spec
===============================================================================
