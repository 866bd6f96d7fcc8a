-------------------------- MODULE CallRegistryProofs --------------------------
(***************************************************************************)
(* CallRegistry for every set of call ids and media goroutines: no media   *)
(* goroutine outlives its call, whatever the interleaving of methods.      *)
(***************************************************************************)
EXTENDS CallRegistry, TLAPS

\* NoOrphanTask alone is not inductive: that a detached handle is not the
\* handle of another call needs OneOwner, which needs that a goroutine just
\* started is new to the registry (AttachedLive, CancelledOnce).
IInv == TypeOK /\ NoOrphanTask /\ OneOwner /\ AttachedLive /\ CancelledOnce

\* A registered entry is a real entry, whose handle is a task or NoTask.
LEMMA EntryType ==
    ASSUME TypeOK, NEW id \in CallIds
    PROVE  /\ calls[id].mediaTask \in Tasks \cup {NoTask}
           /\ id \in Registered => calls[id] \in Entries
           /\ id \notin Registered => calls[id] = NoEntry /\ calls[id].mediaTask = NoTask
  BY DEF TypeOK, Registered, Entries, NoEntry

\* The registry starts empty.
LEMMA InitIInv == Init => IInv
  BY NoTaskAssumption DEF Init, IInv, TypeOK, NoOrphanTask, OneOwner, AttachedLive,
     CancelledOnce, Registered, Attached, Entries, NoEntry

\* Every method, and every later call of a cancel handle, preserves IInv.
LEMMA NextIInv == IInv /\ [Next]_vars => IInv'
<1> SUFFICES ASSUME IInv, [Next]_vars
             PROVE  IInv'
  OBVIOUS
<1> USE DEF IInv
<1>1. ASSUME NEW id \in CallIds, NEW dir \in Directions, Insert(id, dir)
      PROVE  IInv'
  <2>1. FirstPhase(dir) \in CallPhases
    BY DEF FirstPhase, CallPhases
  <2>2. calls' = [calls EXCEPT ![id] = [direction |-> dir, phase |-> FirstPhase(dir),
                                        mediaTask |-> NoTask]]
    BY <1>1 DEF Insert
  <2>3. TypeOK'
    BY <1>1, <2>1, <2>2 DEF Insert, TypeOK, Entries
  <2>4. \A c \in CallIds : calls'[c].mediaTask = calls[c].mediaTask
    BY <1>1, <2>2, EntryType DEF Insert, TypeOK
  <2>5. Attached' = Attached
    BY <2>4 DEF Attached
  <2>6. \A a \in CallIds : a \in Registered' => a \in Registered \/ calls[a].mediaTask = NoTask
    BY <2>4, EntryType DEF Registered
  <2>7. OneOwner'
    BY <1>1, <2>4, <2>5, <2>6 DEF OneOwner, Insert, Registered
  <2> QED
    BY <1>1, <2>3, <2>5, <2>7 DEF Insert, NoOrphanTask, AttachedLive, CancelledOnce
<1>2. ASSUME NEW id \in CallIds, NEW t \in Tasks, SetMediaTask(id, t)
      PROVE  IInv'
  <2>1. CASE id \in Registered
    <3>1. calls' = [calls EXCEPT ![id].mediaTask = t]
      BY <1>2, <2>1 DEF SetMediaTask
    <3>2. calls[id] \in Entries
      BY <2>1, EntryType
    <3>3. TypeOK'
      BY <1>2, <2>1, <3>1, <3>2, EntryType DEF SetMediaTask, TypeOK, Entries
    <3>4. calls'[id].mediaTask = t
      BY <3>1, <3>2 DEF TypeOK, Entries
    <3>5. \A c \in CallIds \ {id} : calls'[c] = calls[c]
      BY <3>1 DEF TypeOK
    <3>6. t # NoTask /\ t \notin Attached /\ t \notin toCancel
      BY <1>2, NoTaskAssumption DEF SetMediaTask, AttachedLive, CancelledOnce
    <3>7. \A c \in CallIds \ {id} :
             calls[c].mediaTask = NoTask \/ calls[c].mediaTask # calls[id].mediaTask
      <4> TAKE c \in CallIds \ {id}
      <4> CASE c \in Registered
        BY <2>1 DEF OneOwner
      <4> CASE c \notin Registered
        BY EntryType
      <4> QED OBVIOUS
    <3>8. Attached' = (Attached \ {calls[id].mediaTask}) \cup {t}
      BY <3>4, <3>5, <3>6, <3>7 DEF Attached
    <3>9. toCancel' = toCancel \cup ({calls[id].mediaTask} \ {NoTask}) /\ live' = live \cup {t}
      BY <1>2, <2>1 DEF SetMediaTask
    <3>10. \A c \in CallIds : calls[c].mediaTask # NoTask => calls[c].mediaTask \in Attached
      BY DEF Attached
    <3>11. \A a \in CallIds \ {id} : a \in Registered' => a \in Registered
      BY <3>5 DEF Registered
    <3>12. \A a, b \in Registered' :
              a # b => calls'[a].mediaTask # calls'[b].mediaTask \/ calls'[a].mediaTask = NoTask
      <4> SUFFICES ASSUME NEW a \in Registered', NEW b \in Registered', a # b
                   PROVE  calls'[a].mediaTask # calls'[b].mediaTask \/ calls'[a].mediaTask = NoTask
        OBVIOUS
      <4>0. a \in CallIds /\ b \in CallIds
        BY DEF Registered
      <4>1. CASE a = id
        BY <4>0, <4>1, <3>4, <3>5, <3>6, <3>10
      <4>2. CASE b = id
        BY <4>0, <4>2, <3>4, <3>5, <3>6, <3>10
      <4>3. CASE a # id /\ b # id
        BY <4>0, <4>3, <3>5, <3>11 DEF OneOwner
      <4> QED BY <4>1, <4>2, <4>3
    <3>13. OneOwner'
      BY <3>6, <3>8, <3>9, <3>12 DEF OneOwner, Attached
    <3>14. NoOrphanTask' /\ AttachedLive' /\ CancelledOnce'
      BY <3>6, <3>8, <3>9, <3>10 DEF NoOrphanTask, AttachedLive, CancelledOnce, Attached
    <3> QED BY <3>3, <3>13, <3>14
  <2>2. CASE id \notin Registered
    <3>1. calls' = calls /\ toCancel' = toCancel \cup {t} /\ live' = live \cup {t} /\ t \notin live
      BY <1>2, <2>2 DEF SetMediaTask
    <3>2. Attached' = Attached /\ Registered' = Registered
      BY <3>1 DEF Attached, Registered
    <3> QED
      BY <3>1, <3>2 DEF TypeOK, NoOrphanTask, OneOwner, AttachedLive, CancelledOnce
  <2> QED BY <2>1, <2>2
<1>3. ASSUME NEW id \in CallIds, NEW p \in CallPhases, Transition(id, p)
      PROVE  IInv'
  <2>1. calls' = [calls EXCEPT ![id].phase = p] /\ calls[id] \in Entries
    BY <1>3, EntryType DEF Transition
  <2>2. TypeOK'
    BY <1>3, <2>1 DEF Transition, TypeOK, Entries
  <2>3. \A c \in CallIds : calls'[c].mediaTask = calls[c].mediaTask
    BY <2>1 DEF TypeOK, Entries
  <2>4. \A c \in CallIds : c \in Registered' => c \in Registered
    BY <1>3, <2>1 DEF Transition, Registered, TypeOK
  <2>5. Attached' = Attached
    BY <2>3 DEF Attached
  <2>6. OneOwner'
    BY <1>3, <2>3, <2>4, <2>5 DEF OneOwner, Transition, Registered
  <2> QED
    BY <1>3, <2>2, <2>5, <2>6 DEF Transition, NoOrphanTask, AttachedLive, CancelledOnce
<1>4. ASSUME NEW id \in CallIds, Remove(id)
      PROVE  IInv'
  <2>1. calls' = [calls EXCEPT ![id] = NoEntry] /\ id \in Registered /\ live' = live
    BY <1>4 DEF Remove
  <2>2. TypeOK'
    BY <1>4, <2>1, EntryType DEF Remove, TypeOK
  <2>3. calls'[id].mediaTask = NoTask /\ \A c \in CallIds \ {id} : calls'[c] = calls[c]
    BY <2>1 DEF TypeOK, NoEntry
  <2>4. \A c \in CallIds \ {id} :
           calls[c].mediaTask = NoTask \/ calls[c].mediaTask # calls[id].mediaTask
    <3> TAKE c \in CallIds \ {id}
    <3> CASE c \in Registered
      BY <2>1 DEF OneOwner
    <3> CASE c \notin Registered
      BY EntryType
    <3> QED OBVIOUS
  <2>5. Attached' = Attached \ {calls[id].mediaTask}
    BY <2>3, <2>4 DEF Attached
  <2>6. \A c \in CallIds : c \in Registered' => c \in Registered /\ calls'[c] = calls[c]
    BY <2>1, <2>3 DEF Registered, TypeOK
  <2>7. toCancel' = toCancel \cup ({calls[id].mediaTask} \ {NoTask})
    BY <1>4 DEF Remove
  <2>8. calls[id].mediaTask # NoTask => calls[id].mediaTask \in Attached
    BY DEF Attached
  <2>9. OneOwner'
    BY <2>5, <2>6, <2>7 DEF OneOwner, Registered
  <2> QED
    BY <2>1, <2>2, <2>5, <2>7, <2>8, <2>9 DEF NoOrphanTask, AttachedLive, CancelledOnce, Attached
<1>5. ASSUME AbortAll
      PROVE  IInv'
  <2>1. Attached' = {} /\ Registered' = {}
    BY <1>5 DEF AbortAll, Attached, Registered, NoEntry
  <2>2. TypeOK'
    BY <1>5 DEF AbortAll, TypeOK, AttachedLive
  <2> QED
    BY <1>5, <2>1, <2>2 DEF AbortAll, NoOrphanTask, OneOwner, AttachedLive, CancelledOnce
<1>6. ASSUME NEW t \in Tasks, Cancel(t)
      PROVE  IInv'
  <2>1. Attached' = Attached /\ Registered' = Registered
    BY <1>6 DEF Cancel, Attached, Registered
  <2> QED
    BY <1>6, <2>1 DEF Cancel, TypeOK, NoOrphanTask, OneOwner, AttachedLive, CancelledOnce
<1>7. CASE UNCHANGED vars
  BY <1>7 DEF vars, TypeOK, NoOrphanTask, OneOwner, AttachedLive, CancelledOnce, Attached, Registered
<1> QED
  BY <1>1, <1>2, <1>3, <1>4, <1>5, <1>6, <1>7 DEF Next

\* The invariant the three results below rest on.
THEOREM Invariance == Spec => []IInv
  BY InitIInv, NextIInv, PTL DEF Spec

\* "its task can't outlive the call": in every reachable state a live media
\* goroutine belongs to a registered call or is being cancelled.
THEOREM NoTaskOutlivesItsCall == Spec => []NoOrphanTask
<1>1. IInv => NoOrphanTask
  BY DEF IInv
<1> QED BY <1>1, Invariance, PTL
===============================================================================
