----------------------------- MODULE CallRegistry -----------------------------
(***************************************************************************)
(* CallRegistry (wa-core/call_registry.go): the map from call ids to call  *)
(* sessions and the cancel handles of their media goroutines.  Every       *)
(* method changes the map under the registry's mutex and calls the cancel  *)
(* handles after it has released it; the gap is where methods interleave,  *)
(* so a call of a cancel handle is a step of its own.                      *)
(***************************************************************************)
EXTENDS CallSession

CONSTANTS CallIds,    \* call ids
          Tasks       \* media goroutines, named by their cancel handle

VARIABLES calls,      \* r.calls: id -> entry, NoEntry if not registered
          live,       \* media goroutines whose context is not cancelled
          toCancel    \* handles a method holds after unlocking, not yet called

vars == <<calls, live, toCancel>>

NoTask  == "no-task"
NoEntry == [direction |-> "none", phase |-> "none", mediaTask |-> NoTask]
Entries == [direction : Directions, phase : CallPhases,
            mediaTask : Tasks \cup {NoTask}]

ASSUME NoTaskAssumption == NoTask \notin Tasks

Registered == {id \in CallIds : calls[id] # NoEntry}

Attached == {calls[id].mediaTask : id \in CallIds} \ {NoTask}

TypeOK ==
    /\ calls \in [CallIds -> Entries \cup {NoEntry}]
    /\ live \subseteq Tasks
    /\ toCancel \subseteq Tasks

Init ==
    /\ calls = [id \in CallIds |-> NoEntry]
    /\ live = {}
    /\ toCancel = {}

-------------------------------------------------------------------------------
Insert(id, dir) ==
    /\ id \notin Registered
    /\ calls' = [calls EXCEPT ![id] = [direction |-> dir,
                                       phase     |-> FirstPhase(dir),
                                       mediaTask |-> NoTask]]
    /\ UNCHANGED <<live, toCancel>>

\* Mutant: the handle that is replaced is forgotten, not cancelled.
SetMediaTaskForgets(id, t) ==
    /\ t \notin live
    /\ live' = live \cup {t}
    /\ IF id \in Registered
         THEN calls' = [calls EXCEPT ![id].mediaTask = t] /\ UNCHANGED toCancel
         ELSE toCancel' = toCancel \cup {t} /\ UNCHANGED calls

\* The integrator starts a media goroutine and hands its cancel handle over.
\* Unknown call: the new handle is cancelled; known call: the one it replaces.
SetMediaTask(id, t) ==
    /\ t \notin live
    /\ live' = live \cup {t}
    /\ IF id \in Registered
         THEN /\ calls' = [calls EXCEPT ![id].mediaTask = t]
              /\ toCancel' = toCancel \cup ({calls[id].mediaTask} \ {NoTask})
         ELSE /\ toCancel' = toCancel \cup {t}
              /\ UNCHANGED calls

Transition(id, next) ==
    /\ id \in Registered
    /\ CanTransition(calls[id].direction, calls[id].phase, next)
    /\ calls' = [calls EXCEPT ![id].phase = next]
    /\ UNCHANGED <<live, toCancel>>

\* Mutant: the entry is deleted and its media task is left running.
RemoveLeaks(id) ==
    /\ id \in Registered
    /\ calls' = [calls EXCEPT ![id] = NoEntry]
    /\ UNCHANGED <<live, toCancel>>

Remove(id) ==
    /\ id \in Registered
    /\ calls' = [calls EXCEPT ![id] = NoEntry]
    /\ toCancel' = toCancel \cup ({calls[id].mediaTask} \ {NoTask})
    /\ UNCHANGED live

AbortAll ==
    /\ calls' = [id \in CallIds |-> NoEntry]
    /\ toCancel' = toCancel \cup Attached
    /\ UNCHANGED live

\* A method that has unlocked calls one of the handles it holds.
Cancel(t) ==
    /\ t \in toCancel
    /\ toCancel' = toCancel \ {t}
    /\ live' = live \ {t}
    /\ UNCHANGED calls

Next ==
    \/ \E id \in CallIds, dir \in Directions : Insert(id, dir)
    \/ \E id \in CallIds, t \in Tasks : SetMediaTask(id, t)
    \/ \E id \in CallIds, p \in CallPhases : Transition(id, p)
    \/ \E id \in CallIds : Remove(id)
    \/ AbortAll
    \/ \E t \in Tasks : Cancel(t)

\* A method that has started runs to its end.
Fairness == \A t \in Tasks : WF_vars(Cancel(t))

Spec == Init /\ [][Next]_vars /\ Fairness

-------------------------------------------------------------------------------
\* "its task can't outlive the call" (SetMediaTask): a media goroutine that is
\* still live belongs to a registered call, or a method is about to cancel it.
NoOrphanTask == live \subseteq Attached \cup toCancel

\* One handle is held by one call only, and never by a call and a cancelling
\* method at once: cancelling for one call does not silence another.
OneOwner ==
    /\ \A a, b \in Registered :
          a # b => calls[a].mediaTask # calls[b].mediaTask
                   \/ calls[a].mediaTask = NoTask
    /\ Attached \cap toCancel = {}

\* A method cancels each handle it took once: the goroutine is still live.
CancelledOnce == toCancel \subseteq live

\* A registered call's handle is the handle of a running goroutine: Remove and
\* AbortAll never leave a call whose media was cancelled in the registry.
AttachedLive == Attached \subseteq live

\* "AbortAll cancels every call's media task": a goroutine whose call is gone
\* is cancelled in the end.
EventuallyCancelled == \A t \in Tasks : t \in live \ Attached ~> t \notin live
===============================================================================
