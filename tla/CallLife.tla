-------------------------------- MODULE CallLife --------------------------------
(***************************************************************************)
(* What the call engine promises the integrator about a Call and its media *)
(* (wa-core/call_livecall.go): a call is live from the moment it is placed *)
(* or offered, media runs for live calls only and one goroutine at a time, *)
(* and a call is over, for good, once its media has been stopped.          *)
(***************************************************************************)
CONSTANTS Handles,   \* calls
          Medias,    \* media goroutines
          None       \* no call

VARIABLES life,      \* of each call: "none", "live" or "over"
          owner,     \* the call a media goroutine was started for
          stopped    \* whether it has been told to stop

vars == <<life, owner, stopped>>

Init ==
    /\ life = [h \in Handles |-> "none"]
    /\ owner = [m \in Medias |-> None]
    /\ stopped = [m \in Medias |-> FALSE]

AllStopped(h) == \A m \in Medias : owner[m] = h => stopped[m]

Begin(h) ==
    /\ life[h] = "none"
    /\ life' = [life EXCEPT ![h] = "live"]
    /\ UNCHANGED <<owner, stopped>>

Start(m, h) ==
    /\ life[h] = "live" /\ owner[m] = None /\ AllStopped(h)
    /\ owner' = [owner EXCEPT ![m] = h]
    /\ UNCHANGED <<life, stopped>>

Stop(m) ==
    /\ owner[m] # None /\ ~stopped[m]
    /\ stopped' = [stopped EXCEPT ![m] = TRUE]
    /\ UNCHANGED <<life, owner>>

Over(h) ==
    /\ life[h] = "live" /\ AllStopped(h)
    /\ life' = [life EXCEPT ![h] = "over"]
    /\ UNCHANGED <<owner, stopped>>

Next ==
    \/ \E h \in Handles : Begin(h) \/ Over(h) \/ \E m \in Medias : Start(m, h)
    \/ \E m \in Medias : Stop(m)

Spec == Init /\ [][Next]_vars
===============================================================================
