------------------------------- MODULE GroupView -------------------------------
(***************************************************************************)
(* What the group calls under an id promise about their rosters and key    *)
(* epochs, which come with the server's transaction ids: the call takes    *)
(* them in their order while it lives, its handle follows the roster and   *)
(* never shows one the call does not have, the media it receives with uses *)
(* no epoch ahead of its roster and loses none before the call ends.       *)
(***************************************************************************)
EXTENDS Integers

CONSTANT Txs         \* transaction ids

VARIABLES life,      \* of the call: "none", "live" or "over"
          roster,    \* the roster of the call (0: none yet)
          epoch,     \* its key epoch
          shown,     \* the roster its handle shows
          inUse,     \* media receives
          heard,     \* the roster of media
          used       \* the key epoch of media (0: none)

vars == <<life, roster, epoch, shown, inUse, heard, used>>

Init ==
    /\ life = "none" /\ ~inUse
    /\ roster = 0 /\ epoch = 0 /\ shown = 0 /\ heard = 0 /\ used = 0

\* A call, also one after another has ended, begins with nothing.
Begin ==
    /\ life # "live" /\ life' = "live"
    /\ roster' = 0 /\ epoch' = 0 /\ shown' = 0
    /\ UNCHANGED <<inUse, heard, used>>

\* A new handle for a live call.
Replace ==
    /\ life = "live" /\ shown' = 0
    /\ UNCHANGED <<life, roster, epoch, inUse, heard, used>>

NewRoster(n) ==
    /\ life = "live" /\ n > roster /\ roster' = n
    /\ UNCHANGED <<life, epoch, shown, inUse, heard, used>>

NewEpoch(n) ==
    /\ life = "live" /\ n > epoch /\ epoch' = n
    /\ UNCHANGED <<life, roster, shown, inUse, heard, used>>

\* The handle may skip rosters, and catch up when the call is over.
Show(n) ==
    /\ shown < n /\ n <= roster /\ shown' = n
    /\ UNCHANGED <<life, roster, epoch, inUse, heard, used>>

Use(n, e) ==
    /\ life = "live" /\ ~inUse /\ inUse' = TRUE
    /\ e <= n /\ heard' = n /\ used' = e
    /\ UNCHANGED <<life, roster, epoch, shown>>

\* Media is told of a roster, an epoch or both.
Hear(n, e) ==
    /\ inUse /\ n >= heard /\ e >= used /\ e <= n
    /\ heard' = n /\ used' = e
    /\ UNCHANGED <<life, roster, epoch, shown, inUse>>

End ==
    /\ life = "live" /\ life' = "over"
    /\ inUse' = FALSE /\ heard' = 0 /\ used' = 0
    /\ UNCHANGED <<roster, epoch, shown>>

Next ==
    \/ Begin \/ Replace \/ End
    \/ \E n \in Txs : NewRoster(n) \/ NewEpoch(n) \/ Show(n)
    \/ \E n, e \in Txs \cup {0} : Use(n, e) \/ Hear(n, e)

Spec == Init /\ [][Next]_vars
===============================================================================
