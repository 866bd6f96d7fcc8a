------------------------------ MODULE MCCallVideo ------------------------------
(* Small instances of CallVideo. *)
EXTENDS CallVideo, TLC

Kinds == {"start", "stop", "acceptVideo", "toggle", "turn", "request", "enabled",
          "off", "accept", "refuse", "mute", "media", "pli", "finish"}

Nothing == [k \in Kinds |-> 0]
Use(ks, n) == [k \in ks |-> n]

\* Two upgrade requests of the peer against two threads of the integrator.
UpgradeBudget ==
    Use({"acceptVideo", "request"}, 2)
       @@ Use({"start", "media", "pli", "refuse", "off", "finish"}, 1) @@ Nothing

\* The two halves of the incoming story: toggles around the accept, and the
\* peer's stanzas.
Toggles == Use({"toggle"}, 2) @@ Use({"mute", "media", "turn", "enabled"}, 1) @@ Nothing
Starts == Use({"toggle", "start", "stop", "mute", "media", "turn", "accept"}, 1) @@ Nothing

Case(incoming, budget) == [incoming |-> incoming, left |-> budget]
Calls == {Case(TRUE, Toggles), Case(TRUE, Starts), Case(FALSE, UpgradeBudget)}
===============================================================================
