----------------------------- MODULE MCCallEngine -----------------------------
(* Small instances of CallEngine: incoming calls and outgoing calls. *)
EXTENDS CallEngine, TLC

Kinds == {"place", "offer", "answer", "hangup", "relay", "preaccept", "accept",
          "terminate", "mute"}

Use(k, n) == k :> n
Nothing == [k \in Kinds |-> 0]

\* One caller whose offer may be repeated, two relay stanzas, a mute and its
\* repetition, and an end from either side.
IncomingBudget ==
    Use("offer", 2) @@ Use("answer", 1) @@ Use("hangup", 1) @@ Use("relay", 1)
       @@ Use("mute", 2) @@ Use("terminate", 1) @@ Nothing

OutgoingBudget ==
    Use("place", 1) @@ Use("hangup", 1) @@ Use("relay", 1) @@ Use("preaccept", 1)
       @@ Use("accept", 1) @@ Use("terminate", 1) @@ Nothing

\* A repeated offer against every end, and a relay stanza against the answer.
RepeatedOffer == Use("relay", 0) @@ IncomingBudget
LateRelay == Use("offer", 1) @@ Use("mute", 1) @@ IncomingBudget
Unmuted == Use("mute", 0) @@ IncomingBudget

\* A second Answer, which re-arms the accept, against repeated mutes.
TwoAnswers == Use("offer", 1) @@ Use("answer", 2) @@ Use("relay", 0) @@ Use("hangup", 0) @@ IncomingBudget

\* An incoming and an outgoing call at once.
TwoCalls == Use("place", 1) @@ Use("offer", 1) @@ Use("answer", 1) @@ Use("relay", 1)
               @@ Use("hangup", 1) @@ Nothing

Scenarios == {RepeatedOffer, LateRelay, Unmuted, TwoAnswers, OutgoingBudget, TwoCalls}
Answering == {TwoAnswers}
Outgoing == {OutgoingBudget}
===============================================================================
