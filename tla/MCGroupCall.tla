----------------------------- MODULE MCGroupCall -----------------------------
(* Small instances of GroupCall. *)
EXTENDS GroupCall, TLC

Kinds == {"place", "join", "offer", "direct", "update", "epoch", "room", "answer", "finish"}

Use(ks, n) == [k \in ks |-> n]
Nothing == [k \in Kinds |-> 0]

Roster(tx, relay, rekey, bad) == [tx |-> tx, relay |-> relay, rekey |-> rekey, bad |-> bad]

\* A first roster without a relay, one that asks for an epoch, and a third with
\* and without a fault.
Rosters == {Roster(1, FALSE, FALSE, FALSE), Roster(2, TRUE, TRUE, FALSE),
            Roster(3, TRUE, FALSE, FALSE), Roster(3, TRUE, FALSE, TRUE)}

\* How the call comes to be, two rosters, an epoch and an end.
Story(how) == Use({how, "epoch", "finish"}, 1) @@ Use({"update"}, 2) @@ Nothing

\* One offer, or two with the end before, between or after them.
Stories == {Story("place"), Story("direct"),
            Use({"room", "update"}, 1) @@ Story("join"),
            Use({"answer"}, 1) @@ Story("offer"),
            Use({"offer"}, 2) @@ Use({"update"}, 1) @@ Story("offer"),
            Use({"direct", "offer", "epoch", "finish"}, 1) @@ Nothing}

\* A call that waits for admission.
Waiting == {Use({"join", "room", "update"}, 1) @@ Nothing}
===============================================================================
