-------------------------------- MODULE ConnLife --------------------------------
(***************************************************************************)
(* What the client promises about its connections to the server: they are  *)
(* made one after the other, one is up at a time, each of them fails, is   *)
(* dropped by the client or is lost, and the integrator is told at most    *)
(* once, of a lost one, before the next is tried.                          *)
(***************************************************************************)
EXTENDS Integers

CONSTANT Sockets     \* connections, in the order they are tried

VARIABLE state       \* of each: "new", "up", "failed", "dropped", "lost" or "told"

Init == state = [s \in Sockets |-> "new"]

NoneUp == \A s \in Sockets : state[s] # "up"

\* s is the last one tried, or the next one to try.
Latest(s) == \A t \in Sockets : /\ t < s => state[t] # "new"
                                /\ t > s => state[t] = "new"

Becomes(s, x) == Latest(s) /\ state' = [state EXCEPT ![s] = x]

Up(s)   == state[s] = "new" /\ NoneUp /\ Becomes(s, "up")
Fail(s) == state[s] \in {"new", "up"} /\ Becomes(s, "failed")
Lose(s) == state[s] = "up" /\ Becomes(s, "lost")
Drop(s) == state[s] \in {"up", "lost"} /\ Becomes(s, "dropped")
Tell(s) == state[s] = "lost" /\ NoneUp /\ Becomes(s, "told")

Next == \E s \in Sockets : Up(s) \/ Fail(s) \/ Lose(s) \/ Drop(s) \/ Tell(s)

Spec == Init /\ [][Next]_state
===============================================================================
