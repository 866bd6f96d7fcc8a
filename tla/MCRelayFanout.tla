----------------------------- MODULE MCRelayFanout -----------------------------
(* A small instance of RelayFanout: two relays, a ring of two slots and four   *)
(* sequence numbers.                                                           *)
EXTENDS RelayFanout

Budget(send, lose, die, cancel) ==
    [k \in Inputs |-> CASE k = "send" -> send [] k = "lose" -> lose
                       [] k = "die" -> die [] k = "cancel" -> cancel]

\* A full turn of the sequence numbers and one packet more, with losses; relays
\* that die one after the other while the call may end.
Scenarios == { Budget(5, 4, 0, 0), Budget(5, 1, 1, 0), Budget(2, 1, 2, 1) }
===============================================================================
