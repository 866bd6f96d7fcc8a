------------------------------ MODULE MCRequests ------------------------------
(* Small instances of Requests. *)
EXTENDS Requests, TLC

Sent == {"success", "515", "401", "removed", "replaced", "error", "unavailable", "banned", "logout"}
Inputs == Sent \cup {"connect", "disconnect", "reset", "ping", "fail", "query", "cancel", "timeout"}

Only(ks) == [k \in Inputs |-> IF k \in ks THEN 1 ELSE 0]

\* The goroutines that connect and disconnect against each other; the nodes of
\* the server, with a full queue; a query across a reconnect.
Scenarios == { Only({"connect", "disconnect", "reset", "ping"}),
               Only({"disconnect", "ping", "fail", "replaced"}),
               Only({"success", "515", "error"}),
               Only({"515", "fail"}),
               Only({"removed", "logout", "ping"}),
               Only({"unavailable", "banned"}),
               Only({"query", "cancel", "success", "error"}),
               Only({"query", "success", "401"}),
               Only({"query", "timeout", "success", "reset"}),
               Only({"query", "disconnect", "connect"}) }

\* One Disconnect of the user.
UserLeaves == {Only({"disconnect"})}
===============================================================================
