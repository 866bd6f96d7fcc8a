------------------------------ MODULE MCRetries ------------------------------
(* Small instances of Retries. *)
EXTENDS Retries, TLC

\* One device under its phone number and its LID.
LidOfDevice == [d \in {"pn", "lid"} |-> "lid"]

Kinds == {"send", "receipt", "hour", "lose", "message", "disconnect"}

Budget(send, receipt, lose, message, disconnect, hour) ==
    [k \in Kinds |-> CASE k = "send" -> send [] k = "receipt" -> receipt [] k = "lose" -> lose
                      [] k = "message" -> message [] k = "disconnect" -> disconnect
                      [] k = "hour" -> hour]

\* The ring past its end and round again; receipts of several devices against
\* each other; messages that cannot be read, with a Disconnect among them.
Scenarios == { Budget(6, 0, 0, 0, 0, 0),
               Budget(3, 1, 0, 0, 0, 0),
               Budget(1, 3, 1, 0, 0, 1),
               Budget(0, 0, 0, 3, 1, 1) }
===============================================================================
