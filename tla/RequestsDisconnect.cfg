SPECIFICATION Spec
CONSTANTS
    MaxSockets = 3
    Requests = {q1}
    QueueCap = 1
    Kinds <- Sent
    Ops <- Inputs
    Budgets <- UserLeaves
CHECK_DEADLOCK FALSE
INVARIANTS DisconnectStays
