SPECIFICATION Spec
CONSTANTS
    MaxSockets = 3
    Requests = {q1}
    QueueCap = 1
    Kinds <- Sent
    Ops <- Inputs
    Budgets <- Scenarios
CHECK_DEADLOCK FALSE
INVARIANTS OneConnection DisconnectIsSilent LossNoticed NoHungQuery PanicExplained NoRepeat
PROPERTIES RedialsAfterLoss ImplementsConnLife
