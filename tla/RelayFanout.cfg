SPECIFICATION Spec
CONSTANTS
    Relays = {r1, r2}
    Backlog = 2
    Ring = 2
    SeqSpace = 4
    MaxLag = 2
    NPackets = 5
    Budgets <- Scenarios
CHECK_DEADLOCK FALSE
INVARIANTS AtMostOnce NoFreshDrop NotClosedEarly DrainedBeforeClosed
PROPERTIES RecvUnblocks ReadersGo
