SPECIFICATION Spec
CONSTANTS
    Keys = {k1, k2, k3}
    Devices = {"pn", "lid"}
    LidOf <- LidOfDevice
    Handlers = {h1, h2}
    RecentSize = 2
    InEntries = 1
    InLimit = 2
    History = 1
    Msgs = {m1, m2}
    Askers = {a1, a2}
    Phones = {p1, p2}
    OutEntries = 1
    OutLimit = 3
    Inputs <- Kinds
    Budgets <- Scenarios
INVARIANTS KeepsLast ResendsBounded RecreatedOnce CountsDistinct CancelReaches
PROPERTY PhoneAsked
CHECK_DEADLOCK FALSE
