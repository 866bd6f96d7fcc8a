SPECIFICATION Spec
CONSTANTS
    CallIds = {c1}
    OutIds = {}
    RelayInOffer = {c1}
    Handles = {h1, h2}
    Entries = {e1, e2}
    Medias = {m1, m2}
    Apps = {a1}
    Inputs <- Kinds
    Budgets <- Answering
CHECK_DEADLOCK FALSE
INVARIANTS AcceptOnce
