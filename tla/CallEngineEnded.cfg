SPECIFICATION Spec
CONSTANTS
    CallIds = {c1}
    OutIds = {c1}
    RelayInOffer = {c1}
    Handles = {h1, h2}
    Entries = {e1, e2}
    Medias = {m1, m2}
    Apps = {a1}
    Inputs <- Kinds
    Budgets <- Outgoing
CHECK_DEADLOCK FALSE
PROPERTIES EndedStays
