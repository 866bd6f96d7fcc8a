SPECIFICATION Spec
CONSTANTS
    CallIds = {c1, c2}
    OutIds = {c2}
    RelayInOffer = {c1}
    Handles = {h1, h2}
    Entries = {e1, e2}
    Medias = {m1, m2}
    Apps = {a1}
    Inputs <- Kinds
    Budgets <- Scenarios
CHECK_DEADLOCK FALSE
INVARIANTS MediaOwned MediaOnce EndAfterCancel NoLostStart AcceptPerAnswer
PROPERTIES EndReported ImplementsCallLife
