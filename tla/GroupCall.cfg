SPECIFICATION Spec
CONSTANTS
    Txs = {1, 2, 3}
    Keys = {k1, k2}
    OwnKey = k1
    Apps = {a1}
    Updates <- Rosters
    Attempts = 2
    MaxCalls = 2
    Inputs <- Kinds
    Budgets <- Stories
CHECK_DEADLOCK FALSE
INVARIANTS RosterReachesMedia EpochReachesMedia EndedKeysGone  NoLostStart MediaFailureExplained
PROPERTIES ImplementsGroupView
