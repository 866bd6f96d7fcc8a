SPECIFICATION Spec
CONSTANTS
    Apps = {a1, a2}
    Turns = {0, 1}
    Ops <- Kinds
    Cases <- Calls
CHECK_DEADLOCK FALSE
INVARIANTS KeyframeFirst ToggleAfterAccept ParkedReleased UpgradeAcceptedOnce
