SPECIFICATION Spec
CONSTANTS
    MaxFrames = 2
    MaxLength = 5
CHECK_DEADLOCK FALSE
INVARIANTS FramesArrive
