SPECIFICATION Spec
CONSTANTS
    MaxNodes = 5
    MaxOutputs = 2
    MaxAutostart = 1
    MaxWindowed = 1
    StackHold = FALSE
    SpawnMayFail = TRUE
INVARIANT TreeIsSound
INVARIANT CurrentInRange
PROPERTY ExitKeepsOtherFocus
PROPERTY UsedHutsSurvive
