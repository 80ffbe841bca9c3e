SPECIFICATION Spec
CONSTANTS
    MaxNodes = 5
    MaxOutputs = 3
    MaxAutostart = 0
    MaxWindowed = 0
    StackHold = TRUE
    SpawnMayFail = FALSE
PROPERTY PreviewKeepsFocus
PROPERTY WrapKeepsFocus
PROPERTY UnplugKeepsOthers
PROPERTY MruKept
