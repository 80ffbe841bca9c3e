SPECIFICATION Spec
CONSTANTS
    Monitors = {a, b}
    Modes = {large, small}
    MaxChanges = 2
    MaxFaults = 1
    None = None
CHECK_DEADLOCK FALSE
INVARIANT RestIsSound
INVARIANT CaptureIsCurrent
PROPERTY FrameIsCurrent
PROPERTY RenderingEnds
