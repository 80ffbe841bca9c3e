CONSTANTS
    Rows = 2
    Cols = 2
    History = 1
    NoSelection = NoSelection
SPECIFICATION TermSpec
PROPERTY FrameCatchesUp
PROPERTY IdleIsSkipped
PROPERTY OutputIsTaken
