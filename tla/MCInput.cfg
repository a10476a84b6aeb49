SPECIFICATION Spec
CONSTANTS
    Layout <- MCLayout
    KeyNames <- MCKeyNames
    Commands <- MCCommands
    Width = 10
    MaxU16 = 20
    Apart = 2
    Shift = 1
    Green = {1}
    MaxCommands = 3
    MaxSessions = 2
INVARIANT NothingSticks ArrivesAsAsked GridMeasured ClickLands
CHECK_DEADLOCK FALSE
