SPECIFICATION Spec
CONSTANTS
    Rates <- MCRates
    Window = 2
    TsMod = 9
    Lengths = {1, 2}
    Levels = {0, 3}
    Threshold = 1
    Starts = {0, 6}
    MaxTicks = 7
INVARIANT CaptureIsOwn MeasuredRight
CHECK_DEADLOCK FALSE
