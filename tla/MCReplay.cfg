SPECIFICATION Spec
CONSTANTS
    Numerals <- MCNumerals
    Regions <- MCRegions
    Layouts <- MCLayouts
    U32 = 100000
    Vars <- MCVars
    Inputs <- MCInputs
    MaxInputs = 2
    Profile <- MCProfile
    Passwords <- MCPasswords
    Speeds = {1, 2}
    Takes <- MCTakes
    Thinking = {0, 3}
INVARIANT ReplaysAsRecorded PlainTextSurvives
CHECK_DEADLOCK FALSE
