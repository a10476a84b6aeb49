CONSTANTS Files = 2
          Sizes = {0, 2, 3, 7, 11, 12}
          Chunk = 3
          Wrap = 8
          Eight = 2
          Memory = 11
          Queue = 2
SPECIFICATION FairSpec
INVARIANTS SavedIntact FailsForCause
PROPERTY RecvFinishes
\* A size that cannot be reserved ends the program.
CHECK_DEADLOCK FALSE
