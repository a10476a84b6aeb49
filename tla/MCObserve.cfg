CONSTANTS Pictures = {1, 2}
          Target = 2
          Timeouts = {3}
          Poll = 2
          Stillness = 2
          Settle = 1
          Draws = 3
          Queue = 2
SPECIFICATION FairSpec
INVARIANTS ChangeEarned StillEarned LongEnoughIsSeen SavedIsNewest
PROPERTY WaitsEnd
