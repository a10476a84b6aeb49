CONSTANTS Files = 3
          Sizes = {0, 1, 3, 4}
          Ranges = {1, 3}
SPECIFICATION FairSpec
INVARIANT PastedIntact
PROPERTY PasteFinishes
CHECK_DEADLOCK FALSE
