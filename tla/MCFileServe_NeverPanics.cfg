CONSTANTS Files = 2
          Sizes = {0, 1, 3, 4}
          Ranges = {1, 3}
SPECIFICATION Spec
INVARIANT NeverPanics
\* A paste whose answer a line to the REPL dropped waits for ever.
CHECK_DEADLOCK FALSE
