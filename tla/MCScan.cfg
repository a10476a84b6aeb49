SPECIFICATION FairSpec
CONSTANTS
  Targets = 3
  MaxConcurrent = 2
  Timeout = 2
  Answers = {"hybrid-egfx", "hybrid", "ssl-egfx", "standard", "needs-hybrid", "refuses-ssl"}
  Capabilities = {"reachable", "tls", "nla", "egfx", "misspelt"}
INVARIANTS VerdictSound RowsInOrder
PROPERTY ScanEnds
