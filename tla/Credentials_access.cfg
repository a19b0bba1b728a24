SPECIFICATION LiveSpec
CONSTANTS
  None = None
  Nodes = {n1}
  MaxDisturbances = 4
INVARIANTS
  SecretIsReachable
PROPERTIES
  TokensAreReplaced
  NodesRegainAccess
CHECK_DEADLOCK FALSE
