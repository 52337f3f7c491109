CONSTANTS
  levels = 3
  ROOT_HISTORY_SIZE = 3
  Leaf = {a, b}
  ZERO_VALUE = zero
  Unset = unset
SPECIFICATION SyncSpec
INVARIANTS LaggingRootAccepted PathsVerify
PROPERTY ImplementsRootRegister
CHECK_DEADLOCK FALSE
