SPECIFICATION Spec
CONSTANTS
  Addrs = {a1, a2}
  Entries = {e1, e2, e3}
  NULL = NULL
  MAX_SLOTS = 1
  HOT = 1
  BYTE = 3
  SIZE_MOD = 4
  MaxUsage = 7
  Sizes = {0, 1}
  Nums = {1}
  Ids = {21}
  Limits = {0}
  META = 1
  Calls <- RegisterCalls
  ReallocMayMove = FALSE
SYMMETRY Addresses
VIEW Seen
INVARIANTS OwnedOnce ExitClean
PROPERTY Implements
