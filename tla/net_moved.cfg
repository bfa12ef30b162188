SPECIFICATION Spec
CONSTANTS
  Addrs = {a1, a2}
  Entries = {e1, e2}
  NULL = NULL
  MAX_SLOTS = 1
  HOT = 1
  BYTE = 3
  SIZE_MOD = 16
  MaxUsage = 31
  Sizes = {1}
  Nums = {1}
  Ids = {21}
  Limits = {0}
  META = 1
  Calls <- CacheCalls
  ReallocMayMove = TRUE
INVARIANT NeverUndefined
