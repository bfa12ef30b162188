SPECIFICATION Spec
CONSTANTS
  Addrs = {a1, a2, a3}
  Entries = {e1, e2, e3}
  NULL = NULL
  MAX_SLOTS = 2
  HOT = 1
  BYTE = 3
  SIZE_MOD = 16
  MaxUsage = 31
  Sizes = {1}
  Nums = {1}
  Ids = {21}
  Limits = {0}
  META = 1
  Calls <- CacheCalls
  ReallocMayMove = FALSE
SYMMETRY Addresses
VIEW Seen
INVARIANTS CacheCoherent LookupExact CachedIsMarked IInv
PROPERTY Implements
