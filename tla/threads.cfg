SPECIFICATION ThreadsSpec
CONSTANTS
  Threads = {t1, t2}
  FreesApart = TRUE
  Addrs = {a1, a2}
  Entries = {e1, e2}
  NULL = NULL
  MAX_SLOTS = 1
  HOT = 1
  BYTE = 3
  SIZE_MOD = 3
  MaxUsage = 2
  Sizes = {1}
  Nums = {1}
  Ids = {21}
  Limits = {0, 2}
  META = 1
  Calls <- MixedCalls
  ReallocMayMove = FALSE
SYMMETRY Alike
INVARIANTS NeverUndefined CacheCoherent EachAccounted HeldIsTracked UsageSettled
