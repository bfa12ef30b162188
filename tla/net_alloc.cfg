SPECIFICATION Spec
CONSTANTS
  Addrs = {a1, a2, a3}
  Entries = {e1, e2, e3}
  NULL = NULL
  MAX_SLOTS = 2
  HOT = 1
  BYTE = 4
  SIZE_MOD = 16
  MaxUsage = 15
  Sizes = {0, 1, 3, 15}
  Nums = {1}
  Ids = {21}
  Limits = {0, 4}
  META = 1
  Calls <- AllocCalls
  ReallocMayMove = TRUE
SYMMETRY Addresses
VIEW Seen
INVARIANTS TypeOK SizeWithinBlock UsageIsTracked IInv
PROPERTIES LimitKept Implements
