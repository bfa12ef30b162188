SPECIFICATION FileSpec
CONSTANTS
  FileSizes = {0, 1}
  Addrs = {a1, a2}
  Entries = {e1, e2}
  NULL = NULL
  MAX_SLOTS = 2
  HOT = 1
  BYTE = 3
  SIZE_MOD = 4
  MaxUsage = 4
  Sizes = {1}
  Nums = {1}
  Ids = {0, 20, 21}
  Limits = {0, 1}
  META = 1
  Calls <- FileCalls
  ReallocMayMove = FALSE
SYMMETRY Addresses
VIEW Seen
INVARIANTS OnlyReportUndefined MountUndone ExitClean
PROPERTY FilesImplement
