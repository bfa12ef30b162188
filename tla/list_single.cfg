SPECIFICATION Spec
CONSTANTS
  Threads = {t1}
  NoTid = NoTid
  Entries = {e1, e2, e3}
  HEAD = HEAD
  NULL = NULL
  Keys = {k1, k2}
  Ids = {21}
  MaxLen = 4
  Ops <- AllOps
SYMMETRY Addresses
INVARIANTS TypeOK WellLinked LenCovers OnlyReportDangles AllDestroyed
PROPERTIES SearchExact LockReturned
