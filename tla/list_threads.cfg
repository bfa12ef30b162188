SPECIFICATION Spec
CONSTANTS
  Threads = {t1, t2}
  NoTid = NoTid
  Entries = {e1, e2, e3}
  HEAD = HEAD
  NULL = NULL
  Keys = {k1}
  Ids = {21}
  MaxLen = 3
  Ops <- SharedOps
SYMMETRY Addresses
INVARIANTS WellLinked OnlyReportDangles
PROPERTY SearchExact
\* A walking thread can come to wait for itself: see mutex_self_wait.
CHECK_DEADLOCK FALSE
