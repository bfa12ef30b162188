SPECIFICATION Spec
CONSTANTS
  Threads = {t1, t2}
  NoTid = NoTid
  Scripts <- OneUnlock
  MaxCalls = 2
INVARIANT NoSelfWait
CHECK_DEADLOCK FALSE
