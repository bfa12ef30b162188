SPECIFICATION Spec
CONSTANTS
  Threads = {t1, t2, t3}
  NoTid = NoTid
  Scripts <- OneUnlock
  MaxCalls = 2
INVARIANTS MutualExclusion ShortcutOnlyByOwner
\* A walking thread can come to wait for itself: see mutex_self_wait.
CHECK_DEADLOCK FALSE
