SPECIFICATION FairSpec
CONSTANTS
  Threads = {t1, t2, t3}
  NoTid = NoTid
  Scripts <- Flat
  MaxCalls = 2
INVARIANTS TypeOK NoSelfWait
PROPERTY CallsReturn
