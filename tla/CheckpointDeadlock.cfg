\* A checkpoint that contradicts the chain may come while the daemon runs.
SPECIFICATION Spec
CONSTANTS
  t1 = t1
  t2 = t2
  t3 = t3
  Threads = {t1, t2, t3}
  Main = t1
  NoThread = NoThread
  MaxBlocks = 2
  Failing = {"running"}
INVARIANT
  NoCircularWait
