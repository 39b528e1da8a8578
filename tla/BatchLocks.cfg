\* Three threads; a checkpoint may contradict the chain at start only.
SPECIFICATION FairSpec
CONSTANTS
  t1 = t1
  t2 = t2
  t3 = t3
  Threads = {t1, t2, t3}
  Main = t1
  NoThread = NoThread
  MaxBlocks = 2
  Failing = {"start"}
INVARIANTS
  NoCircularWait
  BatchUnderLock
  BatchIsOwn
  PrepareNeverWaits
PROPERTIES
  OperationsEnd
