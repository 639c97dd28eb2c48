CONSTANTS
  Idle = idle  a = a  b = b
  Thread = {idle, a, b}
  NGroup = 1
  Defunct = defunct  LockList = locklist  RT_NULL = null
  RxDone = rxdone  TxDone = txdone
  WaitList = {defunct, locklist, rxdone, txdone}
  Completions = {rxdone, txdone}
  UINT_MAX = 2
  InitPrio <- MCInitPrio
  InitReady <- MCInitReady
  Client = a
  Lockers = {b}
  Bufsz = 3
  MaxBurst = 2
  MaxCount = 2
SPECIFICATION SerialFairSpec
INVARIANTS RxInOrder FsLockHolds TxPaired
PROPERTY CallsEnd
