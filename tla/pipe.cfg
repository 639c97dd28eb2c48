CONSTANTS
  Idle = idle  r = r  w = w
  Thread = {idle, r, w}
  NGroup = 1
  Defunct = defunct  LockList = locklist  RT_NULL = null
  WaitList = {defunct, locklist}
  InitPrio <- MCInitPrio
  InitReady <- MCInitReady
  BufSize = 2
  LenModulus = 4
  Readers = {r}
  Writers = {w}
  CallCounts = {3, 5}
SPECIFICATION PipeFairSpec
INVARIANTS InOrder RingIsQueue
PROPERTY CallsEnd
