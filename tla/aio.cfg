CONSTANTS
  Idle = idle  w = w  c = c  d = d
  Thread = {idle, w, c, d}
  NGroup = 1
  Defunct = defunct  WorkSem = semlist  NULL = null
  WaitList = {defunct, semlist}
  InitPrio <- MCInitPrio
  InitReady <- MCInitReady
  Worker = w
  Clients = {c, d}
  Cb = {x}
  Work = {x, p}
SPECIFICATION AioFairSpec
INVARIANTS WorkNoticed CancelIsFinal
PROPERTIES SettledStays AioSettles
