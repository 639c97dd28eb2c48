CONSTANTS
  Idle = idle  a = a  b = b  c = c  b1 = b1  b2 = b2
  Thread = {idle, a, b, c}
  NGroup = 1
  Defunct = defunct  MpList = mplist
  WaitList = {defunct, mplist}
  InitPrio <- MCInitPrio
  InitReady <- MCInitReady
  Blocks <- MCBlocks
  MaxCount = 3
  Times = {"NO", "TICKS"}
  DetachBy = {b}
SPECIFICATION Spec
INVARIANTS BlocksOwned NoLostWakeup
