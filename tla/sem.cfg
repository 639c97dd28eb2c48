CONSTANTS
  Idle = idle  a = a  b = b  c = c
  Thread = {idle, a, b, c}
  NGroup = 1
  Defunct = defunct  SemList = semlist
  WaitList = {defunct, semlist}
  InitPrio <- MCInitPrio
  InitReady <- MCInitReady
  Flag = "PRIO"
  InitValue = 1
  Modulus = 3
  MaxTokens = 3
  Times = {"NO", "TICKS"}
  ResetBy = {b}
  DetachBy = {a}
  Sleepers = {a}
SPECIFICATION FairSpec
INVARIANTS TokensKept NoLostWakeup SuspendListOK
PROPERTY TimedTakeReturns
