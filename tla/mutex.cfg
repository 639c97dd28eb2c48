CONSTANTS
  Idle = idle  hi = hi  mid = mid  lo = lo
  Thread = {idle, hi, mid, lo}
  NGroup = 1
  Defunct = defunct  NULL = null
  WaitList = {defunct, m1}
  Mutexes = {m1}
  InitPrio <- MCInitPrio
  InitReady <- MCInitReady
  HoldModulus = 4
  MaxHold = 2
  Times = {"NO", "TICKS", "FOREVER"}
  DetachBy = {hi}
  Sleepers = {hi, mid, lo}
SPECIFICATION FairSpec
INVARIANTS OwnerHolds FieldsAgree Inherits PriorityRestored
PROPERTY UrgentGetsThrough
