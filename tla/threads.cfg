CONSTANTS
  Main = main  Idle = idle  a = a  b = b  c = c  d = d
  Thread = {main, idle, a, b, c, d}
  NGroup = 2
  Defunct = defunct
  WaitList = {defunct}
  InitPrio <- MCInitPrio
  Parent <- MCParent
  Sleepers = {main, a}
  Exits = {b, d}
  Victims = {c}
  Control <- MCControl
  Static = {b, d}
  Cleanup = {b}
  NewPrio <- MCNewPrio
  MaxNest = 1
SPECIFICATION Spec
INVARIANTS ListsOK Inv
PROPERTIES SwitchToHighest LockedNotPreempted
