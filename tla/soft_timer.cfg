CONSTANTS
  Idle = idle  TimerThread = timer  hi = hi  lo = lo  x = x  y = y
  Thread = {idle, timer, lo}
  NGroup = 1
  Defunct = defunct
  WaitList = {defunct}
  InitPrio <- MCInitPrio
  InitReady <- MCInitReady
  Timer = {x, y}  NoTimer = NoTimer
  Periodic = {x, y}
  InitTimer = NoTimer
  Ticks = {0, 2}
  TickModulus = 12
  MaxLate = 1
  Stride = 2
  Uses <- UsesX
  IsrStarts = {y}
  CallStarts = {}
  CallStops <- XCallsX
SPECIFICATION FairTimerSpec
INVARIANTS Sorted ActiveIsLinked SleepsOnlyPast
PROPERTIES StoppedNotCalled Fires
