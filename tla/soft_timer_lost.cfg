CONSTANTS
  Idle = idle  TimerThread = timer  hi = hi  lo = lo  x = x  y = y
  Thread = {idle, timer, lo}
  NGroup = 1
  Defunct = defunct
  WaitList = {defunct}
  InitPrio <- MCInitPrio
  InitReady <- MCInitReady
  Timer = {x, y}  NoTimer = NoTimer
  Periodic = {x}
  InitTimer = NoTimer
  Ticks = {2, 4}
  TickModulus = 16
  MaxLate = 1
  Stride = 2
  Uses = {}
  IsrStarts = {x}
  CallStarts = {}
  CallStops = {}
SPECIFICATION TimerSpec
INVARIANT SleepsOnlyIdle
