CONSTANTS
  Idle = idle  a = a  b = b  c = c  f = f  g = g
  Thread = {idle, a, b, c}
  NGroup = 1
  Defunct = defunct  EventList = evlist
  WaitList = {defunct, evlist}
  InitPrio <- MCInitPrio
  InitReady <- MCInitReady
  Flag = "FIFO"
  Bits = {f, g}
  Masks = {{f}, {f, g}}
  Senders = {c}
  Receivers = {a, b}
  IsrMasks = {{f}}
  EventTimes = {"NO", "TICKS"}
  ResetBy = {c}
  DeleteBy = {c}
  MaxSends = 2
SPECIFICATION EventSpec
INVARIANTS NoSatisfiedWaiter ClearedOnce
