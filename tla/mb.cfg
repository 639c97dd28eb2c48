CONSTANTS
  Idle = idle  a = a  b = b  c = c
  Thread = {idle, a, b, c}
  NGroup = 1
  Defunct = defunct  RecvList = recv  SendList = send
  WaitList = {defunct, recv, send}
  InitPrio <- MCInitPrio
  InitReady <- MCInitReady
  Flag = "FIFO"
  Size = 2
  Msg = {x, y}  NoMsg = none
  Senders = {b, c}
  Receivers = {a}
  IsrMsg = {x}
  Times = {"NO", "TICKS"}
  ResetBy = {c}
  DeleteBy = {b}
SPECIFICATION Spec
INVARIANTS NoLostWakeup DeleteWakesAll
PROPERTY IsChannel
