CONSTANTS
  Idle = idle  a = a  b = b  c = c
  Thread = {idle, a, b, c}
  NGroup = 1
  Defunct = defunct  RecvList = recv  SendList = send
  WaitList = {defunct, recv, send}
  InitPrio <- MCInitPrio
  InitReady <- MCInitReady
  Flag = "FIFO"
  MaxMsgs = 2
  Msg = {x, y}  NoMsg = none
  Senders = {a, b, c}
  Receivers = {a, b}
  IsrMsg = {y}
  Times = {"NO", "TICKS"}
  ResetBy = {c}
  DeleteBy = {c}
  Created = TRUE
SPECIFICATION Spec
INVARIANTS NodesKept NoLostWakeup DeleteWakesAll
PROPERTY IsChannel
