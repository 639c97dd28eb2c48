------------------------------- MODULE Serial -------------------------------
(***************************************************************************)
(* A serial device opened as a file (serial.c, uart.c): a client thread    *)
(* reads, writes and polls it, other threads use the file system lock, and *)
(* the UART interrupts.  poll() is that of poll.c with fd_get and fd_put   *)
(* of dfs.c.                                                               *)
(*                                                                         *)
(* rx is the receive FIFO, queue device->wait_queue, uart the transmitter  *)
(* (its FIFO is full, its interrupt is enabled), pt the locals of poll().  *)
(* Bytes are numbered (history, modulo Numbers): recv is the next one to   *)
(* be received, got the next one to be read.                               *)
(***************************************************************************)
EXTENDS Lock, WaitQueue, Completion, FiniteSets

CONSTANTS Client,         \* the thread that uses the device
          Lockers,        \* threads that use the file system lock
          RxDone, TxDone, \* the two completions
          Bufsz,          \* serial->config.bufsz
          MaxBurst,       \* bytes the UART may hold when it interrupts
          MaxCount        \* the largest count of a read or write

ASSUME SerialAssumption ==
  /\ Client \in Thread \ {Idle} /\ Lockers \subseteq Thread \ {Client, Idle}
  /\ Completions = {RxDone, TxDone} /\ RxDone # TxDone /\ LockList \notin Completions
  /\ Bufsz \in Nat \ {0, 1}
  /\ MaxBurst \in Nat /\ MaxCount \in Nat

VARIABLES rx, queue, uart, pt, left, time, recv, got
bytes == <<rx, recv, got>>
local == <<left, time>>
serialVars == <<k, pc, lock, done, queue, uart, pt, local, bytes>>

Numbers == 2 * Bufsz
NoPoll == [triggered |-> FALSE, proc |-> FALSE, num |-> FALSE, istimeout |-> FALSE]

SerialInit ==
  /\ IpcInit /\ lock = Unlocked /\ done = [c \in Completions |-> 0]
  /\ rx = [buffer |-> [i \in 0 .. (Bufsz - 1) |-> 0], put |-> 0, get |-> 0,
           full |-> FALSE]
  /\ queue = EmptyQueue /\ uart = [full |-> FALSE, etbei |-> FALSE] /\ pt = NoPoll
  /\ left = 0 /\ time = "NO" /\ recv = 0 /\ got = 0

Call(l) == At(Client, "run") /\ Goto(Client, l) /\ UNCHANGED <<k, lock, done, queue, bytes>>
Inside(l, m) == At(Client, l) /\ Goto(Client, m) /\ UNCHANGED <<k, lock, done>>

-----------------------------------------------------------------------------
\* The receive FIFO: what it holds, a byte read, a byte received.
Held == (rx.put - rx.get) % Bufsz
Empty == rx.get = rx.put /\ ~rx.full
After(i) == IF i + 1 >= Bufsz THEN 0 ELSE i + 1

Popped == [rx EXCEPT !.get = After(@), !.full = FALSE]

\* mutant: the byte that is overwritten stays the next one to be read
Stored_full(r, ch) ==
  LET r1 == [r EXCEPT !.buffer[r.put] = ch, !.put = After(@)]
  IN  IF r1.put = r1.get THEN [r1 EXCEPT !.full = TRUE] ELSE r1

Stored(r, ch) ==
  LET r1 == [r EXCEPT !.buffer[r.put] = ch, !.put = After(@)]
  IN  IF r1.put = r1.get THEN [r1 EXCEPT !.get = After(@), !.full = TRUE] ELSE r1

-----------------------------------------------------------------------------
\* serial_fops_read, rt_serial_read, _serial_int_rx
ReadCall(n, wait) ==
  /\ Call("r_dev") /\ left' = n /\ time' = wait
  /\ UNCHANGED <<uart, pt>>

\* "If no data in FiFo - Suspend"
ReadEnter ==
  /\ Inside("r_dev", IF rx.get = rx.put THEN "r_init" ELSE "r_byte")
  /\ UNCHANGED <<queue, uart, pt, local, bytes>>

ReadSuspend ==
  /\ \/ rt_completion_init(Client, RxDone, "r_init", "r_cwait")
     \/ CompletionWait(Client, RxDone, "TICKS", "r_cwait", "r_csleep", "r_byte")
     \/ CompletionWoken(Client, RxDone, "r_cwoken", "r_byte")
  /\ UNCHANGED <<lock, queue, uart, pt, local, bytes>>

ReadByte ==
  /\ pc[Client] \in {"r_byte", "r_more"} /\ ~Empty
  /\ Inside(pc[Client], IF left = 1 THEN "run" ELSE "r_more")
  /\ rx' = Popped /\ left' = left - 1 /\ got' = (got + 1) % Numbers
  /\ time' = (IF left = 1 THEN "NO" ELSE time)
  /\ UNCHANGED <<queue, uart, pt, recv>>

\* the FIFO has run out: what was read, -EAGAIN, or wait
ReadEmpty ==
  /\ pc[Client] \in {"r_byte", "r_more"} /\ Empty
  /\ Inside(pc[Client], IF pc[Client] = "r_more" \/ time = "NO" THEN "run" ELSE "r_wait")
  /\ IF pc'[Client] = "run" THEN left' = 0 /\ time' = "NO" ELSE UNCHANGED local
  /\ UNCHANGED <<queue, uart, pt, bytes>>

\* rt_wqueue_wait, without a limit
ReadWait ==
  /\ At(Client, "r_wait")
  /\ IF queue.flag
     THEN queue' = [queue EXCEPT !.flag = FALSE] /\ UNCHANGED k /\ Goto(Client, "r_dev")
     ELSE /\ queue' = rt_wqueue_add(queue, WaitNode(Client))
          /\ k' = rt_thread_suspend(k, Client) /\ Goto(Client, "r_sleep")
  /\ UNCHANGED <<lock, done, uart, pt, local, bytes>>

ReadWoken ==
  /\ Inside("r_woken", "r_dev")
  /\ queue' = rt_wqueue_remove([queue EXCEPT !.flag = FALSE], WaitNode(Client))
  /\ UNCHANGED <<uart, pt, local, bytes>>

-----------------------------------------------------------------------------
\* serial_fops_write, rt_serial_write, _serial_int_tx; fh_uart_putc finds the
\* transmitter full and then enables its interrupt
WriteCall(n) ==
  Call("t_put") /\ left' = n /\ UNCHANGED <<uart, pt, time>>

WriteByte ==
  /\ Inside("t_put", CASE uart.full -> "t_irq" [] ~uart.full /\ left = 1 -> "run"
                       [] OTHER -> "t_put")
  /\ \/ uart.full  /\ UNCHANGED <<uart, left>>
     \/ ~uart.full /\ left' = left - 1 /\ \E f \in BOOLEAN : uart' = [uart EXCEPT !.full = f]
  /\ UNCHANGED <<queue, pt, time, bytes>>

WriteIrq ==
  /\ Inside("t_irq", "t_cwait") /\ uart' = [uart EXCEPT !.etbei = TRUE]
  /\ UNCHANGED <<queue, pt, local, bytes>>

WriteSuspend ==
  /\ \/ CompletionWait(Client, TxDone, "FOREVER", "t_cwait", "t_csleep", "t_put")
     \/ CompletionWoken(Client, TxDone, "t_cwoken", "t_put")
  /\ UNCHANGED <<lock, queue, uart, pt, local, bytes>>

-----------------------------------------------------------------------------
\* poll() with this device's file alone, asking for POLLIN
MyNode == PollNode(Client, {"IN", "ERR", "HUP"})

PollCall(msec) ==
  /\ Call("p_get") /\ time' = msec
  /\ pt' = [NoPoll EXCEPT !.proc = (msec # "NO"), !.istimeout = (msec = "NO")]
  /\ UNCHANGED <<uart, left>>

\* fd_get, fd_put
PollLock ==
  /\ \/ LockTake(Client, "p_get", "p_getting", "p_got")
     \/ LockRelease(Client, "p_got", "p_gots", "p_add")
     \/ LockTake(Client, "p_put", "p_putting", "p_hold")
     \/ LockRelease(Client, "p_hold", "p_holds", "p_next")
  /\ UNCHANGED <<done, queue, uart, pt, local, bytes>>

\* serial_fops_poll: the node is added, then the FIFO is looked at
PollAdd ==
  /\ Inside("p_add", "p_look")
  /\ queue' = IF pt.proc THEN rt_wqueue_add(queue, MyNode) ELSE queue
  /\ UNCHANGED <<uart, pt, local, bytes>>

PollLook ==
  /\ Inside("p_look", "p_put") /\ pt' = [pt EXCEPT !.num = ~Empty]
  /\ UNCHANGED <<queue, uart, local, bytes>>

\* the rest of the turn of poll_do
PollNext ==
  /\ Inside("p_next", IF pt.num \/ pt.istimeout THEN "p_down" ELSE "p_wait")
  /\ pt' = [pt EXCEPT !.proc = FALSE]
  /\ UNCHANGED <<queue, uart, local, bytes>>

\* poll_wait_timeout
PollWait ==
  /\ At(Client, "p_wait")
  /\ IF pt.triggered THEN UNCHANGED k /\ Goto(Client, "p_get")
     ELSE /\ LET k1 == rt_thread_suspend(k, Client)
             IN  k' = IF time = "TICKS" THEN Started(k1, Client) ELSE k1
          /\ Goto(Client, "p_sleep")
  /\ UNCHANGED <<lock, done, queue, uart, pt, local, bytes>>

PollWoken ==
  /\ Inside("p_woken", "p_get") /\ pt' = [pt EXCEPT !.istimeout = ~pt.triggered]
  /\ UNCHANGED <<queue, uart, local, bytes>>

poll_teardown ==
  /\ Inside("p_down", "run") /\ queue' = rt_wqueue_remove(queue, MyNode)
  /\ pt' = NoPoll /\ time' = "NO" /\ UNCHANGED <<uart, left, bytes>>

-----------------------------------------------------------------------------
\* dfs_lock and dfs_unlock in any other file operation
LockCall(t) ==
  /\ t \in Lockers /\ LockTake(t, "run", "l_taking", "l_hold")
  /\ UNCHANGED <<done, queue, uart, pt, local, bytes>>

Unlock(t) ==
  /\ t \in Lockers /\ LockRelease(t, "l_hold", "l_sched", "run")
  /\ UNCHANGED <<done, queue, uart, pt, local, bytes>>

-----------------------------------------------------------------------------
\* rt_hw_serial_isr, RT_SERIAL_EVENT_RX_IND, with n bytes in the UART: the FIFO,
\* rx_indicate (serial_fops_rx_ind wakes for POLLIN), the completion
Received[n \in 0 .. MaxBurst] ==
  IF n = 0 THEN rx ELSE Stored(Received[n - 1], (recv + n - 1) % Numbers)

Overwritten(n) == IF Held + n > Bufsz - 1 THEN Held + n - (Bufsz - 1) ELSE 0

IsrRx(n) ==
  /\ IrqOn
  /\ rx' = Received[n] /\ recv' = (recv + n) % Numbers
  /\ got' = (got + Overwritten(n)) % Numbers
  /\ queue' = WokenQueue(queue, {"IN"})
  /\ pt' = [pt EXCEPT !.triggered = @ \/ MyNode \in Nodes(queue.nodes)]
  /\ done' = DoneFlag(RxDone)
  /\ k' = rt_schedule(DoneKernel(WokenKernel(k, queue, {"IN"}), RxDone))
  /\ UNCHANGED <<pc, lock, uart, local>>

\* the transmitter sends what it holds
UartSends ==
  /\ uart.full /\ uart' = [uart EXCEPT !.full = FALSE]
  /\ UNCHANGED <<k, pc, lock, done, queue, pt, local, bytes>>

\* mutant: the transmit interrupt stays enabled
IsrTx_open ==
  /\ IrqOn /\ uart.etbei /\ ~uart.full
  /\ done' = DoneFlag(TxDone) /\ k' = rt_schedule(DoneKernel(k, TxDone))
  /\ UNCHANGED <<pc, lock, queue, uart, pt, local, bytes>>

\* rt_fh_uart_handler, UART_IIR_THREMPTY
IsrTx ==
  /\ IrqOn /\ uart.etbei /\ ~uart.full
  /\ uart' = [uart EXCEPT !.etbei = FALSE]
  /\ done' = DoneFlag(TxDone) /\ k' = rt_schedule(DoneKernel(k, TxDone))
  /\ UNCHANGED <<pc, lock, queue, pt, local, bytes>>

-----------------------------------------------------------------------------
Schedules == {<<"r_csleep", "r_cwoken">>, <<"r_sleep", "r_woken">>,
              <<"t_csleep", "t_cwoken">>, <<"p_getting", "p_got">>, <<"p_gots", "p_add">>,
              <<"p_putting", "p_hold">>, <<"p_holds", "p_next">>,
              <<"p_sleep", "p_woken">>, <<"l_taking", "l_hold">>, <<"l_sched", "run">>}

Rescheduled(t) ==
  /\ \E c \in Schedules : Schedule(t, c[1], c[2])
  /\ UNCHANGED <<lock, done, queue, uart, pt, local, bytes>>

SerialCall(t) ==
  \/ t = Client /\ \/ ReadEnter \/ ReadSuspend \/ ReadByte \/ ReadEmpty
                   \/ ReadWait \/ ReadWoken
                   \/ WriteByte \/ WriteIrq \/ WriteSuspend
                   \/ PollLock \/ PollAdd \/ PollLook \/ PollNext \/ PollWait \/ PollWoken
                   \/ poll_teardown
  \/ Unlock(t)
  \/ Rescheduled(t)

Other == <<lock, done, queue, uart, pt, local, bytes>>

SerialNext ==
  \/ \E t \in Thread : SerialCall(t) \/ LockCall(t)
  \/ \E n \in 1 .. MaxCount : WriteCall(n) \/ \E wait \in {"NO", "FOREVER"} : ReadCall(n, wait)
  \/ \E msec \in Time : PollCall(msec)
  \/ \E n \in 1 .. MaxBurst : IsrRx(n)
  \/ UartSends \/ IsrTx
  \/ TickSlice /\ UNCHANGED Other
  \/ \E t \in Thread : TickTimeout(t) /\ UNCHANGED Other

\* The tick and the UART go on, a thread inside a call takes its next step when it
\* keeps getting its turn, and the file system lock is not held for ever.
SerialFairness ==
  /\ WF_serialVars(TickSlice /\ UNCHANGED Other)
  /\ WF_serialVars(TickTimeout(Client) /\ UNCHANGED Other)
  /\ WF_serialVars(UartSends) /\ WF_serialVars(IsrTx)
  /\ \A t \in Lockers \cup {Client} : SF_serialVars(SerialCall(t))

SerialSpec == SerialInit /\ [][SerialNext]_serialVars
SerialFairSpec == SerialSpec /\ SerialFairness

-----------------------------------------------------------------------------
SerialTypeOK ==
  /\ k \in KernelState /\ done \in [Completions -> 0 .. UINT_MAX]
  /\ rx.put \in 0 .. (Bufsz - 1) /\ rx.get \in 0 .. (Bufsz - 1)
  /\ left \in 0 .. MaxCount /\ time \in Time

\* The FIFO holds the latest bytes received and not read, in order, at most one
\* less than its size; is_full is set only while that many are there.
RxInOrder ==
  /\ SerialTypeOK
  /\ \A i \in 0 .. (Held - 1) : rx.buffer[(rx.get + i) % Bufsz] = (got + i) % Numbers
  /\ recv = (got + Held) % Numbers
  /\ rx.full => Held = Bufsz - 1

Locked(t) == pc[t] \in {"p_got", "p_hold", "l_hold"} /\ k.stat[t] = "READY"

\* dfs_lock ("this function will lock device file system") keeps other threads out,
\* except during a poll() whose node has been triggered: a byte that arrives while it
\* waits for the lock lets it go on without, and the mark stays for the rest of the call.
FsLockHolds ==
  \A t, u \in Lockers \cup {Client} : t # u /\ Locked(t) /\ Locked(u) => pt.triggered

\* The transmit flag never counts completions nobody waits for.
TxPaired ==
  /\ done[TxDone] <= 1
  /\ pc[Client] \notin {"t_cwait", "t_csleep", "t_cwoken"} => done[TxDone] = 0

InRead  == pc[Client] \in {"r_dev", "r_init", "r_cwait", "r_csleep", "r_cwoken", "r_byte",
                           "r_more", "r_wait", "r_sleep", "r_woken"}
InWrite == pc[Client] \in {"t_put", "t_irq", "t_cwait", "t_csleep", "t_cwoken"}
InPoll  == pc[Client] \in {"p_get", "p_getting", "p_got", "p_gots", "p_add", "p_look",
                           "p_put", "p_putting", "p_hold", "p_holds", "p_next", "p_wait",
                           "p_sleep", "p_woken"}

\* A read or poll does not wait on while there is something to read, wherever in
\* the call the byte arrives and however it races the one-tick wait; a poll with a
\* time limit and a write come to an end.
CallsEnd ==
  /\ []<>(InRead \/ InPoll => Empty)
  /\ []<>~(InPoll /\ time # "FOREVER")
  /\ []<>~InWrite
=============================================================================
