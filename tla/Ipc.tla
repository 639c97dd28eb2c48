-------------------------------- MODULE Ipc ---------------------------------
(***************************************************************************)
(* What the kernel's IPC objects share: the booted kernel, the control     *)
(* point of each thread, blocking with a time-out, and the tick interrupt. *)
(* One step is one interrupt-disabled section.  Threads neither start nor  *)
(* die here (module Threads), and the scheduler is never locked.           *)
(***************************************************************************)
EXTENDS Kernel

CONSTANT InitReady   \* the ready lists once every thread is started

ASSUME IpcAssumption ==
  /\ InitReady \in [Prio -> Seq(Thread)]
  /\ \A p \in Prio :
       /\ Injective(InitReady[p])
       /\ Nodes(InitReady[p]) = {t \in Thread : InitPrio[t] = p}

\* waiting times: RT_WAITING_NO, a number of ticks, RT_WAITING_FOREVER
Time == {"NO", "TICKS", "FOREVER"}

\* control points at which a loop runs on with interrupts disabled, or with the
\* scheduler locked: what a tick does then shows when the lock is released
IrqOff == {"reset", "w_acking"}

VARIABLES k, pc

Booted ==
  LET group == {number(InitPrio[t]) : t \in Thread}
      table == [g \in Group |->
                  {high_mask(InitPrio[t]) :
                     t \in {u \in Thread : number(InitPrio[u]) = g}}]
      first == rt_ffs(group)
  IN  [cur   |-> Head(InitReady[first * 8 + rt_ffs(table[first])]),
       stat  |-> [t \in Thread |-> "READY"],
       prio  |-> InitPrio,
       err   |-> [t \in Thread |-> RT_EOK],
       armed |-> [t \in Thread |-> FALSE],
       ready |-> InitReady,
       wait  |-> [q \in WaitList |-> <<>>],
       table |-> table,
       group |-> group,
       nest  |-> 0]

IpcInit == k = Booted /\ pc = [t \in Thread |-> "run"]

At(t, l) == k.cur = t /\ pc[t] = l
Goto(t, m) == pc' = [pc EXCEPT ![t] = m]

\* rt_schedule(); the caller goes on at m when it is switched in again
Schedule(t, l, m) == At(t, l) /\ k' = rt_schedule(k) /\ Goto(t, m)

\* the blocking half of a take, receive or send: reset the error number, link
\* into list q, start the thread timer of a limited wait
Block(ks, q, t, flag, time) ==
  LET k1 == rt_ipc_list_suspend(SetErr(ks, t, RT_EOK), q, t, flag)
  IN  IF time = "TICKS" THEN Started(k1, t) ELSE k1

\* rt_thread_sleep: what a thread does between two uses of the object
rt_thread_sleep(t) ==
  /\ At(t, "run") /\ t # Idle
  /\ k' = Started(rt_thread_suspend(k, t), t) /\ Goto(t, "sleeping")

SleepReturn(t) ==
  /\ At(t, "slept") /\ Goto(t, "run")
  /\ k' = IF k.err[t] = RT_ETIMEOUT THEN SetErr(k, t, RT_EOK) ELSE k

Sleeping(t) == Schedule(t, "sleeping", "slept") \/ SleepReturn(t)

\* rt_ipc_list_resume_all looks at list q with interrupts enabled, then takes its
\* head with them disabled (at l) and looks again (at m).  If the list is empty by
\* then the list head is taken for a thread, and RT_ASSERT of rt_thread_resume
\* stops the system.
ResumeAllTurn(t, q, l, m) ==
  /\ At(t, l)
  /\ IF k.wait[q] # <<>>
     THEN k' = rt_ipc_list_resume_error(k, q) /\ Goto(t, m)
     ELSE UNCHANGED k /\ Goto(t, "crashed")

IrqOn == pc[k.cur] \notin IrqOff

\* rt_tick_increase
TickSlice == IrqOn /\ k' = rt_thread_yield(k) /\ UNCHANGED pc
TickTimeout(t) == IrqOn /\ k.armed[t] /\ k' = rt_thread_timeout(k, t) /\ UNCHANGED pc

\* a thread with control point in PCs that a wake-up has let go on
Woken(PCs) == {t \in Thread : /\ pc[t] \in PCs
                              /\ k.stat[t] = "READY" /\ k.err[t] = RT_EOK}
=============================================================================
