-------------------------------- MODULE Aio ---------------------------------
(***************************************************************************)
(* POSIX asynchronous I/O (posix_aio.c) on its work queue, next to other   *)
(* work of the same queue.                                                 *)
(*                                                                         *)
(* result is cb->aio_result of each control block: not used yet,           *)
(* -EINPROGRESS, -ECANCELED, a number of bytes ("COUNT"), 0 or an error.   *)
(* op is what the request of a block is for, arg the work a thread's call  *)
(* is about.                                                               *)
(***************************************************************************)
EXTENDS WorkQueue

CONSTANTS Cb,       \* control blocks; each holds its work
          Clients   \* threads that submit and cancel

ASSUME AioAssumption == Cb \subseteq Work /\ Clients \subseteq Thread \ {Idle, Worker}

VARIABLES result, op, arg
aioVars == <<k, pc, wq, result, op, arg>>

Plain == Work \ Cb
Op == {"data", "fsync"}

AioInit ==
  /\ IpcInit /\ WorkQueueInit
  /\ result = [b \in Cb |-> "NONE"] /\ op = [b \in Cb |-> "data"]
  /\ arg = [t \in Thread |-> NULL]

Call(t, w, l) ==
  /\ At(t, "run") /\ t \in Clients /\ Goto(t, l)
  /\ arg' = [arg EXCEPT ![t] = w] /\ UNCHANGED <<k, wq>>

Inside(t, l, m) == At(t, l) /\ Goto(t, m) /\ UNCHANGED <<k, wq, op, arg>>

-----------------------------------------------------------------------------
\* "Simultaneous asynchronous operations using the same aiocbp produce undefined
\* results": a block is not submitted while in progress or while it is cancelled,
\* nor cancelled before it is queued.
Queueing(b)   == \E t \in Clients : arg[t] = b /\ pc[t] = "s_queue"
Cancelling(b) ==
  \E t \in Clients : arg[t] = b /\ pc[t] \in {"c_sync", "c_sleep", "c_look", "c_mark"}

\* aio_read, aio_write, aio_fsync
Submit(t, b, o) ==
  /\ result[b] # "INPROGRESS" /\ ~Cancelling(b)
  /\ Call(t, b, "s_queue")
  /\ result' = [result EXCEPT ![b] = "INPROGRESS"] /\ op' = [op EXCEPT ![b] = o]

\* rt_workqueue_dowork with other work
DoWork(t, w) == Call(t, w, "s_queue") /\ UNCHANGED <<result, op>>

\* rt_workqueue_cancel_work and rt_workqueue_cancel_work_sync with other work
CancelWork(t, w) ==
  /\ t \in Clients /\ Cancel(t, w, "run", "run") /\ UNCHANGED <<result, op, arg>>

CancelWorkSync(t, w) == Call(t, w, "k_sync") /\ UNCHANGED <<result, op>>

\* aio_cancel: "AIO already done" and "AIO is already canceled" change nothing
aio_cancel(t, b) ==
  /\ result[b] \notin {"NONE", "COUNT", "CANCELED"} /\ ~Queueing(b)
  /\ Call(t, b, "c_sync") /\ UNCHANGED <<result, op>>

\* mutant: the request is taken to be cancelled in either case
CancelLook_blind(t) == Inside(t, "c_look", "c_mark") /\ UNCHANGED result

\* "1. work is successfully canceled 2. work is finished"
CancelLook(t) ==
  /\ Inside(t, "c_look", IF result[arg[t]] = "COUNT" THEN "done" ELSE "c_mark")
  /\ UNCHANGED result

CancelMark(t) ==
  /\ Inside(t, "c_mark", "done")
  /\ result' = [result EXCEPT ![arg[t]] = "CANCELED"]

Return(t) ==
  /\ At(t, "done") /\ Goto(t, "run") /\ arg' = [arg EXCEPT ![t] = NULL]
  /\ UNCHANGED <<k, wq, result, op>>

QueueCalls(t) ==
  /\ \/ Queue(t, arg[t], "s_queue", "s_resume", "done")
     \/ QueueResume(t, "s_resume", "s_sched")
     \/ CancelSync(t, arg[t], "c_sync", "c_sleep", "c_look")
     \/ CancelSync(t, arg[t], "k_sync", "k_sleep", "done")
     \/ /\ \/ Schedule(t, "s_sched", "done")
           \/ Schedule(t, "c_sleep", "c_look") \/ Schedule(t, "k_sleep", "done")
        /\ UNCHANGED wq
  /\ UNCHANGED <<result, op, arg>>

-----------------------------------------------------------------------------
\* work_func: the transfer, in which the worker may wait for the device
FuncWait ==
  /\ At(Worker, "w_func") /\ Goto(Worker, "w_wait")
  /\ k' = Started(rt_thread_suspend(k, Worker), Worker) /\ UNCHANGED <<wq, result, op, arg>>

FuncWaits ==
  Schedule(Worker, "w_wait", "w_end") /\ UNCHANGED <<wq, result, op, arg>>

\* aio_read_work, aio_write_work, aio_fync_work
Outcomes(b) == {"ERROR", "ZERO"} \cup IF op[b] = "data" THEN {"COUNT"} ELSE {}

FuncEnd ==
  /\ \/ Inside(Worker, "w_func", "w_clean") \/ Inside(Worker, "w_end", "w_clean")
  /\ IF current \in Cb
     THEN \E r \in Outcomes(current) : result' = [result EXCEPT ![current] = r]
     ELSE UNCHANGED result

WorkerRuns ==
  \/ WorkerSteps /\ UNCHANGED <<result, op, arg>>
  \/ FuncWait \/ FuncWaits \/ FuncEnd

-----------------------------------------------------------------------------
AioCall(t) ==
  \/ t = Worker /\ WorkerRuns
  \/ t \in Clients /\ (QueueCalls(t) \/ CancelLook(t) \/ CancelMark(t) \/ Return(t))

Timeout(t) == TickTimeout(t) /\ UNCHANGED <<wq, result, op, arg>>

Slice == TickSlice /\ UNCHANGED <<wq, result, op, arg>>

AioNext ==
  \/ \E t \in Thread :
       \/ AioCall(t)
       \/ \E b \in Cb : aio_cancel(t, b) \/ \E o \in Op : Submit(t, b, o)
       \/ \E w \in Plain : DoWork(t, w) \/ CancelWork(t, w) \/ CancelWorkSync(t, w)
       \/ Timeout(t)
  \/ Slice

\* The devices answer, the tick divides the processor among threads of one priority,
\* and the threads that keep getting their turn go on.
AioFairness ==
  /\ WF_aioVars(Timeout(Worker)) /\ WF_aioVars(AioCall(Worker)) /\ SF_aioVars(Slice)
  /\ \A t \in Clients : SF_aioVars(AioCall(t))

AioSpec == AioInit /\ [][AioNext]_aioVars
AioFairSpec == AioSpec /\ AioFairness

\* Assumed by a theorem: the worker is scheduled before those who submit and cancel.
Outranks == \A t \in Clients : InitPrio[Worker] < InitPrio[t]

-----------------------------------------------------------------------------
Result == {"NONE", "INPROGRESS", "CANCELED", "COUNT", "ZERO", "ERROR"}

AioTypeOK ==
  /\ k \in KernelState /\ works \in Seq(Work) /\ Injective(works)
  /\ current \in Work \cup {NULL}
  /\ result \in [Cb -> Result] /\ op \in [Cb -> Op] /\ arg \in [Thread -> Work \cup {NULL}]

\* No work is left in the list of a sleeping worker, however the calls of several
\* clients interleave: one that queued it is still to resume the worker.  Work that
\* is running is not queued.  For clients less urgent than the worker: one as urgent
\* can queue between the worker's look at the list and its suspension.
WorkNoticed ==
  /\ AioTypeOK /\ current \notin Nodes(works)
  /\ works # <<>> /\ k.stat[Worker] = "SUSPEND" /\ pc[Worker] \in {"w_suspended", "w_take"} =>
       \E t \in Clients : pc[t] = "s_resume"

\* After rt_workqueue_cancel_work_sync the work is neither queued nor running, so
\* aio_cancel can settle the request alone.
CancelIsFinal ==
  \A t \in Clients :
    pc[t] \in {"c_look", "c_mark"} /\ k.stat[t] = "READY" =>
      arg[t] \notin Nodes(works) \cup {current}

\* A settled request stays as it is until the block is submitted again: what was
\* cancelled is not carried out after all, and what was carried out is not called
\* cancelled.  The exception is a transfer that ended with 0 or an error, which
\* aio_cancel takes for one it has cancelled ("if (cb->aio_result > 0)").
SettledStays ==
  [][\A b \in Cb :
       /\ result[b] \in {"COUNT", "CANCELED"} => result'[b] \in {result[b], "INPROGRESS"}
       /\ result[b] \in {"ZERO", "ERROR"} => result'[b] \in {result[b], "INPROGRESS", "CANCELED"}
    ]_aioVars

\* Every request is settled in the end: done, failed or cancelled.  The exception is
\* a worker that was resumed when others had emptied the list, and has taken the list
\* head for a work.
AioSettles ==
  \A b \in Cb :
    result[b] = "INPROGRESS" ~> result[b] # "INPROGRESS" \/ pc[Worker] = "crashed"
=============================================================================
