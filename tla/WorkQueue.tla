----------------------------- MODULE WorkQueue ------------------------------
(***************************************************************************)
(* A work queue (workqueue.c): a worker thread that suspends itself when   *)
(* there is no work, and the calls that queue and cancel work.             *)
(*                                                                         *)
(* works is queue->work_list, current queue->work_current.  queue->sem is  *)
(* its list of waiting threads: its value is 0 whenever a thread looks.    *)
(***************************************************************************)
EXTENDS Ipc

CONSTANTS Worker,    \* queue->work_thread
          Work,
          WorkSem,   \* queue->sem.parent.suspend_thread
          NULL

ASSUME WorkQueueAssumption ==
  /\ Worker \in Thread \ {Idle} /\ NULL \notin Work
  /\ WorkSem \in WaitList \ {Defunct}

VARIABLES works, current
wq == <<works, current>>

\* rt_workqueue_create
WorkQueueInit == works = <<>> /\ current = NULL

-----------------------------------------------------------------------------
\* _workqueue_thread_entry.  The list is looked at and the worker suspends itself
\* with interrupts enabled.
WorkerLook ==
  /\ At(Worker, "run") /\ Goto(Worker, IF works = <<>> THEN "w_idle" ELSE "w_take")
  /\ UNCHANGED <<k, wq>>

WorkerIdle ==
  /\ At(Worker, "w_idle") /\ Goto(Worker, "w_suspended")
  /\ k' = rt_thread_suspend(k, Worker) /\ UNCHANGED wq

\* "we have work to do with": if there is none, the list head is taken for it
WorkerTake ==
  /\ At(Worker, "w_take")
  /\ IF works # <<>>
     THEN works' = Tail(works) /\ current' = Head(works) /\ Goto(Worker, "w_func")
     ELSE Goto(Worker, "crashed") /\ UNCHANGED wq
  /\ UNCHANGED k

WorkerClean ==
  /\ At(Worker, "w_clean") /\ Goto(Worker, "w_ack")
  /\ current' = NULL /\ UNCHANGED <<k, works>>

\* _workqueue_work_completion: a loop with the scheduler locked, which releases the
\* semaphore until there is a token left to take
WorkerAck ==
  \E l \in {"w_ack", "w_acking"} :
    /\ At(Worker, l) /\ UNCHANGED wq
    /\ IF k.wait[WorkSem] # <<>>
       THEN k' = rt_ipc_list_resume(k, WorkSem) /\ Goto(Worker, "w_acking")
       ELSE UNCHANGED k /\ Goto(Worker, "w_acked")

WorkerSteps ==
  \/ WorkerLook \/ WorkerIdle \/ WorkerTake \/ WorkerClean \/ WorkerAck
  \/ /\ Schedule(Worker, "w_suspended", "w_take") \/ Schedule(Worker, "w_acked", "run")
     /\ UNCHANGED wq

-----------------------------------------------------------------------------
Queued(w) == Append(Unlink(works, w), w)

\* rt_workqueue_dowork, rt_workqueue_critical_work: from l to m, or to r when the
\* worker is still to be resumed
Queue(t, w, l, r, m) ==
  /\ At(t, l)
  /\ IF current = w THEN Goto(t, m) /\ UNCHANGED wq
     ELSE /\ works' = Queued(w) /\ UNCHANGED current
          /\ Goto(t, IF current = NULL THEN r ELSE m)
  /\ UNCHANGED k

\* mutant: the worker is left to find the work by itself
QueueResume_idle(t, r, s) == At(t, r) /\ Goto(t, s) /\ UNCHANGED <<k, wq>>

QueueResume(t, r, s) ==
  At(t, r) /\ k' = rt_thread_resume(k, Worker) /\ Goto(t, s) /\ UNCHANGED wq

\* rt_workqueue_cancel_work
Cancel(t, w, l, m) ==
  /\ At(t, l) /\ Goto(t, m) /\ UNCHANGED <<k, current>>
  /\ works' = IF current = w THEN works ELSE Unlink(works, w)

\* mutant: the work that is running is not waited for
CancelSync_nowait(t, w, l, s, m) ==
  /\ At(t, l) /\ Goto(t, m) /\ UNCHANGED <<k, current>> /\ works' = Unlink(works, w)

\* rt_workqueue_cancel_work_sync: from l to m, or to s to wait for the completion
CancelSync(t, w, l, s, m) ==
  /\ At(t, l) /\ UNCHANGED current
  /\ IF current = w
     THEN k' = Block(k, WorkSem, t, "FIFO", "FOREVER") /\ Goto(t, s) /\ UNCHANGED works
     ELSE works' = Unlink(works, w) /\ Goto(t, m) /\ UNCHANGED k
=============================================================================
