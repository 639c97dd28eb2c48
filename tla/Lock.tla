-------------------------------- MODULE Lock --------------------------------
(***************************************************************************)
(* A mutex as the higher services use it: taken without a time limit and   *)
(* not recursively.  Module Mutex shows that value and hold then follow    *)
(* from the owner, so the mutex is its owner and the priority to give back.*)
(***************************************************************************)
EXTENDS Ipc

CONSTANTS LockList,   \* mutex->parent.suspend_thread
          RT_NULL

ASSUME LockAssumption == LockList \in WaitList \ {Defunct} /\ RT_NULL \notin Thread

VARIABLE lock

Unlocked == [owner |-> RT_NULL, orig |-> RT_THREAD_PRIORITY_MAX - 1]
LockedBy(ks, t) == [owner |-> t, orig |-> ks.prio[t]]

\* the owner inherits the priority of a thread about to wait
Inherited(t) ==
  IF k.prio[t] < k.prio[lock.owner]
  THEN ChangePriority(k, lock.owner, k.prio[t]) ELSE k

\* rt_mutex_take at l: go on at m with the mutex, or wait at w for it
LockTake(t, l, w, m) ==
  /\ At(t, l)
  /\ \/ /\ lock.owner = RT_NULL
        /\ k' = SetErr(k, t, RT_EOK) /\ lock' = LockedBy(k, t) /\ Goto(t, m)
     \/ /\ lock.owner # RT_NULL
        /\ k' = Block(Inherited(t), LockList, t, "PRIO", "FOREVER")
        /\ UNCHANGED lock /\ Goto(t, w)

GivenBack(t) == IF lock.orig # k.prio[t] THEN ChangePriority(k, t, lock.orig) ELSE k

\* mutant: a release by another thread is not refused
Owns_any(t) == lock.owner # RT_NULL

Owns(t) == lock.owner = t

\* rt_mutex_release at l: go on at m, at s if rt_schedule() comes first
LockRelease(t, l, s, m) ==
  /\ At(t, l)
  /\ \/ /\ ~Owns(t)
        /\ k' = SetErr(k, t, RT_ERROR) /\ UNCHANGED lock /\ Goto(t, m)
     \/ /\ Owns(t) /\ k.wait[LockList] = <<>>
        /\ k' = GivenBack(t) /\ lock' = Unlocked /\ Goto(t, m)
     \/ /\ Owns(t) /\ k.wait[LockList] # <<>>
        /\ k' = rt_ipc_list_resume(GivenBack(t), LockList)
        /\ lock' = LockedBy(GivenBack(t), Head(k.wait[LockList])) /\ Goto(t, s)
=============================================================================
