------------------------------- MODULE Mutex --------------------------------
(***************************************************************************)
(* Recursive mutexes with priority inheritance (rt_mutex_take and the      *)
(* rest).  A mutex is named by its suspend list.                           *)
(*                                                                         *)
(* value, owner, orig and hold are the fields of struct rt_mutex, want the *)
(* mutex a thread inside a call is about.  held is a history variable: how *)
(* often a thread has taken a mutex successfully and not released it.      *)
(***************************************************************************)
EXTENDS Ipc

CONSTANTS Mutexes,      \* the mutexes, each its own suspend list
          NULL,
          HoldModulus,  \* 256: mutex->hold is a rt_uint8_t
          MaxHold,      \* bound on recursive takes
          Times,        \* the waiting times in use
          DetachBy,     \* threads that detach a mutex
          Sleepers      \* threads that sleep between two calls

ASSUME MutexAssumption ==
  /\ Mutexes \subseteq WaitList \ {Defunct}
  /\ NULL \notin Thread
  /\ HoldModulus \in Nat \ {0} /\ MaxHold \in 1 .. (HoldModulus - 1)
  /\ Times \subseteq Time /\ DetachBy \subseteq Thread /\ Sleepers \subseteq Thread

VARIABLES value, owner, orig, hold, life, want, held
mvars == <<value, owner, orig, hold, life>>
vars  == <<k, pc, mvars, want, held>>

PC == {"run", "waiting", "woken", "sched", "sleeping", "slept",
       "closing", "closing_do", "crashed"}
NoPrio == RT_THREAD_PRIORITY_MAX - 1   \* 0xFF

Init ==
  /\ IpcInit
  /\ value = [m \in Mutexes |-> 1] /\ owner = [m \in Mutexes |-> NULL]
  /\ orig = [m \in Mutexes |-> NoPrio] /\ hold = [m \in Mutexes |-> 0]
  /\ life = [m \in Mutexes |-> "live"]
  /\ want = [t \in Thread |-> NULL]
  /\ held = [m \in Mutexes |-> [t \in Thread |-> 0]]

Enter(t, m) == At(t, "run") /\ t # Idle /\ life[m] = "live"
Wanting(t, m) == want' = [want EXCEPT ![t] = m]
Count(m, t, n) == held' = [held EXCEPT ![m] = [@ EXCEPT ![t] = n]]

-----------------------------------------------------------------------------
\* rt_mutex_take by the owner, of a free mutex, without and with waiting
TakeAgain(t, m) ==
  /\ Enter(t, m) /\ owner[m] = t /\ hold[m] < MaxHold
  /\ k' = SetErr(k, t, RT_EOK)
  /\ hold' = [hold EXCEPT ![m] = (@ + 1) % HoldModulus]
  /\ Count(m, t, held[m][t] + 1)
  /\ UNCHANGED <<pc, value, owner, orig, life, want>>

TakeFree(t, m) ==
  /\ Enter(t, m) /\ owner[m] # t /\ value[m] > 0
  /\ k' = SetErr(k, t, RT_EOK)
  /\ value' = [value EXCEPT ![m] = @ - 1]
  /\ owner' = [owner EXCEPT ![m] = t]
  /\ orig'  = [orig EXCEPT ![m] = k.prio[t]]
  /\ hold'  = [hold EXCEPT ![m] = (@ + 1) % HoldModulus]
  /\ Count(m, t, held[m][t] + 1)
  /\ UNCHANGED <<pc, life, want>>

TakeTry(t, m) ==
  /\ Enter(t, m) /\ owner[m] # t /\ value[m] = 0 /\ "NO" \in Times
  /\ k' = SetErr(k, t, RT_ETIMEOUT)
  /\ UNCHANGED <<pc, mvars, want, held>>

\* mutant: the owner keeps its priority
Boost_none(m, p) == k

\* the owner of m inherits the priority p of a thread about to wait
Boost(m, p) == IF p < k.prio[owner[m]] THEN ChangePriority(k, owner[m], p) ELSE k

TakeWait(t, m, time) ==
  /\ Enter(t, m) /\ owner[m] \notin {t, NULL} /\ value[m] = 0 /\ time # "NO"
  /\ k' = Block(Boost(m, k.prio[t]), m, t, "PRIO", time)
  /\ Goto(t, "waiting") /\ Wanting(t, m)
  /\ UNCHANGED <<mvars, held>>

\* back from rt_schedule()
TakeReturn(t) ==
  /\ At(t, "woken") /\ Goto(t, "run") /\ Wanting(t, NULL)
  /\ IF k.err[t] = RT_EOK THEN Count(want[t], t, 1) ELSE UNCHANGED held
  /\ UNCHANGED <<k, mvars>>

\* rt_mutex_release by a thread that is not the owner
ReleaseDenied(t, m) ==
  /\ Enter(t, m) /\ owner[m] # t
  /\ k' = SetErr(k, t, RT_ERROR) /\ UNCHANGED <<pc, mvars, want, held>>

ReleaseInner(t, m) ==
  /\ Enter(t, m) /\ owner[m] = t /\ hold[m] # 1
  /\ hold' = [hold EXCEPT ![m] = (@ - 1) % HoldModulus]
  /\ Count(m, t, held[m][t] - 1)
  /\ UNCHANGED <<k, pc, value, owner, orig, life, want>>

\* mutant: the inherited priority is kept
Restored_kept(t, m) == k

\* the owner goes back to the priority it had when it took m
Restored(t, m) == IF orig[m] # k.prio[t] THEN ChangePriority(k, t, orig[m]) ELSE k

\* the last release, with nobody waiting and with a waiter
ReleaseFree(t, m) ==
  /\ Enter(t, m) /\ owner[m] = t /\ hold[m] = 1 /\ k.wait[m] = <<>>
  /\ k' = Restored(t, m)
  /\ value' = [value EXCEPT ![m] = @ + 1]
  /\ owner' = [owner EXCEPT ![m] = NULL]
  /\ orig'  = [orig EXCEPT ![m] = NoPrio]
  /\ hold'  = [hold EXCEPT ![m] = 0]
  /\ Count(m, t, 0)
  /\ UNCHANGED <<pc, life, want>>

\* mutants: the value is raised although the mutex changes hands; the old
\* owner stays on record; no rt_schedule() after the waiter was woken
ReleaseTo_free(t, m) ==
  LET u == Head(k.wait[m]) IN
  /\ Enter(t, m) /\ owner[m] = t /\ hold[m] = 1 /\ k.wait[m] # <<>>
  /\ k' = rt_ipc_list_resume(Restored(t, m), m)
  /\ value' = [value EXCEPT ![m] = @ + 1]
  /\ owner' = [owner EXCEPT ![m] = u]
  /\ orig'  = [orig EXCEPT ![m] = Restored(t, m).prio[u]]
  /\ Count(m, t, 0) /\ Goto(t, "sched")
  /\ UNCHANGED <<hold, life, want>>

ReleaseTo_stale(t, m) ==
  LET u == Head(k.wait[m]) IN
  /\ Enter(t, m) /\ owner[m] = t /\ hold[m] = 1 /\ k.wait[m] # <<>>
  /\ k' = rt_ipc_list_resume(Restored(t, m), m)
  /\ orig'  = [orig EXCEPT ![m] = Restored(t, m).prio[u]]
  /\ Count(m, t, 0) /\ Goto(t, "sched")
  /\ UNCHANGED <<value, owner, hold, life, want>>

ReleaseTo_silent(t, m) ==
  LET u == Head(k.wait[m]) IN
  /\ Enter(t, m) /\ owner[m] = t /\ hold[m] = 1 /\ k.wait[m] # <<>>
  /\ k' = rt_ipc_list_resume(Restored(t, m), m)
  /\ owner' = [owner EXCEPT ![m] = u]
  /\ orig'  = [orig EXCEPT ![m] = Restored(t, m).prio[u]]
  /\ Count(m, t, 0)
  /\ UNCHANGED <<pc, value, hold, life, want>>

ReleaseTo(t, m) ==
  LET u == Head(k.wait[m]) IN
  /\ Enter(t, m) /\ owner[m] = t /\ hold[m] = 1 /\ k.wait[m] # <<>>
  /\ k' = rt_ipc_list_resume(Restored(t, m), m)
  /\ owner' = [owner EXCEPT ![m] = u]
  /\ orig'  = [orig EXCEPT ![m] = Restored(t, m).prio[u]]
  /\ Count(m, t, 0) /\ Goto(t, "sched")
  /\ UNCHANGED <<value, hold, life, want>>

rt_mutex_release(t, m) == ReleaseInner(t, m) \/ ReleaseFree(t, m) \/ ReleaseTo(t, m)

\* rt_mutex_detach, rt_mutex_delete
DetachCall(t, m) ==
  /\ Enter(t, m) /\ t \in DetachBy
  /\ life' = [life EXCEPT ![m] = "closing"]
  /\ Goto(t, "closing") /\ Wanting(t, m)
  /\ UNCHANGED <<k, value, owner, orig, hold, held>>

DetachCheck(t) ==
  /\ At(t, "closing")
  /\ IF k.wait[want[t]] # <<>>
     THEN Goto(t, "closing_do") /\ UNCHANGED <<life, want>>
     ELSE /\ Goto(t, "run") /\ Wanting(t, NULL)
          /\ life' = [life EXCEPT ![want[t]] = "gone"]
  /\ UNCHANGED <<k, value, owner, orig, hold, held>>

DetachTurn(t) ==
  ResumeAllTurn(t, want[t], "closing_do", "closing") /\ UNCHANGED <<mvars, want, held>>

InCall(t) ==
  \/ Schedule(t, "waiting", "woken") /\ UNCHANGED <<mvars, want, held>>
  \/ Schedule(t, "sched", "run") /\ UNCHANGED <<mvars, want, held>>
  \/ Sleeping(t) /\ UNCHANGED <<mvars, want, held>>
  \/ TakeReturn(t) \/ DetachCheck(t) \/ DetachTurn(t)

Step(t, m) ==
  \/ TakeAgain(t, m) \/ TakeFree(t, m) \/ TakeTry(t, m)
  \/ \E time \in Times : TakeWait(t, m, time)
  \/ ReleaseDenied(t, m) \/ rt_mutex_release(t, m)
  \/ DetachCall(t, m)

Next ==
  \/ \E t \in Thread, m \in Mutexes : Step(t, m)
  \/ \E t \in Sleepers : rt_thread_sleep(t) /\ UNCHANGED <<mvars, want, held>>
  \/ \E t \in Thread : InCall(t)
  \/ TickSlice /\ UNCHANGED <<mvars, want, held>>
  \/ \E t \in Thread : TickTimeout(t) /\ UNCHANGED <<mvars, want, held>>

\* The running thread finishes its kernel call however often it is interrupted,
\* the tick keeps coming, and every critical section ends: at each depth of
\* recursion an owner that keeps running releases.
Fairness ==
  /\ SF_vars(\E t \in Thread : InCall(t))
  /\ \A t \in Thread : WF_vars(TickTimeout(t) /\ UNCHANGED <<mvars, want, held>>)
  /\ \A m \in Mutexes, n \in 1 .. MaxHold :
       SF_vars(hold[m] = n /\ \E t \in Thread : rt_mutex_release(t, m))

Spec == Init /\ [][Next]_vars
FairSpec == Spec /\ Fairness

-----------------------------------------------------------------------------
TypeOK ==
  /\ k \in KernelState /\ pc \in [Thread -> PC]
  /\ value \in [Mutexes -> 0 .. 1] /\ owner \in [Mutexes -> Thread \cup {NULL}]
  /\ orig \in [Mutexes -> Prio] /\ hold \in [Mutexes -> 0 .. (HoldModulus - 1)]
  /\ life \in [Mutexes -> {"live", "closing", "gone"}]
  /\ want \in [Thread -> Mutexes \cup {NULL}]
  /\ held \in [Mutexes -> [Thread -> 0 .. MaxHold]]

\* What the caller of rt_mutex_take relies on: the thread that was told RT_EOK,
\* as often as it was, is the owner, and no other thread has been told so.  A
\* thread the mutex was handed to while it waited learns of it when it runs.
OwnerHolds ==
  \A m \in Mutexes, t \in Thread :
    /\ held[m][t] > 0 => owner[m] = t /\ hold[m] = held[m][t]
    /\ owner[m] = t /\ held[m][t] = 0 =>
         hold[m] = 1 /\ want[t] = m /\ t \in Woken({"waiting", "woken"})

\* value, owner and hold have their types and agree, so the "fatal error" branch
\* of rt_mutex_take is never taken; threads wait only for a mutex that is held.
FieldsAgree ==
  TypeOK /\ \A m \in Mutexes :
    /\ (owner[m] = NULL) = (value[m] = 1)
    /\ (owner[m] = NULL) = (hold[m] = 0)
    /\ owner[m] = NULL => k.wait[m] = <<>>

\* Priority inheritance: the owner runs at least at the priority of every thread
\* that waits for the mutex, so no thread in between can hold the waiter up.
Inherits ==
  \A m \in Mutexes :
    owner[m] # NULL => \A t \in Nodes(k.wait[m]) : k.prio[owner[m]] <= k.prio[t]

\* An inherited priority is given back: a thread that owns no mutex runs at the
\* priority it was created with.
PriorityRestored ==
  \A t \in Thread : (\A m \in Mutexes : owner[m] # t) => k.prio[t] = InitPrio[t]

\* Bounded priority inversion: as long as owners release, the most urgent thread
\* gets through an unlimited rt_mutex_take even if less urgent threads that hold
\* nothing never give up the processor, and whichever of them time out.
UrgentGetsThrough ==
  \A t \in Thread :
    (\A u \in Thread \ {t} : InitPrio[t] < InitPrio[u])
      => (pc[t] = "waiting" /\ k.stat[t] = "SUSPEND" /\ ~k.armed[t] ~> pc[t] = "run")
=============================================================================
