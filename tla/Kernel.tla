------------------------------- MODULE Kernel -------------------------------
(***************************************************************************)
(* The scheduler core of the single-core RT-Thread kernel: the ready table *)
(* with its two-level bitmap, the one list node (tlist) every thread owns, *)
(* the thread timer, and the primitives every IPC object is built from.    *)
(*                                                                         *)
(* Kernel functions run with interrupts disabled and call one another, so  *)
(* they are operators from a kernel state k to the next one.  The modules  *)
(* that extend this one keep k in a variable and decide which calls happen *)
(* in one interrupt-disabled section, that is, in one step.                *)
(*                                                                         *)
(* k.cur    rt_current_thread          k.ready  rt_thread_priority_table   *)
(* k.stat   thread->stat               k.wait   the other list heads       *)
(* k.prio   thread->current_priority   k.table  rt_thread_ready_table      *)
(* k.err    thread->error              k.group  rt_thread_ready_priority_  *)
(* k.armed  thread_timer is active              group                      *)
(* k.nest   rt_scheduler_lock_nest                                         *)
(***************************************************************************)
EXTENDS Integers, Sequences

CONSTANTS Thread,    \* thread control blocks
          Idle,      \* the idle thread, always ready at the lowest priority
          NGroup,    \* words of the ready table (32 in the product's rtconfig.h)
          WaitList,  \* list heads a blocked or dead thread may be linked into
          Defunct,   \* _rt_thread_defunct, one of them
          InitPrio   \* init_priority of each thread

RT_THREAD_PRIORITY_MAX == 8 * NGroup
Prio  == 0 .. (RT_THREAD_PRIORITY_MAX - 1)
Group == 0 .. (NGroup - 1)
Bit   == 0 .. 7

ASSUME KernelAssumption ==
  /\ NGroup \in Nat \ {0}
  /\ Idle \in Thread
  /\ Defunct \in WaitList
  /\ InitPrio \in [Thread -> Prio]
  /\ InitPrio[Idle] = RT_THREAD_PRIORITY_MAX - 1

\* error numbers of rtdef.h; thread->error holds the positive ones
RT_EOK      == 0
RT_ERROR    == 1
RT_ETIMEOUT == 2
ErrNo == {RT_EOK, RT_ERROR, RT_ETIMEOUT}

\* "NONE": the object does not exist; RUNNING is never stored on one core
Stat == {"NONE", "INIT", "READY", "SUSPEND", "CLOSE"}

KernelState ==
  [cur   : Thread,
   stat  : [Thread -> Stat],
   prio  : [Thread -> Prio],
   err   : [Thread -> ErrNo],
   armed : [Thread -> BOOLEAN],
   ready : [Prio -> Seq(Thread)],
   wait  : [WaitList -> Seq(Thread)],
   table : [Group -> SUBSET Bit],
   group : SUBSET Group,
   nest  : Int]

-----------------------------------------------------------------------------
(* Lists: a list head is the sequence of the nodes linked behind it. *)

Nodes(s) == {s[i] : i \in 1 .. Len(s)}

Unlink(s, t) ==
  IF t \in Nodes(s)
  THEN LET i == CHOOSE j \in 1 .. Len(s) : s[j] = t
       IN  [j \in 1 .. (Len(s) - 1) |-> IF j < i THEN s[j] ELSE s[j + 1]]
  ELSE s

InsertBefore(s, i, t) ==
  [j \in 1 .. (Len(s) + 1) |->
     IF j < i THEN s[j] ELSE IF j = i THEN t ELSE s[j - 1]]

rt_list_remove(k, t) ==
  [k EXCEPT !.ready = [p \in Prio     |-> Unlink(k.ready[p], t)],
            !.wait  = [q \in WaitList |-> Unlink(k.wait[q], t)]]

-----------------------------------------------------------------------------
(* Ready table and scheduler. *)

number(p)    == p \div 8
high_mask(p) == p % 8

\* mutant: the last set bit instead of the first
rt_ffs_last(word) == CHOOSE b \in word : \A c \in word : b >= c

\* __rt_ffs(word) - 1
rt_ffs(word) == CHOOSE b \in word : \A c \in word : b <= c

highest_ready_priority(k) ==
  LET n == rt_ffs(k.group) IN n * 8 + rt_ffs(k.table[n])

\* mutant: the scheduler lock is not looked at
rt_schedule_unlocked(k) == [k EXCEPT !.cur = Head(k.ready[highest_ready_priority(k)])]

rt_schedule(k) ==
  IF k.nest = 0
  THEN [k EXCEPT !.cur = Head(k.ready[highest_ready_priority(k)])]
  ELSE k

rt_schedule_insert_thread(k, t) ==
  LET p == k.prio[t]
  IN  [k EXCEPT !.stat  = [@ EXCEPT ![t] = "READY"],
                !.ready = [@ EXCEPT ![p] = Append(k.ready[p], t)],
                !.table = [@ EXCEPT ![number(p)] = k.table[number(p)] \cup {high_mask(p)}],
                !.group = @ \cup {number(p)}]

\* the tail of rt_schedule_remove_thread: clear the bits of an emptied list
ClearReadyBit(k, p) ==
  LET word == k.table[number(p)] \ {high_mask(p)}
  IN  IF k.ready[p] = <<>>
      THEN [k EXCEPT !.table = [@ EXCEPT ![number(p)] = word],
                     !.group = IF word = {} THEN @ \ {number(p)} ELSE @]
      ELSE k

rt_schedule_remove_thread(k, t) == ClearReadyBit(rt_list_remove(k, t), k.prio[t])

\* rt_thread_yield: only a ready thread with company in its list moves
rt_thread_yield(k) ==
  LET t == k.cur
      p == k.prio[t]
  IN  IF k.stat[t] = "READY" /\ Len(k.ready[p]) > 1
      THEN rt_schedule([k EXCEPT !.ready =
                          [@ EXCEPT ![p] = Append(Unlink(k.ready[p], t), t)]])
      ELSE k

-----------------------------------------------------------------------------
(* Threads: suspend, resume, timer. *)

Stopped(k, t) == [k EXCEPT !.armed = [@ EXCEPT ![t] = FALSE]]
Started(k, t) == [k EXCEPT !.armed = [@ EXCEPT ![t] = TRUE]]
SetErr(k, t, e) == [k EXCEPT !.err = [@ EXCEPT ![t] = e]]
SetStat(k, t, s) == [k EXCEPT !.stat = [@ EXCEPT ![t] = s]]
SetPrio(k, t, p) == [k EXCEPT !.prio = [@ EXCEPT ![t] = p]]

\* the interrupt-disabled parts of rt_thread_suspend and rt_thread_resume
SuspendSection(k, t) ==
  Stopped(SetStat(rt_schedule_remove_thread(k, t), t, "SUSPEND"), t)

\* mutant: the node is not unlinked first
ResumeSection_linked(k, t) == rt_schedule_insert_thread(Stopped(k, t), t)

ResumeSection(k, t) ==
  rt_schedule_insert_thread(Stopped(rt_list_remove(k, t), t), t)

rt_thread_suspend(k, t) == IF k.stat[t] = "READY" THEN SuspendSection(k, t) ELSE k
rt_thread_resume(k, t)  == IF k.stat[t] = "SUSPEND" THEN ResumeSection(k, t) ELSE k

\* rt_thread_timeout, called by rt_timer_check with the timer already unlinked
rt_thread_timeout(k, t) ==
  rt_schedule(rt_schedule_insert_thread(
    rt_list_remove(SetErr(Stopped(k, t), t, RT_ETIMEOUT), t), t))

ChangePriority(k, t, p) ==
  IF k.stat[t] = "READY"
  THEN rt_schedule_insert_thread(SetPrio(rt_schedule_remove_thread(k, t), t, p), t)
  ELSE SetPrio(k, t, p)

-----------------------------------------------------------------------------
(* Blocking on a list: rt_ipc_list_suspend, _resume, _resume_all. *)

\* mutant: the comparison is turned round
PrioPosition_reversed(k, s, p) ==
  IF \E i \in 1 .. Len(s) : p > k.prio[s[i]]
  THEN CHOOSE i \in 1 .. Len(s) :
         /\ p > k.prio[s[i]]
         /\ \A j \in 1 .. (i - 1) : ~(p > k.prio[s[j]])
  ELSE Len(s) + 1

\* where a thread of priority p goes in a priority-ordered list
PrioPosition(k, s, p) ==
  IF \E i \in 1 .. Len(s) : p < k.prio[s[i]]
  THEN CHOOSE i \in 1 .. Len(s) :
         /\ p < k.prio[s[i]]
         /\ \A j \in 1 .. (i - 1) : ~(p < k.prio[s[j]])
  ELSE Len(s) + 1

rt_ipc_list_suspend(k, q, t, flag) ==
  LET k1 == rt_thread_suspend(k, t)
      s  == k1.wait[q]
      i  == IF flag = "PRIO" THEN PrioPosition(k1, s, k1.prio[t]) ELSE Len(s) + 1
  IN  [k1 EXCEPT !.wait = [@ EXCEPT ![q] = InsertBefore(s, i, t)]]

rt_ipc_list_resume(k, q) == rt_thread_resume(k, Head(k.wait[q]))

\* one turn of the loop of rt_ipc_list_resume_all
rt_ipc_list_resume_error(k, q) ==
  LET t == Head(k.wait[q]) IN rt_thread_resume(SetErr(k, t, RT_ERROR), t)

-----------------------------------------------------------------------------
(* What a kernel state must satisfy whatever threads and interrupts do.     *)
(* limbo: threads a caller has taken off their list and is not done with.   *)

Injective(s) == \A i, j \in 1 .. Len(s) : s[i] = s[j] => i = j

ReadyListed(k, limbo) ==
  \A t \in Thread \ limbo :
    k.stat[t] = "READY" => t \in Nodes(k.ready[k.prio[t]])

ListsSound(k, limbo) ==
  /\ \A p \in Prio :
       /\ Injective(k.ready[p])
       /\ \A t \in Nodes(k.ready[p]) :
            k.stat[t] = "READY" /\ k.prio[t] = p /\ t \notin limbo
  /\ \A q \in WaitList :
       /\ Injective(k.wait[q])
       /\ \A t \in Nodes(k.wait[q]) :
            /\ k.stat[t] = IF q = Defunct THEN "CLOSE" ELSE "SUSPEND"
            /\ t \notin limbo
  /\ \A q, r \in WaitList : q # r => Nodes(k.wait[q]) \cap Nodes(k.wait[r]) = {}

BitmapSound(k) ==
  /\ \A p \in Prio : high_mask(p) \in k.table[number(p)] <=> k.ready[p] # <<>>
  /\ \A g \in Group : g \in k.group <=> k.table[g] # {}

TimerSound(k) == \A t \in Thread : k.armed[t] => k.stat[t] = "SUSPEND"

IdleReady(k, limbo) ==
  /\ k.stat[Idle] = "READY" /\ k.prio[Idle] = RT_THREAD_PRIORITY_MAX - 1
  /\ Idle \notin limbo

KernelInv(k, limbo) ==
  /\ k \in KernelState
  /\ ReadyListed(k, limbo)
  /\ ListsSound(k, limbo)
  /\ BitmapSound(k)
  /\ TimerSound(k)
  /\ IdleReady(k, limbo)
=============================================================================
