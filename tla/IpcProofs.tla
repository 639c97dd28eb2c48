----------------------------- MODULE IpcProofs ------------------------------
(***************************************************************************)
(* What one step of an IPC object does to the kernel state, in terms of    *)
(* what the proofs about the objects look at: the state, error number and  *)
(* timer of each thread, and the wait lists.  The ready lists and their    *)
(* bitmap stay behind KernelInv(k, {}), which every step keeps.            *)
(***************************************************************************)
EXTENDS Ipc, KernelProofs, FiniteSetTheorems

\* The kernel is sound and the scheduler is not locked.
Sound(j) == KernelInv(j, {}) /\ j.nest = 0

\* Only the running thread and the ready lists change.
Calm(j, i) ==
  /\ j.stat = i.stat /\ j.prio = i.prio /\ j.err = i.err /\ j.armed = i.armed
  /\ j.wait = i.wait

\* t is made ready, taken off its list, and has error number e.
Roused(j, i, t, e) ==
  /\ j.stat = [i.stat EXCEPT ![t] = "READY"]
  /\ j.armed = [i.armed EXCEPT ![t] = FALSE]
  /\ j.err = [i.err EXCEPT ![t] = e] /\ j.prio = i.prio
  /\ j.wait = [q \in WaitList |-> Unlink(i.wait[q], t)]

\* t suspends itself and is linked into list q at position x.
BlockedAt(j, i, q, t, x) ==
  /\ j.cur = i.cur
  /\ j.stat = [i.stat EXCEPT ![t] = "SUSPEND"]
  /\ j.err = [i.err EXCEPT ![t] = RT_EOK] /\ j.prio = i.prio
  /\ j.wait = [i.wait EXCEPT ![q] = InsertBefore(i.wait[q], x, t)]

\* x is a position at which a node can be linked into list q.
Place(i, q, x) == x \in 1 .. (Len(i.wait[q]) + 1)

\* Where rt_ipc_list_suspend links t into list q.
Position(i, q, t, flag) ==
  IF flag = "PRIO" THEN PrioPosition(i, i.wait[q], i.prio[t]) ELSE Len(i.wait[q]) + 1

\* t suspends itself without being linked anywhere.
Slept(j, i, t) ==
  /\ j.cur = i.cur
  /\ j.stat = [i.stat EXCEPT ![t] = "SUSPEND"]
  /\ j.err = i.err /\ j.prio = i.prio /\ j.wait = i.wait

\* The error number of t is set.
Noted(j, i, t, e) ==
  /\ j.cur = i.cur /\ j.stat = i.stat /\ j.prio = i.prio /\ j.armed = i.armed
  /\ j.err = [i.err EXCEPT ![t] = e] /\ j.wait = i.wait

-----------------------------------------------------------------------------
(* Steps of the kernel. *)

\* A thread that is READY is in no wait list.
LEMMA ReadyUnlisted ==
  ASSUME NEW j, Sound(j), NEW t \in Thread, j.stat[t] = "READY"
  PROVE  /\ \A q \in WaitList : t \notin Nodes(j.wait[q])
         /\ [q \in WaitList |-> Unlink(j.wait[q], t)] = j.wait
<1>1. ListsSound(j, {}) /\ j.wait \in [WaitList -> Seq(Thread)]
  BY DEF Sound, KernelInv, KernelState
<1>2. \A q \in WaitList : t \notin Nodes(j.wait[q])
  BY <1>1 DEF ListsSound
<1>3. \A q \in WaitList : Unlink(j.wait[q], t) = j.wait[q]
  BY <1>2 DEF Unlink
<1> QED BY <1>1, <1>2, <1>3

LEMMA ScheduleCalm ==
  ASSUME NEW i, Sound(i), NEW j, j = rt_schedule(i)
  PROVE  Sound(j) /\ Calm(j, i) /\ j.stat[j.cur] = "READY"
  BY ScheduleOK DEF Sound, Calm, SameLists, Highest

LEMMA YieldCalm ==
  ASSUME NEW i, Sound(i), NEW j, j = rt_thread_yield(i)
  PROVE  Sound(j) /\ Calm(j, i) /\ (j.cur # i.cur => j.stat[j.cur] = "READY")
<1>1. i.cur \notin {}
  OBVIOUS
<1> QED BY <1>1, YieldOK DEF Sound, Calm, Highest

LEMMA NotedOK ==
  ASSUME NEW i, Sound(i), NEW t \in Thread, NEW e \in ErrNo, NEW j, j = SetErr(i, t, e)
  PROVE  Sound(j) /\ Noted(j, i, t, e)
  BY SetErrOK DEF Sound, Noted, SameLists, Unmoved, ErrSet

\* What the wait lists are after the section of rt_thread_resume.
LEMMA ResumeWait ==
  ASSUME NEW i, i \in KernelState, NEW t \in Thread, NEW j, j = ResumeSection(i, t)
  PROVE  j.wait = [q \in WaitList |-> Unlink(i.wait[q], t)]
  BY DEF ResumeSection, rt_schedule_insert_thread, Stopped, rt_list_remove, KernelState

LEMMA TimeoutWait ==
  ASSUME NEW i, i \in KernelState, NEW t \in Thread, NEW j, j = rt_thread_timeout(i, t)
  PROVE  j.wait = [q \in WaitList |-> Unlink(i.wait[q], t)]
  BY DEF rt_thread_timeout, rt_schedule, rt_schedule_insert_thread, Stopped, SetErr,
         rt_list_remove, KernelState

\* rt_thread_resume of a suspended thread.
LEMMA ResumeRouses ==
  ASSUME NEW i, Sound(i), NEW t \in Thread, i.stat[t] = "SUSPEND",
         NEW j, j = rt_thread_resume(i, t)
  PROVE  Sound(j) /\ Roused(j, i, t, i.err[t]) /\ j.cur = i.cur
<1>1. j = ResumeSection(i, t)
  BY DEF rt_thread_resume
<1>2. t \in Thread \ {Idle} /\ i \in KernelState /\ t \notin {} /\ KernelInv(i, {})
  BY DEF Sound, KernelInv, IdleReady
<1>3. i.err = [i.err EXCEPT ![t] = i.err[t]]
  BY <1>2 DEF KernelState
<1>4. j.wait = [q \in WaitList |-> Unlink(i.wait[q], t)]
  BY <1>1, <1>2, ResumeWait
<1>5. /\ KernelInv(j, {})
      /\ j.cur = i.cur /\ j.prio = i.prio /\ j.err = i.err /\ j.nest = i.nest
      /\ j.stat = [i.stat EXCEPT ![t] = "READY"]
      /\ j.armed = [i.armed EXCEPT ![t] = FALSE]
  BY <1>1, <1>2, ResumeOK
<1> QED BY <1>3, <1>4, <1>5 DEF Sound, Roused

\* The head of a list that is not empty is a suspended thread.
LEMMA HeadSuspended ==
  ASSUME NEW i, Sound(i), NEW q \in WaitList \ {Defunct}, i.wait[q] # <<>>
  PROVE  /\ Head(i.wait[q]) \in Nodes(i.wait[q])
         /\ Head(i.wait[q]) \in Thread /\ i.stat[Head(i.wait[q])] = "SUSPEND"
<1>1. i.wait[q] \in Seq(Thread) /\ ListsSound(i, {})
  BY DEF Sound, KernelInv, KernelState
<1>2. Head(i.wait[q]) \in Nodes(i.wait[q]) /\ Nodes(i.wait[q]) \subseteq Thread
  BY <1>1, EmptyNodes
<1> QED BY <1>1, <1>2 DEF ListsSound

LEMMA ListResumeRouses ==
  ASSUME NEW i, Sound(i), NEW q \in WaitList \ {Defunct}, i.wait[q] # <<>>,
         NEW j, j = rt_ipc_list_resume(i, q)
  PROVE  /\ Sound(j) /\ j.cur = i.cur
         /\ Roused(j, i, Head(i.wait[q]), i.err[Head(i.wait[q])])
  BY HeadSuspended, ResumeRouses DEF rt_ipc_list_resume

\* A thread is given an error number and resumed.
LEMMA ErrResumeRouses ==
  ASSUME NEW i, Sound(i), NEW t \in Thread, i.stat[t] = "SUSPEND", NEW e \in ErrNo,
         NEW j, j = rt_thread_resume(SetErr(i, t, e), t)
  PROVE  Sound(j) /\ j.cur = i.cur /\ Roused(j, i, t, e)
<1> DEFINE h == SetErr(i, t, e)
<1>1. Sound(h) /\ Noted(h, i, t, e)
  BY NotedOK
<1> HIDE DEF h
<1>2. h.stat[t] = "SUSPEND" /\ h.err[t] = e
  BY <1>1 DEF Noted, Sound, KernelInv, KernelState
<1>3. Sound(j) /\ Roused(j, h, t, e) /\ j.cur = h.cur
  BY <1>1, <1>2, ResumeRouses DEF h
<1>4. [h.err EXCEPT ![t] = e] = [i.err EXCEPT ![t] = e]
  BY <1>1, <1>2 DEF Noted, Sound, KernelInv, KernelState
<1> QED BY <1>1, <1>3, <1>4 DEF Noted, Roused

LEMMA ListResumeErrorRouses ==
  ASSUME NEW i, Sound(i), NEW q \in WaitList \ {Defunct}, i.wait[q] # <<>>,
         NEW j, j = rt_ipc_list_resume_error(i, q)
  PROVE  Sound(j) /\ j.cur = i.cur /\ Roused(j, i, Head(i.wait[q]), RT_ERROR)
<1>1. RT_ERROR \in ErrNo
  BY DEF ErrNo
<1>2. j = rt_thread_resume(SetErr(i, Head(i.wait[q]), RT_ERROR), Head(i.wait[q]))
  BY DEF rt_ipc_list_resume_error
<1> QED BY <1>1, <1>2, HeadSuspended, ErrResumeRouses

LEMMA TimeoutRouses ==
  ASSUME NEW i, Sound(i), NEW t \in Thread, i.armed[t], NEW j, j = rt_thread_timeout(i, t)
  PROVE  /\ Sound(j) /\ Roused(j, i, t, RT_ETIMEOUT) /\ j.stat[j.cur] = "READY"
         /\ i.stat[t] = "SUSPEND"
<1>1. KernelInv(i, {}) /\ i \in KernelState /\ t \notin {} /\ i.armed[t] = TRUE
  BY DEF Sound, KernelInv, KernelState
<1>2. KernelInv(j, {}) /\ TimedOut(j, i, {}, t)
  BY <1>1, TimeoutOK
<1>3. j.wait = [q \in WaitList |-> Unlink(i.wait[q], t)]
  BY <1>1, TimeoutWait
<1>4. i.stat[t] = "SUSPEND"
  BY <1>1 DEF KernelInv, TimerSound
<1> QED BY <1>2, <1>3, <1>4 DEF Sound, Roused, TimedOut, Highest

\* No ready thread outranks the one that runs.
Topmost(j) == \A u \in Thread : j.stat[u] = "READY" => j.prio[j.cur] <= j.prio[u]

LEMMA ScheduleTopmost ==
  ASSUME NEW i, Sound(i), NEW j, j = rt_schedule(i)
  PROVE  Topmost(j) /\ j.prio = i.prio /\ j.stat = i.stat
<1>1. KernelInv(i, {}) /\ i.nest = 0
  BY DEF Sound
<1>2. Highest(j, {}, j.cur) /\ j.prio = i.prio /\ j.stat = i.stat
  BY <1>1, ScheduleOK
<1> QED BY <1>2 DEF Highest, Topmost

LEMMA YieldTopmost ==
  ASSUME NEW i, Sound(i), NEW j, j = rt_thread_yield(i)
  PROVE  (j.cur # i.cur => Topmost(j)) /\ j.prio = i.prio /\ j.stat = i.stat
<1>1. KernelInv(i, {}) /\ i.cur \notin {}
  BY DEF Sound
<1>2. (j.cur # i.cur => Highest(j, {}, j.cur)) /\ j.prio = i.prio /\ j.stat = i.stat
  BY <1>1, YieldOK
<1> QED BY <1>2 DEF Highest, Topmost

LEMMA TimeoutTopmost ==
  ASSUME NEW i, Sound(i), NEW t \in Thread, i.armed[t], NEW j, j = rt_thread_timeout(i, t)
  PROVE  Topmost(j) /\ j.prio = i.prio
<1>1. KernelInv(i, {}) /\ i.nest = 0 /\ t \notin {} /\ i.armed[t] = TRUE
  BY DEF Sound, KernelInv, KernelState
<1>2. TimedOut(j, i, {}, t)
  BY <1>1, TimeoutOK
<1> QED BY <1>1, <1>2 DEF TimedOut, Highest, Topmost

\* The wait lists after the section of rt_thread_suspend.
LEMMA SuspendWait ==
  ASSUME NEW i, i \in KernelState, NEW t \in Thread, NEW j, j = SuspendSection(i, t)
  PROVE  j.wait = [q \in WaitList |-> Unlink(i.wait[q], t)]
<1>1. rt_schedule_remove_thread(i, t).wait = [q \in WaitList |-> Unlink(i.wait[q], t)]
  BY DEF rt_schedule_remove_thread, ClearReadyBit, rt_list_remove, KernelState
<1>2. j.wait = rt_schedule_remove_thread(i, t).wait
  BY DEF SuspendSection, SetStat, Stopped
<1> QED BY <1>1, <1>2

\* rt_thread_suspend by a ready thread.
LEMMA SuspendSleeps ==
  ASSUME NEW i, Sound(i), NEW t \in Thread \ {Idle}, i.stat[t] = "READY",
         NEW j, j = rt_thread_suspend(i, t)
  PROVE  Sound(j) /\ KernelInv(j, {t}) /\ Slept(j, i, t)
<1>1. j = SuspendSection(i, t) /\ i \in KernelState /\ KernelInv(i, {}) /\ t \notin {}
  BY DEF rt_thread_suspend, Sound, KernelInv
<1>2. KernelInv(j, {}) /\ KernelInv(j, {} \cup {t}) /\ Suspended(j, i, t)
  BY <1>1, SuspendOK
<1>3. j.wait = i.wait
  <2>1. j.wait = [q \in WaitList |-> Unlink(i.wait[q], t)]
    BY <1>1, SuspendWait
  <2> QED BY <2>1, ReadyUnlisted
<1> QED BY <1>2, <1>3 DEF Sound, Slept, Suspended, Moved

\* It stops the thread timer.
LEMMA SuspendDisarms ==
  ASSUME NEW i, Sound(i), NEW t \in Thread \ {Idle}, i.stat[t] = "READY",
         NEW j, j = rt_thread_suspend(i, t)
  PROVE  j.armed = [i.armed EXCEPT ![t] = FALSE]
<1>1. j = SuspendSection(i, t) /\ KernelInv(i, {}) /\ t \notin {}
  BY DEF rt_thread_suspend, Sound
<1>2. KernelInv(j, {}) /\ KernelInv(j, {} \cup {t}) /\ Suspended(j, i, t)
  BY <1>1, SuspendOK
<1> QED BY <1>2 DEF Suspended, Moved

\* The same with the thread timer started.
LEMMA StartedSleeps ==
  ASSUME NEW i, Sound(i), NEW t \in Thread \ {Idle}, i.stat[t] = "READY",
         NEW j, j = Started(rt_thread_suspend(i, t), t)
  PROVE  Sound(j) /\ Slept(j, i, t)
<1> DEFINE h == rt_thread_suspend(i, t)
<1>1. Sound(h) /\ Slept(h, i, t)
  BY SuspendSleeps
<1> HIDE DEF h
<1>2. h.stat[t] = "SUSPEND" /\ KernelInv(h, {})
  BY <1>1 DEF Slept, Sound, KernelInv, KernelState
<1>3. /\ KernelInv(j, {}) /\ SameLists(j, h)
      /\ j.cur = h.cur /\ j.stat = h.stat /\ j.prio = h.prio /\ j.err = h.err
      /\ j.nest = h.nest /\ j.armed = [h.armed EXCEPT ![t] = TRUE]
  BY <1>2, StartedOK DEF h
<1> QED BY <1>1, <1>3 DEF Sound, Slept, SameLists

\* PrioPosition only looks at the priorities.
LEMMA PrioPositionSame ==
  ASSUME NEW i, NEW j, j.prio = i.prio, NEW s, NEW p
  PROVE  PrioPosition(j, s, p) = PrioPosition(i, s, p)
  BY DEF PrioPosition

\* rt_ipc_list_suspend by a ready thread.
LEMMA ListSuspendBlocks ==
  ASSUME NEW i, Sound(i), NEW t \in Thread \ {Idle}, i.stat[t] = "READY",
         NEW q \in WaitList \ {Defunct}, NEW flag,
         NEW j, j = rt_ipc_list_suspend(i, q, t, flag)
  PROVE  /\ Sound(j) /\ j.cur = i.cur /\ j.err = i.err /\ j.prio = i.prio
         /\ j.stat = [i.stat EXCEPT ![t] = "SUSPEND"]
         /\ j.armed = [i.armed EXCEPT ![t] = FALSE]
         /\ j.wait = [i.wait EXCEPT ![q] =
                        InsertBefore(i.wait[q], Position(i, q, t, flag), t)]
<1> DEFINE h == rt_thread_suspend(i, t)
<1>1. Slept(h, i, t)
  BY SuspendSleeps
<1>2. /\ KernelInv(j, {})
      /\ j.cur = i.cur /\ j.prio = i.prio /\ j.err = i.err /\ j.nest = i.nest
      /\ j.stat = [i.stat EXCEPT ![t] = "SUSPEND"]
      /\ j.armed = [i.armed EXCEPT ![t] = FALSE]
  BY IpcSuspendOK DEF Sound
<1>3. h \in KernelState
  <2>1. Sound(h)
    BY SuspendSleeps
  <2> QED BY <2>1 DEF Sound, KernelInv
<1>4. j.wait = [h.wait EXCEPT ![q] =
        InsertBefore(h.wait[q], IF flag = "PRIO" THEN PrioPosition(h, h.wait[q], h.prio[t])
                                ELSE Len(h.wait[q]) + 1, t)]
  <2> HIDE DEF h
  <2>1. j = LET s == h.wait[q]
                x == IF flag = "PRIO" THEN PrioPosition(h, s, h.prio[t]) ELSE Len(s) + 1
            IN  [h EXCEPT !.wait = [@ EXCEPT ![q] = InsertBefore(s, x, t)]]
    BY DEF rt_ipc_list_suspend, h
  <2> QED BY <2>1, <1>3 DEF KernelState
<1> HIDE DEF h
<1>5. PrioPosition(h, h.wait[q], h.prio[t]) = PrioPosition(i, i.wait[q], i.prio[t])
  BY <1>1, PrioPositionSame DEF Slept
<1> QED BY <1>1, <1>2, <1>4, <1>5 DEF Sound, Slept, Position

\* Block by a ready thread.
LEMMA BlockBlocks ==
  ASSUME NEW i, Sound(i), NEW t \in Thread \ {Idle}, i.stat[t] = "READY",
         NEW q \in WaitList \ {Defunct}, NEW flag, NEW time,
         NEW j, j = Block(i, q, t, flag, time)
  PROVE  /\ Sound(j)
         /\ BlockedAt(j, i, q, t, Position(i, q, t, flag))
<1> DEFINE h == SetErr(i, t, RT_EOK)
           g == rt_ipc_list_suspend(h, q, t, flag)
<1>1. Sound(h) /\ Noted(h, i, t, RT_EOK)
  <2>1. RT_EOK \in ErrNo
    BY DEF ErrNo
  <2> QED BY <2>1, NotedOK
<1>2. j = IF time = "TICKS" THEN Started(g, t) ELSE g
  BY DEF Block
<1> HIDE DEF h
<1>3. /\ Sound(g) /\ g.cur = h.cur /\ g.err = h.err /\ g.prio = h.prio
      /\ g.stat = [h.stat EXCEPT ![t] = "SUSPEND"]
      /\ g.armed = [h.armed EXCEPT ![t] = FALSE]
      /\ g.wait = [h.wait EXCEPT ![q] =
                     InsertBefore(h.wait[q], Position(h, q, t, flag), t)]
  BY <1>1, ListSuspendBlocks, SMTT(30) DEF Noted
<1> HIDE DEF g
<1>4. Position(h, q, t, flag) = Position(i, q, t, flag)
  <2>1. PrioPosition(h, h.wait[q], h.prio[t]) = PrioPosition(i, i.wait[q], i.prio[t])
    BY <1>1, PrioPositionSame DEF Noted
  <2> QED BY <1>1, <2>1 DEF Position, Noted
<1>5. BlockedAt(g, i, q, t, Position(i, q, t, flag))
  BY <1>1, <1>3, <1>4 DEF BlockedAt, Noted
<1>6. CASE time # "TICKS"
  BY <1>2, <1>3, <1>5, <1>6
<1>7. CASE time = "TICKS"
  <2>1. KernelInv(g, {}) /\ g.stat[t] = "SUSPEND" /\ g \in KernelState /\ i \in KernelState
    BY <1>3, <1>5 DEF Sound, KernelInv, KernelState, BlockedAt
  <2>2. /\ KernelInv(j, {}) /\ SameLists(j, g)
        /\ j.cur = g.cur /\ j.stat = g.stat /\ j.prio = g.prio /\ j.err = g.err
        /\ j.nest = g.nest /\ j.armed = [g.armed EXCEPT ![t] = TRUE]
    BY <1>2, <1>7, <2>1, StartedOK
  <2> QED BY <1>3, <1>5, <1>7, <2>2 DEF BlockedAt, Sound, SameLists
<1> QED BY <1>6, <1>7

-----------------------------------------------------------------------------
(* The booted kernel. *)

\* InitPrio and InitReady, unfolded.
LEMMA BootedLists ==
  ASSUME NEW p \in Prio
  PROVE  /\ InitReady[p] \in Seq(Thread) /\ Injective(InitReady[p])
         /\ Nodes(InitReady[p]) = {t \in Thread : InitPrio[t] = p}
         /\ InitReady[p] # <<>> <=> \E t \in Thread : InitPrio[t] = p
<1>1. /\ InitReady[p] \in Seq(Thread) /\ Injective(InitReady[p])
      /\ Nodes(InitReady[p]) = {t \in Thread : InitPrio[t] = p}
  BY IpcAssumption
<1> QED BY <1>1, EmptyNodes

LEMMA BootedOK == Sound(Booted) /\ Booted.stat[Booted.cur] = "READY"
<1> DEFINE grp == {number(InitPrio[t]) : t \in Thread}
           tbl == [g \in Group |-> {high_mask(InitPrio[t]) :
                                      t \in {u \in Thread : number(InitPrio[u]) = g}}]
           off == [t \in Thread |-> FALSE]
           sts == [t \in Thread |-> "READY"]
           ers == [t \in Thread |-> RT_EOK]
           wts == [q \in WaitList |-> <<>>]
           b == [cur |-> Idle, stat |-> sts, prio |-> InitPrio, err |-> ers,
                 armed |-> off, ready |-> InitReady, wait |-> wts,
                 table |-> tbl, group |-> grp, nest |-> 0]
<1>1. \A t \in Thread : /\ InitPrio[t] \in Prio /\ number(InitPrio[t]) \in Group
                        /\ high_mask(InitPrio[t]) \in Bit
                        /\ InitPrio[t] = number(InitPrio[t]) * 8 + high_mask(InitPrio[t])
  BY GroupOfPrio, KernelAssumption
<1>2. b \in KernelState
  <2>1. grp \in SUBSET Group /\ tbl \in [Group -> SUBSET Bit]
    BY <1>1
  <2>2. sts \in [Thread -> Stat] /\ ers \in [Thread -> ErrNo] /\ off \in [Thread -> BOOLEAN]
    BY DEF Stat, ErrNo
  <2>3. /\ wts \in [WaitList -> Seq(Thread)] /\ InitReady \in [Prio -> Seq(Thread)]
        /\ InitPrio \in [Thread -> Prio] /\ Idle \in Thread /\ 0 \in Int
    BY KernelAssumption, IpcAssumption
  <2> HIDE DEF grp, tbl, off, sts, ers, wts
  <2> QED BY <2>1, <2>2, <2>3 DEF KernelState
<1>3. ReadyListed(b, {}) /\ ListsSound(b, {})
  <2>1. \A q \in WaitList : Nodes(wts[q]) = {} /\ Injective(wts[q])
    BY DEF Nodes, Injective
  <2> HIDE DEF wts
  <2>2. ReadyListed(b, {})
    BY <1>1, BootedLists DEF ReadyListed
  <2>3. ListsSound(b, {})
    <3>1. /\ b.ready = InitReady /\ b.wait = wts /\ b.prio = InitPrio
          /\ \A t \in Thread : b.stat[t] = "READY"
      OBVIOUS
    <3> HIDE DEF b
    <3>2. \A p \in Prio : /\ Injective(b.ready[p])
                          /\ \A t \in Nodes(b.ready[p]) :
                               b.stat[t] = "READY" /\ b.prio[t] = p /\ t \notin {}
      BY <3>1, BootedLists
    <3>3. \A q \in WaitList : Injective(b.wait[q]) /\ Nodes(b.wait[q]) = {}
      BY <2>1, <3>1
    <3> QED BY <3>2, <3>3 DEF ListsSound
  <2> QED BY <2>2, <2>3
<1>4. BitmapSound(b)
  <2>1. ASSUME NEW p \in Prio
        PROVE  high_mask(p) \in tbl[number(p)] <=> InitReady[p] # <<>>
    <3>1. number(p) \in Group /\ p = number(p) * 8 + high_mask(p)
      BY GroupOfPrio
    <3>2. high_mask(p) \in tbl[number(p)] <=>
            \E t \in Thread : number(InitPrio[t]) = number(p) /\ high_mask(InitPrio[t]) = high_mask(p)
      BY <3>1
    <3>3. \A t \in Thread : (number(InitPrio[t]) = number(p) /\ high_mask(InitPrio[t]) = high_mask(p))
                              <=> InitPrio[t] = p
      BY <1>1, <3>1
    <3> QED BY <3>2, <3>3, BootedLists
  <2>2. \A g \in Group : g \in grp <=> tbl[g] # {}
    OBVIOUS
  <2> HIDE DEF tbl, grp
  <2> QED BY <2>1, <2>2 DEF BitmapSound
<1>5. TimerSound(b) /\ IdleReady(b, {})
  BY KernelAssumption DEF TimerSound, IdleReady
<1>6. KernelInv(b, {}) /\ b.nest = 0
  BY <1>2, <1>3, <1>4, <1>5 DEF KernelInv
<1>7. Booted = rt_schedule(b)
  BY DEF Booted, rt_schedule, highest_ready_priority
<1> HIDE DEF b
<1> QED BY <1>6, <1>7, ScheduleCalm DEF Sound

LEMMA BootedState ==
  /\ Booted.stat = [t \in Thread |-> "READY"] /\ Booted.err = [t \in Thread |-> RT_EOK]
  /\ Booted.armed = [t \in Thread |-> FALSE] /\ Booted.prio = InitPrio
  /\ Booted.wait = [q \in WaitList |-> <<>>]
  BY DEF Booted

LEMMA BootedTopmost == Topmost(Booted)
<1>1. Booted \in KernelState /\ Booted.nest = 0 /\ Sound(Booted)
  BY BootedOK DEF Sound, KernelInv
<1>2. Booted.cur = Head(Booted.ready[highest_ready_priority(Booted)])
  BY DEF Booted, highest_ready_priority
<1>3. rt_schedule(Booted) = Booted
  BY <1>1, <1>2 DEF rt_schedule, KernelState
<1> QED BY <1>1, <1>3, ScheduleTopmost

\* The ready lists are finitely many finite lists, so there are finitely many threads.
LEMMA ThreadFinite == IsFiniteSet(Thread)
<1> DEFINE f == [p \in Prio |-> Nodes(InitReady[p])]
           F == {f[p] : p \in Prio}
<1>1. IsFiniteSet(Prio)
  <2>1. 0 \in Int /\ RT_THREAD_PRIORITY_MAX - 1 \in Int
    BY KernelAssumption DEF RT_THREAD_PRIORITY_MAX
  <2> QED BY <2>1, FS_Interval DEF Prio
<1>2. f \in Surjection(Prio, F)
  BY DEF Surjection
<1>3. IsFiniteSet(F)
  BY <1>1, <1>2, FS_Surjection
<1>4. \A p \in Prio : IsFiniteSet(f[p])
  <2> TAKE p \in Prio
  <2> DEFINE s == InitReady[p]
  <2>1. s \in Seq(Thread)
    BY BootedLists
  <2> HIDE DEF s
  <2>2. s \in Surjection(1 .. Len(s), Nodes(s))
    BY <2>1 DEF Surjection, Nodes
  <2>3. IsFiniteSet(1 .. Len(s))
    <3>1. 1 \in Int /\ Len(s) \in Int
      BY <2>1
    <3> QED BY <3>1, FS_Interval
  <2>4. IsFiniteSet(Nodes(s))
    BY <2>2, <2>3, FS_Surjection
  <2> QED BY <2>4 DEF s
<1>5. \A T \in F : IsFiniteSet(T)
  BY <1>4
<1>6. Thread = UNION F
  <2>1. \A t \in Thread : InitPrio[t] \in Prio
    BY KernelAssumption
  <2>2. \A p \in Prio : f[p] = {t \in Thread : InitPrio[t] = p}
    BY BootedLists
  <2> HIDE DEF f
  <2> QED BY <2>1, <2>2
<1> HIDE DEF F
<1> QED BY <1>3, <1>5, <1>6, FS_UNION

-----------------------------------------------------------------------------
(* What happens to a wait list. *)

\* The list is in the order of the values f.
Ascending(s, f) ==
  \A x, y \in 1 .. Len(s) : x < y => f[s[x]] <= f[s[y]]

\* A list without its first node.
LEMMA TailNodes ==
  ASSUME NEW S, NEW s \in Seq(S), Injective(s), s # <<>>
  PROVE  /\ Tail(s) \in Seq(S) /\ Injective(Tail(s)) /\ Len(Tail(s)) = Len(s) - 1
         /\ Nodes(Tail(s)) = Nodes(s) \ {Head(s)} /\ Head(s) \in Nodes(s)
<1> DEFINE u == Tail(s)
<1>1. u \in Seq(S) /\ Len(u) = Len(s) - 1 /\ Len(s) \in Nat \ {0} /\ Head(s) = s[1]
  OBVIOUS
<1>2. \A x \in 1 .. Len(u) : u[x] = s[x + 1]
  OBVIOUS
<1> HIDE DEF u
<1>3. Injective(u)
  BY <1>1, <1>2 DEF Injective
<1>4. ASSUME NEW v PROVE v \in Nodes(u) <=> v \in Nodes(s) /\ v # s[1]
  <2>1. ASSUME v \in Nodes(u) PROVE v \in Nodes(s) /\ v # s[1]
    <3>1. PICK x \in 1 .. Len(u) : v = u[x]
      BY <2>1 DEF Nodes
    <3>2. x + 1 \in 1 .. Len(s) /\ v = s[x + 1] /\ x + 1 # 1 /\ 1 \in 1 .. Len(s)
      BY <1>1, <1>2, <3>1
    <3> QED BY <3>2 DEF Nodes, Injective
  <2>2. ASSUME v \in Nodes(s), v # s[1] PROVE v \in Nodes(u)
    <3>1. PICK y \in 1 .. Len(s) : v = s[y]
      BY <2>2 DEF Nodes
    <3>2. y - 1 \in 1 .. Len(u) /\ (y - 1) + 1 = y
      BY <1>1, <2>2, <3>1
    <3>3. u[y - 1] = v
      BY <1>2, <3>1, <3>2
    <3> QED BY <3>2, <3>3 DEF Nodes
  <2> QED BY <2>1, <2>2
<1>5. Head(s) \in Nodes(s)
  BY <1>1 DEF Nodes
<1> QED BY <1>1, <1>3, <1>4, <1>5 DEF u

LEMMA UnlinkLength ==
  ASSUME NEW T, NEW s \in Seq(T), NEW t \in Nodes(s)
  PROVE  /\ Len(Unlink(s, t)) = Len(s) - 1
         /\ Injective(s) /\ t = Head(s) => Unlink(s, t) = Tail(s)
<1> DEFINE i == CHOOSE x \in 1 .. Len(s) : s[x] = t
           u == [x \in 1 .. (Len(s) - 1) |-> IF x < i THEN s[x] ELSE s[x + 1]]
<1>1. i \in 1 .. Len(s) /\ s[i] = t
  BY DEF Nodes
<1>2. Unlink(s, t) = u
  BY DEF Unlink
<1> HIDE DEF i
<1>3. u \in Seq(T) /\ Len(u) = Len(s) - 1
  BY <1>1
<1>4. ASSUME Injective(s), t = Head(s) PROVE u = Tail(s)
  <2>1. i = 1
    BY <1>1, <1>4 DEF Injective
  <2>2. \A x \in 1 .. Len(u) : u[x] = Tail(s)[x]
    BY <1>1, <1>3, <2>1
  <2> HIDE DEF u
  <2>3. Tail(s) \in Seq(T) /\ Len(Tail(s)) = Len(s) - 1
    BY <1>1
  <2> QED BY <1>3, <2>2, <2>3
<1> QED BY <1>2, <1>3, <1>4

LEMMA UnlinkAscending ==
  ASSUME NEW T, NEW s \in Seq(T), NEW f, Ascending(s, f), NEW t
  PROVE  Ascending(Unlink(s, t), f)
<1>1. CASE t \notin Nodes(s)
  BY <1>1 DEF Unlink
<1>2. CASE t \in Nodes(s)
  <2> DEFINE i == CHOOSE x \in 1 .. Len(s) : s[x] = t
             u == [x \in 1 .. (Len(s) - 1) |-> IF x < i THEN s[x] ELSE s[x + 1]]
  <2>1. i \in 1 .. Len(s) /\ Unlink(s, t) = u
    BY <1>2 DEF Nodes, Unlink
  <2> HIDE DEF i
  <2>2. Len(u) = Len(s) - 1
    BY <2>1
  <2>3. ASSUME NEW x \in 1 .. Len(u), NEW y \in 1 .. Len(u), x < y
        PROVE  f[u[x]] <= f[u[y]]
    <3> DEFINE g(z) == IF z < i THEN z ELSE z + 1
    <3>1. /\ g(x) \in 1 .. Len(s) /\ g(y) \in 1 .. Len(s) /\ g(x) < g(y)
          /\ u[x] = s[g(x)] /\ u[y] = s[g(y)]
      BY <2>1, <2>2, <2>3
    <3> QED BY <3>1 DEF Ascending
  <2> QED BY <2>1, <2>3 DEF Ascending
<1> QED BY <1>1, <1>2

\* Where a thread of priority p goes: behind everyone not less urgent, before
\* everyone less urgent.
LEMMA PrioPositionPlace ==
  ASSUME NEW i, NEW s \in Seq(Thread), NEW p \in Prio, Ascending(s, i.prio),
         i.prio \in [Thread -> Prio]
  PROVE  /\ PrioPosition(i, s, p) \in 1 .. (Len(s) + 1)
         /\ \A x \in 1 .. Len(s) : x < PrioPosition(i, s, p) => i.prio[s[x]] <= p
         /\ \A x \in 1 .. Len(s) : x >= PrioPosition(i, s, p) => p <= i.prio[s[x]]
<1> DEFINE S == {x \in 1 .. Len(s) : p < i.prio[s[x]]}
           z == PrioPosition(i, s, p)
<1>0. Prio \subseteq Int /\ \A x \in 1 .. Len(s) : s[x] \in Thread /\ i.prio[s[x]] \in Int
  BY KernelAssumption DEF Prio
<1>1. CASE S = {}
  <2>1. z = Len(s) + 1
    BY <1>1 DEF PrioPosition
  <2>2. \A x \in 1 .. Len(s) : i.prio[s[x]] <= p
    BY <1>0, <1>1
  <2> QED BY <2>1, <2>2
<1>2. CASE S # {}
  <2>1. S \in SUBSET Nat
    OBVIOUS
  <2>2. rt_ffs(S) \in S /\ \A c \in S : rt_ffs(S) <= c
    BY <1>2, <2>1, rt_ffsLowest
  <2>3. PICK w \in S : \A c \in S : w <= c
    BY <2>2
  <2>4. /\ w \in 1 .. Len(s) /\ p < i.prio[s[w]]
        /\ \A x \in 1 .. (w - 1) : ~(p < i.prio[s[x]])
    BY <2>3
  <2>5. /\ z \in 1 .. Len(s) /\ p < i.prio[s[z]]
        /\ \A x \in 1 .. (z - 1) : ~(p < i.prio[s[x]])
    BY <2>4 DEF PrioPosition
  <2> HIDE DEF z
  <2>6. \A x \in 1 .. Len(s) : x < z => i.prio[s[x]] <= p
    BY <1>0, <2>5
  <2>7. \A x \in 1 .. Len(s) : x >= z => p <= i.prio[s[x]]
    <3> TAKE x \in 1 .. Len(s)
    <3> HAVE x >= z
    <3>1. CASE x = z
      BY <1>0, <2>5, <3>1
    <3>2. CASE x > z
      <4>1. i.prio[s[z]] <= i.prio[s[x]]
        BY <2>5, <3>2 DEF Ascending
      <4> QED BY <1>0, <2>5, <4>1
    <3> QED BY <3>1, <3>2, <2>5
  <2> QED BY <2>5, <2>6, <2>7 DEF z
<1> QED BY <1>1, <1>2

LEMMA InsertAscending ==
  ASSUME NEW s \in Seq(Thread), NEW f \in [Thread -> Prio], Ascending(s, f), NEW t \in Thread,
         NEW z \in 1 .. (Len(s) + 1),
         \A x \in 1 .. Len(s) : x < z => f[s[x]] <= f[t],
         \A x \in 1 .. Len(s) : x >= z => f[t] <= f[s[x]]
  PROVE  Ascending(InsertBefore(s, z, t), f)
<1> DEFINE u == InsertBefore(s, z, t)
<1>1. /\ Len(u) = Len(s) + 1
      /\ \A x \in 1 .. Len(u) :
           u[x] = IF x < z THEN s[x] ELSE IF x = z THEN t ELSE s[x - 1]
  BY DEF InsertBefore
<1>p. Prio \subseteq Int
  BY KernelAssumption DEF Prio
<1> HIDE DEF u
<1>2. ASSUME NEW x \in 1 .. Len(u), NEW y \in 1 .. Len(u), x < y
      PROVE  f[u[x]] <= f[u[y]]
  <2>1. CASE y < z
    BY <1>1, <1>2, <2>1 DEF Ascending
  <2>2. CASE y = z
    BY <1>1, <1>2, <2>2
  <2>3. CASE y > z /\ x < z
    <3>1. /\ x \in 1 .. Len(s) /\ y - 1 \in 1 .. Len(s) /\ y - 1 >= z
          /\ u[x] = s[x] /\ u[y] = s[y - 1]
      BY <1>1, <1>2, <2>3
    <3>2. f[s[x]] <= f[t] /\ f[t] <= f[s[y - 1]]
      BY <2>3, <3>1
    <3>3. s[x] \in Thread /\ s[y - 1] \in Thread
      BY <3>1
    <3>4. f[s[x]] \in Int /\ f[s[y - 1]] \in Int /\ f[t] \in Int
      BY <1>p, <3>3
    <3> QED BY <3>1, <3>2, <3>4
  <2>4. CASE x = z
    BY <1>1, <1>2, <2>4
  <2>5. CASE x > z
    <3>1. /\ x - 1 \in 1 .. Len(s) /\ y - 1 \in 1 .. Len(s) /\ x - 1 < y - 1
          /\ u[x] = s[x - 1] /\ u[y] = s[y - 1]
      BY <1>1, <1>2, <2>5
    <3>2. f[s[x - 1]] <= f[s[y - 1]]
      BY <3>1 DEF Ascending
    <3> QED BY <3>1, <3>2
  <2> QED BY <1>1, <1>2, <2>1, <2>2, <2>3, <2>4, <2>5
<1> QED BY <1>2 DEF Ascending, u

LEMMA RousedLists ==
  ASSUME NEW i, Sound(i), NEW j, NEW t, NEW e, Roused(j, i, t, e), NEW q \in WaitList
  PROVE  /\ i.wait[q] \in Seq(Thread) /\ Injective(i.wait[q])
         /\ j.wait[q] = Unlink(i.wait[q], t)
         /\ Nodes(j.wait[q]) = Nodes(i.wait[q]) \ {t}
         /\ i.wait[q] = <<>> => j.wait[q] = <<>>
         /\ Ascending(i.wait[q], i.prio) => Ascending(j.wait[q], j.prio)
<1>1. i.wait[q] \in Seq(Thread) /\ Injective(i.wait[q])
  BY DEF Sound, KernelInv, KernelState, ListsSound
<1>2. j.wait[q] = Unlink(i.wait[q], t) /\ j.prio = i.prio
  BY DEF Roused
<1>3. Nodes(j.wait[q]) = Nodes(i.wait[q]) \ {t} /\ j.wait[q] \in Seq(Thread)
  BY <1>1, <1>2, UnlinkNodes
<1>4. ASSUME i.wait[q] = <<>> PROVE j.wait[q] = <<>>
  <2>1. Nodes(i.wait[q]) = {}
    BY <1>4 DEF Nodes
  <2>2. Nodes(j.wait[q]) = {}
    BY <1>3, <2>1
  <2> QED BY <1>3, <2>2, EmptyNodes
<1> QED BY <1>1, <1>2, <1>3, <1>4, UnlinkAscending

LEMMA PositionType ==
  ASSUME NEW i, Sound(i), NEW t \in Thread, NEW q \in WaitList, NEW flag
  PROVE  Place(i, q, Position(i, q, t, flag))
<1> DEFINE s == i.wait[q]
<1>1. s \in Seq(Thread) /\ i.prio \in [Thread -> Prio]
  BY DEF Sound, KernelInv, KernelState
<1>2. i.prio[t] \in Prio /\ \A y \in 1 .. Len(s) : i.prio[s[y]] \in Prio
  BY <1>1
<1> HIDE DEF s
<1>3. PrioPosition(i, s, i.prio[t]) \in 1 .. (Len(s) + 1)
  BY <1>1, <1>2, PrioPositionType
<1> QED BY <1>1, <1>3 DEF Place, Position, s

\* t in front of the x-th thread of list q
LEMMA BlockedNodes ==
  ASSUME NEW i, Sound(i), NEW t \in Thread, i.stat[t] = "READY", NEW q \in WaitList,
         NEW x, Place(i, q, x), NEW j, BlockedAt(j, i, q, t, x)
  PROVE  /\ i.wait[q] \in Seq(Thread) /\ j.wait[q] = InsertBefore(i.wait[q], x, t)
         /\ \A r \in WaitList : r # q => j.wait[r] = i.wait[r]
<1>1. i.wait \in [WaitList -> Seq(Thread)]
  BY DEF Sound, KernelInv, KernelState
<1> QED BY <1>1 DEF BlockedAt

LEMMA BlockedJoins ==
  ASSUME NEW i, Sound(i), NEW t \in Thread, i.stat[t] = "READY", NEW q \in WaitList,
         NEW x, Place(i, q, x), NEW j, BlockedAt(j, i, q, t, x)
  PROVE  \A u : u \in Nodes(j.wait[q]) <=> u \in Nodes(i.wait[q]) \/ u = t
<1> DEFINE s == i.wait[q]
<1>1. s \in Seq(Thread) /\ Injective(s) /\ t \notin Nodes(s)
  BY ReadyUnlisted DEF Sound, KernelInv, KernelState, ListsSound
<1>2. j.wait[q] = InsertBefore(s, x, t)
  BY BlockedNodes
<1>3. Nodes(j.wait[q]) = Nodes(s) \cup {t}
  BY <1>1, <1>2, InsertNodes DEF Place
<1> QED BY <1>3

\* With RT_IPC_FLAG_PRIO the list stays in priority order.
LEMMA BlockedAscending ==
  ASSUME NEW i, Sound(i), NEW t \in Thread, i.stat[t] = "READY", NEW q \in WaitList,
         NEW j, BlockedAt(j, i, q, t, Position(i, q, t, "PRIO")),
         Ascending(i.wait[q], i.prio)
  PROVE  Ascending(j.wait[q], j.prio)
<1> DEFINE s == i.wait[q]
           x == Position(i, q, t, "PRIO")
<1>1. i.prio \in [Thread -> Prio] /\ j.prio = i.prio /\ i.prio[t] \in Prio
  BY DEF Sound, KernelInv, KernelState, BlockedAt
<1>2. Place(i, q, x)
  BY PositionType
<1>3. x = PrioPosition(i, s, i.prio[t])
  BY DEF Position
<1> HIDE DEF x
<1>4. s \in Seq(Thread) /\ j.wait[q] = InsertBefore(s, x, t)
  BY <1>2, BlockedNodes DEF x
<1> HIDE DEF s
<1>5. /\ \A y \in 1 .. Len(s) : y < x => i.prio[s[y]] <= i.prio[t]
      /\ \A y \in 1 .. Len(s) : y >= x => i.prio[t] <= i.prio[s[y]]
  BY <1>1, <1>3, <1>4, PrioPositionPlace DEF s
<1> QED BY <1>1, <1>2, <1>4, <1>5, InsertAscending DEF Place, s

-----------------------------------------------------------------------------
(* The invariant every IPC object shares.                                    *)
(* C: its control points; S: those of a call in which a thread may be        *)
(* suspended; L: those at which it has suspended itself and not yet called    *)
(* rt_schedule().                                                            *)

IpcOK(C, S, L) ==
  /\ Sound(k) /\ pc \in [Thread -> C]
  /\ \A t \in Thread : k.stat[t] = "READY" \/ (k.stat[t] = "SUSPEND" /\ pc[t] \in S)
  /\ k.stat[k.cur] = "READY" \/ pc[k.cur] \in L

\* List q holds the threads suspended at a control point in P, none with an error.
Blocking(q, P) ==
  /\ Nodes(k.wait[q]) = {t \in Thread : pc[t] \in P /\ k.stat[t] = "SUSPEND"}
  /\ \A t \in Nodes(k.wait[q]) : k.err[t] = RT_EOK

\* Only the control point of t changes, if any does.
Moves(C, t) == pc' \in [Thread -> C] /\ \A u \in Thread \ {t} : pc'[u] = pc[u]

LEMMA GotoMoves ==
  ASSUME NEW C, pc \in [Thread -> C], NEW t \in Thread, NEW m \in C, Goto(t, m)
  PROVE  Moves(C, t) /\ pc'[t] = m
  BY DEF Goto, Moves

LEMMA StayMoves ==
  ASSUME NEW C, pc \in [Thread -> C], pc' = pc, NEW t \in Thread
  PROVE  Moves(C, t) /\ pc'[t] = pc[t]
  BY DEF Moves

LEMMA CurThread ==
  ASSUME NEW j, Sound(j)
  PROVE  j.cur \in Thread /\ j \in KernelState
  BY DEF Sound, KernelInv, KernelState

\* A thread switch, or none.
LEMMA CalmKeeps ==
  ASSUME NEW C, NEW S, NEW L, IpcOK(C, S, L), NEW t \in Thread, Moves(C, t),
         Sound(k'), Calm(k', k), k.stat[t] = "READY" \/ pc'[t] \in S,
         \/ k'.stat[k'.cur] = "READY"
         \/ k'.cur = k.cur /\ pc'[k.cur] = pc[k.cur]
  PROVE  IpcOK(C, S, L)'
  BY CurThread DEF IpcOK, Moves, Calm

LEMMA CalmBlocking ==
  ASSUME NEW C, NEW t \in Thread, Moves(C, t), NEW q, NEW P, Blocking(q, P), Calm(k', k),
         k.stat[t] = "READY" \/ (pc[t] \in P <=> pc'[t] \in P)
  PROVE  Blocking(q, P)'
  BY DEF Blocking, Moves, Calm

\* u is woken; t goes on.
LEMMA RousedKeeps ==
  ASSUME NEW C, NEW S, NEW L, IpcOK(C, S, L), NEW t \in Thread, Moves(C, t),
         Sound(k'), NEW u \in Thread, NEW e, Roused(k', k, u, e),
         k.stat[t] = "READY" \/ pc'[t] \in S,
         \/ k'.stat[k'.cur] = "READY"
         \/ k'.cur = k.cur /\ pc'[k.cur] = pc[k.cur]
  PROVE  IpcOK(C, S, L)'
<1>1. k.stat \in [Thread -> Stat] /\ k.cur \in Thread /\ k'.cur \in Thread
  BY CurThread, SMTT(30) DEF IpcOK, KernelState
<1> QED BY <1>1 DEF IpcOK, Moves, Roused

LEMMA RousedBlocking ==
  ASSUME Sound(k), NEW C, NEW t \in Thread, Moves(C, t), NEW q \in WaitList, NEW P,
         Blocking(q, P), NEW u \in Thread, NEW e, Roused(k', k, u, e),
         k.stat[t] = "READY" \/ (pc[t] \in P <=> pc'[t] \in P)
  PROVE  Blocking(q, P)'
<1>1. Nodes(k'.wait[q]) = Nodes(k.wait[q]) \ {u}
  BY RousedLists
<1>2. k.stat \in [Thread -> Stat] /\ k.err \in [Thread -> ErrNo]
  BY CurThread DEF KernelState
<1>3. \A v \in Thread : k'.stat[v] = IF v = u THEN "READY" ELSE k.stat[v]
  BY <1>2 DEF Roused
<1>4. \A v \in Thread \ {u} : k'.err[v] = k.err[v]
  BY <1>2 DEF Roused
<1>5. Nodes(k'.wait[q]) = {v \in Thread : pc'[v] \in P /\ k'.stat[v] = "SUSPEND"}
  BY <1>1, <1>3 DEF Blocking, Moves
<1>6. \A v \in Nodes(k'.wait[q]) : k'.err[v] = RT_EOK
  BY <1>1, <1>4 DEF Blocking
<1> QED BY <1>5, <1>6 DEF Blocking

\* t goes to sleep, in a list or not.
LEMMA SuspendedKeeps ==
  ASSUME NEW C, NEW S, NEW L, IpcOK(C, S, L), NEW t \in Thread, Moves(C, t), Sound(k'),
         k'.stat = [k.stat EXCEPT ![t] = "SUSPEND"], k'.cur = k.cur, k.cur = t,
         pc'[t] \in S \cap L
  PROVE  IpcOK(C, S, L)'
<1>1. k.stat \in [Thread -> Stat] /\ k.cur \in Thread
  BY CurThread DEF IpcOK, KernelState
<1> QED BY <1>1 DEF IpcOK, Moves

LEMMA SleptBlocking ==
  ASSUME Sound(k), NEW C, NEW t \in Thread, Moves(C, t), NEW q \in WaitList, NEW P,
         Blocking(q, P), Slept(k', k, t), k.stat[t] = "READY", pc'[t] \notin P
  PROVE  Blocking(q, P)'
<1>1. k.stat \in [Thread -> Stat]
  BY CurThread DEF KernelState
<1> QED BY <1>1 DEF Blocking, Moves, Slept

\* t joins list q.
LEMMA BlockedList ==
  ASSUME Sound(k), NEW t \in Thread, NEW q \in WaitList, NEW x, Place(k, q, x),
         BlockedAt(k', k, q, t, x), k.stat[t] = "READY"
  PROVE  \A u : u \in Nodes(k'.wait[q]) <=> u \in Nodes(k.wait[q]) \/ u = t
  BY BlockedJoins

LEMMA BlockedBlocking ==
  ASSUME Sound(k), NEW C, NEW t \in Thread, Moves(C, t), NEW q \in WaitList,
         NEW r \in WaitList, NEW P, Blocking(r, P),
         NEW x, Place(k, q, x), BlockedAt(k', k, q, t, x),
         k.stat[t] = "READY", IF r = q THEN pc'[t] \in P ELSE pc'[t] \notin P
  PROVE  Blocking(r, P)'
<1>1. k.stat \in [Thread -> Stat] /\ k.err \in [Thread -> ErrNo]
  BY CurThread DEF KernelState
<1>2. \A u : u \in Nodes(k'.wait[q]) <=> u \in Nodes(k.wait[q]) \/ u = t
  BY BlockedJoins
<1>6. r # q => k'.wait[r] = k.wait[r]
  BY BlockedNodes
<1>3. \A v \in Thread : /\ k'.stat[v] = IF v = t THEN "SUSPEND" ELSE k.stat[v]
                        /\ k'.err[v] = IF v = t THEN RT_EOK ELSE k.err[v]
  BY <1>1 DEF BlockedAt
<1>4. Nodes(k'.wait[r]) = {v \in Thread : pc'[v] \in P /\ k'.stat[v] = "SUSPEND"}
  <2>1. CASE r = q
    BY <2>1, <1>2, <1>3 DEF Blocking, Moves
  <2>2. CASE r # q
    BY <2>2, <1>6, <1>3 DEF Blocking, Moves
  <2> QED BY <2>1, <2>2
<1>5. \A v \in Nodes(k'.wait[r]) : k'.err[v] = RT_EOK
  BY <1>2, <1>3, <1>6 DEF Blocking
<1> QED BY <1>4, <1>5 DEF Blocking

\* The error number of a ready thread is set.
LEMMA NotedKeeps ==
  ASSUME NEW C, NEW S, NEW L, IpcOK(C, S, L), NEW t \in Thread, Moves(C, t),
         Sound(k'), NEW u, NEW e, Noted(k', k, u, e), k.stat[t] = "READY",
         k.cur = t
  PROVE  IpcOK(C, S, L)'
  BY CurThread DEF IpcOK, Moves, Noted

LEMMA NotedBlocking ==
  ASSUME Sound(k), NEW C, NEW t \in Thread, Moves(C, t), NEW q \in WaitList, NEW P,
         Blocking(q, P), NEW e, Noted(k', k, t, e), k.stat[t] = "READY"
  PROVE  Blocking(q, P)'
<1>1. k.err \in [Thread -> ErrNo]
  BY CurThread DEF KernelState
<1>2. \A v \in Thread \ {t} : k'.err[v] = k.err[v]
  BY <1>1 DEF Noted
<1> QED BY <1>2 DEF Blocking, Moves, Noted

-----------------------------------------------------------------------------
(* The threads that were woken without an error: Woken(P). *)

LEMMA WokenFinite ==
  ASSUME NEW P
  PROVE  /\ IsFiniteSet(Woken(P)) /\ Cardinality(Woken(P)) \in Nat
         /\ Woken(P) = {} => Cardinality(Woken(P)) = 0
<1>1. Woken(P) \subseteq Thread
  BY DEF Woken
<1>2. IsFiniteSet(Woken(P))
  BY <1>1, ThreadFinite, FS_Subset
<1> QED BY <1>2, FS_CardinalityType, FS_EmptySet

\* A thread more, a thread fewer.
LEMMA WokenCount ==
  ASSUME NEW P, NEW t
  PROVE  /\ Woken(P)' = Woken(P) \cup {t} /\ t \notin Woken(P)
              => Cardinality(Woken(P)') = Cardinality(Woken(P)) + 1
         /\ Woken(P)' = Woken(P) \ {t} /\ t \in Woken(P)
              => Cardinality(Woken(P)') = Cardinality(Woken(P)) - 1
  BY WokenFinite, FS_AddElement, FS_RemoveElement

\* t is not counted any more.
LEMMA OneLess ==
  ASSUME NEW P, NEW t, Woken(P)' = Woken(P) \ {t}
  PROVE  /\ Cardinality(Woken(P)) \in Nat /\ Cardinality(Woken(P)') \in Nat
         /\ Cardinality(Woken(P)') >= Cardinality(Woken(P)) - 1
         /\ t \notin Woken(P) => Cardinality(Woken(P)') = Cardinality(Woken(P))
<1>1. Cardinality(Woken(P)) \in Nat
  BY WokenFinite
<1>2. CASE t \in Woken(P)
  <2>1. Cardinality(Woken(P)') = Cardinality(Woken(P)) - 1
    BY <1>2, WokenCount
  <2>2. Cardinality(Woken(P)) # 0
    BY <1>2, WokenFinite, FS_EmptySet
  <2> QED BY <1>1, <1>2, <2>1, <2>2
<1>3. CASE t \notin Woken(P)
  <2>1. Woken(P)' = Woken(P)
    BY <1>3
  <2> QED BY <1>1, <1>3, <2>1
<1> QED BY <1>2, <1>3

LEMMA CalmWoken ==
  ASSUME NEW C, NEW t \in Thread, Moves(C, t), Calm(k', k), NEW P,
         pc[t] \in P <=> pc'[t] \in P
  PROVE  Woken(P)' = Woken(P)
  BY DEF Woken, Moves, Calm

\* t leaves its call.
LEMMA LeaveWoken ==
  ASSUME NEW C, NEW t \in Thread, Moves(C, t), Calm(k', k), NEW P, pc'[t] \notin P
  PROVE  Woken(P)' = Woken(P) \ {t}
  BY DEF Woken, Moves, Calm

\* u is woken while t goes on outside P.
LEMMA RousedWoken ==
  ASSUME Sound(k), NEW C, NEW t \in Thread, Moves(C, t), NEW u \in Thread, NEW e, NEW P,
         Roused(k', k, u, e), k.stat[u] = "SUSPEND", pc[t] \in P <=> pc'[t] \in P
  PROVE  /\ u \notin Woken(P)
         /\ pc'[u] \in P /\ e = RT_EOK => Woken(P)' = Woken(P) \cup {u}
         /\ pc'[u] \notin P \/ e # RT_EOK => Woken(P)' = Woken(P)
<1>1. k.stat \in [Thread -> Stat] /\ k.err \in [Thread -> ErrNo]
  BY CurThread DEF KernelState
<1>2. \A v \in Thread : /\ k'.stat[v] = IF v = u THEN "READY" ELSE k.stat[v]
                        /\ k'.err[v] = IF v = u THEN e ELSE k.err[v]
  BY <1>1 DEF Roused
<1> QED BY <1>2 DEF Woken, Moves

\* A step of t that leaves the others as they are, and t not woken.
LEMMA OwnWoken ==
  ASSUME NEW C, NEW t \in Thread, Moves(C, t), NEW P,
         \A u \in Thread \ {t} : k'.stat[u] = k.stat[u] /\ k'.err[u] = k.err[u],
         k'.stat[t] = "SUSPEND" \/ pc'[t] \notin P
  PROVE  Woken(P)' = Woken(P) \ {t}
<1>1. t \notin Woken(P)'
  BY DEF Woken
<1> QED BY <1>1 DEF Woken, Moves

-----------------------------------------------------------------------------
(* The steps every IPC object has.  At l the thread has not suspended itself.  *)

LEMMA RunnerReady ==
  ASSUME NEW C, NEW S, NEW L, IpcOK(C, S, L), NEW t, NEW l, At(t, l), l \notin L
  PROVE  t = k.cur /\ t \in Thread /\ k.stat[t] = "READY" /\ pc[t] = l
  BY CurThread DEF IpcOK, At

\* A step that leaves the kernel alone.
LEMMA StillStep ==
  ASSUME NEW C, NEW S, NEW L, IpcOK(C, S, L), NEW t, NEW l, At(t, l), l \notin L,
         k' = k, NEW m \in C, Goto(t, m)
  PROVE  IpcOK(C, S, L)' /\ Moves(C, t) /\ Calm(k', k) /\ pc'[t] = m
<1>1. t = k.cur /\ t \in Thread /\ k.stat[t] = "READY"
  BY RunnerReady
<1>2. Moves(C, t) /\ pc'[t] = m
  BY <1>1, GotoMoves DEF IpcOK
<1>3. Sound(k') /\ Calm(k', k)
  BY DEF IpcOK, Calm
<1> QED BY <1>1, <1>2, <1>3, CalmKeeps

LEMMA ScheduleStep ==
  ASSUME NEW C, NEW S, NEW L, IpcOK(C, S, L), NEW t, NEW l, NEW m \in C,
         Schedule(t, l, m), l \in L => m \in S
  PROVE  /\ IpcOK(C, S, L)' /\ t \in Thread /\ Moves(C, t) /\ Calm(k', k)
         /\ pc[t] = l /\ pc'[t] = m
<1>1. t = k.cur /\ t \in Thread /\ pc[t] = l
  BY CurThread DEF IpcOK, Schedule, At
<1>2. Moves(C, t) /\ pc'[t] = m
  BY <1>1, GotoMoves DEF IpcOK, Schedule
<1>3. Sound(k') /\ Calm(k', k) /\ k'.stat[k'.cur] = "READY"
  BY ScheduleCalm DEF IpcOK, Schedule
<1>4. k.stat[t] = "READY" \/ pc'[t] \in S
  BY <1>1, <1>2 DEF IpcOK
<1> QED BY <1>1, <1>2, <1>3, <1>4, CalmKeeps

LEMMA SliceStep ==
  ASSUME NEW C, NEW S, NEW L, IpcOK(C, S, L), TickSlice
  PROVE  /\ IpcOK(C, S, L)' /\ k.cur \in Thread /\ Moves(C, k.cur) /\ Calm(k', k)
         /\ pc' = pc
<1>1. k.cur \in Thread /\ pc' = pc
  BY CurThread DEF IpcOK, TickSlice
<1>2. Moves(C, k.cur)
  BY <1>1, StayMoves DEF IpcOK
<1>3. Sound(k') /\ Calm(k', k) /\ (k'.cur # k.cur => k'.stat[k'.cur] = "READY")
  BY YieldCalm DEF IpcOK, TickSlice
<1>4. k.stat[k.cur] = "READY" \/ pc'[k.cur] \in S
  BY <1>1 DEF IpcOK
<1> QED BY <1>1, <1>2, <1>3, <1>4, CalmKeeps

LEMMA TimeoutStep ==
  ASSUME NEW C, NEW S, NEW L, IpcOK(C, S, L), NEW t \in Thread, TickTimeout(t)
  PROVE  /\ IpcOK(C, S, L)' /\ Moves(C, t) /\ Roused(k', k, t, RT_ETIMEOUT)
         /\ k.stat[t] = "SUSPEND" /\ pc' = pc
<1>1. pc' = pc /\ k.armed[t] /\ k' = rt_thread_timeout(k, t) /\ Sound(k)
  BY DEF IpcOK, TickTimeout
<1>2. Moves(C, t)
  BY <1>1, StayMoves DEF IpcOK
<1>3. /\ Sound(k') /\ Roused(k', k, t, RT_ETIMEOUT) /\ k'.stat[k'.cur] = "READY"
      /\ k.stat[t] = "SUSPEND"
  BY <1>1, TimeoutRouses
<1>4. pc'[t] \in S
  BY <1>1, <1>3 DEF IpcOK
<1> QED BY <1>1, <1>2, <1>3, <1>4, RousedKeeps

LEMMA SleepStep ==
  ASSUME NEW C, NEW S, NEW L, IpcOK(C, S, L), NEW t, rt_thread_sleep(t), "run" \notin L,
         "sleeping" \in C \cap S \cap L
  PROVE  /\ IpcOK(C, S, L)' /\ t \in Thread /\ Moves(C, t) /\ Slept(k', k, t)
         /\ k.stat[t] = "READY" /\ pc[t] = "run" /\ pc'[t] = "sleeping"
<1>1. t = k.cur /\ t \in Thread \ {Idle} /\ k.stat[t] = "READY" /\ pc[t] = "run"
  BY RunnerReady DEF rt_thread_sleep
<1>2. Moves(C, t) /\ pc'[t] = "sleeping"
  BY <1>1, GotoMoves DEF IpcOK, rt_thread_sleep
<1>3. Sound(k') /\ Slept(k', k, t)
  BY <1>1, StartedSleeps DEF IpcOK, rt_thread_sleep
<1> QED BY <1>1, <1>2, <1>3, SuspendedKeeps DEF Slept

LEMMA SleepingStep ==
  ASSUME NEW C, NEW S, NEW L, IpcOK(C, S, L), NEW t, Sleeping(t), {"run", "slept"} \subseteq C,
         "slept" \in S \ L
  PROVE  /\ IpcOK(C, S, L)' /\ t \in Thread /\ Moves(C, t)
         /\ pc[t] \in {"sleeping", "slept"} /\ pc'[t] \in {"slept", "run"}
         /\ \/ Calm(k', k)
            \/ Noted(k', k, t, RT_EOK) /\ k.stat[t] = "READY"
<1>1. CASE Schedule(t, "sleeping", "slept")
  BY <1>1, ScheduleStep
<1>2. CASE SleepReturn(t)
  <2>1. /\ t = k.cur /\ t \in Thread /\ k.stat[t] = "READY" /\ pc[t] = "slept"
        /\ At(t, "slept") /\ Goto(t, "run")
    BY <1>2, RunnerReady DEF SleepReturn
  <2>2. Moves(C, t) /\ pc'[t] = "run"
    BY <2>1, GotoMoves DEF IpcOK
  <2>3. CASE k' = k
    BY <2>1, <2>2, <2>3, StillStep
  <2>4. CASE k' = SetErr(k, t, RT_EOK)
    <3>1. Sound(k') /\ Noted(k', k, t, RT_EOK)
      BY <2>1, <2>4, NotedOK DEF IpcOK, ErrNo
    <3> QED BY <2>1, <2>2, <3>1, NotedKeeps
  <2> QED BY <1>2, <2>3, <2>4 DEF SleepReturn
<1> QED BY <1>1, <1>2 DEF Sleeping

\* The running thread sets its own error number.
LEMMA NoteStep ==
  ASSUME NEW C, NEW S, NEW L, IpcOK(C, S, L), NEW t, NEW l, At(t, l), l \notin L,
         NEW e \in ErrNo, k' = SetErr(k, t, e), NEW m \in C, Goto(t, m)
  PROVE  IpcOK(C, S, L)' /\ Moves(C, t) /\ Noted(k', k, t, e) /\ pc'[t] = m
<1>1. t = k.cur /\ t \in Thread /\ k.stat[t] = "READY"
  BY RunnerReady
<1>2. Moves(C, t) /\ pc'[t] = m
  BY <1>1, GotoMoves DEF IpcOK
<1>3. Sound(k') /\ Noted(k', k, t, e)
  BY <1>1, NotedOK DEF IpcOK
<1> QED BY <1>1, <1>2, <1>3, NotedKeeps

\* The running thread blocks on list q.
LEMMA BlockStep ==
  ASSUME NEW C, NEW S, NEW L, IpcOK(C, S, L), NEW t, t # Idle, NEW l, At(t, l), l \notin L,
         NEW q \in WaitList \ {Defunct}, NEW flag, NEW time,
         k' = Block(k, q, t, flag, time), NEW m \in C \cap S \cap L, Goto(t, m)
  PROVE  /\ IpcOK(C, S, L)' /\ t \in Thread /\ k.stat[t] = "READY"
         /\ Moves(C, t) /\ pc[t] = l /\ pc'[t] = m
         /\ BlockedAt(k', k, q, t, Position(k, q, t, flag))
         /\ Place(k, q, Position(k, q, t, flag))
<1>1. t = k.cur /\ t \in Thread \ {Idle} /\ k.stat[t] = "READY" /\ pc[t] = l /\ Sound(k)
  BY RunnerReady DEF IpcOK
<1>2. Moves(C, t) /\ pc'[t] = m
  BY <1>1, GotoMoves DEF IpcOK
<1>3. Sound(k') /\ BlockedAt(k', k, q, t, Position(k, q, t, flag))
  BY <1>1, BlockBlocks
<1>4. Place(k, q, Position(k, q, t, flag))
  BY <1>1, PositionType
<1>5. k'.stat = [k.stat EXCEPT ![t] = "SUSPEND"] /\ k'.cur = k.cur
  BY <1>3 DEF BlockedAt
<1>6. IpcOK(C, S, L)'
  BY <1>1, <1>2, <1>3, <1>5, SuspendedKeeps
<1> QED BY <1>1, <1>2, <1>3, <1>4, <1>6

\* The running thread, or an interrupt handler, wakes u.
LEMMA RouseStep ==
  ASSUME NEW C, NEW S, NEW L, IpcOK(C, S, L), NEW t, NEW l, At(t, l), l \notin L,
         NEW u \in Thread, NEW e, Sound(k'), k'.cur = k.cur, Roused(k', k, u, e),
         NEW m \in C, Goto(t, m)
  PROVE  /\ IpcOK(C, S, L)' /\ t \in Thread /\ Moves(C, t) /\ pc[t] = l /\ pc'[t] = m
         /\ k.stat[t] = "READY"
<1>1. t = k.cur /\ t \in Thread /\ k.stat[t] = "READY" /\ pc[t] = l
  BY RunnerReady
<1>2. Moves(C, t) /\ pc'[t] = m
  BY <1>1, GotoMoves DEF IpcOK
<1>3. k.stat \in [Thread -> Stat]
  BY CurThread DEF IpcOK, KernelState
<1>4. k'.stat[k'.cur] = "READY"
  BY <1>1, <1>3 DEF Roused
<1> QED BY <1>1, <1>2, <1>4, RousedKeeps

LEMMA IsrRouseStep ==
  ASSUME NEW C, NEW S, NEW L, IpcOK(C, S, L), NEW q \in WaitList \ {Defunct},
         k.wait[q] # <<>>, NEW j, Sound(j), NEW u \in Thread, NEW e, Roused(j, k, u, e),
         k' = rt_schedule(j), pc' = pc
  PROVE  /\ IpcOK(C, S, L)' /\ Roused(k', k, u, e)
         /\ k.cur \in Thread /\ Moves(C, k.cur)
<1>1. k.cur \in Thread
  BY CurThread DEF IpcOK
<1>2. Moves(C, k.cur)
  BY <1>1, StayMoves DEF IpcOK
<1>3. Sound(k') /\ Calm(k', j) /\ k'.stat[k'.cur] = "READY"
  BY ScheduleCalm
<1>4. Roused(k', k, u, e)
  BY <1>3 DEF Calm, Roused
<1>5. k.stat[k.cur] = "READY" \/ pc'[k.cur] \in S
  BY <1>1 DEF IpcOK
<1> QED BY <1>1, <1>2, <1>3, <1>4, <1>5, RousedKeeps

LEMMA ResumeAllStep ==
  ASSUME NEW C, NEW S, NEW L, IpcOK(C, S, L), NEW t, NEW q \in WaitList \ {Defunct},
         NEW l, l \notin L, NEW m \in C, "crashed" \in C, ResumeAllTurn(t, q, l, m)
  PROVE  /\ IpcOK(C, S, L)' /\ t \in Thread /\ Moves(C, t) /\ pc[t] = l
         /\ k.stat[t] = "READY"
         /\ \/ /\ k.wait[q] # <<>> /\ Roused(k', k, Head(k.wait[q]), RT_ERROR)
               /\ pc'[t] = m
               /\ Head(k.wait[q]) \in Thread /\ k.stat[Head(k.wait[q])] = "SUSPEND"
            \/ k.wait[q] = <<>> /\ Calm(k', k) /\ pc'[t] = "crashed"
<1>1. At(t, l) /\ Sound(k)
  BY DEF ResumeAllTurn, IpcOK
<1>2. t \in Thread /\ k.stat[t] = "READY" /\ pc[t] = l
  BY <1>1, RunnerReady
<1>3. CASE k.wait[q] # <<>>
  <2> DEFINE u == Head(k.wait[q])
  <2>1. k' = rt_ipc_list_resume_error(k, q) /\ Goto(t, m)
    BY <1>3 DEF ResumeAllTurn
  <2>2. u \in Thread /\ k.stat[u] = "SUSPEND"
    BY <1>1, <1>3, HeadSuspended
  <2>3. Sound(k') /\ k'.cur = k.cur /\ Roused(k', k, u, RT_ERROR)
    BY <1>1, <1>3, <2>1, ListResumeErrorRouses
  <2> HIDE DEF u
  <2>4. IpcOK(C, S, L)' /\ Moves(C, t) /\ pc'[t] = m
    BY <1>1, <2>1, <2>2, <2>3, RouseStep
  <2> QED BY <1>2, <1>3, <2>2, <2>3, <2>4 DEF u
<1>4. CASE k.wait[q] = <<>>
  <2>1. k' = k /\ Goto(t, "crashed")
    BY <1>4 DEF ResumeAllTurn
  <2> QED BY <1>1, <1>2, <1>4, <2>1, StillStep
<1> QED BY <1>3, <1>4

LEMMA IpcStart ==
  ASSUME IpcInit, NEW C, NEW S, NEW L, "run" \in C
  PROVE  /\ IpcOK(C, S, L)
         /\ \A q \in WaitList : k.wait[q] = <<>>
         /\ \A q \in WaitList : \A P : "run" \notin P => Blocking(q, P) /\ Woken(P) = {}
<1>1. Sound(k) /\ k.stat[k.cur] = "READY" /\ pc = [t \in Thread |-> "run"]
  BY BootedOK DEF IpcInit
<1>2. /\ \A t \in Thread : k.stat[t] = "READY"
      /\ \A q \in WaitList : k.wait[q] = <<>>
  BY BootedState DEF IpcInit
<1>3. IpcOK(C, S, L)
  BY <1>1, <1>2 DEF IpcOK
<1>4. ASSUME NEW q \in WaitList, NEW P, "run" \notin P
      PROVE  Blocking(q, P) /\ Woken(P) = {}
  <2>1. Nodes(k.wait[q]) = {}
    BY <1>2 DEF Nodes
  <2> QED BY <1>1, <1>4, <2>1 DEF Blocking, Woken
<1> QED BY <1>2, <1>3, <1>4

-----------------------------------------------------------------------------
(* Counters that wrap. *)

LEMMA ModShift ==
  ASSUME NEW M \in Nat \ {0}, NEW d \in Int
  PROVE  (d + M) % M = d % M
<1> DEFINE q == d \div M
           r == d % M
<1>1. q \in Int /\ r \in 0 .. (M - 1) /\ M \in Int /\ M > 0
  OBVIOUS
<1>2. d - M * q = r
  OBVIOUS
<1> HIDE DEF q, r
<1>3. d = q * M + r
  BY <1>1, <1>2
<1>4. (d + M) % M = r
  BY <1>1, <1>3
<1> QED BY <1>4 DEF r

LEMMA ModUnique ==
  ASSUME NEW M \in Nat \ {0}, NEW q \in Int, NEW r \in 0 .. (M - 1)
  PROVE  (q * M + r) % M = r
  OBVIOUS

LEMMA ModSplit ==
  ASSUME NEW M \in Nat \ {0}, NEW d \in Int
  PROVE  d % M \in 0 .. (M - 1) /\ d \div M \in Int /\ d = (d \div M) * M + (d % M)
<1> DEFINE q == d \div M
           r == d % M
<1>1. q \in Int /\ r \in 0 .. (M - 1)
  OBVIOUS
<1>2. d - M * q = r
  OBVIOUS
<1> HIDE DEF q, r
<1>3. d = q * M + r
  BY <1>1, <1>2
<1>4. q \in Int /\ r \in 0 .. (M - 1) /\ d = q * M + r
  BY <1>1, <1>3
<1> QED BY <1>4 DEF q, r

LEMMA ModSmall ==
  ASSUME NEW M \in Nat \ {0}, NEW d \in Int
  PROVE  /\ d \in 0 .. (M - 1) => d % M = d
         /\ d \in M .. (2 * M - 1) => d % M = d - M
         /\ d \in (0 - M) .. (0 - 1) => d % M = d + M
<1>1. ASSUME d \in 0 .. (M - 1) PROVE d % M = d
  <2>1. (0 * M + d) % M = d
    BY <1>1, ModUnique
  <2> QED BY <2>1
<1>2. ASSUME d \in M .. (2 * M - 1) PROVE d % M = d - M
  <2> DEFINE r == d - M
  <2>1. r \in 0 .. (M - 1)
    BY <1>2
  <2> HIDE DEF r
  <2>2. (1 * M + r) % M = r
    BY <2>1, ModUnique
  <2>3. 1 * M + r = d
    BY DEF r
  <2> QED BY <2>2, <2>3 DEF r
<1>3. ASSUME d \in (0 - M) .. (0 - 1) PROVE d % M = d + M
  <2> DEFINE r == d + M
  <2>1. r \in 0 .. (M - 1)
    BY <1>3
  <2> HIDE DEF r
  <2>2. ((0 - 1) * M + r) % M = r
    BY <2>1, ModUnique
  <2>3. (0 - 1) * M + r = d
    BY DEF r
  <2> QED BY <2>2, <2>3 DEF r
<1> QED BY <1>1, <1>2, <1>3

LEMMA ModAdd ==
  ASSUME NEW M \in Nat \ {0}, NEW a \in Int, NEW b \in Int
  PROVE  ((a % M) + b) % M = (a + b) % M
<1> DEFINE r == a % M
           q == a \div M
           s == (r + b) % M
           p == (r + b) \div M
           w == q + p
<1>1. r \in 0 .. (M - 1) /\ q \in Int /\ a = q * M + r
  BY ModSplit
<1> HIDE DEF r, q
<1>2. r + b \in Int
  BY <1>1
<1>3. s \in 0 .. (M - 1) /\ p \in Int /\ r + b = p * M + s
  BY <1>2, ModSplit
<1> HIDE DEF s, p
<1>4. w \in Int /\ w * M = q * M + p * M
  BY <1>1, <1>3
<1> HIDE DEF w
<1>5. a + b = w * M + s
  <2> DEFINE x == q * M
             y == p * M
             z == w * M
  <2>1. x \in Int /\ y \in Int /\ z = x + y /\ a = x + r /\ r + b = y + s
    BY <1>1, <1>3, <1>4
  <2> HIDE DEF x, y, z
  <2>2. a + b = z + s
    BY <1>1, <1>3, <2>1
  <2> QED BY <2>2 DEF z
<1>6. (w * M + s) % M = s
  BY <1>3, <1>4, ModUnique
<1> QED BY <1>5, <1>6 DEF s, r

-----------------------------------------------------------------------------
(* Induction over the naturals, for the loops over a list. *)

\* A set of naturals with 0 and the successor of each member holds all of them.
LEMMA NatSetInduction ==
  ASSUME NEW Q \in SUBSET Nat, 0 \in Q, \A n \in Q : n + 1 \in Q
  PROVE  \A n \in Nat : n \in Q
<1> DEFINE S == Nat \ Q
<1>1. SUFFICES ASSUME S # {} PROVE FALSE
  OBVIOUS
<1>2. S \in SUBSET Nat
  OBVIOUS
<1>3. rt_ffs(S) \in S /\ \A c \in S : rt_ffs(S) <= c
  BY <1>1, <1>2, rt_ffsLowest
<1>4. PICK m \in S : \A c \in S : m <= c
  BY <1>3
<1>5. m \in Nat /\ m # 0 /\ m - 1 \in Nat /\ ~(m <= m - 1)
  BY <1>4
<1>6. m - 1 \in Q
  BY <1>4, <1>5
<1>7. (m - 1) + 1 = m
  BY <1>5
<1> QED BY <1>4, <1>6, <1>7

-----------------------------------------------------------------------------
(* Priority inheritance. *)

\* Only the priorities and the ready lists change.
Reranked(j, i) ==
  /\ j.cur = i.cur /\ j.stat = i.stat /\ j.err = i.err /\ j.armed = i.armed
  /\ j.wait = i.wait

LEMMA RerankedOK ==
  ASSUME NEW i, Sound(i), NEW t \in Thread \ {Idle}, NEW p \in Prio,
         NEW j, j = ChangePriority(i, t, p)
  PROVE  Sound(j) /\ Reranked(j, i) /\ j.prio = [i.prio EXCEPT ![t] = p]
<1>1. KernelInv(j, {}) /\ Unmoved(j, i) /\ j.prio = [i.prio EXCEPT ![t] = p]
  <2>1. t \notin {} /\ KernelInv(i, {})
    BY DEF Sound
  <2> QED BY <2>1, ChangePriorityOK
<1>2. i \in KernelState
  BY CurThread
<1>3. j.wait = i.wait
  <2>1. CASE i.stat[t] = "READY"
    <3>1. j.wait = [q \in WaitList |-> Unlink(i.wait[q], t)]
      BY <1>2, <2>1 DEF ChangePriority, rt_schedule_insert_thread, SetPrio,
                        rt_schedule_remove_thread, ClearReadyBit, rt_list_remove, KernelState
    <3> QED BY <2>1, <3>1, ReadyUnlisted
  <2>2. CASE i.stat[t] # "READY"
    BY <2>2, <1>2 DEF ChangePriority, SetPrio, KernelState
  <2> QED BY <2>1, <2>2
<1>4. j.err = i.err
  BY <1>2 DEF ChangePriority, rt_schedule_insert_thread, SetPrio, rt_schedule_remove_thread,
              ClearReadyBit, rt_list_remove, KernelState
<1> QED BY <1>1, <1>3, <1>4 DEF Sound, Unmoved, Reranked

\* A step of the running thread that changes no thread's state.
LEMMA SteadyKeeps ==
  ASSUME NEW C, NEW S, NEW L, IpcOK(C, S, L), NEW t, NEW l, At(t, l), l \notin L,
         Sound(k'), k'.stat = k.stat, k'.cur = k.cur, Moves(C, t)
  PROVE  IpcOK(C, S, L)'
  BY CurThread DEF IpcOK, Moves, At
LEMMA RerankedSame ==
  ASSUME NEW i PROVE Reranked(i, i)
  BY DEF Reranked

\* t joins list q; priorities may have changed on the way.
Enlists(j, i, q, t) ==
  /\ j.cur = i.cur /\ j.stat = [i.stat EXCEPT ![t] = "SUSPEND"]
  /\ j.err = [i.err EXCEPT ![t] = RT_EOK]
  /\ \A r \in WaitList : \A u \in Thread :
       u \in Nodes(j.wait[r]) <=> (u \in Nodes(i.wait[r]) \/ (r = q /\ u = t))

\* The thread timer runs after Block only if the wait is limited.
LEMMA BlockArms ==
  ASSUME NEW i, Sound(i), NEW t \in Thread \ {Idle}, i.stat[t] = "READY",
         NEW q \in WaitList \ {Defunct}, NEW flag, NEW time,
         NEW j, j = Block(i, q, t, flag, time)
  PROVE  j.armed = [i.armed EXCEPT ![t] = (time = "TICKS")]
<1> DEFINE h == SetErr(i, t, RT_EOK)
           g == rt_ipc_list_suspend(h, q, t, flag)
<1>1. Sound(h) /\ Noted(h, i, t, RT_EOK)
  <2>1. RT_EOK \in ErrNo
    BY DEF ErrNo
  <2> QED BY <2>1, NotedOK
<1>2. j = IF time = "TICKS" THEN Started(g, t) ELSE g
  BY DEF Block
<1> HIDE DEF h
<1>3. /\ Sound(g) /\ g.cur = h.cur /\ g.err = h.err /\ g.prio = h.prio
      /\ g.stat = [h.stat EXCEPT ![t] = "SUSPEND"]
      /\ g.armed = [h.armed EXCEPT ![t] = FALSE]
      /\ g.wait = [h.wait EXCEPT ![q] =
                     InsertBefore(h.wait[q], Position(h, q, t, flag), t)]
  BY <1>1, ListSuspendBlocks, SMTT(30) DEF Noted
<1> HIDE DEF g
<1>4. g.armed = [i.armed EXCEPT ![t] = FALSE] /\ i.armed \in [Thread -> BOOLEAN]
  BY <1>1, <1>3, CurThread DEF Noted, KernelState
<1>5. CASE time # "TICKS"
  BY <1>2, <1>4, <1>5
<1>6. CASE time = "TICKS"
  <2>1. KernelInv(g, {}) /\ g.stat[t] = "SUSPEND"
    BY <1>1, <1>3, CurThread DEF Sound, KernelState, Noted
  <2>2. j.armed = [g.armed EXCEPT ![t] = TRUE]
    BY <1>2, <1>6, <2>1, StartedOK
  <2> QED BY <1>4, <1>6, <2>2
<1> QED BY <1>5, <1>6

LEMMA BlockedJoined ==
  ASSUME NEW i, NEW t \in Thread, i.stat[t] = "READY", NEW q \in WaitList,
         NEW h, Sound(h), Reranked(h, i), NEW x, Place(h, q, x),
         NEW j, BlockedAt(j, h, q, t, x)
  PROVE  Enlists(j, i, q, t)
<1>1. h.stat[t] = "READY"
  BY DEF Reranked
<1>4. \A u : u \in Nodes(j.wait[q]) <=> u \in Nodes(h.wait[q]) \/ u = t
  BY <1>1, BlockedJoins
<1>5. \A r \in WaitList : r # q => j.wait[r] = h.wait[r]
  BY <1>1, BlockedNodes
<1>6. \A r \in WaitList : \A u \in Thread :
        u \in Nodes(j.wait[r]) <=> (u \in Nodes(i.wait[r]) \/ (r = q /\ u = t))
  BY <1>4, <1>5 DEF Reranked
<1> QED BY <1>6 DEF Enlists, BlockedAt, Reranked

LEMMA BlockJoins ==
  ASSUME NEW i, NEW t \in Thread \ {Idle}, i.stat[t] = "READY",
         NEW q \in WaitList \ {Defunct}, NEW flag, NEW time,
         NEW h, Sound(h), Reranked(h, i), NEW j, j = Block(h, q, t, flag, time)
  PROVE  Sound(j) /\ Enlists(j, i, q, t) /\ j.armed = [i.armed EXCEPT ![t] = (time = "TICKS")]
<1>1. h.stat[t] = "READY" /\ t \in Thread /\ q \in WaitList
  BY DEF Reranked
<1> DEFINE x == Position(h, q, t, flag)
<1>2. Sound(j) /\ BlockedAt(j, h, q, t, x)
  BY <1>1, BlockBlocks
<1>3. Place(h, q, x)
  BY <1>1, PositionType
<1> HIDE DEF x
<1>4. Enlists(j, i, q, t)
  BY <1>1, <1>2, <1>3, BlockedJoined
<1>7. j.armed = [h.armed EXCEPT ![t] = (time = "TICKS")]
  BY <1>1, BlockArms
<1> QED BY <1>2, <1>4, <1>7 DEF Reranked

\* Every list is a sequence of threads, every thread has a state.
LEMMA WaitType ==
  ASSUME NEW j, Sound(j), NEW q \in WaitList
  PROVE  j.wait[q] \in Seq(Thread)
<1>1. j \in KernelState
  BY CurThread
<1>2. j.wait \in [WaitList -> Seq(Thread)]
  BY <1>1 DEF KernelState
<1> QED BY <1>2

LEMMA StatType ==
  ASSUME NEW j, Sound(j)
  PROVE  j.stat \in [Thread -> Stat]
<1>1. j \in KernelState
  BY CurThread
<1> QED BY <1>1 DEF KernelState

LEMMA JoinedBlocking ==
  ASSUME Sound(k), Sound(k'), NEW C, NEW t \in Thread, Moves(C, t), NEW q \in WaitList,
         NEW r \in WaitList, NEW P, Blocking(r, P), Enlists(k', k, q, t),
         k.stat[t] = "READY", IF r = q THEN pc'[t] \in P ELSE pc'[t] \notin P
  PROVE  Blocking(r, P)'
<1>0. k.stat \in [Thread -> Stat] /\ k.err \in [Thread -> ErrNo]
  BY CurThread, SMTT(30) DEF KernelState
<1>7. k'.wait[r] \in Seq(Thread)
  BY WaitType
<1>1. k.stat \in [Thread -> Stat] /\ k.err \in [Thread -> ErrNo] /\ k'.wait[r] \in Seq(Thread)
  BY <1>0, <1>7
<1>2. \A v \in Thread : /\ k'.stat[v] = IF v = t THEN "SUSPEND" ELSE k.stat[v]
                        /\ k'.err[v] = IF v = t THEN RT_EOK ELSE k.err[v]
  BY <1>1 DEF Enlists
<1>3. \A u \in Thread : u \in Nodes(k'.wait[r]) <=> (u \in Nodes(k.wait[r]) \/ (r = q /\ u = t))
  BY DEF Enlists
<1>4. Nodes(k'.wait[r]) \subseteq Thread
  BY <1>1 DEF Nodes
<1>5. Nodes(k'.wait[r]) = {v \in Thread : pc'[v] \in P /\ k'.stat[v] = "SUSPEND"}
  <2>1. ASSUME NEW v \in Thread
        PROVE  v \in Nodes(k'.wait[r]) <=> (pc'[v] \in P /\ k'.stat[v] = "SUSPEND")
    <3>1. t \notin Nodes(k.wait[r])
      BY ReadyUnlisted
    <3>2. CASE v = t
      BY <1>2, <1>3, <3>1, <3>2
    <3>3. CASE v # t
      BY <1>2, <1>3, <3>3 DEF Blocking, Moves
    <3> QED BY <3>2, <3>3
  <2> QED BY <1>4, <2>1
<1>6. \A v \in Nodes(k'.wait[r]) : k'.err[v] = RT_EOK
  BY <1>2, <1>3, <1>4 DEF Blocking
<1> QED BY <1>5, <1>6 DEF Blocking

\* u is woken as it is; priorities may have changed on the way.
Freed(j, i, u) ==
  /\ j.stat = [i.stat EXCEPT ![u] = "READY"] /\ j.armed = [i.armed EXCEPT ![u] = FALSE]
  /\ j.err = i.err
  /\ \A r \in WaitList : \A v \in Thread :
       v \in Nodes(j.wait[r]) <=> (v \in Nodes(i.wait[r]) /\ v # u)

LEMMA RousedFreed ==
  ASSUME NEW i, Sound(i), NEW h, Sound(h), Reranked(h, i), NEW u \in Thread,
         NEW j, Roused(j, h, u, h.err[u])
  PROVE  Freed(j, i, u)
<1>1. \A r \in WaitList : Nodes(j.wait[r]) = Nodes(h.wait[r]) \ {u}
  BY RousedLists
<1>2. \A r \in WaitList : \A v \in Thread :
        v \in Nodes(j.wait[r]) <=> (v \in Nodes(i.wait[r]) /\ v # u)
  BY <1>1 DEF Reranked
<1>3. j.err = i.err
  BY CurThread DEF Roused, Reranked, KernelState
<1> QED BY <1>2, <1>3 DEF Freed, Roused, Reranked

LEMMA FreedBlocking ==
  ASSUME Sound(k), Sound(k'), NEW C, NEW t \in Thread, Moves(C, t), NEW r \in WaitList,
         NEW P, Blocking(r, P), NEW u \in Thread, Freed(k', k, u),
         k.stat[t] = "READY" \/ (pc[t] \in P <=> pc'[t] \in P)
  PROVE  Blocking(r, P)'
<1>8. k.stat \in [Thread -> Stat]
  BY StatType
<1>7. k'.wait[r] \in Seq(Thread)
  BY WaitType
<1>1. k.stat \in [Thread -> Stat] /\ k'.wait[r] \in Seq(Thread)
  BY <1>7, <1>8
<1>2. \A v \in Thread : k'.stat[v] = IF v = u THEN "READY" ELSE k.stat[v]
  BY <1>1 DEF Freed
<1>3. \A v \in Thread : v \in Nodes(k'.wait[r]) <=> (v \in Nodes(k.wait[r]) /\ v # u)
  BY DEF Freed
<1>4. Nodes(k'.wait[r]) \subseteq Thread
  BY <1>1 DEF Nodes
<1>5. Nodes(k'.wait[r]) = {v \in Thread : pc'[v] \in P /\ k'.stat[v] = "SUSPEND"}
  BY <1>2, <1>3, <1>4 DEF Blocking, Moves
<1>6. \A v \in Nodes(k'.wait[r]) : k'.err[v] = RT_EOK
  BY <1>3, <1>4 DEF Blocking, Freed
<1> QED BY <1>5, <1>6 DEF Blocking

LEMMA FreedKeeps ==
  ASSUME NEW C, NEW S, NEW L, IpcOK(C, S, L), NEW t \in Thread, Moves(C, t),
         Sound(k'), NEW u \in Thread, Freed(k', k, u),
         k.stat[t] = "READY" \/ pc'[t] \in S,
         \/ k'.stat[k'.cur] = "READY"
         \/ k'.cur = k.cur /\ pc'[k.cur] = pc[k.cur]
  PROVE  IpcOK(C, S, L)'
<1>1. k.stat \in [Thread -> Stat] /\ k.cur \in Thread /\ k'.cur \in Thread
  BY CurThread, SMTT(30) DEF IpcOK, KernelState
<1> QED BY <1>1 DEF IpcOK, Moves, Freed
=============================================================================
