--------------------------- MODULE MemPoolProofs ----------------------------
(***************************************************************************)
(* The safety properties of the memory pool, for every number of threads   *)
(* and blocks.                                                             *)
(*                                                                         *)
(* No wake-up is lost because suspend_thread_count is never below the      *)
(* length of the list (a time-out takes a thread off the list and leaves   *)
(* the count, so it may be above): rt_mp_free then resumes the head of     *)
(* every list that is not empty.  A thread so woken is counted as pending  *)
(* until it has looked at the block list again.                            *)
(*                                                                         *)
(* Behind the memory pool come the proofs about the event object.          *)
(***************************************************************************)
EXTENDS MemPool, Event, IpcProofs

Suspends == {"waiting", "woken", "sleeping", "slept", "crashed"}
Leaving  == {"waiting", "sleeping", "crashed"}
Waits    == {"waiting", "woken"}

\* Threads that rt_mp_free woke and that have not looked yet.
Again   == {t \in Thread : pc[t] = "again"}
Pending == Woken(Waits) \cup Again

Lists == IpcOK(PC, Suspends, Leaving) /\ Blocking(MpList, Waits)

\* Idle never allocates, and the count covers the list.
Locals == pc[Idle] \notin Waits \cup {"again"} /\ left \in [Thread -> Time]
Counts == count \in Int /\ Len(waiters) <= count

Chain ==
  /\ free \in Seq(BlockSet) /\ given \subseteq BlockSet
  /\ Injective(free) /\ Nodes(free) = BlockSet \ given

Pends == waiters # <<>> => Len(free) <= Cardinality(Pending)

Fields == life \in {"live", "closing", "gone"}

Inv == Lists /\ Locals /\ Counts /\ Chain /\ Pends /\ Fields

-----------------------------------------------------------------------------
(* The chain of free blocks. *)

\* The first block is taken, a block is given back.
LEMMA TakenChain ==
  ASSUME Chain, free # <<>>, free' = Taken, given' = given \cup {Head(free)}
  PROVE  Chain' /\ Len(free') = Len(free) - 1 /\ Len(free) \in Nat /\ Len(free') \in Nat
<1> DEFINE s == free
<1>1. s \in Seq(BlockSet) /\ Injective(s) /\ s # <<>> /\ Nodes(s) = BlockSet \ given
  BY DEF Chain
<1>2. free' = Tail(s) /\ given' = given \cup {Head(s)} /\ given \subseteq BlockSet
  BY DEF Taken, Chain
<1> HIDE DEF s
<1>3. /\ Tail(s) \in Seq(BlockSet) /\ Injective(Tail(s)) /\ Len(Tail(s)) = Len(s) - 1
      /\ Nodes(Tail(s)) = Nodes(s) \ {Head(s)} /\ Head(s) \in Nodes(s)
  BY <1>1, TailNodes
<1>4. Chain'
  BY <1>1, <1>2, <1>3 DEF Chain, BlockSet
<1> QED BY <1>1, <1>2, <1>3, <1>4 DEF s

LEMMA ReturnedChain ==
  ASSUME Chain, NEW b, Return(b)
  PROVE  Chain' /\ Len(free') = Len(free) + 1 /\ Len(free) \in Nat
<1> DEFINE s == free
<1>1. s \in Seq(BlockSet) /\ Injective(s) /\ Nodes(s) = BlockSet \ given
  BY DEF Chain
<1>2. free' = <<b>> \o s /\ given' = given \ {b} /\ given \subseteq BlockSet /\ b \in given
  BY DEF Return, Chain
<1> HIDE DEF s
<1>3. /\ <<b>> \o s \in Seq(BlockSet) /\ Injective(<<b>> \o s)
      /\ Nodes(<<b>> \o s) = Nodes(s) \cup {b}
  BY <1>1, <1>2, PushNodes
<1>4. Chain'
  BY <1>1, <1>2, <1>3 DEF Chain, BlockSet
<1>5. Len(<<b>> \o s) = Len(s) + 1 /\ Len(s) \in Nat
  BY <1>1
<1> QED BY <1>2, <1>4, <1>5 DEF s

-----------------------------------------------------------------------------
(* The pending threads. *)

LEMMA PendingFinite ==
  /\ IsFiniteSet(Pending) /\ Cardinality(Pending) \in Nat
  /\ Cardinality(Pending') \in Nat
<1>1. Pending \subseteq Thread /\ Pending' \subseteq Thread
  BY DEF Pending, Again, Woken
<1> QED BY <1>1, ThreadFinite, FS_Subset, FS_CardinalityType

\* A thread more, a thread fewer.
LEMMA PendingCount ==
  ASSUME NEW t
  PROVE  /\ Pending' = Pending \cup {t} /\ t \notin Pending
              => Cardinality(Pending') = Cardinality(Pending) + 1
         /\ Pending' = Pending \ {t} /\ t \in Pending
              => Cardinality(Pending') = Cardinality(Pending) - 1
  BY PendingFinite, FS_AddElement, FS_RemoveElement

LEMMA PoolLists ==
  ASSUME Lists
  PROVE  /\ MpList \in WaitList \ {Defunct} /\ MpList \in WaitList
         /\ IpcOK(PC, Suspends, Leaving) /\ Sound(k) /\ k \in KernelState
         /\ waiters \in Seq(Thread) /\ Len(waiters) \in Nat
<1>1. Sound(k) /\ MpList \in WaitList
  BY MemPoolAssumption DEF Lists, IpcOK
<1>2. waiters \in Seq(Thread)
  BY <1>1 DEF Sound, KernelInv, KernelState, waiters
<1> QED BY <1>1, <1>2, MemPoolAssumption DEF Lists, Sound, KernelInv

\* A thread switch, or none.
LEMMA CalmPool ==
  ASSUME Lists, IpcOK(PC, Suspends, Leaving)', NEW t \in Thread, Moves(PC, t), Calm(k', k),
         pc[t] \in Waits <=> pc'[t] \in Waits, pc[t] = "again" <=> pc'[t] = "again"
  PROVE  Lists' /\ waiters' = waiters /\ Pending' = Pending
<1>1. Blocking(MpList, Waits)'
  BY CalmBlocking DEF Lists
<1>2. waiters' = waiters
  BY DEF Calm, waiters
<1>3. Woken(Waits)' = Woken(Waits)
  BY CalmWoken
<1>4. Again' = Again
  BY DEF Again, Moves
<1> QED BY <1>1, <1>2, <1>3, <1>4 DEF Lists, Pending

\* A thread is woken: it leaves the list if it is in it.
LEMMA RousedPool ==
  ASSUME Lists, IpcOK(PC, Suspends, Leaving)', NEW t \in Thread, Moves(PC, t),
         NEW u \in Thread, NEW e, Roused(k', k, u, e), k.stat[u] = "SUSPEND",
         pc[t] \in Waits <=> pc'[t] \in Waits, pc[t] = "again" <=> pc'[t] = "again"
  PROVE  /\ Lists' /\ u \notin Pending
         /\ e # RT_EOK => Pending' = Pending
         /\ pc'[u] \in Waits /\ e = RT_EOK => Pending' = Pending \cup {u}
         /\ Len(waiters') <= Len(waiters)
         /\ u \in Nodes(waiters) => Len(waiters') = Len(waiters) - 1
<1>1. Blocking(MpList, Waits)'
  BY PoolLists, RousedBlocking DEF Lists
<1>2. Again' = Again
  BY DEF Again, Moves
<1>3. u \notin Again
  BY DEF Lists, IpcOK, Again, Suspends
<1>4. /\ u \notin Woken(Waits)
      /\ pc'[u] \in Waits /\ e = RT_EOK => Woken(Waits)' = Woken(Waits) \cup {u}
      /\ pc'[u] \notin Waits \/ e # RT_EOK => Woken(Waits)' = Woken(Waits)
  <2>1. Sound(k)
    BY PoolLists
  <2> QED BY <2>1, RousedWoken
<1>5. waiters \in Seq(Thread) /\ waiters' = Unlink(waiters, u)
  BY PoolLists, RousedLists DEF waiters
<1>6. u \in Nodes(waiters) => Len(waiters') = Len(waiters) - 1
  BY <1>5, UnlinkLength
<1>7. Len(waiters') <= Len(waiters)
  <2>1. CASE u \in Nodes(waiters)
    BY <1>5, <1>6, <2>1
  <2>2. CASE u \notin Nodes(waiters)
    BY <1>5, <2>2 DEF Unlink
  <2> QED BY <2>1, <2>2
<1> QED BY <1>1, <1>2, <1>3, <1>4, <1>6, <1>7 DEF Lists, Pending

\* The head of the list is a thread in rt_mp_alloc.
LEMMA HeadWaits ==
  ASSUME Lists, waiters # <<>>
  PROVE  /\ Head(waiters) \in Thread /\ k.stat[Head(waiters)] = "SUSPEND"
         /\ pc[Head(waiters)] \in Waits /\ Head(waiters) \in Nodes(waiters)
  BY PoolLists, HeadSuspended DEF Lists, Blocking, waiters

-----------------------------------------------------------------------------
LEMMA InitInv == Init => Inv
<1> SUFFICES ASSUME Init PROVE Inv
  OBVIOUS
<1>1. "run" \in PC /\ "run" \notin Waits /\ MpList \in WaitList /\ IpcInit
  BY MemPoolAssumption DEF PC, Waits, Init
<1>2. /\ IpcOK(PC, Suspends, Leaving) /\ waiters = <<>> /\ Blocking(MpList, Waits)
  BY <1>1, IpcStart DEF waiters
<1>3. Counts /\ Pends /\ Fields
  BY <1>2 DEF Counts, Pends, Fields, Init
<1>4. Chain
  BY MemPoolAssumption DEF Chain, BlockSet, Init
<1>5. Locals
  BY KernelAssumption DEF Locals, Init, IpcInit, Time, Waits
<1> QED BY <1>2, <1>3, <1>4, <1>5 DEF Inv, Lists

\* The steps that leave the pool alone.
LEMMA PoolSame ==
  ASSUME Inv, UNCHANGED pool, Lists', Locals', Len(waiters') <= Len(waiters),
         Pending' = Pending
  PROVE  Inv'
<1>1. /\ waiters \in Seq(Thread) /\ waiters' \in Seq(Thread)
      /\ Len(waiters) \in Nat /\ Len(waiters') \in Nat
  <2>1. Len(waiters) \in Nat /\ waiters \in Seq(Thread)
    BY PoolLists DEF Inv
  <2>2. waiters' \in Seq(Thread)
    BY MemPoolAssumption DEF Lists, IpcOK, Sound, KernelInv, KernelState, waiters
  <2> QED BY <2>1, <2>2
<1>2. waiters' # <<>> => waiters # <<>>
  BY <1>1
<1>3. Counts' /\ Pends'
  BY <1>1, <1>2 DEF Inv, Counts, Pends, pool
<1> QED BY <1>3 DEF Inv, Chain, Fields, pool

\* Idle stays outside rt_mp_alloc.
LEMMA LocalsKept ==
  ASSUME Locals, NEW t \in Thread, Moves(PC, t), left' \in [Thread -> Time],
         t # Idle \/ pc[t] \in Waits \cup {"again"} \/ pc'[t] \notin Waits \cup {"again"}
  PROVE  Locals'
  BY KernelAssumption DEF Locals, Moves

\* A step of the running thread, outside the wait, to a control point outside it.
LEMMA StillPool ==
  ASSUME Inv, NEW t \in Thread, NEW l, At(t, l), l \notin Leaving \cup Waits, k' = k,
         NEW m, m \in PC \ (Waits \cup {"again"}), Goto(t, m), left' = left
  PROVE  /\ Lists' /\ Locals' /\ waiters' = waiters
         /\ IF l = "again" THEN Pending' = Pending \ {t} /\ t \in Pending
                           ELSE Pending' = Pending
<1>1. IpcOK(PC, Suspends, Leaving) /\ l \notin Leaving /\ m \in PC
  BY DEF Inv, Lists
<1>2. /\ IpcOK(PC, Suspends, Leaving)' /\ Moves(PC, t) /\ Calm(k', k)
      /\ pc[t] = l /\ pc'[t] = m
  BY <1>1, StillStep DEF At
<1>3. pc[t] \in Waits <=> pc'[t] \in Waits
  BY <1>2
<1>4. Blocking(MpList, Waits)'
  BY <1>2, <1>3, CalmBlocking DEF Inv, Lists
<1>5. Woken(Waits)' = Woken(Waits)
  BY <1>2, <1>3, CalmWoken
<1>6. Again' = Again \ {t} /\ (t \in Again <=> l = "again")
  BY <1>2 DEF Again, Moves
<1>7. t \notin Woken(Waits)
  BY <1>2 DEF Woken
<1>8. Locals'
  BY <1>2, LocalsKept DEF Inv, Locals
<1>9. waiters' = waiters
  BY DEF waiters
<1> QED BY <1>2, <1>4, <1>5, <1>6, <1>7, <1>8, <1>9 DEF Lists, Pending

LEMMA AllocTakeInv ==
  ASSUME Inv, NEW t \in Thread, NEW l \in {"run", "again"}, At(t, l), AllocTake(t)
  PROVE  Inv'
<1>1. /\ free # <<>> /\ free' = Taken /\ given' = given \cup {Head(free)}
      /\ Goto(t, "run") /\ k' = k /\ left' = left /\ count' = count /\ life' = life
  BY DEF AllocTake
<1>2. l \notin Leaving \cup Waits /\ "run" \in PC \ (Waits \cup {"again"})
  BY DEF Leaving, Waits, PC
<1>3. /\ Lists' /\ Locals' /\ waiters' = waiters
      /\ IF l = "again" THEN Pending' = Pending \ {t} /\ t \in Pending
                        ELSE Pending' = Pending
  BY <1>1, <1>2, StillPool
<1>4. Chain' /\ Len(free') = Len(free) - 1 /\ Len(free) \in Nat /\ Len(free') \in Nat
  BY <1>1, TakenChain DEF Inv
<1>5. Cardinality(Pending') >= Cardinality(Pending) - 1
  <2>1. CASE l = "again"
    BY <1>3, <2>1, PendingCount, PendingFinite
  <2>2. CASE l # "again"
    BY <1>3, <2>2, PendingFinite
  <2> QED BY <2>1, <2>2
<1>6. Pends'
  BY <1>3, <1>4, <1>5, PendingFinite DEF Inv, Pends
<1> QED BY <1>1, <1>3, <1>4, <1>6 DEF Inv, Counts, Fields

LEMMA AllocFailInv ==
  ASSUME Inv, NEW t \in Thread, NEW l \in {"run", "again"}, At(t, l), AllocFail(t)
  PROVE  Inv'
<1>1. /\ free = <<>> /\ UNCHANGED pool /\ Goto(t, "run") /\ "run" \in PC
      /\ k' = SetErr(k, t, RT_ETIMEOUT) /\ RT_ETIMEOUT \in ErrNo /\ l \notin Leaving
  BY DEF AllocFail, PC, ErrNo, Leaving
<1>2. IpcOK(PC, Suspends, Leaving) /\ Blocking(MpList, Waits) /\ Sound(k) /\ MpList \in WaitList
  BY PoolLists DEF Inv, Lists
<1>3. /\ IpcOK(PC, Suspends, Leaving)' /\ Moves(PC, t) /\ Noted(k', k, t, RT_ETIMEOUT)
      /\ pc'[t] = "run"
  BY <1>1, <1>2, NoteStep
<1>4. k.stat[t] = "READY"
  BY <1>1, <1>2, RunnerReady
<1>5. Blocking(MpList, Waits)'
  BY <1>2, <1>3, <1>4, NotedBlocking
<1>6. waiters' = waiters
  BY <1>3 DEF Noted, waiters
<1>7. Locals'
  BY <1>1, <1>3, LocalsKept DEF Inv, Locals, Waits, pool
<1>8. Pends'
  BY <1>1, PendingFinite DEF Pends, pool
<1> QED BY <1>1, <1>3, <1>5, <1>6, <1>7, <1>8 DEF Inv, Lists, Counts, Chain, Fields, pool

-----------------------------------------------------------------------------
(* Waiting: rt_thread_suspend, rt_list_insert_after, rt_timer_start. *)

LEMMA PushBlocks ==
  ASSUME NEW i, Sound(i), NEW t \in Thread \ {Idle}, i.stat[t] = "READY",
         NEW q \in WaitList \ {Defunct}, NEW h, h = rt_thread_suspend(SetErr(i, t, RT_EOK), t),
         NEW g, g = Linked(h, q, InsertBefore(h.wait[q], 1, t)),
         NEW j, j = g \/ j = Started(g, t)
  PROVE  Sound(j) /\ BlockedAt(j, i, q, t, 1) /\ Place(i, q, 1)
<1> DEFINE f == SetErr(i, t, RT_EOK)
           w == InsertBefore(h.wait[q], 1, t)
<1>1. Sound(f) /\ Noted(f, i, t, RT_EOK)
  BY NotedOK DEF ErrNo
<1>2. f.stat[t] = "READY"
  BY <1>1 DEF Noted
<1>3. Sound(h) /\ KernelInv(h, {t}) /\ Slept(h, f, t)
  <2>1. h = rt_thread_suspend(f, t)
    OBVIOUS
  <2> HIDE DEF f
  <2> QED BY <1>1, <1>2, <2>1, SuspendSleeps
<1> HIDE DEF f
<1>4. /\ h \in KernelState /\ h.wait[q] \in Seq(Thread) /\ Injective(h.wait[q])
      /\ t \notin Nodes(h.wait[q])
  BY <1>3 DEF KernelInv, KernelState, ListsSound
<1>5. /\ h.cur = i.cur /\ h.stat = [i.stat EXCEPT ![t] = "SUSPEND"]
      /\ h.err = [i.err EXCEPT ![t] = RT_EOK] /\ h.prio = i.prio /\ h.wait = i.wait
  BY <1>1, <1>3 DEF Noted, Slept
<1>6. i.stat \in [Thread -> Stat] /\ Len(i.wait[q]) \in Nat
  BY CurThread DEF KernelState
<1>7. h.stat[t] = "SUSPEND"
  BY <1>5, <1>6
<1>8. w \in Seq(Thread) /\ Injective(w) /\ Nodes(w) = Nodes(h.wait[q]) \cup {t}
  <2>1. 1 \in 1 .. (Len(h.wait[q]) + 1)
    BY <1>4
  <2> QED BY <1>4, <2>1, InsertNodes
<1>9. Joined(h, q, t, w) /\ g = Linked(h, q, w) /\ q \in WaitList /\ t \in {t} /\ t \in Thread
  BY <1>7, <1>8 DEF Joined
<1> HIDE DEF w
<1>10. /\ KernelInv(g, {t} \ {t}) /\ SameThreads(g, h)
       /\ g.wait = [h.wait EXCEPT ![q] = w]
  <2> DEFINE X == {t}
  <2>1. KernelInv(h, X) /\ t \in X
    BY <1>3
  <2> HIDE DEF X
  <2>2. KernelInv(g, X \ {t}) /\ SameThreads(g, h) /\ g.wait = [h.wait EXCEPT ![q] = w]
    BY <2>1, <1>9, LinkOK
  <2> QED BY <2>2 DEF X
<1>11. KernelInv(g, {}) /\ {t} \ {t} = {}
  <2>1. {t} \ {t} = {}
    OBVIOUS
  <2> QED BY <1>10, <2>1
<1>12. Sound(g) /\ BlockedAt(g, i, q, t, 1) /\ g.stat[t] = "SUSPEND"
  BY <1>3, <1>5, <1>7, <1>10, <1>11 DEF Sound, BlockedAt, SameThreads, w
<1>13. Place(i, q, 1)
  BY <1>6 DEF Place
<1>14. CASE j = g
  BY <1>12, <1>13, <1>14
<1>15. CASE j = Started(g, t)
  <2>1. /\ KernelInv(j, {}) /\ SameLists(j, g)
        /\ j.cur = g.cur /\ j.stat = g.stat /\ j.prio = g.prio /\ j.err = g.err
        /\ j.nest = g.nest /\ j.armed = [g.armed EXCEPT ![t] = TRUE]
    <3>1. KernelInv(g, {}) /\ g.stat[t] = "SUSPEND" /\ t \in Thread
      BY <1>11, <1>12
    <3> QED BY <1>15, <3>1, StartedOK
  <2> QED BY <1>12, <1>13, <2>1 DEF BlockedAt, Sound, SameLists
<1> QED BY <1>14, <1>15

LEMMA AllocWaitInv ==
  ASSUME Inv, NEW t \in Thread \ {Idle}, NEW l \in {"run", "again"}, At(t, l),
         NEW time \in Time, AllocWait(t, time)
  PROVE  Inv'
<1> DEFINE h == rt_thread_suspend(SetErr(k, t, RT_EOK), t)
           g == Linked(h, MpList, InsertBefore(h.wait[MpList], 1, t))
<1>1. /\ free = <<>> /\ k' = IF time = "TICKS" THEN Started(g, t) ELSE g
      /\ count' = count + 1 /\ left' = [left EXCEPT ![t] = time] /\ Goto(t, "waiting")
      /\ free' = free /\ given' = given /\ life' = life
  BY DEF AllocWait, Linked
<1>2. /\ IpcOK(PC, Suspends, Leaving) /\ Blocking(MpList, Waits) /\ Sound(k)
      /\ MpList \in WaitList /\ MpList \in WaitList \ {Defunct} /\ k \in KernelState
      /\ waiters \in Seq(Thread)
  BY PoolLists DEF Inv, Lists
<1>3. k.stat[t] = "READY" /\ pc[t] = l /\ k.cur = t
  <2>1. l \notin Leaving
    BY DEF Leaving
  <2> QED BY <1>2, <2>1, RunnerReady
<1>4. Sound(k') /\ BlockedAt(k', k, MpList, t, 1) /\ Place(k, MpList, 1)
  <2>1. h = rt_thread_suspend(SetErr(k, t, RT_EOK), t)
    OBVIOUS
  <2>2. g = Linked(h, MpList, InsertBefore(h.wait[MpList], 1, t))
    OBVIOUS
  <2>3. k' = g \/ k' = Started(g, t)
    BY <1>1
  <2> HIDE DEF h, g
  <2> QED BY <1>2, <1>3, <2>1, <2>2, <2>3, PushBlocks
<1> HIDE DEF h, g
<1>5. Moves(PC, t) /\ pc'[t] = "waiting"
  <2>1. pc \in [Thread -> PC]
    BY <1>2 DEF IpcOK
  <2>2. "waiting" \in PC
    BY DEF PC
  <2> QED BY <1>1, <2>1, <2>2, GotoMoves
<1>6. IpcOK(PC, Suspends, Leaving)'
  <2>1. pc'[t] \in Suspends \cap Leaving
    BY <1>5 DEF Suspends, Leaving
  <2>2. k'.stat = [k.stat EXCEPT ![t] = "SUSPEND"] /\ k'.cur = k.cur
    BY <1>4 DEF BlockedAt
  <2> QED BY <1>2, <1>3, <1>4, <1>5, <2>1, <2>2, SuspendedKeeps
<1>7. Blocking(MpList, Waits)'
  <2>1. pc'[t] \in Waits
    BY <1>5 DEF Waits
  <2> QED BY <1>2, <1>3, <1>4, <1>5, <2>1, BlockedBlocking
<1>8. Len(waiters') = Len(waiters) + 1
  <2>1. waiters' = InsertBefore(waiters, 1, t)
    BY <1>2, <1>4 DEF BlockedAt, waiters, KernelState
  <2> QED BY <1>2, <2>1 DEF InsertBefore
<1>9. Locals'
  <2>1. left' \in [Thread -> Time]
    BY <1>1 DEF Inv, Locals
  <2> QED BY <1>5, <2>1, LocalsKept DEF Inv
<1>10. Pends'
  BY <1>1, PendingFinite DEF Pends
<1>11. Counts'
  BY <1>1, <1>2, <1>8 DEF Inv, Counts
<1> QED BY <1>1, <1>6, <1>7, <1>9, <1>10, <1>11 DEF Inv, Lists, Chain, Fields

\* Back from rt_schedule(): a thread woken without an error stays pending.
LEMMA AllocWokenInv == ASSUME Inv, NEW t \in Thread, AllocWoken(t) PROVE Inv'
<1>1. At(t, "woken") /\ "woken" \notin Leaving /\ k' = k /\ UNCHANGED <<free, count, given, life>>
  BY DEF AllocWoken, Leaving
<1>2. /\ IpcOK(PC, Suspends, Leaving) /\ Blocking(MpList, Waits)
  BY DEF Inv, Lists
<1>3. k.stat[t] = "READY" /\ pc[t] = "woken"
  BY <1>1, <1>2, RunnerReady
<1>4. t # Idle /\ left \in [Thread -> Time]
  BY <1>3 DEF Inv, Locals, Waits
<1>5. PICK m \in {"run", "again"} :
        /\ Goto(t, m) /\ (m = "again" <=> k.err[t] = RT_EOK)
        /\ left' \in [Thread -> Time]
  <2>1. CASE k.err[t] # RT_EOK
    BY <1>4, <2>1 DEF AllocWoken
  <2>2. CASE k.err[t] = RT_EOK
    <3>1. Goto(t, "again")
      BY <2>2 DEF AllocWoken
    <3>2. PICK time \in {left[t]} \cup (IF left[t] = "TICKS" THEN {"NO"} ELSE {}) :
            left' = [left EXCEPT ![t] = time]
      BY <2>2 DEF AllocWoken
    <3>3. time \in Time
      BY <1>4, <3>2 DEF Time
    <3>4. left' \in [Thread -> Time]
      BY <1>4, <3>2, <3>3
    <3> QED BY <2>2, <3>1, <3>4
  <2> QED BY <2>1, <2>2
<1>6. /\ IpcOK(PC, Suspends, Leaving)' /\ Moves(PC, t) /\ Calm(k', k) /\ pc'[t] = m
  <2>1. m \in PC /\ Goto(t, m)
    BY <1>5 DEF PC
  <2> QED BY <1>1, <1>2, <2>1, StillStep
<1>7. Blocking(MpList, Waits)'
  BY <1>2, <1>3, <1>6, CalmBlocking
<1>8. waiters' = waiters
  BY <1>1 DEF waiters
<1>9. Locals'
  BY <1>4, <1>5, <1>6, LocalsKept DEF Inv
<1>10. Pending' = Pending
  <2>1. Woken(Waits)' = Woken(Waits) \ {t}
    BY <1>6, <1>5, LeaveWoken DEF Waits
  <2>2. t \in Woken(Waits) <=> k.err[t] = RT_EOK
    BY <1>3 DEF Woken, Waits
  <2>3. /\ t \notin Again
        /\ m = "again" => Again' = Again \cup {t}
        /\ m # "again" => Again' = Again
    BY <1>3, <1>6 DEF Again, Moves
  <2> QED BY <1>5, <2>1, <2>2, <2>3 DEF Pending
<1> QED BY <1>1, <1>6, <1>7, <1>8, <1>9, <1>10 DEF Inv, Lists, Counts, Chain, Pends, Fields

-----------------------------------------------------------------------------
(* A block is given back, and the head of the list is woken for it. *)

\* count covers the list, so a list that is not empty has its head woken.
LEMMA WakesListed ==
  ASSUME Inv, waiters # <<>>
  PROVE  Wakes /\ Len(waiters) > 0
<1>1. waiters \in Seq(Thread)
  BY PoolLists DEF Inv
<1>2. Len(waiters) > 0
  BY <1>1
<1> QED BY <1>1, <1>2 DEF Inv, Counts, Wakes

LEMMA ReturnAlone ==
  ASSUME Inv, NEW b, Return(b), waiters = <<>>, Lists', Locals', waiters' = waiters
  PROVE  Inv'
<1>1. count' = count
  BY DEF Return, Fewer
<1>2. Chain'
  BY ReturnedChain DEF Inv
<1> QED BY <1>1, <1>2 DEF Inv, Counts, Pends, Fields, Return

LEMMA ReturnWakes ==
  ASSUME Inv, NEW b, Return(b), waiters # <<>>, NEW u, u \notin Pending, Lists', Locals',
         Pending' = Pending \cup {u}, Len(waiters') = Len(waiters) - 1
  PROVE  Inv'
<1>1. count' = count - 1
  BY WakesListed DEF Return, Fewer
<1>2. Chain' /\ Len(free') = Len(free) + 1 /\ Len(free) \in Nat
  BY ReturnedChain DEF Inv
<1>3. Cardinality(Pending') = Cardinality(Pending) + 1 /\ Cardinality(Pending) \in Nat
  BY PendingCount, PendingFinite
<1>4. Len(waiters) \in Nat
  BY PoolLists DEF Inv
<1>5. Counts'
  BY <1>1, <1>4 DEF Inv, Counts
<1>6. Pends'
  BY <1>2, <1>3 DEF Inv, Pends
<1> QED BY <1>2, <1>5, <1>6 DEF Inv, Fields, Return

\* The head of the list, as rt_mp_free resumes it.
LEMMA HeadRoused ==
  ASSUME Inv, waiters # <<>>, NEW j, j = HeadReady
  PROVE  Sound(j) /\ j.cur = k.cur /\ Roused(j, k, Head(waiters), RT_EOK)
<1> DEFINE u == Head(waiters)
<1>1. u \in Thread /\ k.stat[u] = "SUSPEND" /\ Sound(k)
  BY HeadWaits, PoolLists DEF Inv
<1>2. j = rt_thread_resume(SetErr(k, u, RT_EOK), u) /\ RT_EOK \in ErrNo
  BY DEF HeadReady, ErrNo
<1> HIDE DEF u
<1>3. Sound(j) /\ j.cur = k.cur /\ Roused(j, k, u, RT_EOK)
  BY <1>1, <1>2, ErrResumeRouses
<1> QED BY <1>3 DEF u

LEMMA FreeInv ==
  ASSUME Inv, NEW t \in Thread, NEW b, rt_mp_free(t, b)
  PROVE  Inv'
<1>1. At(t, "run") /\ t # Idle /\ Return(b) /\ "run" \notin Leaving /\ left' = left
  BY DEF rt_mp_free, Return, Leaving
<1>2. /\ IpcOK(PC, Suspends, Leaving) /\ Lists /\ left \in [Thread -> Time]
  BY DEF Inv, Lists, Locals
<1>3. CASE waiters = <<>>
  <2>1. k' = k
    BY <1>3 DEF rt_mp_free
  <2>2. PICK m \in {"run", "crashed"} : Goto(t, m)
    <3>1. CASE Wakes
      BY <1>3, <3>1 DEF rt_mp_free
    <3>2. CASE ~Wakes
      <4>1. pc' = pc /\ pc[t] = "run" /\ pc \in [Thread -> PC]
        BY <1>1, <1>2, <3>2 DEF rt_mp_free, At, IpcOK
      <4>2. Goto(t, "run")
        BY <4>1 DEF Goto
      <4> QED BY <4>2
    <3> QED BY <3>1, <3>2
  <2>3. "run" \notin Leaving \cup Waits /\ m \in PC \ (Waits \cup {"again"})
    BY DEF Leaving, Waits, PC
  <2>4. Lists' /\ Locals' /\ waiters' = waiters
    BY <1>1, <2>1, <2>2, <2>3, StillPool
  <2> QED BY <1>1, <1>3, <2>4, ReturnAlone
<1>4. CASE waiters # <<>>
  <2> DEFINE u == Head(waiters)
  <2>1. k' = HeadReady /\ Goto(t, "sched") /\ "sched" \in PC
    BY <1>4, WakesListed DEF rt_mp_free, PC
  <2>2. u \in Thread /\ k.stat[u] = "SUSPEND" /\ pc[u] \in Waits /\ u \in Nodes(waiters)
    BY <1>2, <1>4, HeadWaits
  <2>3. Sound(k') /\ k'.cur = k.cur /\ Roused(k', k, u, RT_EOK)
    BY <1>4, <2>1, HeadRoused
  <2> HIDE DEF u
  <2>4. /\ IpcOK(PC, Suspends, Leaving)' /\ Moves(PC, t) /\ pc[t] = "run" /\ pc'[t] = "sched"
    BY <1>1, <1>2, <2>1, <2>2, <2>3, RouseStep
  <2>5. /\ pc[t] \in Waits <=> pc'[t] \in Waits
        /\ pc[t] = "again" <=> pc'[t] = "again"
    BY <2>4 DEF Waits
  <2>6. pc'[u] \in Waits
    BY <2>2, <2>4 DEF Waits, Moves
  <2>7. /\ Lists' /\ u \notin Pending /\ Pending' = Pending \cup {u}
        /\ Len(waiters') = Len(waiters) - 1
    BY <1>2, <2>2, <2>3, <2>4, <2>5, <2>6, RousedPool
  <2>8. Locals'
    BY <1>1, <1>2, <2>4, LocalsKept DEF Inv
  <2> QED BY <1>1, <1>4, <2>7, <2>8, ReturnWakes
<1> QED BY <1>3, <1>4

LEMMA IsrFreeInv == ASSUME Inv, NEW b, IsrFree(b) PROVE Inv'
<1>1. Return(b) /\ left' = left
  BY DEF IsrFree, Return
<1>2. /\ IpcOK(PC, Suspends, Leaving) /\ Lists /\ left \in [Thread -> Time]
      /\ MpList \in WaitList \ {Defunct} /\ k.cur \in Thread
  BY PoolLists, CurThread DEF Inv, Lists, Locals
<1>3. CASE waiters = <<>>
  <2>1. k' = k
    BY <1>3 DEF IsrFree
  <2>2. Moves(PC, k.cur) /\ (pc' = pc \/ pc'[k.cur] = "crashed")
    <3>1. CASE Wakes
      <4>1. Goto(k.cur, "crashed") /\ "crashed" \in PC /\ pc \in [Thread -> PC]
        BY <1>2, <1>3, <3>1 DEF IsrFree, IpcOK, PC
      <4> QED BY <1>2, <4>1, GotoMoves
    <3>2. CASE ~Wakes
      BY <1>2, <3>2, StayMoves DEF IsrFree, IpcOK
    <3> QED BY <3>1, <3>2
  <2>3. IpcOK(PC, Suspends, Leaving)'
    BY <1>2, <2>1, <2>2 DEF IpcOK, Moves, Suspends, Leaving
  <2>4. Nodes(k.wait[MpList]) = {}
    BY <1>3 DEF waiters, Nodes
  <2>5. Blocking(MpList, Waits)'
    BY <1>2, <2>1, <2>2, <2>4 DEF Lists, Blocking, Moves, Waits
  <2>6. Lists' /\ waiters' = waiters
    BY <2>1, <2>3, <2>5 DEF Lists, waiters
  <2>7. Locals'
    BY <1>1, <1>2, <2>2, LocalsKept DEF Inv, Waits
  <2> QED BY <1>1, <1>3, <2>6, <2>7, ReturnAlone
<1>4. CASE waiters # <<>>
  <2> DEFINE u == Head(waiters)
             j == HeadReady
  <2>1. k' = rt_schedule(j) /\ pc' = pc
    BY <1>4, WakesListed DEF IsrFree
  <2>2. u \in Thread /\ k.stat[u] = "SUSPEND" /\ pc[u] \in Waits /\ u \in Nodes(waiters)
    BY <1>2, <1>4, HeadWaits
  <2>3. Sound(j) /\ Roused(j, k, u, RT_EOK)
    BY <1>4, HeadRoused
  <2> HIDE DEF u, j
  <2>4. k.wait[MpList] # <<>>
    BY <1>4 DEF waiters
  <2>5. /\ IpcOK(PC, Suspends, Leaving)' /\ Roused(k', k, u, RT_EOK) /\ k.cur \in Thread
        /\ Moves(PC, k.cur)
    BY <1>2, <2>1, <2>2, <2>3, <2>4, IsrRouseStep
  <2>6. pc'[u] \in Waits
    BY <2>1, <2>2
  <2>7. /\ Lists' /\ u \notin Pending /\ Pending' = Pending \cup {u}
        /\ Len(waiters') = Len(waiters) - 1
    BY <1>2, <2>1, <2>2, <2>5, <2>6, RousedPool
  <2>8. Locals'
    BY <1>1, <2>1 DEF Inv, Locals
  <2> QED BY <1>1, <1>4, <2>7, <2>8, ReturnWakes
<1> QED BY <1>3, <1>4

-----------------------------------------------------------------------------
(* The pool is detached; the other steps. *)

LEMMA DetachCallInv ==
  ASSUME Inv, NEW t \in Thread, DetachCall(t) \/ DetachCheck(t)
  PROVE  Inv'
<1>1. PICK l \in {"run", "closing"}, m \in {"run", "closing", "closing_do"} :
        At(t, l) /\ Goto(t, m) /\ k' = k /\ UNCHANGED <<free, count, left, given>>
  BY DEF DetachCall, DetachCheck
<1>2. l \notin Leaving \cup Waits /\ m \in PC \ (Waits \cup {"again"}) /\ l # "again"
  BY DEF Leaving, Waits, PC
<1>3. Lists' /\ Locals' /\ waiters' = waiters /\ Pending' = Pending
  BY <1>1, <1>2, StillPool
<1>4. Fields'
  BY DEF DetachCall, DetachCheck, Inv, Fields
<1> QED BY <1>1, <1>3, <1>4 DEF Inv, Counts, Chain, Pends

\* A waiter is woken with an error.
LEMMA FailedWaiter ==
  ASSUME Inv, IpcOK(PC, Suspends, Leaving)', NEW t \in Thread, Moves(PC, t),
         NEW u \in Thread, NEW e, Roused(k', k, u, e), k.stat[u] = "SUSPEND", e # RT_EOK,
         pc[t] \in Waits <=> pc'[t] \in Waits, pc[t] = "again" <=> pc'[t] = "again",
         UNCHANGED pool
  PROVE  Inv'
<1>1. Lists' /\ Pending' = Pending /\ Len(waiters') <= Len(waiters)
  BY RousedPool DEF Inv
<1>2. Locals'
  BY LocalsKept DEF Inv, Locals, pool
<1> QED BY <1>1, <1>2, PoolSame

LEMMA DetachTurnInv == ASSUME Inv, NEW t \in Thread, DetachTurn(t) PROVE Inv'
<1>1. /\ IpcOK(PC, Suspends, Leaving) /\ MpList \in WaitList \ {Defunct} /\ Lists
      /\ "closing_do" \notin Leaving /\ {"closing", "crashed"} \subseteq PC
      /\ ResumeAllTurn(t, MpList, "closing_do", "closing")
      /\ UNCHANGED <<free, left, given, life>> /\ left \in [Thread -> Time]
  BY PoolLists DEF DetachTurn, Leaving, PC, Inv, Locals
<1>2. /\ IpcOK(PC, Suspends, Leaving)' /\ Moves(PC, t) /\ pc[t] = "closing_do"
      /\ \/ /\ waiters # <<>> /\ Roused(k', k, Head(waiters), RT_ERROR) /\ pc'[t] = "closing"
            /\ Head(waiters) \in Thread /\ k.stat[Head(waiters)] = "SUSPEND"
         \/ waiters = <<>> /\ Calm(k', k) /\ pc'[t] = "crashed"
  BY <1>1, ResumeAllStep DEF waiters
<1>3. /\ pc[t] \in Waits <=> pc'[t] \in Waits
      /\ pc[t] = "again" <=> pc'[t] = "again"
  BY <1>2 DEF Waits
<1>4. Locals'
  BY <1>1, <1>2, LocalsKept DEF Inv, Waits
<1>5. CASE waiters = <<>>
  <2>1. Lists' /\ waiters' = waiters /\ Pending' = Pending
    BY <1>1, <1>2, <1>3, <1>5, CalmPool
  <2>2. count' = count
    BY <1>5 DEF DetachTurn
  <2> QED BY <1>1, <1>4, <2>1, <2>2 DEF Inv, Counts, Chain, Pends, Fields
<1>6. CASE waiters # <<>>
  <2> DEFINE u == Head(waiters)
  <2>1. u \in Thread /\ k.stat[u] = "SUSPEND" /\ u \in Nodes(waiters)
    BY <1>1, <1>6, HeadWaits
  <2>2. Roused(k', k, u, RT_ERROR) /\ RT_ERROR # RT_EOK
    BY <1>2, <1>6 DEF RT_ERROR, RT_EOK
  <2> HIDE DEF u
  <2>3. Lists' /\ Pending' = Pending /\ Len(waiters') = Len(waiters) - 1
    BY <1>1, <1>2, <1>3, <2>1, <2>2, RousedPool
  <2>4. count' = count - 1 /\ Len(waiters) \in Nat
    BY <1>1, <1>6, PoolLists DEF DetachTurn
  <2>5. Counts'
    BY <2>3, <2>4 DEF Inv, Counts
  <2>6. Pends'
    BY <1>1, <1>6, <2>3 DEF Inv, Pends
  <2> QED BY <1>1, <1>4, <2>3, <2>5, <2>6 DEF Inv, Chain, Fields
<1> QED BY <1>5, <1>6

\* The steps that only switch threads.
LEMMA CalmInv ==
  ASSUME Inv, IpcOK(PC, Suspends, Leaving)', NEW t \in Thread, Moves(PC, t), Calm(k', k),
         pc[t] \in Waits <=> pc'[t] \in Waits, pc[t] = "again" <=> pc'[t] = "again",
         UNCHANGED pool
  PROVE  Inv'
<1>1. Lists' /\ waiters' = waiters /\ Pending' = Pending
  BY CalmPool DEF Inv
<1>2. Locals'
  BY LocalsKept DEF Inv, Locals, pool
<1>3. Len(waiters') <= Len(waiters)
  BY <1>1, PoolLists DEF Inv
<1> QED BY <1>1, <1>2, <1>3, PoolSame

LEMMA SwitchInv ==
  ASSUME Inv, NEW t \in Thread, UNCHANGED pool,
         Schedule(t, "waiting", "woken") \/ Schedule(t, "sched", "run")
  PROVE  Inv'
<1>1. /\ IpcOK(PC, Suspends, Leaving)' /\ Moves(PC, t) /\ Calm(k', k)
      /\ pc[t] \in Waits <=> pc'[t] \in Waits
  BY ScheduleStep DEF Inv, Lists, PC, Suspends, Leaving, Waits
<1>2. pc[t] # "again" /\ pc'[t] # "again"
  BY ScheduleStep DEF Inv, Lists, PC, Suspends, Leaving, Waits
<1> QED BY <1>1, <1>2, CalmInv

LEMMA TickInv ==
  ASSUME Inv, UNCHANGED pool, TickSlice \/ \E t \in Thread : TickTimeout(t)
  PROVE  Inv'
<1>1. CASE TickSlice
  <2>1. /\ IpcOK(PC, Suspends, Leaving)' /\ k.cur \in Thread /\ Moves(PC, k.cur)
        /\ Calm(k', k) /\ pc' = pc
    BY <1>1, SliceStep DEF Inv, Lists
  <2> QED BY <2>1, CalmInv
<1>2. ASSUME NEW t \in Thread, TickTimeout(t) PROVE Inv'
  <2>1. /\ IpcOK(PC, Suspends, Leaving)' /\ Moves(PC, t) /\ Roused(k', k, t, RT_ETIMEOUT)
        /\ k.stat[t] = "SUSPEND" /\ pc' = pc
    BY <1>2, TimeoutStep DEF Inv, Lists
  <2>2. RT_ETIMEOUT # RT_EOK
    BY DEF RT_ETIMEOUT, RT_EOK
  <2> QED BY <2>1, <2>2, FailedWaiter
<1> QED BY <1>1, <1>2

LEMMA SleepInv ==
  ASSUME Inv, NEW t \in Thread, rt_thread_sleep(t) \/ Sleeping(t), UNCHANGED pool
  PROVE  Inv'
<1>1. /\ IpcOK(PC, Suspends, Leaving) /\ Sound(k) /\ MpList \in WaitList /\ k \in KernelState
      /\ Blocking(MpList, Waits) /\ Lists /\ Len(waiters) \in Nat /\ Locals
      /\ left' \in [Thread -> Time]
  BY PoolLists DEF Inv, Lists, Locals, pool
<1>2. CASE rt_thread_sleep(t)
  <2>0. "run" \notin Leaving /\ "sleeping" \in PC \cap Suspends \cap Leaving
    BY DEF Leaving, Suspends, PC
  <2>1. /\ IpcOK(PC, Suspends, Leaving)' /\ Moves(PC, t) /\ Slept(k', k, t)
        /\ k.stat[t] = "READY" /\ pc[t] = "run" /\ pc'[t] = "sleeping"
    BY <1>1, <1>2, <2>0, SleepStep
  <2>2. Blocking(MpList, Waits)'
    BY <1>1, <2>1, SleptBlocking DEF Waits
  <2>3. waiters' = waiters
    BY <2>1 DEF Slept, waiters
  <2>4. \A u \in Thread \ {t} : k'.stat[u] = k.stat[u] /\ k'.err[u] = k.err[u]
    BY <1>1, <2>1 DEF Slept, KernelState
  <2>5. Woken(Waits)' = Woken(Waits) \ {t} /\ t \notin Woken(Waits)
    BY <2>1, <2>4, OwnWoken DEF Waits, Woken
  <2>6. Again' = Again
    BY <2>1 DEF Again, Moves
  <2>7. Locals'
    BY <1>1, <2>1, LocalsKept DEF Waits
  <2> QED BY <1>1, <2>1, <2>2, <2>3, <2>5, <2>6, <2>7, PoolSame DEF Lists, Pending
<1>3. CASE Sleeping(t)
  <2>1. /\ IpcOK(PC, Suspends, Leaving)' /\ Moves(PC, t)
        /\ pc[t] \in {"sleeping", "slept"} /\ pc'[t] \in {"slept", "run"}
        /\ \/ Calm(k', k)
           \/ Noted(k', k, t, RT_EOK) /\ k.stat[t] = "READY"
    BY <1>1, <1>3, SleepingStep DEF Leaving, Suspends, PC
  <2>2. /\ pc[t] \notin Waits /\ pc'[t] \notin Waits
        /\ pc[t] # "again" /\ pc'[t] # "again"
    BY <2>1 DEF Waits
  <2>3. CASE Calm(k', k)
    BY <2>1, <2>2, <2>3, CalmInv
  <2>4. CASE Noted(k', k, t, RT_EOK) /\ k.stat[t] = "READY"
    <3>1. Blocking(MpList, Waits)'
      BY <1>1, <2>1, <2>4, NotedBlocking
    <3>2. waiters' = waiters
      BY <2>4 DEF Noted, waiters
    <3>3. \A u \in Thread \ {t} : k'.stat[u] = k.stat[u] /\ k'.err[u] = k.err[u]
      BY <1>1, <2>4 DEF Noted, KernelState
    <3>4. Woken(Waits)' = Woken(Waits) \ {t} /\ t \notin Woken(Waits)
      BY <2>1, <2>2, <3>3, OwnWoken DEF Woken
    <3>5. Again' = Again
      BY <2>1, <2>2 DEF Again, Moves
    <3>6. Locals'
      BY <1>1, <2>1, <2>2, LocalsKept
    <3> QED BY <1>1, <2>1, <3>1, <3>2, <3>4, <3>5, <3>6, PoolSame DEF Lists, Pending
  <2> QED BY <2>1, <2>3, <2>4
<1> QED BY <1>2, <1>3

LEMMA StutterInv == Inv /\ UNCHANGED vars => Inv'
  BY DEF Inv, Lists, IpcOK, Blocking, Locals, Counts, Chain, Pends, Fields, Pending, Again,
         waiters, Woken, BlockSet, vars

LEMMA NextInv == Inv /\ Next => Inv'
<1> SUFFICES ASSUME Inv, Next PROVE Inv'
  OBVIOUS
<1>1. ASSUME NEW t \in Thread, Step(t) PROVE Inv'
  <2>1. ASSUME NEW time \in Times, rt_mp_alloc(t, time) PROVE Inv'
    <3>1. At(t, "run") /\ t \in Thread \ {Idle} /\ time \in Time
      BY <2>1, MemPoolAssumption DEF rt_mp_alloc
    <3>2. AllocTake(t) \/ AllocFail(t) \/ AllocWait(t, time)
      BY <2>1 DEF rt_mp_alloc
    <3> QED BY <3>1, <3>2, AllocTakeInv, AllocFailInv, AllocWaitInv
  <2>2. CASE AllocAgain(t)
    <3>1. At(t, "again") /\ (AllocTake(t) \/ AllocFail(t) \/ AllocWait(t, left[t]))
      BY <2>2 DEF AllocAgain
    <3>2. t # Idle /\ left[t] \in Time
      BY <3>1 DEF Inv, Locals, At
    <3> QED BY <3>1, <3>2, AllocTakeInv, AllocFailInv, AllocWaitInv
  <2>3. ASSUME NEW b \in BlockSet, rt_mp_free(t, b) PROVE Inv'
    BY <2>3, FreeInv
  <2> QED BY <1>1, <2>1, <2>2, <2>3, AllocWokenInv, SwitchInv, DetachCallInv, DetachTurnInv,
             SleepInv DEF Step
<1>2. ASSUME NEW b \in BlockSet, IsrFree(b) PROVE Inv'
  BY <1>2, IsrFreeInv
<1> QED BY <1>1, <1>2, TickInv DEF Next

THEOREM Invariance == Spec => []Inv
<1>1. Init => Inv
  BY InitInv
<1>2. Inv /\ [Next]_vars => Inv'
  BY NextInv, StutterInv
<1> QED BY <1>1, <1>2, PTL DEF Spec

\* rt_mp_alloc hands out no block twice and rt_mp_free loses none, however many
\* threads and interrupt handlers call them.
THEOREM BlocksCorrect == Spec => []BlocksOwned
<1>1. Inv => BlocksOwned
  BY PoolLists DEF Inv, Lists, IpcOK, Locals, Counts, Chain, Fields, BlocksOwned, TypeOK
<1> QED BY <1>1, Invariance, PTL

\* While a thread waits, every free block has a woken thread on its way to it.
THEOREM WakeupCorrect == Spec => []NoLostWakeup
<1>1. Inv => NoLostWakeup
  BY DEF Inv, Pends, Pending, Again, Waits, NoLostWakeup
<1> QED BY <1>1, Invariance, PTL

-----------------------------------------------------------------------------
(*****************************************************************************)
(* The event object. What is inductive is the state of the whole search in   *)
(* rt_event_send: which threads it has passed, and what it has taken away.   *)
(*****************************************************************************)

EventWaits == {"waiting", "woken"}
EventLeaving == {"waiting"}

EventLists ==
  /\ IpcOK(EventPC, EventWaits, EventLeaving) /\ Blocking(EventList, EventWaits)

EventFields ==
  /\ phase \in {"live", "closing", "gone"} /\ set \subseteq Bits /\ info \in [Thread -> Info]
  /\ sends \in [Bits -> 0 .. MaxSends] /\ takes \in [Bits -> Nat]

\* Nobody in the list is satisfied by what is set, and nobody waits for an object
\* that is gone.
Unsatisfied ==
  \A t \in Nodes(k.wait[EventList]) : phase # "gone" /\ ~Satisfied(info[t], set)

EventInvariant == EventLists /\ EventFields /\ Unsatisfied /\ ClearedOnce

-----------------------------------------------------------------------------
(* The search of rt_event_send. *)

\* The search before the first thread, and after i of them.
SearchStart(mask) == [k |-> k, info |-> info, set |-> set \cup mask, woke |-> FALSE]
SearchRuns(x, mask, n) ==
  x = [i \in 0 .. n |->
         IF i = 0 THEN SearchStart(mask) ELSE Visit(x[i - 1], k.wait[EventList][i])]

LEMMA SearchRunsAt ==
  ASSUME NEW x, NEW mask, NEW n \in Nat, SearchRuns(x, mask, n)
  PROVE  /\ x[0] = SearchStart(mask)
         /\ \A i \in 1 .. n : x[i] = Visit(x[i - 1], k.wait[EventList][i])
         /\ DOMAIN x = 0 .. n
<1> DEFINE f == [i \in 0 .. n |->
                   IF i = 0 THEN SearchStart(mask) ELSE Visit(x[i - 1], k.wait[EventList][i])]
<1>1. x = f
  BY Zenon DEF SearchRuns
<1>2. f[0] = SearchStart(mask) /\ DOMAIN f = 0 .. n
  <2>1. 0 \in 0 .. n
    OBVIOUS
  <2> QED BY <2>1, Zenon
<1>3. ASSUME NEW i \in 1 .. n PROVE f[i] = Visit(x[i - 1], k.wait[EventList][i])
  <2>1. i \in 0 .. n /\ i # 0
    OBVIOUS
  <2> QED BY <2>1, Zenon
<1> HIDE DEF f
<1> QED BY <1>1, <1>2, <1>3, Zenon

\* The recursion of Search has a solution of every length.
LEMMA SearchRunsExist ==
  ASSUME NEW mask, NEW n \in Nat
  PROVE  \E x : SearchRuns(x, mask, n)
<1> DEFINE Q == {m \in Nat : \E x : SearchRuns(x, mask, m)}
<1>1. 0 \in Q
  <2> DEFINE y == [i \in 0 .. 0 |-> SearchStart(mask)]
  <2>1. \A i \in 0 .. 0 : i = 0
    OBVIOUS
  <2>2. y = [i \in 0 .. 0 |->
               IF i = 0 THEN SearchStart(mask) ELSE Visit(y[i - 1], k.wait[EventList][i])]
    BY <2>1, Zenon
  <2> QED BY <2>2, Zenon DEF SearchRuns
<1>2. ASSUME NEW m \in Q PROVE m + 1 \in Q
  <2>1. m \in Nat /\ m + 1 \in Nat
    OBVIOUS
  <2>2. PICK x : SearchRuns(x, mask, m)
    OBVIOUS
  <2>3. /\ x[0] = SearchStart(mask)
        /\ \A i \in 1 .. m : x[i] = Visit(x[i - 1], k.wait[EventList][i])
    BY <2>1, <2>2, SearchRunsAt, Zenon
  <2> DEFINE y == [i \in 0 .. (m + 1) |->
                     IF i = 0 THEN SearchStart(mask)
                     ELSE Visit(x[i - 1], k.wait[EventList][i])]
             z == [i \in 0 .. (m + 1) |->
                     IF i = 0 THEN SearchStart(mask)
                     ELSE Visit(y[i - 1], k.wait[EventList][i])]
  <2>4. ASSUME NEW i \in 0 .. m PROVE y[i] = x[i]
    <3>1. i \in 0 .. (m + 1) /\ (i # 0 => i \in 1 .. m)
      BY <2>1
    <3>2. y[i] = IF i = 0 THEN SearchStart(mask) ELSE Visit(x[i - 1], k.wait[EventList][i])
      BY <3>1, Zenon
    <3> QED BY <2>3, <3>1, <3>2, Zenon
  <2>5. \A i \in 0 .. (m + 1) : i # 0 => i - 1 \in 0 .. m
    BY <2>1
  <2> HIDE DEF y
  <2>6. \A i \in 0 .. (m + 1) : i # 0 => y[i - 1] = x[i - 1]
    BY <2>4, <2>5, Zenon
  <2>7. y = z
    BY <2>6, Zenon DEF y
  <2>8. SearchRuns(y, mask, m + 1)
    BY <2>7, Zenon DEF SearchRuns
  <2> QED BY <2>1, <2>8
<1> HIDE DEF Q
<1>3. Q \in SUBSET Nat
  BY DEF Q
<1>4. n \in Q
  BY <1>1, <1>2, <1>3, NatSetInduction
<1> QED BY <1>4 DEF Q

LEMMA SearchSteps ==
  ASSUME NEW mask, Len(k.wait[EventList]) \in Nat
  PROVE  \E x : /\ SearchRuns(x, mask, Len(k.wait[EventList]))
                /\ Search(mask) = x[Len(k.wait[EventList])]
<1> DEFINE n == Len(k.wait[EventList])
           y == CHOOSE x : SearchRuns(x, mask, n)
<1>1. SearchRuns(y, mask, n)
  <2>1. \E x : SearchRuns(x, mask, n)
    BY SearchRunsExist
  <2> QED BY <2>1, Zenon
<1>2. Search(mask) = y[n]
  BY Zenon DEF Search, SearchRuns, SearchStart
<1> QED BY <1>1, <1>2, Zenon
\* Threads satisfied so far that have to clear flag b.
OwedAt(x, b) ==
  {t \in Thread : /\ pc[t] \in EventWaits
                  /\ x.k.stat[t] = "READY" /\ x.k.err[t] = RT_EOK
                  /\ x.info[t].clear /\ b \in x.info[t].set}

\* After i threads: the search has only woken threads of the list, those it has
\* passed and left are not satisfied, those it has not reached are as they were.
SearchKernel(x) ==
  /\ Sound(x.k) /\ x.k.cur = k.cur /\ x.k.err = k.err
  /\ \A t \in Thread : \/ x.k.stat[t] = k.stat[t]
                       \/ t \in Nodes(k.wait[EventList]) /\ x.k.stat[t] = "READY"
  /\ Nodes(x.k.wait[EventList]) =
       {t \in Nodes(k.wait[EventList]) : x.k.stat[t] = "SUSPEND"}
  /\ x.woke \in BOOLEAN /\ (~x.woke => x.k = k)

SearchPlace(x, i) ==
  /\ \A j \in 1 .. Len(k.wait[EventList]) : i < j =>
       /\ x.info[k.wait[EventList][j]] = info[k.wait[EventList][j]]
       /\ x.k.stat[k.wait[EventList][j]] = "SUSPEND"
  /\ \A j \in 1 .. Len(k.wait[EventList]) :
       j <= i /\ x.k.stat[k.wait[EventList][j]] = "SUSPEND"
         => ~Satisfied(x.info[k.wait[EventList][j]], x.set)

SearchCount(x, mask) ==
  \A b \in Bits :
    takes[b] + Cardinality(OwedAt(x, b)) + (IF b \in x.set THEN 1 ELSE 0)
      <= Counted(sends, mask)[b]

SearchFields(x) == x.set \subseteq Bits /\ x.info \in [Thread -> Info]

SearchOK(x, mask, i) ==
  SearchKernel(x) /\ SearchPlace(x, i) /\ SearchCount(x, mask) /\ SearchFields(x)

LEMMA EventKernel ==
  ASSUME EventLists
  PROVE  /\ EventList \in WaitList \ {Defunct} /\ EventList \in WaitList
         /\ IpcOK(EventPC, EventWaits, EventLeaving) /\ Sound(k) /\ k \in KernelState
         /\ k.wait[EventList] \in Seq(Thread) /\ Injective(k.wait[EventList])
         /\ Blocking(EventList, EventWaits)
<1>1. Sound(k) /\ EventList \in WaitList
  BY EventAssumption DEF EventLists, IpcOK
<1> QED BY <1>1, EventAssumption DEF EventLists, Sound, KernelInv, KernelState, ListsSound

LEMMA OwedFinite ==
  ASSUME NEW x, NEW b
  PROVE  /\ IsFiniteSet(OwedAt(x, b)) /\ Cardinality(OwedAt(x, b)) \in Nat
  BY ThreadFinite, FS_Subset, FS_CardinalityType DEF OwedAt

LEMMA SearchStartOK ==
  ASSUME EventInvariant, NEW mask \in SUBSET Bits
  PROVE  SearchOK(SearchStart(mask), mask, 0)
<1> DEFINE x == SearchStart(mask)
<1>1. x.k = k /\ x.info = info /\ x.set = set \cup mask /\ x.woke = FALSE
  BY DEF SearchStart
<1> HIDE DEF x
<1>2. /\ Sound(k) /\ k.wait[EventList] \in Seq(Thread)
      /\ Blocking(EventList, EventWaits)
  BY EventKernel DEF EventInvariant
<1>3. \A t \in Nodes(k.wait[EventList]) : k.stat[t] = "SUSPEND"
  BY <1>2 DEF Blocking
<1>4. SearchKernel(x)
  BY <1>1, <1>2, <1>3 DEF SearchKernel
<1>5. SearchPlace(x, 0)
  BY <1>1, <1>2, <1>3 DEF SearchPlace, Nodes
<1>6. SearchFields(x)
  BY <1>1 DEF SearchFields, EventInvariant, EventFields
<1>7. ASSUME NEW b \in Bits
      PROVE  takes[b] + Cardinality(OwedAt(x, b)) + (IF b \in x.set THEN 1 ELSE 0)
               <= Counted(sends, mask)[b]
  <2>1. OwedAt(x, b) = Owed(b)
    BY <1>1 DEF OwedAt, Owed, Woken, EventWaits
  <2>2. Cardinality(OwedAt(x, b)) \in Nat
    BY OwedFinite
  <2>3. takes[b] + Cardinality(Owed(b)) + (IF b \in set THEN 1 ELSE 0) <= sends[b]
    BY DEF EventInvariant, ClearedOnce
  <2>4. Counted(sends, mask)[b] = IF b \in mask THEN sends[b] + 1 ELSE sends[b]
    BY DEF Counted
  <2>5. takes[b] \in Nat /\ sends[b] \in Nat
    BY EventAssumption DEF EventInvariant, EventFields
  <2> HIDE DEF Counted
  <2> QED BY <1>1, <2>1, <2>2, <2>3, <2>4, <2>5
<1> QED BY <1>4, <1>5, <1>6, <1>7 DEF SearchOK, SearchCount, x

LEMMA SatisfiedLess ==
  ASSUME NEW i, NEW s, NEW r, r \subseteq s, ~Satisfied(i, s)
  PROVE  ~Satisfied(i, r)
  BY DEF Satisfied

\* One thread more.
LEMMA VisitOK ==
  ASSUME EventInvariant, NEW mask, NEW x,
         NEW i \in 1 .. Len(k.wait[EventList]), SearchOK(x, mask, i - 1)
  PROVE  SearchOK(Visit(x, k.wait[EventList][i]), mask, i)
<1> DEFINE w == k.wait[EventList]
           t == w[i]
           y == Visit(x, t)
           n == Len(w)
<1>1. /\ Sound(k) /\ w \in Seq(Thread) /\ Injective(w) /\ n \in Nat
      /\ EventList \in WaitList /\ i \in 1 .. n
  BY EventKernel DEF EventInvariant
<1>2. /\ t \in Nodes(w) /\ t \in Thread /\ pc[t] \in EventWaits /\ k.err[t] = RT_EOK
      /\ k.stat[t] = "SUSPEND"
  BY <1>1, EventKernel DEF EventInvariant, Blocking, Nodes
<1>3. /\ \A j \in 1 .. n : i - 1 < j => x.info[w[j]] = info[w[j]] /\ x.k.stat[w[j]] = "SUSPEND"
      /\ \A j \in 1 .. n : j <= i - 1 /\ x.k.stat[w[j]] = "SUSPEND"
                           => ~Satisfied(x.info[w[j]], x.set)
  BY DEF SearchOK, SearchPlace
<1>4. \A j \in 1 .. n : j # i => w[j] # t /\ w[j] \in Thread
  BY <1>1 DEF Injective
<1>5. x.k.stat[t] = "SUSPEND" /\ x.info[t] = info[t] /\ i - 1 < i
  BY <1>1, <1>3
<1>6. CASE ~Satisfied(x.info[t], x.set)
  <2>1. y = x
    BY <1>6 DEF Visit
  <2> HIDE DEF t, y
  <2>2. SearchPlace(x, i)
    <3>1. \A j \in 1 .. n : i < j => i - 1 < j
      BY <1>1
    <3>2. \A j \in 1 .. n : j <= i => j <= i - 1 \/ j = i
      BY <1>1
    <3> QED BY <1>3, <1>6, <3>1, <3>2 DEF SearchPlace, t
  <2> QED BY <2>1, <2>2 DEF SearchOK, y, t
<1>7. CASE Satisfied(x.info[t], x.set)
  <2> DEFINE have == x.info[t].set \cap x.set
  <2>1. /\ y.k = rt_thread_resume(x.k, t) /\ y.info = [x.info EXCEPT ![t].set = have]
        /\ y.set = (IF x.info[t].clear THEN x.set \ have ELSE x.set) /\ y.woke = TRUE
    BY <1>7 DEF Visit
  <2> HIDE DEF y, t
  <2>2. /\ Sound(x.k) /\ x.k.err = k.err /\ x.k \in KernelState
        /\ x.info \in [Thread -> Info] /\ x.set \subseteq Bits
    BY CurThread DEF SearchOK, SearchKernel, SearchFields
  <2>3. Sound(y.k) /\ Roused(y.k, x.k, t, x.k.err[t]) /\ y.k.cur = x.k.cur
    BY <1>2, <1>5, <2>1, <2>2, ResumeRouses
  <2>4. /\ \A u \in Thread : y.k.stat[u] = IF u = t THEN "READY" ELSE x.k.stat[u]
        /\ y.k.err = x.k.err
    BY <1>2, <2>2, <2>3 DEF Roused, KernelState
  <2>5. Nodes(y.k.wait[EventList]) = Nodes(x.k.wait[EventList]) \ {t}
    <3>1. y.k.wait[EventList] = Unlink(x.k.wait[EventList], t)
      BY <1>1, <2>3 DEF Roused
    <3>2. x.k.wait[EventList] \in Seq(Thread) /\ Injective(x.k.wait[EventList])
      BY <1>1, <2>2 DEF Sound, KernelInv, KernelState, ListsSound
    <3> QED BY <3>1, <3>2, UnlinkNodes
  <2>6. SearchKernel(y)
    <3>1. Nodes(w) \subseteq Thread
      BY <1>1 DEF Nodes
    <3>2. Nodes(y.k.wait[EventList]) = {u \in Nodes(w) : y.k.stat[u] = "SUSPEND"}
      BY <2>4, <2>5, <3>1 DEF SearchOK, SearchKernel
    <3>3. \A u \in Thread : \/ y.k.stat[u] = k.stat[u]
                            \/ u \in Nodes(w) /\ y.k.stat[u] = "READY"
      BY <1>2, <2>4 DEF SearchOK, SearchKernel
    <3>4. x.k.cur = k.cur
      BY DEF SearchOK, SearchKernel
    <3> QED BY <2>1, <2>2, <2>3, <2>4, <3>2, <3>3, <3>4 DEF SearchKernel
  <2>7. y.info[t] = [x.info[t] EXCEPT !.set = have]
        /\ \A u \in Thread \ {t} : y.info[u] = x.info[u]
    BY <1>2, <2>1, <2>2
  <2>8. y.set \subseteq x.set /\ have \subseteq Bits /\ x.info[t] \in Info
    BY <1>2, <2>1, <2>2
  <2>9. SearchFields(y)
    <3>1. y.info[t] \in Info
      BY <2>7, <2>8 DEF Info
    <3>2. y.info \in [Thread -> Info]
      BY <1>2, <2>1, <2>2, <2>7, <3>1
    <3> QED BY <2>2, <2>8, <3>2 DEF SearchFields
  <2>10. SearchPlace(y, i)
    <3>1. ASSUME NEW j \in 1 .. n, i < j
          PROVE  y.info[w[j]] = info[w[j]] /\ y.k.stat[w[j]] = "SUSPEND"
      <4>1. j # i /\ i - 1 < j
        BY <1>1, <3>1
      <4> QED BY <1>3, <1>4, <2>4, <2>7, <4>1
    <3>2. ASSUME NEW j \in 1 .. n, j <= i, y.k.stat[w[j]] = "SUSPEND"
          PROVE  ~Satisfied(y.info[w[j]], y.set)
      <4>1. j # i
        BY <1>2, <2>4, <3>2 DEF t
      <4>2. j <= i - 1
        BY <1>1, <3>2, <4>1
      <4>3. y.info[w[j]] = x.info[w[j]] /\ x.k.stat[w[j]] = "SUSPEND"
        BY <1>4, <2>4, <2>7, <3>2, <4>1
      <4>4. ~Satisfied(x.info[w[j]], x.set)
        BY <1>3, <4>2, <4>3
      <4> QED BY <2>8, <4>3, <4>4, SatisfiedLess
    <3> QED BY <3>1, <3>2 DEF SearchPlace
  <2>11. ASSUME NEW b \in Bits
         PROVE  Cardinality(OwedAt(y, b)) + (IF b \in y.set THEN 1 ELSE 0)
                  = Cardinality(OwedAt(x, b)) + (IF b \in x.set THEN 1 ELSE 0)
    <3>1. t \notin OwedAt(x, b)
      BY <1>5 DEF OwedAt, t
    <3>2. Cardinality(OwedAt(x, b)) \in Nat /\ IsFiniteSet(OwedAt(x, b))
      BY OwedFinite
    <3>3. y.info[t].clear = x.info[t].clear /\ y.info[t].set = have
      BY <2>7, <2>8 DEF Info
    <3>4. \A u \in Thread \ {t} : u \in OwedAt(y, b) <=> u \in OwedAt(x, b)
      BY <2>4, <2>7 DEF OwedAt
    <3>5. t \in OwedAt(y, b) <=> x.info[t].clear /\ b \in have
      BY <1>2, <2>2, <2>4, <3>3 DEF OwedAt
    <3>6. CASE x.info[t].clear /\ b \in have
      <4>1. OwedAt(y, b) = OwedAt(x, b) \cup {t}
        BY <1>2, <3>4, <3>5, <3>6 DEF OwedAt
      <4>2. Cardinality(OwedAt(y, b)) = Cardinality(OwedAt(x, b)) + 1
        BY <3>1, <3>2, <4>1, FS_AddElement
      <4>3. b \in x.set /\ b \notin y.set
        BY <2>1, <3>6
      <4> QED BY <3>2, <4>2, <4>3
    <3>7. CASE ~(x.info[t].clear /\ b \in have)
      <4>1. OwedAt(y, b) = OwedAt(x, b)
        BY <3>1, <3>4, <3>5, <3>7 DEF OwedAt
      <4>2. b \in x.set <=> b \in y.set
        BY <2>1, <3>7
      <4> QED BY <4>1, <4>2
    <3> QED BY <3>6, <3>7
  <2>12. SearchCount(y, mask)
    <3> SUFFICES ASSUME NEW b \in Bits
                 PROVE  takes[b] + Cardinality(OwedAt(y, b)) + (IF b \in y.set THEN 1 ELSE 0)
                          <= Counted(sends, mask)[b]
      BY DEF SearchCount
    <3>1. takes[b] + Cardinality(OwedAt(x, b)) + (IF b \in x.set THEN 1 ELSE 0)
            <= Counted(sends, mask)[b]
      BY DEF SearchOK, SearchCount
    <3>2. /\ Cardinality(OwedAt(x, b)) \in Nat /\ Cardinality(OwedAt(y, b)) \in Nat
          /\ takes[b] \in Nat
      BY OwedFinite DEF EventInvariant, EventFields
    <3> QED BY <2>11, <3>1, <3>2
  <2> QED BY <2>6, <2>9, <2>10, <2>12 DEF SearchOK, y, t
<1> QED BY <1>6, <1>7

\* What the whole search leaves.
LEMMA SearchEnds ==
  ASSUME EventInvariant, NEW mask \in SUBSET Bits
  PROVE  SearchOK(Search(mask), mask, Len(k.wait[EventList]))
<1> DEFINE n == Len(k.wait[EventList])
<1>1. n \in Nat
  BY EventKernel DEF EventInvariant
<1>2. PICK x : SearchRuns(x, mask, n) /\ Search(mask) = x[n]
  BY <1>1, SearchSteps
<1>3. /\ x[0] = SearchStart(mask)
      /\ \A i \in 1 .. n : x[i] = Visit(x[i - 1], k.wait[EventList][i])
  BY <1>1, <1>2, SearchRunsAt
<1> DEFINE Q == {i \in Nat : i <= n => SearchOK(x[i], mask, i)}
<1>4. 0 \in Q
  BY <1>3, SearchStartOK
<1>5. ASSUME NEW i \in Q PROVE i + 1 \in Q
  <2>1. SUFFICES ASSUME i + 1 <= n PROVE SearchOK(x[i + 1], mask, i + 1)
    OBVIOUS
  <2>2. i \in Nat /\ SearchOK(x[i], mask, i)
    BY <1>1, <2>1
  <2>3. i + 1 \in 1 .. n /\ (i + 1) - 1 = i
    BY <1>1, <2>1, <2>2
  <2>4. x[i + 1] = Visit(x[i], k.wait[EventList][i + 1])
    BY <1>3, <2>3
  <2>5. SearchOK(x[i], mask, (i + 1) - 1)
    BY <2>2, <2>3
  <2> QED BY <2>3, <2>4, <2>5, VisitOK
<1> HIDE DEF Q
<1>6. Q \in SUBSET Nat
  BY DEF Q
<1>7. n \in Q
  BY <1>1, <1>4, <1>5, <1>6, NatSetInduction
<1> QED BY <1>1, <1>2, <1>7 DEF Q
-----------------------------------------------------------------------------
(* The steps. *)

\* Fewer threads may be owed a flag.
LEMMA OwedLess ==
  ASSUME NEW b, Owed(b)' \subseteq Owed(b)
  PROVE  /\ Cardinality(Owed(b)) \in Nat /\ Cardinality(Owed(b)') \in Nat
         /\ Cardinality(Owed(b)') <= Cardinality(Owed(b))
<1>1. IsFiniteSet(Owed(b))
  BY WokenFinite, FS_Subset DEF Owed
<1> QED BY <1>1, FS_Subset, FS_CardinalityType

\* The steps that leave the fields of the object alone.
LEMMA EventKept ==
  ASSUME EventInvariant, EventLists', UNCHANGED <<set, info, phase, sends, takes>>,
         Nodes(k'.wait[EventList]) \subseteq Nodes(k.wait[EventList]),
         Woken(EventWaits)' \subseteq Woken(EventWaits)
  PROVE  EventInvariant'
<1>1. EventFields' /\ Unsatisfied'
  BY DEF EventInvariant, EventFields, Unsatisfied
<1>2. ASSUME NEW b \in Bits
      PROVE  takes'[b] + Cardinality(Owed(b)') + (IF b \in set' THEN 1 ELSE 0) <= sends'[b]
  <2>1. Owed(b)' \subseteq Owed(b)
    BY DEF Owed, EventWaits
  <2>2. /\ Cardinality(Owed(b)) \in Nat /\ Cardinality(Owed(b)') \in Nat
        /\ Cardinality(Owed(b)') <= Cardinality(Owed(b))
    BY <2>1, OwedLess
  <2>3. takes[b] \in Nat /\ sends[b] \in Nat
    BY EventAssumption DEF EventInvariant, EventFields
  <2>4. takes[b] + Cardinality(Owed(b)) + (IF b \in set THEN 1 ELSE 0) <= sends[b]
    BY DEF EventInvariant, ClearedOnce
  <2> QED BY <2>2, <2>3, <2>4
<1> QED BY <1>1, <1>2 DEF EventInvariant, ClearedOnce

LEMMA CalmEvent ==
  ASSUME EventLists, IpcOK(EventPC, EventWaits, EventLeaving)', NEW t \in Thread,
         Moves(EventPC, t), Calm(k', k), pc[t] \in EventWaits <=> pc'[t] \in EventWaits
  PROVE  EventLists' /\ k'.wait = k.wait /\ Woken(EventWaits)' = Woken(EventWaits)
<1>1. Blocking(EventList, EventWaits)'
  BY CalmBlocking DEF EventLists
<1>2. Woken(EventWaits)' = Woken(EventWaits)
  BY CalmWoken
<1> QED BY <1>1, <1>2 DEF EventLists, Calm

\* A waiter is woken with an error.
LEMMA FailedEvent ==
  ASSUME EventInvariant, IpcOK(EventPC, EventWaits, EventLeaving)', NEW t \in Thread,
         Moves(EventPC, t), NEW u \in Thread, NEW e, Roused(k', k, u, e),
         k.stat[u] = "SUSPEND", e # RT_EOK, pc[t] \in EventWaits <=> pc'[t] \in EventWaits,
         UNCHANGED <<set, info, phase, sends, takes>>
  PROVE  EventInvariant'
<1>1. EventLists /\ Sound(k) /\ EventList \in WaitList
  BY EventKernel DEF EventInvariant
<1>2. Blocking(EventList, EventWaits)'
  BY <1>1, RousedBlocking DEF EventLists
<1>3. Nodes(k'.wait[EventList]) = Nodes(k.wait[EventList]) \ {u}
  BY <1>1, RousedLists
<1>4. Woken(EventWaits)' = Woken(EventWaits)
  BY <1>1, RousedWoken
<1> QED BY <1>2, <1>3, <1>4, EventKept DEF EventLists

-----------------------------------------------------------------------------
\* The kernel after a search that k' takes over.
LEMMA SearchLists ==
  ASSUME EventInvariant, NEW x, SearchKernel(x), Sound(k'), NEW t \in Thread,
         k'.stat = x.k.stat, k'.err = x.k.err, k'.wait = x.k.wait,
         Moves(EventPC, t), pc'[t] = pc[t] \/ {pc[t], pc'[t]} \cap EventWaits = {},
         k'.stat[k'.cur] = "READY" \/ (k'.cur = k.cur /\ pc'[k.cur] = pc[k.cur])
  PROVE  EventLists'
<1>1. /\ Sound(k) /\ k.cur \in Thread /\ pc \in [Thread -> EventPC]
      /\ Blocking(EventList, EventWaits) /\ IpcOK(EventPC, EventWaits, EventLeaving)
  BY EventKernel, CurThread DEF EventInvariant, IpcOK
<1>2. \A u \in Thread : \/ k'.stat[u] = k.stat[u]
                        \/ u \in Nodes(k.wait[EventList]) /\ k'.stat[u] = "READY"
  BY DEF SearchKernel
<1>3. \A u \in Thread : pc'[u] \in EventWaits <=> pc[u] \in EventWaits
  BY DEF Moves
<1>4. IpcOK(EventPC, EventWaits, EventLeaving)'
  <2>1. pc' \in [Thread -> EventPC]
    BY DEF Moves
  <2>2. \A u \in Thread : k'.stat[u] = "READY" \/ (k'.stat[u] = "SUSPEND" /\ pc'[u] \in EventWaits)
    BY <1>1, <1>2, <1>3 DEF IpcOK
  <2>3. k'.stat[k'.cur] = "READY" \/ pc'[k'.cur] \in EventLeaving
    BY <1>1, <1>2 DEF IpcOK
  <2> QED BY <2>1, <2>2, <2>3 DEF IpcOK
<1>5. Nodes(k'.wait[EventList]) = {u \in Thread : pc'[u] \in EventWaits /\ k'.stat[u] = "SUSPEND"}
  <2>1. Nodes(k'.wait[EventList]) = {u \in Nodes(k.wait[EventList]) : k'.stat[u] = "SUSPEND"}
    BY DEF SearchKernel
  <2>2. Nodes(k.wait[EventList]) = {u \in Thread : pc[u] \in EventWaits /\ k.stat[u] = "SUSPEND"}
    BY <1>1 DEF Blocking
  <2> QED BY <1>2, <1>3, <2>1, <2>2
<1>6. \A u \in Nodes(k'.wait[EventList]) : k'.err[u] = RT_EOK
  BY <1>1 DEF Blocking, SearchKernel
<1> QED BY <1>4, <1>5, <1>6 DEF EventLists, Blocking

\* The fields after a search.
LEMMA SearchInv ==
  ASSUME EventInvariant, NEW mask \in SUBSET Bits, SendOn(mask), phase # "gone",
         EventLists', NEW t \in Thread, Moves(EventPC, t),
         pc'[t] = pc[t] \/ {pc[t], pc'[t]} \cap EventWaits = {},
         k'.stat = Search(mask).k.stat, k'.err = Search(mask).k.err,
         k'.wait = Search(mask).k.wait
  PROVE  EventInvariant'
<1> DEFINE x == Search(mask)
           w == k.wait[EventList]
<1>1. SearchOK(x, mask, Len(w))
  BY SearchEnds
<1>2. set' = x.set /\ info' = x.info /\ phase' = phase /\ takes' = takes
      /\ sends' = Counted(sends, mask) /\ \A b \in mask : sends[b] < MaxSends
  BY DEF SendOn
<1>3. w \in Seq(Thread)
  BY EventKernel DEF EventInvariant
<1> HIDE DEF x
<1>4. EventFields'
  <2>1. Counted(sends, mask) \in [Bits -> 0 .. MaxSends]
    BY <1>2, EventAssumption DEF Counted, EventInvariant, EventFields
  <2> QED BY <1>1, <1>2, <2>1 DEF SearchOK, SearchFields, EventInvariant, EventFields
<1>5. Unsatisfied'
  <2> SUFFICES ASSUME NEW u \in Nodes(k'.wait[EventList])
               PROVE  ~Satisfied(x.info[u], x.set)
    BY <1>2 DEF Unsatisfied, Satisfied
  <2>1. u \in Nodes(w) /\ x.k.stat[u] = "SUSPEND"
    BY <1>1 DEF SearchOK, SearchKernel, x
  <2>2. PICK j \in 1 .. Len(w) : u = w[j]
    BY <1>3, <2>1 DEF Nodes
  <2>3. j <= Len(w)
    BY <1>3
  <2> QED BY <1>1, <2>1, <2>2, <2>3 DEF SearchOK, SearchPlace
<1>6. ASSUME NEW b \in Bits
      PROVE  takes'[b] + Cardinality(Owed(b)') + (IF b \in set' THEN 1 ELSE 0) <= sends'[b]
  <2>1. \A u \in Thread : pc'[u] \in EventWaits <=> pc[u] \in EventWaits
    BY DEF Moves
  <2>2. Owed(b)' = OwedAt(x, b)
    BY <1>2, <2>1 DEF Owed, OwedAt, Woken, EventWaits, x
  <2> QED BY <1>1, <1>2, <2>2 DEF SearchOK, SearchCount
<1> QED BY <1>4, <1>5, <1>6 DEF EventInvariant, ClearedOnce

LEMMA SendInv ==
  ASSUME EventInvariant, NEW t \in Thread, NEW mask \in Masks, rt_event_send(t, mask)
  PROVE  EventInvariant'
<1> DEFINE x == Search(mask)
<1>1. mask \in SUBSET Bits
  BY EventAssumption
<1>2. /\ At(t, "run") /\ "run" \notin EventLeaving /\ k' = x.k /\ SendOn(mask)
      /\ phase # "gone" /\ Goto(t, IF x.woke THEN "sched" ELSE "run")
      /\ IpcOK(EventPC, EventWaits, EventLeaving)
  BY EventKernel DEF rt_event_send, Enter, EventLeaving, EventInvariant
<1>3. t = k.cur /\ k.stat[t] = "READY" /\ pc[t] = "run"
  BY <1>2, RunnerReady
<1>4. Moves(EventPC, t) /\ pc'[t] \in {"run", "sched"}
  BY <1>2, GotoMoves DEF IpcOK, EventPC
<1>5. SearchKernel(x)
  BY <1>1, SearchEnds DEF SearchOK
<1> HIDE DEF x
<1>6. Sound(k') /\ k'.stat[k'.cur] = "READY"
  BY <1>2, <1>3, <1>5 DEF SearchKernel
<1>7. {pc[t], pc'[t]} \cap EventWaits = {}
  BY <1>3, <1>4 DEF EventWaits
<1>8. EventLists'
  BY <1>2, <1>4, <1>5, <1>6, <1>7, SearchLists
<1> QED BY <1>1, <1>2, <1>4, <1>7, <1>8, SearchInv DEF x

LEMMA IsrSendInv ==
  ASSUME EventInvariant, NEW mask \in Masks, IsrSend(mask)
  PROVE  EventInvariant'
<1> DEFINE x == Search(mask)
<1>1. mask \in SUBSET Bits
  BY EventAssumption
<1>2. /\ SendOn(mask) /\ phase # "gone" /\ pc' = pc
      /\ k' = (IF x.woke THEN rt_schedule(x.k) ELSE k)
      /\ IpcOK(EventPC, EventWaits, EventLeaving) /\ Sound(k)
  BY EventKernel DEF IsrSend, EventInvariant
<1>3. k.cur \in Thread
  BY <1>2, CurThread
<1>4. Moves(EventPC, k.cur) /\ pc'[k.cur] = pc[k.cur]
  BY <1>2, <1>3, StayMoves DEF IpcOK
<1>5. SearchKernel(x)
  BY <1>1, SearchEnds DEF SearchOK
<1> HIDE DEF x
<1>6. /\ Sound(k') /\ k'.stat = x.k.stat /\ k'.err = x.k.err /\ k'.wait = x.k.wait
      /\ k'.stat[k'.cur] = "READY" \/ k'.cur = k.cur
  <2>1. CASE x.woke
    <3>1. k' = rt_schedule(x.k) /\ Sound(x.k)
      BY <1>2, <1>5, <2>1 DEF SearchKernel
    <3>2. Sound(k') /\ Calm(k', x.k) /\ k'.stat[k'.cur] = "READY"
      BY <3>1, ScheduleCalm
    <3> QED BY <3>2 DEF Calm
  <2>2. CASE ~x.woke
    BY <1>2, <1>5, <2>2 DEF SearchKernel
  <2> QED BY <2>1, <2>2
<1>7. EventLists'
  BY <1>3, <1>4, <1>5, <1>6, SearchLists
<1> QED BY <1>1, <1>2, <1>3, <1>4, <1>6, <1>7, SearchInv DEF x

-----------------------------------------------------------------------------
\* rt_event_recv that does not wait: it has its error number set.
LEMMA RecvAtOnce ==
  ASSUME EventInvariant, NEW t \in Thread, At(t, "run"), NEW e \in ErrNo,
         k' = SetErr(k, t, e), pc' = pc
  PROVE  /\ EventLists' /\ k'.wait = k.wait
         /\ Woken(EventWaits)' = Woken(EventWaits)
<1>1. /\ Sound(k) /\ EventList \in WaitList /\ IpcOK(EventPC, EventWaits, EventLeaving)
      /\ Blocking(EventList, EventWaits) /\ "run" \notin EventLeaving /\ "run" \in EventPC
      /\ k \in KernelState
  BY EventKernel DEF EventInvariant, EventLeaving, EventPC
<1>2. Goto(t, "run")
  BY <1>1 DEF Goto, At, IpcOK
<1>3. k.stat[t] = "READY" /\ pc[t] = "run"
  BY <1>1, RunnerReady
<1>4. /\ IpcOK(EventPC, EventWaits, EventLeaving)' /\ Moves(EventPC, t)
      /\ Noted(k', k, t, e)
  BY <1>1, <1>2, NoteStep
<1>5. Blocking(EventList, EventWaits)'
  BY <1>1, <1>3, <1>4, NotedBlocking
<1>6. \A u \in Thread \ {t} : k'.stat[u] = k.stat[u] /\ k'.err[u] = k.err[u]
  BY <1>1, <1>4 DEF Noted, KernelState
<1>7. pc'[t] \notin EventWaits /\ t \notin Woken(EventWaits)
  BY <1>3 DEF EventWaits, Woken
<1>8. Woken(EventWaits)' = Woken(EventWaits) \ {t}
  BY <1>4, <1>6, <1>7, OwnWoken
<1> QED BY <1>4, <1>5, <1>7, <1>8 DEF EventLists, Noted

LEMMA RecvNowInv ==
  ASSUME EventInvariant, NEW t \in Thread, NEW mask \in Masks, NEW o \in Option,
         RecvNow(t, mask, o)
  PROVE  EventInvariant'
<1>1. /\ At(t, "run") /\ k' = SetErr(k, t, RT_EOK) /\ pc' = pc /\ RT_EOK \in ErrNo
      /\ set' = (IF o.clear THEN set \ mask ELSE set)
      /\ takes' = (IF o.clear THEN Counted(takes, set \cap mask) ELSE takes)
      /\ info' = info /\ phase' = phase /\ sends' = sends
  BY DEF RecvNow, Enter, ErrNo
<1>2. EventLists' /\ k'.wait = k.wait /\ Woken(EventWaits)' = Woken(EventWaits)
  BY <1>1, RecvAtOnce
<1>3. \A b \in Bits : /\ takes[b] \in Nat /\ sends[b] \in Nat
                      /\ takes'[b] = IF o.clear /\ b \in set \cap mask
                                     THEN takes[b] + 1 ELSE takes[b]
  BY <1>1, EventAssumption DEF EventInvariant, EventFields, Counted
<1>4. takes' \in [Bits -> Nat]
  BY <1>1 DEF EventInvariant, EventFields, Counted
<1>5. EventFields'
  BY <1>1, <1>4 DEF EventInvariant, EventFields
<1>6. Unsatisfied'
  <2>1. set' \subseteq set
    BY <1>1
  <2>2. ASSUME NEW u \in Nodes(k'.wait[EventList])
        PROVE  phase' # "gone" /\ ~Satisfied(info'[u], set')
    BY <1>1, <1>2, <2>1, SatisfiedLess DEF EventInvariant, Unsatisfied
  <2> QED BY <2>2 DEF Unsatisfied, Satisfied
<1>7. ASSUME NEW b \in Bits
      PROVE  takes'[b] + Cardinality(Owed(b)') + (IF b \in set' THEN 1 ELSE 0) <= sends'[b]
  <2>1. Owed(b)' = Owed(b)
    BY <1>1, <1>2 DEF Owed, EventWaits
  <2>2. Cardinality(Owed(b)) \in Nat
    BY <2>1, OwedLess
  <2>3. takes[b] + Cardinality(Owed(b)) + (IF b \in set THEN 1 ELSE 0) <= sends[b]
    BY DEF EventInvariant, ClearedOnce
  <2>4. CASE o.clear /\ b \in set \cap mask
    <3>1. b \in set /\ b \notin set' /\ takes'[b] = takes[b] + 1
      BY <1>1, <1>3, <2>4
    <3> QED BY <1>1, <1>3, <2>1, <2>2, <2>3, <3>1
  <2>5. CASE ~(o.clear /\ b \in set \cap mask)
    <3>1. (b \in set <=> b \in set') /\ takes'[b] = takes[b]
      BY <1>1, <1>3, <2>5
    <3> QED BY <1>1, <1>3, <2>1, <2>2, <2>3, <3>1
  <2> QED BY <2>4, <2>5
<1> QED BY <1>2, <1>5, <1>6, <1>7 DEF EventInvariant, ClearedOnce

LEMMA RecvTryInv ==
  ASSUME EventInvariant, NEW t \in Thread, NEW mask, NEW o, RecvTry(t, mask, o)
  PROVE  EventInvariant'
<1>1. /\ At(t, "run") /\ k' = SetErr(k, t, RT_ETIMEOUT) /\ pc' = pc /\ RT_ETIMEOUT \in ErrNo
      /\ UNCHANGED <<set, info, phase, sends, takes>>
  BY DEF RecvTry, Enter, ErrNo
<1>2. EventLists' /\ k'.wait = k.wait /\ Woken(EventWaits)' = Woken(EventWaits)
  BY <1>1, RecvAtOnce
<1> QED BY <1>1, <1>2, EventKept

LEMMA RecvWaitInv ==
  ASSUME EventInvariant, NEW t \in Thread, NEW mask \in Masks, NEW o \in Option, NEW time,
         RecvWait(t, mask, o, time)
  PROVE  EventInvariant'
<1> DEFINE i == [set |-> mask, all |-> o.all, clear |-> o.clear]
           x == Position(k, EventList, t, Flag)
<1>1. /\ At(t, "run") /\ t # Idle /\ "run" \notin EventLeaving
      /\ EventList \in WaitList \ {Defunct} /\ EventList \in WaitList /\ Sound(k)
      /\ k' = Block(k, EventList, t, Flag, time) /\ Goto(t, "waiting")
      /\ "waiting" \in EventPC \cap EventWaits \cap EventLeaving
      /\ IpcOK(EventPC, EventWaits, EventLeaving) /\ phase = "live"
      /\ Blocking(EventList, EventWaits) /\ k \in KernelState
  BY EventKernel, EventAssumption
     DEF RecvWait, Enter, EventLeaving, EventWaits, EventPC, EventInvariant
<1>2. /\ ~Satisfied(i, set) /\ info' = [info EXCEPT ![t] = i]
      /\ set' = set /\ phase' = phase /\ sends' = sends /\ takes' = takes
  BY DEF RecvWait
<1>3. i \in Info
  BY EventAssumption DEF Info, Option
<1> HIDE DEF x, i
<1>4. /\ IpcOK(EventPC, EventWaits, EventLeaving)' /\ k.stat[t] = "READY" /\ Moves(EventPC, t)
      /\ pc[t] = "run" /\ pc'[t] = "waiting" /\ BlockedAt(k', k, EventList, t, x)
      /\ Place(k, EventList, x)
  BY <1>1, BlockStep DEF x
<1>5. Blocking(EventList, EventWaits)'
  BY <1>1, <1>4, BlockedBlocking DEF EventWaits
<1>6. \A u : u \in Nodes(k'.wait[EventList]) <=> u \in Nodes(k.wait[EventList]) \/ u = t
  BY <1>1, <1>4, BlockedList
<1>7. /\ k'.stat[t] = "SUSPEND"
      /\ \A u \in Thread \ {t} : k'.stat[u] = k.stat[u] /\ k'.err[u] = k.err[u]
  BY <1>1, <1>4 DEF BlockedAt, KernelState
<1>8. Woken(EventWaits)' = Woken(EventWaits) \ {t} /\ t \notin Woken(EventWaits)'
  BY <1>4, <1>7, OwnWoken
<1>9. info'[t] = i /\ (\A u \in Thread \ {t} : info'[u] = info[u]) /\ info' \in [Thread -> Info]
  BY <1>2, <1>3 DEF EventInvariant, EventFields
<1>10. EventFields'
  BY <1>2, <1>9 DEF EventInvariant, EventFields
<1>11. Unsatisfied'
  <2>1. ASSUME NEW u \in Nodes(k'.wait[EventList])
        PROVE  ~Satisfied(info'[u], set')
    <3>1. CASE u = t
      BY <1>2, <1>9, <3>1
    <3>2. CASE u # t
      <4>1. u \in Nodes(k.wait[EventList]) /\ u \in Thread
        BY <1>1, <1>6, <3>2 DEF Blocking
      <4> QED BY <1>2, <1>9, <3>2, <4>1 DEF EventInvariant, Unsatisfied
    <3> QED BY <3>1, <3>2
  <2> QED BY <1>1, <1>2, <2>1 DEF Unsatisfied, Satisfied
<1>12. ASSUME NEW b \in Bits
       PROVE  takes'[b] + Cardinality(Owed(b)') + (IF b \in set' THEN 1 ELSE 0) <= sends'[b]
  <2>1. Owed(b)' \subseteq Owed(b)
    <3>1. Woken(EventWaits) \subseteq Thread
      BY DEF Woken
    <3> QED BY <1>8, <1>9, <3>1 DEF Owed, EventWaits
  <2>2. /\ Cardinality(Owed(b)) \in Nat /\ Cardinality(Owed(b)') \in Nat
        /\ Cardinality(Owed(b)') <= Cardinality(Owed(b))
    BY <2>1, OwedLess
  <2>3. takes[b] \in Nat /\ sends[b] \in Nat
    BY EventAssumption DEF EventInvariant, EventFields
  <2>4. takes[b] + Cardinality(Owed(b)) + (IF b \in set THEN 1 ELSE 0) <= sends[b]
    BY DEF EventInvariant, ClearedOnce
  <2> QED BY <1>2, <2>2, <2>3, <2>4
<1> QED BY <1>4, <1>5, <1>10, <1>11, <1>12 DEF EventInvariant, EventLists, ClearedOnce

LEMMA RecvReturnInv ==
  ASSUME EventInvariant, NEW t \in Thread, RecvReturn(t)
  PROVE  EventInvariant'
<1>1. /\ At(t, "woken") /\ "woken" \notin EventLeaving /\ Goto(t, "run") /\ "run" \in EventPC
      /\ k' = k /\ IpcOK(EventPC, EventWaits, EventLeaving)
      /\ Blocking(EventList, EventWaits) /\ "run" \notin EventWaits
  BY EventKernel DEF RecvReturn, EventLeaving, EventWaits, EventPC, EventInvariant
<1>2. /\ takes' = (IF k.err[t] = RT_EOK /\ info[t].clear
                   THEN Counted(takes, info[t].set) ELSE takes)
      /\ info' = [info EXCEPT ![t] = NoInfo]
      /\ set' = set /\ phase' = phase /\ sends' = sends
  BY DEF RecvReturn
<1>3. /\ IpcOK(EventPC, EventWaits, EventLeaving)' /\ Moves(EventPC, t) /\ Calm(k', k)
      /\ pc'[t] = "run"
  BY <1>1, StillStep
<1>4. k.stat[t] = "READY" /\ pc[t] = "woken"
  BY <1>1, RunnerReady
<1>5. Blocking(EventList, EventWaits)'
  BY <1>1, <1>3, <1>4, CalmBlocking
<1>6. Woken(EventWaits)' = Woken(EventWaits) \ {t}
  BY <1>1, <1>3, LeaveWoken
<1>7. t \in Woken(EventWaits) <=> k.err[t] = RT_EOK
  BY <1>4 DEF Woken, EventWaits
<1>8. /\ NoInfo \in Info /\ info'[t] = NoInfo /\ info' \in [Thread -> Info]
      /\ \A u \in Thread \ {t} : info'[u] = info[u]
  BY <1>2 DEF NoInfo, Info, EventInvariant, EventFields
<1>9. /\ takes' \in [Bits -> Nat]
      /\ \A b \in Bits : takes'[b] = IF k.err[t] = RT_EOK /\ info[t].clear /\ b \in info[t].set
                                     THEN takes[b] + 1 ELSE takes[b]
  BY <1>2 DEF EventInvariant, EventFields, Counted
<1>10. EventFields'
  BY <1>2, <1>8, <1>9 DEF EventInvariant, EventFields
<1>11. Unsatisfied'
  <2>1. ASSUME NEW u \in Nodes(k'.wait[EventList])
        PROVE  phase' # "gone" /\ ~Satisfied(info'[u], set')
    <3>1. u \in Nodes(k.wait[EventList]) /\ u \in Thread /\ u # t
      BY <1>1, <1>4 DEF Blocking
    <3> QED BY <1>2, <1>8, <3>1 DEF EventInvariant, Unsatisfied
  <2> QED BY <2>1 DEF Unsatisfied, Satisfied
<1>12. ASSUME NEW b \in Bits
       PROVE  takes'[b] + Cardinality(Owed(b)') + (IF b \in set' THEN 1 ELSE 0) <= sends'[b]
  <2>0. Woken(EventWaits) \subseteq Thread
    BY DEF Woken
  <2>1. Owed(b)' = Owed(b) \ {t}
    BY <1>6, <1>8, <2>0 DEF Owed, EventWaits
  <2>2. t \in Owed(b) <=> k.err[t] = RT_EOK /\ info[t].clear /\ b \in info[t].set
    BY <1>7 DEF Owed, EventWaits
  <2>3. takes[b] \in Nat /\ sends[b] \in Nat
    BY EventAssumption DEF EventInvariant, EventFields
  <2>4. takes[b] + Cardinality(Owed(b)) + (IF b \in set THEN 1 ELSE 0) <= sends[b]
    BY DEF EventInvariant, ClearedOnce
  <2>5. Cardinality(Owed(b)) \in Nat /\ IsFiniteSet(Owed(b))
    BY WokenFinite, FS_Subset, FS_CardinalityType DEF Owed
  <2>6. CASE t \in Owed(b)
    <3>1. Cardinality(Owed(b)') = Cardinality(Owed(b)) - 1 /\ takes'[b] = takes[b] + 1
      BY <1>9, <2>1, <2>2, <2>5, <2>6, FS_RemoveElement
    <3> QED BY <1>2, <2>3, <2>4, <2>5, <3>1
  <2>7. CASE t \notin Owed(b)
    <3>1. Owed(b)' = Owed(b) /\ takes'[b] = takes[b]
      BY <1>9, <2>1, <2>2, <2>7
    <3> QED BY <1>2, <2>3, <2>4, <2>5, <3>1
  <2> QED BY <2>6, <2>7
<1> QED BY <1>3, <1>5, <1>10, <1>11, <1>12 DEF EventInvariant, EventLists, ClearedOnce

-----------------------------------------------------------------------------
\* The steps of a thread that only change its control point.
LEMMA StillEvent ==
  ASSUME EventInvariant, NEW t \in Thread, NEW l, At(t, l), l \notin EventWaits, k' = k,
         NEW m \in EventPC \ EventWaits, Goto(t, m)
  PROVE  /\ EventLists' /\ k'.wait = k.wait
         /\ Woken(EventWaits)' = Woken(EventWaits)
<1>1. IpcOK(EventPC, EventWaits, EventLeaving) /\ l \notin EventLeaving
  BY EventKernel DEF EventInvariant, EventWaits, EventLeaving
<1>2. /\ IpcOK(EventPC, EventWaits, EventLeaving)' /\ Moves(EventPC, t) /\ Calm(k', k)
      /\ pc[t] = l /\ pc'[t] = m
  BY <1>1, StillStep DEF At
<1> QED BY <1>2, CalmEvent DEF EventInvariant

LEMMA ResetThreadInv ==
  ASSUME EventInvariant, NEW t \in Thread, ResetThread(t)
  PROVE  EventInvariant'
<1> DEFINE u == Head(k.wait[EventList])
<1>1. /\ IpcOK(EventPC, EventWaits, EventLeaving) /\ EventList \in WaitList \ {Defunct}
      /\ Sound(k) /\ At(t, "reset") /\ "reset" \notin EventLeaving
      /\ k.wait[EventList] # <<>> /\ pc' = pc
      /\ k' = rt_ipc_list_resume_error(k, EventList)
  BY EventKernel DEF ResetThread, EventLeaving, EventInvariant
<1>2. u \in Thread /\ k.stat[u] = "SUSPEND"
  BY <1>1, HeadSuspended
<1>3. Sound(k') /\ k'.cur = k.cur /\ Roused(k', k, u, RT_ERROR)
  BY <1>1, ListResumeErrorRouses
<1> HIDE DEF u
<1>4. Goto(t, "reset") /\ "reset" \in EventPC
  BY <1>1 DEF Goto, At, IpcOK, EventPC
<1>5. IpcOK(EventPC, EventWaits, EventLeaving)' /\ Moves(EventPC, t)
  BY <1>1, <1>2, <1>3, <1>4, RouseStep
<1>6. RT_ERROR # RT_EOK /\ UNCHANGED <<set, info, phase, sends, takes>>
  BY DEF RT_ERROR, RT_EOK, ResetThread
<1> QED BY <1>1, <1>2, <1>3, <1>5, <1>6, FailedEvent

LEMMA ResetDeleteInv ==
  ASSUME EventInvariant, NEW t \in Thread,
         ResetCall(t) \/ ResetEnd(t) \/ DeleteCall(t) \/ DeleteCheck(t)
  PROVE  EventInvariant'
<1>1. CASE ResetCall(t)
  <2>1. EventLists' /\ k'.wait = k.wait /\ Woken(EventWaits)' = Woken(EventWaits)
    BY <1>1, StillEvent DEF ResetCall, Enter, EventWaits, EventPC
  <2> QED BY <1>1, <2>1, EventKept DEF ResetCall
<1>2. CASE ResetEnd(t)
  <2>1. EventLists' /\ k'.wait = k.wait /\ Woken(EventWaits)' = Woken(EventWaits)
    BY <1>2, StillEvent DEF ResetEnd, EventWaits, EventPC
  <2>2. EventFields'
    BY <1>2 DEF ResetEnd, EventInvariant, EventFields
  <2>3. Unsatisfied'
    <3>1. Nodes(k'.wait[EventList]) = {}
      BY <1>2, <2>1 DEF ResetEnd, Nodes
    <3> QED BY <3>1 DEF Unsatisfied
  <2>4. ASSUME NEW b \in Bits
        PROVE  takes'[b] + Cardinality(Owed(b)') + (IF b \in set' THEN 1 ELSE 0) <= sends'[b]
    <3>1. Owed(b)' = Owed(b)
      BY <1>2, <2>1 DEF ResetEnd, Owed, EventWaits
    <3>2. Cardinality(Owed(b)) \in Nat
      BY <3>1, OwedLess
    <3>3. takes[b] + Cardinality(Owed(b)) + (IF b \in set THEN 1 ELSE 0) <= sends[b]
      BY DEF EventInvariant, ClearedOnce
    <3>4. takes[b] \in Nat /\ sends[b] \in Nat
      BY EventAssumption DEF EventInvariant, EventFields
    <3>5. set' = {} /\ takes' = takes /\ sends' = sends
      BY <1>2 DEF ResetEnd
    <3> QED BY <3>1, <3>2, <3>3, <3>4, <3>5
  <2> QED BY <2>1, <2>2, <2>3, <2>4 DEF EventInvariant, ClearedOnce
<1>3. CASE DeleteCall(t)
  <2>1. EventLists' /\ k'.wait = k.wait /\ Woken(EventWaits)' = Woken(EventWaits)
    BY <1>3, StillEvent DEF DeleteCall, Enter, EventWaits, EventPC
  <2>2. EventFields' /\ Unsatisfied'
    BY <1>3, <2>1 DEF DeleteCall, EventInvariant, EventFields, Unsatisfied, Satisfied
  <2>3. ClearedOnce'
    BY <1>3, <2>1 DEF DeleteCall, EventInvariant, ClearedOnce, Owed, EventWaits
  <2> QED BY <2>1, <2>2, <2>3 DEF EventInvariant
<1>4. CASE DeleteCheck(t)
  <2>0. /\ At(t, "closing") /\ UNCHANGED <<k, set, info, sends, takes>>
        /\ \/ Goto(t, "closing_do") /\ phase' = phase
           \/ Goto(t, "run") /\ phase' = "gone" /\ k.wait[EventList] = <<>>
    BY <1>4 DEF DeleteCheck
  <2>1. EventLists' /\ k'.wait = k.wait /\ Woken(EventWaits)' = Woken(EventWaits)
    BY <2>0, StillEvent DEF EventWaits, EventPC
  <2>2. EventFields'
    BY <2>0 DEF EventInvariant, EventFields
  <2>3. Unsatisfied'
    <3>1. CASE phase' = phase
      BY <2>0, <3>1 DEF EventInvariant, Unsatisfied, Satisfied
    <3>2. CASE k.wait[EventList] = <<>>
      BY <2>0, <3>2 DEF Nodes, Unsatisfied
    <3> QED BY <2>0, <3>1, <3>2
  <2>4. ClearedOnce'
    BY <2>0, <2>1 DEF EventInvariant, ClearedOnce, Owed, EventWaits
  <2> QED BY <2>1, <2>2, <2>3, <2>4 DEF EventInvariant
<1> QED BY <1>1, <1>2, <1>3, <1>4

LEMMA DeleteTurnInv ==
  ASSUME EventInvariant, NEW t \in Thread, DeleteTurn(t)
  PROVE  EventInvariant'
<1> DEFINE u == Head(k.wait[EventList])
<1>1. /\ IpcOK(EventPC, EventWaits, EventLeaving) /\ EventList \in WaitList \ {Defunct}
      /\ EventLists /\ "closing_do" \notin EventLeaving /\ {"closing", "crashed"} \subseteq EventPC
      /\ ResumeAllTurn(t, EventList, "closing_do", "closing")
      /\ UNCHANGED <<set, info, phase, sends, takes>>
  BY EventKernel DEF DeleteTurn, EventLeaving, EventPC, EventInvariant
<1>2. /\ IpcOK(EventPC, EventWaits, EventLeaving)' /\ Moves(EventPC, t) /\ pc[t] = "closing_do"
      /\ \/ /\ Roused(k', k, u, RT_ERROR) /\ pc'[t] = "closing"
            /\ u \in Thread /\ k.stat[u] = "SUSPEND"
         \/ Calm(k', k) /\ pc'[t] = "crashed"
  BY <1>1, ResumeAllStep
<1> HIDE DEF u
<1>3. (pc[t] \in EventWaits <=> pc'[t] \in EventWaits) /\ RT_ERROR # RT_EOK
  BY <1>2 DEF EventWaits, RT_ERROR, RT_EOK
<1>4. CASE Calm(k', k)
  BY <1>1, <1>2, <1>3, <1>4, CalmEvent, EventKept
<1>5. CASE Roused(k', k, u, RT_ERROR) /\ u \in Thread /\ k.stat[u] = "SUSPEND"
  BY <1>1, <1>2, <1>3, <1>5, FailedEvent
<1> QED BY <1>2, <1>4, <1>5

LEMMA EventKernelSteps ==
  ASSUME EventInvariant, UNCHANGED <<set, info, phase, sends, takes>>,
         \/ TickSlice
         \/ \E t \in Thread : \/ Schedule(t, "waiting", "woken") \/ Schedule(t, "sched", "run")
                              \/ TickTimeout(t)
  PROVE  EventInvariant'
<1>1. IpcOK(EventPC, EventWaits, EventLeaving) /\ EventLists
  BY EventKernel DEF EventInvariant
<1>2. CASE TickSlice
  <2>1. /\ IpcOK(EventPC, EventWaits, EventLeaving)' /\ k.cur \in Thread
        /\ Moves(EventPC, k.cur) /\ Calm(k', k) /\ pc' = pc
    BY <1>1, <1>2, SliceStep
  <2> QED BY <1>1, <2>1, CalmEvent, EventKept
<1>3. ASSUME NEW t \in Thread, Schedule(t, "waiting", "woken") \/ Schedule(t, "sched", "run")
      PROVE  EventInvariant'
  <2>1. /\ IpcOK(EventPC, EventWaits, EventLeaving)' /\ Moves(EventPC, t) /\ Calm(k', k)
        /\ pc[t] \in EventWaits <=> pc'[t] \in EventWaits
    BY <1>1, <1>3, ScheduleStep DEF EventPC, EventWaits, EventLeaving
  <2> QED BY <1>1, <2>1, CalmEvent, EventKept
<1>4. ASSUME NEW t \in Thread, TickTimeout(t) PROVE EventInvariant'
  <2>1. /\ IpcOK(EventPC, EventWaits, EventLeaving)' /\ Moves(EventPC, t)
        /\ Roused(k', k, t, RT_ETIMEOUT) /\ k.stat[t] = "SUSPEND" /\ pc' = pc
    BY <1>1, <1>4, TimeoutStep
  <2>2. RT_ETIMEOUT # RT_EOK
    BY DEF RT_ETIMEOUT, RT_EOK
  <2> QED BY <2>1, <2>2, FailedEvent
<1> QED BY <1>2, <1>3, <1>4

LEMMA EventStutter == EventInvariant /\ UNCHANGED eventVars => EventInvariant'
<1> SUFFICES ASSUME EventInvariant, UNCHANGED eventVars PROVE EventInvariant'
  OBVIOUS
<1>1. /\ UNCHANGED <<set, info, phase, sends, takes>> /\ k' = k /\ pc' = pc
  BY DEF eventVars
<1>2. EventLists' /\ Woken(EventWaits)' = Woken(EventWaits)
  BY <1>1 DEF EventInvariant, EventLists, IpcOK, Blocking, Woken
<1> QED BY <1>1, <1>2, EventKept

LEMMA EventStart == EventInit => EventInvariant
<1> SUFFICES ASSUME EventInit PROVE EventInvariant
  OBVIOUS
<1>1. "run" \in EventPC /\ "run" \notin EventWaits /\ EventList \in WaitList /\ IpcInit
  BY EventAssumption DEF EventPC, EventWaits, EventInit
<1>2. /\ IpcOK(EventPC, EventWaits, EventLeaving) /\ k.wait[EventList] = <<>>
      /\ Blocking(EventList, EventWaits) /\ Woken(EventWaits) = {}
  BY <1>1, IpcStart
<1>3. EventFields
  BY EventAssumption DEF EventInit, EventFields, Info, NoInfo
<1>4. Unsatisfied
  BY <1>2 DEF Unsatisfied, Nodes
<1>5. ClearedOnce
  <2> SUFFICES ASSUME NEW b \in Bits
               PROVE  takes[b] + Cardinality(Owed(b)) + (IF b \in set THEN 1 ELSE 0) <= sends[b]
    BY DEF ClearedOnce
  <2>1. Owed(b) = {}
    BY <1>2 DEF Owed, EventWaits
  <2>2. Cardinality(Owed(b)) = 0
    BY <2>1, FS_EmptySet
  <2>3. takes[b] = 0 /\ sends[b] = 0 /\ b \notin set
    BY DEF EventInit
  <2> QED BY <2>2, <2>3
<1> QED BY <1>2, <1>3, <1>4, <1>5 DEF EventInvariant, EventLists

LEMMA EventStep == EventInvariant /\ EventNext => EventInvariant'
<1> SUFFICES ASSUME EventInvariant, EventNext PROVE EventInvariant'
  OBVIOUS
<1>1. ASSUME NEW t \in Thread, NEW mask \in Masks, rt_event_send(t, mask)
      PROVE  EventInvariant'
  BY <1>1, SendInv
<1>2. ASSUME NEW t \in Thread, NEW mask \in Masks, NEW o \in Option,
             \/ RecvNow(t, mask, o) \/ RecvTry(t, mask, o)
             \/ \E time \in EventTimes : RecvWait(t, mask, o, time)
      PROVE  EventInvariant'
  BY <1>2, RecvNowInv, RecvTryInv, RecvWaitInv
<1>3. ASSUME NEW t \in Thread, RecvReturn(t) \/ ResetThread(t) \/ DeleteTurn(t)
      PROVE  EventInvariant'
  BY <1>3, RecvReturnInv, ResetThreadInv, DeleteTurnInv
<1>4. ASSUME NEW t \in Thread, ResetCall(t) \/ ResetEnd(t) \/ DeleteCall(t) \/ DeleteCheck(t)
      PROVE  EventInvariant'
  BY <1>4, ResetDeleteInv
<1>5. ASSUME NEW mask \in IsrMasks, IsrSend(mask) PROVE EventInvariant'
  <2>1. mask \in Masks
    BY EventAssumption
  <2> QED BY <1>5, <2>1, IsrSendInv
<1> QED BY <1>1, <1>2, <1>3, <1>4, <1>5, EventKernelSteps DEF EventNext

\* The inductive invariant of the event object: the list holds exactly the threads that
\* are blocked in rt_event_recv, none of them is satisfied by the flags that are set,
\* and no flag was received more often than it was sent.
THEOREM EventInvariance == EventSpec => []EventInvariant
<1>1. EventInit => EventInvariant
  BY EventStart
<1>2. EventInvariant /\ [EventNext]_eventVars => EventInvariant'
  BY EventStep, EventStutter
<1> QED BY <1>1, <1>2, PTL DEF EventSpec

\* rt_event_send wakes every thread it satisfies, however many flags the threads
\* it wakes first clear, and nobody is left waiting for an object that is gone.
THEOREM EventWakeupCorrect == EventSpec => []NoSatisfiedWaiter
<1>1. EventInvariant => NoSatisfiedWaiter
  BY EventKernel DEF EventInvariant, EventFields, Unsatisfied, NoSatisfiedWaiter, EventTypeOK,
     IpcOK
<1> QED BY <1>1, EventInvariance, PTL

\* A flag sent once is received by at most one thread that clears it, whatever
\* masks, time-outs and resets come between.
THEOREM ClearedOnceCorrect == EventSpec => []ClearedOnce
<1>1. EventInvariant => ClearedOnce
  BY DEF EventInvariant
<1> QED BY <1>1, EventInvariance, PTL

=============================================================================
