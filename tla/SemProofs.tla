----------------------------- MODULE SemProofs ------------------------------
(***************************************************************************)
(* The safety properties of the semaphore, for every number of threads,    *)
(* every list flag, initial value and width of the counter.                *)
(*                                                                         *)
(* None of them is inductive alone.  The count of tokens changes when the  *)
(* head of the list is resumed, so it needs the list to hold suspended     *)
(* threads inside rt_sem_take without an error number (Blocking), and that *)
(* needs every thread to be suspended only inside a call (IpcOK).          *)
(*                                                                         *)
(* Behind the semaphore come the proofs about the work queue with the      *)
(* asynchronous requests, and about the software timers.                   *)
(***************************************************************************)
EXTENDS Sem, Aio, SoftTimer, IpcProofs

Suspends == {"waiting", "woken", "sleeping", "slept"}
Leaving  == {"waiting", "sleeping"}
Waits    == {"waiting", "woken"}

Lists ==
  /\ IpcOK(PC, Suspends, Leaving) /\ Blocking(SemList, Waits)
  /\ Flag = "PRIO" => Ascending(waiters, k.prio)

Fields ==
  /\ value \in 0 .. (Modulus - 1) /\ life \in {"live", "closing", "gone"}
  /\ balance \in Int

Counted == (balance - value - Cardinality(Granted)) % Modulus = 0

Inv == Lists /\ Fields /\ (life = "gone" => waiters = <<>>) /\ NoLostWakeup /\ Counted

-----------------------------------------------------------------------------
(* What a step of the kernel does to the list and to the granted tokens. *)

LEMMA SemLists ==
  ASSUME Lists
  PROVE  /\ SemList \in WaitList \ {Defunct} /\ SemList \in WaitList
         /\ IpcOK(PC, Suspends, Leaving) /\ Sound(k) /\ k \in KernelState
         /\ waiters \in Seq(Thread)
<1>1. Sound(k) /\ SemList \in WaitList
  BY SemAssumption DEF Lists, IpcOK
<1> QED BY <1>1, SemAssumption DEF Lists, Sound, KernelInv, KernelState, waiters

LEMMA CalmLists ==
  ASSUME Lists, IpcOK(PC, Suspends, Leaving)', NEW t \in Thread, Moves(PC, t), Calm(k', k),
         pc[t] \in Waits <=> pc'[t] \in Waits
  PROVE  Lists' /\ waiters' = waiters /\ Granted' = Granted
<1>1. Blocking(SemList, Waits)'
  BY CalmBlocking DEF Lists
<1>2. waiters' = waiters /\ k'.prio = k.prio
  BY DEF Calm, waiters
<1>3. Granted' = Granted
  BY CalmWoken DEF Granted, Waits
<1> QED BY <1>1, <1>2, <1>3 DEF Lists

LEMMA RousedListsOK ==
  ASSUME Lists, IpcOK(PC, Suspends, Leaving)', NEW t \in Thread, Moves(PC, t),
         NEW u \in Thread, NEW e, Roused(k', k, u, e), k.stat[u] = "SUSPEND",
         pc[t] \in Waits <=> pc'[t] \in Waits
  PROVE  /\ Lists' /\ (waiters = <<>> => waiters' = <<>>)
         /\ e # RT_EOK => Granted' = Granted
         /\ pc'[u] \in Waits /\ e = RT_EOK =>
              Granted' = Granted \cup {u} /\ u \notin Granted
<1>1. Blocking(SemList, Waits)'
  BY SemLists, RousedBlocking DEF Lists
<1>2. /\ waiters = <<>> => waiters' = <<>>
      /\ Ascending(waiters, k.prio) => Ascending(waiters', k'.prio)
  BY SemLists, RousedLists DEF waiters
<1>3. Granted = Woken(Waits) /\ Granted' = Woken(Waits)'
  BY DEF Granted, Waits
<1>4. /\ u \notin Woken(Waits)
      /\ pc'[u] \in Waits /\ e = RT_EOK => Woken(Waits)' = Woken(Waits) \cup {u}
      /\ pc'[u] \notin Waits \/ e # RT_EOK => Woken(Waits)' = Woken(Waits)
  BY SemLists, RousedWoken
<1> QED BY <1>1, <1>2, <1>3, <1>4 DEF Lists

\* The head of the list is a thread in rt_sem_take that has no error number.
LEMMA HeadWaits ==
  ASSUME Lists, waiters # <<>>
  PROVE  /\ Head(waiters) \in Thread /\ k.stat[Head(waiters)] = "SUSPEND"
         /\ pc[Head(waiters)] \in Waits /\ k.err[Head(waiters)] = RT_EOK
  BY SemLists, HeadSuspended DEF Lists, Blocking, waiters

-----------------------------------------------------------------------------
LEMMA InitInv == Init => Inv
<1> SUFFICES ASSUME Init PROVE Inv
  OBVIOUS
<1>1. "run" \in PC /\ "run" \notin Waits /\ SemList \in WaitList /\ IpcInit
  BY SemAssumption DEF PC, Waits, Init
<1>2. /\ IpcOK(PC, Suspends, Leaving) /\ waiters = <<>>
      /\ Blocking(SemList, Waits) /\ Woken(Waits) = {}
  BY <1>1, IpcStart DEF waiters
<1>3. Cardinality(Granted) = 0
  BY <1>2, WokenFinite DEF Granted, Waits
<1>4. Fields /\ Counted
  BY <1>3, SemAssumption DEF Fields, Counted, Init
<1>5. Ascending(waiters, k.prio)
  BY <1>2 DEF Ascending
<1> QED BY <1>2, <1>4, <1>5 DEF Inv, Lists, NoLostWakeup

\* The steps that leave the semaphore's fields alone.
LEMMA ObjSame ==
  ASSUME Inv, UNCHANGED obj, Lists', waiters = <<>> => waiters' = <<>>, Granted' = Granted
  PROVE  Inv'
  BY DEF Inv, Fields, NoLostWakeup, Counted, obj

LEMMA TakeNowInv == ASSUME Inv, NEW t \in Thread, TakeNow(t) PROVE Inv'
<1>1. Lists' /\ waiters' = waiters /\ Granted' = Granted
  BY DEF Inv, Lists, IpcOK, Blocking, waiters, Granted, Woken, TakeNow
<1>2. Cardinality(Granted) \in Nat
  BY WokenFinite DEF Granted
<1>3. balance' - value' - Cardinality(Granted) = balance - value - Cardinality(Granted)
  BY <1>2, SemAssumption DEF Inv, Fields, TakeNow
<1>4. Fields'
  BY SemAssumption DEF Inv, Fields, TakeNow
<1> QED BY <1>1, <1>3, <1>4 DEF Inv, Counted, NoLostWakeup, TakeNow

LEMMA TakeWaitInv ==
  ASSUME Inv, NEW t \in Thread, NEW time, TakeWait(t, time) PROVE Inv'
<1> DEFINE x == Position(k, SemList, t, Flag)
<1>1. At(t, "run") /\ t # Idle /\ "run" \notin Leaving /\ SemList \in WaitList \ {Defunct}
  BY SemLists DEF TakeWait, Leaving, Inv
<1>2. /\ k' = Block(k, SemList, t, Flag, time) /\ Goto(t, "waiting")
      /\ "waiting" \in PC \cap Suspends \cap Leaving /\ IpcOK(PC, Suspends, Leaving)
  BY DEF TakeWait, PC, Suspends, Leaving, Inv, Lists
<1>3. /\ IpcOK(PC, Suspends, Leaving)' /\ k.stat[t] = "READY" /\ Moves(PC, t)
      /\ pc'[t] = "waiting" /\ BlockedAt(k', k, SemList, t, x) /\ Place(k, SemList, x)
  BY <1>1, <1>2, BlockStep
<1>4. Sound(k) /\ SemList \in WaitList /\ k \in KernelState
  BY SemLists DEF Inv
<1>5. Blocking(SemList, Waits)'
  <2>1. Blocking(SemList, Waits) /\ pc'[t] \in Waits
    BY <1>3 DEF Inv, Lists, Waits
  <2> HIDE DEF x
  <2> QED BY <1>3, <1>4, <2>1, BlockedBlocking
<1>6. ASSUME Flag = "PRIO" PROVE Ascending(waiters', k'.prio)
  <2>1. Ascending(k.wait[SemList], k.prio)
    BY <1>6 DEF Inv, Lists, waiters
  <2>2. BlockedAt(k', k, SemList, t, Position(k, SemList, t, "PRIO"))
    BY <1>3, <1>6
  <2>3. Ascending(k'.wait[SemList], k'.prio)
    BY <1>3, <1>4, <2>1, <2>2, BlockedAscending
  <2> QED BY <2>3 DEF waiters
<1>7. Granted' = Granted
  <2>1. /\ k'.stat[t] = "SUSPEND"
        /\ \A u \in Thread \ {t} : k'.stat[u] = k.stat[u] /\ k'.err[u] = k.err[u]
    BY <1>3, <1>4 DEF BlockedAt, KernelState
  <2>2. Woken(Waits)' = Woken(Waits) \ {t}
    BY <1>3, <2>1, OwnWoken
  <2>3. t \notin Woken(Waits)
    BY <1>1 DEF Woken, At, Waits
  <2> QED BY <2>2, <2>3 DEF Granted, Waits
<1>8. Lists'
  BY <1>3, <1>5, <1>6 DEF Lists
<1> QED BY <1>7, <1>8 DEF Inv, Fields, NoLostWakeup, Counted, TakeWait, obj

LEMMA TakeReturnInv == ASSUME Inv, NEW t \in Thread, TakeReturn(t) PROVE Inv'
<1>1. /\ At(t, "woken") /\ "woken" \notin Leaving /\ Goto(t, "run") /\ "run" \in PC
      /\ k' = k /\ IpcOK(PC, Suspends, Leaving)
  BY DEF TakeReturn, Leaving, PC, Inv, Lists
<1>2. IpcOK(PC, Suspends, Leaving)' /\ Moves(PC, t) /\ Calm(k', k) /\ pc'[t] = "run"
  BY <1>1, StillStep
<1>3. k.stat[t] = "READY" /\ pc[t] = "woken"
  BY <1>1, RunnerReady
<1>4. Blocking(SemList, Waits)'
  BY <1>2, <1>3, CalmBlocking DEF Inv, Lists
<1>5. Lists' /\ waiters' = waiters
  BY <1>1, <1>2, <1>4 DEF Inv, Lists, waiters
<1>6. Woken(Waits)' = Woken(Waits) \ {t}
  BY <1>2, LeaveWoken DEF Waits
<1>7. t \in Woken(Waits) <=> k.err[t] = RT_EOK
  BY <1>3 DEF Woken, Waits
<1>8. Granted = Woken(Waits) /\ Granted' = Woken(Waits)' /\ Cardinality(Granted) \in Nat
  BY WokenFinite DEF Granted, Waits
<1>9. balance' - Cardinality(Granted') = balance - Cardinality(Granted) /\ balance' \in Int
  <2>1. CASE k.err[t] = RT_EOK
    <3>1. Cardinality(Woken(Waits)') = Cardinality(Woken(Waits)) - 1
      BY <1>6, <1>7, <2>1, WokenCount
    <3> QED BY <1>8, <2>1, <3>1 DEF TakeReturn, Inv, Fields
  <2>2. CASE k.err[t] # RT_EOK
    BY <1>6, <1>7, <1>8, <2>2 DEF TakeReturn, Inv, Fields
  <2> QED BY <2>1, <2>2
<1>10. Cardinality(Granted') \in Nat
  BY <1>6, <1>8, ThreadFinite, FS_Subset, FS_CardinalityType DEF Woken
<1>11. balance' - value' - Cardinality(Granted') = balance - value - Cardinality(Granted)
  BY <1>8, <1>9, <1>10, SemAssumption DEF TakeReturn, Inv, Fields
<1> QED BY <1>5, <1>9, <1>11 DEF Inv, Fields, NoLostWakeup, Counted, TakeReturn

\* A release: the token goes to the first waiter, or into the value, which may wrap.
LEMMA ReleaseCount ==
  ASSUME Inv, value' = NewValue, balance' = balance + 1, life' = life, Lists',
         waiters = <<>> => waiters' = <<>> /\ Granted' = Granted,
         NEW u, waiters # <<>> => Granted' = Granted \cup {u} /\ u \notin Granted
  PROVE  Inv'
<1> DEFINE c == Cardinality(Granted)
           d == balance - value - c
<1>1. c \in Nat /\ Modulus \in Nat \ {0} /\ value \in 0 .. (Modulus - 1) /\ balance \in Int
  BY WokenFinite, SemAssumption DEF Granted, Inv, Fields
<1>2. d \in Int /\ d % Modulus = 0
  BY <1>1 DEF Inv, Counted
<1>3. CASE waiters # <<>>
  <2>1. Cardinality(Granted') = c + 1
    BY <1>3, WokenCount DEF Granted
  <2>2. value' = value /\ balance' - value' - Cardinality(Granted') = d
    BY <1>1, <1>3, <2>1 DEF NewValue
  <2> QED BY <1>1, <1>2, <1>3, <2>2 DEF Inv, Fields, NoLostWakeup, Counted
<1>4. CASE waiters = <<>>
  <2>1. Cardinality(Granted') = c /\ value' = (value + 1) % Modulus
    BY <1>4 DEF NewValue
  <2>2. CASE value + 1 < Modulus
    <3>1. value' = value + 1
      BY <1>1, <2>1, <2>2
    <3>2. balance' - value' - Cardinality(Granted') = d
      BY <1>1, <2>1, <3>1
    <3> QED BY <1>1, <1>2, <1>4, <2>2, <3>1, <3>2 DEF Inv, Fields, NoLostWakeup, Counted
  <2>3. CASE value + 1 = Modulus
    <3>1. value' = 0
      BY <1>1, <2>1, <2>3
    <3>2. balance' - value' - Cardinality(Granted') = d + Modulus
      BY <1>1, <2>1, <2>3, <3>1
    <3>3. (d + Modulus) % Modulus = 0
      BY <1>1, <1>2, ModShift
    <3> QED BY <1>1, <1>4, <3>1, <3>2, <3>3 DEF Inv, Fields, NoLostWakeup, Counted
  <2> QED BY <1>1, <2>2, <2>3
<1> QED BY <1>3, <1>4

LEMMA ReleaseInv == ASSUME Inv, NEW t \in Thread, rt_sem_release(t) PROVE Inv'
<1>1. /\ At(t, "run") /\ "run" \notin Leaving /\ {"run", "sched"} \subseteq PC
      /\ IpcOK(PC, Suspends, Leaving) /\ SemList \in WaitList \ {Defunct} /\ Lists /\ Sound(k)
      /\ value' = NewValue /\ balance' = balance + 1 /\ life' = life
  BY SemLists DEF rt_sem_release, Leaving, PC, Inv
<1>2. CASE waiters = <<>>
  <2>1. k' = k /\ Goto(t, "run")
    BY <1>2 DEF rt_sem_release, HandOver
  <2>2. /\ IpcOK(PC, Suspends, Leaving)' /\ Moves(PC, t) /\ Calm(k', k)
        /\ pc[t] = "run" /\ pc'[t] = "run"
    BY <1>1, <2>1, StillStep, RunnerReady
  <2>3. Lists' /\ waiters' = waiters /\ Granted' = Granted
    BY <1>1, <2>2, CalmLists
  <2> QED BY <1>1, <1>2, <2>3, ReleaseCount
<1>3. CASE waiters # <<>>
  <2> DEFINE u == Head(waiters)
  <2>1. k' = rt_ipc_list_resume(k, SemList) /\ Goto(t, "sched")
    BY <1>3 DEF rt_sem_release, HandOver
  <2>2. u \in Thread /\ k.stat[u] = "SUSPEND" /\ pc[u] \in Waits /\ k.err[u] = RT_EOK
    BY <1>1, <1>3, HeadWaits
  <2>3. Sound(k') /\ k'.cur = k.cur /\ Roused(k', k, u, RT_EOK)
    BY <1>1, <1>3, <2>1, <2>2, ListResumeRouses DEF waiters
  <2> HIDE DEF u
  <2>4. /\ IpcOK(PC, Suspends, Leaving)' /\ Moves(PC, t) /\ pc[t] = "run" /\ pc'[t] = "sched"
        /\ k.stat[t] = "READY"
    BY <1>1, <2>1, <2>2, <2>3, RouseStep
  <2>5. (pc[t] \in Waits <=> pc'[t] \in Waits) /\ pc'[u] \in Waits
    BY <2>2, <2>4 DEF Waits, Moves
  <2>6. Lists' /\ Granted' = Granted \cup {u} /\ u \notin Granted
    BY <1>1, <2>2, <2>3, <2>4, <2>5, RousedListsOK
  <2> QED BY <1>1, <1>3, <2>6, ReleaseCount
<1> QED BY <1>2, <1>3

LEMMA IsrReleaseInv == ASSUME Inv, IsrRelease PROVE Inv'
<1>1. /\ IpcOK(PC, Suspends, Leaving) /\ SemList \in WaitList \ {Defunct} /\ Lists /\ Sound(k)
      /\ value' = NewValue /\ balance' = balance + 1 /\ life' = life /\ pc' = pc
  BY SemLists DEF IsrRelease, Inv
<1>2. CASE waiters = <<>>
  <2>1. k' = k
    BY <1>2 DEF IsrRelease
  <2>2. Lists' /\ waiters' = waiters /\ Granted' = Granted
    BY <1>1, <2>1 DEF Lists, IpcOK, Blocking, waiters, Granted, Woken
  <2> QED BY <1>1, <1>2, <2>2, ReleaseCount
<1>3. CASE waiters # <<>>
  <2> DEFINE u == Head(waiters)
             j == rt_ipc_list_resume(k, SemList)
  <2>1. k' = rt_schedule(j)
    BY <1>3 DEF IsrRelease, HandOver
  <2>2. u \in Thread /\ k.stat[u] = "SUSPEND" /\ pc[u] \in Waits /\ k.err[u] = RT_EOK
    BY <1>1, <1>3, HeadWaits
  <2>3. Sound(j) /\ Roused(j, k, u, RT_EOK)
    BY <1>1, <1>3, <2>2, ListResumeRouses DEF waiters
  <2> HIDE DEF u, j
  <2>4. /\ IpcOK(PC, Suspends, Leaving)' /\ Roused(k', k, u, RT_EOK) /\ k.cur \in Thread
        /\ Moves(PC, k.cur)
    BY <1>1, <1>3, <2>1, <2>2, <2>3, IsrRouseStep DEF waiters
  <2>5. Lists' /\ Granted' = Granted \cup {u} /\ u \notin Granted
    BY <1>1, <2>2, <2>4, RousedListsOK
  <2> QED BY <1>1, <1>3, <2>5, ReleaseCount
<1> QED BY <1>2, <1>3

\* A waiter is woken with an error.
LEMMA FailedWaiter ==
  ASSUME Inv, IpcOK(PC, Suspends, Leaving)', NEW t \in Thread, Moves(PC, t),
         NEW u \in Thread, NEW e, Roused(k', k, u, e), k.stat[u] = "SUSPEND", e # RT_EOK,
         pc[t] \in Waits <=> pc'[t] \in Waits, UNCHANGED obj
  PROVE  Inv'
<1>1. Lists' /\ (waiters = <<>> => waiters' = <<>>) /\ Granted' = Granted
  BY RousedListsOK DEF Inv
<1> QED BY <1>1, ObjSame

LEMMA ResetTurnInv == ASSUME Inv, NEW t \in Thread, ResetTurn(t) PROVE Inv'
<1> DEFINE u == Head(waiters)
<1>1. /\ IpcOK(PC, Suspends, Leaving) /\ SemList \in WaitList \ {Defunct} /\ Lists /\ Sound(k)
      /\ At(t, "reset") /\ "reset" \notin Leaving /\ waiters # <<>> /\ pc' = pc
      /\ k' = rt_ipc_list_resume_error(k, SemList)
  BY SemLists DEF ResetTurn, Leaving, Inv
<1>2. u \in Thread /\ k.stat[u] = "SUSPEND"
  BY <1>1, HeadWaits
<1>3. Sound(k') /\ k'.cur = k.cur /\ Roused(k', k, u, RT_ERROR)
  BY <1>1, ListResumeErrorRouses DEF waiters
<1> HIDE DEF u
<1>4. Goto(t, "reset") /\ "reset" \in PC
  BY <1>1 DEF Goto, At, IpcOK, PC
<1>5. IpcOK(PC, Suspends, Leaving)' /\ Moves(PC, t)
  BY <1>1, <1>2, <1>3, <1>4, RouseStep
<1>6. RT_ERROR # RT_EOK /\ UNCHANGED obj
  BY DEF RT_ERROR, RT_EOK, ResetTurn, obj
<1> QED BY <1>1, <1>2, <1>3, <1>5, <1>6, FailedWaiter

\* The semaphore starts afresh, after a reset or in rt_sem_init.
LEMMA AfreshInv ==
  ASSUME Inv, Lists', waiters = <<>>, waiters' = waiters, Granted' = Granted,
         value' = InitValue, balance' = InitValue + Cardinality(Granted),
         life' \in {"live", "closing", "gone"}
  PROVE  Inv'
<1>1. Cardinality(Granted) \in Nat /\ InitValue \in 0 .. (Modulus - 1)
      /\ Modulus \in Nat \ {0}
  BY WokenFinite, SemAssumption DEF Granted
<1>2. balance' - value' - Cardinality(Granted') = 0 /\ 0 % Modulus = 0
  BY <1>1
<1> QED BY <1>1, <1>2 DEF Inv, Fields, NoLostWakeup, Counted

\* The steps of a thread that only change its control point.
LEMMA StillLists ==
  ASSUME Inv, NEW t \in Thread, NEW l, At(t, l), l \notin Leaving \cup Waits, k' = k,
         NEW m \in PC \ Waits, Goto(t, m)
  PROVE  Lists' /\ waiters' = waiters /\ Granted' = Granted
<1>1. /\ IpcOK(PC, Suspends, Leaving)' /\ Moves(PC, t) /\ Calm(k', k)
      /\ pc[t] = l /\ pc'[t] = m
  BY StillStep DEF Inv, Lists, At
<1> QED BY <1>1, CalmLists DEF Inv

LEMMA DetachTurnInv == ASSUME Inv, NEW t \in Thread, DetachTurn(t) PROVE Inv'
<1>1. /\ IpcOK(PC, Suspends, Leaving) /\ SemList \in WaitList \ {Defunct} /\ Lists
      /\ "closing_do" \notin Leaving /\ {"closing", "crashed"} \subseteq PC
      /\ ResumeAllTurn(t, SemList, "closing_do", "closing") /\ UNCHANGED obj
  BY SemLists DEF DetachTurn, Leaving, PC, Inv
<1>2. /\ IpcOK(PC, Suspends, Leaving)' /\ Moves(PC, t) /\ pc[t] = "closing_do"
      /\ \/ /\ Roused(k', k, Head(waiters), RT_ERROR) /\ pc'[t] = "closing"
            /\ Head(waiters) \in Thread /\ k.stat[Head(waiters)] = "SUSPEND"
         \/ Calm(k', k) /\ pc'[t] = "crashed"
  BY <1>1, ResumeAllStep DEF waiters
<1>3. pc[t] \in Waits <=> pc'[t] \in Waits
  BY <1>2 DEF Waits
<1>4. CASE Calm(k', k)
  BY <1>1, <1>2, <1>3, <1>4, CalmLists, ObjSame
<1>5. CASE /\ Roused(k', k, Head(waiters), RT_ERROR)
           /\ Head(waiters) \in Thread /\ k.stat[Head(waiters)] = "SUSPEND"
  <2>1. RT_ERROR # RT_EOK
    BY DEF RT_ERROR, RT_EOK
  <2> QED BY <1>1, <1>2, <1>3, <1>5, <2>1, FailedWaiter
<1> QED BY <1>2, <1>4, <1>5

LEMMA CallInv ==
  ASSUME Inv, NEW t \in Thread,
         \/ ResetCall(t) \/ ResetEnd(t) \/ DetachCall(t) \/ DetachCheck(t) \/ rt_sem_init(t)
  PROVE  Inv'
<1>1. CASE ResetCall(t)
  <2>1. Lists' /\ waiters' = waiters /\ Granted' = Granted
    BY <1>1, StillLists DEF ResetCall, Leaving, Waits, PC
  <2> QED BY <1>1, <2>1, ObjSame DEF ResetCall, obj
<1>2. CASE ResetEnd(t)
  <2>1. Lists' /\ waiters' = waiters /\ Granted' = Granted
    BY <1>2, StillLists DEF ResetEnd, Leaving, Waits, PC
  <2> QED BY <1>2, <2>1, AfreshInv DEF ResetEnd, Inv, Fields
<1>3. CASE DetachCall(t)
  <2>1. Lists' /\ waiters' = waiters /\ Granted' = Granted
    BY <1>3, StillLists DEF DetachCall, Leaving, Waits, PC
  <2> QED BY <1>3, <2>1 DEF DetachCall, Inv, Fields, NoLostWakeup, Counted
<1>4. CASE DetachCheck(t)
  <2>1. Lists' /\ waiters' = waiters /\ Granted' = Granted
    BY <1>4, StillLists DEF DetachCheck, Leaving, Waits, PC
  <2> QED BY <1>4, <2>1 DEF DetachCheck, Inv, Fields, NoLostWakeup, Counted
<1>5. CASE rt_sem_init(t)
  <2>1. Lists' /\ waiters' = waiters /\ Granted' = Granted
    BY <1>5 DEF Inv, Lists, IpcOK, Blocking, waiters, Granted, Woken, rt_sem_init
  <2> QED BY <1>5, <2>1, AfreshInv DEF rt_sem_init, Inv
<1> QED BY <1>1, <1>2, <1>3, <1>4, <1>5

LEMMA SleepInv ==
  ASSUME Inv, NEW t \in Thread, rt_thread_sleep(t) \/ Sleeping(t), UNCHANGED obj
  PROVE  Inv'
<1>1. /\ IpcOK(PC, Suspends, Leaving) /\ Sound(k) /\ SemList \in WaitList /\ k \in KernelState
      /\ Blocking(SemList, Waits) /\ Lists
  BY SemLists DEF Inv, Lists
<1>2. CASE rt_thread_sleep(t)
  <2>0. "run" \notin Leaving /\ "sleeping" \in PC \cap Suspends \cap Leaving
    BY DEF Leaving, Suspends, PC
  <2>1. /\ IpcOK(PC, Suspends, Leaving)' /\ Moves(PC, t) /\ Slept(k', k, t)
        /\ k.stat[t] = "READY" /\ pc[t] = "run" /\ pc'[t] = "sleeping"
    BY <1>1, <1>2, <2>0, SleepStep
  <2>2. Blocking(SemList, Waits)'
    BY <1>1, <2>1, SleptBlocking DEF Waits
  <2>3. waiters' = waiters /\ k'.prio = k.prio
    BY <2>1 DEF Slept, waiters
  <2>4. \A u \in Thread \ {t} : k'.stat[u] = k.stat[u] /\ k'.err[u] = k.err[u]
    BY <1>1, <2>1 DEF Slept, KernelState
  <2>5. Woken(Waits)' = Woken(Waits) \ {t} /\ t \notin Woken(Waits)
    BY <2>1, <2>4, OwnWoken DEF Waits, Woken
  <2> QED BY <2>1, <2>2, <2>3, <2>5, ObjSame DEF Inv, Lists, Granted, Waits
<1>3. CASE Sleeping(t)
  <2>1. /\ IpcOK(PC, Suspends, Leaving)' /\ Moves(PC, t)
        /\ pc[t] \notin Waits /\ pc'[t] \notin Waits
        /\ \/ Calm(k', k)
           \/ Noted(k', k, t, RT_EOK) /\ k.stat[t] = "READY"
    BY <1>1, <1>3, SleepingStep DEF Leaving, Suspends, PC, Waits
  <2>2. CASE Calm(k', k)
    BY <1>1, <2>1, <2>2, CalmLists, ObjSame
  <2>3. CASE Noted(k', k, t, RT_EOK) /\ k.stat[t] = "READY"
    <3>1. Blocking(SemList, Waits)'
      BY <1>1, <2>1, <2>3, NotedBlocking
    <3>2. waiters' = waiters /\ k'.prio = k.prio
      BY <2>3 DEF Noted, waiters
    <3>3. \A u \in Thread \ {t} : k'.stat[u] = k.stat[u] /\ k'.err[u] = k.err[u]
      BY <1>1, <2>3 DEF Noted, KernelState
    <3>4. Woken(Waits)' = Woken(Waits) \ {t} /\ t \notin Woken(Waits)
      BY <2>1, <3>3, OwnWoken DEF Woken
    <3> QED BY <2>1, <3>1, <3>2, <3>4, ObjSame DEF Inv, Lists, Granted, Waits
  <2> QED BY <2>1, <2>2, <2>3
<1> QED BY <1>2, <1>3

LEMMA SwitchInv ==
  ASSUME Inv, NEW t \in Thread, UNCHANGED obj,
         Schedule(t, "waiting", "woken") \/ Schedule(t, "sched", "run")
  PROVE  Inv'
<1>1. /\ IpcOK(PC, Suspends, Leaving)' /\ Moves(PC, t) /\ Calm(k', k)
      /\ pc[t] \in Waits <=> pc'[t] \in Waits
  BY ScheduleStep DEF Inv, Lists, PC, Suspends, Leaving, Waits
<1> QED BY <1>1, CalmLists, ObjSame DEF Inv

LEMMA TickInv ==
  ASSUME Inv, UNCHANGED obj, TickSlice \/ \E t \in Thread : TickTimeout(t)
  PROVE  Inv'
<1>1. CASE TickSlice
  <2>1. /\ IpcOK(PC, Suspends, Leaving)' /\ k.cur \in Thread /\ Moves(PC, k.cur)
        /\ Calm(k', k) /\ pc' = pc
    BY <1>1, SliceStep DEF Inv, Lists
  <2> QED BY <2>1, CalmLists, ObjSame DEF Inv
<1>2. ASSUME NEW t \in Thread, TickTimeout(t) PROVE Inv'
  <2>1. /\ IpcOK(PC, Suspends, Leaving)' /\ Moves(PC, t) /\ Roused(k', k, t, RT_ETIMEOUT)
        /\ k.stat[t] = "SUSPEND" /\ pc' = pc
    BY <1>2, TimeoutStep DEF Inv, Lists
  <2>2. RT_ETIMEOUT # RT_EOK
    BY DEF RT_ETIMEOUT, RT_EOK
  <2> QED BY <2>1, <2>2, FailedWaiter
<1> QED BY <1>1, <1>2

LEMMA StutterInv == Inv /\ UNCHANGED vars => Inv'
<1> SUFFICES ASSUME Inv, UNCHANGED vars PROVE Inv'
  OBVIOUS
<1>1. Lists' /\ waiters' = waiters /\ Granted' = Granted /\ UNCHANGED obj
  BY DEF Inv, Lists, IpcOK, Blocking, waiters, Granted, Woken, vars, obj
<1> QED BY <1>1, ObjSame

LEMMA NextInv == Inv /\ Next => Inv'
<1> SUFFICES ASSUME Inv, Next PROVE Inv'
  OBVIOUS
<1>1. ASSUME NEW t \in Thread, Step(t) PROVE Inv'
  <2>1. CASE TakeTry(t)
    BY <2>1, StutterInv DEF TakeTry
  <2>2. ASSUME NEW time \in Times, TakeWait(t, time) PROVE Inv'
    BY <2>2, TakeWaitInv
  <2>3. CASE TakeReturn(t) \/ TakeNow(t)
    BY <2>3, TakeReturnInv, TakeNowInv
  <2>4. CASE ResetTurn(t) \/ DetachTurn(t) \/ rt_sem_release(t)
    BY <2>4, ResetTurnInv, DetachTurnInv, ReleaseInv
  <2> QED BY <1>1, <2>1, <2>2, <2>3, <2>4, CallInv, SleepInv, SwitchInv DEF Step, InCall
<1>2. CASE IsrRelease
  BY <1>2, IsrReleaseInv
<1> QED BY <1>1, <1>2, TickInv DEF Next

THEOREM Invariance == Spec => []Inv
<1>1. Init => Inv
  BY InitInv
<1>2. Inv /\ [Next]_vars => Inv'
  BY NextInv, StutterInv
<1> QED BY <1>1, <1>2, PTL DEF Spec

\* Every token released and not yet taken is in sem->value or with a thread that
\* was woken without an error, whatever threads, interrupts and time-outs do.
THEOREM TokensCorrect == Spec => []TokensKept
<1>1. Inv => TokensKept
  BY SemLists DEF Inv, Lists, IpcOK, Fields, Counted, TokensKept, TypeOK
<1> QED BY <1>1, Invariance, PTL

\* No thread waits for a semaphore that has a value.
THEOREM WakeupCorrect == Spec => []NoLostWakeup
<1>1. Inv => NoLostWakeup
  BY DEF Inv
<1> QED BY <1>1, Invariance, PTL

\* The suspend list holds exactly the threads blocked in rt_sem_take, in priority
\* order with RT_IPC_FLAG_PRIO, and nobody once rt_sem_detach is done.
THEOREM SuspendListCorrect == Spec => []SuspendListOK
<1>1. Inv => SuspendListOK
  BY DEF Inv, Lists, Blocking, Ascending, SuspendListOK, Waits, waiters
<1> QED BY <1>1, Invariance, PTL

-----------------------------------------------------------------------------
(*****************************************************************************)
(* The work queue and the asynchronous requests, for any number of clients.  *)
(* The invariant says where the work of each request is while its client is  *)
(* inside a call, and who has suspended the worker; that a sleeping worker   *)
(* has nothing to do needs a worker that outranks its clients (Outranks),    *)
(* for otherwise one of them can queue between the look at the list and the  *)
(* suspension.                                                               *)
(*****************************************************************************)

\* Control points: of the worker, of a client, of those who may be suspended, of
\* those who have suspended themselves, of those linked into the semaphore.
WorkerPC == {"run", "w_idle", "w_suspended", "w_take", "w_func", "w_wait", "w_end", "w_clean",
             "w_ack", "w_acking", "w_acked", "crashed"}
ClientPC == {"run", "s_queue", "s_resume", "s_sched", "c_sync", "c_sleep", "c_look", "c_mark",
             "k_sync", "k_sleep", "done"}
AioPC == WorkerPC \cup ClientPC
AioSuspends == {"w_suspended", "w_take", "w_wait", "w_end", "c_sleep", "c_look", "k_sleep", "done"}
AioLeaving == {"w_suspended", "w_wait", "c_sleep", "k_sleep"}
AioWaits == {"c_sleep", "c_look", "k_sleep", "done"}
Transfer == {"w_func", "w_wait", "w_end"}
Acks == {"w_ack", "w_acking"}
Cancels == {"c_sync", "c_sleep", "c_look", "c_mark"}

AioLists == IpcOK(AioPC, AioSuspends, AioLeaving) /\ Blocking(WorkSem, AioWaits)

AioPlaces ==
  /\ pc[Worker] \in WorkerPC
  /\ \A t \in Thread \ {Worker} : pc[t] \in IF t \in Clients THEN ClientPC ELSE {"run"}
  /\ \A t \in Thread : k.armed[t] => t = Worker /\ pc[t] \in {"w_wait", "w_end"}

AioFields ==
  /\ works \in Seq(Work) /\ Injective(works) /\ current \in Work \cup {NULL}
  /\ result \in [Cb -> Result] /\ op \in [Cb -> Op] /\ arg \in [Thread -> Work \cup {NULL}]
  /\ current # NULL <=> pc[Worker] \in Transfer \cup {"w_clean"}
  /\ current \notin Nodes(works)
  /\ \A t \in Clients : /\ pc[t] \in {"s_queue", "k_sync"} => arg[t] \in Work
                        /\ pc[t] \in {"c_sync", "c_sleep", "c_look", "c_mark"} => arg[t] \in Cb

\* A request that is queued, or whose transfer is not over, is in progress.
Moving(b) == b \in Nodes(works) \/ (current = b /\ pc[Worker] \in Transfer)
Requests == \A b \in Cb : Moving(b) => result[b] = "INPROGRESS"

\* What a call knows of its request: it is about to be queued; the caller waits for
\* the worker to be done with it; nothing of it is left; it has not returned a count.
CallOK(t) ==
  /\ pc[t] = "s_queue" /\ arg[t] \in Cb => result[arg[t]] = "INPROGRESS" /\ ~Moving(arg[t])
  /\ pc[t] \in {"c_sleep", "c_look"} /\ k.stat[t] = "SUSPEND" =>
       arg[t] \notin Nodes(works) /\ (current = arg[t] \/ pc[Worker] \in Acks)
  /\ pc[t] \in {"c_sleep", "c_look", "c_mark"} /\ k.stat[t] = "READY" =>
       arg[t] \notin Nodes(works) \cup {current}
  /\ pc[t] = "c_mark" => result[arg[t]] # "COUNT"

\* While a request is about to be queued, nobody else submits or cancels it.
Apart ==
  \A t, u \in Clients :
    arg[t] = arg[u] /\ arg[t] \in Cb /\ pc[t] = "s_queue" /\ pc[u] \in Cancels \cup {"s_queue"} =>
      t = u

AioInvariant ==
  AioLists /\ AioPlaces /\ AioFields /\ Requests /\ Apart /\ \A t \in Clients : CallOK(t)

\* A worker that outranks its clients is not preempted between its look at the list
\* and its suspension; a client that runs while it is ready is about to give way.
Idles == {"w_suspended", "w_take"}
Outranked ==
  /\ k.prio = InitPrio
  /\ k.stat[Worker] = "READY" /\ k.cur \in Clients => pc[k.cur] = "s_sched"
  /\ pc[Worker] = "w_idle" => works = <<>>
  /\ works # <<>> /\ k.stat[Worker] = "SUSPEND" /\ pc[Worker] \in Idles =>
       \E t \in Clients : pc[t] = "s_resume"

\* Control points a thread may take.
Own(t) == IF t = Worker THEN WorkerPC ELSE IF t \in Clients THEN ClientPC ELSE {"run"}

LEMMA AioFacts ==
  /\ Worker \in Thread /\ Worker # Idle /\ Worker \notin Clients
  /\ \A t \in Clients : t \in Thread /\ t # Idle
  /\ WorkSem \in WaitList /\ WorkSem # Defunct /\ NULL \notin Work
  /\ \A b \in Cb : b \in Work /\ b # NULL
  BY WorkQueueAssumption, AioAssumption

LEMMA AioKernel ==
  ASSUME AioLists
  PROVE  /\ IpcOK(AioPC, AioSuspends, AioLeaving) /\ Blocking(WorkSem, AioWaits)
         /\ Sound(k) /\ k \in KernelState /\ k.stat \in [Thread -> Stat]
         /\ k.armed \in [Thread -> BOOLEAN] /\ k.cur \in Thread
         /\ \A t \in Thread : k.armed[t] => k.stat[t] = "SUSPEND"
         /\ \A t \in Thread : k.stat[t] = "READY" \/ (k.stat[t] = "SUSPEND" /\ pc[t] \in AioSuspends)
  BY DEF AioLists, IpcOK, Sound, KernelInv, KernelState, TimerSound

\* Only t moves, to a control point of its own, and no timer is started that was not.
LEMMA PlacesKept ==
  ASSUME AioPlaces, NEW t \in Thread, Moves(AioPC, t), pc'[t] \in Own(t),
         \A u \in Thread : k'.armed[u] => k.armed[u],
         k.armed[t] => pc'[t] \in {"w_wait", "w_end"} \/ ~k'.armed[t]
  PROVE  AioPlaces'
<1>1. Worker \in Thread /\ Worker \notin Clients
  BY AioFacts
<1>2. pc'[Worker] \in WorkerPC
  BY <1>1 DEF AioPlaces, Moves, Own
<1>3. \A u \in Thread \ {Worker} : pc'[u] \in IF u \in Clients THEN ClientPC ELSE {"run"}
  BY <1>1 DEF AioPlaces, Moves, Own
<1>4. \A u \in Thread : k'.armed[u] => u = Worker /\ pc'[u] \in {"w_wait", "w_end"}
  BY <1>1 DEF AioPlaces, Moves
<1> QED BY <1>2, <1>3, <1>4 DEF AioPlaces

-----------------------------------------------------------------------------
(* The steps on the kernel state. *)

\* A step of the running thread that leaves the kernel alone.
LEMMA AioStill ==
  ASSUME AioLists, AioPlaces, NEW t, NEW l, At(t, l), l \notin AioLeaving, k' = k,
         NEW m \in Own(t), m \in AioPC, Goto(t, m)
  PROVE  /\ AioLists' /\ AioPlaces' /\ t \in Thread /\ Moves(AioPC, t)
         /\ k.stat[t] = "READY" /\ pc[t] = l /\ pc'[t] = m
<1>1. t \in Thread /\ k.stat[t] = "READY" /\ pc[t] = l
  BY RunnerReady, AioKernel
<1>2. IpcOK(AioPC, AioSuspends, AioLeaving)' /\ Moves(AioPC, t) /\ Calm(k', k) /\ pc'[t] = m
  BY StillStep, AioKernel
<1>3. Blocking(WorkSem, AioWaits)'
  BY <1>1, <1>2, CalmBlocking, AioKernel
<1>4. ~k.armed[t]
  BY <1>1, AioKernel
<1>5. AioPlaces'
  BY <1>1, <1>2, <1>4, PlacesKept
<1> QED BY <1>1, <1>2, <1>3, <1>5 DEF AioLists

\* rt_schedule().
LEMMA AioSchedule ==
  ASSUME AioLists, AioPlaces, NEW t, NEW l, NEW m \in AioPC, Schedule(t, l, m), m \in Own(t),
         l \in AioLeaving => m \in AioSuspends,
         l \in AioSuspends => (l \in AioWaits <=> m \in AioWaits),
         l \in {"w_wait", "w_end"} => m \in {"w_wait", "w_end"}
  PROVE  /\ AioLists' /\ AioPlaces' /\ t \in Thread /\ Moves(AioPC, t) /\ Calm(k', k)
         /\ pc[t] = l /\ pc'[t] = m
<1>1. /\ IpcOK(AioPC, AioSuspends, AioLeaving)' /\ t \in Thread /\ Moves(AioPC, t) /\ Calm(k', k)
      /\ pc[t] = l /\ pc'[t] = m
  BY ScheduleStep, AioKernel
<1>2. k.stat[t] = "READY" \/ (pc[t] \in AioWaits <=> pc'[t] \in AioWaits)
  BY <1>1, AioKernel
<1>3. Blocking(WorkSem, AioWaits)'
  BY <1>1, <1>2, CalmBlocking, AioKernel
<1>4. k'.armed = k.armed
  BY <1>1 DEF Calm
<1>5. k.armed[t] => pc[t] \in {"w_wait", "w_end"}
  BY <1>1 DEF AioPlaces
<1>6. AioPlaces'
  BY <1>1, <1>4, <1>5, PlacesKept
<1> QED BY <1>1, <1>3, <1>6 DEF AioLists

LEMMA AioSlice ==
  ASSUME AioLists, AioPlaces, TickSlice
  PROVE  AioLists' /\ AioPlaces' /\ Calm(k', k) /\ pc' = pc
<1>1. /\ IpcOK(AioPC, AioSuspends, AioLeaving)' /\ k.cur \in Thread /\ Moves(AioPC, k.cur)
      /\ Calm(k', k) /\ pc' = pc
  BY SliceStep, AioKernel
<1>2. Blocking(WorkSem, AioWaits)'
  BY <1>1, CalmBlocking, AioKernel
<1>3. AioPlaces'
  BY <1>1 DEF AioPlaces, Calm
<1> QED BY <1>1, <1>2, <1>3 DEF AioLists

\* The device answers.
LEMMA AioTimeout ==
  ASSUME AioLists, AioPlaces, NEW t \in Thread, TickTimeout(t)
  PROVE  /\ AioLists' /\ AioPlaces' /\ t = Worker /\ pc' = pc
         /\ pc[Worker] \in {"w_wait", "w_end"} /\ Roused(k', k, Worker, RT_ETIMEOUT)
<1>1. /\ IpcOK(AioPC, AioSuspends, AioLeaving)' /\ Moves(AioPC, t)
      /\ Roused(k', k, t, RT_ETIMEOUT) /\ k.stat[t] = "SUSPEND" /\ pc' = pc
  BY TimeoutStep, AioKernel
<1>2. t = Worker /\ pc[t] \in {"w_wait", "w_end"}
  BY DEF AioPlaces, TickTimeout
<1>3. Sound(k) /\ WorkSem \in WaitList /\ Blocking(WorkSem, AioWaits)
  BY AioKernel, AioFacts
<1>4. Blocking(WorkSem, AioWaits)'
  BY <1>1, <1>3, RousedBlocking
<1>5. k.armed \in [Thread -> BOOLEAN] /\ k'.armed = [k.armed EXCEPT ![t] = FALSE]
  BY <1>1, AioKernel DEF Roused
<1>6. AioPlaces'
  BY <1>1, <1>5 DEF AioPlaces
<1> QED BY <1>1, <1>2, <1>4, <1>6 DEF AioLists

\* The worker suspends itself, with or without its timer.
LEMMA WorkerSuspends ==
  ASSUME AioLists, AioPlaces, NEW l, At(Worker, l), l \notin AioLeaving,
         NEW m \in {"w_suspended", "w_wait"}, Goto(Worker, m),
         k' = IF m = "w_wait" THEN Started(rt_thread_suspend(k, Worker), Worker)
              ELSE rt_thread_suspend(k, Worker)
  PROVE  /\ AioLists' /\ AioPlaces' /\ Moves(AioPC, Worker) /\ Slept(k', k, Worker)
         /\ k.stat[Worker] = "READY" /\ pc[Worker] = l /\ pc'[Worker] = m
<1> DEFINE h == rt_thread_suspend(k, Worker)
<1>1. Worker \in Thread \ {Idle} /\ Worker \in Thread /\ WorkSem \in WaitList
  BY AioFacts
<1>2. k.stat[Worker] = "READY" /\ pc[Worker] = l /\ k.cur = Worker
  BY RunnerReady, AioKernel DEF At
<1>3. Sound(k) /\ pc \in [Thread -> AioPC]
  BY AioKernel DEF IpcOK
<1>4. Sound(h) /\ Slept(h, k, Worker) /\ KernelInv(h, {})
  BY <1>1, <1>2, <1>3, SuspendSleeps DEF Sound
<1>5. h.armed = [k.armed EXCEPT ![Worker] = FALSE]
  BY <1>1, <1>2, <1>3, SuspendDisarms
<1>6. h.stat[Worker] = "SUSPEND"
  BY <1>1, <1>4, AioKernel DEF Slept
<1> HIDE DEF h
<1>7. Sound(k') /\ Slept(k', k, Worker)
  <2>1. CASE m = "w_wait"
    <3>1. k' = Started(h, Worker)
      BY <2>1 DEF h
    <3>2. Sound(k') /\ Slept(k', k, Worker)
      BY <1>1, <1>2, <1>3, <2>1, StartedSleeps
    <3> QED BY <3>2
  <2>2. CASE m # "w_wait"
    BY <1>4, <2>2 DEF h
  <2> QED BY <2>1, <2>2
<1>8. \A u \in Thread : k'.armed[u] => k.armed[u] \/ (u = Worker /\ m = "w_wait")
  <2>1. CASE m = "w_wait"
    <3>1. k' = Started(h, Worker)
      BY <2>1 DEF h
    <3>2. k'.armed = [h.armed EXCEPT ![Worker] = TRUE]
      BY <1>1, <1>4, <1>6, <3>1, StartedOK
    <3> QED BY <1>5, <2>1, <3>2, AioKernel
  <2>2. CASE m # "w_wait"
    BY <1>5, <2>2, AioKernel DEF h
  <2> QED BY <2>1, <2>2
<1>9. m \in AioPC /\ m \in WorkerPC /\ m \in AioSuspends \cap AioLeaving /\ m \notin AioWaits
  BY DEF AioPC, WorkerPC, AioSuspends, AioLeaving, AioWaits
<1>10. Moves(AioPC, Worker) /\ pc'[Worker] = m
  BY <1>1, <1>3, <1>9, GotoMoves
<1>11. IpcOK(AioPC, AioSuspends, AioLeaving)'
  BY <1>1, <1>2, <1>7, <1>9, <1>10, SuspendedKeeps, AioKernel DEF Slept
<1>12. Blocking(WorkSem, AioWaits)'
  BY <1>1, <1>2, <1>3, <1>7, <1>9, <1>10, SleptBlocking, AioKernel
<1>13. AioPlaces'
  <2>1. ~k.armed[Worker]
    BY <1>1, <1>2, AioKernel
  <2>2. \A u \in Thread \ {Worker} : ~k'.armed[u]
    BY <1>8 DEF AioPlaces
  <2>3. k'.armed[Worker] => pc'[Worker] \in {"w_wait", "w_end"}
    BY <1>1, <1>8, <1>10, <2>1
  <2> QED BY <1>1, <1>9, <1>10, <2>2, <2>3 DEF AioPlaces, Moves
<1> QED BY <1>2, <1>7, <1>10, <1>11, <1>12, <1>13 DEF AioLists

\* So does blocking without a limit.
LEMMA BlockDisarms ==
  ASSUME NEW i, Sound(i), NEW t \in Thread \ {Idle}, i.stat[t] = "READY",
         NEW q \in WaitList \ {Defunct}, NEW flag,
         NEW j, j = Block(i, q, t, flag, "FOREVER")
  PROVE  j.armed = [i.armed EXCEPT ![t] = FALSE]
<1>1. j.armed = [i.armed EXCEPT ![t] = ("FOREVER" = "TICKS")]
  BY BlockArms
<1> QED BY <1>1

\* A client waits for the completion.
LEMMA ClientBlocks ==
  ASSUME AioLists, AioPlaces, NEW t \in Clients, NEW l, At(t, l), l \notin AioLeaving,
         k' = Block(k, WorkSem, t, "FIFO", "FOREVER"),
         NEW m \in {"c_sleep", "k_sleep"}, Goto(t, m)
  PROVE  /\ AioLists' /\ AioPlaces' /\ Moves(AioPC, t) /\ k.stat[t] = "READY"
         /\ k'.cur = k.cur /\ k'.prio = k.prio
         /\ k'.stat = [k.stat EXCEPT ![t] = "SUSPEND"] /\ pc[t] = l /\ pc'[t] = m
<1>1. /\ t \in Thread \ {Idle} /\ t # Idle /\ WorkSem \in WaitList \ {Defunct}
      /\ WorkSem \in WaitList /\ t \in Thread
  BY AioFacts
<1>2. m \in AioPC \cap AioSuspends \cap AioLeaving /\ m \in AioWaits /\ m \in ClientPC
  BY DEF AioPC, ClientPC, AioSuspends, AioLeaving, AioWaits
<1>3. /\ IpcOK(AioPC, AioSuspends, AioLeaving)' /\ k.stat[t] = "READY"
      /\ Moves(AioPC, t) /\ pc[t] = l /\ pc'[t] = m
      /\ BlockedAt(k', k, WorkSem, t, Position(k, WorkSem, t, "FIFO"))
      /\ Place(k, WorkSem, Position(k, WorkSem, t, "FIFO"))
  <2> DEFINE flag == "FIFO"
             time == "FOREVER"
  <2>1. k' = Block(k, WorkSem, t, flag, time)
    OBVIOUS
  <2> HIDE DEF flag, time
  <2>2. /\ IpcOK(AioPC, AioSuspends, AioLeaving)' /\ k.stat[t] = "READY"
        /\ Moves(AioPC, t) /\ pc[t] = l /\ pc'[t] = m
        /\ BlockedAt(k', k, WorkSem, t, Position(k, WorkSem, t, flag))
        /\ Place(k, WorkSem, Position(k, WorkSem, t, flag))
    BY <1>1, <1>2, <2>1, BlockStep, AioKernel
  <2> QED BY <2>2 DEF flag
<1>4. Blocking(WorkSem, AioWaits)'
  <2> DEFINE x == Position(k, WorkSem, t, "FIFO")
  <2>1. Place(k, WorkSem, x) /\ BlockedAt(k', k, WorkSem, t, x)
    BY <1>3
  <2> HIDE DEF x
  <2> QED BY <1>1, <1>2, <1>3, <2>1, BlockedBlocking, AioKernel
<1>5. k'.armed = [k.armed EXCEPT ![t] = FALSE]
  BY <1>1, <1>3, BlockDisarms, AioKernel
<1>6. \A u \in Thread : k'.armed[u] => k.armed[u] /\ u # t
  BY <1>5, AioKernel
<1>7. AioPlaces'
  <2>1. pc'[t] \in Own(t)
    BY <1>2, <1>3, AioFacts DEF Own
  <2> QED BY <1>1, <1>3, <1>6, <2>1, PlacesKept
<1> QED BY <1>3, <1>4, <1>7 DEF AioLists, BlockedAt

\* A thread is made ready by the running one.
LEMMA AioRouse ==
  ASSUME AioLists, AioPlaces, NEW t, NEW l, At(t, l), l \notin AioLeaving,
         NEW u \in Thread, NEW e, Sound(k'), k'.cur = k.cur, Roused(k', k, u, e),
         NEW m \in AioPC, m \in Own(t), Goto(t, m)
  PROVE  /\ AioLists' /\ AioPlaces' /\ t \in Thread /\ Moves(AioPC, t) /\ pc[t] = l /\ pc'[t] = m
         /\ k.stat[t] = "READY" /\ k'.stat = [k.stat EXCEPT ![u] = "READY"]
         /\ k'.prio = k.prio
<1>1. /\ IpcOK(AioPC, AioSuspends, AioLeaving)' /\ t \in Thread /\ Moves(AioPC, t) /\ pc[t] = l
      /\ pc'[t] = m /\ k.stat[t] = "READY"
  BY RouseStep, AioKernel
<1>2. Blocking(WorkSem, AioWaits)'
  BY <1>1, RousedBlocking, AioKernel, AioFacts
<1>3. \A v \in Thread : k'.armed[v] => k.armed[v]
  BY AioKernel DEF Roused
<1>4. ~k.armed[t]
  BY <1>1, AioKernel
<1>5. AioPlaces'
  BY <1>1, <1>3, <1>4, PlacesKept
<1> QED BY <1>1, <1>2, <1>5 DEF AioLists, Roused

LEMMA ResumesWorker ==
  ASSUME AioLists, AioPlaces, NEW t \in Clients, QueueResume(t, "s_resume", "s_sched")
  PROVE  /\ AioLists' /\ AioPlaces' /\ Moves(AioPC, t) /\ k.stat[t] = "READY"
         /\ pc[t] = "s_resume" /\ pc'[t] = "s_sched" /\ k'.prio = k.prio /\ k'.cur = k.cur
         /\ UNCHANGED wq /\ k'.stat = [k.stat EXCEPT ![Worker] = "READY"]
<1>1. /\ At(t, "s_resume") /\ k' = rt_thread_resume(k, Worker) /\ Goto(t, "s_sched")
      /\ UNCHANGED wq
  BY DEF QueueResume
<1>2. "s_resume" \notin AioLeaving /\ "s_sched" \in AioPC /\ "s_sched" \in Own(t)
  BY AioFacts DEF AioLeaving, AioPC, ClientPC, Own
<1>3. Worker \in Thread
  BY AioFacts
<1>4. CASE k.stat[Worker] = "SUSPEND"
  <2>1. Sound(k') /\ Roused(k', k, Worker, k.err[Worker]) /\ k'.cur = k.cur
    BY <1>1, <1>3, <1>4, ResumeRouses, AioKernel
  <2> QED BY <1>1, <1>2, <1>3, <2>1, AioRouse
<1>5. CASE k.stat[Worker] = "READY"
  <2>1. k' = k
    BY <1>1, <1>5 DEF rt_thread_resume
  <2>2. k'.stat = [k.stat EXCEPT ![Worker] = "READY"]
    BY <1>3, <1>5, <2>1, AioKernel
  <2> QED BY <1>1, <1>2, <2>1, <2>2, AioStill
<1> QED BY <1>3, <1>4, <1>5, AioKernel

\* The completion lets the first of the clients go on that wait for it.
LEMMA WorkerAcks ==
  ASSUME AioLists, AioPlaces, WorkerAck
  PROVE  /\ AioLists' /\ AioPlaces' /\ Moves(AioPC, Worker) /\ k.stat[Worker] = "READY"
         /\ pc[Worker] \in Acks /\ pc'[Worker] \in {"w_acking", "w_acked"}
         /\ k'.prio = k.prio /\ k'.cur = k.cur /\ UNCHANGED wq /\ k'.stat[Worker] = "READY"
         /\ \A t \in Clients : k'.stat[t] \in {k.stat[t], "READY"}
         /\ pc'[Worker] = "w_acked" => \A t \in Clients : pc[t] \in AioWaits => k'.stat[t] = "READY"
<1>1. PICK l \in {"w_ack", "w_acking"} :
        /\ At(Worker, l) /\ UNCHANGED wq
        /\ IF k.wait[WorkSem] # <<>>
           THEN k' = rt_ipc_list_resume(k, WorkSem) /\ Goto(Worker, "w_acking")
           ELSE UNCHANGED k /\ Goto(Worker, "w_acked")
  BY DEF WorkerAck
<1>2. /\ l \notin AioLeaving /\ l \in Acks
      /\ \A m \in {"w_acking", "w_acked"} : m \in AioPC /\ m \in Own(Worker)
  BY DEF AioLeaving, AioPC, WorkerPC, Own, Acks
<1>3. \A t \in Clients : pc[t] \in AioWaits /\ k.stat[t] # "READY" => t \in Nodes(k.wait[WorkSem])
  BY AioFacts, AioKernel DEF Blocking
<1>4. CASE k.wait[WorkSem] = <<>>
  <2>1. k' = k /\ Goto(Worker, "w_acked") /\ Nodes(k.wait[WorkSem]) = {}
    BY <1>1, <1>4 DEF Nodes
  <2>2. /\ AioLists' /\ AioPlaces' /\ Moves(AioPC, Worker) /\ k.stat[Worker] = "READY"
        /\ pc[Worker] = l /\ pc'[Worker] = "w_acked"
    BY <1>1, <1>2, <2>1, AioStill
  <2> QED BY <1>1, <1>2, <1>3, <2>1, <2>2
<1>5. CASE k.wait[WorkSem] # <<>>
  <2> DEFINE u == Head(k.wait[WorkSem])
             e == k.err[u]
  <2>1. k' = rt_ipc_list_resume(k, WorkSem) /\ Goto(Worker, "w_acking")
    BY <1>1, <1>5
  <2>2. Sound(k') /\ k'.cur = k.cur /\ Roused(k', k, u, e)
    BY <1>5, <2>1, ListResumeRouses, AioKernel, AioFacts
  <2>3. u \in Thread
    BY <1>5, HeadSuspended, AioKernel, AioFacts
  <2> HIDE DEF u, e
  <2>4. /\ AioLists' /\ AioPlaces' /\ Moves(AioPC, Worker) /\ k.stat[Worker] = "READY"
        /\ pc[Worker] = l /\ pc'[Worker] = "w_acking"
        /\ k'.stat = [k.stat EXCEPT ![u] = "READY"] /\ k'.prio = k.prio
    BY <1>1, <1>2, <2>1, <2>2, <2>3, AioRouse
  <2>5. \A t \in Thread : k'.stat[t] \in {k.stat[t], "READY"}
    BY <2>3, <2>4, AioKernel
  <2> QED BY <1>1, <1>2, <2>2, <2>4, <2>5, AioFacts
<1> QED BY <1>4, <1>5

-----------------------------------------------------------------------------
(* The worker's steps. *)

\* What every proof about a step starts from.
LEMMA AioParts ==
  ASSUME AioInvariant
  PROVE  /\ AioLists /\ AioPlaces /\ AioFields /\ Requests /\ Apart /\ \A t \in Clients : CallOK(t)
         /\ works \in Seq(Work) /\ Injective(works) /\ current \in Work \cup {NULL}
         /\ current \notin Nodes(works) /\ Nodes(works) \subseteq Work
         /\ result \in [Cb -> Result] /\ op \in [Cb -> Op] /\ arg \in [Thread -> Work \cup {NULL}]
<1>1. works \in Seq(Work)
  BY DEF AioInvariant, AioFields
<1>2. Nodes(works) \subseteq Work
  BY <1>1, EmptyNodes
<1> QED BY <1>1, <1>2 DEF AioInvariant, AioFields

\* Steps that no call can tell from none.
LEMMA QuietStep ==
  ASSUME AioInvariant, AioLists', AioPlaces', UNCHANGED <<wq, result, op, arg>>,
         \A t \in Clients : pc'[t] = pc[t] /\ k'.stat[t] = k.stat[t],
         pc[Worker] \in Transfer <=> pc'[Worker] \in Transfer,
         pc[Worker] = "w_clean" <=> pc'[Worker] = "w_clean",
         pc[Worker] \in Acks => pc'[Worker] \in Acks
  PROVE  AioInvariant'
<1>1. works' = works /\ current' = current /\ result' = result /\ op' = op /\ arg' = arg
  BY DEF wq
<1>2. AioFields'
  BY <1>1 DEF AioInvariant, AioFields
<1>3. \A b : Moving(b)' <=> Moving(b)
  BY <1>1 DEF Moving
<1>4. Requests'
  BY <1>1, <1>3 DEF AioInvariant, Requests
<1>5. \A t \in Clients : CallOK(t)'
  BY <1>1, <1>3 DEF AioInvariant, CallOK
<1>6. Apart'
  BY <1>1 DEF AioInvariant, Apart
<1> QED BY <1>2, <1>4, <1>5, <1>6 DEF AioInvariant

\* Steps of the worker leave the calls where they are.
LEMMA WorkerApart ==
  ASSUME AioInvariant, arg' = arg, \A t \in Clients : pc'[t] = pc[t]
  PROVE  Apart'
  BY DEF AioInvariant, Apart

LEMMA WorkerScheduleInv ==
  ASSUME AioInvariant, UNCHANGED <<wq, result, op, arg>>,
         NEW l, NEW m, <<l, m>> \in {<<"w_suspended", "w_take">>, <<"w_acked", "run">>,
                                     <<"w_wait", "w_end">>},
         Schedule(Worker, l, m)
  PROVE  AioInvariant'
<1>1. /\ m \in AioPC /\ m \in Own(Worker) /\ (l \in AioLeaving => m \in AioSuspends)
      /\ l \in AioSuspends => (l \in AioWaits <=> m \in AioWaits)
      /\ l \in {"w_wait", "w_end"} => m \in {"w_wait", "w_end"}
      /\ l \in Transfer <=> m \in Transfer
      /\ l # "w_clean" /\ m # "w_clean" /\ l \notin Acks
  BY DEF AioPC, WorkerPC, Own, AioLeaving, AioSuspends, AioWaits, Transfer, Acks
<1>2. /\ AioLists' /\ AioPlaces' /\ Moves(AioPC, Worker) /\ Calm(k', k)
      /\ pc[Worker] = l /\ pc'[Worker] = m
  BY <1>1, AioSchedule, AioParts
<1>3. \A t \in Clients : pc'[t] = pc[t] /\ k'.stat[t] = k.stat[t]
  BY <1>2, AioFacts DEF Moves, Calm
<1> QED BY <1>1, <1>2, <1>3, QuietStep

LEMMA TicksInv ==
  ASSUME AioInvariant, UNCHANGED <<wq, result, op, arg>>,
         TickSlice \/ \E t \in Thread : TickTimeout(t)
  PROVE  AioInvariant'
<1>1. AioLists /\ AioPlaces
  BY AioParts
<1>2. CASE TickSlice
  <2>1. AioLists' /\ AioPlaces' /\ Calm(k', k) /\ pc' = pc
    BY <1>1, <1>2, AioSlice
  <2> QED BY <2>1, QuietStep DEF Calm
<1>3. CASE \E t \in Thread : TickTimeout(t)
  <2> PICK t \in Thread : TickTimeout(t)
    BY <1>3
  <2>1. AioLists' /\ AioPlaces' /\ pc' = pc /\ Roused(k', k, Worker, RT_ETIMEOUT)
    BY <1>1, AioTimeout
  <2>2. \A u \in Clients : k'.stat[u] = k.stat[u]
    BY <1>1, <2>1, AioFacts, AioKernel DEF Roused
  <2> QED BY <2>1, <2>2, QuietStep
<1> QED BY <1>2, <1>3

LEMMA WorkerLookInv ==
  ASSUME AioInvariant, UNCHANGED <<result, op, arg>>, WorkerLook
  PROVE  AioInvariant'
<1> DEFINE m == IF works = <<>> THEN "w_idle" ELSE "w_take"
<1>1. At(Worker, "run") /\ Goto(Worker, m) /\ k' = k /\ UNCHANGED wq
  BY DEF WorkerLook
<1>2. /\ "run" \notin AioLeaving /\ m \in Own(Worker) /\ m \in AioPC
      /\ m \notin Transfer \cup {"w_clean"} /\ "run" \notin Acks
  BY DEF AioLeaving, Own, WorkerPC, AioPC, Transfer, Acks
<1> HIDE DEF m
<1>3. /\ AioLists' /\ AioPlaces' /\ Moves(AioPC, Worker) /\ pc[Worker] = "run" /\ pc'[Worker] = m
  BY <1>1, <1>2, AioStill, AioParts
<1>4. \A t \in Clients : pc'[t] = pc[t] /\ k'.stat[t] = k.stat[t]
  BY <1>1, <1>3, AioFacts DEF Moves
<1> QED BY <1>1, <1>2, <1>3, <1>4, QuietStep DEF Transfer

\* WorkerIdle and FuncWait.
LEMMA WorkerSuspendsInv ==
  ASSUME AioInvariant, UNCHANGED <<wq, result, op, arg>>,
         NEW l, NEW m, <<l, m>> \in {<<"w_idle", "w_suspended">>, <<"w_func", "w_wait">>},
         At(Worker, l), Goto(Worker, m),
         k' = IF m = "w_wait" THEN Started(rt_thread_suspend(k, Worker), Worker)
              ELSE rt_thread_suspend(k, Worker)
  PROVE  AioInvariant'
<1>1. /\ l \notin AioLeaving /\ m \in {"w_suspended", "w_wait"} /\ (l \in Transfer <=> m \in Transfer)
      /\ l # "w_clean" /\ m # "w_clean" /\ l \notin Acks
  BY DEF AioLeaving, Transfer, Acks
<1>2. /\ AioLists' /\ AioPlaces' /\ Moves(AioPC, Worker) /\ Slept(k', k, Worker)
      /\ k.stat[Worker] = "READY" /\ pc[Worker] = l /\ pc'[Worker] = m
  BY <1>1, WorkerSuspends, AioParts
<1>3. \A t \in Clients : pc'[t] = pc[t] /\ k'.stat[t] = k.stat[t]
  BY <1>2, AioFacts, AioKernel, AioParts DEF Moves, Slept
<1> QED BY <1>1, <1>2, <1>3, QuietStep

\* A work leaves the list for work_current.
LEMMA WorkerTakeInv ==
  ASSUME AioInvariant, UNCHANGED <<result, op, arg>>, WorkerTake
  PROVE  AioInvariant'
<1>1. At(Worker, "w_take") /\ k' = k /\ "w_take" \notin AioLeaving
  BY DEF WorkerTake, AioLeaving
<1>2. current = NULL
  BY <1>1, AioParts DEF At, AioFields, Transfer
<1>3. CASE works = <<>>
  <2>1. Goto(Worker, "crashed") /\ UNCHANGED wq
    BY <1>3 DEF WorkerTake
  <2>2. "crashed" \in Own(Worker) /\ "crashed" \in AioPC
    BY DEF Own, WorkerPC, AioPC
  <2>3. /\ AioLists' /\ AioPlaces' /\ Moves(AioPC, Worker) /\ pc[Worker] = "w_take"
        /\ pc'[Worker] = "crashed"
    BY <1>1, <2>1, <2>2, AioStill, AioParts
  <2>4. \A t \in Clients : pc'[t] = pc[t] /\ k'.stat[t] = k.stat[t]
    BY <1>1, <2>3, AioFacts DEF Moves
  <2> QED BY <2>1, <2>3, <2>4, QuietStep DEF Transfer, Acks
<1>4. CASE works # <<>>
  <2>1. works' = Tail(works) /\ current' = Head(works) /\ Goto(Worker, "w_func")
    BY <1>4 DEF WorkerTake
  <2>2. "w_func" \in Own(Worker) /\ "w_func" \in AioPC
    BY DEF Own, WorkerPC, AioPC
  <2>3. /\ AioLists' /\ AioPlaces' /\ Moves(AioPC, Worker) /\ pc[Worker] = "w_take"
        /\ pc'[Worker] = "w_func"
    BY <1>1, <2>1, <2>2, AioStill, AioParts
  <2>4. \A t \in Clients : pc'[t] = pc[t] /\ k'.stat[t] = k.stat[t]
    BY <1>1, <2>3, AioFacts DEF Moves
  <2>5. /\ works' \in Seq(Work) /\ Injective(works') /\ Nodes(works') = Nodes(works) \ {current'}
        /\ current' \in Nodes(works) /\ current' \in Work
    BY <1>4, <2>1, TailNodes, AioParts
  <2>6. AioFields'
    BY <2>3, <2>4, <2>5, AioFacts, AioParts DEF AioFields, Transfer
  <2>7. \A b \in Cb : Moving(b)' <=> Moving(b)
    BY <1>2, <2>3, <2>5, AioFacts DEF Moving, Transfer
  <2>8. Requests'
    BY <2>7, AioParts DEF Requests
  <2>9. ASSUME NEW t \in Clients PROVE CallOK(t)'
    <3>1. CallOK(t) /\ arg' = arg /\ result' = result
      BY AioParts
    <3>2. pc[t] \in {"c_sleep", "c_look", "c_mark"} => arg[t] \in Cb
      BY AioParts DEF AioFields
    <3>3. pc[t] \in {"c_sleep", "c_look"} => k.stat[t] # "SUSPEND"
      BY <1>2, <2>3, <3>1, <3>2, AioFacts DEF CallOK, Acks
    <3> QED BY <2>4, <2>5, <2>7, <3>1, <3>3 DEF CallOK
  <2>10. Apart'
    BY <2>4, WorkerApart
  <2> QED BY <2>3, <2>6, <2>8, <2>9, <2>10 DEF AioInvariant
<1> QED BY <1>3, <1>4

\* The transfer is over.
LEMMA FuncEndInv ==
  ASSUME AioInvariant, FuncEnd
  PROVE  /\ AioInvariant'
         /\ \A b \in Cb : result[b] # "INPROGRESS" => result'[b] = result[b]
<1>1. PICK l \in {"w_func", "w_end"} : Inside(Worker, l, "w_clean")
  BY DEF FuncEnd
<1>2. /\ At(Worker, l) /\ Goto(Worker, "w_clean") /\ k' = k /\ UNCHANGED wq /\ op' = op /\ arg' = arg
      /\ l \notin AioLeaving /\ "w_clean" \in Own(Worker) /\ "w_clean" \in AioPC /\ l \in Transfer
  BY <1>1 DEF Inside, AioLeaving, Own, WorkerPC, AioPC, Transfer
<1>3. /\ AioLists' /\ AioPlaces' /\ Moves(AioPC, Worker) /\ pc[Worker] = l
      /\ pc'[Worker] = "w_clean"
  BY <1>2, AioStill, AioParts
<1>4. \A t \in Clients : pc'[t] = pc[t] /\ k'.stat[t] = k.stat[t]
  BY <1>2, <1>3, AioFacts DEF Moves
<1>5. works' = works /\ current' = current
  BY <1>2 DEF wq
<1>6. result' \in [Cb -> Result] /\ \A b \in Cb \ {current} : result'[b] = result[b]
  <2>1. CASE current \in Cb
    <3>1. PICK r \in Outcomes(current) : result' = [result EXCEPT ![current] = r]
      BY <2>1 DEF FuncEnd
    <3>2. r \in Result
      BY DEF Outcomes, Result
    <3> QED BY <3>1, <3>2, AioParts
  <2>2. CASE current \notin Cb
    BY <2>2, AioParts DEF FuncEnd
  <2> QED BY <2>1, <2>2
<1>7. current \in Cb => Moving(current) /\ result[current] = "INPROGRESS"
  BY <1>2, <1>3, AioParts DEF Moving, Requests
<1>8. AioFields'
  BY <1>2, <1>3, <1>4, <1>5, <1>6, AioParts DEF AioFields
<1>9. Requests'
  BY <1>3, <1>5, <1>6, AioParts DEF Requests, Moving, Transfer
<1>10. ASSUME NEW t \in Clients PROVE CallOK(t)'
  <2>1. CallOK(t) /\ t \in Thread
    BY AioParts, AioFacts
  <2>2. pc[t] = "s_queue" /\ arg[t] \in Cb => result'[arg[t]] = "INPROGRESS" /\ ~Moving(arg[t])'
    BY <1>2, <1>3, <1>5, <1>6, <2>1 DEF CallOK, Moving, Transfer
  <2>3. pc[t] = "c_mark" => result'[arg[t]] # "COUNT"
    <3>1. pc[t] = "c_mark" => k.stat[t] = "READY" /\ arg[t] \in Cb
      BY <2>1, AioKernel, AioParts DEF AioSuspends, AioFields
    <3> QED BY <1>6, <2>1, <3>1 DEF CallOK
  <2>4. pc[Worker] \notin Acks
    BY <1>3 DEF Acks
  <2> QED BY <1>2, <1>4, <1>5, <2>1, <2>2, <2>3, <2>4 DEF CallOK
<1>11. \A b \in Cb : result[b] # "INPROGRESS" => result'[b] = result[b]
  BY <1>6, <1>7
<1>12. Apart'
  BY <1>2, <1>4, WorkerApart
<1> QED BY <1>3, <1>8, <1>9, <1>10, <1>11, <1>12 DEF AioInvariant

LEMMA WorkerCleanInv ==
  ASSUME AioInvariant, UNCHANGED <<result, op, arg>>, WorkerClean
  PROVE  AioInvariant'
<1>1. /\ At(Worker, "w_clean") /\ Goto(Worker, "w_ack") /\ k' = k /\ works' = works
      /\ current' = NULL /\ "w_clean" \notin AioLeaving /\ "w_ack" \in Own(Worker)
      /\ "w_ack" \in AioPC
  BY DEF WorkerClean, AioLeaving, Own, WorkerPC, AioPC
<1>2. /\ AioLists' /\ AioPlaces' /\ Moves(AioPC, Worker) /\ pc[Worker] = "w_clean"
      /\ pc'[Worker] = "w_ack"
  BY <1>1, AioStill, AioParts
<1>3. \A t \in Clients : pc'[t] = pc[t] /\ k'.stat[t] = k.stat[t]
  BY <1>1, <1>2, AioFacts DEF Moves
<1>4. NULL \notin Nodes(works)
  BY AioParts, AioFacts
<1>5. AioFields'
  BY <1>1, <1>2, <1>3, <1>4, AioParts DEF AioFields, Transfer
<1>6. \A b \in Cb : Moving(b)' <=> Moving(b)
  BY <1>1, <1>2 DEF Moving, Transfer
<1>7. Requests'
  BY <1>6, AioParts DEF Requests
<1>8. ASSUME NEW t \in Clients PROVE CallOK(t)'
  <2>1. CallOK(t) /\ arg' = arg /\ result' = result
    BY AioParts
  <2>2. pc[t] \in {"c_sleep", "c_look", "c_mark"} => arg[t] \in Cb /\ arg[t] # NULL
    BY AioParts, AioFacts DEF AioFields
  <2> QED BY <1>1, <1>2, <1>3, <1>6, <2>1, <2>2 DEF CallOK, Acks
<1>9. Apart'
  BY <1>3, WorkerApart
<1> QED BY <1>2, <1>5, <1>7, <1>8, <1>9 DEF AioInvariant

LEMMA WorkerAckInv ==
  ASSUME AioInvariant, UNCHANGED <<result, op, arg>>, WorkerAck
  PROVE  AioInvariant'
<1>1. /\ AioLists' /\ AioPlaces' /\ Moves(AioPC, Worker) /\ pc[Worker] \in Acks
      /\ pc'[Worker] \in {"w_acking", "w_acked"} /\ UNCHANGED wq
      /\ \A t \in Clients : k'.stat[t] \in {k.stat[t], "READY"}
      /\ pc'[Worker] = "w_acked" => \A t \in Clients : pc[t] \in AioWaits => k'.stat[t] = "READY"
  BY WorkerAcks, AioParts
<1>2. works' = works /\ current' = current /\ current = NULL
  BY <1>1, AioParts DEF wq, AioFields, Transfer, Acks
<1>3. \A t \in Clients : pc'[t] = pc[t] /\ t \in Thread
  BY <1>1, AioFacts DEF Moves
<1>4. AioFields'
  BY <1>1, <1>2, <1>3, AioParts DEF AioFields, Transfer
<1>5. \A b \in Cb : Moving(b)' <=> Moving(b)
  BY <1>1, <1>2 DEF Moving, Transfer, Acks
<1>6. Requests'
  BY <1>5, AioParts DEF Requests
<1>7. ASSUME NEW t \in Clients PROVE CallOK(t)'
  <2>1. CallOK(t) /\ arg' = arg /\ result' = result /\ t \in Thread
    BY AioParts, AioFacts
  <2>2. pc[t] \in {"c_sleep", "c_look", "c_mark"} => arg[t] \in Cb /\ arg[t] # NULL
    BY AioParts, AioFacts DEF AioFields
  <2>3. pc[t] \in {"c_sleep", "c_look"} /\ k'.stat[t] = "SUSPEND" => pc'[Worker] \in Acks
    BY <1>1 DEF AioWaits, Acks
  <2>4. k.stat[t] = "READY" \/ (k.stat[t] = "SUSPEND" /\ pc[t] \in AioSuspends)
    BY <2>1, AioKernel, AioParts
  <2>5. pc[t] \in {"c_sleep", "c_look", "c_mark"} => arg[t] \notin Nodes(works) \cup {current}
    BY <1>2, <2>1, <2>2, <2>4 DEF CallOK, AioSuspends
  <2> QED BY <1>2, <1>3, <1>5, <2>1, <2>3, <2>5 DEF CallOK
<1>8. Apart'
  BY <1>3, WorkerApart
<1> QED BY <1>1, <1>4, <1>6, <1>7, <1>8 DEF AioInvariant

-----------------------------------------------------------------------------
(* The clients' steps. *)

\* The other calls do not notice a step of t: it queues only what it is about to
\* queue, and settles only what it is cancelling.
LEMMA OthersKept ==
  ASSUME AioInvariant, NEW t \in Clients, NEW u \in Clients \ {t}, Moves(AioPC, t),
         current' = current, arg'[u] = arg[u], k'.stat[u] = k.stat[u],
         \A b \in Nodes(works') : b \in Nodes(works) \/ (pc[t] = "s_queue" /\ arg[t] = b),
         \A b \in Cb : \/ result'[b] \in {result[b], "INPROGRESS"}
                       \/ result'[b] = "CANCELED" /\ pc[t] = "c_mark" /\ arg[t] = b
  PROVE  CallOK(u)'
<1>1. pc'[Worker] = pc[Worker] /\ pc'[u] = pc[u] /\ CallOK(u)
  BY AioFacts, AioParts DEF Moves
<1>2. pc[u] \in Cancels => arg[u] \in Cb
  BY AioParts DEF AioFields, Cancels
<1>3. ASSUME arg[u] \in Cb, pc[u] \in Cancels \cup {"s_queue"}
      PROVE  arg[u] \in Nodes(works') => arg[u] \in Nodes(works)
  BY <1>3, AioParts DEF Apart
<1>4. ASSUME arg[u] \in Cb, pc[u] = "s_queue"
      PROVE  result'[arg[u]] = "INPROGRESS" /\ ~Moving(arg[u])'
  <2>1. result[arg[u]] = "INPROGRESS" /\ ~Moving(arg[u])
    BY <1>1, <1>4 DEF CallOK
  <2>2. ~(pc[t] = "c_mark" /\ arg[t] = arg[u])
    BY <1>4, AioParts DEF Apart, Cancels
  <2> QED BY <1>1, <1>3, <1>4, <2>1, <2>2 DEF Moving
<1>5. pc[u] \in {"c_sleep", "c_look", "c_mark"} /\ arg[u] \notin Nodes(works) =>
        arg[u] \notin Nodes(works')
  BY <1>2, <1>3 DEF Cancels
<1>6. pc[u] = "c_mark" => result'[arg[u]] # "COUNT"
  BY <1>1, <1>2 DEF CallOK, Cancels
<1>7. /\ pc[u] \in {"c_sleep", "c_look"} /\ k.stat[u] = "SUSPEND" =>
           arg[u] \notin Nodes(works) /\ (current = arg[u] \/ pc[Worker] \in Acks)
      /\ pc[u] \in {"c_sleep", "c_look", "c_mark"} /\ k.stat[u] = "READY" =>
           arg[u] \notin Nodes(works) \cup {current}
  BY <1>1 DEF CallOK
<1> QED BY <1>1, <1>4, <1>5, <1>6, <1>7 DEF CallOK

\* The call of t keeps clear of the others.
Clear(t) ==
  \A u \in Clients \ {t} :
    arg'[t] = arg[u] /\ arg[u] \in Cb =>
      /\ pc'[t] = "s_queue" => pc[u] \notin Cancels \cup {"s_queue"}
      /\ pc'[t] \in Cancels => pc[u] # "s_queue"

LEMMA ApartKept ==
  ASSUME AioInvariant, NEW t \in Clients, Moves(AioPC, t), Clear(t),
         \A u \in Clients \ {t} : arg'[u] = arg[u]
  PROVE  Apart'
<1>1. \A u \in Clients \ {t} : pc'[u] = pc[u]
  BY AioFacts DEF Moves
<1> QED BY <1>1, AioParts DEF Apart, Clear

\* A call that goes on with the same work, or is over.
LEMMA ClearOn ==
  ASSUME AioInvariant, NEW t \in Clients, arg' = arg,
         pc'[t] \in Cancels => pc[t] \in Cancels, pc'[t] # "s_queue"
  PROVE  Clear(t)
  BY AioParts DEF Apart, Clear

LEMMA ClientStep ==
  ASSUME AioInvariant, NEW t \in Clients, AioLists', AioPlaces', Moves(AioPC, t), Clear(t),
         current' = current, works' \in Seq(Work), Injective(works'), current \notin Nodes(works'),
         result' \in [Cb -> Result], op' \in [Cb -> Op], arg' \in [Thread -> Work \cup {NULL}],
         \A u \in Clients \ {t} : arg'[u] = arg[u] /\ k'.stat[u] = k.stat[u],
         \A b \in Nodes(works') : b \in Nodes(works) \/ (pc[t] = "s_queue" /\ arg[t] = b),
         \A b \in Cb : \/ result'[b] \in {result[b], "INPROGRESS"}
                       \/ result'[b] = "CANCELED" /\ pc[t] = "c_mark" /\ arg[t] = b,
         pc'[t] \in {"s_queue", "k_sync"} => arg'[t] \in Work,
         pc'[t] \in {"c_sync", "c_sleep", "c_look", "c_mark"} => arg'[t] \in Cb,
         \A b \in Cb : b \in Nodes(works') \/ (current = b /\ pc[Worker] \in Transfer) =>
                         result'[b] = "INPROGRESS",
         CallOK(t)'
  PROVE  AioInvariant'
<1>1. pc'[Worker] = pc[Worker] /\ \A u \in Clients \ {t} : pc'[u] = pc[u]
  BY AioFacts DEF Moves
<1>2. AioFields'
  BY <1>1, AioParts DEF AioFields
<1>3. Requests'
  BY <1>1 DEF Requests, Moving
<1>4. \A u \in Clients : CallOK(u)'
  BY OthersKept
<1>5. Apart'
  BY ApartKept
<1> QED BY <1>2, <1>3, <1>4, <1>5 DEF AioInvariant

\* The steps that queue nothing and take nothing off the list.
LEMMA ClientQuiet ==
  ASSUME AioInvariant, NEW t \in Clients, AioLists', AioPlaces', Moves(AioPC, t), Clear(t),
         UNCHANGED wq,
         result' \in [Cb -> Result], op' \in [Cb -> Op], arg' \in [Thread -> Work \cup {NULL}],
         \A u \in Clients \ {t} : arg'[u] = arg[u] /\ k'.stat[u] = k.stat[u],
         \A b \in Cb : \/ result'[b] \in {result[b], "INPROGRESS"}
                       \/ result'[b] = "CANCELED" /\ pc[t] = "c_mark" /\ arg[t] = b,
         pc'[t] \in {"s_queue", "k_sync"} => arg'[t] \in Work,
         pc'[t] \in {"c_sync", "c_sleep", "c_look", "c_mark"} => arg'[t] \in Cb,
         \A b \in Cb : Moving(b) => result'[b] = "INPROGRESS",
         CallOK(t)'
  PROVE  AioInvariant'
<1>1. works' = works /\ current' = current
  BY DEF wq
<1>2. \A b \in Cb : b \in Nodes(works') \/ (current = b /\ pc[Worker] \in Transfer) =>
                      result'[b] = "INPROGRESS"
  BY <1>1 DEF Moving
<1>3. \A b \in Nodes(works') : b \in Nodes(works) \/ (pc[t] = "s_queue" /\ arg[t] = b)
  BY <1>1
<1> QED BY <1>1, <1>2, <1>3, ClientStep, AioParts

LEMMA CallStep ==
  ASSUME AioInvariant, NEW t, NEW w \in Work, NEW l \in {"s_queue", "k_sync", "c_sync"},
         Call(t, w, l)
  PROVE  /\ t \in Clients /\ AioLists' /\ AioPlaces' /\ Moves(AioPC, t)
         /\ pc'[t] = l /\ k' = k /\ UNCHANGED wq
         /\ arg' \in [Thread -> Work \cup {NULL}] /\ arg'[t] = w
         /\ pc'[Worker] = pc[Worker]
         /\ \A u \in Clients \ {t} : arg'[u] = arg[u] /\ k'.stat[u] = k.stat[u]
<1>1. /\ At(t, "run") /\ t \in Clients /\ Goto(t, l) /\ k' = k /\ UNCHANGED wq
      /\ arg' = [arg EXCEPT ![t] = w]
  BY DEF Call
<1>2. "run" \notin AioLeaving /\ l \in Own(t) /\ l \in AioPC
  BY <1>1, AioFacts DEF AioLeaving, Own, ClientPC, AioPC
<1>3. AioLists' /\ AioPlaces' /\ t \in Thread /\ Moves(AioPC, t) /\ pc'[t] = l
  BY <1>1, <1>2, AioStill, AioParts
<1>4. /\ arg' \in [Thread -> Work \cup {NULL}] /\ arg'[t] = w
      /\ \A u \in Clients \ {t} : arg'[u] = arg[u]
  BY <1>1, <1>3, AioParts, AioFacts
<1>5. pc'[Worker] = pc[Worker]
  BY <1>1, <1>3, AioFacts DEF Moves
<1> QED BY <1>1, <1>3, <1>4, <1>5

LEMMA SubmitInv ==
  ASSUME AioInvariant, NEW t, NEW b \in Cb, NEW o \in Op, Submit(t, b, o)
  PROVE  AioInvariant' /\ \A c \in Cb : result'[c] \in {result[c], "INPROGRESS"}
<1>1. /\ result[b] # "INPROGRESS" /\ Call(t, b, "s_queue") /\ b \in Work
      /\ result' = [result EXCEPT ![b] = "INPROGRESS"] /\ op' = [op EXCEPT ![b] = o]
  BY AioFacts DEF Submit
<1>2. /\ t \in Clients /\ AioLists' /\ AioPlaces' /\ Moves(AioPC, t)
      /\ pc'[t] = "s_queue" /\ k' = k /\ UNCHANGED wq
      /\ arg' \in [Thread -> Work \cup {NULL}] /\ arg'[t] = b
      /\ pc'[Worker] = pc[Worker]
      /\ \A u \in Clients \ {t} : arg'[u] = arg[u] /\ k'.stat[u] = k.stat[u]
  BY <1>1, CallStep
<1>3. /\ result' \in [Cb -> Result] /\ op' \in [Cb -> Op] /\ result'[b] = "INPROGRESS"
      /\ \A c \in Cb \ {b} : result'[c] = result[c]
  BY <1>1, AioParts DEF Result
<1>4. \A c \in Cb : Moving(c) => result'[c] = "INPROGRESS"
  BY <1>3, AioParts DEF Requests
<1>5. ~Moving(b) /\ ~Moving(b)'
  BY <1>1, <1>2, AioParts DEF Requests, Moving, wq
<1>6. CallOK(t)'
  BY <1>2, <1>3, <1>5 DEF CallOK
<1>7. Clear(t)
  <2>1. \A u \in Clients : arg[u] = b => pc[u] \notin Cancels
    BY DEF Submit, Cancelling, Cancels
  <2>2. \A u \in Clients : arg[u] = b => pc[u] # "s_queue"
    BY <1>1, AioParts DEF CallOK
  <2> QED BY <1>2, <2>1, <2>2 DEF Clear, Cancels
<1>8. \A c \in Cb : result'[c] \in {result[c], "INPROGRESS"}
  BY <1>3
<1>9. AioInvariant'
  BY <1>1, <1>2, <1>3, <1>4, <1>6, <1>7, <1>8, ClientQuiet
<1> QED BY <1>8, <1>9

\* aio_cancel, rt_workqueue_dowork and rt_workqueue_cancel_work_sync are entered.
LEMMA EnterInv ==
  ASSUME AioInvariant, NEW t, NEW w \in Work, NEW l, UNCHANGED <<result, op>>,
         Call(t, w, l),
         IF l = "c_sync" THEN w \in Cb /\ ~Queueing(w) ELSE l \in {"s_queue", "k_sync"} /\ w \in Plain
  PROVE  AioInvariant'
<1>1. l \in {"s_queue", "k_sync", "c_sync"}
  OBVIOUS
<1>2. /\ t \in Clients /\ AioLists' /\ AioPlaces' /\ Moves(AioPC, t)
      /\ pc'[t] = l /\ k' = k /\ UNCHANGED wq
      /\ arg' \in [Thread -> Work \cup {NULL}] /\ arg'[t] = w
      /\ pc'[Worker] = pc[Worker]
      /\ \A u \in Clients \ {t} : arg'[u] = arg[u] /\ k'.stat[u] = k.stat[u]
  BY <1>1, CallStep
<1>3. CallOK(t)'
  BY <1>1, <1>2 DEF CallOK, Plain
<1>4. \A b \in Cb : Moving(b) => result'[b] = "INPROGRESS"
  BY AioParts DEF Requests
<1>5. Clear(t)
  BY <1>1, <1>2 DEF Clear, Cancels, Plain, Queueing
<1> QED BY <1>2, <1>3, <1>4, <1>5, ClientQuiet, AioParts

\* rt_workqueue_cancel_work.
LEMMA CancelWorkInv ==
  ASSUME AioInvariant, NEW t, NEW w \in Plain, CancelWork(t, w)
  PROVE  AioInvariant'
<1>1. /\ t \in Clients /\ At(t, "run") /\ Goto(t, "run") /\ k' = k /\ current' = current
      /\ works' = (IF current = w THEN works ELSE Unlink(works, w))
      /\ UNCHANGED <<result, op, arg>>
  BY DEF CancelWork, Cancel
<1>2. "run" \notin AioLeaving /\ "run" \in Own(t) /\ "run" \in AioPC
  BY <1>1, AioFacts DEF AioLeaving, Own, ClientPC, AioPC
<1>3. AioLists' /\ AioPlaces' /\ t \in Thread /\ Moves(AioPC, t) /\ pc'[t] = "run"
  BY <1>1, <1>2, AioStill, AioParts
<1>4. works' \in Seq(Work) /\ Injective(works') /\ Nodes(works') \subseteq Nodes(works)
  BY <1>1, AioParts, UnlinkNodes
<1>5. CallOK(t)'
  BY <1>3 DEF CallOK
<1>6. \A b \in Cb : b \in Nodes(works') \/ (current = b /\ pc[Worker] \in Transfer) =>
                      result'[b] = "INPROGRESS"
  BY <1>1, <1>4, AioParts DEF Requests, Moving
<1>7. current \notin Nodes(works')
  BY <1>4, AioParts
<1>8. Clear(t)
  BY <1>1, <1>3, ClearOn DEF Cancels
<1>9. \A b \in Nodes(works') : b \in Nodes(works) \/ (pc[t] = "s_queue" /\ arg[t] = b)
  BY <1>4
<1> QED BY <1>1, <1>3, <1>4, <1>5, <1>6, <1>7, <1>8, <1>9, ClientStep, AioParts

LEMMA InsideStep ==
  ASSUME AioInvariant, NEW t \in Clients, NEW l, l \notin AioLeaving, NEW m \in ClientPC,
         At(t, l), Goto(t, m), k' = k
  PROVE  /\ AioLists' /\ AioPlaces' /\ Moves(AioPC, t) /\ t \in Thread
         /\ k.stat[t] = "READY" /\ pc[t] = l /\ pc'[t] = m /\ pc'[Worker] = pc[Worker]
<1>1. m \in Own(t) /\ m \in AioPC
  BY AioFacts DEF Own, AioPC
<1>2. /\ AioLists' /\ AioPlaces' /\ Moves(AioPC, t) /\ t \in Thread
      /\ k.stat[t] = "READY" /\ pc[t] = l /\ pc'[t] = m
  BY <1>1, AioStill, AioParts
<1> QED BY <1>2, AioFacts DEF Moves

LEMMA CancelLookInv ==
  ASSUME AioInvariant, NEW t \in Clients, CancelLook(t)
  PROVE  AioInvariant'
<1> DEFINE m == IF result[arg[t]] = "COUNT" THEN "done" ELSE "c_mark"
<1>1. /\ At(t, "c_look") /\ Goto(t, m) /\ k' = k /\ UNCHANGED wq /\ UNCHANGED <<result, op, arg>>
      /\ "c_look" \notin AioLeaving /\ m \in ClientPC
  BY DEF CancelLook, Inside, AioLeaving, ClientPC
<1>2. m = "done" \/ (m = "c_mark" /\ result[arg[t]] # "COUNT")
  OBVIOUS
<1> HIDE DEF m
<1>3. /\ AioLists' /\ AioPlaces' /\ Moves(AioPC, t) /\ t \in Thread
      /\ k.stat[t] = "READY" /\ pc[t] = "c_look" /\ pc'[t] = m
  BY <1>1, InsideStep
<1>4. arg[t] \in Cb /\ arg[t] \notin Nodes(works) \cup {current}
  BY <1>3, AioParts DEF AioFields, CallOK
<1>5. CallOK(t)'
  BY <1>1, <1>2, <1>3, <1>4 DEF CallOK, wq
<1>6. \A b \in Cb : Moving(b) => result'[b] = "INPROGRESS"
  BY <1>1, AioParts DEF Requests
<1>7. Clear(t)
  BY <1>1, <1>2, <1>3, ClearOn DEF Cancels
<1> QED BY <1>1, <1>2, <1>3, <1>4, <1>5, <1>6, <1>7, ClientQuiet, AioParts

LEMMA CancelMarkInv ==
  ASSUME AioInvariant, NEW t \in Clients, CancelMark(t)
  PROVE  /\ AioInvariant'
         /\ \A b \in Cb : \/ result'[b] = result[b]
                          \/ result[b] # "COUNT" /\ result'[b] = "CANCELED"
<1>1. /\ At(t, "c_mark") /\ Goto(t, "done") /\ k' = k /\ UNCHANGED wq /\ UNCHANGED <<op, arg>>
      /\ "c_mark" \notin AioLeaving /\ "done" \in ClientPC
      /\ result' = [result EXCEPT ![arg[t]] = "CANCELED"]
  BY DEF CancelMark, Inside, AioLeaving, ClientPC
<1>2. /\ AioLists' /\ AioPlaces' /\ Moves(AioPC, t) /\ t \in Thread
      /\ k.stat[t] = "READY" /\ pc[t] = "c_mark" /\ pc'[t] = "done"
  BY <1>1, InsideStep
<1>3. arg[t] \in Cb /\ arg[t] \notin Nodes(works) \cup {current} /\ result[arg[t]] # "COUNT"
  BY <1>2, AioParts DEF AioFields, CallOK
<1>4. result' \in [Cb -> Result] /\ \A b \in Cb \ {arg[t]} : result'[b] = result[b]
  BY <1>1, AioParts DEF Result
<1>5. CallOK(t)'
  BY <1>2 DEF CallOK
<1>6. \A b \in Cb : Moving(b) => result'[b] = "INPROGRESS"
  BY <1>3, <1>4, AioParts DEF Requests, Moving
<1>7. Clear(t)
  BY <1>1, <1>2, ClearOn DEF Cancels
<1>8. result'[arg[t]] = "CANCELED"
  BY <1>1, <1>3, AioParts
<1>9. \A b \in Cb : \/ result'[b] \in {result[b], "INPROGRESS"}
                    \/ result'[b] = "CANCELED" /\ pc[t] = "c_mark" /\ arg[t] = b
  BY <1>2, <1>4, <1>8
<1>10. AioInvariant'
  BY <1>1, <1>2, <1>4, <1>5, <1>6, <1>7, <1>9, ClientQuiet, AioParts
<1> QED BY <1>3, <1>4, <1>8, <1>10

LEMMA ReturnInv ==
  ASSUME AioInvariant, NEW t \in Clients, Return(t)
  PROVE  AioInvariant'
<1>1. /\ At(t, "done") /\ Goto(t, "run") /\ k' = k /\ UNCHANGED wq /\ UNCHANGED <<result, op>>
      /\ "done" \notin AioLeaving /\ "run" \in ClientPC /\ arg' = [arg EXCEPT ![t] = NULL]
  BY DEF Return, AioLeaving, ClientPC
<1>2. AioLists' /\ AioPlaces' /\ Moves(AioPC, t) /\ pc'[t] = "run"
  BY <1>1, InsideStep
<1>3. /\ CallOK(t)' /\ arg' \in [Thread -> Work \cup {NULL}]
      /\ \A u \in Clients \ {t} : arg'[u] = arg[u] /\ k'.stat[u] = k.stat[u]
  BY <1>1, <1>2, AioParts, AioFacts DEF CallOK
<1>4. \A b \in Cb : Moving(b) => result'[b] = "INPROGRESS"
  BY <1>1, AioParts DEF Requests
<1>5. Clear(t)
  BY <1>2 DEF Clear, Cancels
<1> QED BY <1>1, <1>2, <1>3, <1>4, <1>5, ClientQuiet, AioParts

\* The work goes to the end of the list, unless it is running.
LEMMA QueueInv ==
  ASSUME AioInvariant, NEW t \in Clients, UNCHANGED <<result, op, arg>>,
         Queue(t, arg[t], "s_queue", "s_resume", "done")
  PROVE  AioInvariant'
<1> DEFINE w == arg[t]
           m == IF current = w \/ current # NULL THEN "done" ELSE "s_resume"
<1>1. /\ At(t, "s_queue") /\ Goto(t, m) /\ k' = k /\ current' = current
      /\ works' = IF current = w THEN works ELSE Append(Unlink(works, w), w)
      /\ "s_queue" \notin AioLeaving /\ m \in ClientPC /\ m \in {"done", "s_resume"}
  BY DEF Queue, Queued, AioLeaving, ClientPC, wq
<1> HIDE DEF m
<1>2. AioLists' /\ AioPlaces' /\ Moves(AioPC, t) /\ pc[t] = "s_queue" /\ pc'[t] = m
  BY <1>1, InsideStep
<1>3. w \in Work /\ (w \in Cb => result[w] = "INPROGRESS")
  BY <1>2, AioParts DEF AioFields, CallOK
<1> HIDE DEF w
<1>4. /\ works' \in Seq(Work) /\ Injective(works') /\ Nodes(works') \subseteq Nodes(works) \cup {w}
      /\ current \notin Nodes(works')
  <2>1. CASE current = w
    BY <1>1, <2>1, AioParts
  <2>2. CASE current # w
    <3> DEFINE u == Unlink(works, w)
    <3>1. u \in Seq(Work) /\ Injective(u) /\ Nodes(u) = Nodes(works) \ {w}
      BY AioParts, UnlinkNodes
    <3> HIDE DEF u
    <3>2. w \notin Nodes(u)
      BY <3>1
    <3>3. /\ Append(u, w) \in Seq(Work) /\ Injective(Append(u, w))
          /\ Nodes(Append(u, w)) = Nodes(u) \cup {w}
      BY <1>3, <3>1, <3>2, AppendNodes
    <3>4. works' = Append(u, w)
      BY <1>1, <2>2 DEF u
    <3> QED BY <2>2, <3>1, <3>3, <3>4, AioParts
  <2> QED BY <2>1, <2>2
<1>5. CallOK(t)'
  BY <1>1, <1>2 DEF CallOK
<1>6. \A b \in Cb : b \in Nodes(works') \/ (current = b /\ pc[Worker] \in Transfer) =>
                      result'[b] = "INPROGRESS"
  BY <1>3, <1>4, AioParts DEF Requests, Moving
<1>7. Clear(t)
  BY <1>1, <1>2, ClearOn DEF Cancels
<1>8. \A b \in Nodes(works') : b \in Nodes(works) \/ (pc[t] = "s_queue" /\ arg[t] = b)
  BY <1>2, <1>4 DEF w
<1> QED BY <1>1, <1>2, <1>4, <1>5, <1>6, <1>7, <1>8, ClientStep, AioParts

LEMMA QueueResumeInv ==
  ASSUME AioInvariant, NEW t \in Clients, UNCHANGED <<result, op, arg>>,
         QueueResume(t, "s_resume", "s_sched")
  PROVE  AioInvariant'
<1>1. /\ AioLists' /\ AioPlaces' /\ Moves(AioPC, t) /\ pc'[t] = "s_sched" /\ UNCHANGED wq
      /\ k'.stat = [k.stat EXCEPT ![Worker] = "READY"]
  BY ResumesWorker, AioParts
<1>2. CallOK(t)'
  BY <1>1 DEF CallOK
<1>3. \A b \in Cb : Moving(b) => result'[b] = "INPROGRESS"
  BY AioParts DEF Requests
<1>4. \A u \in Clients : k'.stat[u] = k.stat[u]
  BY <1>1, AioKernel, AioParts, AioFacts
<1>5. Clear(t)
  BY <1>1, ClearOn DEF Cancels
<1> QED BY <1>1, <1>2, <1>3, <1>4, <1>5, ClientQuiet, AioParts

\* rt_workqueue_cancel_work_sync: the work is taken off the list, or waited for.
LEMMA CancelSyncInv ==
  ASSUME AioInvariant, NEW t \in Clients, UNCHANGED <<result, op, arg>>,
         NEW l, NEW s, NEW m,
         <<l, s, m>> \in {<<"c_sync", "c_sleep", "c_look">>, <<"k_sync", "k_sleep", "done">>},
         CancelSync(t, arg[t], l, s, m)
  PROVE  AioInvariant'
<1> DEFINE w == arg[t]
<1>1. /\ l \notin AioLeaving /\ s \in {"c_sleep", "k_sleep"} /\ m \in ClientPC
      /\ l \in {"c_sync", "k_sync"} /\ m \in {"c_look", "done"}
      /\ s = "c_sleep" <=> l = "c_sync"
      /\ m = "c_look" <=> l = "c_sync"
  BY DEF AioLeaving, ClientPC
<1>2. At(t, l) /\ current' = current /\ pc[t] = l
  BY DEF CancelSync, At
<1>3. l = "c_sync" => w \in Cb
  BY <1>2, AioParts DEF AioFields
<1>4. CASE current = w
  <2>1. k' = Block(k, WorkSem, t, "FIFO", "FOREVER") /\ Goto(t, s) /\ works' = works
    BY <1>4 DEF CancelSync
  <2>2. /\ AioLists' /\ AioPlaces' /\ Moves(AioPC, t) /\ k'.stat = [k.stat EXCEPT ![t] = "SUSPEND"]
        /\ pc'[t] = s
    BY <1>1, <1>2, <2>1, ClientBlocks, AioParts
  <2>3. k'.stat[t] = "SUSPEND"
    BY <2>2, AioKernel, AioParts, AioFacts
  <2>4. w \notin Nodes(works)
    BY <1>4, AioParts
  <2>5. CallOK(t)'
    BY <1>1, <1>2, <1>4, <2>1, <2>2, <2>3, <2>4 DEF CallOK
  <2>6. \A b \in Cb : Moving(b) => result'[b] = "INPROGRESS"
    BY AioParts DEF Requests
  <2>7. /\ pc'[t] \in {"c_sync", "c_sleep", "c_look", "c_mark"} => arg'[t] \in Cb
        /\ pc'[t] \notin {"s_queue", "k_sync"}
    BY <1>1, <1>3, <2>2
  <2>8. Clear(t) /\ \A u \in Clients \ {t} : k'.stat[u] = k.stat[u]
    <3>1. pc'[t] \in Cancels => pc[t] \in Cancels
      BY <1>1, <1>2, <2>2 DEF Cancels
    <3> QED BY <2>2, <2>7, <3>1, ClearOn, AioKernel, AioParts, AioFacts
  <2> QED BY <1>2, <2>1, <2>2, <2>5, <2>6, <2>7, <2>8, ClientQuiet, AioParts DEF wq
<1>5. CASE current # w
  <2>1. works' = Unlink(works, w) /\ Goto(t, m) /\ k' = k
    BY <1>5 DEF CancelSync
  <2>2. AioLists' /\ AioPlaces' /\ Moves(AioPC, t) /\ pc'[t] = m
    BY <1>1, <1>2, <2>1, InsideStep
  <2>3. works' \in Seq(Work) /\ Injective(works') /\ Nodes(works') = Nodes(works) \ {w}
    BY <2>1, AioParts, UnlinkNodes
  <2>4. CallOK(t)'
    <3>1. k'.stat[t] = "READY"
      BY <1>1, <1>2, <2>1, InsideStep
    <3> QED BY <1>1, <1>2, <1>5, <2>2, <2>3, <3>1 DEF CallOK
  <2>5. \A b \in Cb : b \in Nodes(works') \/ (current = b /\ pc[Worker] \in Transfer) =>
                        result'[b] = "INPROGRESS"
    BY <2>3, AioParts DEF Requests, Moving
  <2>6. current \notin Nodes(works')
    BY <2>3, AioParts
  <2>7. /\ pc'[t] \in {"c_sync", "c_sleep", "c_look", "c_mark"} => arg'[t] \in Cb
        /\ pc'[t] \notin {"s_queue", "k_sync"}
    BY <1>1, <1>3, <2>2
  <2>8. Clear(t)
    <3>1. pc'[t] \in Cancels => pc[t] \in Cancels
      BY <1>1, <1>2, <2>2 DEF Cancels
    <3> QED BY <2>7, <3>1, ClearOn
  <2>9. \A b \in Nodes(works') : b \in Nodes(works) \/ (pc[t] = "s_queue" /\ arg[t] = b)
    BY <2>3
  <2> QED BY <1>2, <2>1, <2>2, <2>3, <2>4, <2>5, <2>6, <2>7, <2>8, <2>9, ClientStep, AioParts
<1> QED BY <1>4, <1>5

LEMMA ClientScheduleInv ==
  ASSUME AioInvariant, NEW t \in Clients, UNCHANGED <<wq, result, op, arg>>,
         NEW l, NEW m, <<l, m>> \in {<<"s_sched", "done">>, <<"c_sleep", "c_look">>,
                                     <<"k_sleep", "done">>},
         Schedule(t, l, m)
  PROVE  AioInvariant'
<1>1. /\ m \in AioPC /\ m \in Own(t) /\ (l \in AioLeaving => m \in AioSuspends)
      /\ l \in AioSuspends => (l \in AioWaits <=> m \in AioWaits)
      /\ l \in {"w_wait", "w_end"} => m \in {"w_wait", "w_end"}
  BY AioFacts DEF AioPC, ClientPC, Own, AioLeaving, AioSuspends, AioWaits
<1>2. /\ AioLists' /\ AioPlaces' /\ t \in Thread /\ Moves(AioPC, t) /\ Calm(k', k)
      /\ pc[t] = l /\ pc'[t] = m
  BY <1>1, AioSchedule, AioParts
<1>3. k'.stat = k.stat /\ pc'[Worker] = pc[Worker]
  BY <1>2, AioFacts DEF Calm, Moves
<1>4. CallOK(t)'
  BY <1>2, <1>3, AioParts DEF CallOK, Moving, wq
<1>5. \A b \in Cb : Moving(b) => result'[b] = "INPROGRESS"
  BY AioParts DEF Requests
<1>6. /\ pc'[t] \in {"c_sync", "c_sleep", "c_look", "c_mark"} => arg'[t] \in Cb
      /\ pc'[t] \notin {"s_queue", "k_sync"}
  BY <1>2, AioParts DEF AioFields
<1>7. Clear(t)
  <2>1. pc'[t] \in Cancels => pc[t] \in Cancels
    BY <1>2 DEF Cancels
  <2> QED BY <1>6, <2>1, ClearOn
<1> QED BY <1>2, <1>3, <1>4, <1>5, <1>6, <1>7, ClientQuiet, AioParts

-----------------------------------------------------------------------------
LEMMA AioStart == AioInit => AioInvariant
<1> SUFFICES ASSUME AioInit PROVE AioInvariant
  OBVIOUS
<1>1. IpcInit /\ "run" \in AioPC /\ "run" \notin AioWaits /\ WorkSem \in WaitList
  BY AioFacts DEF AioInit, AioPC, WorkerPC, AioWaits
<1>2. IpcOK(AioPC, AioSuspends, AioLeaving) /\ Blocking(WorkSem, AioWaits)
  BY <1>1, IpcStart
<1>3. pc = [t \in Thread |-> "run"] /\ k.armed = [t \in Thread |-> FALSE]
  BY <1>1, BootedState DEF IpcInit
<1>4. AioPlaces
  BY <1>3, AioFacts DEF AioPlaces, WorkerPC, ClientPC
<1>5. works = <<>> /\ current = NULL /\ Nodes(works) = {}
  BY DEF AioInit, WorkQueueInit, Nodes
<1>6. works \in Seq(Work) /\ Injective(works)
  BY <1>5 DEF Injective
<1>7. AioFields
  BY <1>3, <1>5, <1>6, AioFacts DEF AioFields, AioInit, Result, Op, Transfer
<1>8. Requests /\ Apart /\ \A t \in Clients : CallOK(t)
  BY <1>3, <1>5, AioFacts DEF Requests, Apart, CallOK, Moving, Transfer
<1> QED BY <1>2, <1>4, <1>7, <1>8 DEF AioInvariant, AioLists

\* What a step of the worker is.
LEMMA WorkerRunsInv ==
  ASSUME AioInvariant, WorkerRuns
  PROVE  /\ AioInvariant'
         /\ \A b \in Cb : result[b] # "INPROGRESS" => result'[b] = result[b]
<1>1. CASE FuncEnd
  BY <1>1, FuncEndInv
<1>2. CASE FuncWait
  <2>1. At(Worker, "w_func") /\ Goto(Worker, "w_wait") /\ UNCHANGED <<wq, result, op, arg>>
    BY <1>2 DEF FuncWait
  <2>2. k' = Started(rt_thread_suspend(k, Worker), Worker)
    BY <1>2 DEF FuncWait
  <2>3. AioInvariant'
    BY <2>1, <2>2, WorkerSuspendsInv
  <2> QED BY <2>1, <2>3
<1>3. CASE FuncWaits
  BY <1>3, WorkerScheduleInv DEF FuncWaits
<1>4. CASE WorkerSteps /\ UNCHANGED <<result, op, arg>>
  <2>1. CASE WorkerLook
    BY <1>4, <2>1, WorkerLookInv
  <2>2. CASE WorkerIdle
    <3>1. At(Worker, "w_idle") /\ Goto(Worker, "w_suspended") /\ UNCHANGED wq
      BY <2>2 DEF WorkerIdle
    <3>2. k' = rt_thread_suspend(k, Worker)
      BY <2>2 DEF WorkerIdle
    <3>3. AioInvariant'
      BY <1>4, <3>1, <3>2, WorkerSuspendsInv
    <3> QED BY <1>4, <3>3
  <2>3. CASE WorkerTake
    BY <1>4, <2>3, WorkerTakeInv
  <2>4. CASE WorkerClean
    BY <1>4, <2>4, WorkerCleanInv
  <2>5. CASE WorkerAck
    BY <1>4, <2>5, WorkerAckInv
  <2>6. CASE Schedule(Worker, "w_suspended", "w_take") /\ UNCHANGED wq
    BY <1>4, <2>6, WorkerScheduleInv
  <2>7. CASE Schedule(Worker, "w_acked", "run") /\ UNCHANGED wq
    BY <1>4, <2>7, WorkerScheduleInv
  <2> QED BY <1>4, <2>1, <2>2, <2>3, <2>4, <2>5, <2>6, <2>7 DEF WorkerSteps
<1> QED BY <1>1, <1>2, <1>3, <1>4 DEF WorkerRuns

LEMMA QueueCallsInv ==
  ASSUME AioInvariant, NEW t \in Clients, QueueCalls(t)
  PROVE  AioInvariant' /\ result' = result
<1>1. UNCHANGED <<result, op, arg>>
  BY DEF QueueCalls
<1>2. CASE Queue(t, arg[t], "s_queue", "s_resume", "done")
  BY <1>1, <1>2, QueueInv
<1>3. CASE QueueResume(t, "s_resume", "s_sched")
  BY <1>1, <1>3, QueueResumeInv
<1>4. CASE CancelSync(t, arg[t], "c_sync", "c_sleep", "c_look")
  BY <1>1, <1>4, CancelSyncInv
<1>5. CASE CancelSync(t, arg[t], "k_sync", "k_sleep", "done")
  BY <1>1, <1>5, CancelSyncInv
<1>6. CASE Schedule(t, "s_sched", "done") /\ UNCHANGED wq
  BY <1>1, <1>6, ClientScheduleInv
<1>7. CASE Schedule(t, "c_sleep", "c_look") /\ UNCHANGED wq
  BY <1>1, <1>7, ClientScheduleInv
<1>8. CASE Schedule(t, "k_sleep", "done") /\ UNCHANGED wq
  BY <1>1, <1>8, ClientScheduleInv
<1> QED BY <1>2, <1>3, <1>4, <1>5, <1>6, <1>7, <1>8 DEF QueueCalls

\* What a step may do to a settled request.
Stays(b) ==
  /\ result[b] \in {"COUNT", "CANCELED"} => result'[b] \in {result[b], "INPROGRESS"}
  /\ result[b] \in {"ZERO", "ERROR"} => result'[b] \in {result[b], "INPROGRESS", "CANCELED"}

LEMMA AioNextInv ==
  ASSUME AioInvariant, AioNext
  PROVE  AioInvariant' /\ \A b \in Cb : Stays(b)
<1>1. ASSUME NEW t \in Thread, AioCall(t)
      PROVE  /\ AioInvariant'
             /\ \A b \in Cb : \/ result[b] # "INPROGRESS" => result'[b] = result[b]
                              \/ result[b] # "COUNT" /\ result'[b] = "CANCELED"
  <2>1. CASE t = Worker /\ WorkerRuns
    BY <2>1, WorkerRunsInv
  <2>2. CASE t \in Clients /\ QueueCalls(t)
    BY <2>2, QueueCallsInv
  <2>3. CASE t \in Clients /\ CancelLook(t)
    BY <2>3, CancelLookInv DEF CancelLook
  <2>4. CASE t \in Clients /\ CancelMark(t)
    BY <2>4, CancelMarkInv
  <2>5. CASE t \in Clients /\ Return(t)
    BY <2>5, ReturnInv DEF Return
  <2> QED BY <1>1, <2>1, <2>2, <2>3, <2>4, <2>5 DEF AioCall
<1>2. ASSUME NEW t \in Thread, NEW b \in Cb, aio_cancel(t, b)
      PROVE  AioInvariant' /\ result' = result
  <2>1. Call(t, b, "c_sync") /\ UNCHANGED <<result, op>> /\ b \in Work /\ ~Queueing(b)
    BY <1>2, AioFacts DEF aio_cancel
  <2>2. AioInvariant'
    BY <2>1, EnterInv
  <2> QED BY <2>1, <2>2
<1>3. ASSUME NEW t \in Thread, NEW b \in Cb, NEW o \in Op, Submit(t, b, o)
      PROVE  AioInvariant' /\ \A c \in Cb : result'[c] \in {result[c], "INPROGRESS"}
  BY <1>3, SubmitInv
<1>4. ASSUME NEW t \in Thread, NEW w \in Plain, DoWork(t, w) \/ CancelWorkSync(t, w)
      PROVE  AioInvariant' /\ result' = result
  <2>1. PICK l \in {"s_queue", "k_sync"} : Call(t, w, l)
    BY <1>4 DEF DoWork, CancelWorkSync
  <2>2. UNCHANGED <<result, op>> /\ w \in Work
    BY <1>4 DEF DoWork, CancelWorkSync, Plain
  <2> QED BY <2>1, <2>2, EnterInv
<1>5. ASSUME NEW t \in Thread, NEW w \in Plain, CancelWork(t, w)
      PROVE  AioInvariant' /\ result' = result
  <2>1. result' = result
    BY <1>5 DEF CancelWork
  <2>2. AioInvariant'
    BY <1>5, CancelWorkInv
  <2> QED BY <2>1, <2>2
<1>6. ASSUME NEW t \in Thread, Timeout(t)
      PROVE  AioInvariant' /\ result' = result
  <2>1. UNCHANGED <<wq, result, op, arg>> /\ TickTimeout(t)
    BY <1>6 DEF Timeout
  <2> QED BY <2>1, TicksInv
<1>7. ASSUME Slice PROVE AioInvariant' /\ result' = result
  BY <1>7, TicksInv DEF Slice
<1>8. /\ AioInvariant'
      /\ \A b \in Cb : \/ result[b] # "INPROGRESS" => result'[b] = result[b]
                       \/ result[b] # "COUNT" /\ result'[b] = "CANCELED"
                       \/ result'[b] = "INPROGRESS"
  BY <1>1, <1>2, <1>3, <1>4, <1>5, <1>6, <1>7 DEF AioNext
<1> QED BY <1>8 DEF Stays

LEMMA AioStutter ==
  ASSUME AioInvariant, UNCHANGED aioVars
  PROVE  AioInvariant'
<1>1. k' = k /\ pc' = pc /\ UNCHANGED <<wq, result, op, arg>>
  BY DEF aioVars
<1>2. AioLists' /\ AioPlaces'
  BY <1>1, AioParts DEF AioLists, AioPlaces, IpcOK, Blocking
<1> QED BY <1>1, <1>2, QuietStep

\* However many clients there are, whatever their priorities, the inductive invariant
\* holds in every reachable state of the work queue and the asynchronous requests:
\* what is queued or being transferred is in progress, and a cancelling client waits
\* exactly while its work runs.
THEOREM AioInvariance == AioSpec => []AioInvariant
<1>1. AioInvariant /\ [AioNext]_aioVars => AioInvariant'
  BY AioNextInv, AioStutter
<1> QED BY <1>1, AioStart, PTL DEF AioSpec

\* After rt_workqueue_cancel_work_sync the work is neither queued nor running, whatever
\* the worker, the other clients, the devices and the tick have done meanwhile.
THEOREM CancelIsFinalCorrect == AioSpec => []CancelIsFinal
<1>1. AioInvariant => CancelIsFinal
  BY DEF AioInvariant, CallOK, CancelIsFinal
<1> QED BY <1>1, AioInvariance, PTL

\* A request that was cancelled is not carried out after all, and one that returned
\* a number of bytes is not called cancelled; one that ended with 0 or an error may be.
THEOREM SettledStaysCorrect == AioSpec => SettledStays
<1>1. AioInvariant /\ [AioNext]_aioVars =>
        [\A b \in Cb :
           /\ result[b] \in {"COUNT", "CANCELED"} => result'[b] \in {result[b], "INPROGRESS"}
           /\ result[b] \in {"ZERO", "ERROR"} => result'[b] \in {result[b], "INPROGRESS", "CANCELED"}
        ]_aioVars
  BY AioNextInv DEF Stays
<1> QED BY <1>1, AioInvariance, PTL DEF AioSpec, SettledStays

-----------------------------------------------------------------------------
(* A worker that outranks its clients. *)

\* The processor goes to a thread that none outranks.
LEMMA SwitchOutranked ==
  ASSUME Outranks, Outranked, k'.prio = k.prio, Topmost(k'), works' = works,
         pc'[Worker] = "w_idle" => pc[Worker] = "w_idle",
         k'.stat[Worker] = "SUSPEND" /\ pc'[Worker] \in Idles =>
           k.stat[Worker] = "SUSPEND" /\ pc[Worker] \in Idles,
         \A t \in Clients : pc[t] = "s_resume" => pc'[t] = "s_resume"
  PROVE  Outranked'
<1>1. InitPrio \in [Thread -> Prio] /\ k'.prio = InitPrio
  BY KernelAssumption DEF Outranked
<1>2. k'.stat[Worker] = "READY" => k'.cur \notin Clients
  <2> SUFFICES ASSUME k'.stat[Worker] = "READY", k'.cur \in Clients PROVE FALSE
    OBVIOUS
  <2>1. InitPrio[k'.cur] <= InitPrio[Worker] /\ InitPrio[Worker] < InitPrio[k'.cur]
    BY <1>1, AioFacts DEF Topmost, Outranks
  <2>2. InitPrio[k'.cur] \in Int /\ InitPrio[Worker] \in Int
    BY <1>1, AioFacts DEF Prio, RT_THREAD_PRIORITY_MAX
  <2> QED BY <2>1, <2>2
<1> QED BY <1>1, <1>2 DEF Outranked

\* A step of the worker, which keeps the processor.
LEMMA WorkerOutranked ==
  ASSUME Outranked, k'.prio = k.prio, k'.cur = Worker,
         pc'[Worker] = "w_idle" => works' = <<>>,
         k'.stat[Worker] = "SUSPEND" /\ pc'[Worker] \in Idles => works' = <<>>
  PROVE  Outranked'
<1>1. k'.cur \notin Clients
  BY AioFacts
<1> QED BY <1>1 DEF Outranked

\* While a client is in a call the worker waits.
LEMMA ClientRuns ==
  ASSUME AioInvariant, Outranked, NEW t \in Clients, k.cur = t, pc[t] # "s_sched"
  PROVE  k.stat[Worker] = "SUSPEND" /\ pc[Worker] # "w_idle"
<1>1. k.stat[Worker] # "READY"
  BY DEF Outranked
<1>2. k.stat[Worker] = "SUSPEND" /\ pc[Worker] \in AioSuspends
  BY <1>1, AioKernel, AioParts, AioFacts
<1> QED BY <1>2 DEF AioSuspends

\* A step of a client that keeps the processor, leaves the worker alone and adds
\* nothing to an empty list.
LEMMA ClientOutranked ==
  ASSUME AioInvariant, Outranked, NEW t \in Clients, Moves(AioPC, t), k.cur = t,
         pc[t] \notin {"s_sched", "s_resume"}, k'.prio = k.prio, k'.cur = k.cur,
         k'.stat[Worker] = k.stat[Worker], works = <<>> => works' = <<>>
  PROVE  Outranked'
<1>1. k.stat[Worker] = "SUSPEND" /\ pc[Worker] # "w_idle"
  BY ClientRuns
<1>2. pc'[Worker] = pc[Worker] /\ \A u \in Clients : pc[u] = "s_resume" => pc'[u] = "s_resume"
  BY AioFacts DEF Moves
<1> QED BY <1>1, <1>2 DEF Outranked

\* Nothing is left of an empty list.
LEMMA EmptyStays ==
  ASSUME AioInvariant, NEW w, works = <<>>
  PROVE  Unlink(works, w) = <<>>
<1>1. works \in Seq(Work)
  BY AioParts
<1>2. Nodes(works) = {}
  BY <1>1, EmptyNodes
<1> QED BY <1>2 DEF Unlink

LEMMA CallOutranked ==
  ASSUME AioInvariant, Outranked, NEW t, NEW w \in Work,
         NEW l \in {"s_queue", "k_sync", "c_sync"}, Call(t, w, l)
  PROVE  Outranked'
<1>1. t \in Clients /\ Moves(AioPC, t) /\ k' = k /\ works' = works
  BY CallStep DEF wq
<1>2. k.cur = t /\ pc[t] = "run"
  BY DEF Call, At
<1> QED BY <1>1, <1>2, ClientOutranked

LEMMA InsideOutranked ==
  ASSUME AioInvariant, Outranked, NEW t \in Clients, NEW l,
         l \notin AioLeaving \cup {"s_sched", "s_resume"}, NEW m \in ClientPC,
         At(t, l), Goto(t, m), k' = k, works = <<>> => works' = <<>>
  PROVE  Outranked'
<1>1. Moves(AioPC, t) /\ pc[t] = l
  BY InsideStep
<1>2. k.cur = t
  BY DEF At
<1> QED BY <1>1, <1>2, ClientOutranked

\* A work is queued: the client is about to resume the worker, or a work is running.
LEMMA QueueOutranked ==
  ASSUME AioInvariant, Outranked, NEW t \in Clients,
         Queue(t, arg[t], "s_queue", "s_resume", "done")
  PROVE  Outranked'
<1>1. /\ At(t, "s_queue") /\ k' = k /\ "s_queue" \notin AioLeaving
      /\ "done" \in ClientPC /\ "s_resume" \in ClientPC /\ pc[t] = "s_queue" /\ k.cur = t
  BY DEF Queue, At, AioLeaving, ClientPC
<1>2. k.stat[Worker] = "SUSPEND" /\ pc[Worker] # "w_idle"
  BY <1>1, ClientRuns
<1>3. CASE Goto(t, "done") /\ current # NULL
  <2>1. Moves(AioPC, t) /\ pc'[Worker] = pc[Worker]
    BY <1>1, <1>3, InsideStep
  <2>2. pc[Worker] \notin Idles
    BY <1>3, AioParts DEF AioFields, Transfer, Idles
  <2> QED BY <1>1, <1>2, <2>1, <2>2 DEF Outranked
<1>4. CASE Goto(t, "s_resume")
  <2>1. pc'[t] = "s_resume" /\ pc'[Worker] = pc[Worker]
    BY <1>1, <1>4, InsideStep
  <2> QED BY <1>1, <1>2, <2>1 DEF Outranked
<1>5. arg[t] \in Work /\ arg[t] # NULL
  BY <1>1, AioParts, AioFacts DEF AioFields
<1> QED BY <1>3, <1>4, <1>5 DEF Queue

LEMMA ResumeOutranked ==
  ASSUME AioInvariant, Outranked, NEW t \in Clients, QueueResume(t, "s_resume", "s_sched")
  PROVE  Outranked'
<1>1. /\ Moves(AioPC, t) /\ pc[t] = "s_resume" /\ pc'[t] = "s_sched" /\ k'.prio = k.prio
      /\ k'.cur = k.cur /\ k'.stat = [k.stat EXCEPT ![Worker] = "READY"]
  BY ResumesWorker, AioParts
<1>2. k.cur = t
  BY DEF QueueResume, At
<1>3. pc[Worker] # "w_idle"
  BY <1>1, <1>2, ClientRuns
<1>4. pc'[Worker] = pc[Worker] /\ k'.stat[Worker] = "READY"
  BY <1>1, AioFacts, AioKernel, AioParts DEF Moves
<1> QED BY <1>1, <1>2, <1>3, <1>4 DEF Outranked

LEMMA CancelSyncOutranked ==
  ASSUME AioInvariant, Outranked, NEW t \in Clients, NEW l, NEW s, NEW m,
         <<l, s, m>> \in {<<"c_sync", "c_sleep", "c_look">>, <<"k_sync", "k_sleep", "done">>},
         CancelSync(t, arg[t], l, s, m)
  PROVE  Outranked'
<1>1. /\ l \notin AioLeaving \cup {"s_sched", "s_resume"} /\ l \notin AioLeaving
      /\ s \in {"c_sleep", "k_sleep"} /\ m \in ClientPC
  BY DEF AioLeaving, ClientPC
<1>2. At(t, l) /\ k.cur = t /\ pc[t] = l
  BY DEF CancelSync, At
<1>3. CASE current = arg[t]
  <2>1. k' = Block(k, WorkSem, t, "FIFO", "FOREVER") /\ Goto(t, s) /\ works' = works
    BY <1>3 DEF CancelSync
  <2>2. /\ Moves(AioPC, t) /\ k'.cur = k.cur /\ k'.prio = k.prio
        /\ k'.stat = [k.stat EXCEPT ![t] = "SUSPEND"]
    <3>1. AioLists /\ AioPlaces /\ l \notin AioLeaving /\ s \in {"c_sleep", "k_sleep"}
      BY <1>1, AioParts
    <3> QED BY <1>2, <2>1, <3>1, ClientBlocks
  <2>3. k'.stat[Worker] = k.stat[Worker]
    BY <2>2, AioKernel, AioParts, AioFacts
  <2>4. pc[t] \notin {"s_sched", "s_resume"}
    BY <1>1, <1>2
  <2> QED BY <1>2, <2>1, <2>2, <2>3, <2>4, ClientOutranked
<1>4. CASE current # arg[t]
  <2>1. Goto(t, m) /\ k' = k /\ works' = Unlink(works, arg[t])
    BY <1>4 DEF CancelSync
  <2>2. works = <<>> => works' = <<>>
    BY <2>1, EmptyStays
  <2> QED BY <1>1, <1>2, <2>1, <2>2, InsideOutranked
<1> QED BY <1>3, <1>4

\* A call of rt_schedule().
LEMMA ScheduleOutranked ==
  ASSUME AioInvariant, Outranks, Outranked, UNCHANGED wq, NEW t, NEW l, NEW m, Schedule(t, l, m),
         \/ t \in Clients /\ l # "s_resume"
         \/ t = Worker /\ <<l, m>> \in {<<"w_suspended", "w_take">>, <<"w_acked", "run">>,
                                        <<"w_wait", "w_end">>}
  PROVE  Outranked'
<1>1. k' = rt_schedule(k) /\ pc' = [pc EXCEPT ![t] = m] /\ pc[t] = l /\ works' = works
  BY DEF Schedule, At, Goto, wq
<1>2. Topmost(k') /\ k'.prio = k.prio /\ k'.stat = k.stat
  BY <1>1, ScheduleTopmost, AioKernel, AioParts
<1>3. pc \in [Thread -> AioPC]
  BY AioKernel, AioParts DEF IpcOK
<1>4. CASE t \in Clients /\ l # "s_resume"
  <2>1. pc'[Worker] = pc[Worker]
    BY <1>1, <1>3, <1>4, AioFacts
  <2>2. \A u \in Clients : pc[u] = "s_resume" => pc'[u] = "s_resume"
    BY <1>1, <1>3, <1>4, AioFacts
  <2> QED BY <1>1, <1>2, <2>1, <2>2, SwitchOutranked
<1>5. CASE t = Worker /\ <<l, m>> \in {<<"w_suspended", "w_take">>, <<"w_acked", "run">>,
                                       <<"w_wait", "w_end">>}
  <2>1. pc'[Worker] = m /\ pc[Worker] = l /\ \A u \in Clients : pc'[u] = pc[u]
    BY <1>1, <1>3, <1>5, AioFacts
  <2>2. m # "w_idle" /\ (m \in Idles => l \in Idles)
    BY <1>5 DEF Idles
  <2> QED BY <1>1, <1>2, <2>1, <2>2, SwitchOutranked
<1> QED BY <1>4, <1>5

LEMMA TicksOutranked ==
  ASSUME AioInvariant, Outranks, Outranked, UNCHANGED wq,
         TickSlice \/ \E t \in Thread : TickTimeout(t)
  PROVE  Outranked'
<1>1. works' = works /\ AioLists /\ AioPlaces /\ Sound(k)
  BY AioParts, AioKernel DEF wq
<1>2. CASE TickSlice
  <2>1. k' = rt_thread_yield(k) /\ pc' = pc
    BY <1>2 DEF TickSlice
  <2>2. (k'.cur # k.cur => Topmost(k')) /\ k'.prio = k.prio /\ k'.stat = k.stat
    BY <1>1, <2>1, YieldTopmost
  <2>3. CASE k'.cur = k.cur
    BY <1>1, <2>1, <2>2, <2>3 DEF Outranked
  <2>4. CASE k'.cur # k.cur
    BY <1>1, <2>1, <2>2, <2>4, SwitchOutranked
  <2> QED BY <2>3, <2>4
<1>3. CASE \E t \in Thread : TickTimeout(t)
  <2> PICK t \in Thread : TickTimeout(t)
    BY <1>3
  <2>1. pc' = pc /\ pc[Worker] \in {"w_wait", "w_end"}
    BY <1>1, AioTimeout
  <2>2. Topmost(k') /\ k'.prio = k.prio
    BY <1>1, TimeoutTopmost DEF TickTimeout
  <2>3. pc[Worker] \notin Idles
    BY <2>1 DEF Idles
  <2> QED BY <1>1, <2>1, <2>2, <2>3, SwitchOutranked
<1> QED BY <1>2, <1>3

LEMMA WorkerStill ==
  ASSUME AioInvariant, Outranked, NEW l, At(Worker, l), l \notin AioLeaving, k' = k,
         NEW m \in WorkerPC, Goto(Worker, m), m = "w_idle" => works' = <<>>
  PROVE  Outranked'
<1>1. m \in Own(Worker) /\ m \in AioPC
  BY DEF Own, AioPC
<1>2. k.stat[Worker] = "READY" /\ pc'[Worker] = m /\ k.cur = Worker
  BY <1>1, AioStill, AioParts DEF At
<1>3. k'.stat[Worker] # "SUSPEND"
  BY <1>2
<1> QED BY <1>2, <1>3, WorkerOutranked

LEMMA WorkerRunsOutranked ==
  ASSUME AioInvariant, Outranks, Outranked, WorkerRuns
  PROVE  Outranked'
<1>1. CASE FuncEnd
  <2>1. PICK l \in {"w_func", "w_end"} : Inside(Worker, l, "w_clean")
    BY <1>1 DEF FuncEnd
  <2>2. At(Worker, l) /\ Goto(Worker, "w_clean") /\ k' = k
    BY <2>1 DEF Inside
  <2>3. l \notin AioLeaving /\ "w_clean" \in WorkerPC
    BY DEF AioLeaving, WorkerPC
  <2> QED BY <2>2, <2>3, WorkerStill
<1>2. ASSUME NEW l \in {"w_idle", "w_func"}, NEW m \in {"w_suspended", "w_wait"}, At(Worker, l),
             Goto(Worker, m), m \in Idles => l = "w_idle", UNCHANGED wq,
             k' = IF m = "w_wait" THEN Started(rt_thread_suspend(k, Worker), Worker)
                  ELSE rt_thread_suspend(k, Worker)
      PROVE  Outranked'
  <2>1. l \notin AioLeaving
    BY DEF AioLeaving
  <2>2. Slept(k', k, Worker) /\ pc[Worker] = l /\ pc'[Worker] = m
    BY <1>2, <2>1, WorkerSuspends, AioParts
  <2>3. k'.cur = Worker /\ k'.prio = k.prio
    BY <1>2, <2>2 DEF Slept, At
  <2>4. m \in Idles => works' = <<>>
    BY <1>2, <2>2 DEF Outranked, wq
  <2>5. pc'[Worker] # "w_idle"
    BY <2>2
  <2> QED BY <2>2, <2>3, <2>4, <2>5, WorkerOutranked
<1>3. CASE FuncWait
  <2>1. /\ At(Worker, "w_func") /\ Goto(Worker, "w_wait") /\ UNCHANGED wq
        /\ k' = Started(rt_thread_suspend(k, Worker), Worker) /\ "w_wait" \notin Idles
    BY <1>3 DEF FuncWait, Idles
  <2> QED BY <1>2, <2>1
<1>4. CASE FuncWaits
  BY <1>4, ScheduleOutranked DEF FuncWaits
<1>5. CASE WorkerLook
  <2> DEFINE m == IF works = <<>> THEN "w_idle" ELSE "w_take"
  <2>1. At(Worker, "run") /\ Goto(Worker, m) /\ k' = k /\ works' = works
    BY <1>5 DEF WorkerLook, wq
  <2>2. "run" \notin AioLeaving /\ m \in WorkerPC /\ (m = "w_idle" => works = <<>>)
    BY DEF AioLeaving, WorkerPC
  <2> HIDE DEF m
  <2> QED BY <2>1, <2>2, WorkerStill
<1>6. CASE WorkerIdle
  BY <1>2, <1>6 DEF WorkerIdle
<1>7. CASE WorkerTake
  <2>1. At(Worker, "w_take") /\ k' = k /\ "w_take" \notin AioLeaving
    BY <1>7 DEF WorkerTake, AioLeaving
  <2>2. PICK m \in {"w_func", "crashed"} : Goto(Worker, m)
    BY <1>7 DEF WorkerTake
  <2>3. m \in WorkerPC /\ m # "w_idle"
    BY DEF WorkerPC
  <2> QED BY <2>1, <2>2, <2>3, WorkerStill
<1>8. CASE WorkerClean
  <2>1. /\ At(Worker, "w_clean") /\ Goto(Worker, "w_ack") /\ k' = k /\ "w_clean" \notin AioLeaving
        /\ "w_ack" \in WorkerPC
    BY <1>8 DEF WorkerClean, AioLeaving, WorkerPC
  <2> QED BY <2>1, WorkerStill
<1>9. CASE WorkerAck
  <2>1. /\ pc'[Worker] \in {"w_acking", "w_acked"} /\ k'.prio = k.prio /\ k'.cur = k.cur
    BY <1>9, WorkerAcks, AioParts
  <2>2. k.cur = Worker /\ pc'[Worker] \notin Idles \cup {"w_idle"}
    BY <1>9, <2>1 DEF WorkerAck, At, Idles
  <2> QED BY <2>1, <2>2, WorkerOutranked
<1>10. CASE Schedule(Worker, "w_suspended", "w_take") /\ UNCHANGED wq
  BY <1>10, ScheduleOutranked
<1>11. CASE Schedule(Worker, "w_acked", "run") /\ UNCHANGED wq
  BY <1>11, ScheduleOutranked
<1> QED BY <1>1, <1>3, <1>4, <1>5, <1>6, <1>7, <1>8, <1>9, <1>10, <1>11 DEF WorkerRuns, WorkerSteps

LEMMA OutrankedNext ==
  ASSUME AioInvariant, Outranks, Outranked, AioNext
  PROVE  Outranked'
<1>1. ASSUME NEW t \in Thread, AioCall(t) PROVE Outranked'
  <2>1. CASE t = Worker /\ WorkerRuns
    BY <2>1, WorkerRunsOutranked
  <2>2. CASE t \in Clients /\ QueueCalls(t)
    <3>1. CASE Queue(t, arg[t], "s_queue", "s_resume", "done")
      BY <2>2, <3>1, QueueOutranked
    <3>2. CASE QueueResume(t, "s_resume", "s_sched")
      BY <2>2, <3>2, ResumeOutranked
    <3>3. CASE CancelSync(t, arg[t], "c_sync", "c_sleep", "c_look")
      BY <2>2, <3>3, CancelSyncOutranked
    <3>4. CASE CancelSync(t, arg[t], "k_sync", "k_sleep", "done")
      BY <2>2, <3>4, CancelSyncOutranked
    <3>5. CASE /\ \/ Schedule(t, "s_sched", "done")
                  \/ Schedule(t, "c_sleep", "c_look") \/ Schedule(t, "k_sleep", "done")
               /\ UNCHANGED wq
      <4>1. PICK l, m : Schedule(t, l, m) /\ l # "s_resume"
        BY <3>5
      <4> QED BY <2>2, <3>5, <4>1, ScheduleOutranked
    <3> QED BY <2>2, <3>1, <3>2, <3>3, <3>4, <3>5 DEF QueueCalls
  <2>3. CASE t \in Clients /\ (CancelLook(t) \/ CancelMark(t) \/ Return(t))
    <3>1. PICK l \in {"c_look", "c_mark", "done"}, m \in {"c_mark", "done", "run"} :
            At(t, l) /\ Goto(t, m) /\ k' = k /\ works' = works
      BY <2>3 DEF CancelLook, CancelMark, Return, Inside, wq
    <3>2. l \notin AioLeaving \cup {"s_sched", "s_resume"} /\ m \in ClientPC
      BY DEF AioLeaving, ClientPC
    <3> QED BY <2>3, <3>1, <3>2, InsideOutranked
  <2> QED BY <1>1, <2>1, <2>2, <2>3 DEF AioCall
<1>2. ASSUME NEW t \in Thread, NEW w \in Work, NEW l \in {"s_queue", "k_sync", "c_sync"},
             Call(t, w, l)
      PROVE  Outranked'
  BY <1>2, CallOutranked
<1>3. ASSUME NEW t \in Thread, NEW w \in Plain, CancelWork(t, w) PROVE Outranked'
  <2>1. /\ t \in Clients /\ At(t, "run") /\ Goto(t, "run") /\ k' = k
        /\ works' = IF current = w THEN works ELSE Unlink(works, w)
    BY <1>3 DEF CancelWork, Cancel
  <2>2. "run" \notin AioLeaving \cup {"s_sched", "s_resume"} /\ "run" \in ClientPC
    BY DEF AioLeaving, ClientPC
  <2>3. works = <<>> => works' = <<>>
    BY <2>1, EmptyStays
  <2> QED BY <2>1, <2>2, <2>3, InsideOutranked
<1>4. ASSUME NEW t \in Thread, NEW b \in Cb, aio_cancel(t, b) \/ \E o \in Op : Submit(t, b, o)
      PROVE  Outranked'
  <2>1. b \in Work /\ (Call(t, b, "c_sync") \/ Call(t, b, "s_queue"))
    BY <1>4, AioFacts DEF aio_cancel, Submit
  <2> QED BY <1>2, <2>1
<1>5. ASSUME NEW t \in Thread, NEW w \in Plain, DoWork(t, w) \/ CancelWorkSync(t, w)
      PROVE  Outranked'
  <2>1. w \in Work /\ (Call(t, w, "k_sync") \/ Call(t, w, "s_queue"))
    BY <1>5 DEF DoWork, CancelWorkSync, Plain
  <2> QED BY <1>2, <2>1
<1>6. ASSUME NEW t \in Thread, Timeout(t) PROVE Outranked'
  BY <1>6, TicksOutranked DEF Timeout
<1>7. CASE Slice
  BY <1>7, TicksOutranked DEF Slice
<1> QED BY <1>1, <1>3, <1>4, <1>5, <1>6, <1>7 DEF AioNext

LEMMA OutrankedStart ==
  ASSUME AioInit, Outranks
  PROVE  Outranked
<1>1. k.prio = InitPrio /\ k = Booted /\ pc = [t \in Thread |-> "run"] /\ Topmost(k)
  BY BootedState, BootedTopmost DEF AioInit, IpcInit
<1>2. pc[Worker] = "run" /\ (\A t \in Clients : pc[t] = "run") /\ k.stat[Worker] = "READY"
  BY <1>1, AioFacts, BootedState
<1>3. k.cur \notin Clients
  <2> SUFFICES ASSUME k.cur \in Clients PROVE FALSE
    OBVIOUS
  <2>1. InitPrio[k.cur] <= InitPrio[Worker] /\ InitPrio[Worker] < InitPrio[k.cur]
    BY <1>1, <1>2, AioFacts DEF Topmost, Outranks
  <2>2. InitPrio[k.cur] \in Int /\ InitPrio[Worker] \in Int
    BY KernelAssumption, AioFacts DEF Prio, RT_THREAD_PRIORITY_MAX
  <2> QED BY <2>1, <2>2
<1> QED BY <1>1, <1>2, <1>3 DEF Outranked, Idles

\* However many clients there are, a worker that outranks them does not sleep on work
\* in its list unless a client is about to resume it, and does not run queued work.
THEOREM WorkNoticedCorrect ==
  ASSUME Outranks
  PROVE  AioSpec => []WorkNoticed
<1>1. AioInvariant /\ Outranked => WorkNoticed
  BY AioParts, AioKernel DEF WorkNoticed, AioTypeOK, Outranked, Idles
<1>2. AioInvariant /\ Outranked /\ [AioNext]_aioVars => Outranked'
  <2>1. ASSUME Outranked, UNCHANGED aioVars PROVE Outranked'
    BY <2>1 DEF Outranked, aioVars, wq
  <2> QED BY <2>1, OutrankedNext
<1> QED BY <1>1, <1>2, AioInvariance, OutrankedStart, PTL DEF AioSpec

-----------------------------------------------------------------------------
(*****************************************************************************)
(* The software timers. The invariant says who is in the middle of a call    *)
(* about which timer, so that the list, the ACTIVATED flags and the locals   *)
(* of the timer thread can differ only there; the order of the list and the  *)
(* sleep of the timer thread are proved on top of it. The hypotheses         *)
(* TimersApart and TimerOutranks are those of SoftTimer: without them two    *)
(* calls about one timer overlap, which the code does not survive.           *)
(*****************************************************************************)

\* Control points: of the timer thread, of a thread that uses timers, of those who may
\* be suspended, of those who have suspended themselves; inside a call about a timer,
\* and from the moment the timer thread takes a timer until it is done with it.
EntryPC == {"next", "nap", "suspended", "delaying", "delayed", "check", "first", "callback",
            "called", "after", "start_link", "start_check", "stop_unlink", "stop_clear"}
UserPC == {"run", "start_link", "start_check", "start_resume", "sched", "stop_unlink", "stop_clear"}
Sleeps == {"suspended", "delaying", "delayed", "check"}
Dozes  == {"suspended", "delaying"}
Starting == {"start_link", "start_check"}
Stopping == {"stop_unlink", "stop_clear"}
Expiring == {"callback", "called", "after"} \cup Starting \cup Stopping
Away == {"start_link", "stop_clear"}

TimerLists == IpcOK(TimerPC, Sleeps, Dozes)

TimerPlaces ==
  /\ pc[TimerThread] \in EntryPC
  /\ \A t \in Thread \ {TimerThread} : pc[t] \in IF t \in TimerUsers THEN UserPC ELSE {"run"}

\* While the timer thread is ready, a thread that uses timers at most calls rt_schedule.
TimerRanks ==
  /\ k.prio = InitPrio
  /\ k.stat[TimerThread] = "READY" /\ k.cur \in TimerUsers => pc[k.cur] = "sched"

TimerLocals ==
  /\ rt_tick \in Tick /\ next_timeout \in Tick /\ current_tick \in Tick
  /\ following \in Timer \cup {NoTimer} /\ calling \in Timer \cup {NoTimer}
  /\ subject \in [Thread -> Timer \cup {NoTimer}]
  /\ calling # NoTimer <=> pc[TimerThread] \in Expiring
  /\ following # NoTimer => pc[TimerThread] \in Expiring

\* Which timer a call is about.
Subject(t, p, x) ==
  /\ x # NoTimer <=> p \in Starting \cup Stopping
  /\ t # TimerThread /\ p \in Starting \cup Stopping => <<t, x>> \in Uses
  /\ t = TimerThread /\ p \in Starting => <<calling, x>> \in CallStarts
  /\ t = TimerThread /\ p \in Stopping => <<calling, x>> \in CallStops

Subjects == \A t \in Thread : Subject(t, pc[t], subject[t])

TimerControl == TimerLists /\ TimerPlaces /\ TimerRanks /\ TimerLocals /\ Subjects

SoftState == [list : Seq(Timer), active : [Timer -> BOOLEAN],
              due : [Timer -> Tick], init : [Timer -> Ticks]]

\* q.list and the flags agree but for the timers in between: c is being called, a thread
\* at "start_link" has unlinked its timer and one at "stop_clear" has yet to mark it.
Agrees(q, p, u, c) ==
  /\ q \in SoftState /\ Injective(q.list)
  /\ \A x \in Nodes(q.list) : q.active[x]
  /\ \A x \in Timer : q.active[x] /\ x \notin Nodes(q.list) =>
       x = c \/ \E t \in Thread : p[t] = "stop_clear" /\ u[t] = x
  /\ \A t \in Thread : p[t] \in Away => u[t] \notin Nodes(q.list)
  /\ \A t \in Thread \ {TimerThread} : p[t] \in Away => u[t] # c
  /\ c \in Nodes(q.list) => c \in Periodic

\* The timer that the timer thread looks at next is in the list, or about to be.
Follows(q, p, u, c, f) ==
  f # NoTimer => /\ f # c
                 /\ f \in Nodes(q.list) \/ (p[TimerThread] = "start_link" /\ u[TimerThread] = f)

TimerInvariant ==
  TimerControl /\ Agrees(soft, pc, subject, calling) /\ Follows(soft, pc, subject, calling, following)

\* d is at most MaxLate + Stride - 1 ticks ago or Half - MaxLate - Stride ticks ahead.
Near(d, now) ==
  \/ Minus(d, now) <= Half - MaxLate - Stride
  \/ Minus(now, d) <= MaxLate + Stride - 1

InOrderOf(s, f) ==
  \A i, j \in 1 .. Len(s) : i < j => Minus(f[s[j]], f[s[i]]) < Half

Ordered(q, now) ==
  InOrderOf(q.list, q.due) /\ \A x \in Nodes(q.list) : Near(q.due[x], now)

TimerOrder ==
  /\ Ordered(soft, rt_tick)
  /\ \A t \in Thread : pc[t] = "start_link" => Near(soft.due[subject[t]], rt_tick)

\* No timer in the list is due at the tick that stands for "no timer".
NoneDueAtMax == \A x \in Nodes(soft.list) : soft.due[x] # RT_TICK_MAX

SleepInvariant ==
  /\ pc[TimerThread] = "nap" /\ next_timeout = RT_TICK_MAX => Nodes(soft.list) \subseteq IsrStarts
  /\ SleepsOnlyPast

-----------------------------------------------------------------------------
(* The steps on the kernel state. *)

TimerKernelOK == TimerLists /\ TimerPlaces /\ TimerRanks

LEMMA TimerFacts ==
  /\ TimerThread \in Thread /\ TimerThread # Idle /\ TimerThread \notin TimerUsers
  /\ NoTimer \notin Timer /\ TimerUsers \subseteq Thread \ {TimerThread}
  /\ \A t, x : <<t, x>> \in Uses => t \in TimerUsers /\ t # TimerThread /\ x \in Timer
  /\ IsrStarts \subseteq Timer
  /\ \A x, y : <<x, y>> \in CallStarts \cup CallStops => x \in Timer /\ y \in Timer
<1>1. /\ TimerThread \in Thread \ {Idle} /\ NoTimer \notin Timer /\ IsrStarts \subseteq Timer
      /\ Uses \subseteq (Thread \ {Idle, TimerThread}) \X Timer
      /\ CallStarts \subseteq Timer \X Timer /\ CallStops \subseteq Timer \X Timer
  BY SoftTimerAssumption
<1>2. \A t, x : <<t, x>> \in Uses => t \in Thread /\ t # TimerThread /\ x \in Timer
  BY <1>1
<1>3. \A x, y : <<x, y>> \in CallStarts \cup CallStops => x \in Timer /\ y \in Timer
  BY <1>1
<1> QED BY <1>1, <1>2, <1>3 DEF TimerUsers

LEMMA TimerKernel ==
  ASSUME TimerLists
  PROVE  /\ IpcOK(TimerPC, Sleeps, Dozes) /\ Sound(k) /\ k \in KernelState /\ k.cur \in Thread
         /\ k.stat \in [Thread -> Stat] /\ pc \in [Thread -> TimerPC]
         /\ \A t \in Thread : k.stat[t] = "READY" \/ (k.stat[t] = "SUSPEND" /\ pc[t] \in Sleeps)
         /\ k.stat[k.cur] = "READY" \/ pc[k.cur] \in Dozes
  BY DEF TimerLists, IpcOK, Sound, KernelInv, KernelState

LEMMA PlacesSorts ==
  /\ EntryPC \subseteq TimerPC /\ UserPC \subseteq TimerPC
  /\ UserPC \cap Sleeps = {} /\ UserPC \cap Dozes = {} /\ Dozes \subseteq Sleeps
  /\ Sleeps \subseteq EntryPC /\ Expiring \subseteq EntryPC /\ Expiring \cap Sleeps = {}
  BY DEF EntryPC, UserPC, TimerPC, Sleeps, Dozes, Expiring, Starting, Stopping

\* Nobody moves.
LEMMA TimerStays ==
  ASSUME TimerKernelOK, k' = k, pc' = pc
  PROVE  TimerKernelOK'
  BY DEF TimerKernelOK, TimerLists, TimerPlaces, TimerRanks, IpcOK

\* t moves to a control point of its own.
LEMMA TimerPlacesKept ==
  ASSUME TimerPlaces, NEW t \in Thread, Moves(TimerPC, t),
         pc'[t] \in IF t = TimerThread THEN EntryPC ELSE IF t \in TimerUsers THEN UserPC ELSE {"run"}
  PROVE  TimerPlaces'
  BY TimerFacts DEF TimerPlaces, Moves

\* A user of timers that runs, except to call rt_schedule, runs while the timer thread
\* sleeps.
LEMMA UserRuns ==
  ASSUME TimerKernelOK, NEW t \in Thread \ {TimerThread}, NEW l, At(t, l), l # "sched",
         t \in TimerUsers
  PROVE  /\ l \in UserPC /\ l \notin Dozes /\ k.cur = t /\ pc[t] = l /\ k.stat[t] = "READY"
         /\ k.stat[TimerThread] = "SUSPEND" /\ pc[TimerThread] \in Sleeps
<1>1. k.cur = t /\ pc[t] = l /\ l \in UserPC
  BY DEF At, TimerKernelOK, TimerPlaces
<1>2. l \notin Dozes
  BY <1>1, PlacesSorts
<1>3. k.stat[t] = "READY" /\ k.stat[TimerThread] # "READY"
  BY <1>1, <1>2, TimerKernel DEF TimerKernelOK, TimerRanks
<1> QED BY <1>1, <1>2, <1>3, TimerKernel, TimerFacts DEF TimerKernelOK

LEMMA UserStill ==
  ASSUME TimerKernelOK, NEW t \in Thread \ {TimerThread}, NEW l, At(t, l), l # "sched",
         t \in TimerUsers, k' = k, NEW m \in UserPC, Goto(t, m)
  PROVE  TimerKernelOK' /\ Moves(TimerPC, t) /\ pc'[t] = m
<1>1. /\ l \in UserPC /\ l \notin Dozes /\ k.cur = t /\ k.stat[TimerThread] = "SUSPEND"
  BY UserRuns
<1>2. m \in TimerPC /\ IpcOK(TimerPC, Sleeps, Dozes)
  BY PlacesSorts, TimerKernel DEF TimerKernelOK
<1>3. IpcOK(TimerPC, Sleeps, Dozes)' /\ Moves(TimerPC, t) /\ pc'[t] = m
  BY <1>1, <1>2, StillStep
<1>4. TimerPlaces'
  BY <1>3, TimerPlacesKept DEF TimerKernelOK
<1>5. TimerRanks'
  BY <1>1 DEF TimerKernelOK, TimerRanks
<1> QED BY <1>3, <1>4, <1>5 DEF TimerKernelOK, TimerLists

\* The timer thread runs.
LEMMA EntryRuns ==
  ASSUME TimerKernelOK, NEW l, At(TimerThread, l), l \notin Dozes
  PROVE  /\ k.cur = TimerThread /\ pc[TimerThread] = l /\ l \in EntryPC
         /\ k.stat[TimerThread] = "READY"
  BY TimerKernel DEF At, TimerKernelOK, TimerPlaces

\* What the timer thread does to the ranks while it stays the running thread.
LEMMA EntryRanks ==
  ASSUME TimerRanks, k'.cur = TimerThread, k'.prio = k.prio
  PROVE  TimerRanks'
  BY TimerFacts DEF TimerRanks

LEMMA EntryStill ==
  ASSUME TimerKernelOK, NEW l, At(TimerThread, l), l \notin Dozes, k' = k,
         NEW m \in EntryPC, Goto(TimerThread, m)
  PROVE  TimerKernelOK' /\ Moves(TimerPC, TimerThread) /\ pc'[TimerThread] = m
<1>1. k.cur = TimerThread
  BY EntryRuns
<1>2. m \in TimerPC /\ IpcOK(TimerPC, Sleeps, Dozes)
  BY PlacesSorts, TimerKernel DEF TimerKernelOK
<1>3. IpcOK(TimerPC, Sleeps, Dozes)' /\ Moves(TimerPC, TimerThread) /\ pc'[TimerThread] = m
  BY <1>2, StillStep
<1>4. TimerPlaces'
  BY <1>3, TimerPlacesKept, TimerFacts DEF TimerKernelOK
<1>5. TimerRanks'
  BY <1>1, EntryRanks DEF TimerKernelOK
<1> QED BY <1>3, <1>4, <1>5 DEF TimerKernelOK, TimerLists

\* rt_thread_delay returns.
LEMMA DelayReturnKernel ==
  ASSUME TimerKernelOK, DelayReturn
  PROVE  /\ TimerKernelOK' /\ Moves(TimerPC, TimerThread)
         /\ pc[TimerThread] = "delayed" /\ pc'[TimerThread] = "check"
         /\ k'.stat = k.stat /\ k.stat[TimerThread] = "READY"
<1>1. /\ At(TimerThread, "delayed") /\ Goto(TimerThread, "check")
      /\ k' = IF k.err[TimerThread] = RT_ETIMEOUT THEN SetErr(k, TimerThread, RT_EOK) ELSE k
  BY DEF DelayReturn, TAt, TGoto
<1>2. "delayed" \notin Dozes /\ "check" \in EntryPC /\ "check" \in TimerPC
  BY DEF Dozes, EntryPC, TimerPC
<1>3. k.cur = TimerThread /\ pc[TimerThread] = "delayed" /\ k.stat[TimerThread] = "READY"
  BY <1>1, <1>2, EntryRuns
<1>4. CASE k' = k
  BY <1>1, <1>2, <1>3, <1>4, EntryStill
<1>5. CASE k' = SetErr(k, TimerThread, RT_EOK)
  <2>1. RT_EOK \in ErrNo /\ IpcOK(TimerPC, Sleeps, Dozes)
    BY TimerKernel DEF ErrNo, TimerKernelOK
  <2>2. /\ IpcOK(TimerPC, Sleeps, Dozes)' /\ Moves(TimerPC, TimerThread)
        /\ Noted(k', k, TimerThread, RT_EOK) /\ pc'[TimerThread] = "check"
    BY <1>1, <1>2, <1>5, <2>1, NoteStep
  <2>3. TimerPlaces'
    BY <1>2, <2>2, TimerPlacesKept, TimerFacts DEF TimerKernelOK
  <2>4. TimerRanks'
    BY <1>3, <2>2, EntryRanks DEF TimerKernelOK, Noted
  <2> QED BY <1>3, <2>2, <2>3, <2>4 DEF TimerKernelOK, TimerLists, Noted
<1> QED BY <1>1, <1>4, <1>5

\* The timer thread suspends itself, with or without its timer.
LEMMA EntrySuspends ==
  ASSUME TimerKernelOK, At(TimerThread, "nap"), NEW m \in Dozes, Goto(TimerThread, m),
         k' = IF m = "delaying" THEN Started(rt_thread_suspend(k, TimerThread), TimerThread)
              ELSE rt_thread_suspend(k, TimerThread)
  PROVE  TimerKernelOK' /\ Moves(TimerPC, TimerThread) /\ pc'[TimerThread] = m
<1> DEFINE h == rt_thread_suspend(k, TimerThread)
<1>1. "nap" \notin Dozes /\ TimerThread \in Thread \ {Idle}
  BY TimerFacts DEF Dozes
<1>2. k.cur = TimerThread /\ k.stat[TimerThread] = "READY"
  BY <1>1, EntryRuns
<1>3. Sound(k) /\ IpcOK(TimerPC, Sleeps, Dozes)
  BY TimerKernel DEF TimerKernelOK
<1>4. Sound(h) /\ Slept(h, k, TimerThread)
  BY <1>1, <1>2, <1>3, SuspendSleeps
<1>5. Sound(k') /\ Slept(k', k, TimerThread)
  <2>1. CASE m = "delaying"
    <3>1. k' = Started(rt_thread_suspend(k, TimerThread), TimerThread)
      BY <2>1
    <3> HIDE DEF h
    <3> QED BY <1>1, <1>2, <1>3, <3>1, StartedSleeps
  <2>2. CASE m # "delaying"
    BY <1>4, <2>2
  <2> QED BY <2>1, <2>2
<1>6. m \in TimerPC /\ m \in EntryPC /\ m \in Sleeps \cap Dozes
  BY PlacesSorts
<1>7. Moves(TimerPC, TimerThread) /\ pc'[TimerThread] = m
  BY <1>1, <1>3, <1>6, GotoMoves DEF IpcOK
<1>8. IpcOK(TimerPC, Sleeps, Dozes)'
  BY <1>1, <1>2, <1>3, <1>5, <1>6, <1>7, SuspendedKeeps DEF Slept
<1>9. TimerPlaces'
  BY <1>1, <1>6, <1>7, TimerPlacesKept DEF TimerKernelOK
<1>10. TimerRanks'
  BY <1>2, <1>5, EntryRanks DEF TimerKernelOK, Slept
<1> QED BY <1>7, <1>8, <1>9, <1>10 DEF TimerKernelOK, TimerLists

\* The processor goes to a thread that none outranks.
LEMMA SwitchRanks ==
  ASSUME TimerRanks, TimerOutranks, k'.prio = k.prio, Topmost(k')
  PROVE  TimerRanks'
<1>1. InitPrio \in [Thread -> Prio] /\ k'.prio = InitPrio
  BY KernelAssumption DEF TimerRanks
<1>2. k'.stat[TimerThread] = "READY" => k'.cur \notin TimerUsers
  <2> SUFFICES ASSUME k'.stat[TimerThread] = "READY", k'.cur \in TimerUsers PROVE FALSE
    OBVIOUS
  <2>1. /\ InitPrio[k'.cur] <= InitPrio[TimerThread]
        /\ InitPrio[TimerThread] < InitPrio[k'.cur]
    BY <1>1, TimerFacts DEF Topmost, TimerOutranks
  <2>2. InitPrio[k'.cur] \in Int /\ InitPrio[TimerThread] \in Int
    BY <1>1, TimerFacts DEF Prio, RT_THREAD_PRIORITY_MAX
  <2> QED BY <2>1, <2>2
<1> QED BY <1>1, <1>2 DEF TimerRanks

\* rt_timer_start resumes the timer thread.
LEMMA UserResumes ==
  ASSUME TimerKernelOK, NEW t \in Thread, StartResume(t)
  PROVE  /\ TimerKernelOK' /\ Moves(TimerPC, t) /\ t # TimerThread /\ t \in TimerUsers
         /\ pc[t] = "start_resume" /\ pc'[t] = "sched" /\ k'.stat[TimerThread] = "READY"
         /\ k.stat[TimerThread] = "SUSPEND" /\ pc[TimerThread] \in Sleeps
<1>1. /\ At(t, "start_resume") /\ Goto(t, "sched")
      /\ \/ k' = ResumeSection(k, TimerThread)
         \/ k.stat[TimerThread] # "SUSPEND" /\ k' = k
  BY DEF StartResume
<1>2. t # TimerThread /\ t \in TimerUsers /\ t \in Thread \ {TimerThread}
  BY <1>1 DEF At, TimerKernelOK, TimerPlaces, EntryPC
<1>3. /\ "start_resume" \notin Dozes /\ k.cur = t /\ pc[t] = "start_resume"
      /\ k.stat[TimerThread] = "SUSPEND" /\ pc[TimerThread] \in Sleeps
  BY <1>1, <1>2, UserRuns
<1>4. k' = rt_thread_resume(k, TimerThread) /\ Sound(k) /\ TimerThread \in Thread
  BY <1>1, <1>3, TimerKernel, TimerFacts DEF rt_thread_resume, TimerKernelOK
<1>5. Sound(k') /\ Roused(k', k, TimerThread, k.err[TimerThread]) /\ k'.cur = k.cur
  BY <1>3, <1>4, ResumeRouses
<1>6. "sched" \in TimerPC /\ "sched" \in UserPC /\ IpcOK(TimerPC, Sleeps, Dozes)
  BY TimerKernel DEF TimerPC, UserPC, TimerKernelOK
<1>7. IpcOK(TimerPC, Sleeps, Dozes)' /\ Moves(TimerPC, t) /\ pc'[t] = "sched"
  BY <1>1, <1>3, <1>4, <1>5, <1>6, RouseStep
<1>8. TimerPlaces'
  BY <1>2, <1>6, <1>7, TimerPlacesKept DEF TimerKernelOK
<1>9. TimerRanks'
  BY <1>3, <1>5, <1>7 DEF TimerKernelOK, TimerRanks, Roused
<1>10. k'.stat[TimerThread] = "READY"
  BY <1>4, <1>5, TimerKernel DEF Roused, TimerKernelOK
<1> QED BY <1>2, <1>3, <1>7, <1>8, <1>9, <1>10 DEF TimerKernelOK, TimerLists

\* So does an interrupt handler.
LEMMA IsrResumes ==
  ASSUME TimerKernelOK, TimerOutranks, pc' = pc,
         k' = IF k.stat[TimerThread] # "READY"
              THEN rt_schedule(rt_thread_resume(k, TimerThread)) ELSE k
  PROVE  TimerKernelOK' /\ k'.stat[TimerThread] = "READY"
<1>1. CASE k.stat[TimerThread] = "READY"
  BY <1>1, TimerStays
<1>2. CASE k.stat[TimerThread] # "READY"
  <2> DEFINE j == rt_thread_resume(k, TimerThread)
             t == TimerThread
  <2>1. /\ t \in Thread /\ k.stat[t] = "SUSPEND" /\ Sound(k) /\ pc[t] \in Sleeps
        /\ IpcOK(TimerPC, Sleeps, Dozes) /\ pc \in [Thread -> TimerPC] /\ k.stat \in [Thread -> Stat]
    BY <1>2, TimerKernel, TimerFacts DEF TimerKernelOK
  <2>2. Sound(j) /\ Roused(j, k, t, k.err[t])
    BY <2>1, ResumeRouses
  <2>3. k' = rt_schedule(j)
    BY <1>2
  <2> HIDE DEF j
  <2>4. Sound(k') /\ Calm(k', j) /\ k'.stat[k'.cur] = "READY"
    BY <2>2, <2>3, ScheduleCalm
  <2>5. Topmost(k') /\ k'.prio = j.prio
    BY <2>2, <2>3, ScheduleTopmost
  <2>6. Roused(k', k, t, k.err[t])
    BY <2>2, <2>4 DEF Roused, Calm
  <2>7. Moves(TimerPC, t) /\ pc'[t] = pc[t]
    BY <2>1, StayMoves
  <2>8. IpcOK(TimerPC, Sleeps, Dozes)'
    BY <2>1, <2>4, <2>6, <2>7, RousedKeeps
  <2>9. TimerRanks'
    BY <2>2, <2>5, SwitchRanks DEF TimerKernelOK, Roused
  <2>10. TimerPlaces'
    BY DEF TimerKernelOK, TimerPlaces
  <2>11. k'.stat[t] = "READY"
    BY <2>1, <2>6 DEF Roused
  <2> QED BY <2>8, <2>9, <2>10, <2>11 DEF TimerKernelOK, TimerLists
<1> QED BY <1>1, <1>2

\* The delay of the timer thread is over.
LEMMA DelayOverKernel ==
  ASSUME TimerKernelOK, TimerOutranks, DelayOver
  PROVE  TimerKernelOK' /\ pc' = pc /\ k'.stat[TimerThread] = "READY"
<1>1. TickTimeout(TimerThread) /\ TimerThread \in Thread
  BY TimerFacts DEF DelayOver
<1>2. /\ IpcOK(TimerPC, Sleeps, Dozes)' /\ Roused(k', k, TimerThread, RT_ETIMEOUT) /\ pc' = pc
  BY <1>1, TimeoutStep, TimerKernel DEF TimerKernelOK
<1>3. k.armed[TimerThread] /\ k' = rt_thread_timeout(k, TimerThread) /\ Sound(k)
  BY <1>1, TimerKernel DEF TickTimeout, TimerKernelOK
<1>4. Topmost(k') /\ k'.prio = k.prio
  BY <1>1, <1>3, TimeoutTopmost
<1>5. TimerRanks'
  BY <1>4, SwitchRanks DEF TimerKernelOK
<1>6. TimerPlaces'
  BY <1>2 DEF TimerKernelOK, TimerPlaces
<1>7. k'.stat[TimerThread] = "READY"
  BY <1>1, <1>2, TimerKernel DEF Roused, TimerKernelOK
<1> QED BY <1>2, <1>5, <1>6, <1>7 DEF TimerKernelOK, TimerLists

\* The tick, with the end of a time slice or without.
LEMMA TimerTick ==
  ASSUME TimerKernelOK, TimerOutranks, TickIncrease
  PROVE  TimerKernelOK' /\ pc' = pc /\ k'.stat = k.stat
<1>1. CASE UNCHANGED <<k, pc>>
  BY <1>1, TimerStays
<1>2. CASE TickSlice
  <2>1. IpcOK(TimerPC, Sleeps, Dozes)' /\ pc' = pc
    BY <1>2, SliceStep, TimerKernel DEF TimerKernelOK
  <2>2. Sound(k) /\ k' = rt_thread_yield(k)
    BY <1>2, TimerKernel DEF TickSlice, TimerKernelOK
  <2>3. (k'.cur # k.cur => Topmost(k')) /\ k'.prio = k.prio /\ k'.stat = k.stat
    BY <2>2, YieldTopmost
  <2>4. TimerRanks'
    <3>1. CASE k'.cur = k.cur
      BY <2>1, <2>3, <3>1 DEF TimerKernelOK, TimerRanks
    <3>2. CASE k'.cur # k.cur
      BY <2>3, <3>2, SwitchRanks DEF TimerKernelOK
    <3> QED BY <3>1, <3>2
  <2>5. TimerPlaces'
    BY <2>1 DEF TimerKernelOK, TimerPlaces
  <2> QED BY <2>1, <2>3, <2>4, <2>5 DEF TimerKernelOK, TimerLists
<1> QED BY <1>1, <1>2 DEF TickIncrease

\* rt_schedule().
LEMMA TimerSched ==
  ASSUME TimerKernelOK, TimerOutranks, Sched
  PROVE  /\ TimerKernelOK' /\ k'.stat = k.stat
         /\ \E t \in Thread : /\ Moves(TimerPC, t)
                              /\ \/ t = TimerThread /\ pc[t] = "suspended" /\ pc'[t] = "check"
                                 \/ t = TimerThread /\ pc[t] = "delaying" /\ pc'[t] = "delayed"
                                 \/ t # TimerThread /\ pc[t] = "sched" /\ pc'[t] = "run"
<1>1. PICK t \in Thread, l \in TimerPC, m \in TimerPC :
        /\ Schedule(t, l, m)
        /\ \/ t = TimerThread /\ l = "suspended" /\ m = "check"
           \/ t = TimerThread /\ l = "delaying" /\ m = "delayed"
           \/ t # TimerThread /\ l = "sched" /\ m = "run"
  BY TimerFacts DEF Sched, TimerPC
<1>2. m \in TimerPC /\ (l \in Dozes => m \in Sleeps) /\ IpcOK(TimerPC, Sleeps, Dozes)
  BY <1>1, TimerKernel DEF TimerPC, Dozes, Sleeps, TimerKernelOK
<1>3. /\ IpcOK(TimerPC, Sleeps, Dozes)' /\ Moves(TimerPC, t) /\ Calm(k', k)
      /\ pc[t] = l /\ pc'[t] = m
  BY <1>1, <1>2, ScheduleStep
<1>4. Sound(k) /\ k' = rt_schedule(k)
  BY <1>1, TimerKernel DEF Schedule, TimerKernelOK
<1>5. Topmost(k') /\ k'.prio = k.prio
  BY <1>4, ScheduleTopmost
<1>6. TimerRanks'
  BY <1>5, SwitchRanks DEF TimerKernelOK
<1>7. TimerPlaces'
  <2>1. pc'[t] \in IF t = TimerThread THEN EntryPC ELSE IF t \in TimerUsers THEN UserPC ELSE {"run"}
    BY <1>1, <1>3 DEF EntryPC, UserPC
  <2> QED BY <1>3, <2>1, TimerPlacesKept DEF TimerKernelOK
<1> QED BY <1>1, <1>3, <1>6, <1>7 DEF TimerKernelOK, TimerLists, Calm

-----------------------------------------------------------------------------
(* The list of timers. *)

SoftOK(q) == q \in SoftState /\ Injective(q.list)

LEMMA TickFacts ==
  /\ TickModulus \in Nat \ {0} /\ RT_TICK_MAX \in Nat /\ Half \in Nat /\ 2 * Half < TickModulus
  /\ Tick = 0 .. (TickModulus - 1) /\ Ticks \subseteq 0 .. (Half - 1) /\ Ticks # {}
  /\ MaxLate \in 1 .. Half /\ Stride \in Nat \ {0} /\ RT_TICK_MAX \in Tick
<1>1. /\ TickModulus \in Nat \ {0} /\ MaxLate \in 1 .. Half /\ Ticks \subseteq 0 .. (Half - 1)
      /\ Ticks # {} /\ Stride \in Nat \ {0}
  BY SoftTimerAssumption
<1>2. RT_TICK_MAX \in Nat /\ RT_TICK_MAX = TickModulus - 1
  BY <1>1 DEF RT_TICK_MAX
<1>3. Half \in Nat /\ 2 * Half <= RT_TICK_MAX
  BY <1>2 DEF Half
<1> QED BY <1>1, <1>2, <1>3 DEF Tick

LEMMA RemovedOK ==
  ASSUME NEW q, SoftOK(q), NEW x
  PROVE  /\ SoftOK(Removed(q, x)) /\ Removed(q, x).list = Unlink(q.list, x)
         /\ Nodes(Removed(q, x).list) = Nodes(q.list) \ {x}
         /\ Removed(q, x).active = q.active /\ Removed(q, x).due = q.due
         /\ Removed(q, x).init = q.init
<1> DEFINE u == Unlink(q.list, x)
<1>1. q.list \in Seq(Timer) /\ Injective(q.list) /\ q \in SoftState
  BY DEF SoftOK, SoftState
<1>2. u \in Seq(Timer) /\ Injective(u) /\ Nodes(u) = Nodes(q.list) \ {x}
  BY <1>1, UnlinkNodes
<1> HIDE DEF u
<1>3. Removed(q, x) = [q EXCEPT !.list = u]
  BY DEF Removed, u
<1> QED BY <1>1, <1>2, <1>3 DEF SoftOK, SoftState, u

LEMMA InactiveOK ==
  ASSUME NEW q, SoftOK(q), NEW x \in Timer
  PROVE  /\ SoftOK(Inactive(q, x)) /\ Inactive(q, x).list = q.list
         /\ Inactive(q, x).active = [q.active EXCEPT ![x] = FALSE]
         /\ Inactive(q, x).due = q.due /\ Inactive(q, x).init = q.init
  BY DEF SoftOK, SoftState, Inactive

LEMMA UnlinkedOK ==
  ASSUME NEW q, SoftOK(q), NEW x \in Timer, rt_tick \in Tick
  PROVE  /\ SoftOK(Unlinked(q, x)) /\ Unlinked(q, x).list = Unlink(q.list, x)
         /\ Nodes(Unlinked(q, x).list) = Nodes(q.list) \ {x}
         /\ Unlinked(q, x).active = [q.active EXCEPT ![x] = FALSE]
         /\ Unlinked(q, x).due = [q.due EXCEPT ![x] = (rt_tick + q.init[x]) % TickModulus]
         /\ Unlinked(q, x).init = q.init
<1> DEFINE r == Removed(q, x)
           d == (rt_tick + q.init[x]) % TickModulus
<1>1. /\ SoftOK(r) /\ r.list = Unlink(q.list, x) /\ Nodes(r.list) = Nodes(q.list) \ {x}
      /\ r.active = q.active /\ r.due = q.due /\ r.init = q.init
  BY RemovedOK
<1>2. d \in Tick
  <2>0. q.init \in [Timer -> Ticks] /\ rt_tick \in 0 .. (TickModulus - 1)
    BY TickFacts DEF SoftOK, SoftState
  <2>1. q.init[x] \in Nat /\ rt_tick \in Nat /\ TickModulus \in Nat \ {0}
    <3>1. q.init[x] \in Ticks /\ rt_tick \in Nat
      BY <2>0, TickFacts
    <3>2. Ticks \subseteq Nat
      BY TickFacts
    <3> QED BY <3>1, <3>2, TickFacts
  <2>2. rt_tick + q.init[x] \in Int
    BY <2>1
  <2> QED BY <2>1, <2>2, ModSplit, TickFacts
<1> DEFINE a == [q.active EXCEPT ![x] = FALSE]
           e == [q.due EXCEPT ![x] = d]
<1>3. Unlinked(q, x) = [r EXCEPT !.active = a, !.due = e]
  <2>1. Unlinked(q, x) = [r EXCEPT !.active = [@ EXCEPT ![x] = FALSE],
                                   !.due = [@ EXCEPT ![x] = d]]
    BY DEF Unlinked
  <2> HIDE DEF r, d
  <2>2. r \in SoftState
    BY <1>1 DEF SoftOK
  <2> QED BY <1>1, <2>1, <2>2 DEF SoftState
<1> HIDE DEF r, d
<1>4. a \in [Timer -> BOOLEAN] /\ e \in [Timer -> Tick]
  BY <1>2 DEF SoftOK, SoftState
<1> HIDE DEF a, e
<1>5. /\ SoftOK(Unlinked(q, x)) /\ Unlinked(q, x).list = r.list
      /\ Unlinked(q, x).active = a /\ Unlinked(q, x).due = e /\ Unlinked(q, x).init = r.init
  BY <1>1, <1>3, <1>4 DEF SoftOK, SoftState
<1> QED BY <1>1, <1>5 DEF a, e, d

\* Where rt_timer_start links timer x into the list.
Slot(q, x, i) ==
  /\ i \in 1 .. (Len(q.list) + 1)
  /\ \A j \in 1 .. (i - 1) : ~Later(q.due[q.list[j]], q.due[x])
  /\ i <= Len(q.list) => Later(q.due[q.list[i]], q.due[x])

LEMMA LinkedOK ==
  ASSUME NEW q, SoftOK(q), NEW x \in Timer, x \notin Nodes(q.list)
  PROVE  /\ SoftOK(TimerLinked(q, x)) /\ Nodes(TimerLinked(q, x).list) = Nodes(q.list) \cup {x}
         /\ TimerLinked(q, x).active = [q.active EXCEPT ![x] = TRUE]
         /\ TimerLinked(q, x).due = q.due /\ TimerLinked(q, x).init = q.init
         /\ \E i : Slot(q, x, i) /\ TimerLinked(q, x).list = InsertBefore(q.list, i, x)
<1> DEFINE late == {m \in 1 .. Len(q.list) : Later(q.due[q.list[m]], q.due[x])}
           i == IF late = {} THEN Len(q.list) + 1
                ELSE CHOOSE j \in late : \A m \in late : j <= m
           u == InsertBefore(q.list, i, x)
<1>1. q.list \in Seq(Timer) /\ Injective(q.list) /\ q \in SoftState /\ Len(q.list) \in Nat
  BY DEF SoftOK, SoftState
<1>2. Slot(q, x, i)
  <2>1. CASE late = {}
    <3>1. i = Len(q.list) + 1
      BY <2>1
    <3>2. \A j \in 1 .. Len(q.list) : ~Later(q.due[q.list[j]], q.due[x])
      BY <2>1
    <3> HIDE DEF i
    <3> QED BY <1>1, <3>1, <3>2 DEF Slot
  <2>2. CASE late # {}
    <3>1. late \in SUBSET Nat
      BY <1>1
    <3>2. i = rt_ffs(late)
      BY <2>2 DEF rt_ffs
    <3> HIDE DEF i
    <3>3. i \in late /\ \A c \in late : i <= c
      BY <2>2, <3>1, <3>2, rt_ffsLowest
    <3>4. i \in 1 .. Len(q.list) /\ Later(q.due[q.list[i]], q.due[x])
      BY <3>3
    <3>5. \A j \in 1 .. (i - 1) : j \notin late /\ j \in 1 .. Len(q.list)
      BY <1>1, <3>3, <3>4
    <3>6. \A j \in 1 .. (i - 1) : ~Later(q.due[q.list[j]], q.due[x])
      BY <3>5
    <3> QED BY <1>1, <3>4, <3>6 DEF Slot
  <2> QED BY <2>1, <2>2
<1>3. TimerLinked(q, x) = [q EXCEPT !.list = u, !.active = [@ EXCEPT ![x] = TRUE]]
  BY DEF TimerLinked
<1> HIDE DEF i
<1>4. u \in Seq(Timer) /\ Injective(u) /\ Nodes(u) = Nodes(q.list) \cup {x}
  BY <1>1, <1>2, InsertNodes DEF Slot
<1>5. TimerLinked(q, x).list = u
  BY <1>1, <1>3 DEF SoftState
<1>6. Slot(q, x, i) /\ TimerLinked(q, x).list = InsertBefore(q.list, i, x)
  BY <1>2, <1>5
<1> DEFINE a == [q.active EXCEPT ![x] = TRUE]
<1>7. a \in [Timer -> BOOLEAN]
  BY <1>1 DEF SoftState
<1>8. TimerLinked(q, x) = [q EXCEPT !.list = u, !.active = a]
  BY <1>1, <1>3 DEF SoftState
<1> HIDE DEF u, a
<1>9. /\ SoftOK(TimerLinked(q, x)) /\ TimerLinked(q, x).list = u
      /\ TimerLinked(q, x).active = a
      /\ TimerLinked(q, x).due = q.due /\ TimerLinked(q, x).init = q.init
  BY <1>1, <1>4, <1>7, <1>8 DEF SoftOK, SoftState
<1> QED BY <1>4, <1>6, <1>9 DEF a

\* The node after x.
LEMMA NextNodeOK ==
  ASSUME NEW q, SoftOK(q), NEW x \in Nodes(q.list)
  PROVE  NextNode(q, x) = NoTimer \/ NextNode(q, x) \in Nodes(q.list) \ {x}
<1> DEFINE i == CHOOSE j \in 1 .. Len(q.list) : q.list[j] = x
<1>1. q.list \in Seq(Timer) /\ Injective(q.list) /\ Len(q.list) \in Nat
  BY DEF SoftOK, SoftState
<1>2. i \in 1 .. Len(q.list) /\ q.list[i] = x
  BY DEF Nodes
<1>3. NextNode(q, x) = IF i = Len(q.list) THEN NoTimer ELSE q.list[i + 1]
  BY DEF NextNode
<1> HIDE DEF i
<1>4. CASE i # Len(q.list)
  <2>1. i + 1 \in 1 .. Len(q.list) /\ i + 1 # i
    BY <1>1, <1>2, <1>4
  <2>2. q.list[i + 1] \in Nodes(q.list) /\ q.list[i + 1] # x
    BY <1>1, <1>2, <2>1 DEF Nodes, Injective
  <2> QED BY <1>3, <1>4, <2>2
<1> QED BY <1>3, <1>4

LEMMA FirstOK ==
  ASSUME NEW q, SoftOK(q)
  PROVE  First(q) = NoTimer \/ First(q) \in Nodes(q.list)
<1>1. q.list \in Seq(Timer)
  BY DEF SoftOK, SoftState
<1> QED BY <1>1, EmptyNodes DEF First

-----------------------------------------------------------------------------
(* The invariant, action by action. *)

LEMMA InvariantParts ==
  ASSUME TimerInvariant
  PROVE  /\ TimerKernelOK /\ TimerLocals /\ Subjects /\ SoftOK(soft)
         /\ pc \in [Thread -> TimerPC] /\ TimerThread \in Thread
         /\ Agrees(soft, pc, subject, calling) /\ Follows(soft, pc, subject, calling, following)
<1>1. TimerLists /\ TimerPlaces /\ TimerRanks /\ TimerLocals /\ Subjects
  BY DEF TimerInvariant, TimerControl
<1>2. Agrees(soft, pc, subject, calling) /\ Follows(soft, pc, subject, calling, following)
  BY DEF TimerInvariant
<1> QED BY <1>1, <1>2, TimerKernel, TimerFacts DEF TimerKernelOK, Agrees, SoftOK

LEMMA InvariantWhole ==
  ASSUME TimerKernelOK', TimerLocals', Subjects', Agrees(soft, pc, subject, calling)',
         Follows(soft, pc, subject, calling, following)'
  PROVE  TimerInvariant'
  BY DEF TimerKernelOK, TimerInvariant, TimerControl

\* While a user of timers runs, no timer is being called.
LEMMA UserAlone ==
  ASSUME TimerInvariant, NEW t \in Thread, t # TimerThread, NEW l, At(t, l), l # "sched",
         t \in TimerUsers
  PROVE  calling = NoTimer /\ following = NoTimer /\ pc[t] = l
<1>1. pc[TimerThread] \in Sleeps /\ pc[t] = l
  BY UserRuns, InvariantParts
<1>2. pc[TimerThread] \notin Expiring
  BY <1>1, PlacesSorts
<1> QED BY <1>1, <1>2, InvariantParts DEF TimerLocals

\* A step of t changes its own subject and control point only.
LEMMA SubjectsKept ==
  ASSUME Subjects, NEW t \in Thread, calling' = calling,
         \A u \in Thread \ {t} : pc'[u] = pc[u] /\ subject'[u] = subject[u],
         Subject(t, pc'[t], subject'[t])
  PROVE  Subjects'
<1> SUFFICES ASSUME NEW u \in Thread PROVE Subject(u, pc[u], subject[u])'
  BY DEF Subjects
<1>1. Subject(u, pc'[u], subject'[u])
  BY DEF Subjects
<1> QED BY <1>1 DEF Subject

\* The caller of rt_timer_start or rt_timer_stop, or of what they do next.
LEMMA CallerFacts ==
  ASSUME TimerInvariant, NEW t \in Thread, NEW l, At(t, l),
         l \in {"callback", "run"} \cup Starting \cup Stopping,
         l = "run" => t \in TimerUsers
  PROVE  /\ l \notin Dozes /\ pc[t] = l /\ l # "sched"
         /\ t # TimerThread => t \in TimerUsers /\ calling = NoTimer /\ following = NoTimer
         /\ t = TimerThread => calling \in Timer /\ l \in Expiring
         /\ l \in Starting \cup Stopping => subject[t] \in Timer
<1>1. pc[t] = l /\ l \notin Dozes /\ l # "sched"
  BY DEF At, Dozes, Starting, Stopping
<1>2. ASSUME t # TimerThread PROVE t \in TimerUsers /\ calling = NoTimer /\ following = NoTimer
  <2>1. l # "run" => pc[t] # "run"
    BY <1>1
  <2>2. t \in TimerUsers
    BY <1>1, <1>2, <2>1, InvariantParts DEF TimerKernelOK, TimerPlaces
  <2> QED BY <1>1, <1>2, <2>2, UserAlone
<1>3. ASSUME t = TimerThread PROVE calling \in Timer /\ l \in Expiring
  <2>1. l # "run"
    BY <1>3, TimerFacts
  <2>2. l \in Expiring
    BY <2>1 DEF Expiring
  <2> QED BY <1>1, <1>3, <2>2, InvariantParts DEF TimerLocals
<1>4. l \in Starting \cup Stopping => subject[t] \in Timer
  BY <1>1, InvariantParts DEF Subjects, Subject, TimerLocals
<1> QED BY <1>1, <1>2, <1>3, <1>4

\* The caller goes on at m, and the kernel is left alone.
LEMMA CallerStill ==
  ASSUME TimerInvariant, NEW t \in Thread, NEW l, At(t, l),
         l \in {"callback", "run"} \cup Starting \cup Stopping,
         l = "run" => t \in TimerUsers, k' = k, NEW m, Goto(t, m),
         m \in IF t = TimerThread THEN Expiring ELSE UserPC,
         calling' = calling, following' = following, rt_tick' = rt_tick,
         next_timeout' = next_timeout, current_tick' = current_tick,
         subject' \in [Thread -> Timer \cup {NoTimer}]
  PROVE  TimerKernelOK' /\ TimerLocals' /\ Moves(TimerPC, t) /\ pc'[t] = m
<1>1. /\ l \notin Dozes /\ l # "sched" /\ TimerKernelOK /\ TimerLocals /\ TimerThread \in Thread
      /\ t # TimerThread => t \in TimerUsers
      /\ t = TimerThread => l \in Expiring
      /\ pc[t] = l
  BY CallerFacts, InvariantParts
<1>2. TimerKernelOK' /\ Moves(TimerPC, t) /\ pc'[t] = m
  <2>1. CASE t = TimerThread
    <3>1. m \in EntryPC
      BY <2>1, PlacesSorts
    <3> QED BY <1>1, <2>1, <3>1, EntryStill
  <2>2. CASE t # TimerThread
    BY <1>1, <2>2, UserStill
  <2> QED BY <2>1, <2>2
<1>3. pc'[TimerThread] \in Expiring <=> pc[TimerThread] \in Expiring
  BY <1>1, <1>2 DEF Moves
<1>4. TimerLocals'
  BY <1>1, <1>3 DEF TimerLocals
<1> QED BY <1>2, <1>4

LEMMA TimerStartInv ==
  ASSUME TimersApart, TimerInvariant, NEW t \in Thread, NEW x \in Timer, rt_timer_start(t, x)
  PROVE  TimerInvariant'
<1> DEFINE l == Caller(t)
<1>1. /\ At(t, l) /\ MayStart(t, x) /\ soft' = Unlinked(soft, x)
      /\ subject' = [subject EXCEPT ![t] = x] /\ Goto(t, "start_link") /\ k' = k
      /\ rt_tick' = rt_tick /\ next_timeout' = next_timeout /\ following' = following
      /\ current_tick' = current_tick /\ calling' = calling
  BY DEF rt_timer_start, With, entry_locals
<1>2. l \in {"callback", "run"} /\ l \notin Away /\ l # "stop_clear"
  BY DEF Caller, Away
<1>3. l = "run" => t \in TimerUsers
  BY <1>1, TimerFacts DEF Caller, MayStart
<1> HIDE DEF l
<1>4. /\ pc[t] = l /\ (t # TimerThread => calling = NoTimer /\ following = NoTimer)
      /\ t = TimerThread => calling \in Timer
  BY <1>1, <1>2, <1>3, CallerFacts
<1>5. "start_link" \in IF t = TimerThread THEN Expiring ELSE UserPC
  BY DEF Expiring, Starting, UserPC
<1>6. subject \in [Thread -> Timer \cup {NoTimer}] /\ rt_tick \in Tick
  BY InvariantParts DEF TimerLocals
<1>7. subject' \in [Thread -> Timer \cup {NoTimer}] /\ subject'[t] = x
  BY <1>1, <1>6
<1>8. TimerKernelOK' /\ TimerLocals' /\ Moves(TimerPC, t) /\ pc'[t] = "start_link"
  BY <1>1, <1>2, <1>3, <1>5, <1>7, CallerStill
<1>9. \A u \in Thread \ {t} : pc'[u] = pc[u] /\ subject'[u] = subject[u]
  BY <1>1, <1>6, <1>8 DEF Moves
<1>10. Subjects'
  <2>1. Subject(t, "start_link", x)
    BY <1>1, TimerFacts DEF Subject, Starting, Stopping, MayStart
  <2> QED BY <1>1, <1>7, <1>8, <1>9, <2>1, SubjectsKept, InvariantParts
<1>11. /\ SoftOK(soft') /\ Nodes(soft'.list) = Nodes(soft.list) \ {x}
       /\ soft'.active = [soft.active EXCEPT ![x] = FALSE]
  BY <1>1, <1>6, UnlinkedOK, InvariantParts
<1>12. Agrees(soft, pc, subject, calling) /\ soft \in SoftState
  BY InvariantParts DEF SoftOK
<1>13. Agrees(soft', pc', subject', calling)
  <2>1. soft' \in SoftState /\ Injective(soft'.list) /\ soft.active \in [Timer -> BOOLEAN]
    BY <1>11, <1>12 DEF SoftOK, SoftState
  <2>2. \A y \in Timer : soft'.active[y] <=> y # x /\ soft.active[y]
    BY <1>11, <2>1
  <2>3. \A y \in Nodes(soft'.list) : soft'.active[y]
    <3>1. \A y \in Nodes(soft.list) : y \in Timer /\ soft.active[y]
      BY <1>12, EmptyNodes DEF Agrees, SoftState
    <3> QED BY <1>11, <2>2, <3>1
  <2>4. ASSUME NEW y \in Timer, soft'.active[y], y \notin Nodes(soft'.list)
        PROVE  y = calling \/ \E u \in Thread : pc'[u] = "stop_clear" /\ subject'[u] = y
    <3>1. y # x /\ soft.active[y] /\ y \notin Nodes(soft.list)
      BY <1>11, <2>2, <2>4
    <3>2. y = calling \/ \E u \in Thread : pc[u] = "stop_clear" /\ subject[u] = y
      BY <1>12, <3>1 DEF Agrees
    <3> QED BY <1>2, <1>4, <1>9, <3>2
  <2>5. \A u \in Thread : pc'[u] \in Away => subject'[u] \notin Nodes(soft'.list)
    BY <1>7, <1>9, <1>11, <1>12 DEF Agrees
  <2>6. \A u \in Thread \ {TimerThread} : pc'[u] \in Away => subject'[u] # calling
    BY <1>4, <1>7, <1>9, <1>12, TimerFacts DEF Agrees
  <2>7. calling \in Nodes(soft'.list) => calling \in Periodic
    BY <1>11, <1>12 DEF Agrees
  <2> QED BY <2>1, <2>3, <2>4, <2>5, <2>6, <2>7 DEF Agrees
<1>14. Follows(soft', pc', subject', calling, following)
  <2>1. Follows(soft, pc, subject, calling, following)
    BY InvariantParts
  <2>2. CASE t = TimerThread
    BY <1>2, <1>4, <1>7, <1>8, <1>11, <2>1, <2>2 DEF Follows, Away
  <2>3. CASE t # TimerThread
    BY <1>4, <2>3 DEF Follows
  <2> QED BY <2>2, <2>3
<1> QED BY <1>1, <1>8, <1>10, <1>13, <1>14, InvariantWhole

\* x, which is not in the list, is linked into it by t or by an interrupt handler.
LEMMA LinkedAgrees ==
  ASSUME NEW q, NEW p, NEW u, NEW c, Agrees(q, p, u, c), NEW x \in Timer, x \notin Nodes(q.list),
         \A t \in Thread : p[t] \in Away => u[t] # x, x = c => x \in Periodic
  PROVE  Agrees(TimerLinked(q, x), p, u, c)
<1> DEFINE r == TimerLinked(q, x)
<1>1. SoftOK(q) /\ q.active \in [Timer -> BOOLEAN] /\ Nodes(q.list) \subseteq Timer
  BY EmptyNodes DEF Agrees, SoftOK, SoftState
<1>2. /\ SoftOK(r) /\ Nodes(r.list) = Nodes(q.list) \cup {x}
      /\ r.active = [q.active EXCEPT ![x] = TRUE]
  BY <1>1, LinkedOK
<1> HIDE DEF r
<1>3. \A y \in Timer : r.active[y] <=> y = x \/ q.active[y]
  BY <1>1, <1>2
<1>4. \A y \in Nodes(r.list) : r.active[y]
  BY <1>1, <1>2, <1>3 DEF Agrees
<1>5. \A y \in Timer : r.active[y] /\ y \notin Nodes(r.list) =>
        y = c \/ \E t \in Thread : p[t] = "stop_clear" /\ u[t] = y
  BY <1>2, <1>3 DEF Agrees
<1>6. \A t \in Thread : p[t] \in Away => u[t] \notin Nodes(r.list)
  BY <1>2 DEF Agrees
<1>7. c \in Nodes(r.list) => c \in Periodic
  BY <1>2 DEF Agrees
<1> QED BY <1>2, <1>4, <1>5, <1>6, <1>7 DEF Agrees, SoftOK, r

\* The list stays as it is; t, which is not at "stop_clear", leaves what it was about.
LEMMA LeftAgrees ==
  ASSUME NEW q, NEW c, Agrees(q, pc, subject, c), NEW t \in Thread,
         \A v \in Thread \ {t} : pc'[v] = pc[v] /\ subject'[v] = subject[v],
         pc[t] # "stop_clear" \/ ~q.active[subject[t]], pc'[t] \notin Away
  PROVE  Agrees(q, pc', subject', c)
<1>1. \A y \in Timer : q.active[y] /\ y \notin Nodes(q.list) =>
        y = c \/ \E v \in Thread : pc'[v] = "stop_clear" /\ subject'[v] = y
  BY DEF Agrees
<1> QED BY <1>1 DEF Agrees

\* Nobody else is in the middle of a call about the timer that t links.
LEMMA SubjectsApart ==
  ASSUME TimersApart, TimerInvariant, NEW t \in Thread, At(t, "start_link"),
         NEW u \in Thread, u # t, pc[u] \in Away
  PROVE  subject[u] # subject[t]
<1>1. /\ Subject(t, pc[t], subject[t]) /\ Subject(u, pc[u], subject[u])
      /\ Agrees(soft, pc, subject, calling) /\ pc[t] = "start_link"
  BY InvariantParts DEF Subjects, At
<1>2. /\ pc[u] \in Starting \cup Stopping /\ pc[t] \in Starting /\ "start_link" # "sched"
      /\ "start_link" \in Starting /\ "start_link" # "run"
  BY <1>1 DEF Away, Starting, Stopping
<1>3. CASE t # TimerThread
  <2>1. t \in TimerUsers
    BY <1>2, <1>3, CallerFacts
  <2>2. pc[TimerThread] \in Sleeps
    BY <1>2, <1>3, <2>1, UserRuns, InvariantParts
  <2>3. u # TimerThread
    BY <2>2 DEF Sleeps, Away
  <2>4. <<t, subject[t]>> \in Uses /\ <<u, subject[u]>> \in Uses /\ subject[t] \in Timer
    BY <1>1, <1>2, <1>3, <2>3, TimerFacts DEF Subject
  <2> QED BY <2>4 DEF TimersApart
<1>4. CASE t = TimerThread
  <2>1. <<calling, subject[t]>> \in CallStarts /\ <<u, subject[u]>> \in Uses
    BY <1>1, <1>2, <1>4 DEF Subject
  <2>2. calling \in Timer /\ subject[t] \in Timer /\ subject[u] # calling
    BY <1>1, <1>4, <2>1, TimerFacts DEF Agrees
  <2> QED BY <2>1, <2>2 DEF TimersApart
<1> QED BY <1>3, <1>4

LEMMA StartLinkInv ==
  ASSUME TimersApart, TimerInvariant, NEW t \in Thread, StartLink(t)
  PROVE  TimerInvariant'
<1> DEFINE x == subject[t]
<1>1. /\ At(t, "start_link") /\ soft' = TimerLinked(soft, x) /\ Goto(t, "start_check") /\ k' = k
      /\ subject' = subject /\ rt_tick' = rt_tick /\ next_timeout' = next_timeout
      /\ following' = following /\ current_tick' = current_tick /\ calling' = calling
  BY DEF StartLink, entry_locals
<1>2. "start_link" \in Starting /\ "start_link" # "run" /\ "start_link" \in Away
  BY DEF Starting, Away
<1>3. /\ pc[t] = "start_link" /\ x \in Timer
      /\ t # TimerThread => calling = NoTimer /\ following = NoTimer
      /\ t = TimerThread => calling \in Timer
  BY <1>1, <1>2, CallerFacts
<1>4. "start_check" \in IF t = TimerThread THEN Expiring ELSE UserPC
  BY DEF Expiring, Starting, UserPC
<1>5. subject' \in [Thread -> Timer \cup {NoTimer}]
  BY <1>1, InvariantParts DEF TimerLocals
<1>6. TimerKernelOK' /\ TimerLocals' /\ Moves(TimerPC, t) /\ pc'[t] = "start_check"
  BY <1>1, <1>2, <1>4, <1>5, CallerStill
<1>7. \A u \in Thread \ {t} : pc'[u] = pc[u] /\ subject'[u] = subject[u]
  BY <1>1, <1>6 DEF Moves
<1>8. Subject(t, "start_link", x) /\ Agrees(soft, pc, subject, calling) /\ SoftOK(soft)
  BY <1>3, InvariantParts DEF Subjects
<1>9. Subjects'
  <2>1. Subject(t, "start_check", x)
    BY <1>8 DEF Subject, Starting, Stopping
  <2> QED BY <1>1, <1>6, <1>7, <2>1, SubjectsKept, InvariantParts
<1>10. x \notin Nodes(soft.list)
  BY <1>2, <1>3, <1>8 DEF Agrees
<1>11. Agrees(soft, pc', subject', calling)
  BY <1>3, <1>6, <1>7, <1>8, LeftAgrees DEF Away
<1>12. x = calling => x \in Periodic
  <2> SUFFICES ASSUME x = calling PROVE x \in Periodic
    OBVIOUS
  <2>1. t = TimerThread
    BY <1>3, TimerFacts
  <2>2. <<calling, x>> \in CallStarts
    BY <1>2, <1>8, <2>1 DEF Subject
  <2> QED BY <1>3, <2>2 DEF TimersApart
<1>13. \A u \in Thread : pc'[u] \in Away => subject'[u] # x
  <2> SUFFICES ASSUME NEW u \in Thread, pc'[u] \in Away PROVE subject'[u] # x
    OBVIOUS
  <2>1. u # t
    BY <1>6 DEF Away
  <2> QED BY <1>1, <1>7, <2>1, SubjectsApart
<1> HIDE DEF x
<1>14. Agrees(soft', pc', subject', calling)
  BY <1>1, <1>3, <1>10, <1>11, <1>12, <1>13, LinkedAgrees
<1>15. Follows(soft', pc', subject', calling, following)
  <2>1. Follows(soft, pc, subject, calling, following)
    BY InvariantParts
  <2>2. Nodes(soft'.list) = Nodes(soft.list) \cup {x}
    BY <1>1, <1>3, <1>8, <1>10, LinkedOK
  <2>3. CASE t = TimerThread
    BY <2>1, <2>2, <2>3 DEF Follows, x
  <2>4. CASE t # TimerThread
    BY <1>3, <2>4 DEF Follows
  <2> QED BY <2>3, <2>4
<1> QED BY <1>1, <1>6, <1>9, <1>14, <1>15, InvariantWhole

\* What StartCheck and the stops share: t leaves its call, or goes on in it.
LEMMA FollowsKept ==
  ASSUME TimerInvariant, NEW t \in Thread, pc[t] # "start_link",
         \A u \in Thread \ {t} : pc'[u] = pc[u] /\ subject'[u] = subject[u],
         NEW q, \A y \in Nodes(soft.list) : y = following => y \in Nodes(q.list)
  PROVE  Follows(q, pc', subject', calling, following)
  BY InvariantParts DEF Follows

LEMMA StartCheckInv ==
  ASSUME TimerInvariant, NEW t \in Thread, StartCheck(t)
  PROVE  TimerInvariant'
<1> DEFINE m == IF k.stat[TimerThread] = "READY" THEN Back(t) ELSE "start_resume"
<1>1. /\ At(t, "start_check") /\ Goto(t, m) /\ k' = k /\ soft' = soft
      /\ subject' = [subject EXCEPT ![t] = NoTimer] /\ rt_tick' = rt_tick
      /\ next_timeout' = next_timeout
      /\ following' = following /\ current_tick' = current_tick /\ calling' = calling
  BY DEF StartCheck, entry_locals, With
<1>2. "start_check" \in Starting /\ "start_check" # "run" /\ "start_check" \notin Dozes
  BY DEF Starting, Dozes
<1>3. pc[t] = "start_check" /\ TimerKernelOK
  BY <1>1, <1>2, CallerFacts, InvariantParts
<1>4. m \in IF t = TimerThread THEN Expiring ELSE UserPC
  <2>1. t = TimerThread => k.stat[TimerThread] = "READY"
    BY <1>1, <1>2, <1>3, EntryRuns
  <2> QED BY <2>1 DEF Expiring, UserPC, Back
<1>5. m \notin Away /\ m \notin Starting \cup Stopping
  BY DEF Away, Starting, Stopping, Back
<1> HIDE DEF m
<1>6. subject \in [Thread -> Timer \cup {NoTimer}]
  BY InvariantParts DEF TimerLocals
<1>7. subject' \in [Thread -> Timer \cup {NoTimer}] /\ subject'[t] = NoTimer
  BY <1>1, <1>6
<1>8. TimerKernelOK' /\ TimerLocals' /\ Moves(TimerPC, t) /\ pc'[t] = m
  BY <1>1, <1>2, <1>4, <1>7, CallerStill
<1>9. \A u \in Thread \ {t} : pc'[u] = pc[u] /\ subject'[u] = subject[u]
  BY <1>1, <1>6, <1>8 DEF Moves
<1>10. Subjects'
  <2>1. Subject(t, m, NoTimer)
    BY <1>5 DEF Subject
  <2> QED BY <1>1, <1>7, <1>8, <1>9, <2>1, SubjectsKept, InvariantParts
<1>11. Agrees(soft, pc', subject', calling)
  BY <1>3, <1>5, <1>8, <1>9, LeftAgrees, InvariantParts
<1>12. Follows(soft, pc', subject', calling, following)
  BY <1>3, <1>9, FollowsKept
<1> QED BY <1>1, <1>8, <1>10, <1>11, <1>12, InvariantWhole

LEMMA StartResumeInv ==
  ASSUME TimerInvariant, NEW t \in Thread, StartResume(t)
  PROVE  TimerInvariant'
<1>1. /\ soft' = soft /\ subject' = subject /\ rt_tick' = rt_tick /\ next_timeout' = next_timeout
      /\ following' = following /\ current_tick' = current_tick /\ calling' = calling
  BY DEF StartResume, entry_locals
<1>2. /\ TimerKernelOK' /\ Moves(TimerPC, t) /\ t # TimerThread
      /\ pc[t] = "start_resume" /\ pc'[t] = "sched"
  BY UserResumes, InvariantParts
<1>3. \A u \in Thread \ {t} : pc'[u] = pc[u] /\ subject'[u] = subject[u]
  BY <1>1, <1>2 DEF Moves
<1>4. TimerLocals'
  BY <1>1, <1>2, <1>3, InvariantParts DEF TimerLocals
<1>5. Subjects'
  <2>1. Subject(t, pc'[t], subject'[t])
    BY <1>1, <1>2, InvariantParts DEF Subjects, Subject, Starting, Stopping
  <2> QED BY <1>1, <1>3, <2>1, SubjectsKept, InvariantParts
<1>6. Agrees(soft, pc', subject', calling)
  BY <1>2, <1>3, LeftAgrees, InvariantParts DEF Away
<1>7. Follows(soft, pc', subject', calling, following)
  BY <1>2, <1>3, FollowsKept
<1> QED BY <1>1, <1>2, <1>4, <1>5, <1>6, <1>7, InvariantWhole

\* x is taken off the list, marked, or both; its time may be set.
LEMMA RemovedAgrees ==
  ASSUME NEW q, NEW p, NEW u, NEW c, Agrees(q, p, u, c), NEW x \in Timer,
         NEW r, SoftOK(r), Nodes(r.list) = Nodes(q.list) \ {x},
         \A y \in Timer \ {x} : r.active[y] = q.active[y],
         r.active[x] => x = c \/ \E t \in Thread : p[t] = "stop_clear" /\ u[t] = x
  PROVE  Agrees(r, p, u, c)
<1>1. Nodes(r.list) \subseteq Nodes(q.list) /\ Nodes(q.list) \subseteq Timer /\ x \notin Nodes(r.list)
  BY EmptyNodes DEF Agrees, SoftState
<1>2. \A y \in Nodes(r.list) : r.active[y]
  BY <1>1 DEF Agrees
<1>3. \A y \in Timer : r.active[y] /\ y \notin Nodes(r.list) =>
        y = c \/ \E t \in Thread : p[t] = "stop_clear" /\ u[t] = y
  BY <1>1 DEF Agrees
<1>4. \A t \in Thread : p[t] \in Away => u[t] \notin Nodes(r.list)
  BY <1>1 DEF Agrees
<1>5. c \in Nodes(r.list) => c \in Periodic
  BY <1>1 DEF Agrees
<1> QED BY <1>2, <1>3, <1>4, <1>5 DEF Agrees, SoftOK

\* x is restarted in one go: it is in the list, or about to be for nobody.
LEMMA RestartAgrees ==
  ASSUME NEW q, NEW p, NEW u, NEW c, Agrees(q, p, u, c), rt_tick \in Tick, NEW x \in Timer,
         \A t \in Thread : p[t] \in Away => u[t] # x, x = c => x \in Periodic
  PROVE  /\ Agrees(TimerLinked(Unlinked(q, x), x), p, u, c)
         /\ Nodes(TimerLinked(Unlinked(q, x), x).list) = Nodes(q.list) \cup {x}
<1> DEFINE r == Unlinked(q, x)
<1>1. SoftOK(q) /\ q.active \in [Timer -> BOOLEAN]
  BY DEF Agrees, SoftOK, SoftState
<1>2. /\ SoftOK(r) /\ Nodes(r.list) = Nodes(q.list) \ {x}
      /\ r.active = [q.active EXCEPT ![x] = FALSE]
  BY <1>1, UnlinkedOK
<1> HIDE DEF r
<1>3. ~r.active[x] /\ \A y \in Timer \ {x} : r.active[y] = q.active[y]
  BY <1>1, <1>2
<1>4. Agrees(r, p, u, c)
  BY <1>2, <1>3, RemovedAgrees
<1>5. Agrees(TimerLinked(r, x), p, u, c)
  BY <1>2, <1>4, LinkedAgrees
<1>6. Nodes(TimerLinked(r, x).list) = Nodes(r.list) \cup {x}
  BY <1>2, LinkedOK
<1> QED BY <1>2, <1>5, <1>6 DEF r

LEMMA IsrStartInv ==
  ASSUME TimersApart, TimerOutranks, TimerInvariant, NEW x \in Timer, IsrStart(x)
  PROVE  TimerInvariant'
<1>1. /\ x \in IsrStarts /\ soft' = TimerLinked(Unlinked(soft, x), x) /\ pc' = pc
      /\ k' = IF k.stat[TimerThread] # "READY"
              THEN rt_schedule(rt_thread_resume(k, TimerThread)) ELSE k
      /\ subject' = subject /\ rt_tick' = rt_tick /\ next_timeout' = next_timeout
      /\ following' = following /\ current_tick' = current_tick /\ calling' = calling
  BY DEF IsrStart, entry_locals
<1>2. TimerKernelOK'
  BY <1>1, IsrResumes, InvariantParts
<1>3. TimerLocals' /\ Subjects'
  BY <1>1, InvariantParts DEF TimerLocals, Subjects, Subject
<1>4. x \in Periodic
  BY <1>1 DEF TimersApart
<1>5. ASSUME NEW t \in Thread, pc[t] \in Away PROVE subject[t] # x
  <2>1. Subject(t, pc[t], subject[t])
    BY InvariantParts DEF Subjects
  <2>2. CASE t # TimerThread
    <3>1. <<t, subject[t]>> \in Uses
      BY <1>5, <2>1, <2>2 DEF Subject, Away, Starting, Stopping
    <3> QED BY <1>1, <3>1 DEF TimersApart
  <2>3. CASE t = TimerThread
    <3>1. <<calling, subject[t]>> \in CallStarts \/ <<calling, subject[t]>> \in CallStops
      BY <1>5, <2>1, <2>3 DEF Subject, Away, Starting, Stopping
    <3>2. calling \in Timer /\ subject[t] \in Timer
      BY <3>1, TimerFacts
    <3> QED BY <1>1, <3>1, <3>2 DEF TimersApart
  <2> QED BY <2>2, <2>3
<1>6. rt_tick \in Tick /\ Agrees(soft, pc, subject, calling)
  BY InvariantParts DEF TimerLocals
<1>7. /\ Agrees(soft', pc, subject, calling)
      /\ Nodes(soft'.list) = Nodes(soft.list) \cup {x}
  BY <1>1, <1>4, <1>5, <1>6, RestartAgrees
<1>8. Follows(soft', pc, subject, calling, following)
  BY <1>7, InvariantParts DEF Follows
<1> QED BY <1>1, <1>2, <1>3, <1>7, <1>8, InvariantWhole

LEMMA TimerStopInv ==
  ASSUME TimersApart, TimerInvariant, NEW t \in Thread, NEW x \in Timer, rt_timer_stop(t, x)
  PROVE  TimerInvariant'
<1> DEFINE l == Caller(t)
           m == IF soft.active[x] THEN "stop_unlink" ELSE Back(t)
<1>1. /\ At(t, l) /\ MayStop(t, x) /\ soft' = soft /\ Goto(t, m) /\ k' = k
      /\ subject' = IF soft.active[x] THEN [subject EXCEPT ![t] = x] ELSE subject
      /\ rt_tick' = rt_tick /\ next_timeout' = next_timeout /\ following' = following
      /\ current_tick' = current_tick /\ calling' = calling
  BY DEF rt_timer_stop, With, entry_locals
<1>2. /\ l \in {"callback", "run"} /\ l \notin Away /\ l # "stop_clear" /\ l # "start_link"
      /\ l \notin Starting \cup Stopping
  BY DEF Caller, Away, Starting, Stopping
<1>3. l = "run" => t \in TimerUsers
  BY <1>1, TimerFacts DEF Caller, MayStop
<1>4. m \in IF t = TimerThread THEN Expiring ELSE UserPC
  BY DEF Expiring, Stopping, UserPC, Back
<1>5. /\ m \notin Away /\ (soft.active[x] => m = "stop_unlink")
      /\ ~soft.active[x] => m \notin Starting \cup Stopping
  BY DEF Away, Back, Starting, Stopping
<1> HIDE DEF l, m
<1>6. pc[t] = l
  BY <1>1 DEF At
<1>7. subject \in [Thread -> Timer \cup {NoTimer}] /\ Subject(t, pc[t], subject[t])
  BY InvariantParts DEF TimerLocals, Subjects
<1>8. /\ subject' \in [Thread -> Timer \cup {NoTimer}]
      /\ \A u \in Thread \ {t} : subject'[u] = subject[u]
      /\ subject'[t] = IF soft.active[x] THEN x ELSE subject[t]
  BY <1>1, <1>7
<1>9. TimerKernelOK' /\ TimerLocals' /\ Moves(TimerPC, t) /\ pc'[t] = m
  BY <1>1, <1>2, <1>3, <1>4, <1>8, CallerStill
<1>10. \A u \in Thread \ {t} : pc'[u] = pc[u] /\ subject'[u] = subject[u]
  BY <1>8, <1>9 DEF Moves
<1>11. Subjects'
  <2>1. CASE soft.active[x]
    <3>1. Subject(t, "stop_unlink", x)
      BY <1>1, TimerFacts DEF Subject, Starting, Stopping, MayStop
    <3> QED BY <1>1, <1>5, <1>8, <1>9, <1>10, <2>1, <3>1, SubjectsKept, InvariantParts
  <2>2. CASE ~soft.active[x]
    <3>1. Subject(t, m, subject[t])
      BY <1>2, <1>5, <1>6, <1>7, <2>2 DEF Subject
    <3> QED BY <1>1, <1>8, <1>9, <1>10, <2>2, <3>1, SubjectsKept, InvariantParts
  <2> QED BY <2>1, <2>2
<1>12. Agrees(soft, pc', subject', calling)
  BY <1>2, <1>5, <1>6, <1>9, <1>10, LeftAgrees, InvariantParts
<1>13. Follows(soft, pc', subject', calling, following)
  BY <1>2, <1>6, <1>10, FollowsKept
<1> QED BY <1>1, <1>9, <1>11, <1>12, <1>13, InvariantWhole

LEMMA StopUnlinkInv ==
  ASSUME TimersApart, TimerInvariant, NEW t \in Thread, StopUnlink(t)
  PROVE  TimerInvariant'
<1> DEFINE x == subject[t]
<1>1. /\ At(t, "stop_unlink") /\ soft' = Removed(soft, x) /\ Goto(t, "stop_clear") /\ k' = k
      /\ subject' = subject /\ rt_tick' = rt_tick /\ next_timeout' = next_timeout
      /\ following' = following /\ current_tick' = current_tick /\ calling' = calling
  BY DEF StopUnlink, entry_locals
<1>2. /\ "stop_unlink" \in Stopping /\ "stop_unlink" # "run" /\ "stop_unlink" \notin Away
      /\ "stop_clear" \in Away
  BY DEF Stopping, Away
<1>3. /\ pc[t] = "stop_unlink" /\ x \in Timer
      /\ t # TimerThread => calling = NoTimer /\ following = NoTimer
  BY <1>1, <1>2, CallerFacts
<1>4. "stop_clear" \in IF t = TimerThread THEN Expiring ELSE UserPC
  BY DEF Expiring, Stopping, UserPC
<1>5. subject' \in [Thread -> Timer \cup {NoTimer}]
  BY <1>1, InvariantParts DEF TimerLocals
<1>6. TimerKernelOK' /\ TimerLocals' /\ Moves(TimerPC, t) /\ pc'[t] = "stop_clear"
  BY <1>1, <1>2, <1>4, <1>5, CallerStill
<1>7. \A u \in Thread \ {t} : pc'[u] = pc[u] /\ subject'[u] = subject[u]
  BY <1>1, <1>6 DEF Moves
<1>8. Subject(t, "stop_unlink", x) /\ Agrees(soft, pc, subject, calling) /\ SoftOK(soft)
  BY <1>3, InvariantParts DEF Subjects
<1>9. Subjects'
  <2>1. Subject(t, "stop_clear", x)
    BY <1>8 DEF Subject, Starting, Stopping
  <2> QED BY <1>1, <1>6, <1>7, <2>1, SubjectsKept, InvariantParts
<1>10. /\ SoftOK(soft') /\ Nodes(soft'.list) = Nodes(soft.list) \ {x}
       /\ soft'.active = soft.active
  BY <1>1, <1>8, RemovedOK
<1>11. subject'[t] = x
  BY <1>1
<1> HIDE DEF x
<1>12. Agrees(soft', pc', subject', calling)
  <2>1. \A y \in Nodes(soft'.list) : soft'.active[y]
    BY <1>8, <1>10 DEF Agrees
  <2>2. ASSUME NEW y \in Timer, soft'.active[y], y \notin Nodes(soft'.list)
        PROVE  y = calling \/ \E u \in Thread : pc'[u] = "stop_clear" /\ subject'[u] = y
    <3>1. CASE y = x
      BY <1>6, <1>11, <3>1
    <3>2. CASE y # x
      <4>1. y = calling \/ \E u \in Thread : pc[u] = "stop_clear" /\ subject[u] = y
        BY <1>8, <1>10, <2>2, <3>2 DEF Agrees
      <4> QED BY <1>3, <1>7, <4>1
    <3> QED BY <3>1, <3>2
  <2>3. \A u \in Thread : pc'[u] \in Away => subject'[u] \notin Nodes(soft'.list)
    BY <1>7, <1>8, <1>10, <1>11 DEF Agrees
  <2>4. \A u \in Thread \ {TimerThread} : pc'[u] \in Away => subject'[u] # calling
    BY <1>3, <1>7, <1>8, <1>11, TimerFacts DEF Agrees
  <2>5. calling \in Nodes(soft'.list) => calling \in Periodic
    BY <1>8, <1>10 DEF Agrees
  <2> QED BY <1>10, <2>1, <2>2, <2>3, <2>4, <2>5 DEF Agrees, SoftOK
<1>13. following # x \/ following = NoTimer
  <2>1. CASE t = TimerThread
    <3>1. <<calling, x>> \in CallStops
      BY <1>2, <1>8, <2>1 DEF Subject
    <3>2. x = calling
      BY <1>3, <3>1, TimerFacts DEF TimersApart
    <3> QED BY <3>2, InvariantParts DEF Follows
  <2>2. CASE t # TimerThread
    BY <1>3, <2>2
  <2> QED BY <2>1, <2>2
<1>14. Follows(soft', pc', subject', calling, following)
  <2>1. CASE following = NoTimer
    BY <2>1 DEF Follows
  <2>2. CASE following # x
    <3>1. \A y \in Nodes(soft.list) : y = following => y \in Nodes(soft'.list)
      BY <1>10, <2>2
    <3> QED BY <1>3, <1>7, <3>1, FollowsKept
  <2> QED BY <1>13, <2>1, <2>2
<1> QED BY <1>1, <1>6, <1>9, <1>12, <1>14, InvariantWhole

LEMMA StopClearInv ==
  ASSUME TimerInvariant, NEW t \in Thread, StopClear(t)
  PROVE  TimerInvariant'
<1> DEFINE x == subject[t]
           m == Back(t)
<1>1. /\ At(t, "stop_clear") /\ soft' = Inactive(soft, x) /\ Goto(t, m) /\ k' = k
      /\ subject' = [subject EXCEPT ![t] = NoTimer] /\ rt_tick' = rt_tick
      /\ next_timeout' = next_timeout
      /\ following' = following /\ current_tick' = current_tick /\ calling' = calling
  BY DEF StopClear, entry_locals, With
<1>2. "stop_clear" \in Stopping /\ "stop_clear" # "run" /\ "stop_clear" \in Away
  BY DEF Stopping, Away
<1>3. pc[t] = "stop_clear" /\ x \in Timer
  BY <1>1, <1>2, CallerFacts
<1>4. m \in IF t = TimerThread THEN Expiring ELSE UserPC
  BY DEF Expiring, UserPC, Back
<1>5. m \notin Away /\ m \notin Starting \cup Stopping
  BY DEF Away, Starting, Stopping, Back
<1> HIDE DEF m
<1>6. subject \in [Thread -> Timer \cup {NoTimer}]
  BY InvariantParts DEF TimerLocals
<1>7. subject' \in [Thread -> Timer \cup {NoTimer}] /\ subject'[t] = NoTimer
  BY <1>1, <1>6
<1>8. TimerKernelOK' /\ TimerLocals' /\ Moves(TimerPC, t) /\ pc'[t] = m
  BY <1>1, <1>2, <1>4, <1>7, CallerStill
<1>9. \A u \in Thread \ {t} : pc'[u] = pc[u] /\ subject'[u] = subject[u]
  BY <1>1, <1>6, <1>8 DEF Moves
<1>10. Subjects'
  <2>1. Subject(t, m, NoTimer)
    BY <1>5 DEF Subject
  <2> QED BY <1>1, <1>7, <1>8, <1>9, <2>1, SubjectsKept, InvariantParts
<1>11. Agrees(soft, pc, subject, calling) /\ SoftOK(soft) /\ soft.active \in [Timer -> BOOLEAN]
  BY InvariantParts DEF SoftOK, SoftState
<1>12. x \notin Nodes(soft.list)
  BY <1>2, <1>3, <1>11 DEF Agrees
<1>13. /\ SoftOK(soft') /\ soft'.list = soft.list
       /\ soft'.active = [soft.active EXCEPT ![x] = FALSE]
  BY <1>1, <1>3, <1>11, InactiveOK
<1>14. ~soft'.active[x] /\ \A y \in Timer \ {x} : soft'.active[y] = soft.active[y]
  BY <1>3, <1>11, <1>13
<1>15. Nodes(soft'.list) = Nodes(soft.list) \ {x}
  BY <1>12, <1>13
<1>16. ~soft'.active[subject[t]]
  BY <1>14
<1> HIDE DEF x
<1>17. Agrees(soft', pc, subject, calling)
  BY <1>3, <1>11, <1>13, <1>14, <1>15, RemovedAgrees
<1>18. Agrees(soft', pc', subject', calling)
  BY <1>5, <1>8, <1>9, <1>16, <1>17, LeftAgrees
<1>19. Follows(soft', pc', subject', calling, following)
  BY <1>3, <1>9, <1>13, FollowsKept
<1> QED BY <1>1, <1>8, <1>10, <1>18, <1>19, InvariantWhole

LEMMA DetachInv ==
  ASSUME TimerInvariant, NEW t \in Thread, NEW x \in Timer, rt_timer_detach(t, x)
  PROVE  TimerInvariant'
<1>1. /\ At(t, "run") /\ <<t, x>> \in Uses /\ soft' = Inactive(Removed(soft, x), x)
      /\ k' = k /\ pc' = pc
      /\ subject' = subject /\ rt_tick' = rt_tick /\ next_timeout' = next_timeout
      /\ following' = following /\ current_tick' = current_tick /\ calling' = calling
  BY DEF rt_timer_detach, entry_locals
<1>2. TimerKernelOK'
  BY <1>1, TimerStays, InvariantParts
<1>3. TimerLocals' /\ Subjects'
  BY <1>1, InvariantParts DEF TimerLocals, Subjects, Subject
<1>4. following = NoTimer
  BY <1>1, UserAlone, TimerFacts
<1> DEFINE r == Removed(soft, x)
<1>5. SoftOK(r) /\ Nodes(r.list) = Nodes(soft.list) \ {x} /\ r.active = soft.active
  BY RemovedOK, InvariantParts
<1> HIDE DEF r
<1>6. /\ SoftOK(soft') /\ Nodes(soft'.list) = Nodes(soft.list) \ {x}
      /\ soft'.active = [soft.active EXCEPT ![x] = FALSE]
  BY <1>1, <1>5, InactiveOK DEF r
<1>7. ~soft'.active[x] /\ \A y \in Timer \ {x} : soft'.active[y] = soft.active[y]
  BY <1>6, InvariantParts DEF SoftOK, SoftState
<1>8. Agrees(soft', pc, subject, calling)
  BY <1>6, <1>7, RemovedAgrees, InvariantParts
<1>9. Follows(soft', pc, subject, calling, following)
  BY <1>4 DEF Follows
<1> QED BY <1>1, <1>2, <1>3, <1>8, <1>9, InvariantWhole

LEMMA TimerControlInv ==
  ASSUME TimerInvariant, NEW t \in Thread, NEW x \in Timer, NEW d \in Ticks,
         rt_timer_control(t, x, d)
  PROVE  TimerInvariant' /\ soft'.list = soft.list /\ soft'.due = soft.due
<1>1. /\ soft' = [soft EXCEPT !.init = [@ EXCEPT ![x] = d]]
      /\ k' = k /\ pc' = pc
      /\ subject' = subject /\ rt_tick' = rt_tick /\ next_timeout' = next_timeout
      /\ following' = following /\ current_tick' = current_tick /\ calling' = calling
  BY DEF rt_timer_control, entry_locals
<1>2. TimerKernelOK'
  BY <1>1, TimerStays, InvariantParts
<1>3. TimerLocals' /\ Subjects'
  BY <1>1, InvariantParts DEF TimerLocals, Subjects, Subject
<1>4. soft \in SoftState
  BY InvariantParts DEF SoftOK
<1>5. /\ soft' \in SoftState /\ soft'.list = soft.list /\ soft'.active = soft.active
      /\ soft'.due = soft.due
  BY <1>1, <1>4 DEF SoftState
<1>6. Agrees(soft', pc, subject, calling)
  BY <1>5, InvariantParts DEF Agrees
<1>7. Follows(soft', pc, subject, calling, following)
  BY <1>5, InvariantParts DEF Follows
<1> QED BY <1>1, <1>2, <1>3, <1>5, <1>6, <1>7, InvariantWhole

\* The timer thread moves, outside the calls about a timer; the timers are left alone.
LEMMA EntryMoves ==
  ASSUME TimerInvariant, TimerKernelOK', Moves(TimerPC, TimerThread),
         pc[TimerThread] \in Expiring <=> pc'[TimerThread] \in Expiring,
         pc[TimerThread] \notin Starting \cup Stopping,
         pc'[TimerThread] \notin Starting \cup Stopping,
         soft' = soft, subject' = subject, calling' = calling, following' = following,
         rt_tick' = rt_tick, next_timeout' \in Tick, current_tick' \in Tick
  PROVE  TimerInvariant'
<1>1. \A u \in Thread \ {TimerThread} : pc'[u] = pc[u] /\ subject'[u] = subject[u]
  BY DEF Moves
<1>2. TimerLocals'
  BY InvariantParts DEF TimerLocals
<1>3. TimerThread \in Thread
  BY TimerFacts
<1>4. Subjects'
  <2>1. Subject(TimerThread, pc[TimerThread], subject[TimerThread])
    BY <1>3, InvariantParts DEF Subjects
  <2>2. Subject(TimerThread, pc'[TimerThread], subject'[TimerThread])
    BY <2>1 DEF Subject
  <2> QED BY <1>1, <1>3, <2>2, SubjectsKept, InvariantParts
<1>5. pc[TimerThread] \notin {"stop_clear", "start_link"} /\ pc'[TimerThread] \notin Away
  BY DEF Starting, Stopping, Away
<1>6. Agrees(soft, pc', subject', calling)
  BY <1>1, <1>3, <1>5, LeftAgrees, InvariantParts
<1>7. Follows(soft, pc', subject', calling, following)
  BY <1>1, <1>3, <1>5, FollowsKept
<1> QED BY <1>2, <1>4, <1>6, <1>7, InvariantWhole

LEMMA NextTimeoutInv ==
  ASSUME TimerInvariant, NextTimeout
  PROVE  TimerInvariant'
<1>1. /\ At(TimerThread, "next") /\ Goto(TimerThread, "nap") /\ k' = k /\ soft' = soft
      /\ next_timeout' = IF soft.list = <<>> THEN RT_TICK_MAX ELSE soft.due[Head(soft.list)]
      /\ subject' = subject /\ rt_tick' = rt_tick
      /\ following' = following /\ current_tick' = current_tick /\ calling' = calling
  BY DEF NextTimeout, TAt, TGoto
<1>2. "next" \notin Dozes /\ "nap" \in EntryPC
  BY DEF Dozes, EntryPC
<1>3. TimerKernelOK' /\ Moves(TimerPC, TimerThread) /\ pc'[TimerThread] = "nap"
  BY <1>1, <1>2, EntryStill, InvariantParts
<1>4. next_timeout' \in Tick
  <2>1. soft.list \in Seq(Timer) /\ soft.due \in [Timer -> Tick]
    BY InvariantParts DEF SoftOK, SoftState
  <2>2. soft.list # <<>> => Head(soft.list) \in Timer
    BY <2>1, EmptyNodes
  <2> QED BY <1>1, <2>1, <2>2, TickFacts
<1>5. pc[TimerThread] = "next" /\ current_tick \in Tick
  BY <1>1, InvariantParts DEF At, TimerLocals
<1> QED BY <1>1, <1>3, <1>4, <1>5, EntryMoves DEF Expiring, Starting, Stopping

LEMMA NapInv ==
  ASSUME TimerInvariant, Nap
  PROVE  /\ TimerInvariant' /\ pc[TimerThread] = "nap" /\ pc'[TimerThread] \in Dozes \cup {"check"}
         /\ pc'[TimerThread] = "suspended" => next_timeout = RT_TICK_MAX
         /\ pc'[TimerThread] = "check" => k' = k /\ k.stat[TimerThread] = "READY"
         /\ Moves(TimerPC, TimerThread)
<1>1. /\ At(TimerThread, "nap") /\ soft' = soft /\ next_timeout' = next_timeout
      /\ subject' = subject /\ rt_tick' = rt_tick
      /\ following' = following /\ current_tick' = current_tick /\ calling' = calling
  BY DEF Nap, TAt, entry_locals
<1>2. /\ "nap" \notin Dozes /\ "check" \in EntryPC /\ "check" \notin Dozes
      /\ "suspended" \in Dozes /\ "delaying" \in Dozes
  BY DEF Dozes, EntryPC
<1>3. TimerKernelOK /\ next_timeout \in Tick /\ current_tick \in Tick /\ pc[TimerThread] = "nap"
  BY <1>1, InvariantParts DEF At, TimerLocals
<1>4. k.stat[TimerThread] = "READY"
  BY <1>1, <1>2, <1>3, EntryRuns
<1>5. /\ TimerKernelOK' /\ Moves(TimerPC, TimerThread) /\ pc'[TimerThread] \in Dozes \cup {"check"}
      /\ pc'[TimerThread] = "suspended" => next_timeout = RT_TICK_MAX
      /\ pc'[TimerThread] = "check" => k' = k
  <2>1. CASE next_timeout = RT_TICK_MAX
    <3>1. k' = rt_thread_suspend(k, TimerThread) /\ Goto(TimerThread, "suspended")
      BY <2>1 DEF Nap, TGoto
    <3> QED BY <1>1, <1>2, <1>3, <2>1, <3>1, EntrySuspends
  <2>2. CASE next_timeout # RT_TICK_MAX /\ Minus(next_timeout, rt_tick) < Half
    <3>1. /\ k' = Started(rt_thread_suspend(k, TimerThread), TimerThread)
          /\ Goto(TimerThread, "delaying")
      BY <2>2 DEF Nap, TGoto
    <3> QED BY <1>1, <1>2, <1>3, <3>1, EntrySuspends
  <2>3. CASE next_timeout # RT_TICK_MAX /\ ~(Minus(next_timeout, rt_tick) < Half)
    <3>1. k' = k /\ Goto(TimerThread, "check")
      BY <2>3 DEF Nap, TGoto
    <3> QED BY <1>1, <1>2, <1>3, <3>1, EntryStill
  <2> QED BY <2>1, <2>2, <2>3
<1>6. TimerInvariant'
  BY <1>1, <1>3, <1>5, EntryMoves DEF Expiring, Starting, Stopping, Dozes
<1> QED BY <1>3, <1>4, <1>5, <1>6

LEMMA DelayReturnInv ==
  ASSUME TimerInvariant, DelayReturn
  PROVE  TimerInvariant'
<1>1. /\ soft' = soft /\ next_timeout' = next_timeout /\ subject' = subject /\ rt_tick' = rt_tick
      /\ following' = following /\ current_tick' = current_tick /\ calling' = calling
  BY DEF DelayReturn, entry_locals
<1>2. /\ TimerKernelOK' /\ Moves(TimerPC, TimerThread)
      /\ pc[TimerThread] = "delayed" /\ pc'[TimerThread] = "check"
  BY DelayReturnKernel, InvariantParts
<1>3. next_timeout \in Tick /\ current_tick \in Tick
  BY InvariantParts DEF TimerLocals
<1> QED BY <1>1, <1>2, <1>3, EntryMoves DEF Expiring, Starting, Stopping

LEMMA SoftCheckInv ==
  ASSUME TimerInvariant, rt_soft_timer_check
  PROVE  TimerInvariant' /\ pc'[TimerThread] = "first"
<1>1. /\ At(TimerThread, "check") /\ Goto(TimerThread, "first") /\ k' = k /\ soft' = soft
      /\ next_timeout' = next_timeout /\ subject' = subject /\ rt_tick' = rt_tick
      /\ following' = following /\ current_tick' = rt_tick /\ calling' = calling
  BY DEF rt_soft_timer_check, TAt, TGoto
<1>2. "check" \notin Dozes /\ "first" \in EntryPC
  BY DEF Dozes, EntryPC
<1>3. TimerKernelOK' /\ Moves(TimerPC, TimerThread) /\ pc'[TimerThread] = "first"
  BY <1>1, <1>2, EntryStill, InvariantParts
<1>4. next_timeout \in Tick /\ rt_tick \in Tick /\ pc[TimerThread] = "check"
  BY <1>1, InvariantParts DEF TimerLocals, At
<1>5. TimerInvariant'
  BY <1>1, <1>3, <1>4, EntryMoves DEF Expiring, Starting, Stopping
<1> QED BY <1>3, <1>5

LEMMA CallbackEndInv ==
  ASSUME TimerInvariant, CallbackEnd
  PROVE  TimerInvariant' /\ pc'[TimerThread] = "after"
<1>1. PICK l \in {"callback", "called"} : At(TimerThread, l)
  BY DEF CallbackEnd, TAt
<1>2. /\ Goto(TimerThread, "after") /\ k' = k /\ soft' = soft
      /\ next_timeout' = next_timeout /\ subject' = subject /\ rt_tick' = rt_tick
      /\ following' = following /\ current_tick' = rt_tick /\ calling' = calling
  BY DEF CallbackEnd, TGoto
<1>3. l \notin Dozes /\ "after" \in EntryPC
  BY DEF Dozes, EntryPC
<1>4. TimerKernelOK' /\ Moves(TimerPC, TimerThread) /\ pc'[TimerThread] = "after"
  BY <1>1, <1>2, <1>3, EntryStill, InvariantParts
<1>5. next_timeout \in Tick /\ rt_tick \in Tick /\ pc[TimerThread] = l
  BY <1>1, InvariantParts DEF TimerLocals, At
<1>6. TimerInvariant'
  BY <1>2, <1>4, <1>5, EntryMoves DEF Expiring, Starting, Stopping
<1> QED BY <1>4, <1>6

\* A turn of the loop of rt_soft_timer_check at node x of list q.
LEMMA TurnInv ==
  ASSUME TimerInvariant, NEW l \in {"first", "after"}, At(TimerThread, l), NEW q, NEW x,
         Turn(q, x), Agrees(q, pc, subject, NoTimer), x = NoTimer \/ x \in Nodes(q.list)
  PROVE  /\ TimerInvariant' /\ pc'[TimerThread] \in {"callback", "next"}
         /\ pc'[TimerThread] = "callback" => soft'.active[calling']
         /\ soft'.due = q.due /\ (soft'.list = q.list \/ soft'.list = Unlink(q.list, x))
         /\ k' = k /\ Moves(TimerPC, TimerThread) /\ rt_tick' = rt_tick /\ subject' = subject
<1> DEFINE b == x # NoTimer /\ Minus(current_tick, q.due[x]) < Half
           m == IF b THEN "callback" ELSE "next"
<1>1. /\ k' = k /\ rt_tick' = rt_tick /\ next_timeout' = next_timeout
      /\ current_tick' = current_tick /\ subject' = subject /\ Goto(TimerThread, m)
      /\ b => following' = NextNode(q, x) /\ soft' = Removed(q, x) /\ calling' = x
      /\ ~b => following' = NoTimer /\ soft' = q /\ calling' = NoTimer
  BY DEF Turn, TGoto
<1>2. b => x \in Nodes(q.list)
  OBVIOUS
<1>3. /\ m \in EntryPC /\ l \notin Dozes /\ m \notin Away /\ m # "stop_clear" /\ m # "start_link"
      /\ m \notin Starting \cup Stopping /\ l \notin Away /\ m \in {"callback", "next"}
      /\ l \notin Starting \cup Stopping
      /\ (m \in Expiring <=> b)
      /\ m = "callback" <=> b
  BY DEF EntryPC, Dozes, Away, Starting, Stopping, Expiring
<1> HIDE DEF b, m
<1>4. TimerKernelOK' /\ Moves(TimerPC, TimerThread) /\ pc'[TimerThread] = m
  BY <1>1, <1>3, EntryStill, InvariantParts
<1>5. SoftOK(q) /\ Nodes(q.list) \subseteq Timer
  BY EmptyNodes DEF Agrees, SoftOK, SoftState
<1>6. TimerThread \in Thread /\ pc[TimerThread] = l /\ NoTimer \notin Timer
  BY TimerFacts DEF At
<1>7. \A u \in Thread \ {TimerThread} : pc'[u] = pc[u] /\ subject'[u] = subject[u]
  BY <1>1, <1>4 DEF Moves
<1>8. following' = NoTimer \/ (b /\ following' \in Nodes(q.list) \ {x})
  BY <1>1, <1>2, <1>5, NextNodeOK
<1>9. TimerLocals'
  <2>1. /\ following' \in Timer \cup {NoTimer} /\ calling' \in Timer \cup {NoTimer}
        /\ calling' # NoTimer <=> b
    BY <1>1, <1>2, <1>5, <1>6, <1>8
  <2> QED BY <1>1, <1>3, <1>4, <1>8, <2>1, InvariantParts DEF TimerLocals
<1>10. Subjects'
  <2> SUFFICES ASSUME NEW u \in Thread PROVE Subject(u, pc[u], subject[u])'
    BY DEF Subjects
  <2>1. Subject(u, pc[u], subject[u])
    BY InvariantParts DEF Subjects
  <2>2. CASE u # TimerThread
    BY <1>7, <2>1, <2>2 DEF Subject
  <2>3. CASE u = TimerThread
    BY <1>1, <1>3, <1>4, <1>6, <2>1, <2>3 DEF Subject
  <2> QED BY <2>2, <2>3
<1>11. Agrees(q, pc', subject', NoTimer)
  BY <1>3, <1>4, <1>6, <1>7, LeftAgrees DEF Away
<1>12. CASE ~b
  <2>1. Agrees(soft', pc', subject', calling') /\ Follows(soft', pc', subject', calling', following')
    BY <1>1, <1>8, <1>11, <1>12 DEF Follows
  <2> QED BY <1>1, <1>3, <1>4, <1>9, <1>10, <1>12, <2>1, InvariantWhole
<1>13. CASE b
  <2>1. /\ SoftOK(soft') /\ soft'.list = Unlink(q.list, x)
        /\ Nodes(soft'.list) = Nodes(q.list) \ {x}
        /\ soft'.active = q.active /\ soft'.due = q.due
    BY <1>1, <1>5, <1>13, RemovedOK
  <2>2. x \in Nodes(q.list) /\ x \in Timer /\ calling' = x
    BY <1>1, <1>2, <1>5, <1>13
  <2>3. soft'.active[x]
    BY <1>11, <2>1, <2>2 DEF Agrees
  <2>4. Agrees(soft', pc', subject', x)
    <3>1. \A y \in Nodes(soft'.list) : soft'.active[y]
      BY <1>11, <2>1 DEF Agrees
    <3>2. ASSUME NEW y \in Timer, soft'.active[y], y \notin Nodes(soft'.list)
          PROVE  y = x \/ \E u \in Thread : pc'[u] = "stop_clear" /\ subject'[u] = y
      <4>1. CASE y # x
        <5>1. y \notin Nodes(q.list) /\ q.active[y] /\ y # NoTimer
          BY <1>6, <2>1, <3>2, <4>1
        <5> QED BY <1>11, <5>1 DEF Agrees
      <4> QED BY <4>1
    <3>3. \A u \in Thread : pc'[u] \in Away => subject'[u] \notin Nodes(q.list)
      BY <1>11 DEF Agrees
    <3>4. \A u \in Thread : pc'[u] \in Away => subject'[u] \notin Nodes(soft'.list) /\ subject'[u] # x
      BY <2>1, <2>2, <3>3
    <3> QED BY <2>1, <3>1, <3>2, <3>4 DEF Agrees, SoftOK
  <2>5. Follows(soft', pc', subject', x, following')
    BY <1>8, <2>1 DEF Follows
  <2> QED BY <1>1, <1>3, <1>4, <1>9, <1>10, <2>1, <2>2, <2>3, <2>4, <2>5, InvariantWhole
<1> QED BY <1>12, <1>13

LEMMA FirstTurnFacts ==
  ASSUME TimerInvariant, FirstTurn
  PROVE  /\ At(TimerThread, "first") /\ Turn(soft, First(soft))
         /\ Agrees(soft, pc, subject, NoTimer)
         /\ First(soft) = NoTimer \/ First(soft) \in Nodes(soft.list)
<1>1. At(TimerThread, "first") /\ Turn(soft, First(soft)) /\ pc[TimerThread] = "first"
  BY DEF FirstTurn, TAt, At
<1>2. calling = NoTimer
  BY <1>1, InvariantParts DEF TimerLocals, Expiring, Starting, Stopping
<1> QED BY <1>1, <1>2, FirstOK, InvariantParts

\* The list at the end of a call-back: the timer is linked again, or it is marked.
Settled ==
  IF calling \in Periodic /\ soft.active[calling]
  THEN TimerLinked(Unlinked(soft, calling), calling) ELSE Inactive(soft, calling)

LEMMA NextTurnFacts ==
  ASSUME TimerInvariant, NextTurn
  PROVE  /\ At(TimerThread, "after") /\ Turn(Settled, following)
         /\ Agrees(Settled, pc, subject, NoTimer) /\ calling \in Timer
         /\ following = NoTimer \/ following \in Nodes(Settled.list)
         /\ \A t \in Thread : pc[t] = "start_link" => subject[t] # calling
<1>1. At(TimerThread, "after") /\ pc[TimerThread] = "after" /\ Turn(Settled, following)
  BY DEF NextTurn, TAt, At, Settled
<1>2. /\ calling \in Timer /\ rt_tick \in Tick /\ NoTimer \notin Timer
  BY <1>1, InvariantParts, TimerFacts DEF TimerLocals, Expiring
<1>3. Agrees(soft, pc, subject, calling) /\ SoftOK(soft) /\ soft.active \in [Timer -> BOOLEAN]
  BY InvariantParts DEF SoftOK, SoftState
<1>4. following = NoTimer \/ (following # calling /\ following \in Nodes(soft.list))
  BY <1>1, InvariantParts DEF Follows
<1>5. \A t \in Thread : pc[t] \in Away => subject[t] # calling
  BY <1>1, <1>3 DEF Agrees, Away
<1>6. \A t \in Thread : pc[t] \in Away => subject[t] # NoTimer
  BY InvariantParts DEF Subjects, Subject, Away, Starting, Stopping
<1>7. ASSUME NEW q, Agrees(q, pc, subject, calling),
             q.active[calling] => calling \in Nodes(q.list)
      PROVE  Agrees(q, pc, subject, NoTimer)
  <2>1. NoTimer \notin Nodes(q.list)
    BY <1>2, <1>7, EmptyNodes DEF Agrees, SoftState
  <2> QED BY <1>6, <1>7, <2>1 DEF Agrees
<1>8. CASE calling \in Periodic /\ soft.active[calling]
  <2>1. Settled = TimerLinked(Unlinked(soft, calling), calling)
    BY <1>8 DEF Settled
  <2>2. Agrees(Settled, pc, subject, calling) /\ Nodes(Settled.list) = Nodes(soft.list) \cup {calling}
    BY <1>2, <1>3, <1>5, <1>8, <2>1, RestartAgrees
  <2> QED BY <1>1, <1>2, <1>4, <1>5, <1>7, <2>2 DEF Away
<1>9. CASE ~(calling \in Periodic /\ soft.active[calling])
  <2>1. Settled = Inactive(soft, calling)
    BY <1>9 DEF Settled
  <2>2. /\ SoftOK(Settled) /\ Settled.list = soft.list
        /\ Settled.active = [soft.active EXCEPT ![calling] = FALSE]
    BY <1>2, <1>3, <2>1, InactiveOK
  <2>3. calling \notin Nodes(soft.list)
    BY <1>3, <1>9 DEF Agrees
  <2>4. /\ Nodes(Settled.list) = Nodes(soft.list) \ {calling} /\ ~Settled.active[calling]
        /\ \A y \in Timer \ {calling} : Settled.active[y] = soft.active[y]
    BY <1>2, <1>3, <2>2, <2>3
  <2>5. Agrees(Settled, pc, subject, calling)
    BY <1>2, <1>3, <2>2, <2>4, RemovedAgrees
  <2> QED BY <1>1, <1>2, <1>4, <1>5, <1>7, <2>2, <2>4, <2>5 DEF Away
<1> QED BY <1>8, <1>9

LEMMA TimerStart ==
  ASSUME TimerInit, TimerOutranks
  PROVE  TimerInvariant
<1>1. PICK init \in [Timer -> Ticks] :
        soft = [list   |-> IF InitTimer = NoTimer THEN <<>> ELSE <<InitTimer>>,
                active |-> [x \in Timer |-> x = InitTimer],
                due    |-> [x \in Timer |-> IF x = InitTimer THEN init[x] ELSE 0],
                init   |-> init]
  BY DEF TimerInit
<1>2. /\ k = Booted /\ pc = [t \in Thread |-> IF t = TimerThread THEN "next" ELSE "run"]
      /\ rt_tick = 0 /\ next_timeout = 0 /\ following = NoTimer /\ current_tick = 0
      /\ calling = NoTimer /\ subject = [t \in Thread |-> NoTimer]
  BY DEF TimerInit
<1>3. /\ Sound(k) /\ k.stat[k.cur] = "READY" /\ k.stat = [t \in Thread |-> "READY"]
      /\ k.prio = InitPrio /\ Topmost(k)
  BY <1>2, BootedOK, BootedState, BootedTopmost
<1>4. /\ pc[TimerThread] = "next" /\ \A t \in Thread \ {TimerThread} : pc[t] = "run"
      /\ \A t \in Thread : subject[t] = NoTimer /\ pc[t] \in {"next", "run"}
  BY <1>2, TimerFacts
<1>5. TimerLists
  <2>1. pc \in [Thread -> TimerPC]
    BY <1>2 DEF TimerPC
  <2> QED BY <1>3, <2>1 DEF TimerLists, IpcOK
<1>6. TimerPlaces
  BY <1>4 DEF TimerPlaces, EntryPC, UserPC
<1>7. TimerRanks
  <2>1. k.cur \in TimerUsers => FALSE
    <3> SUFFICES ASSUME k.cur \in TimerUsers PROVE FALSE
      OBVIOUS
    <3>1. /\ InitPrio[k.cur] <= InitPrio[TimerThread]
          /\ InitPrio[TimerThread] < InitPrio[k.cur]
      BY <1>3, TimerFacts DEF Topmost, TimerOutranks
    <3>2. InitPrio[k.cur] \in Int /\ InitPrio[TimerThread] \in Int
      BY KernelAssumption, TimerFacts DEF Prio, RT_THREAD_PRIORITY_MAX
    <3> QED BY <3>1, <3>2
  <2> QED BY <1>3, <2>1 DEF TimerRanks
<1>8. 0 \in Tick /\ Ticks \subseteq Tick
  BY TickFacts
<1>9. TimerLocals /\ Subjects
  <2>1. \A p \in {"next", "run"} : p \notin Expiring \cup Starting \cup Stopping
    BY DEF Expiring, Starting, Stopping
  <2>2. TimerLocals
    BY <1>2, <1>4, <1>8, <2>1 DEF TimerLocals
  <2> QED BY <1>4, <2>1, <2>2 DEF Subjects, Subject
<1>10. soft \in SoftState
  <2>1. (IF InitTimer = NoTimer THEN <<>> ELSE <<InitTimer>>) \in Seq(Timer)
    BY SoftTimerAssumption
  <2>2. [x \in Timer |-> IF x = InitTimer THEN init[x] ELSE 0] \in [Timer -> Tick]
    BY <1>8
  <2>3. [x \in Timer |-> x = InitTimer] \in [Timer -> BOOLEAN]
    OBVIOUS
  <2> QED BY <1>1, <2>1, <2>2, <2>3 DEF SoftState
<1>11. /\ soft.list = IF InitTimer = NoTimer THEN <<>> ELSE <<InitTimer>>
       /\ \A x \in Timer : soft.active[x] <=> x = InitTimer
  BY <1>1
<1>12. /\ Injective(soft.list)
       /\ Nodes(soft.list) = IF InitTimer = NoTimer THEN {} ELSE {InitTimer}
  <2>1. CASE InitTimer = NoTimer
    <3>1. soft.list = <<>>
      BY <1>11, <2>1
    <3> QED BY <2>1, <3>1 DEF Injective, Nodes
  <2>2. CASE InitTimer # NoTimer
    <3>1. soft.list = <<InitTimer>>
      BY <1>11, <2>2
    <3> QED BY <2>2, <3>1 DEF Injective, Nodes
  <2> QED BY <2>1, <2>2
<1>13. Agrees(soft, pc, subject, calling) /\ Follows(soft, pc, subject, calling, following)
  <2>1. \A t \in Thread : pc[t] \notin Away
    BY <1>4 DEF Away
  <2>2. InitTimer \in Timer \cup {NoTimer}
    BY SoftTimerAssumption
  <2>3. calling \notin Nodes(soft.list)
    BY <1>2, <1>12
  <2>4. Agrees(soft, pc, subject, calling)
    BY <1>10, <1>11, <1>12, <2>1, <2>2, <2>3, TimerFacts DEF Agrees
  <2> QED BY <1>2, <2>4 DEF Follows
<1> QED BY <1>5, <1>6, <1>7, <1>9, <1>13 DEF TimerInvariant, TimerControl

LEMMA SchedInv ==
  ASSUME TimerInvariant, TimerOutranks, Sched
  PROVE  TimerInvariant'
<1>1. /\ soft' = soft /\ next_timeout' = next_timeout /\ subject' = subject /\ rt_tick' = rt_tick
      /\ following' = following /\ current_tick' = current_tick /\ calling' = calling
  BY DEF Sched, entry_locals
<1>2. PICK t \in Thread : /\ Moves(TimerPC, t)
                          /\ \/ t = TimerThread /\ pc[t] = "suspended" /\ pc'[t] = "check"
                             \/ t = TimerThread /\ pc[t] = "delaying" /\ pc'[t] = "delayed"
                             \/ t # TimerThread /\ pc[t] = "sched" /\ pc'[t] = "run"
  BY TimerSched, InvariantParts
<1>3. TimerKernelOK'
  BY TimerSched, InvariantParts
<1>4. \A u \in Thread \ {t} : pc'[u] = pc[u] /\ subject'[u] = subject[u]
  BY <1>1, <1>2 DEF Moves
<1>5. /\ pc[t] \notin Expiring \cup Starting \cup Stopping \cup Away
      /\ pc'[t] \notin Expiring \cup Starting \cup Stopping \cup Away
      /\ pc[t] \notin {"stop_clear", "start_link"}
  BY <1>2 DEF Expiring, Starting, Stopping, Away
<1>6. TimerLocals'
  <2>1. pc'[TimerThread] \in Expiring <=> pc[TimerThread] \in Expiring
    BY <1>4, <1>5, TimerFacts
  <2> QED BY <1>1, <2>1, InvariantParts DEF TimerLocals
<1>7. Subjects'
  <2>1. Subject(t, pc[t], subject[t])
    BY InvariantParts DEF Subjects
  <2>2. Subject(t, pc'[t], subject'[t])
    BY <1>1, <1>5, <2>1 DEF Subject
  <2> QED BY <1>1, <1>4, <2>2, SubjectsKept, InvariantParts
<1>8. Agrees(soft, pc', subject', calling)
  BY <1>4, <1>5, LeftAgrees, InvariantParts
<1>9. Follows(soft, pc', subject', calling, following)
  BY <1>4, <1>5, FollowsKept
<1> QED BY <1>1, <1>3, <1>6, <1>7, <1>8, <1>9, InvariantWhole

\* The tick goes on, or a time-out resumes the timer thread, or nothing happens.
LEMMA ClockInv ==
  ASSUME TimerInvariant, TimerKernelOK', pc' = pc, rt_tick' \in Tick, soft' = soft,
         next_timeout' = next_timeout, subject' = subject, following' = following,
         current_tick' = current_tick, calling' = calling
  PROVE  TimerInvariant'
<1>1. TimerLocals' /\ Subjects'
  BY InvariantParts DEF TimerLocals, Subjects, Subject
<1> QED BY <1>1, InvariantWhole, InvariantParts

LEMMA TickIncreaseInv ==
  ASSUME TimerInvariant, TimerOutranks, TickIncrease
  PROVE  TimerInvariant'
<1>1. /\ rt_tick' = (rt_tick + Stride) % TickModulus /\ soft' = soft
      /\ next_timeout' = next_timeout /\ subject' = subject /\ following' = following
      /\ current_tick' = current_tick /\ calling' = calling
  BY DEF TickIncrease, entry_locals
<1>2. rt_tick \in Tick
  BY InvariantParts DEF TimerLocals
<1>3. rt_tick + Stride \in Int /\ TickModulus \in Nat \ {0}
  BY <1>2, TickFacts
<1>4. rt_tick' \in Tick
  BY <1>1, <1>3, ModSplit, TickFacts
<1>5. TimerKernelOK' /\ pc' = pc
  BY TimerTick, InvariantParts
<1> QED BY <1>1, <1>4, <1>5, ClockInv

LEMMA DelayOverInv ==
  ASSUME TimerInvariant, TimerOutranks, DelayOver
  PROVE  TimerInvariant'
<1>1. /\ rt_tick' = rt_tick /\ soft' = soft
      /\ next_timeout' = next_timeout /\ subject' = subject /\ following' = following
      /\ current_tick' = current_tick /\ calling' = calling
  BY DEF DelayOver, entry_locals
<1>2. rt_tick \in Tick
  BY InvariantParts DEF TimerLocals
<1>3. TimerKernelOK' /\ pc' = pc
  BY DelayOverKernel, InvariantParts
<1> QED BY <1>1, <1>2, <1>3, ClockInv

LEMMA TimerStutter ==
  ASSUME UNCHANGED timer_vars
  PROVE  /\ k' = k /\ pc' = pc /\ rt_tick' = rt_tick /\ soft' = soft
         /\ next_timeout' = next_timeout /\ subject' = subject /\ following' = following
         /\ current_tick' = current_tick /\ calling' = calling
  BY DEF timer_vars, entry_locals

\* Every step of the timers, one of its kinds at a time.
LEMMA TimerStep ==
  ASSUME TimersApart, TimerOutranks, TimerInvariant, [TimerNext]_timer_vars
  PROVE  TimerInvariant'
<1>1. CASE UNCHANGED timer_vars
  <2>1. rt_tick \in Tick
    BY InvariantParts DEF TimerLocals
  <2>2. TimerKernelOK'
    BY <1>1, TimerStays, TimerStutter, InvariantParts
  <2> QED BY <1>1, <2>1, <2>2, ClockInv, TimerStutter
<1>2. ASSUME NEW t \in Thread, NEW x \in Timer,
             \/ rt_timer_start(t, x) \/ rt_timer_stop(t, x) \/ rt_timer_detach(t, x)
             \/ \E d \in Ticks : rt_timer_control(t, x, d)
      PROVE  TimerInvariant'
  BY <1>2, TimerStartInv, TimerStopInv, DetachInv, TimerControlInv
<1>3. ASSUME NEW t \in Thread, TimerCall(t) PROVE TimerInvariant'
  BY <1>3, StartLinkInv, StartCheckInv, StartResumeInv, StopUnlinkInv, StopClearInv DEF TimerCall
<1>4. ASSUME NEW x \in Timer, IsrStart(x) PROVE TimerInvariant'
  BY <1>4, IsrStartInv
<1>5. CASE TimerEntry
  <2>1. CASE FirstTurn
    BY <2>1, FirstTurnFacts, TurnInv
  <2>2. CASE NextTurn
    BY <2>2, NextTurnFacts, TurnInv
  <2> QED BY <1>5, <2>1, <2>2, NextTimeoutInv, NapInv, DelayReturnInv, SoftCheckInv,
             CallbackEndInv DEF TimerEntry
<1> QED BY <1>1, <1>2, <1>3, <1>4, <1>5, SchedInv, TickIncreaseInv, DelayOverInv DEF TimerNext

\* However threads, call-backs and an interrupt handler start, stop and restart the
\* timers that are theirs, the list, the flags and the locals of the timer thread agree
\* in every state, for any number of threads and timers.
THEOREM SoftTimerInvariance ==
  TimersApart /\ TimerOutranks => (TimerSpec => []TimerInvariant)
<1> SUFFICES ASSUME TimersApart, TimerOutranks PROVE TimerSpec => []TimerInvariant
  OBVIOUS
<1>1. TimerInit => TimerInvariant
  BY TimerStart
<1>2. TimerInvariant /\ [TimerNext]_timer_vars => TimerInvariant'
  BY TimerStep
<1> QED BY <1>1, <1>2, PTL DEF TimerSpec

\* ACTIVATED says whether the timer is in the list, except while a start, a stop or the
\* call-back of that timer is under way.
THEOREM ActiveIsLinkedCorrect ==
  TimersApart /\ TimerOutranks => (TimerSpec => []ActiveIsLinked)
<1> SUFFICES ASSUME TimersApart, TimerOutranks PROVE TimerSpec => []ActiveIsLinked
  OBVIOUS
<1>1. TimerInvariant => ActiveIsLinked
  <2> SUFFICES ASSUME TimerInvariant, NEW x \in Timer, x # calling,
                      \A t \in Thread : subject[t] # x
               PROVE  soft.active[x] = (x \in Nodes(soft.list))
    BY DEF ActiveIsLinked
  <2>1. Agrees(soft, pc, subject, calling) /\ soft.active \in [Timer -> BOOLEAN]
    BY InvariantParts DEF SoftOK, SoftState
  <2>2. soft.active[x] <=> x \in Nodes(soft.list)
    BY <2>1 DEF Agrees
  <2> QED BY <2>1, <2>2
<1> QED BY <1>1, SoftTimerInvariance, PTL

\* A call-back only runs for a timer that is still active when it is taken off the list.
THEOREM StoppedNotCalledCorrect ==
  TimersApart /\ TimerOutranks => (TimerSpec => StoppedNotCalled)
<1> SUFFICES ASSUME TimersApart, TimerOutranks PROVE TimerSpec => StoppedNotCalled
  OBVIOUS
<1> DEFINE A == (TAt("first") \/ TAt("after")) /\ pc'[TimerThread] = "callback"
                  => soft'.active[calling']
<1>1. TimerInvariant /\ [TimerNext]_timer_vars => [A]_timer_vars
  <2> SUFFICES ASSUME TimerInvariant, TimerNext, TAt("first") \/ TAt("after"),
                      pc'[TimerThread] = "callback"
               PROVE  soft'.active[calling']
    OBVIOUS
  <2>1. k.cur = TimerThread /\ pc[TimerThread] \in {"first", "after"}
    BY DEF TAt, At
  <2>2. pc' # pc
    BY <2>1
  <2>3. \A t, l : At(t, l) => t = TimerThread /\ l \in {"first", "after"}
    BY <2>1 DEF At
  <2>4. FirstTurn \/ NextTurn
    <3>1. ~\E t \in Thread, x \in Timer :
             \/ rt_timer_start(t, x) \/ rt_timer_stop(t, x) \/ rt_timer_detach(t, x)
             \/ \E d \in Ticks : rt_timer_control(t, x, d)
      <4>1. \A t \in Thread : ~At(t, Caller(t)) /\ ~At(t, "run")
        BY <2>3 DEF Caller
      <4>2. \A t \in Thread, x \in Timer : ~rt_timer_start(t, x) /\ ~rt_timer_stop(t, x)
        BY <4>1 DEF rt_timer_start, rt_timer_stop
      <4>3. \A t \in Thread, x \in Timer : ~rt_timer_detach(t, x)
        BY <4>1 DEF rt_timer_detach
      <4>4. \A t \in Thread, x \in Timer, d \in Ticks : ~rt_timer_control(t, x, d)
        BY <4>1 DEF rt_timer_control
      <4> QED BY <4>2, <4>3, <4>4
    <3>2. ~\E t \in Thread : TimerCall(t)
      BY <2>3 DEF TimerCall, StartLink, StartCheck, StartResume, StopUnlink, StopClear
    <3>3. ~(Sched \/ TickIncrease \/ DelayOver \/ \E x \in Timer : IsrStart(x))
      <4>1. ~Sched
        BY <2>3 DEF Sched, Schedule
      <4> QED BY <2>2, <4>1 DEF TickIncrease, TickSlice, DelayOver, TickTimeout, IsrStart
    <3>4. TimerEntry => FirstTurn \/ NextTurn
      BY <2>3 DEF TimerEntry, NextTimeout, Nap, DelayReturn, rt_soft_timer_check, CallbackEnd, TAt
    <3> QED BY <3>1, <3>2, <3>3, <3>4 DEF TimerNext
  <2> QED BY <2>4, FirstTurnFacts, NextTurnFacts, TurnInv
<1> QED BY <1>1, SoftTimerInvariance, PTL DEF TimerSpec, StoppedNotCalled

-----------------------------------------------------------------------------
(* The order of the list.  Seen from the present tick, every timer in it is due at    *)
(* an offset in a window less than half the range of the tick wide; there, the        *)
(* comparisons of timer.c are comparisons of offsets.                                 *)

LEMMA MinusValue ==
  ASSUME NEW a \in Tick, NEW b \in Tick
  PROVE  /\ Minus(a, b) = IF a >= b THEN a - b ELSE a - b + TickModulus
         /\ Minus(a, b) \in Tick
<1>1. a \in 0 .. (TickModulus - 1) /\ b \in 0 .. (TickModulus - 1) /\ TickModulus \in Nat \ {0}
  BY TickFacts
<1>2. CASE a >= b
  <2>1. a - b \in 0 .. (TickModulus - 1) /\ a - b \in Int
    BY <1>1, <1>2
  <2>2. (a - b) % TickModulus = a - b
    BY <1>1, <2>1, ModSmall
  <2> QED BY <1>2, <2>1, <2>2, TickFacts DEF Minus
<1>3. CASE ~(a >= b)
  <2> DEFINE e == a - b
  <2>1. e \in (0 - TickModulus) .. (0 - 1) /\ e \in Int /\ e + TickModulus \in 0 .. (TickModulus - 1)
    BY <1>1, <1>3
  <2> HIDE DEF e
  <2>2. e % TickModulus = e + TickModulus
    BY <1>1, <2>1, ModSmall
  <2> QED BY <1>3, <2>1, <2>2, TickFacts DEF Minus, e
<1> QED BY <1>2, <1>3

\* How far d is ahead of now.
Offset(d, now) ==
  IF Minus(d, now) <= Half - MaxLate - Stride THEN Minus(d, now) ELSE 0 - Minus(now, d)

LEMMA OffsetRange ==
  ASSUME TicksFit, NEW d \in Tick, NEW now \in Tick, Near(d, now)
  PROVE  /\ Offset(d, now) \in Int
         /\ Offset(d, now) <= Half - MaxLate - Stride
         /\ 0 - Offset(d, now) <= MaxLate + Stride - 1
         /\ \/ d = now + Offset(d, now) \/ d = now + Offset(d, now) + TickModulus
            \/ d = now + Offset(d, now) - TickModulus
<1>1. /\ Minus(d, now) = IF d >= now THEN d - now ELSE d - now + TickModulus
      /\ Minus(now, d) = IF now >= d THEN now - d ELSE now - d + TickModulus
  BY MinusValue
<1>2. /\ d \in 0 .. (TickModulus - 1) /\ now \in 0 .. (TickModulus - 1) /\ TickModulus \in Nat
      /\ Half \in Nat /\ 2 * Half < TickModulus /\ MaxLate \in 1 .. Half /\ Stride \in Nat \ {0}
  BY TickFacts
<1>3. MaxLate + Stride <= Half
  <2>1. PICK e \in Ticks : e + MaxLate + Stride <= Half
    BY TickFacts DEF TicksFit
  <2>2. e \in Nat
    BY TickFacts
  <2> QED BY <1>2, <2>1, <2>2
<1>4. /\ Minus(d, now) \in Int /\ Minus(now, d) \in Int
      /\ Minus(d, now) <= Half - MaxLate - Stride \/ Minus(now, d) <= MaxLate + Stride - 1
  BY <1>1, <1>2 DEF Near
<1> DEFINE o == Offset(d, now)
<1>5. o = IF Minus(d, now) <= Half - MaxLate - Stride THEN Minus(d, now) ELSE 0 - Minus(now, d)
  BY DEF Offset
<1> HIDE DEF o
<1>6. o \in Int /\ o <= Half - MaxLate - Stride /\ 0 - o <= MaxLate + Stride - 1
  BY <1>1, <1>2, <1>3, <1>4, <1>5
<1>7. d = now + o \/ d = now + o + TickModulus \/ d = now + o - TickModulus
  BY <1>1, <1>2, <1>5
<1> QED BY <1>6, <1>7 DEF o

LEMMA OffsetOrder ==
  ASSUME TicksFit, NEW now \in Tick, NEW a \in Tick, NEW b \in Tick, Near(a, now), Near(b, now)
  PROVE  /\ Minus(a, b) < Half <=> Offset(b, now) <= Offset(a, now)
         /\ Later(a, b) <=> Offset(b, now) < Offset(a, now)
<1> DEFINE o == Offset(a, now)
           p == Offset(b, now)
<1>1. /\ o \in Int /\ o <= Half - MaxLate - Stride /\ 0 - o <= MaxLate + Stride - 1
      /\ a = now + o \/ a = now + o + TickModulus \/ a = now + o - TickModulus
  BY OffsetRange
<1>2. /\ p \in Int /\ p <= Half - MaxLate - Stride /\ 0 - p <= MaxLate + Stride - 1
      /\ b = now + p \/ b = now + p + TickModulus \/ b = now + p - TickModulus
  BY OffsetRange
<1>3. Minus(a, b) = IF a >= b THEN a - b ELSE a - b + TickModulus
  BY MinusValue
<1>4. /\ a \in 0 .. (TickModulus - 1) /\ b \in 0 .. (TickModulus - 1)
      /\ now \in 0 .. (TickModulus - 1) /\ TickModulus \in Nat
      /\ Half \in Nat /\ 2 * Half < TickModulus /\ MaxLate \in 1 .. Half /\ Stride \in Nat \ {0}
  BY TickFacts
<1> HIDE DEF o, p
<1>5. o - p <= Half - 1 /\ p - o <= Half - 1
  BY <1>1, <1>2, <1>4
<1>6. \/ Minus(a, b) = o - p \/ Minus(a, b) = o - p + TickModulus \/ Minus(a, b) = o - p - TickModulus
      \/ Minus(a, b) = o - p + 2 * TickModulus \/ Minus(a, b) = o - p - 2 * TickModulus
      \/ Minus(a, b) = o - p + 3 * TickModulus
  BY <1>1, <1>2, <1>3, <1>4
<1>7. Minus(a, b) \in 0 .. (TickModulus - 1)
  BY MinusValue, TickFacts
<1>8. Minus(a, b) = IF p <= o THEN o - p ELSE o - p + TickModulus
  BY <1>1, <1>2, <1>4, <1>5, <1>6, <1>7
<1>9. Minus(a, b) < Half <=> p <= o
  BY <1>1, <1>2, <1>4, <1>5, <1>8
<1>10. Minus(a, b) # 0 /\ Minus(a, b) < Half <=> p < o
  BY <1>1, <1>2, <1>4, <1>5, <1>8
<1> QED BY <1>9, <1>10 DEF o, p, Later

LEMMA UnlinkInOrder ==
  ASSUME NEW s \in Seq(Timer), NEW f, NEW x, InOrderOf(s, f)
  PROVE  InOrderOf(Unlink(s, x), f)
<1>1. CASE x \notin Nodes(s)
  BY <1>1 DEF Unlink
<1>2. CASE x \in Nodes(s)
  <2> DEFINE i == CHOOSE j \in 1 .. Len(s) : s[j] = x
             u == [j \in 1 .. (Len(s) - 1) |-> IF j < i THEN s[j] ELSE s[j + 1]]
  <2>1. i \in 1 .. Len(s) /\ Len(s) \in Nat
    BY <1>2 DEF Nodes
  <2>2. Unlink(s, x) = u
    BY <1>2 DEF Unlink
  <2> HIDE DEF i
  <2>3. u \in Seq(Timer) /\ Len(u) = Len(s) - 1
    BY <2>1
  <2>4. \A j \in 1 .. Len(u) : u[j] = IF j < i THEN s[j] ELSE s[j + 1]
    BY <2>3
  <2> HIDE DEF u
  <2>5. ASSUME NEW j \in 1 .. Len(u), NEW m \in 1 .. Len(u), j < m
        PROVE  Minus(f[u[m]], f[u[j]]) < Half
    <3>1. PICK a \in 1 .. Len(s), b \in 1 .. Len(s) : a < b /\ u[j] = s[a] /\ u[m] = s[b]
      <4>1. j \in 1 .. Len(s) /\ m \in 1 .. Len(s) /\ j + 1 \in 1 .. Len(s) /\ m + 1 \in 1 .. Len(s)
        BY <2>1, <2>3
      <4>2. CASE m < i
        BY <2>1, <2>4, <2>5, <4>1, <4>2
      <4>3. CASE ~(m < i) /\ j < i
        BY <2>1, <2>4, <2>5, <4>1, <4>3
      <4>4. CASE ~(m < i) /\ ~(j < i)
        BY <2>1, <2>4, <2>5, <4>1, <4>4
      <4> QED BY <2>1, <4>2, <4>3, <4>4
    <3> QED BY <3>1 DEF InOrderOf
  <2> QED BY <2>2, <2>5 DEF InOrderOf
<1> QED BY <1>1, <1>2

\* rt_timer_start links a timer where the order wants it.
LEMMA InsertInOrder ==
  ASSUME TicksFit, NEW now \in Tick, NEW s \in Seq(Timer), NEW f \in [Timer -> Tick],
         InOrderOf(s, f), \A y \in Nodes(s) : Near(f[y], now),
         NEW x \in Timer, Near(f[x], now), NEW z \in 1 .. (Len(s) + 1),
         \A j \in 1 .. (z - 1) : ~Later(f[s[j]], f[x]),
         z <= Len(s) => Later(f[s[z]], f[x])
  PROVE  InOrderOf(InsertBefore(s, z, x), f)
<1> DEFINE u == InsertBefore(s, z, x)
           O(y) == Offset(f[y], now)
<1>1. /\ Len(u) = Len(s) + 1 /\ Len(s) \in Nat
      /\ \A j \in 1 .. Len(u) :
           u[j] = IF j < z THEN s[j] ELSE IF j = z THEN x ELSE s[j - 1]
  BY DEF InsertBefore
<1> HIDE DEF u
<1>2. \A j \in 1 .. Len(s) : s[j] \in Timer /\ f[s[j]] \in Tick /\ Near(f[s[j]], now)
  BY DEF Nodes
<1>3. O(x) \in Int /\ f[x] \in Tick /\ \A j \in 1 .. Len(s) : O(s[j]) \in Int
  BY <1>2, OffsetRange
<1>4. \A i, j \in 1 .. Len(s) : i < j => O(s[i]) <= O(s[j])
  BY <1>2, OffsetOrder DEF InOrderOf
<1>5. ASSUME NEW j \in 1 .. Len(s), j < z PROVE O(s[j]) <= O(x)
  <2>1. ~Later(f[s[j]], f[x])
    BY <1>1, <1>5
  <2>2. ~(O(x) < O(s[j]))
    BY <1>2, <1>3, <2>1, OffsetOrder
  <2> HIDE DEF O
  <2> QED BY <1>3, <2>2
<1>6. ASSUME NEW j \in 1 .. Len(s), j >= z PROVE O(x) <= O(s[j])
  <2>1. z \in 1 .. Len(s) /\ Later(f[s[z]], f[x])
    BY <1>1, <1>6
  <2>2. O(x) < O(s[z])
    BY <1>2, <1>3, <2>1, OffsetOrder
  <2>3. O(s[z]) <= O(s[j])
    <3>1. CASE j = z
      BY <1>3, <3>1
    <3>2. CASE j # z
      BY <1>4, <1>6, <2>1, <3>2
    <3> QED BY <3>1, <3>2
  <2> HIDE DEF O
  <2> QED BY <1>3, <2>1, <2>2, <2>3
<1>7. ASSUME NEW i \in 1 .. Len(u), NEW j \in 1 .. Len(u), i < j
      PROVE  /\ u[i] \in Timer /\ u[j] \in Timer /\ Near(f[u[i]], now) /\ Near(f[u[j]], now)
             /\ O(u[i]) <= O(u[j])
  <2> HIDE DEF O
  <2>1. CASE j < z
    BY <1>1, <1>2, <1>4, <1>7, <2>1
  <2>2. CASE j = z
    BY <1>1, <1>2, <1>5, <1>7, <2>2
  <2>3. CASE j > z /\ i < z
    <3>1. /\ i \in 1 .. Len(s) /\ j - 1 \in 1 .. Len(s) /\ j - 1 >= z
          /\ u[i] = s[i] /\ u[j] = s[j - 1]
      BY <1>1, <1>7, <2>3
    <3>2. O(s[i]) <= O(x) /\ O(x) <= O(s[j - 1])
      BY <1>5, <1>6, <2>3, <3>1
    <3>3. O(s[i]) \in Int /\ O(s[j - 1]) \in Int /\ O(x) \in Int
      BY <1>3, <3>1
    <3>4. O(s[i]) <= O(s[j - 1])
      BY <3>2, <3>3
    <3>5. /\ s[i] \in Timer /\ s[j - 1] \in Timer
          /\ Near(f[s[i]], now) /\ Near(f[s[j - 1]], now)
      BY <1>2, <3>1
    <3> QED BY <3>1, <3>4, <3>5
  <2>4. CASE i = z
    <3>1. j - 1 \in 1 .. Len(s) /\ j - 1 >= z /\ u[i] = x /\ u[j] = s[j - 1]
      BY <1>1, <1>7, <2>4
    <3> QED BY <1>2, <1>6, <3>1
  <2>5. CASE i > z
    <3>1. /\ i - 1 \in 1 .. Len(s) /\ j - 1 \in 1 .. Len(s) /\ i - 1 < j - 1
          /\ u[i] = s[i - 1] /\ u[j] = s[j - 1]
      BY <1>1, <1>7, <2>5
    <3> QED BY <1>2, <1>4, <3>1
  <2> QED BY <1>1, <1>7, <2>1, <2>2, <2>3, <2>4, <2>5
<1>8. \A i, j \in 1 .. Len(u) : i < j => Minus(f[u[j]], f[u[i]]) < Half
  BY <1>7, OffsetOrder
<1> QED BY <1>8 DEF InOrderOf, u

\* What the operations on the list do to its order.
LEMMA RemovedOrdered ==
  ASSUME NEW q, SoftOK(q), NEW now, Ordered(q, now), NEW r, r.due = q.due,
         r.list = q.list \/ \E x : r.list = Unlink(q.list, x)
  PROVE  Ordered(r, now)
<1>1. q.list \in Seq(Timer) /\ Injective(q.list)
  BY DEF SoftOK, SoftState
<1>2. CASE r.list = q.list
  BY <1>2 DEF Ordered
<1>3. ASSUME NEW x, r.list = Unlink(q.list, x) PROVE Ordered(r, now)
  <2>1. InOrderOf(r.list, q.due) /\ Nodes(r.list) \subseteq Nodes(q.list)
    BY <1>1, <1>3, UnlinkInOrder, UnlinkNodes DEF Ordered
  <2> QED BY <2>1 DEF Ordered
<1> QED BY <1>2, <1>3

\* A start sets a time that is near.
LEMMA UnlinkedOrdered ==
  ASSUME TicksFit, rt_tick \in Tick, NEW q, SoftOK(q), Ordered(q, rt_tick), NEW x \in Timer
  PROVE  /\ Ordered(Unlinked(q, x), rt_tick) /\ Near(Unlinked(q, x).due[x], rt_tick)
         /\ \A y \in Timer \ {x} : Unlinked(q, x).due[y] = q.due[y]
<1> DEFINE r == Unlinked(q, x)
           d == (rt_tick + q.init[x]) % TickModulus
<1>1. /\ SoftOK(r) /\ r.list = Unlink(q.list, x) /\ Nodes(r.list) = Nodes(q.list) \ {x}
      /\ r.due = [q.due EXCEPT ![x] = d]
  BY UnlinkedOK
<1>2. /\ q.list \in Seq(Timer) /\ q.due \in [Timer -> Tick] /\ q.init[x] \in Ticks
      /\ r.list \in Seq(Timer) /\ r.due \in [Timer -> Tick]
  BY <1>1 DEF SoftOK, SoftState
<1> HIDE DEF r, d
<1>3. r.due[x] = d /\ d \in Tick /\ \A y \in Timer \ {x} : r.due[y] = q.due[y]
  BY <1>1, <1>2
<1>4. Near(d, rt_tick)
  <2> DEFINE n == q.init[x]
             a == rt_tick + n
  <2>1. /\ n \in Nat /\ n < Half /\ n <= Half - MaxLate - Stride
        /\ rt_tick \in 0 .. (TickModulus - 1) /\ TickModulus \in Nat \ {0}
        /\ Half \in Nat /\ 2 * Half < TickModulus /\ MaxLate \in 1 .. Half /\ Stride \in Nat \ {0}
    <3>1. n \in Ticks /\ n \in 0 .. (Half - 1) /\ n + MaxLate + Stride <= Half
      BY <1>2, TickFacts DEF TicksFit
    <3> HIDE DEF n
    <3>2. /\ TickModulus \in Nat \ {0} /\ Half \in Nat /\ 2 * Half < TickModulus
          /\ MaxLate \in 1 .. Half /\ Stride \in Nat \ {0}
          /\ rt_tick \in 0 .. (TickModulus - 1)
      BY TickFacts
    <3> QED BY <3>1, <3>2
  <2> HIDE DEF n
  <2>2. a \in Int /\ (a \in 0 .. (TickModulus - 1) \/ a \in TickModulus .. (2 * TickModulus - 1))
    BY <2>1
  <2>3. d = a % TickModulus
    BY DEF d, n
  <2> HIDE DEF a
  <2>4. d = a \/ (d = a - TickModulus /\ a >= TickModulus)
    <3>1. /\ a \in 0 .. (TickModulus - 1) => a % TickModulus = a
          /\ a \in TickModulus .. (2 * TickModulus - 1) => a % TickModulus = a - TickModulus
      BY <2>1, <2>2, ModSmall
    <3>2. CASE a \in 0 .. (TickModulus - 1)
      BY <2>3, <3>1, <3>2
    <3>3. CASE a \in TickModulus .. (2 * TickModulus - 1)
      <4>1. d = a - TickModulus
        BY <2>3, <3>1, <3>3
      <4>2. a >= TickModulus
        BY <2>1, <3>3
      <4> QED BY <4>1, <4>2
    <3> QED BY <2>2, <3>2, <3>3
  <2>5. Minus(d, rt_tick) = IF d >= rt_tick THEN d - rt_tick ELSE d - rt_tick + TickModulus
    BY <1>3, MinusValue
  <2>6. Minus(d, rt_tick) = n
    BY <1>3, <2>1, <2>4, <2>5, TickFacts DEF a
  <2> QED BY <2>1, <2>6 DEF Near
<1>5. \A y \in Nodes(r.list) : r.due[y] = q.due[y] /\ Near(r.due[y], rt_tick)
  BY <1>1, <1>2, <1>3, EmptyNodes DEF Ordered
<1>6. InOrderOf(r.list, r.due)
  <2>1. InOrderOf(r.list, q.due)
    BY <1>1, <1>2, UnlinkInOrder DEF Ordered
  <2>2. \A i \in 1 .. Len(r.list) : r.due[r.list[i]] = q.due[r.list[i]]
    BY <1>5 DEF Nodes
  <2> QED BY <2>1, <2>2 DEF InOrderOf
<1>7. Ordered(r, rt_tick) /\ Near(r.due[x], rt_tick) /\ \A y \in Timer \ {x} : r.due[y] = q.due[y]
  BY <1>3, <1>4, <1>5, <1>6 DEF Ordered
<1> QED BY <1>7 DEF r

LEMMA LinkedOrdered ==
  ASSUME TicksFit, rt_tick \in Tick, NEW q, SoftOK(q), Ordered(q, rt_tick), NEW x \in Timer,
         x \notin Nodes(q.list), Near(q.due[x], rt_tick)
  PROVE  Ordered(TimerLinked(q, x), rt_tick) /\ TimerLinked(q, x).due = q.due
<1> DEFINE r == TimerLinked(q, x)
<1>1. Nodes(r.list) = Nodes(q.list) \cup {x} /\ r.due = q.due
  BY LinkedOK
<1>2. PICK i : Slot(q, x, i) /\ r.list = InsertBefore(q.list, i, x)
  BY LinkedOK
<1> HIDE DEF r
<1>3. q.list \in Seq(Timer) /\ q.due \in [Timer -> Tick]
  BY DEF SoftOK, SoftState
<1>4. /\ i \in 1 .. (Len(q.list) + 1)
      /\ \A j \in 1 .. (i - 1) : ~Later(q.due[q.list[j]], q.due[x])
      /\ i <= Len(q.list) => Later(q.due[q.list[i]], q.due[x])
  BY <1>2 DEF Slot
<1>5. InOrderOf(q.list, q.due) /\ \A y \in Nodes(q.list) : Near(q.due[y], rt_tick)
  BY DEF Ordered
<1>6. InOrderOf(r.list, q.due)
  <2> DEFINE s == q.list
             f == q.due
  <2>1. s \in Seq(Timer) /\ f \in [Timer -> Tick] /\ i \in 1 .. (Len(s) + 1)
    BY <1>3, <1>4
  <2>2. InOrderOf(s, f) /\ (\A y \in Nodes(s) : Near(f[y], rt_tick)) /\ Near(f[x], rt_tick)
    BY <1>5
  <2>3. (\A j \in 1 .. (i - 1) : ~Later(f[s[j]], f[x])) /\ (i <= Len(s) => Later(f[s[i]], f[x]))
    BY <1>4
  <2> HIDE DEF s, f
  <2>4. InOrderOf(InsertBefore(s, i, x), f)
    BY <2>1, <2>2, <2>3, InsertInOrder
  <2> QED BY <1>2, <2>4 DEF s, f
<1>7. Ordered(r, rt_tick)
  BY <1>1, <1>5, <1>6 DEF Ordered
<1> QED BY <1>1, <1>7 DEF r

\* The same timer is taken out and linked again.
LEMMA RestartOrdered ==
  ASSUME TicksFit, rt_tick \in Tick, NEW q, SoftOK(q), Ordered(q, rt_tick), NEW x \in Timer
  PROVE  LET r == TimerLinked(Unlinked(q, x), x)
         IN  /\ Ordered(r, rt_tick) /\ SoftOK(r)
             /\ \A y \in Timer : r.due[y] = q.due[y] \/ Near(r.due[y], rt_tick)
<1> DEFINE u == Unlinked(q, x)
           r == TimerLinked(u, x)
<1>1. SoftOK(u) /\ Nodes(u.list) = Nodes(q.list) \ {x}
  BY UnlinkedOK
<1>2. /\ Ordered(u, rt_tick) /\ Near(u.due[x], rt_tick)
      /\ \A y \in Timer \ {x} : u.due[y] = q.due[y]
  BY UnlinkedOrdered
<1> HIDE DEF u
<1>0. x \notin Nodes(u.list)
  BY <1>1
<1>3. Ordered(r, rt_tick) /\ r.due = u.due /\ SoftOK(r)
  BY <1>0, <1>1, <1>2, LinkedOrdered, LinkedOK
<1> HIDE DEF r
<1>4. \A y \in Timer : r.due[y] = q.due[y] \/ Near(r.due[y], rt_tick)
  BY <1>2, <1>3
<1> QED BY <1>3, <1>4 DEF r, u

\* A timer that is about to be linked keeps a time that is near.
LEMMA OrderWhole ==
  ASSUME TimerInvariant, TimerOrder, rt_tick' = rt_tick, Ordered(soft', rt_tick),
         \A y \in Timer : soft'.due[y] = soft.due[y] \/ Near(soft'.due[y], rt_tick),
         \A t \in Thread : pc'[t] = "start_link" =>
           \/ pc[t] = "start_link" /\ subject'[t] = subject[t]
           \/ Near(soft'.due[subject'[t]], rt_tick)
  PROVE  TimerOrder'
<1> SUFFICES ASSUME NEW t \in Thread, pc'[t] = "start_link", pc[t] = "start_link",
                    subject'[t] = subject[t]
             PROVE  Near(soft'.due[subject[t]], rt_tick)
  BY DEF TimerOrder, Ordered, Near
<1>1. subject[t] \in Timer
  BY InvariantParts DEF Subjects, Subject, Starting, TimerLocals
<1> QED BY <1>1 DEF TimerOrder

LEMMA OrderKept ==
  ASSUME TimerInvariant, TimerOrder, rt_tick' = rt_tick, soft'.due = soft.due,
         soft'.list = soft.list \/ \E x : soft'.list = Unlink(soft.list, x),
         \A t \in Thread : pc'[t] = "start_link" => pc[t] = "start_link" /\ subject'[t] = subject[t]
  PROVE  TimerOrder'
<1>1. Ordered(soft', rt_tick)
  BY RemovedOrdered, InvariantParts DEF TimerOrder
<1> QED BY <1>1, OrderWhole

\* t moves elsewhere than to the linking.
LEMMA NoneLinks ==
  ASSUME TimerInvariant, NEW t \in Thread, NEW m, m # "start_link", Goto(t, m),
         subject' = subject \/ \E x : With(t, x)
  PROVE  \A u \in Thread : pc'[u] = "start_link" => pc[u] = "start_link" /\ subject'[u] = subject[u]
<1>1. pc \in [Thread -> TimerPC] /\ subject \in [Thread -> Timer \cup {NoTimer}]
  BY InvariantParts DEF TimerLocals
<1> QED BY <1>1 DEF Goto, With

LEMMA StartOrder ==
  ASSUME TicksFit, TimerInvariant, TimerOrder, NEW t \in Thread, NEW x \in Timer, rt_timer_start(t, x)
  PROVE  TimerOrder'
<1>1. /\ soft' = Unlinked(soft, x) /\ rt_tick' = rt_tick
      /\ subject' = [subject EXCEPT ![t] = x] /\ pc' = [pc EXCEPT ![t] = "start_link"]
  BY DEF rt_timer_start, With, Goto
<1>2. /\ rt_tick \in Tick /\ SoftOK(soft) /\ Ordered(soft, rt_tick) /\ pc \in [Thread -> TimerPC]
      /\ subject \in [Thread -> Timer \cup {NoTimer}]
  BY InvariantParts DEF TimerLocals, TimerOrder
<1>3. /\ Ordered(soft', rt_tick) /\ Near(soft'.due[x], rt_tick)
      /\ \A y \in Timer \ {x} : soft'.due[y] = soft.due[y]
  BY <1>1, <1>2, UnlinkedOrdered
<1>4. \A u \in Thread : u # t => pc'[u] = pc[u] /\ subject'[u] = subject[u]
  BY <1>1, <1>2
<1>5. subject'[t] = x
  BY <1>1, <1>2
<1>6. \A u \in Thread : pc'[u] = "start_link" =>
           \/ pc[u] = "start_link" /\ subject'[u] = subject[u]
           \/ Near(soft'.due[subject'[u]], rt_tick)
  BY <1>3, <1>4, <1>5
<1>7. \A y \in Timer : soft'.due[y] = soft.due[y] \/ Near(soft'.due[y], rt_tick)
  BY <1>3
<1> QED BY <1>1, <1>3, <1>6, <1>7, OrderWhole

LEMMA LinkOrder ==
  ASSUME TicksFit, TimerInvariant, TimerOrder, NEW t \in Thread, StartLink(t)
  PROVE  TimerOrder'
<1>1. /\ pc[t] = "start_link" /\ soft' = TimerLinked(soft, subject[t]) /\ rt_tick' = rt_tick
      /\ subject' = subject /\ Goto(t, "start_check")
  BY DEF StartLink, At
<1>2. rt_tick \in Tick /\ SoftOK(soft) /\ Ordered(soft, rt_tick)
  BY InvariantParts DEF TimerLocals, TimerOrder
<1>3. /\ subject[t] \in Timer /\ subject[t] \notin Nodes(soft.list)
      /\ Near(soft.due[subject[t]], rt_tick)
  BY <1>1, InvariantParts DEF Subjects, Subject, Starting, TimerLocals, Agrees, Away, TimerOrder
<1>4. Ordered(soft', rt_tick) /\ soft'.due = soft.due
  BY <1>1, <1>2, <1>3, LinkedOrdered
<1>5. \A u \in Thread : pc'[u] = "start_link" => pc[u] = "start_link" /\ subject'[u] = subject[u]
  BY <1>1, NoneLinks
<1> QED BY <1>1, <1>4, <1>5, OrderWhole

LEMMA IsrOrder ==
  ASSUME TicksFit, TimerInvariant, TimerOrder, NEW x \in Timer, IsrStart(x)
  PROVE  TimerOrder'
<1>1. /\ soft' = TimerLinked(Unlinked(soft, x), x) /\ rt_tick' = rt_tick
      /\ subject' = subject /\ pc' = pc
  BY DEF IsrStart
<1>2. rt_tick \in Tick /\ SoftOK(soft) /\ Ordered(soft, rt_tick)
  BY InvariantParts DEF TimerLocals, TimerOrder
<1>3. /\ Ordered(soft', rt_tick)
      /\ \A y \in Timer : soft'.due[y] = soft.due[y] \/ Near(soft'.due[y], rt_tick)
  BY <1>1, <1>2, RestartOrdered
<1> QED BY <1>1, <1>3, OrderWhole

\* The calls that leave the list alone or take a timer off it.
LEMMA CallOrder ==
  ASSUME TimerInvariant, TimerOrder, NEW t \in Thread, NEW x \in Timer,
         \/ rt_timer_stop(t, x) \/ rt_timer_detach(t, x)
         \/ (\E d \in Ticks : rt_timer_control(t, x, d))
         \/ StartCheck(t) \/ StartResume(t) \/ StopUnlink(t) \/ StopClear(t)
  PROVE  TimerOrder'
<1>1. SoftOK(soft)
  BY InvariantParts
<1>2. CASE rt_timer_detach(t, x)
  <2>1. /\ soft' = Inactive(Removed(soft, x), x) /\ rt_tick' = rt_tick /\ pc' = pc
        /\ subject' = subject
    BY <1>2 DEF rt_timer_detach
  <2>2. SoftOK(Removed(soft, x)) /\ Removed(soft, x).list = Unlink(soft.list, x)
        /\ Removed(soft, x).due = soft.due
    BY <1>1, RemovedOK
  <2>3. soft'.list = Unlink(soft.list, x) /\ soft'.due = soft.due
    BY <2>1, <2>2, InactiveOK
  <2> QED BY <2>1, <2>3, OrderKept
<1>3. ASSUME NEW d \in Ticks, rt_timer_control(t, x, d) PROVE TimerOrder'
  <2>1. rt_tick' = rt_tick /\ pc' = pc /\ subject' = subject
    BY <1>3 DEF rt_timer_control
  <2>2. soft'.list = soft.list /\ soft'.due = soft.due
    BY <1>3, TimerControlInv
  <2> QED BY <2>1, <2>2, OrderKept
<1>4. CASE rt_timer_stop(t, x)
  <2>1. PICK m : Goto(t, m) /\ m # "start_link"
    BY <1>4 DEF rt_timer_stop, Back
  <2>2. rt_tick' = rt_tick /\ soft' = soft /\ (subject' = subject \/ \E y : With(t, y))
    BY <1>4 DEF rt_timer_stop
  <2> QED BY <2>1, <2>2, NoneLinks, OrderKept
<1>5. CASE StartCheck(t)
  <2>1. PICK m : Goto(t, m) /\ m # "start_link"
    BY <1>5 DEF StartCheck, Back
  <2>2. rt_tick' = rt_tick /\ soft' = soft /\ \E y : With(t, y)
    BY <1>5 DEF StartCheck
  <2> QED BY <2>1, <2>2, NoneLinks, OrderKept
<1>6. CASE StartResume(t)
  <2>1. Goto(t, "sched") /\ rt_tick' = rt_tick /\ soft' = soft /\ subject' = subject
    BY <1>6 DEF StartResume
  <2> QED BY <2>1, NoneLinks, OrderKept
<1>7. CASE StopUnlink(t)
  <2>1. /\ Goto(t, "stop_clear") /\ rt_tick' = rt_tick /\ soft' = Removed(soft, subject[t])
        /\ subject' = subject
    BY <1>7 DEF StopUnlink
  <2>2. soft'.list = Unlink(soft.list, subject[t]) /\ soft'.due = soft.due
    BY <1>1, <2>1, RemovedOK
  <2> QED BY <2>1, <2>2, NoneLinks, OrderKept
<1>8. CASE StopClear(t)
  <2>1. PICK m : Goto(t, m) /\ m # "start_link"
    BY <1>8 DEF StopClear, Back
  <2>2. /\ At(t, "stop_clear") /\ rt_tick' = rt_tick /\ soft' = Inactive(soft, subject[t])
        /\ \E y : With(t, y)
    BY <1>8 DEF StopClear
  <2>3. subject[t] \in Timer
    BY <2>2, InvariantParts DEF Subjects, Subject, Stopping, TimerLocals, At
  <2>4. soft'.list = soft.list /\ soft'.due = soft.due
    BY <1>1, <2>2, <2>3, InactiveOK
  <2> QED BY <2>1, <2>2, <2>4, NoneLinks, OrderKept
<1> QED BY <1>2, <1>3, <1>4, <1>5, <1>6, <1>7, <1>8

\* The steps of the timer thread.
LEMMA EntryOrder ==
  ASSUME TicksFit, TimerInvariant, TimerOrder, TimerEntry
  PROVE  TimerOrder'
<1>1. CASE NextTimeout \/ Nap \/ DelayReturn \/ rt_soft_timer_check \/ CallbackEnd
  <2>1. rt_tick' = rt_tick /\ soft' = soft /\ subject' = subject
    BY <1>1 DEF NextTimeout, Nap, DelayReturn, rt_soft_timer_check, CallbackEnd
  <2>2. PICK m : Goto(TimerThread, m) /\ m # "start_link"
    <3>1. CASE Nap
      <4>1. \/ Goto(TimerThread, "suspended") \/ Goto(TimerThread, "delaying")
            \/ Goto(TimerThread, "check")
        BY <3>1 DEF Nap, TGoto
      <4> QED BY <4>1
    <3>2. CASE NextTimeout
      BY <3>2 DEF NextTimeout, TGoto
    <3>3. CASE DelayReturn
      BY <3>3 DEF DelayReturn, TGoto
    <3>4. CASE rt_soft_timer_check
      BY <3>4 DEF rt_soft_timer_check, TGoto
    <3>5. CASE CallbackEnd
      BY <3>5 DEF CallbackEnd, TGoto
    <3> QED BY <1>1, <3>1, <3>2, <3>3, <3>4, <3>5
  <2> QED BY <2>1, <2>2, NoneLinks, OrderKept, TimerFacts
<1>2. CASE FirstTurn
  <2>1. /\ pc'[TimerThread] \in {"callback", "next"} /\ soft'.due = soft.due
        /\ soft'.list = soft.list \/ soft'.list = Unlink(soft.list, First(soft))
        /\ Moves(TimerPC, TimerThread) /\ rt_tick' = rt_tick /\ subject' = subject
    BY <1>2, FirstTurnFacts, TurnInv
  <2>2. \A t \in Thread : pc'[t] = "start_link" => pc[t] = "start_link" /\ subject'[t] = subject[t]
    BY <2>1 DEF Moves
  <2> QED BY <2>1, <2>2, OrderKept
<1>3. CASE NextTurn
  <2> DEFINE q == Settled
  <2>1. /\ pc'[TimerThread] \in {"callback", "next"} /\ soft'.due = q.due
        /\ soft'.list = q.list \/ soft'.list = Unlink(q.list, following)
        /\ Moves(TimerPC, TimerThread) /\ rt_tick' = rt_tick /\ subject' = subject
    BY <1>3, NextTurnFacts, TurnInv
  <2>2. \A t \in Thread : pc'[t] = "start_link" => pc[t] = "start_link" /\ subject'[t] = subject[t]
    BY <2>1 DEF Moves
  <2>3. rt_tick \in Tick /\ SoftOK(soft) /\ Ordered(soft, rt_tick) /\ calling \in Timer
    BY <1>3, NextTurnFacts, InvariantParts DEF TimerLocals, TimerOrder
  <2>4. /\ Ordered(q, rt_tick) /\ SoftOK(q)
        /\ \A y \in Timer : q.due[y] = soft.due[y] \/ Near(q.due[y], rt_tick)
    <3>1. CASE calling \in Periodic /\ soft.active[calling]
      <4>1. q = TimerLinked(Unlinked(soft, calling), calling)
        BY <3>1 DEF Settled
      <4> QED BY <2>3, <4>1, RestartOrdered
    <3>2. CASE ~(calling \in Periodic /\ soft.active[calling])
      <4>1. q = Inactive(soft, calling)
        BY <3>2 DEF Settled
      <4>2. SoftOK(q) /\ q.list = soft.list /\ q.due = soft.due
        BY <2>3, <4>1, InactiveOK
      <4> QED BY <2>3, <4>2 DEF Ordered
    <3> QED BY <3>1, <3>2
  <2> HIDE DEF q
  <2>5. Ordered(soft', rt_tick)
    BY <2>1, <2>4, RemovedOrdered
  <2> QED BY <2>1, <2>2, <2>4, <2>5, OrderWhole
<1> QED BY <1>1, <1>2, <1>3 DEF TimerEntry

\* The tick goes on while no timer in the list is looked at too late.
LEMMA TickOrder ==
  ASSUME TicksFit, TimerInvariant, TimerOutranks, TimerOrder, TickIncrease
  PROVE  TimerOrder'
<1> DEFINE now == rt_tick
           then == (now + Stride) % TickModulus
<1>1. /\ rt_tick' = then /\ soft' = soft /\ subject' = subject /\ pc' = pc
      /\ \A p \in Pending : Minus(now, p) < Half => Minus(now, p) < MaxLate
  BY TimerTick, InvariantParts DEF TickIncrease
<1>2. /\ now \in 0 .. (TickModulus - 1) /\ TickModulus \in Nat \ {0} /\ now \in Tick
      /\ Half \in Nat /\ 2 * Half < TickModulus /\ MaxLate \in 1 .. Half /\ Stride \in Nat \ {0}
  BY InvariantParts, TickFacts DEF TimerLocals
<1>3. MaxLate + Stride <= Half
  <2>1. PICK e \in Ticks : e + MaxLate + Stride <= Half
    BY TickFacts DEF TicksFit
  <2>2. e \in Nat
    BY TickFacts
  <2> QED BY <1>2, <2>1, <2>2
<1>4. /\ then \in 0 .. (TickModulus - 1)
      /\ then = now + Stride \/ then = now + Stride - TickModulus
  <2> DEFINE a == now + Stride
  <2>1. a \in Int /\ (a \in 0 .. (TickModulus - 1) \/ a \in TickModulus .. (2 * TickModulus - 1))
    BY <1>2, <1>3
  <2>2. then = a % TickModulus
    OBVIOUS
  <2> HIDE DEF a, then
  <2>3. /\ a \in 0 .. (TickModulus - 1) => a % TickModulus = a
        /\ a \in TickModulus .. (2 * TickModulus - 1) => a % TickModulus = a - TickModulus
    BY <1>2, <2>1, ModSmall
  <2>4. CASE a \in 0 .. (TickModulus - 1)
    BY <2>2, <2>3, <2>4 DEF a
  <2>5. CASE a \in TickModulus .. (2 * TickModulus - 1)
    <3>1. then = a - TickModulus
      BY <2>2, <2>3, <2>5
    <3> QED BY <1>2, <2>1, <2>5, <3>1 DEF a
  <2> QED BY <2>1, <2>4, <2>5
<1> HIDE DEF now, then
<1>5. ASSUME NEW d \in Tick, Near(d, now), Minus(now, d) < Half => Minus(now, d) < MaxLate
      PROVE  Near(d, then)
  <2>0. then \in Tick /\ d \in 0 .. (TickModulus - 1)
    BY <1>4, TickFacts
  <2>1. /\ Minus(d, now) = IF d >= now THEN d - now ELSE d - now + TickModulus
        /\ Minus(now, d) = IF now >= d THEN now - d ELSE now - d + TickModulus
        /\ Minus(d, then) = IF d >= then THEN d - then ELSE d - then + TickModulus
        /\ Minus(then, d) = IF then >= d THEN then - d ELSE then - d + TickModulus
    BY <1>2, <2>0, MinusValue
  <2>2. Minus(d, now) <= Half - MaxLate - Stride \/ Minus(now, d) <= MaxLate + Stride - 1
    BY <1>5 DEF Near
  <2>3. CASE Minus(d, now) <= Half - MaxLate - Stride
    <3>1. CASE Minus(d, now) >= Stride
      <4>1. Minus(d, then) = Minus(d, now) - Stride
        BY <1>2, <1>3, <1>4, <2>0, <2>1, <2>3, <3>1
      <4> QED BY <1>2, <2>0, <2>1, <2>3, <4>1 DEF Near
    <3>2. CASE ~(Minus(d, now) >= Stride)
      <4>1. Minus(then, d) = Stride - Minus(d, now)
        BY <1>2, <1>3, <1>4, <2>0, <2>1, <2>3, <3>2
      <4>2. Minus(d, now) >= 0 /\ Minus(d, now) \in Int
        BY <1>2, <2>0, <2>1
      <4>3. Minus(then, d) <= MaxLate + Stride - 1
        BY <1>2, <4>1, <4>2
      <4> QED BY <4>3 DEF Near
    <3> QED BY <3>1, <3>2
  <2>4. CASE Minus(now, d) <= MaxLate + Stride - 1
    <3>1. Minus(now, d) < MaxLate /\ Minus(now, d) \in Nat
      BY <1>2, <1>3, <1>5, <2>0, <2>1, <2>4
    <3>2. Minus(then, d) = Minus(now, d) + Stride
      BY <1>2, <1>3, <1>4, <2>0, <2>1, <3>1
    <3>3. Minus(then, d) <= MaxLate + Stride - 1
      BY <1>2, <3>1, <3>2
    <3> QED BY <3>3 DEF Near
  <2> QED BY <2>2, <2>3, <2>4
<1>6. soft.due \in [Timer -> Tick] /\ Nodes(soft.list) \subseteq Timer
  BY InvariantParts, EmptyNodes DEF SoftOK, SoftState
<1>7. ASSUME NEW x \in Timer, x \in Nodes(soft.list) \/ \E t \in Thread : subject[t] = x,
             Near(soft.due[x], now)
      PROVE  Near(soft.due[x], then)
  <2>1. soft.due[x] \in Pending
    BY <1>7 DEF Pending
  <2> QED BY <1>1, <1>5, <1>6, <1>7, <2>1 DEF now
<1>8. \A x \in Nodes(soft.list) : Near(soft.due[x], then)
  BY <1>6, <1>7 DEF TimerOrder, Ordered, now
<1>9. ASSUME NEW t \in Thread, pc[t] = "start_link" PROVE Near(soft.due[subject[t]], then)
  <2>1. subject[t] \in Timer
    BY <1>9, InvariantParts DEF Subjects, Subject, Starting, TimerLocals
  <2> QED BY <1>7, <1>9, <2>1 DEF TimerOrder, now
<1> QED BY <1>1, <1>8, <1>9 DEF TimerOrder, Ordered, Near

LEMMA OrderStart ==
  ASSUME TimerInit, TicksFit
  PROVE  TimerOrder
<1>1. PICK init \in [Timer -> Ticks] :
        soft = [list   |-> IF InitTimer = NoTimer THEN <<>> ELSE <<InitTimer>>,
                active |-> [x \in Timer |-> x = InitTimer],
                due    |-> [x \in Timer |-> IF x = InitTimer THEN init[x] ELSE 0],
                init   |-> init]
  BY DEF TimerInit
<1>2. /\ soft.list = IF InitTimer = NoTimer THEN <<>> ELSE <<InitTimer>>
      /\ InitTimer \in Timer => soft.due[InitTimer] = init[InitTimer]
  BY <1>1
<1>3. rt_tick = 0 /\ \A t \in Thread : pc[t] # "start_link"
  BY DEF TimerInit
<1>4. CASE InitTimer = NoTimer
  <2>1. soft.list = <<>>
    BY <1>2, <1>4
  <2> QED BY <1>3, <2>1 DEF TimerOrder, Ordered, InOrderOf, Nodes
<1>5. CASE InitTimer # NoTimer
  <2>1. soft.list = <<InitTimer>> /\ InitTimer \in Timer
    BY <1>2, <1>5, SoftTimerAssumption
  <2> DEFINE d == init[InitTimer]
  <2>2. d \in Ticks /\ soft.due[InitTimer] = d
    BY <1>2, <2>1
  <2> HIDE DEF d
  <2>3. d \in 0 .. (Half - 1) /\ d + MaxLate + Stride <= Half
    BY <2>2, TickFacts DEF TicksFit
  <2>4. d \in Tick /\ 0 \in Tick /\ d \in Nat /\ d <= Half - MaxLate - Stride
    BY <2>3, TickFacts
  <2>5. Minus(d, 0) = d
    <3>1. Minus(d, 0) = IF d >= 0 THEN d - 0 ELSE d - 0 + TickModulus
      BY <2>4, MinusValue
    <3> QED BY <2>4, <3>1
  <2>6. Near(d, 0)
    BY <2>4, <2>5 DEF Near
  <2>7. Nodes(soft.list) = {InitTimer} /\ Len(soft.list) = 1
    BY <2>1 DEF Nodes
  <2>8. InOrderOf(soft.list, soft.due)
    BY <2>7 DEF InOrderOf
  <2> QED BY <1>3, <2>2, <2>6, <2>7, <2>8 DEF TimerOrder, Ordered
<1> QED BY <1>4, <1>5

LEMMA OrderStep ==
  ASSUME TicksFit, TimerOutranks, TimerInvariant, TimerOrder, [TimerNext]_timer_vars
  PROVE  TimerOrder'
<1>1. CASE UNCHANGED timer_vars
  BY <1>1, TimerStutter, OrderKept
<1>2. ASSUME NEW t \in Thread, NEW x \in Timer,
             \/ rt_timer_start(t, x) \/ rt_timer_stop(t, x) \/ rt_timer_detach(t, x)
             \/ \E d \in Ticks : rt_timer_control(t, x, d)
      PROVE  TimerOrder'
  BY <1>2, StartOrder, CallOrder
<1>3. ASSUME NEW t \in Thread, TimerCall(t) PROVE TimerOrder'
  <2>1. CASE StartLink(t)
    BY <2>1, LinkOrder
  <2>2. CASE StartCheck(t) \/ StartResume(t) \/ StopUnlink(t) \/ StopClear(t)
    <3>1. CASE Timer = {}
      <4>1. \A u \in Thread : pc[u] # "start_link" /\ subject[u] = NoTimer
        BY <3>1, InvariantParts DEF Subjects, Subject, Starting, TimerLocals
      <4>2. soft.list = <<>>
        BY <3>1, InvariantParts, EmptyNodes DEF SoftOK, SoftState
      <4>3. pc[t] \in {"start_check", "start_resume", "stop_unlink", "stop_clear"}
        BY <2>2 DEF StartCheck, StartResume, StopUnlink, StopClear, At
      <4>4. pc[t] = "start_resume"
        BY <4>1, <4>3, InvariantParts DEF Subjects, Subject, Starting, Stopping
      <4>5. t \in TimerUsers
        BY <4>4, InvariantParts DEF TimerKernelOK, TimerPlaces, EntryPC
      <4> QED BY <3>1, <4>5 DEF TimerUsers
    <3>2. CASE Timer # {}
      BY <2>2, <3>2, CallOrder
    <3> QED BY <3>1, <3>2
  <2> QED BY <1>3, <2>1, <2>2 DEF TimerCall
<1>4. ASSUME NEW x \in Timer, IsrStart(x) PROVE TimerOrder'
  BY <1>4, IsrOrder
<1>5. CASE Sched
  <2>1. rt_tick' = rt_tick /\ soft' = soft /\ subject' = subject
    BY <1>5 DEF Sched
  <2>2. PICK t \in Thread : Moves(TimerPC, t) /\ pc'[t] \in {"check", "delayed", "run"}
    BY <1>5, TimerSched, InvariantParts
  <2>3. \A u \in Thread : pc'[u] = "start_link" => pc[u] = "start_link" /\ subject'[u] = subject[u]
    BY <2>1, <2>2 DEF Moves
  <2> QED BY <2>1, <2>3, OrderKept
<1>6. CASE DelayOver
  <2>1. rt_tick' = rt_tick /\ soft' = soft /\ subject' = subject /\ pc' = pc
    BY <1>6 DEF DelayOver, TickTimeout
  <2> QED BY <2>1, OrderKept
<1> QED BY <1>1, <1>2, <1>3, <1>4, <1>5, <1>6, EntryOrder, TickOrder DEF TimerNext

\* The list is in the order in which the timers are due, across the wrap of the tick, and
\* no timer is in it twice, however many timers there are and whoever starts them.
THEOREM SortedCorrect ==
  TimersApart /\ TimerOutranks /\ TicksFit => (TimerSpec => []Sorted)
<1> SUFFICES ASSUME TimersApart, TimerOutranks, TicksFit PROVE TimerSpec => []Sorted
  OBVIOUS
<1>1. TimerInit => TimerOrder
  BY OrderStart
<1>2. TimerInvariant /\ TimerOrder /\ [TimerNext]_timer_vars => TimerOrder'
  BY OrderStep
<1>3. TimerInvariant /\ TimerOrder => Sorted
  <2> SUFFICES ASSUME TimerInvariant, TimerOrder PROVE Sorted
    OBVIOUS
  <2>1. soft \in SoftState /\ Injective(soft.list)
    BY InvariantParts DEF SoftOK
  <2>2. TimerTypeOK
    BY <2>1, InvariantParts, TimerKernel DEF TimerTypeOK, TimerLocals, SoftState, TimerKernelOK
  <2>3. Len(soft.list) \in Nat
    BY <2>1 DEF SoftState
  <2> QED BY <2>1, <2>2, <2>3 DEF Sorted, TimerOrder, Ordered, InOrderOf, Injective
<1> QED BY <1>1, <1>2, <1>3, SoftTimerInvariance, PTL DEF TimerSpec

-----------------------------------------------------------------------------
(* What the timer thread sleeps past. *)

Excused == {"start_check", "start_resume"}

LEMMA SleepKept ==
  ASSUME SleepInvariant, k'.stat[TimerThread] = k.stat[TimerThread],
         Nodes(soft'.list) \subseteq Nodes(soft.list), next_timeout' = next_timeout,
         \A u \in Thread : pc[u] \in Excused => pc'[u] \in Excused,
         pc'[TimerThread] = "nap" => pc[TimerThread] = "nap",
         pc'[TimerThread] \in {"suspended", "check"} => pc[TimerThread] \in {"suspended", "check"}
  PROVE  SleepInvariant'
  BY DEF SleepInvariant, SleepsOnlyPast, Excused

\* The timer thread is ready: it does not sleep, and next_timeout is what it was.
LEMMA SleepReady ==
  ASSUME SleepInvariant, k'.stat[TimerThread] = "READY", next_timeout' = next_timeout,
         pc'[TimerThread] = "nap" => pc[TimerThread] = "nap",
         \A x \in Nodes(soft'.list) : x \in Nodes(soft.list) \cup IsrStarts
  PROVE  SleepInvariant'
  BY DEF SleepInvariant, SleepsOnlyPast

\* The timer thread is awake, and past the reading of next_timeout.
LEMMA SleepAwake ==
  ASSUME pc'[TimerThread] \notin {"nap", "suspended", "check"}
  PROVE  SleepInvariant'
  BY DEF SleepInvariant, SleepsOnlyPast

\* A caller that leaves from or arrives at a point where it owes a wake-up.
LEMMA SleepCaller ==
  ASSUME TimerInvariant, NEW t \in Thread, NEW l, At(t, l), l # "sched", t \in TimerUsers, NEW m,
         Goto(t, m)
  PROVE  /\ pc'[TimerThread] = pc[TimerThread] /\ pc[TimerThread] \in Sleeps
         /\ pc'[t] = m /\ \A u \in Thread \ {t} : pc'[u] = pc[u]
<1>1. pc \in [Thread -> TimerPC] /\ t \in Thread \ {TimerThread} /\ TimerKernelOK
  BY InvariantParts, TimerFacts
<1>2. pc[TimerThread] \in Sleeps
  BY <1>1, UserRuns
<1> QED BY <1>1, <1>2, TimerFacts DEF Goto

\* A call that leaves the kernel alone and links no timer.
LEMMA SleepCall ==
  ASSUME TimerInvariant, SleepInvariant, NEW t \in Thread, NEW l, At(t, l), l \notin Excused,
         l \in {"callback", "run"} \cup Starting \cup Stopping, l = "run" => t \in TimerUsers,
         NEW m, Goto(t, m), m \notin {"nap", "suspended", "check"},
         k' = k, Nodes(soft'.list) \subseteq Nodes(soft.list), next_timeout' = next_timeout
  PROVE  SleepInvariant'
<1>1. pc[t] = l /\ l # "sched" /\ (t # TimerThread => t \in TimerUsers)
  BY CallerFacts
<1>2. CASE t = TimerThread
  <2>1. pc'[TimerThread] = m
    BY <1>2, InvariantParts DEF Goto
  <2> QED BY <2>1, SleepAwake
<1>3. CASE t # TimerThread
  <2>1. pc'[TimerThread] = pc[TimerThread] /\ \A u \in Thread \ {t} : pc'[u] = pc[u]
    BY <1>1, <1>3, SleepCaller
  <2>2. \A u \in Thread : pc[u] \in Excused => pc'[u] \in Excused
    BY <1>1, <2>1
  <2> QED BY <2>1, <2>2, SleepKept
<1> QED BY <1>2, <1>3

LEMMA CallSleep ==
  ASSUME TimerInvariant, SleepInvariant, NEW t \in Thread, NEW x \in Timer,
         \/ rt_timer_start(t, x) \/ rt_timer_stop(t, x) \/ rt_timer_detach(t, x)
         \/ \E d \in Ticks : rt_timer_control(t, x, d)
  PROVE  SleepInvariant'
<1>1. SoftOK(soft) /\ rt_tick \in Tick
  BY InvariantParts DEF TimerLocals
<1> DEFINE l == Caller(t)
<1>2. l \in {"callback", "run"} /\ l \notin Excused
  BY DEF Caller, Excused
<1>3. CASE rt_timer_start(t, x)
  <2>1. /\ At(t, l) /\ MayStart(t, x) /\ soft' = Unlinked(soft, x) /\ Goto(t, "start_link") /\ k' = k
        /\ next_timeout' = next_timeout
    BY <1>3 DEF rt_timer_start, entry_locals
  <2>2. l = "run" => t \in TimerUsers
    BY <2>1, TimerFacts DEF Caller, MayStart
  <2>3. Nodes(soft'.list) \subseteq Nodes(soft.list)
    <3>1. Nodes(soft'.list) = Nodes(soft.list) \ {x}
      BY <1>1, <2>1, UnlinkedOK
    <3> QED BY <3>1
  <2> HIDE DEF l
  <2> QED BY <1>2, <2>1, <2>2, <2>3, SleepCall
<1>4. CASE rt_timer_stop(t, x)
  <2>1. At(t, l) /\ MayStop(t, x) /\ soft' = soft /\ k' = k /\ next_timeout' = next_timeout
    BY <1>4 DEF rt_timer_stop, entry_locals
  <2>2. PICK m : Goto(t, m) /\ m \notin {"nap", "suspended", "check"}
    BY <1>4 DEF rt_timer_stop, Back
  <2>3. l = "run" => t \in TimerUsers
    BY <2>1, TimerFacts DEF Caller, MayStop
  <2> HIDE DEF l
  <2> QED BY <1>2, <2>1, <2>2, <2>3, SleepCall
<1>5. CASE rt_timer_detach(t, x)
  <2>1. /\ soft' = Inactive(Removed(soft, x), x) /\ k' = k /\ pc' = pc
        /\ next_timeout' = next_timeout
    BY <1>5 DEF rt_timer_detach, entry_locals
  <2>2. SoftOK(Removed(soft, x)) /\ Nodes(Removed(soft, x).list) = Nodes(soft.list) \ {x}
    BY <1>1, RemovedOK
  <2>3. soft'.list = Removed(soft, x).list
    BY <2>1, <2>2, InactiveOK
  <2>4. Nodes(soft'.list) \subseteq Nodes(soft.list)
    BY <2>2, <2>3
  <2> QED BY <2>1, <2>4, SleepKept
<1>6. ASSUME NEW d \in Ticks, rt_timer_control(t, x, d) PROVE SleepInvariant'
  <2>1. k' = k /\ pc' = pc /\ next_timeout' = next_timeout
    BY <1>6 DEF rt_timer_control, entry_locals
  <2>2. soft'.list = soft.list
    BY <1>6, TimerControlInv
  <2> QED BY <2>1, <2>2, SleepKept
<1> QED BY <1>3, <1>4, <1>5, <1>6

LEMMA TimerCallSleep ==
  ASSUME TimerInvariant, SleepInvariant, NEW t \in Thread, TimerCall(t)
  PROVE  SleepInvariant'
<1>1. SoftOK(soft) /\ pc \in [Thread -> TimerPC] /\ TimerThread \in Thread
  BY InvariantParts
<1>2. ASSUME NEW l \in {"start_link", "start_check"}, At(t, l), NEW m \in Excused, Goto(t, m)
      PROVE  SleepInvariant'
  <2>1. pc'[t] = m
    BY <1>1, <1>2 DEF Goto
  <2>2. pc'[TimerThread] # "nap"
    <3>1. CASE t = TimerThread
      BY <2>1, <3>1 DEF Excused
    <3>2. CASE t # TimerThread
      <4>1. l \in Starting /\ l # "run" /\ l # "sched"
        BY DEF Starting
      <4>2. t \in TimerUsers
        BY <1>2, <3>2, <4>1, CallerFacts
      <4>3. pc'[TimerThread] \in Sleeps
        BY <1>2, <4>1, <4>2, SleepCaller
      <4> QED BY <4>3 DEF Sleeps
    <3> QED BY <3>1, <3>2
  <2> QED BY <2>1, <2>2 DEF SleepInvariant, SleepsOnlyPast, Excused
<1>3. CASE StartLink(t)
  <2>1. At(t, "start_link") /\ Goto(t, "start_check")
    BY <1>3 DEF StartLink
  <2> QED BY <1>2, <2>1 DEF Excused
<1>4. CASE StartCheck(t)
  <2>1. /\ At(t, "start_check") /\ k' = k /\ soft' = soft /\ next_timeout' = next_timeout
        /\ Goto(t, IF k.stat[TimerThread] = "READY" THEN Back(t) ELSE "start_resume")
    BY <1>4 DEF StartCheck, entry_locals
  <2>2. CASE k.stat[TimerThread] = "READY"
    <3>1. Goto(t, Back(t)) /\ Back(t) # "nap"
      BY <2>1, <2>2 DEF Back
    <3>2. pc'[TimerThread] = "nap" => pc[TimerThread] = "nap"
      BY <1>1, <3>1 DEF Goto
    <3> QED BY <2>1, <2>2, <3>2, SleepReady
  <2>3. CASE k.stat[TimerThread] # "READY"
    BY <1>2, <2>1, <2>3 DEF Excused
  <2> QED BY <2>2, <2>3
<1>5. CASE StartResume(t)
  <2>1. k'.stat[TimerThread] = "READY" /\ t # TimerThread /\ Moves(TimerPC, t)
    BY <1>5, UserResumes, InvariantParts
  <2>2. soft' = soft /\ next_timeout' = next_timeout
    BY <1>5 DEF StartResume, entry_locals
  <2>3. pc'[TimerThread] = pc[TimerThread]
    BY <1>1, <2>1 DEF Moves
  <2> QED BY <2>1, <2>2, <2>3, SleepReady
<1>6. CASE StopUnlink(t)
  <2>1. /\ At(t, "stop_unlink") /\ soft' = Removed(soft, subject[t]) /\ Goto(t, "stop_clear")
        /\ k' = k /\ next_timeout' = next_timeout
    BY <1>6 DEF StopUnlink, entry_locals
  <2>2. Nodes(soft'.list) \subseteq Nodes(soft.list)
    <3>1. Nodes(soft'.list) = Nodes(soft.list) \ {subject[t]}
      BY <1>1, <2>1, RemovedOK
    <3> QED BY <3>1
  <2> QED BY <2>1, <2>2, SleepCall DEF Excused, Stopping
<1>7. CASE StopClear(t)
  <2>1. /\ At(t, "stop_clear") /\ soft' = Inactive(soft, subject[t]) /\ Goto(t, Back(t))
        /\ k' = k /\ next_timeout' = next_timeout
    BY <1>7 DEF StopClear, entry_locals
  <2>2. subject[t] \in Timer
    BY <2>1, CallerFacts DEF Stopping
  <2>3. Nodes(soft'.list) \subseteq Nodes(soft.list)
    BY <1>1, <2>1, <2>2, InactiveOK
  <2>4. Back(t) \notin {"nap", "suspended", "check"}
    BY DEF Back
  <2> QED BY <2>1, <2>3, <2>4, SleepCall DEF Excused, Stopping
<1> QED BY <1>3, <1>4, <1>5, <1>6, <1>7, <1>2 DEF TimerCall

LEMMA EntrySleep ==
  ASSUME TimerInvariant, SleepInvariant, NoneDueAtMax, TimerEntry
  PROVE  SleepInvariant'
<1>1. CASE NextTimeout
  <2>1. /\ Goto(TimerThread, "nap") /\ soft' = soft
        /\ next_timeout' = IF soft.list = <<>> THEN RT_TICK_MAX ELSE soft.due[Head(soft.list)]
    BY <1>1 DEF NextTimeout, TGoto
  <2>2. pc'[TimerThread] = "nap"
    BY <2>1, InvariantParts DEF Goto
  <2>3. next_timeout' = RT_TICK_MAX => Nodes(soft.list) = {}
    <3>1. soft.list \in Seq(Timer)
      BY InvariantParts DEF SoftOK, SoftState
    <3>2. CASE soft.list # <<>>
      <4>1. Head(soft.list) \in Nodes(soft.list)
        BY <3>1, <3>2, EmptyNodes
      <4> QED BY <2>1, <3>2, <4>1 DEF NoneDueAtMax
    <3>3. CASE soft.list = <<>>
      BY <3>3 DEF Nodes
    <3> QED BY <3>2, <3>3
  <2> QED BY <2>1, <2>2, <2>3 DEF SleepInvariant, SleepsOnlyPast
<1>2. CASE Nap
  <2>1. soft' = soft /\ next_timeout' = next_timeout
    BY <1>2 DEF Nap, entry_locals
  <2>2. /\ pc[TimerThread] = "nap" /\ pc'[TimerThread] \in Dozes \cup {"check"}
        /\ pc'[TimerThread] = "suspended" => next_timeout = RT_TICK_MAX
        /\ pc'[TimerThread] = "check" => k' = k /\ k.stat[TimerThread] = "READY"
    BY <1>2, NapInv
  <2> QED BY <2>1, <2>2 DEF SleepInvariant, SleepsOnlyPast, Dozes
<1>3. CASE DelayReturn
  <2>1. soft' = soft /\ next_timeout' = next_timeout
    BY <1>3 DEF DelayReturn, entry_locals
  <2>2. k'.stat[TimerThread] = "READY" /\ pc'[TimerThread] = "check"
    BY <1>3, DelayReturnKernel, InvariantParts
  <2> QED BY <2>1, <2>2, SleepReady
<1>4. CASE rt_soft_timer_check
  <2>1. pc'[TimerThread] = "first"
    BY <1>4, SoftCheckInv
  <2> QED BY <2>1, SleepAwake
<1>5. CASE CallbackEnd
  <2>1. pc'[TimerThread] = "after"
    BY <1>5, CallbackEndInv
  <2> QED BY <2>1, SleepAwake
<1>6. CASE FirstTurn \/ NextTurn
  <2>1. pc'[TimerThread] \in {"callback", "next"}
    BY <1>6, FirstTurnFacts, NextTurnFacts, TurnInv
  <2> QED BY <2>1, SleepAwake
<1> QED BY <1>1, <1>2, <1>3, <1>4, <1>5, <1>6 DEF TimerEntry

LEMMA SleepInvStep ==
  ASSUME TimerOutranks, TimerInvariant, SleepInvariant, NoneDueAtMax, [TimerNext]_timer_vars
  PROVE  SleepInvariant'
<1>1. CASE UNCHANGED timer_vars
  BY <1>1, TimerStutter, SleepKept
<1>2. ASSUME NEW x \in Timer, IsrStart(x) PROVE SleepInvariant'
  <2>1. /\ x \in IsrStarts /\ soft' = TimerLinked(Unlinked(soft, x), x) /\ pc' = pc
        /\ k' = IF k.stat[TimerThread] # "READY"
                THEN rt_schedule(rt_thread_resume(k, TimerThread)) ELSE k
        /\ next_timeout' = next_timeout
    BY <1>2 DEF IsrStart, entry_locals
  <2>2. k'.stat[TimerThread] = "READY"
    BY <2>1, IsrResumes, InvariantParts
  <2> DEFINE u == Unlinked(soft, x)
  <2>3. SoftOK(u) /\ Nodes(u.list) = Nodes(soft.list) \ {x}
    BY UnlinkedOK, InvariantParts DEF TimerLocals
  <2> HIDE DEF u
  <2>4. Nodes(TimerLinked(u, x).list) = Nodes(u.list) \cup {x}
    <3>1. x \notin Nodes(u.list)
      BY <2>3
    <3> QED BY <2>3, <3>1, LinkedOK
  <2>5. \A y \in Nodes(soft'.list) : y \in Nodes(soft.list) \cup IsrStarts
    BY <2>1, <2>3, <2>4 DEF u
  <2> QED BY <2>1, <2>2, <2>5, SleepReady
<1>3. CASE Sched
  <2>1. soft' = soft /\ next_timeout' = next_timeout
    BY <1>3 DEF Sched, entry_locals
  <2>2. k'.stat = k.stat
    BY <1>3, TimerSched, InvariantParts
  <2>3. PICK t \in Thread : /\ Moves(TimerPC, t)
                            /\ \/ t = TimerThread /\ pc[t] = "suspended" /\ pc'[t] = "check"
                               \/ t = TimerThread /\ pc[t] = "delaying" /\ pc'[t] = "delayed"
                               \/ t # TimerThread /\ pc[t] = "sched" /\ pc'[t] = "run"
    BY <1>3, TimerSched, InvariantParts
  <2>4. \A u \in Thread : pc[u] \in Excused => pc'[u] \in Excused
    BY <2>3 DEF Moves, Excused
  <2>5. /\ pc'[TimerThread] = "nap" => pc[TimerThread] = "nap"
        /\ pc'[TimerThread] \in {"suspended", "check"} => pc[TimerThread] \in {"suspended", "check"}
    BY <2>3, TimerFacts DEF Moves
  <2> QED BY <2>1, <2>2, <2>4, <2>5, SleepKept
<1>4. CASE TickIncrease
  <2>1. soft' = soft /\ next_timeout' = next_timeout
    BY <1>4 DEF TickIncrease, entry_locals
  <2>2. pc' = pc /\ k'.stat = k.stat
    BY <1>4, TimerTick, InvariantParts
  <2> QED BY <2>1, <2>2, SleepKept
<1>5. CASE DelayOver
  <2>1. soft' = soft /\ next_timeout' = next_timeout
    BY <1>5 DEF DelayOver, entry_locals
  <2>2. pc' = pc /\ k'.stat[TimerThread] = "READY"
    BY <1>5, DelayOverKernel, InvariantParts
  <2> QED BY <2>1, <2>2, SleepReady
<1> QED BY <1>1, <1>2, <1>3, <1>4, <1>5, CallSleep, TimerCallSleep, EntrySleep DEF TimerNext

\* The timer thread sleeps without a time-out only while every timer in the list was
\* started by an interrupt handler, or a thread is about to wake it up; in every run in
\* which no timer is due at RT_TICK_MAX, the tick that stands for "no timer".
THEOREM SleepsOnlyPastCorrect ==
  TimersApart /\ TimerOutranks => (TimerSpec /\ []NoneDueAtMax => []SleepsOnlyPast)
<1> SUFFICES ASSUME TimersApart, TimerOutranks
             PROVE  TimerSpec /\ []NoneDueAtMax => []SleepsOnlyPast
  OBVIOUS
<1>1. TimerInit => SleepInvariant
  BY TimerFacts DEF TimerInit, SleepInvariant, SleepsOnlyPast
<1>2. TimerInvariant /\ SleepInvariant /\ NoneDueAtMax /\ [TimerNext]_timer_vars => SleepInvariant'
  BY SleepInvStep
<1>3. SleepInvariant => SleepsOnlyPast
  BY DEF SleepInvariant
<1> QED BY <1>1, <1>2, <1>3, SoftTimerInvariance, PTL DEF TimerSpec

=============================================================================
