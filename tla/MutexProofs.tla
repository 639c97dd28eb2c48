---------------------------- MODULE MutexProofs -----------------------------
(***************************************************************************)
(* The safety properties of the mutex.  Ownership (OwnerHolds, FieldsAgree) *)
(* is proved for every number of threads and mutexes, priority inheritance *)
(* (Inherits, PriorityRestored) for one mutex: the code keeps one          *)
(* original_priority per mutex, and with nested mutexes neither holds.     *)
(*                                                                         *)
(* Between rt_mutex_release and the next run of the thread it woke, the    *)
(* new owner does not know yet: Handed ties a thread woken without an error *)
(* to the ownership it was given, Queued says that only a thread still in  *)
(* rt_mutex_take, and not the owner, is ever in the list.                  *)
(*                                                                         *)
(* Behind the mutex come the proofs about the serial device.               *)
(***************************************************************************)
EXTENDS Mutex, Serial, IpcProofs

Suspends == {"waiting", "woken", "sleeping", "slept"}
Leaving  == {"waiting", "sleeping"}
Waits    == {"waiting", "woken"}
Closing  == {"closing", "closing_do"}

Fields ==
  /\ value \in [Mutexes -> 0 .. 1] /\ owner \in [Mutexes -> (Thread \ {Idle}) \cup {NULL}]
  /\ orig \in [Mutexes -> Prio] /\ hold \in [Mutexes -> 0 .. (HoldModulus - 1)]
  /\ life \in [Mutexes -> {"live", "closing", "gone"}]
  /\ want \in [Thread -> Mutexes \cup {NULL}]
  /\ held \in [Mutexes -> [Thread -> 0 .. MaxHold]]

\* A thread inside a call knows its mutex.
Wants == \A t \in Thread : pc[t] \in Waits \cup Closing => want[t] \in Mutexes

Queued ==
  \A m \in Mutexes : \A t \in Nodes(k.wait[m]) :
    pc[t] \in Waits /\ want[t] = m /\ k.err[t] = RT_EOK /\ owner[m] # t

Handed == \A t \in Woken(Waits) : owner[want[t]] = t /\ held[want[t]][t] = 0

Agree ==
  \A m \in Mutexes :
    /\ owner[m] = NULL <=> value[m] = 1
    /\ owner[m] = NULL <=> hold[m] = 0
    /\ owner[m] = NULL => k.wait[m] = <<>>

Inv ==
  /\ IpcOK(PC, Suspends, Leaving) /\ Fields /\ Wants /\ Queued /\ Handed /\ Agree
  /\ OwnerHolds

-----------------------------------------------------------------------------
(* Steps of a thread that is not in rt_mutex_take. *)

LEMMA MutexLists ==
  ASSUME Inv
  PROVE  /\ Sound(k) /\ k \in KernelState /\ NULL \notin Thread
         /\ \A m \in Mutexes : m \in WaitList \ {Defunct} /\ m \in WaitList
         /\ IpcOK(PC, Suspends, Leaving)
  BY MutexAssumption, CurThread DEF Inv, IpcOK

\* The lists and the states of all threads are kept, and the error numbers of
\* the others.
Quiet(t) ==
  /\ k'.wait = k.wait /\ k'.stat = k.stat
  /\ \A u \in Thread \ {t} : k'.err[u] = k.err[u]
  /\ Moves(PC, t) /\ pc[t] \notin Waits /\ pc'[t] \notin Waits
  /\ k.stat[t] = "READY" /\ t \in Thread

LEMMA QuietFacts ==
  ASSUME Inv, NEW t, Quiet(t)
  PROVE  /\ Woken(Waits)' = Woken(Waits) /\ t \notin Woken(Waits)
         /\ \A m \in Mutexes : /\ k'.wait[m] = k.wait[m] /\ t \notin Nodes(k.wait[m])
                               /\ \A u \in Nodes(k.wait[m]) : u \in Thread
         /\ \A u \in Thread \ {t} : pc'[u] = pc[u] /\ k'.err[u] = k.err[u]
<1>1. \A m \in Mutexes : t \notin Nodes(k.wait[m])
  BY MutexLists, ReadyUnlisted DEF Quiet
<1>2. \A m \in Mutexes : k.wait[m] \in Seq(Thread)
  BY MutexLists DEF KernelState
<1>3. \A m \in Mutexes : \A u \in Nodes(k.wait[m]) : u \in Thread
  BY <1>2 DEF Nodes
<1>4. Woken(Waits)' = Woken(Waits) /\ t \notin Woken(Waits)
  BY DEF Quiet, Moves, Woken
<1> QED BY <1>1, <1>3, <1>4 DEF Quiet, Moves

\* Nothing but the control point, the error number and life may change.
LEMMA SameFields ==
  ASSUME Inv, NEW t, Quiet(t), IpcOK(PC, Suspends, Leaving)',
         UNCHANGED <<value, owner, orig, hold, held>>,
         life' \in [Mutexes -> {"live", "closing", "gone"}],
         want' \in [Thread -> Mutexes \cup {NULL}],
         \A u \in Thread \ {t} : want'[u] = want[u],
         pc'[t] \in Closing => want'[t] \in Mutexes
  PROVE  Inv'
<1>1. Fields'
  BY DEF Inv, Fields
<1>2. Wants'
  BY QuietFacts DEF Quiet, Inv, Wants
<1>3. Queued'
  BY QuietFacts DEF Inv, Queued
<1>4. Handed'
  BY QuietFacts DEF Inv, Handed, Woken
<1>5. Agree'
  BY QuietFacts DEF Inv, Agree
<1>6. OwnerHolds'
  BY QuietFacts DEF Inv, OwnerHolds, Waits
<1> QED BY <1>1, <1>2, <1>3, <1>4, <1>5, <1>6 DEF Inv

\* t takes or gives back mutex m, which it owns or finds free.
Settles(t, m, v, o, p, h) ==
  /\ owner[m] \in {t, NULL} /\ t # Idle
  /\ v \in 0 .. 1 /\ value' = [value EXCEPT ![m] = v]
  /\ o \in {t, NULL} /\ owner' = [owner EXCEPT ![m] = o]
  /\ p \in Prio /\ orig' = [orig EXCEPT ![m] = p]
  /\ h \in 0 .. MaxHold /\ hold' = [hold EXCEPT ![m] = h]
  /\ held' = [held EXCEPT ![m] = [@ EXCEPT ![t] = h]]
  /\ o = NULL <=> v = 1
  /\ o = NULL <=> h = 0
  /\ o = NULL => k.wait[m] = <<>>
  /\ UNCHANGED <<life, want>>

LEMMA FieldStep ==
  ASSUME Inv, NEW t, Quiet(t), IpcOK(PC, Suspends, Leaving)', NEW m \in Mutexes,
         pc'[t] = pc[t], NEW v, NEW o, NEW p, NEW h, Settles(t, m, v, o, p, h)
  PROVE  Inv'
<1>1. /\ t \in Thread /\ MaxHold \in 1 .. (HoldModulus - 1) /\ HoldModulus \in Nat \ {0}
      /\ NULL \notin Thread
  BY MutexAssumption DEF Quiet
<1>2. Fields'
  BY <1>1 DEF Inv, Fields, Settles
<1>3. \A n \in Mutexes :
        /\ n # m => /\ owner'[n] = owner[n] /\ value'[n] = value[n] /\ hold'[n] = hold[n]
                    /\ held'[n] = held[n]
        /\ n = m => /\ owner'[n] = o /\ value'[n] = v /\ hold'[n] = h /\ held'[n][t] = h
                    /\ \A u \in Thread \ {t} : held'[n][u] = held[n][u]
  BY <1>1 DEF Inv, Fields, Settles
<1>4. \A u \in Thread \ {t} : held[m][u] = 0
  BY <1>1 DEF Inv, OwnerHolds, Fields, Settles
<1>5. Wants'
  BY QuietFacts DEF Quiet, Inv, Wants, Settles
<1>10. \A n \in Mutexes : owner'[n] \in {owner[n], t, NULL}
  BY <1>3 DEF Settles
<1>6. Queued'
  <2>1. want' = want
    BY DEF Settles
  <2> QED BY <1>1, <1>10, <2>1, QuietFacts DEF Inv, Queued
<1>7. Handed'
  <2>1. \A u \in Woken(Waits) : u \in Thread \ {t} /\ want[u] \in Mutexes
    BY QuietFacts DEF Inv, Wants, Woken
  <2>2. \A u \in Woken(Waits) : want[u] # m
    BY <1>1, <2>1 DEF Inv, Handed, Settles
  <2> QED BY <1>3, <2>1, <2>2, QuietFacts DEF Inv, Handed, Settles
<1>8. Agree'
  BY <1>3, QuietFacts DEF Inv, Agree, Settles
<1>9. OwnerHolds'
  <2>1. ASSUME NEW n \in Mutexes, NEW u \in Thread
        PROVE  /\ held'[n][u] > 0 => owner'[n] = u /\ hold'[n] = held'[n][u]
               /\ owner'[n] = u /\ held'[n][u] = 0 =>
                    hold'[n] = 1 /\ want[u] = n /\ u \in Woken(Waits)
    <3>1. CASE n # m
      BY <1>3, <3>1 DEF Inv, OwnerHolds, Waits
    <3>2. CASE n = m /\ u # t
      BY <1>1, <1>3, <1>4, <3>2 DEF Settles
    <3>3. CASE n = m /\ u = t
      BY <1>1, <1>3, <3>3 DEF Settles
    <3> QED BY <3>1, <3>2, <3>3
  <2> QED BY <2>1, QuietFacts DEF OwnerHolds, Waits, Settles
<1> QED BY <1>2, <1>5, <1>6, <1>7, <1>8, <1>9 DEF Inv

-----------------------------------------------------------------------------
LEMMA RunNote ==
  ASSUME Inv, NEW t, At(t, "run"), NEW e \in ErrNo, k' = SetErr(k, t, e), pc' = pc
  PROVE  IpcOK(PC, Suspends, Leaving)' /\ Quiet(t)
<1>1. "run" \notin Leaving /\ "run" \in PC /\ "run" \notin Waits
  BY DEF Leaving, PC, Waits
<1>2. t \in Thread /\ k.stat[t] = "READY" /\ pc[t] = "run"
  BY <1>1, MutexLists, RunnerReady
<1>3. Goto(t, "run")
  BY <1>2, MutexLists DEF Goto, IpcOK
<1>4. IpcOK(PC, Suspends, Leaving)' /\ Moves(PC, t) /\ Noted(k', k, t, e)
  BY <1>1, <1>3, MutexLists, NoteStep
<1>5. \A u \in Thread \ {t} : k'.err[u] = k.err[u]
  BY <1>4, MutexLists DEF Noted, KernelState
<1> QED BY <1>1, <1>2, <1>4, <1>5 DEF Quiet, Noted

LEMMA RunStill ==
  ASSUME Inv, NEW t, NEW l, At(t, l), l \notin Leaving \cup Waits, k' = k,
         NEW m \in PC \ Waits, Goto(t, m)
  PROVE  IpcOK(PC, Suspends, Leaving)' /\ Quiet(t) /\ pc'[t] = m /\ pc[t] = l
<1>1. t \in Thread /\ k.stat[t] = "READY" /\ pc[t] = l
  BY MutexLists, RunnerReady
<1>2. IpcOK(PC, Suspends, Leaving)' /\ Moves(PC, t) /\ pc'[t] = m
  BY MutexLists, StillStep
<1> QED BY <1>1, <1>2 DEF Quiet

LEMMA TakeAgainInv ==
  ASSUME Inv, NEW t \in Thread, NEW m \in Mutexes, TakeAgain(t, m) PROVE Inv'
<1>1. /\ At(t, "run") /\ t # Idle /\ owner[m] = t /\ hold[m] < MaxHold
      /\ k' = SetErr(k, t, RT_EOK) /\ pc' = pc /\ RT_EOK \in ErrNo
  BY DEF TakeAgain, Enter, ErrNo
<1>2. IpcOK(PC, Suspends, Leaving)' /\ Quiet(t) /\ t \notin Woken(Waits) /\ NULL # t
  BY <1>1, RunNote, QuietFacts, MutexLists
<1>0. hold[m] = held[m][t] /\ hold[m] \in 0 .. MaxHold
  BY <1>1, <1>2 DEF Inv, OwnerHolds, Waits, Fields
<1>3. hold[m] + 1 \in 0 .. MaxHold /\ (hold[m] + 1) % HoldModulus = hold[m] + 1
  BY <1>0, <1>1, MutexAssumption
<1> DEFINE h == hold[m] + 1
<1>4. /\ hold' = [hold EXCEPT ![m] = h] /\ held' = [held EXCEPT ![m] = [@ EXCEPT ![t] = h]]
      /\ UNCHANGED <<life, want>>
  BY <1>0, <1>3 DEF TakeAgain, Count, Inv, Fields
<1>5. /\ value' = [value EXCEPT ![m] = 0] /\ owner' = [owner EXCEPT ![m] = t]
      /\ orig' = [orig EXCEPT ![m] = orig[m]] /\ orig[m] \in Prio
  BY <1>1, <1>2 DEF TakeAgain, Inv, Fields, Agree
<1>6. h # 0 /\ pc'[t] = pc[t]
  BY <1>0, <1>1
<1>7. Settles(t, m, 0, t, orig[m], h)
  BY <1>1, <1>2, <1>3, <1>4, <1>5, <1>6 DEF Settles
<1> QED BY <1>2, <1>6, <1>7, FieldStep

LEMMA TakeFreeInv ==
  ASSUME Inv, NEW t \in Thread, NEW m \in Mutexes, TakeFree(t, m) PROVE Inv'
<1>1. /\ At(t, "run") /\ t # Idle /\ owner[m] # t /\ value[m] > 0
      /\ k' = SetErr(k, t, RT_EOK) /\ pc' = pc /\ RT_EOK \in ErrNo
  BY DEF TakeFree, Enter, ErrNo
<1>2. IpcOK(PC, Suspends, Leaving)' /\ Quiet(t) /\ NULL # t
  BY <1>1, RunNote, MutexLists
<1>3. owner[m] = NULL /\ hold[m] = 0 /\ value[m] = 1 /\ held[m][t] = 0
  BY <1>1, <1>2 DEF Inv, Agree, Fields, OwnerHolds
<1>4. /\ (hold[m] + 1) % HoldModulus = 1 /\ held[m][t] + 1 = 1
      /\ 1 \in 0 .. MaxHold
  BY <1>3, MutexAssumption
<1>5. /\ value' = [value EXCEPT ![m] = 0] /\ owner' = [owner EXCEPT ![m] = t]
      /\ orig' = [orig EXCEPT ![m] = k.prio[t]] /\ UNCHANGED <<life, want>> /\ pc'[t] = pc[t]
  BY <1>1, <1>3 DEF TakeFree
<1>7. hold' = [hold EXCEPT ![m] = 1] /\ held' = [held EXCEPT ![m] = [@ EXCEPT ![t] = 1]]
  BY <1>4 DEF TakeFree, Count
<1>8. k.prio[t] \in Prio
  BY MutexLists DEF KernelState
<1>6. Settles(t, m, 0, t, k.prio[t], 1)
  BY <1>1, <1>2, <1>3, <1>4, <1>5, <1>7, <1>8 DEF Settles
<1> QED BY <1>2, <1>5, <1>6, FieldStep

LEMMA ReleaseInnerInv ==
  ASSUME Inv, NEW t \in Thread, NEW m \in Mutexes, ReleaseInner(t, m) PROVE Inv'
<1>1. /\ At(t, "run") /\ t # Idle /\ owner[m] = t /\ hold[m] # 1 /\ k' = k /\ pc' = pc
      /\ "run" \notin Leaving \cup Waits /\ "run" \in PC \ Waits
  BY DEF ReleaseInner, Enter, Leaving, Waits, PC
<1>2. Goto(t, "run")
  BY <1>1, MutexLists DEF Goto, IpcOK, At
<1>3. IpcOK(PC, Suspends, Leaving)' /\ Quiet(t) /\ t \notin Woken(Waits) /\ NULL # t
  BY <1>1, <1>2, RunStill, QuietFacts, MutexLists
<1>4. /\ hold[m] = held[m][t] /\ hold[m] \in 0 .. MaxHold /\ hold[m] # 0
  BY <1>1, <1>3 DEF Inv, OwnerHolds, Waits, Fields, Agree
<1>5. hold[m] - 1 \in 1 .. MaxHold /\ (hold[m] - 1) % HoldModulus = hold[m] - 1
  BY <1>1, <1>4, MutexAssumption
<1> DEFINE h == hold[m] - 1
<1>6. /\ value' = [value EXCEPT ![m] = 0] /\ owner' = [owner EXCEPT ![m] = t]
      /\ orig' = [orig EXCEPT ![m] = orig[m]] /\ orig[m] \in Prio
      /\ UNCHANGED <<life, want>> /\ pc'[t] = pc[t]
  BY <1>1, <1>3 DEF ReleaseInner, Inv, Fields, Agree
<1>9. hold' = [hold EXCEPT ![m] = h] /\ held' = [held EXCEPT ![m] = [@ EXCEPT ![t] = h]]
  BY <1>4, <1>5 DEF ReleaseInner, Count
<1>7. h \in 0 .. MaxHold /\ h # 0
  BY <1>5
<1> HIDE DEF h
<1>8. Settles(t, m, 0, t, orig[m], h)
  BY <1>1, <1>3, <1>6, <1>7, <1>9 DEF Settles
<1> QED BY <1>3, <1>6, <1>8, FieldStep

\* The owner gets its own priority back.
LEMMA RestoredOK ==
  ASSUME Inv, NEW t, At(t, "run"), t # Idle, NEW m \in Mutexes, NEW j, j = Restored(t, m)
  PROVE  /\ Sound(j) /\ Reranked(j, k)
         /\ j.prio = [k.prio EXCEPT ![t] = orig[m]]
<1>1. t \in Thread \ {Idle} /\ orig[m] \in Prio /\ Sound(k) /\ k \in KernelState
  <2>1. "run" \notin Leaving
    BY DEF Leaving
  <2> QED BY <2>1, MutexLists, RunnerReady DEF Inv, Fields
<1>2. CASE orig[m] # k.prio[t]
  BY <1>1, <1>2, RerankedOK DEF Restored
<1>3. CASE orig[m] = k.prio[t]
  <2>1. j = k
    BY <1>3 DEF Restored
  <2> QED BY <1>1, <1>3, <2>1 DEF Reranked, KernelState
<1> QED BY <1>2, <1>3

LEMMA ReleaseFreeInv ==
  ASSUME Inv, NEW t \in Thread, NEW m \in Mutexes, ReleaseFree(t, m) PROVE Inv'
<1>1. /\ At(t, "run") /\ t # Idle /\ owner[m] = t /\ hold[m] = 1 /\ k.wait[m] = <<>>
      /\ pc' = pc /\ k' = Restored(t, m) /\ "run" \notin Leaving /\ "run" \notin Waits
  BY DEF ReleaseFree, Enter, Leaving, Waits
<1>2. Sound(k') /\ Reranked(k', k)
  BY <1>1, RestoredOK
<1>3. k.stat[t] = "READY" /\ pc[t] = "run"
  BY <1>1, MutexLists, RunnerReady
<1>4. Moves(PC, t)
  BY <1>1, MutexLists, StayMoves DEF IpcOK
<1>5. IpcOK(PC, Suspends, Leaving)'
  BY <1>1, <1>2, <1>4, MutexLists, SteadyKeeps DEF Reranked
<1>6. Quiet(t)
  BY <1>1, <1>2, <1>3, <1>4 DEF Quiet, Reranked
<1>7. value[m] = 0 /\ 0 \in 0 .. MaxHold /\ NoPrio \in Prio /\ NULL # t
  <2>1. NoPrio \in Prio
    BY KernelAssumption DEF NoPrio, Prio, RT_THREAD_PRIORITY_MAX
  <2> QED BY <1>1, <2>1, MutexLists, MutexAssumption DEF Inv, Agree, Fields
<1>8. /\ hold' = [hold EXCEPT ![m] = 0] /\ held' = [held EXCEPT ![m] = [@ EXCEPT ![t] = 0]]
      /\ value' = [value EXCEPT ![m] = 1] /\ owner' = [owner EXCEPT ![m] = NULL]
      /\ orig' = [orig EXCEPT ![m] = NoPrio]
      /\ UNCHANGED <<life, want>> /\ pc'[t] = pc[t]
  BY <1>1, <1>7 DEF ReleaseFree, Count, Inv, Fields
<1>9. Settles(t, m, 1, NULL, NoPrio, 0)
  BY <1>1, <1>7, <1>8 DEF Settles
<1> QED BY <1>5, <1>6, <1>8, <1>9, FieldStep

-----------------------------------------------------------------------------
\* A step in which nobody new is woken without an error.
LEMMA FrameStep ==
  ASSUME Inv, IpcOK(PC, Suspends, Leaving)', UNCHANGED <<mvars, want, held>>,
         Woken(Waits)' = Woken(Waits),
         \A m \in Mutexes : k.wait[m] = <<>> => k'.wait[m] = <<>>,
         \A m \in Mutexes : \A u \in Nodes(k'.wait[m]) :
           u \in Nodes(k.wait[m]) /\ pc'[u] \in Waits /\ k'.err[u] = RT_EOK,
         \A u \in Thread : pc'[u] \in Waits \cup Closing => pc[u] \in Waits \cup Closing
  PROVE  Inv'
<1>1. UNCHANGED <<value, owner, orig, hold, life, want, held>>
  BY DEF mvars
<1>2. Fields' /\ Wants'
  BY <1>1 DEF Inv, Fields, Wants
<1>3. Queued' /\ Agree'
  BY <1>1 DEF Inv, Queued, Agree
<1>4. Handed' /\ OwnerHolds'
  BY <1>1 DEF Inv, Handed, OwnerHolds, Waits
<1> QED BY <1>2, <1>3, <1>4 DEF Inv

\* A thread is woken with an error; t goes on.
LEMMA FailedWaiter ==
  ASSUME Inv, IpcOK(PC, Suspends, Leaving)', UNCHANGED <<mvars, want, held>>,
         NEW t \in Thread, Moves(PC, t), NEW u \in Thread, NEW e, Roused(k', k, u, e),
         k.stat[u] = "SUSPEND", e # RT_EOK,
         \/ pc'[t] = pc[t]
         \/ pc[t] \in Closing /\ pc'[t] \notin Waits
  PROVE  Inv'
<1>1. (pc[t] \in Waits <=> pc'[t] \in Waits) /\ (pc'[t] \in Closing => pc[t] \in Closing)
  BY DEF Waits, Closing
<1>2. Woken(Waits)' = Woken(Waits)
  BY <1>1, MutexLists, RousedWoken
<1>3. ASSUME NEW m \in Mutexes
      PROVE  /\ Nodes(k'.wait[m]) = Nodes(k.wait[m]) \ {u}
             /\ k.wait[m] = <<>> => k'.wait[m] = <<>>
  BY MutexLists, RousedLists
<1>4. \A v \in Thread \ {u} : k'.err[v] = k.err[v]
  BY MutexLists DEF Roused, KernelState
<1>5. \A m \in Mutexes : \A v \in Nodes(k.wait[m]) : v \in Thread
  BY MutexLists DEF KernelState, Nodes
<1>6. \A v \in Thread : /\ pc[v] \in Waits <=> pc'[v] \in Waits
                        /\ pc'[v] \in Closing => pc[v] \in Closing
  BY <1>1 DEF Moves
<1> QED BY <1>2, <1>3, <1>4, <1>5, <1>6, FrameStep, SMTT(30) DEF Inv, Queued

\* A thread switch, or a step that changes no thread.
LEMMA CalmInv ==
  ASSUME Inv, IpcOK(PC, Suspends, Leaving)', UNCHANGED <<mvars, want, held>>,
         NEW t \in Thread, Moves(PC, t), Calm(k', k),
         pc[t] \in Waits <=> pc'[t] \in Waits, pc'[t] \in Closing => pc[t] \in Closing
  PROVE  Inv'
<1>1. Woken(Waits)' = Woken(Waits)
  BY CalmWoken
<1>2. \A m \in Mutexes : \A v \in Nodes(k.wait[m]) : v \in Thread
  BY MutexLists DEF KernelState, Nodes
<1>3. \A v \in Thread : /\ pc[v] \in Waits <=> pc'[v] \in Waits
                        /\ pc'[v] \in Closing => pc[v] \in Closing
  BY DEF Moves
<1>4. k'.wait = k.wait /\ k'.err = k.err
  BY DEF Calm
<1> QED BY <1>1, <1>2, <1>3, <1>4, FrameStep DEF Inv, Queued

LEMMA SwitchInv ==
  ASSUME Inv, NEW t \in Thread, UNCHANGED <<mvars, want, held>>,
         Schedule(t, "waiting", "woken") \/ Schedule(t, "sched", "run")
  PROVE  Inv'
<1>1. /\ IpcOK(PC, Suspends, Leaving)' /\ Moves(PC, t) /\ Calm(k', k)
      /\ \/ pc[t] = "waiting" /\ pc'[t] = "woken"
         \/ pc[t] = "sched" /\ pc'[t] = "run"
  BY MutexLists, ScheduleStep DEF PC, Suspends, Leaving
<1>2. (pc[t] \in Waits <=> pc'[t] \in Waits) /\ (pc'[t] \in Closing => pc[t] \in Closing)
  BY <1>1 DEF Waits, Closing
<1> QED BY <1>1, <1>2, CalmInv

LEMMA TickInv ==
  ASSUME Inv, UNCHANGED <<mvars, want, held>>, TickSlice \/ \E t \in Thread : TickTimeout(t)
  PROVE  Inv'
<1>1. CASE TickSlice
  <2>1. /\ IpcOK(PC, Suspends, Leaving)' /\ k.cur \in Thread /\ Moves(PC, k.cur)
        /\ Calm(k', k) /\ pc' = pc
    BY <1>1, MutexLists, SliceStep
  <2> QED BY <2>1, CalmInv
<1>2. ASSUME NEW t \in Thread, TickTimeout(t) PROVE Inv'
  <2>1. /\ IpcOK(PC, Suspends, Leaving)' /\ Moves(PC, t) /\ Roused(k', k, t, RT_ETIMEOUT)
        /\ k.stat[t] = "SUSPEND" /\ pc' = pc
    BY <1>2, MutexLists, TimeoutStep
  <2>2. RT_ETIMEOUT # RT_EOK
    BY DEF RT_ETIMEOUT, RT_EOK
  <2> QED BY <2>1, <2>2, FailedWaiter
<1> QED BY <1>1, <1>2

LEMMA SleepInv ==
  ASSUME Inv, NEW t \in Thread, rt_thread_sleep(t) \/ Sleeping(t),
         UNCHANGED <<mvars, want, held>>
  PROVE  Inv'
<1>1. CASE rt_thread_sleep(t)
  <2>0. "run" \notin Leaving /\ "sleeping" \in PC \cap Suspends \cap Leaving
    BY DEF Leaving, Suspends, PC
  <2>1. /\ IpcOK(PC, Suspends, Leaving)' /\ Moves(PC, t) /\ Slept(k', k, t)
        /\ k.stat[t] = "READY" /\ pc[t] = "run" /\ pc'[t] = "sleeping"
    BY <1>1, <2>0, MutexLists, SleepStep
  <2>2. k'.wait = k.wait /\ k'.err = k.err
    BY <2>1 DEF Slept
  <2>3. \A u \in Thread \ {t} : k'.stat[u] = k.stat[u] /\ k'.err[u] = k.err[u]
    BY <2>1, MutexLists DEF Slept, KernelState
  <2>4. Woken(Waits)' = Woken(Waits) \ {t} /\ t \notin Woken(Waits)
    BY <2>1, <2>3, OwnWoken DEF Waits, Woken
  <2>5. \A m \in Mutexes : \A v \in Nodes(k.wait[m]) : v \in Thread
    BY MutexLists DEF KernelState, Nodes
  <2>6. \A v \in Thread : /\ pc[v] \in Waits => pc'[v] \in Waits
                          /\ pc'[v] \in Waits \cup Closing => pc[v] \in Waits \cup Closing
    BY <2>1 DEF Moves, Waits, Closing
  <2>7. Woken(Waits)' = Woken(Waits)
    BY <2>4
  <2> QED BY <2>1, <2>2, <2>5, <2>6, <2>7, FrameStep DEF Inv, Queued
<1>2. CASE Sleeping(t)
  <2>1. /\ IpcOK(PC, Suspends, Leaving)' /\ Moves(PC, t)
        /\ pc[t] \notin Waits /\ pc'[t] \notin Waits /\ pc'[t] \notin Closing
        /\ \/ Calm(k', k)
           \/ Noted(k', k, t, RT_EOK) /\ k.stat[t] = "READY"
    BY <1>2, MutexLists, SleepingStep DEF Leaving, Suspends, PC, Waits, Closing
  <2>2. CASE Calm(k', k)
    BY <2>1, <2>2, CalmInv
  <2>3. CASE Noted(k', k, t, RT_EOK) /\ k.stat[t] = "READY"
    <3>1. \A u \in Thread \ {t} : k'.err[u] = k.err[u]
      BY <2>3, MutexLists DEF Noted, KernelState
    <3>2. Quiet(t)
      BY <2>1, <2>3, <3>1 DEF Quiet, Noted
    <3>3. /\ UNCHANGED <<value, owner, orig, hold, held, life, want>>
          /\ life \in [Mutexes -> {"live", "closing", "gone"}]
          /\ want \in [Thread -> Mutexes \cup {NULL}]
      BY DEF mvars, Inv, Fields
    <3> QED BY <2>1, <3>2, <3>3, SameFields
  <2> QED BY <2>1, <2>2, <2>3
<1> QED BY <1>1, <1>2

LEMMA NoteInv ==
  ASSUME Inv, NEW t \in Thread, NEW m \in Mutexes, TakeTry(t, m) \/ ReleaseDenied(t, m)
  PROVE  Inv'
<1>1. At(t, "run") /\ pc' = pc /\ \E e \in ErrNo : k' = SetErr(k, t, e)
  BY DEF TakeTry, ReleaseDenied, Enter, ErrNo
<1>2. IpcOK(PC, Suspends, Leaving)' /\ Quiet(t)
  BY <1>1, RunNote
<1>3. /\ UNCHANGED <<value, owner, orig, hold, held, life, want>>
      /\ life \in [Mutexes -> {"live", "closing", "gone"}]
      /\ want \in [Thread -> Mutexes \cup {NULL}]
  BY DEF mvars, Inv, Fields, TakeTry, ReleaseDenied
<1>4. pc'[t] \notin Closing
  BY <1>1 DEF At, Closing
<1> QED BY <1>2, <1>3, <1>4, SameFields

-----------------------------------------------------------------------------
LEMMA DetachCallInv ==
  ASSUME Inv, NEW t \in Thread, NEW m \in Mutexes, DetachCall(t, m) PROVE Inv'
<1>1. /\ At(t, "run") /\ k' = k /\ Goto(t, "closing") /\ "run" \notin Leaving \cup Waits
      /\ "closing" \in PC \ Waits
  BY DEF DetachCall, Enter, Leaving, Waits, PC
<1>2. IpcOK(PC, Suspends, Leaving)' /\ Quiet(t) /\ pc'[t] = "closing"
  BY <1>1, RunStill
<1>3. /\ UNCHANGED <<value, owner, orig, hold, held>>
      /\ life' = [life EXCEPT ![m] = "closing"] /\ want' = [want EXCEPT ![t] = m]
      /\ want \in [Thread -> Mutexes \cup {NULL}]
      /\ life \in [Mutexes -> {"live", "closing", "gone"}]
  BY DEF DetachCall, Wanting, Inv, Fields
<1>4. /\ life' \in [Mutexes -> {"live", "closing", "gone"}]
      /\ want' \in [Thread -> Mutexes \cup {NULL}] /\ want'[t] \in Mutexes
      /\ \A u \in Thread \ {t} : want'[u] = want[u]
  BY <1>3
<1> QED BY <1>2, <1>3, <1>4, SameFields

LEMMA DetachCheckInv == ASSUME Inv, NEW t \in Thread, DetachCheck(t) PROVE Inv'
<1>1. /\ At(t, "closing") /\ k' = k /\ "closing" \notin Leaving \cup Waits
      /\ "closing_do" \in PC \ Waits /\ "run" \in PC \ Waits
      /\ UNCHANGED <<value, owner, orig, hold, held>>
  BY DEF DetachCheck, Leaving, Waits, PC
<1>2. /\ want \in [Thread -> Mutexes \cup {NULL}] /\ want[t] \in Mutexes
      /\ life \in [Mutexes -> {"live", "closing", "gone"}]
  BY <1>1 DEF Inv, Fields, Wants, At, Closing
<1>3. CASE k.wait[want[t]] # <<>>
  <2>1. Goto(t, "closing_do") /\ UNCHANGED <<life, want>>
    BY <1>3 DEF DetachCheck
  <2>2. IpcOK(PC, Suspends, Leaving)' /\ Quiet(t)
    BY <1>1, <2>1, RunStill
  <2> QED BY <1>1, <1>2, <2>1, <2>2, SameFields
<1>4. CASE k.wait[want[t]] = <<>>
  <2>1. /\ Goto(t, "run") /\ want' = [want EXCEPT ![t] = NULL]
        /\ life' = [life EXCEPT ![want[t]] = "gone"]
    BY <1>4 DEF DetachCheck, Wanting
  <2>2. IpcOK(PC, Suspends, Leaving)' /\ Quiet(t) /\ pc'[t] = "run"
    BY <1>1, <2>1, RunStill
  <2>3. /\ life' \in [Mutexes -> {"live", "closing", "gone"}]
        /\ want' \in [Thread -> Mutexes \cup {NULL}]
        /\ \A u \in Thread \ {t} : want'[u] = want[u]
        /\ pc'[t] \notin Closing
    BY <1>2, <2>1, <2>2 DEF Closing
  <2> QED BY <1>1, <2>2, <2>3, SameFields
<1> QED BY <1>3, <1>4

LEMMA DetachTurnInv == ASSUME Inv, NEW t \in Thread, DetachTurn(t) PROVE Inv'
<1> DEFINE q == want[t]
<1>1. /\ ResumeAllTurn(t, q, "closing_do", "closing") /\ UNCHANGED <<mvars, want, held>>
      /\ "closing_do" \notin Leaving /\ {"closing", "crashed"} \subseteq PC
  BY DEF DetachTurn, Leaving, PC
<1>2. q \in WaitList \ {Defunct}
  BY <1>1, MutexLists DEF ResumeAllTurn, At, Inv, Wants, Closing
<1> HIDE DEF q
<1>3. /\ IpcOK(PC, Suspends, Leaving)' /\ Moves(PC, t) /\ pc[t] = "closing_do"
      /\ \/ /\ Roused(k', k, Head(k.wait[q]), RT_ERROR) /\ pc'[t] = "closing"
            /\ Head(k.wait[q]) \in Thread /\ k.stat[Head(k.wait[q])] = "SUSPEND"
         \/ Calm(k', k) /\ pc'[t] = "crashed"
  BY <1>1, <1>2, MutexLists, ResumeAllStep
<1>4. pc[t] \in Closing /\ pc[t] \notin Waits /\ pc'[t] \notin Waits
  BY <1>3 DEF Waits, Closing
<1>5. CASE Calm(k', k)
  BY <1>1, <1>3, <1>4, <1>5, CalmInv
<1>6. CASE /\ Roused(k', k, Head(k.wait[q]), RT_ERROR)
           /\ Head(k.wait[q]) \in Thread /\ k.stat[Head(k.wait[q])] = "SUSPEND"
  <2>1. RT_ERROR # RT_EOK
    BY DEF RT_ERROR, RT_EOK
  <2> QED BY <1>1, <1>3, <1>4, <1>6, <2>1, FailedWaiter
<1> QED BY <1>3, <1>5, <1>6

\* A thread that was woken learns whether it was given the mutex.
LEMMA TakeReturnInv == ASSUME Inv, NEW t \in Thread, TakeReturn(t) PROVE Inv'
<1> DEFINE m == want[t]
<1>1. /\ At(t, "woken") /\ "woken" \notin Leaving /\ Goto(t, "run") /\ "run" \in PC
      /\ k' = k /\ want' = [want EXCEPT ![t] = NULL]
      /\ UNCHANGED <<value, owner, orig, hold, life>>
  BY DEF TakeReturn, Leaving, PC, Wanting, mvars
<1>2. IpcOK(PC, Suspends, Leaving)' /\ Moves(PC, t) /\ Calm(k', k) /\ pc'[t] = "run"
  BY <1>1, MutexLists, StillStep
<1>3. k.stat[t] = "READY" /\ pc[t] = "woken" /\ m \in Mutexes
  BY <1>1, MutexLists, RunnerReady DEF Inv, Wants, Waits
<1>4. Woken(Waits)' = Woken(Waits) \ {t}
  BY <1>2, LeaveWoken DEF Waits
<1>5. t \in Woken(Waits) <=> k.err[t] = RT_EOK
  BY <1>3 DEF Woken, Waits
<1>6. \A n \in Mutexes : t \notin Nodes(k.wait[n]) /\ \A u \in Nodes(k.wait[n]) : u \in Thread
  <2>1. \A n \in Mutexes : t \notin Nodes(k.wait[n])
    BY <1>3, MutexLists, ReadyUnlisted
  <2>2. \A n \in Mutexes : \A u \in Nodes(k.wait[n]) : u \in Thread
    BY MutexLists DEF KernelState, Nodes
  <2> QED BY <2>1, <2>2
<1>7. want' \in [Thread -> Mutexes \cup {NULL}] /\ \A u \in Thread \ {t} : want'[u] = want[u]
  BY <1>1 DEF Inv, Fields
<1>8. Wants' /\ Queued' /\ Agree'
  <2>1. Wants'
    BY <1>2, <1>7 DEF Inv, Wants, Moves, Waits, Closing
  <2>2. Queued'
    BY <1>1, <1>2, <1>6, <1>7 DEF Inv, Queued, Moves
  <2>3. Agree'
    BY <1>1 DEF Inv, Agree
  <2> QED BY <2>1, <2>2, <2>3
<1>9. CASE k.err[t] = RT_EOK
  <2>1. held' = [held EXCEPT ![m] = [@ EXCEPT ![t] = 1]]
    BY <1>9 DEF TakeReturn, Count
  <2>2. owner[m] = t /\ held[m][t] = 0 /\ t \in Woken(Waits)
    BY <1>5, <1>9 DEF Inv, Handed
  <2> HIDE DEF m
  <2>3. hold[m] = 1 /\ 1 \in 0 .. MaxHold
    BY <1>3, <2>2, MutexAssumption DEF Inv, OwnerHolds
  <2>4. Fields'
    BY <1>1, <1>3, <1>7, <2>1, <2>3 DEF Inv, Fields
  <2>5. /\ \A n \in Mutexes, u \in Thread : n # m \/ u # t => held'[n][u] = held[n][u]
        /\ held'[m][t] = 1
    BY <1>3, <2>1 DEF Inv, Fields
  <2>6. \A u \in Woken(Waits)' : /\ u \in Thread \ {t} /\ u \in Woken(Waits)
                                 /\ want[u] \in Mutexes
    BY <1>4 DEF Woken, Inv, Wants
  <2>7. Handed'
    BY <1>1, <1>7, <2>5, <2>6 DEF Inv, Handed
  <2>8. OwnerHolds'
    <3>1. ASSUME NEW n \in Mutexes, NEW u \in Thread
          PROVE  /\ held'[n][u] > 0 => owner[n] = u /\ hold[n] = held'[n][u]
                 /\ owner[n] = u /\ held'[n][u] = 0 =>
                      hold[n] = 1 /\ want'[u] = n /\ u \in Woken(Waits)'
      <4>1. CASE n = m /\ u = t
        BY <2>2, <2>3, <2>5, <4>1
      <4>2. CASE n # m \/ u # t
        <5>1. held'[n][u] = held[n][u]
          BY <2>5, <4>2
        <5>2. CASE u # t
          BY <1>4, <1>7, <5>1, <5>2 DEF Inv, OwnerHolds, Waits
        <5>3. CASE u = t
          <6>1. want[t] # n
            BY <4>2, <5>3 DEF m
          <6> QED BY <5>1, <5>3, <6>1 DEF Inv, OwnerHolds, Waits
        <5> QED BY <5>2, <5>3
      <4> QED BY <4>1, <4>2
    <3> QED BY <1>1, <3>1 DEF OwnerHolds, Waits
  <2> QED BY <1>2, <1>8, <2>4, <2>7, <2>8 DEF Inv
<1>10. CASE k.err[t] # RT_EOK
  <2>1. held' = held /\ Woken(Waits)' = Woken(Waits) /\ t \notin Woken(Waits)
    BY <1>4, <1>5, <1>10 DEF TakeReturn
  <2>2. Fields'
    BY <1>1, <1>7, <2>1 DEF Inv, Fields
  <2>3. \A u \in Woken(Waits) : u \in Thread \ {t} /\ want'[u] = want[u]
    BY <1>7, <2>1 DEF Woken
  <2>4. Handed'
    BY <1>1, <2>1, <2>3 DEF Inv, Handed
  <2>5. OwnerHolds'
    BY <1>1, <2>1, <2>3 DEF Inv, OwnerHolds, Waits
  <2> QED BY <1>2, <1>8, <2>2, <2>4, <2>5 DEF Inv
<1> QED BY <1>9, <1>10

\* The owner inherits the priority of a thread about to wait.
LEMMA BoostOK ==
  ASSUME Inv, NEW m \in Mutexes, owner[m] # NULL, NEW p \in Prio, NEW j, j = Boost(m, p)
  PROVE  /\ Sound(j) /\ Reranked(j, k)
         /\ j.prio = [k.prio EXCEPT ![owner[m]] =
                        IF p < k.prio[owner[m]] THEN p ELSE k.prio[owner[m]]]
<1>1. owner[m] \in Thread \ {Idle} /\ Sound(k) /\ k \in KernelState
  BY MutexLists DEF Inv, Fields
<1>2. CASE p < k.prio[owner[m]]
  BY <1>1, <1>2, RerankedOK DEF Boost
<1>3. CASE ~(p < k.prio[owner[m]])
  <2>1. j = k
    BY <1>3 DEF Boost
  <2> QED BY <1>1, <1>3, <2>1 DEF Reranked, KernelState
<1> QED BY <1>2, <1>3

LEMMA TakeWaitInv ==
  ASSUME Inv, NEW t \in Thread, NEW m \in Mutexes, NEW wait, TakeWait(t, m, wait)
  PROVE  Inv'
<1> DEFINE j == Boost(m, k.prio[t])
           x == Position(j, m, t, "PRIO")
<1>1. /\ At(t, "run") /\ t # Idle /\ owner[m] # t /\ owner[m] # NULL
      /\ k' = Block(j, m, t, "PRIO", wait) /\ Goto(t, "waiting")
      /\ want' = [want EXCEPT ![t] = m] /\ UNCHANGED <<value, owner, orig, hold, life, held>>
  BY DEF TakeWait, Enter, Wanting, mvars
<1>2. /\ t = k.cur /\ k.stat[t] = "READY" /\ pc[t] = "run" /\ k.prio[t] \in Prio
      /\ m \in WaitList \ {Defunct} /\ m \in WaitList
  <2>1. "run" \notin Leaving
    BY DEF Leaving
  <2> QED BY <1>1, <2>1, MutexLists, RunnerReady DEF KernelState
<1>3. Sound(j) /\ Reranked(j, k)
  BY <1>1, <1>2, BoostOK
<1> HIDE DEF j
<1>4. Sound(k') /\ BlockedAt(k', j, m, t, x) /\ Place(j, m, x)
  BY <1>1, <1>2, <1>3, BlockBlocks, PositionType DEF Reranked
<1> HIDE DEF x
<1>5. Moves(PC, t) /\ pc'[t] = "waiting"
  <2>1. "waiting" \in PC /\ pc \in [Thread -> PC]
    BY MutexLists DEF PC, IpcOK
  <2> QED BY <1>1, <2>1, GotoMoves
<1>6. IpcOK(PC, Suspends, Leaving)'
  <2>1. k'.stat = [k.stat EXCEPT ![t] = "SUSPEND"] /\ k'.cur = k.cur
    BY <1>3, <1>4 DEF BlockedAt, Reranked
  <2>2. pc'[t] \in Suspends \cap Leaving
    BY <1>5 DEF Suspends, Leaving
  <2> QED BY <1>2, <1>4, <1>5, <2>1, <2>2, MutexLists, SuspendedKeeps
<1>7. /\ k'.stat[t] = "SUSPEND" /\ k'.err[t] = RT_EOK
      /\ \A u \in Thread \ {t} : k'.stat[u] = k.stat[u] /\ k'.err[u] = k.err[u]
  BY <1>3, <1>4, MutexLists DEF BlockedAt, Reranked, KernelState
<1>8. /\ \A u : u \in Nodes(k'.wait[m]) <=> u \in Nodes(k.wait[m]) \/ u = t
      /\ \A n \in Mutexes : n # m => k'.wait[n] = k.wait[n]
  <2>1. j.wait = k.wait /\ j.stat = k.stat
    BY <1>3 DEF Reranked
  <2>2. \A u : u \in Nodes(k'.wait[m]) <=> u \in Nodes(j.wait[m]) \/ u = t
    <3>1. Sound(j) /\ j.stat[t] = "READY" /\ m \in WaitList
      BY <1>2, <1>3, <2>1
    <3>2. Place(j, m, x) /\ BlockedAt(k', j, m, t, x)
      BY <1>4
    <3> QED BY <3>1, <3>2, BlockedJoins, ZenonT(30)
  <2>3. \A n \in WaitList : n # m => k'.wait[n] = j.wait[n]
    BY <1>2, <1>3, <1>4, <2>1, BlockedNodes
  <2> QED BY <2>1, <2>2, <2>3, MutexLists
<1>9. Woken(Waits)' = Woken(Waits) /\ t \notin Woken(Waits)
  <2>1. Woken(Waits)' = Woken(Waits) \ {t}
    BY <1>5, <1>7, OwnWoken
  <2>2. t \notin Woken(Waits)
    BY <1>2 DEF Woken, Waits
  <2> QED BY <2>1, <2>2
<1>10. /\ want' \in [Thread -> Mutexes \cup {NULL}] /\ want'[t] = m
       /\ \A u \in Thread \ {t} : want'[u] = want[u]
  BY <1>1 DEF Inv, Fields
<1>11. Fields' /\ Wants'
  BY <1>1, <1>5, <1>10 DEF Inv, Fields, Wants, Moves
<1>12. Queued'
  <2>1. \A n \in Mutexes : t \notin Nodes(k.wait[n])
    BY <1>2, MutexLists, ReadyUnlisted
  <2>2. \A n \in Mutexes : \A u \in Nodes(k.wait[n]) : u \in Thread
    BY MutexLists DEF KernelState, Nodes
  <2>3. "waiting" \in Waits
    BY DEF Waits
  <2>4. ASSUME NEW n \in Mutexes, NEW u \in Nodes(k'.wait[n])
        PROVE  pc'[u] \in Waits /\ want'[u] = n /\ k'.err[u] = RT_EOK /\ owner'[n] # u
    <3>1. (u = t /\ n = m) \/ u \in Nodes(k.wait[n])
      BY <1>8
    <3>2. CASE u = t /\ n = m
      BY <1>1, <1>5, <1>7, <1>10, <2>3, <3>2
    <3>3. CASE u \in Nodes(k.wait[n])
      BY <1>1, <1>5, <1>7, <1>10, <2>1, <2>2, <3>3 DEF Inv, Queued, Moves
    <3> QED BY <3>1, <3>2, <3>3
  <2> QED BY <2>4 DEF Queued
<1>13. Handed' /\ OwnerHolds'
  <2>1. \A u \in Woken(Waits) : u \in Thread \ {t} /\ want'[u] = want[u]
    BY <1>9, <1>10 DEF Woken
  <2> QED BY <1>1, <1>9, <2>1 DEF Inv, Handed, OwnerHolds, Waits
<1>14. Agree'
  BY <1>1, <1>8 DEF Inv, Agree
<1> QED BY <1>6, <1>11, <1>12, <1>13, <1>14 DEF Inv

\* The mutex changes hands.
LEMMA ReleaseToInv ==
  ASSUME Inv, NEW t \in Thread, NEW m \in Mutexes, ReleaseTo(t, m)
  PROVE  Inv'
<1> DEFINE j == Restored(t, m)
           u == Head(k.wait[m])
<1>1. /\ At(t, "run") /\ t # Idle /\ owner[m] = t /\ hold[m] = 1 /\ k.wait[m] # <<>>
      /\ k' = rt_ipc_list_resume(j, m) /\ Goto(t, "sched")
      /\ owner' = [owner EXCEPT ![m] = u] /\ orig' = [orig EXCEPT ![m] = j.prio[u]]
      /\ held' = [held EXCEPT ![m] = [@ EXCEPT ![t] = 0]]
      /\ UNCHANGED <<value, hold, life, want>>
  BY DEF ReleaseTo, Enter, Count
<1>2. /\ k.stat[t] = "READY" /\ pc[t] = "run" /\ t = k.cur
      /\ m \in WaitList \ {Defunct} /\ m \in WaitList
  <2>1. "run" \notin Leaving
    BY DEF Leaving
  <2> QED BY <1>1, <2>1, MutexLists, RunnerReady
<1>3. Sound(j) /\ Reranked(j, k)
  BY <1>1, RestoredOK
<1>4. /\ u \in Thread /\ k.stat[u] = "SUSPEND" /\ u # t /\ u # Idle /\ u # NULL
      /\ u \in Nodes(k.wait[m])
  <2>1. u \in Nodes(k.wait[m]) /\ u \in Thread /\ k.stat[u] = "SUSPEND"
    BY <1>1, <1>2, MutexLists, HeadSuspended
  <2>2. k.stat[Idle] = "READY"
    BY MutexLists DEF Sound, KernelInv, IdleReady
  <2> QED BY <1>2, <2>1, <2>2, MutexLists
<1>5. pc[u] \in Waits /\ want[u] = m /\ k.err[u] = RT_EOK
  BY <1>4 DEF Inv, Queued
<1> HIDE DEF j
<1>6. Sound(k') /\ k'.cur = k.cur /\ Roused(k', j, u, RT_EOK)
  <2>1. j.wait[m] = k.wait[m] /\ j.err = k.err /\ j.cur = k.cur
    BY <1>3 DEF Reranked
  <2> QED BY <1>1, <1>2, <1>3, <1>5, <2>1, ListResumeRouses
<1>7. j.prio[u] \in Prio
  BY <1>3, <1>4, CurThread DEF KernelState
<1> HIDE DEF u
<1>8. /\ k'.stat[u] = "READY" /\ k'.err[u] = RT_EOK
      /\ \A v \in Thread \ {u} : k'.stat[v] = k.stat[v] /\ k'.err[v] = k.err[v]
  BY <1>3, <1>4, <1>6, MutexLists DEF Roused, Reranked, KernelState
<1>9. Moves(PC, t) /\ pc'[t] = "sched"
  <2>1. "sched" \in PC /\ pc \in [Thread -> PC]
    BY MutexLists DEF PC, IpcOK
  <2> QED BY <1>1, <2>1, GotoMoves
<1>10. IpcOK(PC, Suspends, Leaving)'
  <2>1. \A v \in Thread : k'.stat[v] = "READY" \/ (k'.stat[v] = "SUSPEND" /\ pc'[v] \in Suspends)
    BY <1>2, <1>8, <1>9, MutexLists DEF IpcOK, Moves
  <2>2. k'.stat[k'.cur] = "READY"
    BY <1>2, <1>4, <1>6, <1>8
  <2> QED BY <1>6, <1>9, <2>1, <2>2 DEF IpcOK, Moves
<1>11. Woken(Waits)' = Woken(Waits) \cup {u} /\ u \notin Woken(Waits) /\ t \notin Woken(Waits)
  BY <1>2, <1>4, <1>5, <1>8, <1>9 DEF Woken, Moves, Waits
<1>12. \A n \in Mutexes : /\ Nodes(k'.wait[n]) = Nodes(k.wait[n]) \ {u}
                          /\ k.wait[n] = <<>> => k'.wait[n] = <<>>
  <2>1. j.wait = k.wait
    BY <1>3 DEF Reranked
  <2>2. ASSUME NEW n \in WaitList
        PROVE  /\ Nodes(k'.wait[n]) = Nodes(j.wait[n]) \ {u}
               /\ j.wait[n] = <<>> => k'.wait[n] = <<>>
    BY <1>3, <1>6, RousedLists
  <2> QED BY <2>1, <2>2, MutexLists
<1>13. Fields'
  BY <1>1, <1>4, <1>7, MutexAssumption DEF Inv, Fields
<1>14. Wants'
  BY <1>1, <1>9 DEF Inv, Wants, Moves, Waits, Closing
<1>15. \A n \in Mutexes :
         /\ n # m => owner'[n] = owner[n] /\ held'[n] = held[n]
         /\ n = m => /\ owner'[n] = u /\ held'[n][t] = 0
                     /\ \A v \in Thread \ {t} : held'[n][v] = held[n][v]
  BY <1>1 DEF Inv, Fields
<1>16. \A v \in Thread \ {t} : held[m][v] = 0
  BY <1>1 DEF Inv, Fields, OwnerHolds
<1>17. Queued'
  <2>1. \A n \in Mutexes : \A v \in Nodes(k.wait[n]) : v \in Thread
    BY MutexLists DEF KernelState, Nodes
  <2>2. \A n \in Mutexes : t \notin Nodes(k.wait[n])
    BY <1>2, MutexLists, ReadyUnlisted
  <2> QED BY <1>1, <1>8, <1>9, <1>12, <1>15, <2>1, <2>2, SMTT(30) DEF Inv, Queued, Moves
<1>18. Handed'
  <2>1. \A v \in Woken(Waits) : want[v] \in Mutexes /\ want[v] # m
    BY <1>1, <1>11 DEF Inv, Wants, Woken, Handed
  <2>2. want' = want
    BY <1>1
  <2> QED BY <1>4, <1>5, <1>11, <1>15, <1>16, <2>1, <2>2 DEF Inv, Handed
<1>19. Agree'
  BY <1>1, <1>4, <1>12, <1>15, MutexLists DEF Inv, Agree
<1>20. OwnerHolds'
  <2>1. ASSUME NEW n \in Mutexes, NEW v \in Thread
        PROVE  /\ held'[n][v] > 0 => owner'[n] = v /\ hold[n] = held'[n][v]
               /\ owner'[n] = v /\ held'[n][v] = 0 =>
                    hold[n] = 1 /\ want[v] = n /\ v \in Woken(Waits)'
    <3>1. CASE n # m
      BY <1>11, <1>15, <3>1 DEF Inv, OwnerHolds, Waits
    <3>2. CASE n = m
      BY <1>1, <1>5, <1>11, <1>15, <1>16, <3>2
    <3> QED BY <3>1, <3>2
  <2> QED BY <1>1, <2>1 DEF OwnerHolds, Waits
<1> QED BY <1>10, <1>13, <1>14, <1>17, <1>18, <1>19, <1>20 DEF Inv

-----------------------------------------------------------------------------
LEMMA InitInv == Init => Inv
<1> SUFFICES ASSUME Init PROVE Inv
  OBVIOUS
<1>1. "run" \in PC /\ "run" \notin Waits /\ "run" \notin Closing /\ IpcInit
      /\ \A m \in Mutexes : m \in WaitList
  BY MutexAssumption DEF PC, Waits, Closing, Init
<1>2. /\ IpcOK(PC, Suspends, Leaving) /\ \A m \in Mutexes : k.wait[m] = <<>>
      /\ \A q \in WaitList : Woken(Waits) = {}
  BY <1>1, IpcStart
<1>3. Woken(Waits) = {}
  BY <1>2, KernelAssumption
<1>4. Fields
  <2>1. NoPrio \in Prio
    BY KernelAssumption DEF NoPrio, Prio, RT_THREAD_PRIORITY_MAX
  <2> QED BY <2>1, MutexAssumption DEF Init, Fields
<1>5. Wants /\ Handed
  BY <1>1, <1>3 DEF Wants, Handed, IpcInit
<1>6. Queued
  BY <1>2 DEF Queued, Nodes
<1>7. Agree /\ OwnerHolds
  BY <1>2, MutexAssumption DEF Agree, OwnerHolds, Init
<1> QED BY <1>2, <1>4, <1>5, <1>6, <1>7 DEF Inv

LEMMA StutterInv == Inv /\ UNCHANGED vars => Inv'
  BY DEF Inv, IpcOK, Fields, Wants, Queued, Handed, Agree, OwnerHolds, Woken, vars, mvars

LEMMA NextInv == Inv /\ Next => Inv'
<1> SUFFICES ASSUME Inv, Next PROVE Inv'
  OBVIOUS
<1>1. ASSUME NEW t \in Thread, NEW m \in Mutexes, Step(t, m) PROVE Inv'
  <2>1. ASSUME NEW wait \in Times, TakeWait(t, m, wait) PROVE Inv'
    BY <2>1, TakeWaitInv
  <2>2. CASE TakeAgain(t, m) \/ TakeFree(t, m) \/ DetachCall(t, m)
    BY <2>2, TakeAgainInv, TakeFreeInv, DetachCallInv
  <2>3. CASE rt_mutex_release(t, m)
    BY <2>3, ReleaseInnerInv, ReleaseFreeInv, ReleaseToInv DEF rt_mutex_release
  <2> QED BY <1>1, <2>1, <2>2, <2>3, NoteInv DEF Step
<1>2. ASSUME NEW t \in Thread, InCall(t) PROVE Inv'
  BY <1>2, SwitchInv, SleepInv, TakeReturnInv, DetachCheckInv, DetachTurnInv DEF InCall
<1>3. ASSUME NEW t \in Sleepers, rt_thread_sleep(t), UNCHANGED <<mvars, want, held>>
      PROVE  Inv'
  BY <1>3, SleepInv, MutexAssumption
<1> QED BY <1>1, <1>2, <1>3, TickInv DEF Next

THEOREM Invariance == Spec => []Inv
<1>1. Init => Inv
  BY InitInv
<1>2. Inv /\ [Next]_vars => Inv'
  BY NextInv, StutterInv
<1> QED BY <1>1, <1>2, PTL DEF Spec

\* Mutual exclusion as the callers of rt_mutex_take see it: the thread that was
\* told RT_EOK, as often as it was, is the owner, and no other was told so.
THEOREM OwnerCorrect == Spec => []OwnerHolds
<1>1. Inv => OwnerHolds
  BY DEF Inv
<1> QED BY <1>1, Invariance, PTL

\* value, owner and hold always agree, so the "fatal error" branch of rt_mutex_take
\* is never taken, and nobody waits for a free mutex.
THEOREM FieldsCorrect == Spec => []FieldsAgree
<1>1. Inv => FieldsAgree
  <2> SUFFICES ASSUME Inv PROVE FieldsAgree
    OBVIOUS
  <2>1. TypeOK
    BY MutexLists DEF Inv, IpcOK, Fields, TypeOK
  <2> QED BY <2>1 DEF Inv, Agree, FieldsAgree
<1> QED BY <1>1, Invariance, PTL

-----------------------------------------------------------------------------
(* Priority inheritance, with one mutex.  original_priority is then the       *)
(* priority the owner was created with, and the order of the list, which the  *)
(* owner is not in, survives the changes of the owner's priority.             *)

OneMutex == \A m, n \in Mutexes : m = n

Ranked ==
  /\ \A m \in Mutexes : Ascending(k.wait[m], k.prio)
  /\ \A m \in Mutexes : owner[m] # NULL => orig[m] = InitPrio[owner[m]]
  /\ Inherits /\ PriorityRestored

\* Nobody joins a list and no priority changes.
LEMMA RankKept ==
  ASSUME Ranked, UNCHANGED <<owner, orig>>, k'.prio = k.prio,
         \A m \in Mutexes : Ascending(k.wait[m], k.prio) => Ascending(k'.wait[m], k.prio),
         \A m \in Mutexes : \A u \in Nodes(k'.wait[m]) : u \in Nodes(k.wait[m])
  PROVE  Ranked'
  BY DEF Ranked, Inherits, PriorityRestored

LEMMA RankSame ==
  ASSUME Ranked, UNCHANGED <<owner, orig>>, k'.prio = k.prio, k'.wait = k.wait
  PROVE  Ranked'
  BY RankKept

LEMMA RankRoused ==
  ASSUME Inv, Ranked, UNCHANGED <<owner, orig>>, NEW u, NEW e, Roused(k', k, u, e)
  PROVE  Ranked'
<1>1. ASSUME NEW m \in Mutexes
      PROVE  /\ Nodes(k'.wait[m]) = Nodes(k.wait[m]) \ {u}
             /\ Ascending(k.wait[m], k.prio) => Ascending(k'.wait[m], k'.prio)
  BY MutexLists, RousedLists
<1>2. k'.prio = k.prio
  BY DEF Roused
<1> QED BY <1>1, <1>2, RankKept

LEMMA InCallRanked ==
  ASSUME Inv, Ranked, NEW t \in Thread, InCall(t)
  PROVE  Ranked'
<1>1. CASE (Schedule(t, "waiting", "woken") \/ Schedule(t, "sched", "run"))
           /\ UNCHANGED <<mvars, want, held>>
  <2>1. Calm(k', k)
    BY <1>1, MutexLists, ScheduleCalm DEF Schedule
  <2> QED BY <1>1, <2>1, RankSame DEF Calm, mvars
<1>2. CASE Sleeping(t) /\ UNCHANGED <<mvars, want, held>>
  <2>1. Calm(k', k) \/ Noted(k', k, t, RT_EOK)
    BY <1>2, MutexLists, SleepingStep DEF PC, Suspends, Leaving
  <2> QED BY <1>2, <2>1, RankSame DEF Calm, Noted, mvars
<1>3. CASE TakeReturn(t) \/ DetachCheck(t)
  BY <1>3, RankSame DEF TakeReturn, DetachCheck, mvars
<1>4. CASE DetachTurn(t)
  <2> DEFINE q == want[t]
  <2>1. /\ ResumeAllTurn(t, q, "closing_do", "closing") /\ UNCHANGED <<owner, orig>>
        /\ "closing_do" \notin Leaving /\ {"closing", "crashed"} \subseteq PC
    BY <1>4 DEF DetachTurn, Leaving, PC, mvars
  <2>2. q \in WaitList \ {Defunct}
    BY <2>1, MutexLists DEF ResumeAllTurn, At, Inv, Wants, Closing
  <2> HIDE DEF q
  <2>3. Roused(k', k, Head(k.wait[q]), RT_ERROR) \/ Calm(k', k)
    BY <2>1, <2>2, MutexLists, ResumeAllStep
  <2> QED BY <2>1, <2>3, RankRoused, RankSame DEF Calm
<1> QED BY <1>1, <1>2, <1>3, <1>4 DEF InCall

LEMMA NoteRanked ==
  ASSUME Inv, Ranked, NEW t \in Thread, NEW m \in Mutexes,
         \/ TakeAgain(t, m) \/ TakeTry(t, m) \/ ReleaseDenied(t, m)
         \/ ReleaseInner(t, m) \/ DetachCall(t, m)
  PROVE  Ranked'
<1>1. UNCHANGED <<owner, orig>> /\ (k' = k \/ \E e \in ErrNo : k' = SetErr(k, t, e))
  BY DEF TakeAgain, TakeTry, ReleaseDenied, ReleaseInner, DetachCall, mvars, ErrNo
<1>2. ASSUME NEW e \in ErrNo, k' = SetErr(k, t, e)
      PROVE  Noted(k', k, t, e)
  BY <1>2, MutexLists, NotedOK
<1>3. k'.prio = k.prio /\ k'.wait = k.wait
  BY <1>1, <1>2 DEF Noted
<1> QED BY <1>1, <1>3, RankSame

LEMMA TakeFreeRanked ==
  ASSUME OneMutex, Inv, Ranked, NEW t \in Thread, NEW m \in Mutexes, TakeFree(t, m)
  PROVE  Ranked'
<1>1. /\ owner[m] # t /\ owner' = [owner EXCEPT ![m] = t] /\ value[m] > 0
      /\ orig' = [orig EXCEPT ![m] = k.prio[t]] /\ k' = SetErr(k, t, RT_EOK)
  BY DEF TakeFree, Enter
<1>2. k'.prio = k.prio /\ k'.wait = k.wait
  <2>1. RT_EOK \in ErrNo
    BY DEF ErrNo
  <2>2. Noted(k', k, t, RT_EOK)
    BY <1>1, <2>1, MutexLists, NotedOK
  <2> QED BY <2>2 DEF Noted
<1>3. owner[m] = NULL /\ k.wait[m] = <<>>
  BY <1>1 DEF Inv, Agree, Fields
<1>4. k.prio[t] = InitPrio[t]
  BY <1>1 DEF Ranked, PriorityRestored, OneMutex
<1>5. owner'[m] = t /\ orig'[m] = InitPrio[t]
  BY <1>1, <1>4 DEF Inv, Fields
<1>6. Nodes(k.wait[m]) = {}
  BY <1>3 DEF Nodes
<1>7. \A n \in Mutexes : n = m
  BY DEF OneMutex
<1>8. Inherits'
  BY <1>2, <1>6, <1>7 DEF Inherits
<1>9. PriorityRestored'
  BY <1>2, <1>3, <1>5, <1>7, MutexLists DEF Ranked, PriorityRestored
<1> QED BY <1>2, <1>5, <1>7, <1>8, <1>9 DEF Ranked

\* The priority of a thread that is in no list does not matter to the order.
LEMMA RankOther ==
  ASSUME NEW s \in Seq(Thread), NEW f, NEW g, NEW t, t \notin Nodes(s),
         \A u \in Thread \ {t} : g[u] = f[u], Ascending(s, f)
  PROVE  Ascending(s, g)
<1>1. \A x \in 1 .. Len(s) : s[x] # t /\ s[x] \in Thread
  BY DEF Nodes
<1>2. \A x \in 1 .. Len(s) : g[s[x]] = f[s[x]]
  BY <1>1
<1> QED BY <1>2 DEF Ascending

LEMMA TakeWaitRanked ==
  ASSUME OneMutex, Inv, Ranked, NEW t \in Thread, NEW m \in Mutexes, NEW wait,
         TakeWait(t, m, wait)
  PROVE  Ranked'
<1> DEFINE j == Boost(m, k.prio[t])
           o == owner[m]
           b == IF k.prio[t] < k.prio[o] THEN k.prio[t] ELSE k.prio[o]
<1>1. /\ At(t, "run") /\ t # Idle /\ o # t /\ o # NULL
      /\ k' = Block(j, m, t, "PRIO", wait) /\ UNCHANGED <<owner, orig>>
  BY DEF TakeWait, Enter, mvars
<1>2. /\ k.stat[t] = "READY" /\ k.prio \in [Thread -> Prio] /\ o \in Thread
      /\ m \in WaitList \ {Defunct} /\ m \in WaitList /\ k.wait[m] \in Seq(Thread)
  <2>1. "run" \notin Leaving
    BY DEF Leaving
  <2>2. k.stat[t] = "READY"
    BY <1>1, <2>1, MutexLists, RunnerReady
  <2> QED BY <1>1, <2>2, MutexLists DEF KernelState, Inv, Fields
<1>3. Sound(j) /\ Reranked(j, k) /\ j.prio = [k.prio EXCEPT ![o] = b]
  BY <1>1, <1>2, BoostOK
<1> HIDE DEF j
<1>4. j.stat[t] = "READY" /\ j.wait = k.wait /\ Sound(j) /\ m \in WaitList
  BY <1>2, <1>3 DEF Reranked
<1> DEFINE x == Position(j, m, t, "PRIO")
<1>5. BlockedAt(k', j, m, t, x) /\ Place(j, m, x)
  BY <1>1, <1>2, <1>3, <1>4, BlockBlocks, PositionType
<1> HIDE DEF x
<1>6. o \notin Nodes(k.wait[m])
  BY DEF Inv, Queued
<1>7. Ascending(j.wait[m], j.prio)
  <2>1. \A u \in Thread \ {o} : j.prio[u] = k.prio[u]
    BY <1>2, <1>3
  <2>2. Ascending(k.wait[m], k.prio)
    BY DEF Ranked
  <2> HIDE DEF b, o
  <2>3. Ascending(k.wait[m], j.prio)
    BY <1>2, <1>6, <2>1, <2>2, RankOther
  <2> QED BY <1>4, <2>3
<1>8. Ascending(k'.wait[m], k'.prio)
  BY <1>4, <1>5, <1>7, BlockedAscending DEF x
<1>9. \A u : u \in Nodes(k'.wait[m]) <=> u \in Nodes(j.wait[m]) \/ u = t
  <2>1. Sound(j) /\ j.stat[t] = "READY" /\ m \in WaitList
    BY <1>4
  <2> HIDE DEF o, b
  <2> QED BY <2>1, <1>5, BlockedJoins
<1>10. k'.prio = [k.prio EXCEPT ![o] = b]
  BY <1>3, <1>5 DEF BlockedAt
<1>11. \A n \in Mutexes : n = m
  BY DEF OneMutex
<1>12. /\ k'.prio[o] = b /\ \A u \in Thread \ {o} : k'.prio[u] = k.prio[u]
       /\ k.prio[t] \in Int /\ k.prio[o] \in Int
  BY <1>2, <1>10 DEF Prio
<1>13. Inherits'
  <2>1. ASSUME NEW u \in Nodes(k'.wait[m]) PROVE k'.prio[o] <= k'.prio[u]
    <3>1. CASE u = t
      BY <1>1, <1>12, <3>1
    <3>2. CASE u \in Nodes(k.wait[m])
      <4>1. u \in Thread \ {o} /\ k.prio[u] \in Int
        BY <1>2, <1>6, <3>2 DEF Nodes, Prio
      <4>2. k.prio[o] <= k.prio[u]
        BY <1>1, <3>2 DEF Ranked, Inherits
      <4> QED BY <1>12, <4>1, <4>2
    <3> QED BY <1>4, <1>9, <3>1, <3>2
  <2> QED BY <1>1, <1>11, <2>1 DEF Inherits
<1>14. PriorityRestored'
  BY <1>1, <1>12 DEF Ranked, PriorityRestored
<1> QED BY <1>1, <1>8, <1>11, <1>13, <1>14 DEF Ranked

\* A release gives the owner its own priority back.
LEMMA ReleaseRanked ==
  ASSUME OneMutex, Inv, Ranked, NEW t \in Thread, NEW m \in Mutexes,
         ReleaseFree(t, m) \/ ReleaseTo(t, m)
  PROVE  Ranked'
<1> DEFINE j == Restored(t, m)
<1>1. At(t, "run") /\ t # Idle /\ owner[m] = t
  BY DEF ReleaseFree, ReleaseTo, Enter
<1>2. Sound(j) /\ Reranked(j, k) /\ j.prio = [k.prio EXCEPT ![t] = orig[m]]
  BY <1>1, RestoredOK
<1> HIDE DEF j
<1>3. /\ k.prio \in [Thread -> Prio] /\ k.wait[m] \in Seq(Thread) /\ t # NULL
      /\ m \in WaitList \ {Defunct} /\ m \in WaitList
  BY MutexLists DEF KernelState
<1>4. /\ j.prio[t] = InitPrio[t] /\ \A u \in Thread \ {t} : j.prio[u] = k.prio[u]
  BY <1>1, <1>2, <1>3 DEF Ranked
<1>5. \A u \in Thread : j.prio[u] = InitPrio[u]
  <2>1. \A u \in Thread \ {t} : \A n \in Mutexes : owner[n] # u
    BY <1>1 DEF OneMutex
  <2> QED BY <1>4, <2>1 DEF Ranked, PriorityRestored
<1>6. Ascending(k.wait[m], j.prio)
  <2>1. t \notin Nodes(k.wait[m])
    BY <1>1 DEF Inv, Queued
  <2>2. Ascending(k.wait[m], k.prio)
    BY DEF Ranked
  <2> QED BY <1>3, <1>4, <2>1, <2>2, RankOther
<1>7. \A n \in Mutexes : n = m
  BY DEF OneMutex
<1>8. CASE ReleaseFree(t, m)
  <2>1. k' = j /\ k'.wait = k.wait /\ owner'[m] = NULL
    BY <1>2, <1>8 DEF ReleaseFree, j, Reranked, Inv, Fields
  <2> QED BY <1>5, <1>6, <1>7, <2>1 DEF Ranked, Inherits, PriorityRestored
<1>9. CASE ReleaseTo(t, m)
  <2> DEFINE u == Head(k.wait[m])
  <2>1. /\ k' = rt_ipc_list_resume(j, m) /\ k.wait[m] # <<>>
        /\ owner'[m] = u /\ orig'[m] = j.prio[u]
    BY <1>9 DEF ReleaseTo, j, Inv, Fields
  <2>2. j.wait[m] = k.wait[m]
    BY <1>2 DEF Reranked
  <2>3. Roused(k', j, u, j.err[u])
    BY <1>2, <1>3, <2>1, <2>2, ListResumeRouses
  <2>4. u \in Thread /\ u \in Nodes(k.wait[m])
    BY <1>3, <2>1, MutexLists, HeadSuspended
  <2>5. \A v \in Nodes(k.wait[m]) : v \in Thread /\ j.prio[u] <= j.prio[v]
    <3>1. \A x \in 1 .. Len(k.wait[m]) : x = 1 \/ 1 < x
      OBVIOUS
    <3>2. u = k.wait[m][1] /\ 1 \in 1 .. Len(k.wait[m])
      BY <1>3, <2>1
    <3>3. j.prio[u] \in Int
      BY <1>2, <2>4, CurThread DEF KernelState, Prio
    <3> QED BY <1>3, <1>6, <3>1, <3>2, <3>3 DEF Ascending, Nodes
  <2> HIDE DEF u
  <2>6. /\ Nodes(k'.wait[m]) = Nodes(j.wait[m]) \ {u}
        /\ Ascending(j.wait[m], j.prio) => Ascending(k'.wait[m], k'.prio)
    BY <1>2, <1>3, <2>3, RousedLists
  <2>7. k'.prio = j.prio
    BY <2>3 DEF Roused
  <2>8. Inherits'
    BY <1>7, <2>1, <2>2, <2>5, <2>6, <2>7 DEF Inherits
  <2>9. PriorityRestored'
    BY <1>5, <2>7 DEF PriorityRestored
  <2> QED BY <1>5, <1>6, <1>7, <2>1, <2>2, <2>4, <2>6, <2>7, <2>8, <2>9 DEF Ranked
<1> QED BY <1>8, <1>9

LEMMA NextRanked == ASSUME OneMutex PROVE Inv /\ Ranked /\ Next => Ranked'
<1> SUFFICES ASSUME Inv, Ranked, Next PROVE Ranked'
  OBVIOUS
<1>1. ASSUME NEW t \in Thread, NEW m \in Mutexes, Step(t, m) PROVE Ranked'
  <2>1. ASSUME NEW wait \in Times, TakeWait(t, m, wait) PROVE Ranked'
    BY <2>1, TakeWaitRanked
  <2>2. CASE rt_mutex_release(t, m)
    BY <2>2, NoteRanked, ReleaseRanked DEF rt_mutex_release
  <2> QED BY <1>1, <2>1, <2>2, NoteRanked, TakeFreeRanked DEF Step
<1>2. ASSUME NEW t \in Sleepers, rt_thread_sleep(t), UNCHANGED <<mvars, want, held>>
      PROVE  Ranked'
  <2>1. "run" \notin Leaving /\ "sleeping" \in PC \cap Suspends \cap Leaving
    BY DEF Leaving, Suspends, PC
  <2>2. Slept(k', k, t)
    BY <1>2, <2>1, MutexLists, SleepStep
  <2> QED BY <1>2, <2>2, RankSame DEF Slept, mvars
<1>3. ASSUME TickSlice, UNCHANGED <<mvars, want, held>> PROVE Ranked'
  <2>1. Calm(k', k)
    BY <1>3, MutexLists, SliceStep
  <2> QED BY <1>3, <2>1, RankSame DEF Calm, mvars
<1>4. ASSUME NEW t \in Thread, TickTimeout(t), UNCHANGED <<mvars, want, held>> PROVE Ranked'
  <2>1. Roused(k', k, t, RT_ETIMEOUT)
    BY <1>4, MutexLists, TimeoutStep
  <2> QED BY <1>4, <2>1, RankRoused DEF mvars
<1> QED BY <1>1, <1>2, <1>3, <1>4, InCallRanked DEF Next

LEMMA InitRanked == Init => Ranked
<1> SUFFICES ASSUME Init PROVE Ranked
  OBVIOUS
<1>1. /\ \A m \in Mutexes : k.wait[m] = <<>> /\ owner[m] = NULL
      /\ k.prio = InitPrio
  BY BootedState, MutexAssumption DEF Init, IpcInit
<1> QED BY <1>1 DEF Ranked, Ascending, Inherits, PriorityRestored

THEOREM RankInvariance == ASSUME OneMutex PROVE Spec => [](Inv /\ Ranked)
<1>1. Init => Inv /\ Ranked
  BY InitInv, InitRanked
<1>2. Inv /\ Ranked /\ [Next]_vars => (Inv /\ Ranked)'
  <2>1. Inv /\ Ranked /\ UNCHANGED vars => Ranked'
    BY RankSame DEF vars, mvars
  <2> QED BY <2>1, NextInv, StutterInv, NextRanked
<1> QED BY <1>1, <1>2, PTL DEF Spec

\* With one mutex the owner always runs at least at the priority of every waiter.
THEOREM InheritsCorrect == ASSUME OneMutex PROVE Spec => []Inherits
<1>1. Ranked => Inherits
  BY DEF Ranked
<1> QED BY <1>1, RankInvariance, PTL

\* With one mutex a thread that does not own it runs at its own priority.
THEOREM RestoredCorrect == ASSUME OneMutex PROVE Spec => []PriorityRestored
<1>1. Ranked => PriorityRestored
  BY DEF Ranked
<1> QED BY <1>1, RankInvariance, PTL

-----------------------------------------------------------------------------
(*****************************************************************************)
(* The serial device, its UART, poll() and the file system lock. The         *)
(* invariant ties the place of each caller to the list it is in, the owner   *)
(* of the lock, the node in the wait queue and the outstanding transmit      *)
(* interrupt; the numbers in the receive FIFO are kept apart (FifoInv), for  *)
(* they follow from the two indices alone.                                   *)
(*****************************************************************************)

\* Control points: of the client, of a user of the file system lock, of those who
\* may be suspended, of those who have suspended themselves, of those in each list.
ClientPC == {"run", "r_dev", "r_init", "r_cwait", "r_csleep", "r_cwoken", "r_byte", "r_more",
             "r_wait", "r_sleep", "r_woken", "t_put", "t_irq", "t_cwait", "t_csleep",
             "t_cwoken", "p_get", "p_getting", "p_got", "p_gots", "p_add", "p_look", "p_put",
             "p_putting", "p_hold", "p_holds", "p_next", "p_wait", "p_sleep", "p_woken",
             "p_down"}
LockerPC == {"run", "l_taking", "l_hold", "l_sched"}
SerialPC == ClientPC \cup LockerPC
SerialLeaving == {"r_csleep", "r_sleep", "t_csleep", "p_getting", "p_putting", "p_sleep",
                  "l_taking"}
SerialSuspends == SerialLeaving \cup {"r_cwoken", "r_woken", "t_cwoken", "p_got", "p_hold",
                                      "p_woken", "l_hold"}
Holds == {"p_getting", "p_got", "p_putting", "p_hold", "l_taking", "l_hold"}
RxSleeps == {"r_csleep", "r_cwoken"}
TxSleeps == {"t_csleep", "t_cwoken"}
Timed == RxSleeps \cup {"p_sleep", "p_woken"}

Room(t) == IF t = Client THEN ClientPC ELSE IF t \in Lockers THEN LockerPC ELSE {"run"}
Rooms == \A t \in Thread : pc[t] \in Room(t)
TimersOK == \A t \in Thread : k.armed[t] => t = Client /\ pc[t] \in Timed

SerialLists ==
  /\ IpcOK(SerialPC, SerialSuspends, SerialLeaving) /\ Rooms /\ TimersOK
  /\ Blocking(LockList, Holds) /\ Blocking(RxDone, RxSleeps) /\ Blocking(TxDone, TxSleeps)

\* Who goes on as the holder of the lock owns it, but for a poll() that was woken.
Users == Lockers \cup {Client}
OwnedBy ==
  /\ lock \in [owner : Users \cup {RT_NULL}, orig : Prio]
  /\ \A t \in Users : k.stat[t] = "READY" /\ pc[t] \in Holds =>
       lock.owner = t \/ (t = Client /\ pt.triggered)

\* The one node in the device's wait queue.
Early == {"p_get", "p_getting", "p_got", "p_gots", "p_add"}
Polling == Early \cup {"p_look", "p_put", "p_putting", "p_hold", "p_holds", "p_next", "p_wait",
                       "p_sleep", "p_woken", "p_down"}
NodeLists == {<<>>, <<WaitNode(Client)>>, <<MyNode>>}
NodeOK ==
  /\ pt \in [triggered : BOOLEAN, proc : BOOLEAN, num : BOOLEAN, istimeout : BOOLEAN]
  /\ queue \in [flag : BOOLEAN, nodes : NodeLists]
  /\ queue.nodes = <<WaitNode(Client)>> => pc[Client] \in {"r_sleep", "r_woken"}
  /\ queue.nodes = <<MyNode>> => pc[Client] \in Polling /\ (pc[Client] \in Early => ~pt.proc)
  /\ pc[Client] \in {"p_wait", "p_sleep", "p_woken"} => ~pt.proc

\* A transmit interrupt is outstanding for a writer that waits, or will wait, for it.
TxWaits == {"t_cwait"} \cup TxSleeps
TxOK ==
  /\ done \in [Completions -> 0 .. UINT_MAX] /\ done[TxDone] <= 1
  /\ uart \in [full : BOOLEAN, etbei : BOOLEAN]
  /\ uart.etbei \/ done[TxDone] # 0 => pc[Client] \in TxWaits
  /\ uart.etbei => done[TxDone] = 0
  /\ pc[Client] \in TxSleeps => (k.stat[Client] = "SUSPEND" <=> done[TxDone] = 0)

\* A read or write under way has something left to do.
LeftOK ==
  /\ left \in 0 .. MaxCount /\ time \in Time
  /\ pc[Client] \in {"r_dev", "r_init", "r_cwait", "r_csleep", "r_cwoken", "r_byte", "r_more",
                     "r_wait", "r_sleep", "r_woken", "t_put", "t_irq", "t_cwait", "t_csleep",
                     "t_cwoken"} => left # 0

SerialState == SerialLists /\ OwnedBy /\ NodeOK /\ TxOK /\ LeftOK

-----------------------------------------------------------------------------
(* The kernel's part of a step. *)

LEMMA SerialFacts ==
  /\ Client \in Thread \ {Idle} /\ Client \in Thread /\ Users \subseteq Thread \ {Idle}
  /\ Lockers \subseteq Thread /\ Client \notin Lockers /\ RT_NULL \notin Thread
  /\ LockList \in WaitList \ {Defunct} /\ LockList \in WaitList
  /\ RxDone \in WaitList \ {Defunct} /\ RxDone \in WaitList
  /\ TxDone \in WaitList \ {Defunct} /\ TxDone \in WaitList
  /\ LockList # RxDone /\ LockList # TxDone /\ RxDone # TxDone
  BY SerialAssumption, CompletionAssumption, LockAssumption DEF Users

LEMMA RoomPC == ASSUME NEW t, NEW m \in Room(t) PROVE m \in SerialPC
  BY DEF Room, SerialPC, ClientPC, LockerPC

LEMMA ListsKernel ==
  ASSUME SerialLists
  PROVE  /\ IpcOK(SerialPC, SerialSuspends, SerialLeaving) /\ Sound(k) /\ k \in KernelState
         /\ k.cur \in Thread /\ pc \in [Thread -> SerialPC]
         /\ k.stat \in [Thread -> Stat] /\ k.armed \in [Thread -> BOOLEAN]
         /\ k.prio \in [Thread -> Prio] /\ k.err \in [Thread -> ErrNo]
<1>1. Sound(k) /\ pc \in [Thread -> SerialPC] /\ IpcOK(SerialPC, SerialSuspends, SerialLeaving)
  BY DEF SerialLists, IpcOK
<1>2. k \in KernelState /\ k.cur \in Thread
  BY <1>1, CurThread
<1> QED BY <1>1, <1>2 DEF KernelState

LEMMA ReadyDisarmed ==
  ASSUME SerialLists, NEW t \in Thread, k.stat[t] = "READY" PROVE ~k.armed[t]
  BY ListsKernel DEF Sound, KernelInv, TimerSound

\* Places and timers after a step of t.
LEMMA RoomsKept ==
  ASSUME SerialLists, NEW t \in Thread, Moves(SerialPC, t), pc'[t] \in Room(t),
         \A u \in Thread : k'.armed[u] => \/ k.armed[u] /\ (u # t \/ pc'[t] \in Timed)
                                          \/ u = t /\ t = Client /\ pc'[t] \in Timed
  PROVE  Rooms' /\ TimersOK'
<1>1. Rooms'
  BY DEF SerialLists, Rooms, Room, Moves
<1>2. TimersOK'
  BY DEF SerialLists, TimersOK, Moves
<1> QED BY <1>1, <1>2

\* A thread switch, or a step of t that changes nothing in the kernel.
LEMMA CalmLists ==
  ASSUME SerialLists, NEW t \in Thread, Moves(SerialPC, t), pc'[t] \in Room(t), Calm(k', k),
         IpcOK(SerialPC, SerialSuspends, SerialLeaving)',
         \/ k.stat[t] = "READY"
         \/ \A P \in {Holds, RxSleeps, TxSleeps, Timed} : pc[t] \in P <=> pc'[t] \in P
  PROVE  SerialLists'
<1>1. Blocking(LockList, Holds)' /\ Blocking(RxDone, RxSleeps)' /\ Blocking(TxDone, TxSleeps)'
  <2>1. /\ k.stat[t] = "READY" \/ (pc[t] \in Holds <=> pc'[t] \in Holds)
        /\ k.stat[t] = "READY" \/ (pc[t] \in RxSleeps <=> pc'[t] \in RxSleeps)
        /\ k.stat[t] = "READY" \/ (pc[t] \in TxSleeps <=> pc'[t] \in TxSleeps)
    OBVIOUS
  <2>2. Blocking(LockList, Holds) /\ Blocking(RxDone, RxSleeps) /\ Blocking(TxDone, TxSleeps)
    BY DEF SerialLists
  <2>3. Blocking(LockList, Holds)'
    BY <2>1, <2>2, CalmBlocking
  <2>4. Blocking(RxDone, RxSleeps)'
    BY <2>1, <2>2, CalmBlocking
  <2>5. Blocking(TxDone, TxSleeps)'
    BY <2>1, <2>2, CalmBlocking
  <2> QED BY <2>3, <2>4, <2>5
<1>2. \A u \in Thread : k'.armed[u] => \/ k.armed[u] /\ (u # t \/ pc'[t] \in Timed)
                                       \/ u = t /\ t = Client /\ pc'[t] \in Timed
  <2>1. k'.armed = k.armed
    BY DEF Calm
  <2>2. k.armed[t] => pc'[t] \in Timed
    BY ReadyDisarmed DEF SerialLists, TimersOK
  <2> QED BY <2>1, <2>2
<1>3. Rooms' /\ TimersOK'
  BY <1>2, RoomsKept
<1> QED BY <1>1, <1>3 DEF SerialLists

LEMMA StillLists ==
  ASSUME SerialLists, NEW t, NEW l, At(t, l), l \notin SerialLeaving, k' = k,
         NEW m \in Room(t), Goto(t, m)
  PROVE  /\ SerialLists' /\ Moves(SerialPC, t) /\ t \in Thread /\ k.stat[t] = "READY"
         /\ pc[t] = l /\ pc'[t] = m /\ k'.stat = k.stat
<1>1. t \in Thread /\ k.stat[t] = "READY" /\ pc[t] = l
  BY ListsKernel, RunnerReady
<1>2. m \in SerialPC
  BY RoomPC
<1>3. /\ IpcOK(SerialPC, SerialSuspends, SerialLeaving)' /\ Moves(SerialPC, t)
      /\ Calm(k', k) /\ pc'[t] = m
  BY <1>2, ListsKernel, StillStep
<1> QED BY <1>1, <1>3, CalmLists

LEMMA SwitchLists ==
  ASSUME SerialLists, NEW t, NEW c \in Schedules, Schedule(t, c[1], c[2])
  PROVE  /\ SerialLists' /\ Moves(SerialPC, t) /\ t \in Thread
         /\ pc[t] = c[1] /\ pc'[t] = c[2] /\ k'.stat = k.stat
<1>1. /\ c[2] \in SerialPC /\ (c[1] \in SerialLeaving => c[2] \in SerialSuspends)
      /\ \/ \A P \in {Holds, RxSleeps, TxSleeps, Timed} : c[1] \in P <=> c[2] \in P
         \/ c[1] \notin SerialSuspends
      /\ \A u : c[1] \in Room(u) => c[2] \in Room(u)
  BY DEF Schedules, SerialPC, ClientPC, LockerPC, SerialLeaving, SerialSuspends, Holds,
         RxSleeps, TxSleeps, Timed, Room
<1>2. /\ IpcOK(SerialPC, SerialSuspends, SerialLeaving)' /\ t \in Thread
      /\ Moves(SerialPC, t) /\ Calm(k', k) /\ pc[t] = c[1] /\ pc'[t] = c[2]
  BY <1>1, ListsKernel, ScheduleStep
<1>3. pc'[t] \in Room(t)
  BY <1>1, <1>2 DEF SerialLists, Rooms
<1>4. \/ k.stat[t] = "READY"
      \/ \A P \in {Holds, RxSleeps, TxSleeps, Timed} : pc[t] \in P <=> pc'[t] \in P
  BY <1>1, <1>2, ListsKernel DEF IpcOK
<1> QED BY <1>2, <1>3, <1>4, CalmLists DEF Calm

LEMMA SliceLists ==
  ASSUME SerialLists, TickSlice
  PROVE  SerialLists' /\ k'.stat = k.stat /\ pc' = pc
<1>1. /\ IpcOK(SerialPC, SerialSuspends, SerialLeaving)' /\ k.cur \in Thread
      /\ Moves(SerialPC, k.cur) /\ Calm(k', k) /\ pc' = pc
  BY ListsKernel, SliceStep
<1>2. pc'[k.cur] \in Room(k.cur)
  BY <1>1 DEF SerialLists, Rooms
<1> QED BY <1>1, <1>2, CalmLists DEF Calm

\* A thread is woken; t goes on.
LEMMA FreedLists ==
  ASSUME SerialLists, NEW t \in Thread, Moves(SerialPC, t), pc'[t] \in Room(t), Sound(k'),
         NEW u \in Thread, Freed(k', k, u), IpcOK(SerialPC, SerialSuspends, SerialLeaving)',
         k.stat[t] = "READY" \/ pc'[t] = pc[t]
  PROVE  SerialLists' /\ k'.stat = [k.stat EXCEPT ![u] = "READY"]
<1>1. Blocking(LockList, Holds) /\ Blocking(RxDone, RxSleeps) /\ Blocking(TxDone, TxSleeps)
  BY DEF SerialLists
<1>2. Blocking(LockList, Holds)'
  BY <1>1, SerialFacts, ListsKernel, FreedBlocking
<1>3. Blocking(RxDone, RxSleeps)'
  BY <1>1, SerialFacts, ListsKernel, FreedBlocking
<1>4. Blocking(TxDone, TxSleeps)'
  BY <1>1, SerialFacts, ListsKernel, FreedBlocking
<1>5. \A v \in Thread : k'.armed[v] => k.armed[v]
  BY ListsKernel DEF Freed
<1>6. k.armed[t] => pc'[t] \in Timed
  BY ReadyDisarmed DEF SerialLists, TimersOK
<1>7. \A v \in Thread : k'.armed[v] => \/ k.armed[v] /\ (v # t \/ pc'[t] \in Timed)
                                       \/ v = t /\ t = Client /\ pc'[t] \in Timed
  BY <1>5, <1>6
<1>8. Rooms' /\ TimersOK'
  BY <1>7, RoomsKept
<1> QED BY <1>2, <1>3, <1>4, <1>8 DEF SerialLists, Freed

LEMMA TimeoutLists ==
  ASSUME SerialLists, NEW t \in Thread, TickTimeout(t)
  PROVE  /\ SerialLists' /\ t = Client /\ pc[t] \in Timed /\ k.stat[t] = "SUSPEND"
         /\ k'.stat = [k.stat EXCEPT ![t] = "READY"] /\ pc' = pc
<1>1. /\ IpcOK(SerialPC, SerialSuspends, SerialLeaving)' /\ Moves(SerialPC, t)
      /\ Roused(k', k, t, RT_ETIMEOUT) /\ k.stat[t] = "SUSPEND" /\ pc' = pc
  BY ListsKernel, TimeoutStep
<1>2. t = Client /\ pc[t] \in Timed
  BY DEF TickTimeout, SerialLists, TimersOK
<1>3. Blocking(LockList, Holds) /\ Blocking(RxDone, RxSleeps) /\ Blocking(TxDone, TxSleeps)
  BY DEF SerialLists
<1>4. Blocking(LockList, Holds)'
  BY <1>1, <1>3, SerialFacts, ListsKernel, RousedBlocking
<1>5. Blocking(RxDone, RxSleeps)'
  BY <1>1, <1>3, SerialFacts, ListsKernel, RousedBlocking
<1>6. Blocking(TxDone, TxSleeps)'
  BY <1>1, <1>3, SerialFacts, ListsKernel, RousedBlocking
<1>7. \A v \in Thread : k'.armed[v] => k.armed[v]
  BY <1>1, ListsKernel DEF Roused
<1>8. Rooms' /\ TimersOK'
  BY <1>1, <1>7 DEF SerialLists, Rooms, TimersOK, Room
<1> QED BY <1>1, <1>2, <1>4, <1>5, <1>6, <1>8 DEF SerialLists, Roused

\* t blocks on list q, with or without having passed its priority on.
LEMMA JoinedLists ==
  ASSUME SerialLists, NEW t \in Users, NEW l, At(t, l), l \notin SerialLeaving,
         NEW q, NEW wait, NEW m \in Room(t), Goto(t, m), m \in SerialLeaving,
         \/ q = LockList /\ m \in Holds /\ wait = "FOREVER"
         \/ q = RxDone /\ m \in RxSleeps /\ t = Client
         \/ q = TxDone /\ m \in TxSleeps /\ wait = "FOREVER",
         Sound(k'), Enlists(k', k, q, t), k'.armed = [k.armed EXCEPT ![t] = (wait = "TICKS")]
  PROVE  /\ SerialLists' /\ Moves(SerialPC, t) /\ t \in Thread /\ k.stat[t] = "READY"
         /\ pc[t] = l /\ pc'[t] = m /\ k'.stat = [k.stat EXCEPT ![t] = "SUSPEND"]
<1>1. t \in Thread /\ k.stat[t] = "READY" /\ pc[t] = l /\ k.cur = t
  BY ListsKernel, RunnerReady DEF At
<1>2. Moves(SerialPC, t) /\ pc'[t] = m
  BY <1>1, RoomPC, ListsKernel, GotoMoves
<1>3. /\ k'.stat = [k.stat EXCEPT ![t] = "SUSPEND"] /\ k'.cur = k.cur
      /\ m \in SerialSuspends \cap SerialLeaving
  BY DEF Enlists, SerialSuspends
<1>4. IpcOK(SerialPC, SerialSuspends, SerialLeaving)'
  BY <1>1, <1>2, <1>3, ListsKernel, SuspendedKeeps
<1>5. Blocking(LockList, Holds) /\ Blocking(RxDone, RxSleeps) /\ Blocking(TxDone, TxSleeps)
  BY DEF SerialLists
<1>6. /\ IF LockList = q THEN pc'[t] \in Holds ELSE pc'[t] \notin Holds
      /\ IF RxDone = q THEN pc'[t] \in RxSleeps ELSE pc'[t] \notin RxSleeps
      /\ IF TxDone = q THEN pc'[t] \in TxSleeps ELSE pc'[t] \notin TxSleeps
  BY <1>2, SerialFacts DEF Holds, RxSleeps, TxSleeps
<1>7. q \in WaitList
  BY SerialFacts
<1>8. Blocking(LockList, Holds)'
  BY <1>1, <1>2, <1>5, <1>6, <1>7, SerialFacts, ListsKernel, JoinedBlocking
<1>9. Blocking(RxDone, RxSleeps)'
  BY <1>1, <1>2, <1>5, <1>6, <1>7, SerialFacts, ListsKernel, JoinedBlocking
<1>10. Blocking(TxDone, TxSleeps)'
  BY <1>1, <1>2, <1>5, <1>6, <1>7, SerialFacts, ListsKernel, JoinedBlocking
<1>11. \A u \in Thread : k'.armed[u] => \/ k.armed[u] /\ (u # t \/ pc'[t] \in Timed)
                                        \/ u = t /\ t = Client /\ pc'[t] \in Timed
  <2>1. \A u \in Thread : k'.armed[u] = IF u = t THEN wait = "TICKS" ELSE k.armed[u]
    BY ListsKernel
  <2>2. wait = "TICKS" => t = Client /\ pc'[t] \in Timed
    BY <1>2 DEF Timed
  <2> QED BY <2>1, <2>2
<1>12. Rooms' /\ TimersOK'
  BY <1>1, <1>2, <1>11, RoomsKept
<1> QED BY <1>1, <1>2, <1>3, <1>4, <1>8, <1>9, <1>10, <1>12 DEF SerialLists

\* The client waits for a completion.
LEMMA CompletionLists ==
  ASSUME SerialLists, NEW t, t = Client, NEW l, At(t, l), l \notin SerialLeaving,
         NEW q, NEW wait, NEW m, Goto(t, m), k' = Block(k, q, t, "FIFO", wait),
         \/ q = RxDone /\ m = "r_csleep"
         \/ q = TxDone /\ m = "t_csleep" /\ wait = "FOREVER"
  PROVE  /\ SerialLists' /\ Moves(SerialPC, t) /\ k.stat[t] = "READY"
         /\ pc[t] = l /\ pc'[t] = m /\ k'.stat = [k.stat EXCEPT ![t] = "SUSPEND"]
<1>1. t \in Thread \ {Idle} /\ k.stat[t] = "READY" /\ Sound(k)
  BY SerialFacts, ListsKernel, RunnerReady
<1>2. q \in WaitList \ {Defunct} /\ Reranked(k, k)
  BY SerialFacts, RerankedSame
<1>3. /\ Sound(k') /\ Enlists(k', k, q, t)
      /\ k'.armed = [k.armed EXCEPT ![t] = (wait = "TICKS")]
  BY <1>1, <1>2, BlockJoins
<1>4. /\ m \in Room(t) /\ m \in SerialLeaving /\ t \in Users
      /\ \/ q = LockList /\ m \in Holds /\ wait = "FOREVER"
         \/ q = RxDone /\ m \in RxSleeps /\ t = Client
         \/ q = TxDone /\ m \in TxSleeps /\ wait = "FOREVER"
  BY DEF Room, ClientPC, SerialLeaving, Users, RxSleeps, TxSleeps
<1> QED BY <1>3, <1>4, JoinedLists, SMTT(30)

\* t waits for the file system lock; its owner may inherit its priority.
LEMMA TakeWaitLists ==
  ASSUME SerialLists, OwnedBy, NEW t \in Users, NEW l, At(t, l), l \notin SerialLeaving,
         lock.owner # RT_NULL, NEW m \in Room(t), m \in SerialLeaving \cap Holds, Goto(t, m),
         k' = Block(Inherited(t), LockList, t, "PRIO", "FOREVER")
  PROVE  /\ SerialLists' /\ Moves(SerialPC, t) /\ t \in Thread /\ k.stat[t] = "READY"
         /\ pc[t] = l /\ pc'[t] = m /\ k'.stat = [k.stat EXCEPT ![t] = "SUSPEND"]
<1> DEFINE h == Inherited(t)
<1>1. t \in Thread \ {Idle} /\ k.stat[t] = "READY" /\ Sound(k) /\ k.prio[t] \in Prio
  BY SerialFacts, ListsKernel, RunnerReady
<1>2. lock.owner \in Thread \ {Idle}
  BY SerialFacts DEF OwnedBy
<1>3. Sound(h) /\ Reranked(h, k)
  <2>1. CASE k.prio[t] < k.prio[lock.owner]
    <3>1. h = ChangePriority(k, lock.owner, k.prio[t])
      BY <2>1 DEF Inherited
    <3> HIDE DEF h
    <3> DEFINE o == lock.owner
               p == k.prio[t]
    <3>2. o \in Thread \ {Idle} /\ p \in Prio /\ h = ChangePriority(k, o, p)
      BY <1>1, <1>2, <3>1
    <3> HIDE DEF o, p
    <3> QED BY <1>1, <3>2, RerankedOK
  <2>2. CASE ~(k.prio[t] < k.prio[lock.owner])
    <3>1. h = k
      BY <2>2 DEF Inherited
    <3> QED BY <1>1, <3>1, RerankedSame
  <2> QED BY <2>1, <2>2
<1> HIDE DEF h
<1>4. LockList \in WaitList \ {Defunct} /\ k' = Block(h, LockList, t, "PRIO", "FOREVER")
  BY SerialFacts DEF h
<1> DEFINE wait == "FOREVER"
<1>5. k' = Block(h, LockList, t, "PRIO", wait) /\ wait = "FOREVER"
  BY <1>4
<1> HIDE DEF wait
<1>6. /\ Sound(k') /\ Enlists(k', k, LockList, t)
      /\ k'.armed = [k.armed EXCEPT ![t] = (wait = "TICKS")]
  BY <1>1, <1>3, <1>4, <1>5, BlockJoins
<1>7. m \in Holds /\ m \in SerialLeaving
  OBVIOUS
<1> QED BY <1>5, <1>6, <1>7, JoinedLists

\* The client waits in no list.
LEMMA SleepLists ==
  ASSUME SerialLists, NEW t, t = Client, NEW l, At(t, l), l \notin SerialLeaving,
         NEW m, Goto(t, m),
         \/ m \in {"r_sleep", "p_sleep"} /\ k' = rt_thread_suspend(k, t)
         \/ m = "p_sleep" /\ k' = Started(rt_thread_suspend(k, t), t)
  PROVE  /\ SerialLists' /\ Moves(SerialPC, t) /\ k.stat[t] = "READY"
         /\ pc[t] = l /\ pc'[t] = m /\ k'.stat = [k.stat EXCEPT ![t] = "SUSPEND"]
<1> DEFINE h == rt_thread_suspend(k, t)
<1>1. /\ t \in Thread \ {Idle} /\ t \in Thread /\ k.stat[t] = "READY" /\ pc[t] = l /\ k.cur = t
      /\ Sound(k)
  BY SerialFacts, ListsKernel, RunnerReady DEF At
<1>2. /\ m \in Room(t) /\ m \in SerialLeaving /\ m \in SerialSuspends \cap SerialLeaving
      /\ m \notin Holds /\ m \notin RxSleeps /\ m \notin TxSleeps
  BY DEF Room, ClientPC, SerialLeaving, SerialSuspends, Holds, RxSleeps, TxSleeps
<1>3. Moves(SerialPC, t) /\ pc'[t] = m
  BY <1>1, <1>2, RoomPC, ListsKernel, GotoMoves
<1>4. Sound(h) /\ Slept(h, k, t)
  BY <1>1, SuspendSleeps
<1>5. h.armed = [k.armed EXCEPT ![t] = FALSE]
  BY <1>1, SuspendDisarms
<1>6. h.stat[t] = "SUSPEND" /\ KernelInv(h, {})
  BY <1>1, <1>4, ListsKernel DEF Slept, Sound
<1> HIDE DEF h
<1>7. /\ Sound(k') /\ Slept(k', k, t)
      /\ \A u \in Thread \ {t} : k'.armed[u] => k.armed[u]
      /\ k'.armed[t] => m = "p_sleep"
  <2>1. CASE m \in {"r_sleep", "p_sleep"} /\ k' = h
    BY <1>4, <1>5, <2>1, ListsKernel, <1>1
  <2>2. CASE m = "p_sleep" /\ k' = Started(h, t)
    <3>1. Sound(k') /\ Slept(k', k, t)
      BY <1>1, <2>2, StartedSleeps DEF h
    <3>2. k'.armed = [h.armed EXCEPT ![t] = TRUE]
      BY <1>6, <2>2, StartedOK, <1>1
    <3> QED BY <1>1, <1>5, <2>2, <3>1, <3>2, ListsKernel
  <2> QED BY <2>1, <2>2 DEF h
<1>8. k'.stat = [k.stat EXCEPT ![t] = "SUSPEND"] /\ k'.cur = k.cur
  BY <1>7 DEF Slept
<1>9. IpcOK(SerialPC, SerialSuspends, SerialLeaving)'
  BY <1>1, <1>2, <1>3, <1>7, <1>8, ListsKernel, SuspendedKeeps
<1>10. Blocking(LockList, Holds) /\ Blocking(RxDone, RxSleeps) /\ Blocking(TxDone, TxSleeps)
  BY DEF SerialLists
<1>11. Blocking(LockList, Holds)'
  BY <1>1, <1>2, <1>3, <1>7, <1>10, SerialFacts, SleptBlocking
<1>12. Blocking(RxDone, RxSleeps)'
  BY <1>1, <1>2, <1>3, <1>7, <1>10, SerialFacts, SleptBlocking
<1>13. Blocking(TxDone, TxSleeps)'
  BY <1>1, <1>2, <1>3, <1>7, <1>10, SerialFacts, SleptBlocking
<1>14. \A u \in Thread : k'.armed[u] => \/ k.armed[u] /\ (u # t \/ pc'[t] \in Timed)
                                        \/ u = t /\ t = Client /\ pc'[t] \in Timed
  BY <1>3, <1>7 DEF Timed
<1>15. Rooms' /\ TimersOK'
  BY <1>1, <1>2, <1>3, <1>14, RoomsKept
<1> QED BY <1>1, <1>3, <1>8, <1>9, <1>11, <1>12, <1>13, <1>15 DEF SerialLists

\* The error number of the running thread is set, or its priority changes.
LEMMA SteadyLists ==
  ASSUME SerialLists, NEW t \in Users, NEW l, At(t, l), l \notin SerialLeaving,
         NEW m \in Room(t), Goto(t, m), Sound(k'),
         Reranked(k', k) \/ \E e \in ErrNo : Noted(k', k, t, e)
  PROVE  /\ SerialLists' /\ Moves(SerialPC, t) /\ t \in Thread /\ k.stat[t] = "READY"
         /\ pc[t] = l /\ pc'[t] = m /\ k'.stat = k.stat
<1>1. t \in Thread /\ k.stat[t] = "READY" /\ pc[t] = l /\ k.cur = t /\ Sound(k)
  BY ListsKernel, RunnerReady DEF At
<1>2. Moves(SerialPC, t) /\ pc'[t] = m
  BY <1>1, RoomPC, ListsKernel, GotoMoves
<1>3. k'.stat = k.stat /\ k'.cur = k.cur /\ k'.armed = k.armed /\ k'.wait = k.wait
  BY DEF Reranked, Noted
<1>4. IpcOK(SerialPC, SerialSuspends, SerialLeaving)'
  BY <1>1, <1>2, <1>3, ListsKernel, SteadyKeeps
<1>5. \A u \in Thread \ {t} : k'.err[u] = k.err[u]
  BY ListsKernel DEF Reranked, Noted
<1>6. \A q \in WaitList : t \notin Nodes(k.wait[q])
  BY <1>1, ReadyUnlisted
<1>7. ASSUME NEW q \in WaitList, NEW P, Blocking(q, P) PROVE Blocking(q, P)'
  BY <1>1, <1>2, <1>3, <1>5, <1>6, <1>7 DEF Blocking, Moves
<1>8. Blocking(LockList, Holds)' /\ Blocking(RxDone, RxSleeps)' /\ Blocking(TxDone, TxSleeps)'
  BY <1>7, SerialFacts DEF SerialLists
<1>9. \A u \in Thread : k'.armed[u] => \/ k.armed[u] /\ (u # t \/ pc'[t] \in Timed)
                                       \/ u = t /\ t = Client /\ pc'[t] \in Timed
  BY <1>1, <1>3, ReadyDisarmed
<1>10. Rooms' /\ TimersOK'
  BY <1>1, <1>2, <1>9, RoomsKept
<1> QED BY <1>1, <1>2, <1>3, <1>4, <1>8, <1>10 DEF SerialLists

\* The owner gets its own priority back.
LEMMA GivenBackOK ==
  ASSUME SerialLists, OwnedBy, NEW t \in Users, NEW j, j = GivenBack(t)
  PROVE  Sound(j) /\ Reranked(j, k)
<1>1. t \in Thread \ {Idle} /\ lock.orig \in Prio /\ Sound(k)
  BY SerialFacts, ListsKernel DEF OwnedBy
<1>2. CASE lock.orig # k.prio[t]
  <2> DEFINE p == lock.orig
  <2>1. j = ChangePriority(k, t, p) /\ p \in Prio
    BY <1>1, <1>2 DEF GivenBack
  <2> HIDE DEF p
  <2> QED BY <1>1, <2>1, RerankedOK
<1>3. CASE lock.orig = k.prio[t]
  <2>1. j = k
    BY <1>3 DEF GivenBack
  <2> QED BY <1>1, <2>1, RerankedSame
<1> QED BY <1>2, <1>3

\* The lock is handed to the first thread that waits for it.
LEMMA HandOverLists ==
  ASSUME SerialLists, OwnedBy, NEW t \in Users, NEW l, At(t, l), l \notin SerialLeaving,
         k.wait[LockList] # <<>>, NEW m \in Room(t), Goto(t, m),
         k' = rt_ipc_list_resume(GivenBack(t), LockList),
         NEW u, u = Head(k.wait[LockList])
  PROVE  /\ SerialLists' /\ Moves(SerialPC, t) /\ t \in Thread /\ k.stat[t] = "READY"
         /\ pc[t] = l /\ pc'[t] = m /\ k'.stat = [k.stat EXCEPT ![u] = "READY"]
         /\ u \in Users /\ u # t /\ u \in Thread /\ pc[u] \in Holds
<1> DEFINE h == GivenBack(t)
<1>1. t \in Thread /\ k.stat[t] = "READY" /\ pc[t] = l /\ k.cur = t /\ Sound(k)
  BY ListsKernel, RunnerReady DEF At
<1>2. Moves(SerialPC, t) /\ pc'[t] = m
  BY <1>1, RoomPC, ListsKernel, GotoMoves
<1>3. Sound(h) /\ Reranked(h, k)
  BY GivenBackOK
<1>4. u \in Nodes(k.wait[LockList]) /\ u \in Thread /\ k.stat[u] = "SUSPEND"
  BY <1>1, SerialFacts, HeadSuspended
<1> HIDE DEF h
<1>5. h.wait[LockList] = k.wait[LockList] /\ k' = rt_ipc_list_resume(h, LockList)
  BY <1>3 DEF Reranked, h
<1>6. Sound(k') /\ k'.cur = h.cur /\ Roused(k', h, u, h.err[u])
  BY <1>3, <1>5, SerialFacts, ListResumeRouses
<1>7. Freed(k', k, u)
  BY <1>1, <1>3, <1>4, <1>6, RousedFreed
<1>8. k'.stat[k'.cur] = "READY"
  BY <1>1, <1>3, <1>6, <1>7, ListsKernel DEF Freed, Reranked
<1>9. IpcOK(SerialPC, SerialSuspends, SerialLeaving)'
  BY <1>1, <1>2, <1>4, <1>6, <1>7, <1>8, ListsKernel, FreedKeeps
<1>10. SerialLists' /\ k'.stat = [k.stat EXCEPT ![u] = "READY"]
  BY <1>1, <1>2, <1>4, <1>6, <1>7, <1>9, FreedLists
<1>11. u # t
  BY <1>1, <1>4
<1>12. pc[u] \in Holds /\ u \in Users
  <2>1. pc[u] \in Holds /\ pc[u] \in Room(u)
    BY <1>4 DEF SerialLists, Blocking, Rooms
  <2> QED BY <2>1 DEF Room, Holds, Users
<1> QED BY <1>1, <1>2, <1>4, <1>10, <1>11, <1>12

\* An interrupt handler wakes u.
LEMMA IsrLists ==
  ASSUME SerialLists, NEW u \in Thread, k.stat[u] = "SUSPEND",
         NEW j, Sound(j), Roused(j, k, u, k.err[u]), k' = rt_schedule(j), pc' = pc
  PROVE  SerialLists' /\ k'.stat = [k.stat EXCEPT ![u] = "READY"]
<1>1. Sound(k') /\ Calm(k', j) /\ k'.stat[k'.cur] = "READY"
  BY ScheduleCalm
<1>2. Roused(k', k, u, k.err[u])
  BY <1>1 DEF Calm, Roused
<1>3. Freed(k', k, u)
  BY <1>1, <1>2, ListsKernel, RerankedSame, RousedFreed
<1>4. k.cur \in Thread /\ Moves(SerialPC, k.cur) /\ pc'[k.cur] = pc[k.cur]
  BY ListsKernel, StayMoves
<1>5. k.stat[k.cur] = "READY" \/ pc'[k.cur] \in SerialSuspends
  BY <1>4, ListsKernel DEF IpcOK
<1>6. IpcOK(SerialPC, SerialSuspends, SerialLeaving)'
  BY <1>1, <1>3, <1>4, <1>5, ListsKernel, FreedKeeps
<1>7. pc'[k.cur] \in Room(k.cur)
  BY <1>4 DEF SerialLists, Rooms
<1> QED BY <1>1, <1>3, <1>4, <1>6, <1>7, FreedLists

\* An interrupt handler that wakes nobody.
LEMMA IsrCalmLists ==
  ASSUME SerialLists, k' = rt_schedule(k), pc' = pc
  PROVE  SerialLists' /\ k'.stat = k.stat
<1>1. Sound(k') /\ Calm(k', k) /\ k'.stat[k'.cur] = "READY"
  BY ListsKernel, ScheduleCalm
<1>2. k.cur \in Thread /\ Moves(SerialPC, k.cur) /\ pc'[k.cur] = pc[k.cur]
  BY ListsKernel, StayMoves
<1>3. k.stat[k.cur] = "READY" \/ pc'[k.cur] \in SerialSuspends
  BY <1>2, ListsKernel DEF IpcOK
<1>4. IpcOK(SerialPC, SerialSuspends, SerialLeaving)'
  BY <1>1, <1>2, <1>3, ListsKernel, CalmKeeps
<1>5. pc'[k.cur] \in Room(k.cur)
  BY <1>2 DEF SerialLists, Rooms
<1> QED BY <1>1, <1>2, <1>4, <1>5, CalmLists DEF Calm

-----------------------------------------------------------------------------
(* The wait queue of the device: one node at most. *)

LEMMA QueueNodes ==
  ASSUME NEW x
  PROVE  /\ Append(<<>>, x) = <<x>> /\ <<x>> # <<>> /\ Nodes(<<x>>) = {x} /\ Nodes(<<>>) = {}
         /\ Unlink(<<x>>, x) = <<>> /\ \A y : Unlink(<<>>, y) = <<>>
<1>1. <<x>> \in Seq({x}) /\ Len(<<x>>) = 1 /\ <<x>>[1] = x /\ <<>> \in Seq({x}) /\ <<x>> # <<>>
  OBVIOUS
<1>2. Nodes(<<x>>) = {x} /\ Nodes(<<>>) = {}
  BY <1>1 DEF Nodes
<1>3. Injective(<<x>>)
  BY <1>1 DEF Injective
<1> DEFINE s == <<x>>
           S == {x}
<1>8. s \in Seq(S) /\ Injective(s) /\ Nodes(s) \ {x} = {}
  BY <1>1, <1>2, <1>3
<1> HIDE DEF s, S
<1>4. Unlink(s, x) \in Seq(S) /\ Nodes(Unlink(s, x)) = {}
  BY <1>8, UnlinkNodes
<1>9. Unlink(s, x) = <<>>
  BY <1>4, EmptyNodes
<1>5. Unlink(<<x>>, x) = <<>>
  BY <1>9 DEF s
<1>6. \A y : Unlink(<<>>, y) = <<>>
  BY <1>2 DEF Unlink
<1>7. Append(<<>>, x) = <<x>>
  OBVIOUS
<1> QED BY <1>1, <1>2, <1>5, <1>6, <1>7

LEMMA QueueRecord ==
  ASSUME NEW A, NEW B, NEW q \in [flag : A, nodes : B]
  PROVE  /\ \A f : [q EXCEPT !.flag = f] = [flag |-> f, nodes |-> q.nodes]
         /\ \A u : [q EXCEPT !.nodes = u] = [flag |-> q.flag, nodes |-> u]
  OBVIOUS

LEMMA MyNodes ==
  /\ WaitNode(Client) # MyNode /\ <<WaitNode(Client)>> # <<MyNode>>
  /\ WaitNode(Client).thread = Client /\ MyNode.thread = Client
  /\ Accepts(WaitNode(Client), {"IN"}) /\ Accepts(MyNode, {"IN"})
<1>1. WaitNode(Client).poll = FALSE /\ MyNode.poll = TRUE
  BY DEF WaitNode, MyNode, PollNode
<1>2. WaitNode(Client) # MyNode
  BY <1>1
<1>3. <<WaitNode(Client)>>[1] = WaitNode(Client) /\ <<MyNode>>[1] = MyNode
  OBVIOUS
<1>4. Accepts(WaitNode(Client), {"IN"})
  BY <1>1 DEF Accepts
<1>5. Accepts(MyNode, {"IN"})
  BY DEF Accepts, MyNode, PollNode
<1>6. WaitNode(Client).thread = Client /\ MyNode.thread = Client
  BY DEF WaitNode, MyNode, PollNode
<1> QED BY <1>2, <1>3, <1>4, <1>5, <1>6

\* What rt_wqueue_wakeup does with the queue and the thread of its node.
LEMMA WakeNode ==
  ASSUME NodeOK
  PROVE  /\ queue.nodes = <<>> => /\ WokenQueue(queue, {"IN"}) = [queue EXCEPT !.flag = TRUE]
                                  /\ WokenKernel(k, queue, {"IN"}) = k
         /\ queue.nodes # <<>> => /\ WokenQueue(queue, {"IN"}) = [flag |-> TRUE, nodes |-> <<>>]
                                  /\ WokenKernel(k, queue, {"IN"}) = rt_thread_resume(k, Client)
<1>0. queue \in [flag : BOOLEAN, nodes : NodeLists]
  BY DEF NodeOK
<1>1. CASE queue.nodes = <<>>
  <2>1. Accepting(queue, {"IN"}) = {}
    BY <1>1 DEF Accepting
  <2> QED BY <1>1, <2>1, QueueNodes DEF WokenQueue, WokenKernel
<1>2. ASSUME NEW x, x \in {WaitNode(Client), MyNode}, queue.nodes = <<x>>
      PROVE  /\ WokenQueue(queue, {"IN"}) = [flag |-> TRUE, nodes |-> <<>>]
             /\ WokenKernel(k, queue, {"IN"}) = rt_thread_resume(k, Client)
  <2>1. Len(queue.nodes) = 1 /\ queue.nodes[1] = x /\ x.thread = Client /\ Accepts(x, {"IN"})
    BY <1>2, MyNodes
  <2>2. Accepting(queue, {"IN"}) = {1}
    BY <2>1 DEF Accepting
  <2>3. Picked(queue, {"IN"}) = x
    <3> DEFINE c == CHOOSE i \in Accepting(queue, {"IN"}) :
                      \A j \in Accepting(queue, {"IN"}) : i <= j
    <3>1. c = 1
      BY <2>2
    <3> HIDE DEF c
    <3>2. Picked(queue, {"IN"}) = queue.nodes[c]
      BY DEF Picked, c
    <3> QED BY <2>1, <3>1, <3>2
  <2>4. WokenQueue(queue, {"IN"}) = rt_wqueue_remove([queue EXCEPT !.flag = TRUE], x)
    BY <2>2, <2>3 DEF WokenQueue
  <2>5. rt_wqueue_remove([queue EXCEPT !.flag = TRUE], x)
          = [flag |-> TRUE, nodes |-> Unlink(queue.nodes, x)]
    <3> DEFINE q == [queue EXCEPT !.flag = TRUE]
               u == Unlink(queue.nodes, x)
    <3>1. q = [flag |-> TRUE, nodes |-> queue.nodes]
      BY <1>0, QueueRecord
    <3>2. Unlink(q.nodes, x) = u
      BY <3>1
    <3> HIDE DEF q, u
    <3>3. rt_wqueue_remove(q, x) = [q EXCEPT !.nodes = u]
      BY <3>2, Zenon DEF rt_wqueue_remove
    <3> QED BY <3>1, <3>3 DEF q, u
  <2>6. Unlink(queue.nodes, x) = <<>>
    BY <1>2, QueueNodes
  <2>7. WokenKernel(k, queue, {"IN"}) = rt_thread_resume(k, Client)
    BY <2>1, <2>2, <2>3 DEF WokenKernel
  <2> QED BY <2>4, <2>5, <2>6, <2>7
<1>3. queue.nodes # <<>> => queue.nodes = <<WaitNode(Client)>> \/ queue.nodes = <<MyNode>>
  BY <1>0 DEF NodeLists
<1>4. queue.nodes = <<WaitNode(Client)>> \/ queue.nodes = <<MyNode>> =>
        /\ WokenQueue(queue, {"IN"}) = [flag |-> TRUE, nodes |-> <<>>]
        /\ WokenKernel(k, queue, {"IN"}) = rt_thread_resume(k, Client)
  BY <1>2
<1> QED BY <1>1, <1>3, <1>4

-----------------------------------------------------------------------------
(* What a step leaves alone. *)

LEMMA OwnedKept ==
  ASSUME OwnedBy, lock' = lock, pt.triggered => pt'.triggered \/ pc'[Client] \notin Holds,
         \A u \in Users : k'.stat[u] = "READY" /\ pc'[u] \in Holds =>
           \/ k.stat[u] = "READY" /\ pc[u] \in Holds
           \/ u = Client /\ pt'.triggered
  PROVE  OwnedBy'
  BY DEF OwnedBy

\* A step of t out of the lock's control points, or on while it is suspended.
LEMMA OthersOwned ==
  ASSUME SerialLists, OwnedBy, NEW t \in Thread, Moves(SerialPC, t), lock' = lock,
         pt.triggered => pt'.triggered \/ pc'[Client] \notin Holds,
         \A u \in Thread \ {t} : k'.stat[u] = k.stat[u],
         \/ k'.stat[t] = "SUSPEND"
         \/ pc'[t] \notin Holds
         \/ k'.stat[t] = k.stat[t] /\ pc[t] \in Holds
  PROVE  OwnedBy'
<1>1. \A u \in Users : k'.stat[u] = "READY" /\ pc'[u] \in Holds =>
         k.stat[u] = "READY" /\ pc[u] \in Holds
  BY SerialFacts DEF Moves
<1> QED BY <1>1, OwnedKept

\* A step that does not concern the client.
LEMMA ClientSame ==
  ASSUME NodeOK, TxOK, LeftOK, UNCHANGED <<done, queue, uart, pt, local>>,
         pc'[Client] = pc[Client], pc[Client] \in TxSleeps => k'.stat[Client] = k.stat[Client]
  PROVE  NodeOK' /\ TxOK' /\ LeftOK'
<1>1. UNCHANGED <<done, queue, uart, pt, left, time>> /\ MyNode' = MyNode
  BY DEF local, MyNode
<1>2. NodeOK'
  BY <1>1 DEF NodeOK
<1>3. TxOK'
  BY <1>1 DEF TxOK
<1>4. LeftOK'
  BY <1>1 DEF LeftOK
<1> QED BY <1>2, <1>3, <1>4

\* A step of the client outside rt_serial_write.
LEMMA TxIdle ==
  ASSUME TxOK, pc[Client] \notin TxWaits, pc'[Client] \notin TxSleeps,
         done' \in [Completions -> 0 .. UINT_MAX], done'[TxDone] = done[TxDone],
         uart' \in [full : BOOLEAN, etbei : BOOLEAN], uart'.etbei = uart.etbei
  PROVE  TxOK'
<1>1. done[TxDone] = 0 /\ ~uart.etbei
  BY DEF TxOK
<1> QED BY <1>1 DEF TxOK

\* The client goes on without the kernel.
LEMMA StillState ==
  ASSUME SerialState, NEW l, At(Client, l), l \notin SerialLeaving, k' = k,
         NEW m \in ClientPC, Goto(Client, m), m \notin Holds, lock' = lock,
         pc[Client] = l /\ pc'[Client] = m => NodeOK' /\ TxOK' /\ LeftOK'
  PROVE  SerialState'
<1>1. m \in Room(Client)
  BY DEF Room
<1>2. /\ SerialLists' /\ Moves(SerialPC, Client) /\ Client \in Thread
      /\ pc[Client] = l /\ pc'[Client] = m /\ k'.stat = k.stat
  BY <1>1, StillLists DEF SerialState
<1>3. OwnedBy'
  BY <1>2, OthersOwned DEF SerialState
<1> QED BY <1>2, <1>3 DEF SerialState

\* What the other wait queue operations do with that node.
LEMMA QueueSteps ==
  ASSUME NodeOK
  PROVE  /\ [queue EXCEPT !.flag = FALSE] = [flag |-> FALSE, nodes |-> queue.nodes]
         /\ queue.nodes = <<>> =>
              \A x : rt_wqueue_add(queue, x) = [flag |-> queue.flag, nodes |-> <<x>>]
         /\ queue.nodes # <<WaitNode(Client)>> =>
              rt_wqueue_remove(queue, MyNode) = [flag |-> queue.flag, nodes |-> <<>>]
         /\ queue.nodes # <<MyNode>> =>
              rt_wqueue_remove([queue EXCEPT !.flag = FALSE], WaitNode(Client))
                = [flag |-> FALSE, nodes |-> <<>>]
<1>0. queue \in [flag : BOOLEAN, nodes : NodeLists]
  BY DEF NodeOK
<1> DEFINE q == [queue EXCEPT !.flag = FALSE]
<1>1. q = [flag |-> FALSE, nodes |-> queue.nodes]
  BY <1>0, QueueRecord, ZenonT(30)
<1>2. \A u : [queue EXCEPT !.nodes = u] = [flag |-> queue.flag, nodes |-> u]
  BY <1>0, QueueRecord
<1>3. q.nodes = queue.nodes /\ \A u : [q EXCEPT !.nodes = u] = [flag |-> FALSE, nodes |-> u]
  <2>1. q \in [flag : BOOLEAN, nodes : NodeLists] /\ q.flag = FALSE /\ q.nodes = queue.nodes
    BY <1>0, <1>1
  <2> HIDE DEF q
  <2>2. \A u : [q EXCEPT !.nodes = u] = [flag |-> q.flag, nodes |-> u]
    BY <2>1, QueueRecord
  <2> QED BY <2>1, <2>2, Zenon
<1> HIDE DEF q
<1>4. ASSUME queue.nodes = <<>>, NEW x
      PROVE  rt_wqueue_add(queue, x) = [flag |-> queue.flag, nodes |-> <<x>>]
  <2>1. Append(queue.nodes, x) = <<x>>
    BY <1>4, QueueNodes
  <2>2. rt_wqueue_add(queue, x) = [queue EXCEPT !.nodes = <<x>>]
    BY <2>1, Zenon DEF rt_wqueue_add
  <2> QED BY <1>2, <2>2
<1>5. ASSUME queue.nodes # <<WaitNode(Client)>>
      PROVE  rt_wqueue_remove(queue, MyNode) = [flag |-> queue.flag, nodes |-> <<>>]
  <2>1. Unlink(queue.nodes, MyNode) = <<>>
    BY <1>0, <1>5, QueueNodes DEF NodeLists
  <2>2. rt_wqueue_remove(queue, MyNode) = [queue EXCEPT !.nodes = <<>>]
    BY <2>1, Zenon DEF rt_wqueue_remove
  <2> QED BY <1>2, <2>2
<1>6. ASSUME queue.nodes # <<MyNode>>
      PROVE  rt_wqueue_remove(q, WaitNode(Client)) = [flag |-> FALSE, nodes |-> <<>>]
  <2>1. Unlink(q.nodes, WaitNode(Client)) = <<>>
    BY <1>0, <1>3, <1>6, QueueNodes DEF NodeLists
  <2>2. rt_wqueue_remove(q, WaitNode(Client)) = [q EXCEPT !.nodes = <<>>]
    BY <2>1, Zenon DEF rt_wqueue_remove
  <2> QED BY <1>3, <2>2
<1> QED BY <1>1, <1>4, <1>5, <1>6 DEF q

\* The node is not the step's business.
LEMMA NodeKept ==
  ASSUME NodeOK, queue' = queue,
         pt' \in [triggered : BOOLEAN, proc : BOOLEAN, num : BOOLEAN, istimeout : BOOLEAN],
         queue.nodes = <<WaitNode(Client)>> => pc'[Client] \in {"r_sleep", "r_woken"},
         queue.nodes = <<MyNode>> => pc'[Client] \in Polling /\ (pc'[Client] \in Early => ~pt'.proc),
         pc'[Client] \in {"p_wait", "p_sleep", "p_woken"} => ~pt'.proc
  PROVE  NodeOK'
<1>1. MyNode' = MyNode /\ NodeLists' = NodeLists
  BY DEF MyNode, NodeLists
<1> QED BY <1>1 DEF NodeOK

\* Outside the waits of a read and outside poll() no node is linked.
LEMMA NoNode ==
  ASSUME NodeOK, pc[Client] \notin Polling \cup {"r_sleep", "r_woken"}
  PROVE  queue.nodes = <<>>
  BY DEF NodeOK, NodeLists

LEMMA NodeEmpty ==
  ASSUME queue'.nodes = <<>>, queue'.flag \in BOOLEAN,
         queue' = [flag |-> queue'.flag, nodes |-> queue'.nodes],
         pt' \in [triggered : BOOLEAN, proc : BOOLEAN, num : BOOLEAN, istimeout : BOOLEAN],
         pc'[Client] \in {"p_wait", "p_sleep", "p_woken"} => ~pt'.proc
  PROVE  NodeOK'
<1>1. queue'.nodes \in NodeLists'
  BY DEF NodeLists
<1>2. queue' \in [flag : BOOLEAN, nodes : NodeLists']
  BY <1>1
<1>3. queue'.nodes # <<WaitNode(Client)>> /\ queue'.nodes # <<MyNode>>
  BY QueueNodes
<1>4. MyNode' = MyNode
  BY DEF MyNode
<1> QED BY <1>2, <1>3, <1>4 DEF NodeOK

-----------------------------------------------------------------------------
(* read() *)

Inert == {"run", "r_dev", "r_init", "r_cwait", "r_byte", "r_more", "r_wait"}

\* A step of a call or return that reads.
LEMMA ReadState ==
  ASSUME SerialState, NEW l \in Inert \cup {"r_cwoken"}, At(Client, l), k' = k, NEW m \in Inert,
         Goto(Client, m), UNCHANGED <<lock, queue, uart, pt>>,
         done' \in [Completions -> 0 .. UINT_MAX], done'[TxDone] = done[TxDone],
         left' \in 0 .. MaxCount, time' \in Time, m # "run" => left' # 0
  PROVE  SerialState'
<1>1. l \notin SerialLeaving /\ m \in ClientPC /\ m \notin Holds
  BY DEF Inert, SerialLeaving, ClientPC, Holds
<1>2. ASSUME pc[Client] = l, pc'[Client] = m PROVE NodeOK' /\ TxOK' /\ LeftOK'
  <2>1. NodeOK'
    BY <1>2, NodeKept, NoNode, QueueNodes DEF SerialState, NodeOK, Inert, Polling, Early
  <2>2. TxOK'
    BY <1>2, TxIdle DEF SerialState, TxOK, Inert, TxWaits, TxSleeps
  <2>3. LeftOK'
    BY <1>2 DEF LeftOK, Inert
  <2> QED BY <2>1, <2>2, <2>3
<1> QED BY <1>1, <1>2, StillState

LEMMA ReadCallState ==
  ASSUME SerialState, NEW n \in 1 .. MaxCount, NEW wait \in {"NO", "FOREVER"}, ReadCall(n, wait)
  PROVE  SerialState'
<1>1. /\ At(Client, "run") /\ Goto(Client, "r_dev") /\ k' = k
      /\ UNCHANGED <<lock, done, queue, uart, pt>> /\ left' = n /\ time' = wait
  BY DEF ReadCall, Call
<1>2. left' \in 0 .. MaxCount /\ time' \in Time /\ left' # 0
  BY <1>1, SerialAssumption DEF Time
<1>3. "run" \in Inert /\ "r_dev" \in Inert
  BY DEF Inert
<1> QED BY <1>1, <1>2, <1>3, ReadState DEF SerialState, TxOK

LEMMA ReadEnterState == ASSUME SerialState, ReadEnter PROVE SerialState'
<1> DEFINE m == IF rx.get = rx.put THEN "r_init" ELSE "r_byte"
<1>1. /\ At(Client, "r_dev") /\ Goto(Client, m) /\ k' = k
      /\ UNCHANGED <<lock, done, queue, uart, pt, left, time>>
  BY DEF ReadEnter, Inside, local
<1>2. "r_dev" \in Inert /\ m \in Inert /\ m # "run"
  BY DEF Inert
<1>3. left' \in 0 .. MaxCount /\ time' \in Time /\ left' # 0
  BY <1>1 DEF SerialState, LeftOK, At
<1> HIDE DEF m
<1> QED BY <1>1, <1>2, <1>3, ReadState DEF SerialState, TxOK

LEMMA ReadByteState == ASSUME SerialState, ReadByte PROVE SerialState'
<1> DEFINE l == pc[Client]
           m == IF left = 1 THEN "run" ELSE "r_more"
<1>1. /\ l \in {"r_byte", "r_more"} /\ At(Client, l) /\ Goto(Client, m) /\ k' = k
      /\ UNCHANGED <<lock, done, queue, uart, pt>> /\ left' = left - 1
      /\ time' = (IF left = 1 THEN "NO" ELSE time)
  BY DEF ReadByte, Inside
<1>2. l \in Inert /\ m \in Inert
  BY <1>1 DEF Inert
<1>3. left \in 0 .. MaxCount /\ time \in Time /\ left # 0 /\ MaxCount \in Nat
  BY <1>1, SerialAssumption DEF SerialState, LeftOK
<1>4. left' \in 0 .. MaxCount /\ time' \in Time /\ (m # "run" => left' # 0)
  BY <1>1, <1>3 DEF Time
<1> HIDE DEF l, m
<1> QED BY <1>1, <1>2, <1>4, ReadState DEF SerialState, TxOK

LEMMA ReadEmptyState == ASSUME SerialState, ReadEmpty PROVE SerialState'
<1> DEFINE l == pc[Client]
           m == IF pc[Client] = "r_more" \/ time = "NO" THEN "run" ELSE "r_wait"
<1>1. /\ l \in {"r_byte", "r_more"} /\ At(Client, l) /\ Goto(Client, m) /\ k' = k
      /\ UNCHANGED <<lock, done, queue, uart, pt>>
      /\ IF pc'[Client] = "run" THEN left' = 0 /\ time' = "NO" ELSE UNCHANGED <<left, time>>
  BY DEF ReadEmpty, Inside, local
<1>2. l \in Inert /\ m \in Inert
  BY <1>1 DEF Inert
<1>3. left \in 0 .. MaxCount /\ time \in Time /\ left # 0 /\ MaxCount \in Nat
  BY <1>1, SerialAssumption DEF SerialState, LeftOK
<1>4. pc'[Client] = m
  BY <1>1, SerialFacts, ListsKernel DEF Goto, SerialState
<1>5. left' \in 0 .. MaxCount /\ time' \in Time /\ (m # "run" => left' # 0)
  BY <1>1, <1>3, <1>4 DEF Time
<1> HIDE DEF l, m
<1> QED BY <1>1, <1>2, <1>5, ReadState DEF SerialState, TxOK

\* How a completion's counter changes.
LEMMA DoneType ==
  ASSUME TxOK, NEW c \in Completions
  PROVE  /\ [done EXCEPT ![c] = 0] \in [Completions -> 0 .. UINT_MAX]
         /\ [done EXCEPT ![c] = Counted(@)] \in [Completions -> 0 .. UINT_MAX]
         /\ done[c] > 0 => [done EXCEPT ![c] = Consumed(@)] \in [Completions -> 0 .. UINT_MAX]
         /\ done[c] \in 0 .. UINT_MAX /\ UINT_MAX \in Nat /\ UINT_MAX > 1
<1>1. done \in [Completions -> 0 .. UINT_MAX] /\ UINT_MAX \in Nat /\ UINT_MAX > 1
  BY CompletionAssumption DEF TxOK
<1>2. done[c] \in 0 .. UINT_MAX
  BY <1>1
<1>3. Counted(done[c]) \in 0 .. UINT_MAX /\ (done[c] > 0 => Consumed(done[c]) \in 0 .. UINT_MAX)
  BY <1>1, <1>2 DEF Counted, Consumed
<1> QED BY <1>1, <1>2, <1>3

LEMMA Both == RxDone \in Completions /\ TxDone \in Completions /\ RxDone # TxDone
  BY SerialAssumption

\* The client suspends itself outside rt_serial_write.
LEMMA RestState ==
  ASSUME SerialState, SerialLists', Moves(SerialPC, Client), NEW l, NEW m, pc[Client] = l,
         pc'[Client] = m, l \notin TxWaits, m \notin TxWaits,
         k'.stat = [k.stat EXCEPT ![Client] = "SUSPEND"], UNCHANGED <<lock, done, uart, pt, local>>,
         NodeOK', m \in {"r_csleep", "r_sleep"} => left # 0,
         m \in {"r_csleep", "r_sleep", "p_sleep"}
  PROVE  SerialState'
<1>1. Client \in Thread /\ k'.stat[Client] = "SUSPEND"
      /\ \A u \in Thread \ {Client} : k'.stat[u] = k.stat[u]
  BY SerialFacts, ListsKernel DEF SerialState
<1>2. OwnedBy'
  BY <1>1, OthersOwned DEF SerialState
<1>3. TxOK'
  BY TxIdle DEF SerialState, TxOK, TxSleeps, TxWaits
<1>4. LeftOK'
  BY DEF SerialState, LeftOK, local
<1> QED BY <1>2, <1>3, <1>4 DEF SerialState

LEMMA ReadSuspendState == ASSUME SerialState, ReadSuspend PROVE SerialState'
<1>0. UNCHANGED <<lock, queue, uart, pt, left, time>> /\ UNCHANGED local
  BY DEF ReadSuspend, local
<1>1. CASE rt_completion_init(Client, RxDone, "r_init", "r_cwait")
  <2>1. /\ At(Client, "r_init") /\ Goto(Client, "r_cwait") /\ done' = [done EXCEPT ![RxDone] = 0]
        /\ k' = [k EXCEPT !.wait[RxDone] = <<>>]
    BY <1>1 DEF rt_completion_init
  <2>2. k.wait[RxDone] = <<>>
    <3>1. \A t \in Thread : pc[t] \notin RxSleeps
      <4>1. \A t \in Thread \ {Client} : pc[t] \in LockerPC
        BY DEF SerialState, SerialLists, Rooms, Room, LockerPC
      <4> QED BY <2>1, <4>1 DEF At, RxSleeps, LockerPC
    <3>2. Nodes(k.wait[RxDone]) = {}
      BY <3>1 DEF SerialState, SerialLists, Blocking
    <3>3. k.wait[RxDone] \in Seq(Thread)
      BY SerialFacts, ListsKernel DEF SerialState, KernelState
    <3> QED BY <3>2, <3>3, EmptyNodes
  <2>3. k' = k
    <3>1. k \in KernelState
      BY ListsKernel DEF SerialState
    <3> QED BY <2>1, <2>2, <3>1, SerialFacts DEF KernelState
  <2>4. "r_init" \in Inert \cup {"r_cwoken"} /\ "r_cwait" \in Inert
    BY DEF Inert
  <2>5. /\ left' \in 0 .. MaxCount /\ time' \in Time /\ left' # 0
        /\ done' \in [Completions -> 0 .. UINT_MAX] /\ done'[TxDone] = done[TxDone]
    BY <1>0, <2>1, Both, DoneType DEF SerialState, LeftOK, At, TxOK
  <2> QED BY <1>0, <2>1, <2>3, <2>4, <2>5, ReadState
<1>2. CASE CompletionWait(Client, RxDone, "TICKS", "r_cwait", "r_csleep", "r_byte")
  <2>1. At(Client, "r_cwait") /\ left \in 0 .. MaxCount /\ time \in Time /\ left # 0
    BY <1>2 DEF CompletionWait, SerialState, LeftOK, At
  <2>2. CASE done[RxDone] > 0
    <3>1. /\ done' = [done EXCEPT ![RxDone] = Consumed(@)] /\ k' = k /\ Goto(Client, "r_byte")
      BY <1>2, <2>2 DEF CompletionWait
    <3>2. done' \in [Completions -> 0 .. UINT_MAX] /\ done'[TxDone] = done[TxDone]
      BY <2>2, <3>1, Both, DoneType DEF SerialState, TxOK
    <3>3. "r_cwait" \in Inert \cup {"r_cwoken"} /\ "r_byte" \in Inert
      BY DEF Inert
    <3> QED BY <1>0, <2>1, <3>1, <3>2, <3>3, ReadState
  <2>3. CASE ~(done[RxDone] > 0)
    <3> DEFINE time0 == "TICKS"
    <3>1. k' = Block(k, RxDone, Client, "FIFO", time0) /\ done' = done /\ Goto(Client, "r_csleep")
      BY <1>2, <2>3 DEF CompletionWait
    <3> HIDE DEF time0
    <3>2. /\ SerialLists' /\ Moves(SerialPC, Client) /\ pc[Client] = "r_cwait"
          /\ pc'[Client] = "r_csleep" /\ k'.stat = [k.stat EXCEPT ![Client] = "SUSPEND"]
      BY <2>1, <3>1, CompletionLists DEF SerialState, SerialLeaving
    <3>3. NodeOK'
      BY <1>0, <3>2, NodeKept, NoNode, QueueNodes DEF SerialState, NodeOK, Polling, Early
    <3> QED BY <1>0, <2>1, <3>1, <3>2, <3>3, RestState DEF TxWaits, TxSleeps
  <2> QED BY <2>2, <2>3
<1>3. CASE CompletionWoken(Client, RxDone, "r_cwoken", "r_byte")
  <2>1. /\ At(Client, "r_cwoken") /\ Goto(Client, "r_byte") /\ k' = k
        /\ done' = IF done[RxDone] > 0 THEN [done EXCEPT ![RxDone] = Consumed(@)] ELSE done
    BY <1>3 DEF CompletionWoken
  <2>2. done' \in [Completions -> 0 .. UINT_MAX] /\ done'[TxDone] = done[TxDone]
    BY <2>1, Both, DoneType DEF SerialState, TxOK
  <2>3. left' \in 0 .. MaxCount /\ time' \in Time /\ left' # 0
    BY <1>0, <2>1 DEF SerialState, LeftOK, At
  <2>4. "r_cwoken" \in Inert \cup {"r_cwoken"} /\ "r_byte" \in Inert
    BY DEF Inert
  <2> QED BY <1>0, <2>1, <2>2, <2>3, <2>4, ReadState
<1> QED BY <1>1, <1>2, <1>3 DEF ReadSuspend

LEMMA ReadWaitState == ASSUME SerialState, ReadWait PROVE SerialState'
<1>1. /\ At(Client, "r_wait") /\ UNCHANGED <<lock, done, uart, pt, local, left, time>>
      /\ left # 0 /\ pc[Client] = "r_wait"
  BY DEF ReadWait, SerialState, LeftOK, At, local
<1>2. queue.nodes = <<>> /\ queue.flag \in BOOLEAN
  BY <1>1, NoNode DEF SerialState, NodeOK, Polling, Early
<1>3. CASE queue.flag
  <2>1. queue' = [flag |-> FALSE, nodes |-> <<>>] /\ k' = k /\ Goto(Client, "r_dev")
    BY <1>2, <1>3, QueueSteps DEF ReadWait, SerialState
  <2>2. "r_wait" \notin SerialLeaving /\ "r_dev" \in ClientPC /\ "r_dev" \notin Holds
    BY DEF SerialLeaving, ClientPC, Holds
  <2>3. ASSUME pc[Client] = "r_wait", pc'[Client] = "r_dev" PROVE NodeOK' /\ TxOK' /\ LeftOK'
    <3>1. NodeOK'
      BY <1>1, <2>1, <2>3, NodeEmpty DEF SerialState, NodeOK
    <3>2. TxOK'
      BY <1>1, <2>3, TxIdle DEF SerialState, TxOK, TxSleeps, TxWaits
    <3>3. LeftOK'
      BY <1>1 DEF SerialState, LeftOK
    <3> QED BY <3>1, <3>2, <3>3
  <2> QED BY <1>1, <2>1, <2>2, <2>3, StillState
<1>4. CASE ~queue.flag
  <2>1. /\ queue' = [flag |-> queue.flag, nodes |-> <<WaitNode(Client)>>]
        /\ k' = rt_thread_suspend(k, Client) /\ Goto(Client, "r_sleep")
    BY <1>2, <1>4, QueueSteps DEF ReadWait, SerialState
  <2>2. /\ SerialLists' /\ Moves(SerialPC, Client) /\ pc'[Client] = "r_sleep"
        /\ k'.stat = [k.stat EXCEPT ![Client] = "SUSPEND"]
    BY <1>1, <2>1, SleepLists DEF SerialState, SerialLeaving
  <2>3. NodeOK'
    <3>1. <<WaitNode(Client)>> \in NodeLists'
      BY DEF NodeLists
    <3>2. queue' \in [flag : BOOLEAN, nodes : NodeLists'] /\ queue'.nodes = <<WaitNode(Client)>>
      BY <1>2, <2>1, <3>1
    <3>3. queue'.nodes # <<MyNode>>' /\ pt' = pt
      BY <1>1, <3>2, MyNodes DEF MyNode
    <3> QED BY <2>2, <3>2, <3>3 DEF NodeOK, SerialState
  <2> QED BY <1>1, <2>2, <2>3, RestState DEF TxWaits, TxSleeps
<1> QED BY <1>3, <1>4

LEMMA ReadWokenState == ASSUME SerialState, ReadWoken PROVE SerialState'
<1>1. /\ At(Client, "r_woken") /\ UNCHANGED <<lock, done, uart, pt, local, left, time>>
      /\ left # 0 /\ pc[Client] = "r_woken" /\ k' = k /\ Goto(Client, "r_dev")
  BY DEF ReadWoken, Inside, SerialState, LeftOK, At, local
<1>2. queue' = [flag |-> FALSE, nodes |-> <<>>]
  <2>1. queue.nodes # <<MyNode>>
    BY <1>1 DEF SerialState, NodeOK, Polling, Early
  <2> QED BY <2>1, QueueSteps DEF ReadWoken, SerialState
<1>3. "r_woken" \notin SerialLeaving /\ "r_dev" \in ClientPC /\ "r_dev" \notin Holds
  BY DEF SerialLeaving, ClientPC, Holds
<1>4. ASSUME pc[Client] = "r_woken", pc'[Client] = "r_dev" PROVE NodeOK' /\ TxOK' /\ LeftOK'
  <2>1. NodeOK'
    BY <1>1, <1>2, <1>4, NodeEmpty DEF SerialState, NodeOK
  <2>2. TxOK'
    BY <1>1, <1>4, TxIdle DEF SerialState, TxOK, TxSleeps, TxWaits
  <2>3. LeftOK'
    BY <1>1 DEF SerialState, LeftOK
  <2> QED BY <2>1, <2>2, <2>3
<1> QED BY <1>1, <1>3, <1>4, StillState

-----------------------------------------------------------------------------
(* write() *)

\* A step of a write that leaves the kernel alone.
LEMMA WriteState ==
  ASSUME SerialState, NEW l \in {"run", "t_put", "t_irq", "t_cwait", "t_cwoken"}, At(Client, l),
         k' = k, NEW m \in {"run", "t_put", "t_irq", "t_cwait"}, Goto(Client, m),
         UNCHANGED <<lock, queue, pt, time>>, left' \in 0 .. MaxCount, m # "run" => left' # 0,
         pc[Client] = l /\ pc'[Client] = m => TxOK'
  PROVE  SerialState'
<1>1. l \notin SerialLeaving /\ m \in ClientPC /\ m \notin Holds
  BY DEF SerialLeaving, ClientPC, Holds
<1>2. ASSUME pc[Client] = l, pc'[Client] = m PROVE NodeOK' /\ TxOK' /\ LeftOK'
  <2>1. NodeOK'
    BY <1>2, NodeKept, NoNode, QueueNodes DEF SerialState, NodeOK, Polling, Early
  <2>2. LeftOK'
    BY <1>2 DEF SerialState, LeftOK
  <2> QED BY <1>2, <2>1, <2>2
<1> QED BY <1>1, <1>2, StillState

LEMMA WriteCallState ==
  ASSUME SerialState, NEW n \in 1 .. MaxCount, WriteCall(n) PROVE SerialState'
<1>1. /\ At(Client, "run") /\ Goto(Client, "t_put") /\ k' = k
      /\ UNCHANGED <<lock, done, queue, uart, pt, time>> /\ left' = n
  BY DEF WriteCall, Call
<1>2. left' \in 0 .. MaxCount /\ left' # 0
  BY <1>1, SerialAssumption
<1>3. ASSUME pc[Client] = "run", pc'[Client] = "t_put" PROVE TxOK'
  BY <1>1, <1>3, TxIdle DEF SerialState, TxOK, TxSleeps, TxWaits
<1> QED BY <1>1, <1>2, <1>3, WriteState

LEMMA WriteByteState == ASSUME SerialState, WriteByte PROVE SerialState'
<1> DEFINE m == CASE uart.full -> "t_irq" [] ~uart.full /\ left = 1 -> "run" [] OTHER -> "t_put"
<1>1. /\ At(Client, "t_put") /\ Goto(Client, m) /\ k' = k
      /\ UNCHANGED <<lock, done, queue, pt, time>>
      /\ \/ uart.full /\ uart' = uart /\ left' = left
         \/ ~uart.full /\ left' = left - 1 /\ \E f \in BOOLEAN : uart' = [uart EXCEPT !.full = f]
  BY DEF WriteByte, Inside
<1>2. left \in 0 .. MaxCount /\ left # 0 /\ MaxCount \in Nat /\ uart.full \in BOOLEAN
  BY <1>1, SerialAssumption DEF SerialState, LeftOK, TxOK, At
<1>3. /\ m \in {"run", "t_put", "t_irq", "t_cwait"} /\ left' \in 0 .. MaxCount
      /\ m # "run" => left' # 0
  <2>1. CASE uart.full
    BY <1>1, <1>2, <2>1
  <2>2. CASE ~uart.full /\ left = 1
    BY <1>1, <1>2, <2>2
  <2>3. CASE ~uart.full /\ left # 1
    BY <1>1, <1>2, <2>3
  <2> QED BY <2>1, <2>2, <2>3
<1>4. uart' \in [full : BOOLEAN, etbei : BOOLEAN] /\ uart'.etbei = uart.etbei
  BY <1>1 DEF SerialState, TxOK
<1> HIDE DEF m
<1>5. ASSUME pc[Client] = "t_put", pc'[Client] = m PROVE TxOK'
  BY <1>1, <1>3, <1>4, <1>5, TxIdle DEF SerialState, TxOK, TxSleeps, TxWaits
<1> QED BY <1>1, <1>3, <1>5, WriteState

LEMMA WriteIrqState == ASSUME SerialState, WriteIrq PROVE SerialState'
<1>1. /\ At(Client, "t_irq") /\ Goto(Client, "t_cwait") /\ k' = k
      /\ UNCHANGED <<lock, done, queue, pt, left, time>>
      /\ uart' = [uart EXCEPT !.etbei = TRUE]
  BY DEF WriteIrq, Inside, local
<1>2. left' \in 0 .. MaxCount /\ left' # 0
  BY <1>1 DEF SerialState, LeftOK, At
<1>3. ASSUME pc[Client] = "t_irq", pc'[Client] = "t_cwait" PROVE TxOK'
  BY <1>1, <1>3 DEF SerialState, TxOK, TxSleeps, TxWaits
<1> QED BY <1>1, <1>2, <1>3, WriteState

LEMMA WriteSuspendState == ASSUME SerialState, WriteSuspend PROVE SerialState'
<1>0. UNCHANGED <<lock, queue, uart, pt, left, time>> /\ UNCHANGED local
  BY DEF WriteSuspend, local
<1>00. done \in [Completions -> 0 .. UINT_MAX] /\ done[TxDone] \in 0 .. 1 /\ UINT_MAX > 1
  BY Both, DoneType DEF SerialState, TxOK
<1>1. CASE CompletionWait(Client, TxDone, "FOREVER", "t_cwait", "t_csleep", "t_put")
  <2>1. /\ At(Client, "t_cwait") /\ left \in 0 .. MaxCount /\ left # 0
    BY <1>1 DEF CompletionWait, SerialState, LeftOK, At
  <2>2. CASE done[TxDone] > 0
    <3>1. /\ done' = [done EXCEPT ![TxDone] = Consumed(@)] /\ k' = k /\ Goto(Client, "t_put")
      BY <1>1, <2>2 DEF CompletionWait
    <3>2. done' \in [Completions -> 0 .. UINT_MAX] /\ done'[TxDone] = 0 /\ done[TxDone] = 1
      BY <1>00, <2>2, <3>1, Both, DoneType DEF SerialState, Consumed
    <3>3. ASSUME pc[Client] = "t_cwait", pc'[Client] = "t_put" PROVE TxOK'
      BY <1>0, <3>2, <3>3 DEF SerialState, TxOK, TxSleeps, TxWaits
    <3> QED BY <1>0, <2>1, <3>1, <3>3, WriteState
  <2>3. CASE ~(done[TxDone] > 0)
    <3> DEFINE time0 == "FOREVER"
    <3>1. /\ k' = Block(k, TxDone, Client, "FIFO", time0) /\ done' = done
          /\ Goto(Client, "t_csleep") /\ time0 = "FOREVER"
      BY <1>1, <2>3 DEF CompletionWait
    <3> HIDE DEF time0
    <3>2. /\ SerialLists' /\ Moves(SerialPC, Client) /\ pc[Client] = "t_cwait"
          /\ pc'[Client] = "t_csleep" /\ k'.stat = [k.stat EXCEPT ![Client] = "SUSPEND"]
      BY <2>1, <3>1, CompletionLists DEF SerialState, SerialLeaving
    <3>3. NodeOK'
      BY <1>0, <3>2, NodeKept, NoNode, QueueNodes DEF SerialState, NodeOK, Polling, Early
    <3>4. /\ Client \in Thread /\ k'.stat[Client] = "SUSPEND"
          /\ \A u \in Thread \ {Client} : k'.stat[u] = k.stat[u]
      BY <3>2, SerialFacts, ListsKernel DEF SerialState
    <3>5. OwnedBy'
      BY <1>0, <3>2, <3>4, OthersOwned DEF SerialState
    <3>6. done[TxDone] = 0
      BY <1>00, <2>3
    <3>7. TxOK'
      BY <1>0, <3>1, <3>2, <3>4, <3>6 DEF SerialState, TxOK, TxSleeps, TxWaits
    <3>8. LeftOK'
      BY <1>0, <2>1 DEF SerialState, LeftOK
    <3> QED BY <3>2, <3>3, <3>5, <3>7, <3>8 DEF SerialState
  <2> QED BY <2>2, <2>3
<1>2. CASE CompletionWoken(Client, TxDone, "t_cwoken", "t_put")
  <2>1. /\ At(Client, "t_cwoken") /\ Goto(Client, "t_put") /\ k' = k
        /\ done' = IF done[TxDone] > 0 THEN [done EXCEPT ![TxDone] = Consumed(@)] ELSE done
    BY <1>2 DEF CompletionWoken
  <2>2. k.stat[Client] = "READY" /\ pc[Client] = "t_cwoken"
    BY <2>1, ListsKernel, RunnerReady DEF SerialState, SerialLeaving
  <2>3. done[TxDone] = 1 /\ ~uart.etbei
    BY <1>00, <2>2 DEF SerialState, TxOK, TxSleeps
  <2>4. done' \in [Completions -> 0 .. UINT_MAX] /\ done'[TxDone] = 0
    BY <1>00, <2>1, <2>3, Both, DoneType DEF SerialState, Consumed
  <2>5. ASSUME pc[Client] = "t_cwoken", pc'[Client] = "t_put" PROVE TxOK'
    BY <1>0, <2>3, <2>4, <2>5 DEF SerialState, TxOK, TxSleeps, TxWaits
  <2>6. left' \in 0 .. MaxCount /\ left' # 0
    BY <1>0, <2>2 DEF SerialState, LeftOK
  <2> QED BY <1>0, <2>1, <2>5, <2>6, WriteState
<1> QED BY <1>1, <1>2 DEF WriteSuspend

-----------------------------------------------------------------------------
(* poll() *)

\* A step of a poll that leaves the kernel alone.
LEMMA PollState ==
  ASSUME SerialState, NEW l \in {"run"} \cup (Polling \ SerialLeaving), At(Client, l),
         k' = k, NEW m \in {"run"} \cup (Polling \ Holds), Goto(Client, m),
         UNCHANGED <<lock, done, uart, left>>, time' \in Time,
         pc[Client] = l /\ pc'[Client] = m => NodeOK'
  PROVE  SerialState'
<1>1. l \notin SerialLeaving /\ m \in ClientPC /\ m \notin Holds
  BY DEF SerialLeaving, ClientPC, Holds, Polling, Early
<1>2. ASSUME pc[Client] = l, pc'[Client] = m PROVE NodeOK' /\ TxOK' /\ LeftOK'
  <2>1. l \notin TxWaits /\ m \notin TxWaits /\ m \notin TxSleeps
    BY DEF TxWaits, TxSleeps, Polling, Early
  <2>2. TxOK'
    BY <1>2, <2>1, TxIdle DEF SerialState, TxOK
  <2>3. LeftOK'
    BY <1>2 DEF SerialState, LeftOK, Polling, Early
  <2> QED BY <1>2, <2>2, <2>3
<1> QED BY <1>1, <1>2, StillState

PollType == [triggered : BOOLEAN, proc : BOOLEAN, num : BOOLEAN, istimeout : BOOLEAN]

LEMMA PollCallState ==
  ASSUME SerialState, NEW msec \in Time, PollCall(msec) PROVE SerialState'
<1>1. /\ At(Client, "run") /\ Goto(Client, "p_get") /\ k' = k
      /\ UNCHANGED <<lock, done, queue, uart, left>> /\ time' = msec
      /\ pt' = [NoPoll EXCEPT !.proc = (msec # "NO"), !.istimeout = (msec = "NO")]
  BY DEF PollCall, Call
<1>2. pt' \in PollType
  BY <1>1 DEF NoPoll, PollType
<1>3. ASSUME pc[Client] = "run", pc'[Client] = "p_get" PROVE NodeOK'
  BY <1>1, <1>2, <1>3, NoNode, NodeKept, QueueNodes DEF SerialState, PollType, Polling, Early
<1>4. "run" \in {"run"} \cup (Polling \ SerialLeaving) /\ "p_get" \in {"run"} \cup (Polling \ Holds)
  BY DEF Polling, Early, Holds, SerialLeaving
<1> QED BY <1>1, <1>3, <1>4, PollState

LEMMA PollAddState == ASSUME SerialState, PollAdd PROVE SerialState'
<1>1. /\ At(Client, "p_add") /\ Goto(Client, "p_look") /\ k' = k /\ pc[Client] = "p_add"
      /\ UNCHANGED <<lock, done, uart, pt, left, time>>
      /\ queue' = IF pt.proc THEN rt_wqueue_add(queue, MyNode) ELSE queue
  BY DEF PollAdd, Inside, local, At
<1>2. ASSUME pc'[Client] = "p_look" PROVE NodeOK'
  <2>1. CASE ~pt.proc
    BY <1>1, <1>2, <2>1, NodeKept DEF SerialState, NodeOK, Polling, Early
  <2>2. CASE pt.proc
    <3>1. queue.nodes = <<>> /\ queue.flag \in BOOLEAN
      BY <1>1, <2>2 DEF SerialState, NodeOK, NodeLists, Early
    <3>2. queue' = [flag |-> queue.flag, nodes |-> <<MyNode>>]
      BY <1>1, <2>2, <3>1, QueueSteps DEF SerialState
    <3>3. <<MyNode>> \in NodeLists' /\ MyNode' = MyNode
      BY DEF NodeLists, MyNode
    <3>4. queue' \in [flag : BOOLEAN, nodes : NodeLists'] /\ queue'.nodes = <<MyNode>>
      BY <3>1, <3>2, <3>3
    <3>5. queue'.nodes # <<WaitNode(Client)>>
      BY <3>4, MyNodes
    <3> QED BY <1>1, <1>2, <3>3, <3>4, <3>5 DEF NodeOK, SerialState, Polling, Early
  <2> QED BY <2>1, <2>2
<1>3. "p_add" \in {"run"} \cup (Polling \ SerialLeaving) /\ "p_look" \in {"run"} \cup (Polling \ Holds)
  BY DEF Polling, Early, Holds, SerialLeaving
<1>4. time' \in Time
  BY <1>1 DEF SerialState, LeftOK
<1> QED BY <1>1, <1>2, <1>3, <1>4, PollState

LEMMA PollLookState == ASSUME SerialState, PollLook PROVE SerialState'
<1>1. /\ At(Client, "p_look") /\ Goto(Client, "p_put") /\ k' = k /\ pc[Client] = "p_look"
      /\ UNCHANGED <<lock, done, queue, uart, left, time>> /\ pt' = [pt EXCEPT !.num = ~Empty]
  BY DEF PollLook, Inside, local, At
<1>2. Empty \in BOOLEAN
  BY DEF Empty
<1>3. pt' \in PollType /\ pt'.proc = pt.proc
  BY <1>1, <1>2 DEF SerialState, NodeOK, PollType
<1>4. ASSUME pc'[Client] = "p_put" PROVE NodeOK'
  BY <1>1, <1>3, <1>4, NodeKept DEF SerialState, NodeOK, PollType, Polling, Early
<1>5. "p_look" \in {"run"} \cup (Polling \ SerialLeaving) /\ "p_put" \in {"run"} \cup (Polling \ Holds)
  BY DEF Polling, Early, Holds, SerialLeaving
<1>6. time' \in Time
  BY <1>1 DEF SerialState, LeftOK
<1> QED BY <1>1, <1>4, <1>5, <1>6, PollState

LEMMA PollNextState == ASSUME SerialState, PollNext PROVE SerialState'
<1> DEFINE m == IF pt.num \/ pt.istimeout THEN "p_down" ELSE "p_wait"
<1>1. /\ At(Client, "p_next") /\ Goto(Client, m) /\ k' = k /\ pc[Client] = "p_next"
      /\ UNCHANGED <<lock, done, queue, uart, left, time>> /\ pt' = [pt EXCEPT !.proc = FALSE]
      /\ m \in {"p_down", "p_wait"}
  BY DEF PollNext, Inside, local, At
<1> HIDE DEF m
<1>3. pt' \in PollType /\ pt'.proc = FALSE
  BY <1>1 DEF SerialState, NodeOK, PollType
<1>4. ASSUME pc'[Client] = m PROVE NodeOK'
  BY <1>1, <1>3, <1>4, NodeKept DEF SerialState, NodeOK, PollType, Polling, Early
<1>5. "p_next" \in {"run"} \cup (Polling \ SerialLeaving) /\ m \in {"run"} \cup (Polling \ Holds)
  BY <1>1 DEF Polling, Early, Holds, SerialLeaving
<1>6. time' \in Time
  BY <1>1 DEF SerialState, LeftOK
<1> QED BY <1>1, <1>4, <1>5, <1>6, PollState

LEMMA PollWaitState == ASSUME SerialState, PollWait PROVE SerialState'
<1>1. /\ At(Client, "p_wait") /\ UNCHANGED <<lock, done, queue, uart, pt, local, left, time>>
      /\ pc[Client] = "p_wait" /\ ~pt.proc
  BY DEF PollWait, local, At, SerialState, NodeOK
<1>2. CASE pt.triggered
  <2>1. k' = k /\ Goto(Client, "p_get")
    BY <1>2 DEF PollWait
  <2>2. ASSUME pc'[Client] = "p_get" PROVE NodeOK'
    BY <1>1, <2>2, NodeKept DEF SerialState, NodeOK, Polling, Early
  <2>3. "p_wait" \in {"run"} \cup (Polling \ SerialLeaving) /\ "p_get" \in {"run"} \cup (Polling \ Holds)
    BY DEF Polling, Early, Holds, SerialLeaving
  <2>4. time' \in Time
    BY <1>1 DEF SerialState, LeftOK
  <2> QED BY <1>1, <2>1, <2>2, <2>3, <2>4, PollState
<1>3. CASE ~pt.triggered
  <2>1. /\ Goto(Client, "p_sleep")
        /\ k' = rt_thread_suspend(k, Client) \/ k' = Started(rt_thread_suspend(k, Client), Client)
    BY <1>3 DEF PollWait
  <2>2. /\ SerialLists' /\ Moves(SerialPC, Client) /\ pc'[Client] = "p_sleep"
        /\ k'.stat = [k.stat EXCEPT ![Client] = "SUSPEND"]
    BY <1>1, <2>1, SleepLists DEF SerialState, SerialLeaving
  <2>3. NodeOK'
    BY <1>1, <2>2, NodeKept DEF SerialState, NodeOK, Polling, Early
  <2> QED BY <1>1, <2>2, <2>3, RestState DEF TxWaits, TxSleeps
<1> QED BY <1>2, <1>3

LEMMA PollWokenState == ASSUME SerialState, PollWoken PROVE SerialState'
<1>1. /\ At(Client, "p_woken") /\ Goto(Client, "p_get") /\ k' = k /\ pc[Client] = "p_woken"
      /\ UNCHANGED <<lock, done, queue, uart, left, time>>
      /\ pt' = [pt EXCEPT !.istimeout = ~pt.triggered]
  BY DEF PollWoken, Inside, local, At
<1>3. pt' \in PollType /\ pt'.proc = FALSE
  BY <1>1 DEF SerialState, NodeOK, PollType
<1>4. ASSUME pc'[Client] = "p_get" PROVE NodeOK'
  BY <1>1, <1>3, <1>4, NodeKept DEF SerialState, NodeOK, PollType, Polling, Early
<1>5. "p_woken" \in {"run"} \cup (Polling \ SerialLeaving) /\ "p_get" \in {"run"} \cup (Polling \ Holds)
  BY DEF Polling, Early, Holds, SerialLeaving
<1>6. time' \in Time
  BY <1>1 DEF SerialState, LeftOK
<1> QED BY <1>1, <1>4, <1>5, <1>6, PollState

LEMMA TeardownState == ASSUME SerialState, poll_teardown PROVE SerialState'
<1>1. /\ At(Client, "p_down") /\ Goto(Client, "run") /\ k' = k /\ pc[Client] = "p_down"
      /\ UNCHANGED <<lock, done, uart, left>> /\ time' = "NO" /\ pt' = NoPoll
  BY DEF poll_teardown, Inside, At
<1>2. queue' = [flag |-> queue.flag, nodes |-> <<>>] /\ queue.flag \in BOOLEAN
  <2>1. queue.nodes # <<WaitNode(Client)>> /\ queue.flag \in BOOLEAN
    BY <1>1 DEF SerialState, NodeOK
  <2> QED BY <2>1, QueueSteps DEF poll_teardown, SerialState
<1>3. pt' \in PollType /\ time' \in Time
  BY <1>1 DEF PollType, NoPoll, Time
<1>4. ASSUME pc'[Client] = "run" PROVE NodeOK'
  BY <1>2, <1>3, <1>4, NodeEmpty DEF PollType
<1>5. "p_down" \in {"run"} \cup (Polling \ SerialLeaving) /\ "run" \in {"run"} \cup (Polling \ Holds)
  BY DEF Polling, Early, Holds, SerialLeaving
<1> QED BY <1>1, <1>3, <1>4, <1>5, PollState

-----------------------------------------------------------------------------
(* The file system lock. *)

\* A step of poll() that goes on to m, or a step of another thread.
Along(t, l, m) ==
  t = Client => /\ l \in Polling /\ m \in Polling /\ (m \in Early => l \in Early)
                /\ m \notin {"p_wait", "p_sleep", "p_woken"}

LEMMA AlongKeeps ==
  ASSUME SerialState, NEW t \in Thread, Moves(SerialPC, t), NEW l, NEW m, pc[t] = l, pc'[t] = m,
         Along(t, l, m), UNCHANGED <<done, queue, uart, pt, local>>,
         t # Client /\ pc[Client] \in TxSleeps => k'.stat[Client] = k.stat[Client]
  PROVE  NodeOK' /\ TxOK' /\ LeftOK'
<1>1. UNCHANGED <<done, queue, uart, pt, left, time>>
  BY DEF local
<1>2. CASE t # Client
  <2>1. pc'[Client] = pc[Client]
    BY <1>2, SerialFacts DEF Moves
  <2> QED BY <1>2, <2>1, ClientSame DEF SerialState
<1>3. CASE t = Client
  <2>1. /\ l \in Polling /\ m \in Polling /\ (m \in Early => l \in Early)
        /\ m \notin {"p_wait", "p_sleep", "p_woken"}
    BY <1>3 DEF Along
  <2>2. NodeOK'
    BY <1>1, <1>3, <2>1, NodeKept DEF SerialState, NodeOK, Polling, Early
  <2>3. l \notin TxWaits /\ m \notin TxSleeps
    BY <2>1 DEF TxWaits, TxSleeps, Polling, Early
  <2>4. TxOK'
    BY <1>1, <1>3, <2>3, TxIdle DEF SerialState, TxOK
  <2>5. LeftOK'
    BY <1>1, <1>3, <2>1 DEF SerialState, LeftOK, Polling, Early
  <2> QED BY <2>2, <2>4, <2>5
<1> QED BY <1>2, <1>3

\* t becomes the owner, or nobody is.
LEMMA OwnerSet ==
  ASSUME SerialLists, OwnedBy, NEW t \in Users, Moves(SerialPC, t), pt' = pt,
         NEW u \in Users \cup {RT_NULL}, NEW p \in Prio, lock' = [owner |-> u, orig |-> p],
         lock.owner \in {t, RT_NULL},
         \A v \in Users : k'.stat[v] = "READY" => k.stat[v] = "READY" \/ v = u,
         u # t => pc'[t] \notin Holds
  PROVE  OwnedBy'
<1>1. lock'.owner = u /\ lock' \in [owner : Users \cup {RT_NULL}, orig : Prio]
  OBVIOUS
<1>2. ASSUME NEW v \in Users, k'.stat[v] = "READY", pc'[v] \in Holds
      PROVE  u = v \/ (v = Client /\ pt.triggered)
  <2>1. CASE v = t
    BY <1>2, <2>1
  <2>2. CASE v # t /\ v # u
    <3>1. pc'[v] = pc[v] /\ k.stat[v] = "READY" /\ v \in Thread
      BY <1>2, <2>2, SerialFacts DEF Moves
    <3>2. lock.owner = v \/ (v = Client /\ pt.triggered)
      BY <1>2, <3>1 DEF OwnedBy
    <3> QED BY <2>2, <3>1, <3>2, SerialFacts
  <2> QED BY <2>1, <2>2
<1> QED BY <1>1, <1>2 DEF OwnedBy

LEMMA TakeState ==
  ASSUME SerialState, NEW t \in Users, NEW l, l \notin SerialLeaving, NEW w \in Room(t),
         w \in SerialLeaving \cap Holds, NEW m \in Room(t), m \in Holds, LockTake(t, l, w, m),
         Along(t, l, w), Along(t, l, m), UNCHANGED <<done, queue, uart, pt, local>>
  PROVE  SerialState'
<1>0. At(t, l) /\ pt' = pt /\ SerialLists /\ OwnedBy
  BY DEF LockTake, SerialState
<1>1. CASE lock.owner = RT_NULL
  <2>1. k' = SetErr(k, t, RT_EOK) /\ lock' = LockedBy(k, t) /\ Goto(t, m) /\ RT_EOK \in ErrNo
    BY <1>1 DEF LockTake, ErrNo
  <2>2. t \in Thread /\ k.prio[t] \in Prio /\ Sound(k)
    BY <1>0, SerialFacts, ListsKernel
  <2>3. Sound(k') /\ Noted(k', k, t, RT_EOK)
    BY <2>1, <2>2, NotedOK
  <2>4. /\ SerialLists' /\ Moves(SerialPC, t) /\ pc[t] = l /\ pc'[t] = m /\ k'.stat = k.stat
    BY <1>0, <2>1, <2>3, SteadyLists
  <2>5. OwnedBy'
    <3> DEFINE p == k.prio[t]
    <3>1. lock' = [owner |-> t, orig |-> p] /\ t \in Users \cup {RT_NULL} /\ p \in Prio
      BY <2>1, <2>2 DEF LockedBy
    <3> HIDE DEF p
    <3> QED BY <1>0, <1>1, <2>4, <3>1, OwnerSet
  <2>6. NodeOK' /\ TxOK' /\ LeftOK'
    BY <2>2, <2>4, AlongKeeps
  <2> QED BY <2>4, <2>5, <2>6 DEF SerialState
<1>2. CASE lock.owner # RT_NULL
  <2>1. /\ k' = Block(Inherited(t), LockList, t, "PRIO", "FOREVER") /\ lock' = lock /\ Goto(t, w)
    BY <1>2 DEF LockTake
  <2>2. /\ SerialLists' /\ Moves(SerialPC, t) /\ t \in Thread /\ pc[t] = l /\ pc'[t] = w
        /\ k'.stat = [k.stat EXCEPT ![t] = "SUSPEND"]
    BY <1>0, <1>2, <2>1, TakeWaitLists
  <2>3. k'.stat[t] = "SUSPEND" /\ \A u \in Thread \ {t} : k'.stat[u] = k.stat[u]
    BY <1>0, <2>2, ListsKernel
  <2>4. OwnedBy'
    BY <1>0, <2>1, <2>2, <2>3, OthersOwned
  <2>5. t # Client => k'.stat[Client] = k.stat[Client]
    BY <2>3, SerialFacts
  <2>6. NodeOK' /\ TxOK' /\ LeftOK'
    BY <2>2, <2>5, AlongKeeps
  <2> QED BY <2>2, <2>4, <2>6 DEF SerialState
<1> QED BY <1>1, <1>2

LEMMA ReleaseState ==
  ASSUME SerialState, NEW t \in Users, NEW l, l \notin SerialLeaving, NEW s \in Room(t),
         s \notin Holds, NEW m \in Room(t), m \notin Holds, LockRelease(t, l, s, m),
         Along(t, l, s), Along(t, l, m), UNCHANGED <<done, queue, uart, pt, local>>
  PROVE  SerialState'
<1>0. /\ At(t, l) /\ pt' = pt /\ SerialLists /\ OwnedBy /\ t \in Thread /\ Sound(k)
      /\ k.stat \in [Thread -> Stat]
  BY SerialFacts, ListsKernel DEF LockRelease, SerialState
<1>1. CASE ~Owns(t)
  <2>1. k' = SetErr(k, t, RT_ERROR) /\ lock' = lock /\ Goto(t, m) /\ RT_ERROR \in ErrNo
    BY <1>1 DEF LockRelease, ErrNo
  <2>3. Sound(k') /\ Noted(k', k, t, RT_ERROR)
    BY <1>0, <2>1, NotedOK
  <2>4. /\ SerialLists' /\ Moves(SerialPC, t) /\ pc[t] = l /\ pc'[t] = m /\ k'.stat = k.stat
    BY <1>0, <2>1, <2>3, SteadyLists
  <2>5. OwnedBy'
    BY <1>0, <2>1, <2>4, OthersOwned
  <2>6. NodeOK' /\ TxOK' /\ LeftOK'
    BY <1>0, <2>4, AlongKeeps
  <2> QED BY <2>4, <2>5, <2>6 DEF SerialState
<1>2. CASE Owns(t) /\ k.wait[LockList] = <<>>
  <2>1. k' = GivenBack(t) /\ lock' = Unlocked /\ Goto(t, m)
    BY <1>2 DEF LockRelease
  <2>2. Sound(k') /\ Reranked(k', k)
    BY <1>0, <2>1, GivenBackOK
  <2>4. /\ SerialLists' /\ Moves(SerialPC, t) /\ pc[t] = l /\ pc'[t] = m /\ k'.stat = k.stat
    BY <1>0, <2>1, <2>2, SteadyLists
  <2>5. OwnedBy'
    <3> DEFINE p == RT_THREAD_PRIORITY_MAX - 1
    <3>1. lock' = [owner |-> RT_NULL, orig |-> p] /\ RT_NULL \in Users \cup {RT_NULL}
      BY <2>1 DEF Unlocked
    <3>2. p \in Prio
      BY KernelAssumption DEF Prio, RT_THREAD_PRIORITY_MAX
    <3>3. lock.owner \in {t, RT_NULL}
      BY <1>2 DEF Owns
    <3> HIDE DEF p
    <3> QED BY <1>0, <2>4, <3>1, <3>2, <3>3, OwnerSet
  <2>6. NodeOK' /\ TxOK' /\ LeftOK'
    BY <1>0, <2>4, AlongKeeps
  <2> QED BY <2>4, <2>5, <2>6 DEF SerialState
<1>3. CASE Owns(t) /\ k.wait[LockList] # <<>>
  <2> DEFINE u == Head(k.wait[LockList])
             j == GivenBack(t)
  <2>1. k' = rt_ipc_list_resume(j, LockList) /\ lock' = LockedBy(j, u) /\ Goto(t, s)
    BY <1>3 DEF LockRelease
  <2>2. /\ SerialLists' /\ Moves(SerialPC, t) /\ pc[t] = l /\ pc'[t] = s
        /\ k'.stat = [k.stat EXCEPT ![u] = "READY"]
        /\ u \in Users /\ u # t /\ u \in Thread /\ pc[u] \in Holds
    BY <1>0, <1>3, <2>1, HandOverLists
  <2>3. Sound(j)
    BY <1>0, GivenBackOK
  <2> HIDE DEF u, j
  <2>4. j.prio[u] \in Prio
    BY <2>2, <2>3, CurThread DEF KernelState
  <2>5. OwnedBy'
    <3> DEFINE p == j.prio[u]
    <3>1. lock' = [owner |-> u, orig |-> p] /\ u \in Users \cup {RT_NULL} /\ p \in Prio
      BY <2>1, <2>2, <2>4 DEF LockedBy
    <3> HIDE DEF p
    <3>2. \A v \in Users : k'.stat[v] = "READY" => k.stat[v] = "READY" \/ v = u
      BY <1>0, <2>2, SerialFacts
    <3>3. lock.owner \in {t, RT_NULL}
      BY <1>3 DEF Owns
    <3> QED BY <1>0, <2>2, <3>1, <3>2, <3>3, OwnerSet
  <2>6. pc[Client] \in TxSleeps => k'.stat[Client] = k.stat[Client]
    BY <1>0, <2>2, SerialFacts DEF Holds, TxSleeps
  <2>7. NodeOK' /\ TxOK' /\ LeftOK'
    BY <1>0, <2>2, <2>6, AlongKeeps
  <2> QED BY <2>2, <2>5, <2>7 DEF SerialState
<1> QED BY <1>1, <1>2, <1>3

LEMMA PollLockState == ASSUME SerialState, PollLock PROVE SerialState'
<1>1. UNCHANGED <<done, queue, uart, pt, local>> /\ Client \in Users
  BY DEF PollLock, Users
<1>2. CASE LockTake(Client, "p_get", "p_getting", "p_got")
  BY <1>1, <1>2, TakeState DEF Along, Polling, Early, Room, ClientPC, Holds, SerialLeaving
<1>3. CASE LockTake(Client, "p_put", "p_putting", "p_hold")
  BY <1>1, <1>3, TakeState DEF Along, Polling, Early, Room, ClientPC, Holds, SerialLeaving
<1>4. CASE LockRelease(Client, "p_got", "p_gots", "p_add")
  BY <1>1, <1>4, ReleaseState DEF Along, Polling, Early, Room, ClientPC, Holds, SerialLeaving
<1>5. CASE LockRelease(Client, "p_hold", "p_holds", "p_next")
  BY <1>1, <1>5, ReleaseState DEF Along, Polling, Early, Room, ClientPC, Holds, SerialLeaving
<1> QED BY <1>2, <1>3, <1>4, <1>5 DEF PollLock

LEMMA LockerState ==
  ASSUME SerialState, NEW t \in Thread, LockCall(t) \/ Unlock(t) PROVE SerialState'
<1>1. UNCHANGED <<done, queue, uart, pt, local>> /\ t \in Users /\ t \in Lockers /\ t # Client
  BY SerialFacts DEF LockCall, Unlock, Users
<1>2. {"l_taking", "l_hold", "l_sched", "run"} \subseteq Room(t)
  BY <1>1 DEF Room, LockerPC
<1>3. CASE LockCall(t)
  <2>1. LockTake(t, "run", "l_taking", "l_hold")
    BY <1>3 DEF LockCall
  <2> QED BY <1>1, <1>2, <2>1, TakeState DEF Along, Holds, SerialLeaving
<1>4. CASE Unlock(t)
  <2>1. LockRelease(t, "l_hold", "l_sched", "run")
    BY <1>4 DEF Unlock
  <2> QED BY <1>1, <1>2, <2>1, ReleaseState DEF Along, Holds, SerialLeaving
<1> QED BY <1>3, <1>4

-----------------------------------------------------------------------------
(* Interrupts, ticks and rt_schedule(). *)

\* Nobody but the client waits for a completion.
LEMMA OnlyClient ==
  ASSUME SerialLists, NEW q \in WaitList \ {Defunct}, NEW P, Blocking(q, P), P \cap LockerPC = {}
  PROVE  /\ k.wait[q] # <<>> => /\ Head(k.wait[q]) = Client /\ pc[Client] \in P
                                /\ k.stat[Client] = "SUSPEND"
         /\ k.wait[q] = <<>> => ~(pc[Client] \in P /\ k.stat[Client] = "SUSPEND")
<1>1. \A t \in Thread \ {Client} : pc[t] \in LockerPC
  BY DEF SerialLists, Rooms, Room, LockerPC
<1>2. Nodes(k.wait[q]) = {t \in Thread : pc[t] \in P /\ k.stat[t] = "SUSPEND"}
  BY DEF Blocking
<1>3. ASSUME k.wait[q] # <<>>
      PROVE  Head(k.wait[q]) = Client /\ pc[Client] \in P /\ k.stat[Client] = "SUSPEND"
  <2>1. Head(k.wait[q]) \in Nodes(k.wait[q]) /\ Head(k.wait[q]) \in Thread
    BY <1>3, ListsKernel, HeadSuspended
  <2> QED BY <1>1, <1>2, <2>1
<1>4. ASSUME k.wait[q] = <<>> PROVE ~(pc[Client] \in P /\ k.stat[Client] = "SUSPEND")
  <2>1. Nodes(k.wait[q]) = {}
    BY <1>4 DEF Nodes
  <2> QED BY <1>2, <2>1, SerialFacts
<1> QED BY <1>3, <1>4

LEMMA CompletionClient ==
  ASSUME SerialLists
  PROVE  /\ k.wait[RxDone] # <<>> => /\ Head(k.wait[RxDone]) = Client /\ pc[Client] \in RxSleeps
                                     /\ k.stat[Client] = "SUSPEND"
         /\ k.wait[RxDone] = <<>> => ~(pc[Client] \in RxSleeps /\ k.stat[Client] = "SUSPEND")
         /\ k.wait[TxDone] # <<>> => /\ Head(k.wait[TxDone]) = Client /\ pc[Client] \in TxSleeps
                                     /\ k.stat[Client] = "SUSPEND"
         /\ k.wait[TxDone] = <<>> => ~(pc[Client] \in TxSleeps /\ k.stat[Client] = "SUSPEND")
<1>1. RxSleeps \cap LockerPC = {} /\ TxSleeps \cap LockerPC = {}
  BY DEF RxSleeps, TxSleeps, LockerPC
<1>2. Blocking(RxDone, RxSleeps) /\ Blocking(TxDone, TxSleeps)
  BY DEF SerialLists
<1>3. RxDone \in WaitList \ {Defunct} /\ TxDone \in WaitList \ {Defunct}
  BY SerialFacts
<1>4. /\ k.wait[RxDone] # <<>> => /\ Head(k.wait[RxDone]) = Client /\ pc[Client] \in RxSleeps
                                  /\ k.stat[Client] = "SUSPEND"
      /\ k.wait[RxDone] = <<>> => ~(pc[Client] \in RxSleeps /\ k.stat[Client] = "SUSPEND")
  BY <1>1, <1>2, <1>3, OnlyClient
<1>5. /\ k.wait[TxDone] # <<>> => /\ Head(k.wait[TxDone]) = Client /\ pc[Client] \in TxSleeps
                                  /\ k.stat[Client] = "SUSPEND"
      /\ k.wait[TxDone] = <<>> => ~(pc[Client] \in TxSleeps /\ k.stat[Client] = "SUSPEND")
  BY <1>1, <1>2, <1>3, OnlyClient
<1> QED BY <1>4, <1>5

\* rt_completion_done with rt_schedule() after it.
LEMMA DoneLists ==
  ASSUME SerialLists, NEW q \in {RxDone, TxDone}, k' = rt_schedule(DoneKernel(k, q)), pc' = pc
  PROVE  /\ SerialLists'
         /\ k.wait[q] = <<>> => k'.stat = k.stat
         /\ k.wait[q] # <<>> => k'.stat = [k.stat EXCEPT ![Client] = "READY"]
<1>1. CASE k.wait[q] = <<>>
  <2>1. k' = rt_schedule(k)
    BY <1>1 DEF DoneKernel
  <2> QED BY <1>1, <2>1, IsrCalmLists
<1>2. CASE k.wait[q] # <<>>
  <2> DEFINE j == rt_ipc_list_resume(k, q)
  <2>1. k' = rt_schedule(j)
    BY <1>2 DEF DoneKernel
  <2>2. q \in WaitList \ {Defunct} /\ Sound(k) /\ Client \in Thread
    BY SerialFacts, ListsKernel
  <2>3. Head(k.wait[q]) = Client /\ k.stat[Client] = "SUSPEND"
    BY <1>2, CompletionClient
  <2>4. Sound(j) /\ Roused(j, k, Client, k.err[Client])
    BY <1>2, <2>2, <2>3, ListResumeRouses
  <2> HIDE DEF j
  <2> QED BY <1>2, <2>1, <2>2, <2>3, <2>4, IsrLists
<1> QED BY <1>1, <1>2

\* rt_wqueue_wakeup of the client's node, when it does not wait for the completion too.
LEMMA WakeLists ==
  ASSUME SerialLists, k' = rt_schedule(DoneKernel(rt_thread_resume(k, Client), RxDone)), pc' = pc,
         k.wait[RxDone] = <<>>
  PROVE  SerialLists' /\ \A u \in Thread \ {Client} : k'.stat[u] = k.stat[u]
<1> DEFINE j == rt_thread_resume(k, Client)
<1>1. Client \in Thread /\ Sound(k) /\ RxDone \in WaitList
  BY SerialFacts, ListsKernel
<1>2. CASE k.stat[Client] = "SUSPEND"
  <2>1. Sound(j) /\ Roused(j, k, Client, k.err[Client])
    BY <1>1, <1>2, ResumeRouses
  <2> HIDE DEF j
  <2>2. j.wait[RxDone] = <<>>
    BY <1>1, <2>1, RousedLists
  <2>3. k' = rt_schedule(j)
    BY <2>2 DEF DoneKernel, j
  <2>4. SerialLists' /\ k'.stat = [k.stat EXCEPT ![Client] = "READY"]
    BY <1>1, <1>2, <2>1, <2>3, IsrLists
  <2> QED BY <2>4, ListsKernel
<1>3. CASE k.stat[Client] # "SUSPEND"
  <2>1. j = k
    BY <1>3 DEF rt_thread_resume
  <2> HIDE DEF j
  <2>2. k' = rt_schedule(k)
    BY <2>1 DEF DoneKernel, j
  <2> QED BY <2>2, IsrCalmLists
<1> QED BY <1>2, <1>3

LEMMA IsrRxState ==
  ASSUME SerialState, NEW n, IsrRx(n) PROVE SerialState'
<1>1. /\ queue' = WokenQueue(queue, {"IN"}) /\ done' = DoneFlag(RxDone) /\ pc' = pc /\ lock' = lock
      /\ k' = rt_schedule(DoneKernel(WokenKernel(k, queue, {"IN"}), RxDone))
      /\ pt' = [pt EXCEPT !.triggered = @ \/ MyNode \in Nodes(queue.nodes)]
      /\ UNCHANGED <<uart, left, time>>
  BY DEF IsrRx, local
<1>2. /\ pt' \in [triggered : BOOLEAN, proc : BOOLEAN, num : BOOLEAN, istimeout : BOOLEAN]
      /\ pt'.proc = pt.proc /\ (pt.triggered => pt'.triggered)
      /\ queue.nodes = <<MyNode>> => pt'.triggered
  <2> DEFINE b == MyNode \in Nodes(queue.nodes)
  <2>1. b \in BOOLEAN /\ (queue.nodes = <<MyNode>> => b)
    <3>1. Nodes(<<MyNode>>) = {MyNode}
      BY QueueNodes
    <3>2. b \in BOOLEAN
      OBVIOUS
    <3>3. queue.nodes = <<MyNode>> => b
      BY <3>1, Zenon
    <3> QED BY <3>2, <3>3
  <2>2. /\ pt \in [triggered : BOOLEAN, proc : BOOLEAN, num : BOOLEAN, istimeout : BOOLEAN]
        /\ pt' = [pt EXCEPT !.triggered = @ \/ b]
    BY <1>1 DEF SerialState, NodeOK
  <2> HIDE DEF b
  <2> QED BY <2>1, <2>2
<1>3. queue' = [flag |-> TRUE, nodes |-> <<>>]
  <2>1. queue \in [flag : BOOLEAN, nodes : NodeLists]
    BY DEF SerialState, NodeOK
  <2>2. \A f : [queue EXCEPT !.flag = f] = [flag |-> f, nodes |-> queue.nodes]
    BY <2>1, QueueRecord
  <2> QED BY <1>1, <2>2, WakeNode DEF SerialState
<1>4. /\ SerialLists'
      /\ \A u \in Thread \ {Client} : k'.stat[u] = k.stat[u]
      /\ pc[Client] \in TxSleeps \cup Holds /\ queue.nodes = <<>> =>
           k'.stat[Client] = k.stat[Client]
  <2>1. CASE queue.nodes = <<>>
    <3>1. k' = rt_schedule(DoneKernel(k, RxDone))
      BY <1>1, <2>1, WakeNode DEF SerialState
    <3>2. /\ SerialLists'
          /\ k.wait[RxDone] = <<>> => k'.stat = k.stat
          /\ k.wait[RxDone] # <<>> => k'.stat = [k.stat EXCEPT ![Client] = "READY"]
      BY <1>1, <3>1, DoneLists DEF SerialState
    <3>3. k.wait[RxDone] # <<>> => pc[Client] \in RxSleeps
      BY CompletionClient DEF SerialState
    <3> QED BY <3>2, <3>3, ListsKernel DEF SerialState, RxSleeps, TxSleeps, Holds
  <2>2. CASE queue.nodes # <<>>
    <3>1. k' = rt_schedule(DoneKernel(rt_thread_resume(k, Client), RxDone))
      BY <1>1, <2>2, WakeNode DEF SerialState
    <3>2. pc[Client] \in Polling \cup {"r_sleep", "r_woken"}
      BY <2>2, NoNode DEF SerialState
    <3>3. k.wait[RxDone] = <<>>
      BY <3>2, CompletionClient DEF SerialState, Polling, Early, RxSleeps
    <3> QED BY <1>1, <2>2, <3>1, <3>3, WakeLists DEF SerialState
  <2> QED BY <2>1, <2>2
<1>5. OwnedBy'
  <2>1. \A u \in Users : k'.stat[u] = "READY" /\ pc'[u] \in Holds =>
          \/ k.stat[u] = "READY" /\ pc[u] \in Holds
          \/ u = Client /\ pt'.triggered
    <3>1. ASSUME pc[Client] \in Holds PROVE queue.nodes = <<>> \/ pt'.triggered
      <4>1. queue.nodes # <<WaitNode(Client)>>
        BY <3>1 DEF SerialState, NodeOK, Holds
      <4>2. queue.nodes \in NodeLists
        BY DEF SerialState, NodeOK
      <4> QED BY <1>2, <4>1, <4>2 DEF NodeLists
    <3> QED BY <1>1, <1>4, <3>1, SerialFacts
  <2> QED BY <1>1, <1>2, <2>1, OwnedKept DEF SerialState
<1>6. NodeOK'
  <2>1. pc'[Client] \in {"p_wait", "p_sleep", "p_woken"} => ~pt'.proc
    BY <1>1, <1>2 DEF SerialState, NodeOK
  <2>2. /\ queue'.nodes = <<>> /\ queue'.flag \in BOOLEAN
        /\ queue' = [flag |-> queue'.flag, nodes |-> queue'.nodes]
    BY <1>3
  <2> QED BY <1>2, <2>1, <2>2, NodeEmpty
<1>7. TxOK'
  <2>1. done' \in [Completions -> 0 .. UINT_MAX] /\ done'[TxDone] = done[TxDone]
    BY <1>1, Both, DoneType DEF SerialState, TxOK, DoneFlag
  <2>2. pc[Client] \in TxSleeps => k'.stat[Client] = k.stat[Client]
    BY <1>4, NoNode DEF SerialState, TxSleeps, Polling, Early
  <2> QED BY <1>1, <2>1, <2>2 DEF SerialState, TxOK
<1>8. LeftOK'
  BY <1>1 DEF SerialState, LeftOK
<1> QED BY <1>4, <1>5, <1>6, <1>7, <1>8 DEF SerialState

LEMMA UartSendsState == ASSUME SerialState, UartSends PROVE SerialState'
<1>1. /\ uart' = [uart EXCEPT !.full = FALSE]
      /\ UNCHANGED <<k, pc, lock, done, queue, pt, left, time>> /\ MyNode' = MyNode
  BY DEF UartSends, local, MyNode
<1>2. SerialLists'
  BY <1>1 DEF SerialState, SerialLists, IpcOK, Rooms, TimersOK, Blocking
<1>3. OwnedBy'
  BY <1>1 DEF SerialState, OwnedBy
<1>4. NodeOK'
  BY <1>1 DEF SerialState, NodeOK, NodeLists
<1>5. uart' \in [full : BOOLEAN, etbei : BOOLEAN] /\ uart'.etbei = uart.etbei
  BY <1>1 DEF SerialState, TxOK
<1>6. TxOK'
  BY <1>1, <1>5 DEF SerialState, TxOK
<1>7. LeftOK'
  BY <1>1 DEF SerialState, LeftOK
<1> QED BY <1>2, <1>3, <1>4, <1>6, <1>7 DEF SerialState

LEMMA IsrTxState == ASSUME SerialState, IsrTx PROVE SerialState'
<1>1. /\ uart.etbei /\ uart' = [uart EXCEPT !.etbei = FALSE] /\ done' = DoneFlag(TxDone)
      /\ k' = rt_schedule(DoneKernel(k, TxDone)) /\ pc' = pc
      /\ UNCHANGED <<lock, queue, pt, left, time>>
  BY DEF IsrTx, local
<1>2. pc[Client] \in TxWaits /\ done[TxDone] = 0
  BY <1>1 DEF SerialState, TxOK
<1>3. /\ SerialLists'
      /\ k.wait[TxDone] = <<>> => k'.stat = k.stat
      /\ k.wait[TxDone] # <<>> => k'.stat = [k.stat EXCEPT ![Client] = "READY"]
  BY <1>1, DoneLists DEF SerialState
<1>4. \A u \in Thread \ {Client} : k'.stat[u] = k.stat[u]
  BY <1>3, ListsKernel DEF SerialState
<1>5. OwnedBy'
  <2>1. \A u \in Users : k'.stat[u] = "READY" /\ pc'[u] \in Holds =>
          k.stat[u] = "READY" /\ pc[u] \in Holds
    BY <1>1, <1>2, <1>4, SerialFacts DEF TxWaits, TxSleeps, Holds
  <2> QED BY <1>1, <2>1, OwnedKept DEF SerialState
<1>6. NodeOK'
  BY <1>1, NodeKept DEF SerialState, NodeOK
<1>7. TxOK'
  <2>1. done' \in [Completions -> 0 .. UINT_MAX] /\ done'[TxDone] = 1
    <3>1. Counted(done[TxDone]) = 1 /\ done \in [Completions -> 0 .. UINT_MAX]
      BY <1>2, Both, DoneType DEF Counted, SerialState, TxOK
    <3> QED BY <1>1, <3>1, Both, DoneType DEF SerialState, DoneFlag
  <2>2. uart' \in [full : BOOLEAN, etbei : BOOLEAN] /\ ~uart'.etbei
    BY <1>1 DEF SerialState, TxOK
  <2>3. pc[Client] \in TxSleeps => k'.stat[Client] = "READY"
    BY <1>2, <1>3, SerialFacts, CompletionClient, ListsKernel DEF SerialState, TxOK
  <2> QED BY <1>1, <1>2, <2>1, <2>2, <2>3 DEF TxOK
<1>8. LeftOK'
  BY <1>1 DEF SerialState, LeftOK
<1> QED BY <1>3, <1>5, <1>6, <1>7, <1>8 DEF SerialState

LEMMA RescheduledState ==
  ASSUME SerialState, NEW t \in Thread, Rescheduled(t) PROVE SerialState'
<1>1. PICK c \in Schedules : Schedule(t, c[1], c[2])
  BY DEF Rescheduled
<1>2. UNCHANGED <<lock, done, queue, uart, pt, local, left, time>>
  BY DEF Rescheduled, local
<1>3. /\ SerialLists' /\ Moves(SerialPC, t) /\ pc[t] = c[1] /\ pc'[t] = c[2] /\ k'.stat = k.stat
  BY <1>1, SwitchLists DEF SerialState
<1>4. OwnedBy'
  <2>1. c[2] \in Holds => c[1] \in Holds
    BY DEF Schedules, Holds
  <2> QED BY <1>2, <1>3, <2>1, OthersOwned DEF SerialState
<1>5. CASE t # Client
  <2>1. pc'[Client] = pc[Client]
    BY <1>3, <1>5, SerialFacts DEF Moves
  <2> QED BY <1>2, <1>3, <1>4, <2>1, ClientSame DEF SerialState
<1>6. CASE t = Client
  <2>1. NodeOK'
    <3>1. /\ c[1] \in {"r_sleep", "r_woken"} => c[2] \in {"r_sleep", "r_woken"}
          /\ c[1] \in Polling => c[2] \in Polling
          /\ c[2] \in Early => c[1] \in Early
          /\ c[2] \in {"p_wait", "p_sleep", "p_woken"} => c[1] \in {"p_wait", "p_sleep", "p_woken"}
      BY DEF Schedules, Polling, Early
    <3> QED BY <1>2, <1>3, <1>6, <3>1, NodeKept DEF SerialState, NodeOK
  <2>2. TxOK'
    <3>1. (c[1] \in TxWaits <=> c[2] \in TxWaits) /\ (c[1] \in TxSleeps <=> c[2] \in TxSleeps)
      BY DEF Schedules, TxWaits, TxSleeps
    <3> QED BY <1>2, <1>3, <1>6, <3>1 DEF SerialState, TxOK
  <2>3. LeftOK'
    BY <1>2, <1>3, <1>6 DEF SerialState, LeftOK, Schedules
  <2> QED BY <1>3, <1>4, <2>1, <2>2, <2>3 DEF SerialState
<1> QED BY <1>5, <1>6

LEMMA SliceState ==
  ASSUME SerialState, TickSlice, UNCHANGED Other PROVE SerialState'
<1>1. UNCHANGED <<lock, done, queue, uart, pt, local>>
  BY DEF Other
<1>2. SerialLists' /\ k'.stat = k.stat /\ pc' = pc
  BY SliceLists DEF SerialState
<1>3. OwnedBy'
  BY <1>1, <1>2, OwnedKept DEF SerialState
<1> QED BY <1>1, <1>2, <1>3, ClientSame DEF SerialState

LEMMA TimeoutState ==
  ASSUME SerialState, NEW t \in Thread, TickTimeout(t), UNCHANGED Other PROVE SerialState'
<1>1. UNCHANGED <<lock, done, queue, uart, pt, local>>
  BY DEF Other
<1>2. /\ SerialLists' /\ t = Client /\ pc[t] \in Timed
      /\ k'.stat = [k.stat EXCEPT ![t] = "READY"] /\ pc' = pc
  BY TimeoutLists DEF SerialState
<1>3. pc[Client] \notin Holds /\ pc[Client] \notin TxSleeps
  BY <1>2 DEF Timed, RxSleeps, TxSleeps, Holds
<1>4. \A u \in Thread \ {t} : k'.stat[u] = k.stat[u]
  BY <1>2, ListsKernel DEF SerialState
<1>5. OwnedBy'
  <2>1. \A u \in Users : k'.stat[u] = "READY" /\ pc'[u] \in Holds =>
          k.stat[u] = "READY" /\ pc[u] \in Holds
    BY <1>2, <1>3, <1>4, SerialFacts
  <2> QED BY <1>1, <1>2, <2>1, OwnedKept DEF SerialState
<1> QED BY <1>1, <1>2, <1>3, <1>5, ClientSame DEF SerialState

-----------------------------------------------------------------------------
(* The receive FIFO. *)

\* The index d cells after i, and the number of a byte.
Fwd(i, d) == IF i + d < Bufsz THEN i + d ELSE i + d - Bufsz
Byte(n) == n % Numbers

\* FIFO r holds h bytes, g and the following ones.
Holding(r, g, h) ==
  /\ r \in [buffer : [0 .. (Bufsz - 1) -> 0 .. (Numbers - 1)], put : 0 .. (Bufsz - 1),
            get : 0 .. (Bufsz - 1), full : BOOLEAN]
  /\ g \in 0 .. (Numbers - 1) /\ h \in 0 .. (Bufsz - 1) /\ r.put = Fwd(r.get, h)
  /\ \A i \in 0 .. (h - 1) : r.buffer[Fwd(r.get, i)] = Byte(g + i)
  /\ r.full => h = Bufsz - 1

LEMMA Sizes ==
  /\ Bufsz \in Nat \ {0} /\ Bufsz \in Int /\ Bufsz > 1
  /\ Numbers \in Nat \ {0} /\ Numbers \in Int
  BY SerialAssumption DEF Numbers

LEMMA ByteNumber ==
  ASSUME NEW a \in Int, NEW b \in Int
  PROVE  /\ Byte(a) \in 0 .. (Numbers - 1) /\ Byte(Byte(a) + b) = Byte(a + b)
         /\ a \in 0 .. (Numbers - 1) => Byte(a) = a
<1>1. Byte(a) \in 0 .. (Numbers - 1)
  BY Sizes, ModSplit DEF Byte
<1>2. Byte(Byte(a) + b) = Byte(a + b)
  BY Sizes, ModAdd, Zenon DEF Byte
<1>3. a \in 0 .. (Numbers - 1) => Byte(a) = a
  BY Sizes, ModSmall DEF Byte
<1> QED BY <1>1, <1>2, <1>3

\* Indices are distances modulo the size.
LEMMA Around ==
  ASSUME NEW i \in 0 .. (Bufsz - 1), NEW d \in 0 .. (Bufsz - 1)
  PROVE  (i + d) % Bufsz = Fwd(i, d) /\ (Fwd(i, d) - i) % Bufsz = d
<1>1. (i + d) % Bufsz = Fwd(i, d)
  <2> DEFINE e == i + d
  <2>1. e \in Int
    BY Sizes
  <2>2. CASE i + d < Bufsz
    <3>1. e \in 0 .. (Bufsz - 1) /\ Fwd(i, d) = e
      BY <2>2, Sizes DEF Fwd
    <3> HIDE DEF e
    <3>2. e % Bufsz = e
      BY <2>1, <3>1, Sizes, ModSmall
    <3> QED BY <3>1, <3>2, Zenon DEF e
  <2>3. CASE ~(i + d < Bufsz)
    <3>1. e \in Bufsz .. (2 * Bufsz - 1) /\ Fwd(i, d) = e - Bufsz
      BY <2>3, Sizes DEF Fwd
    <3> HIDE DEF e
    <3>2. e % Bufsz = e - Bufsz
      BY <2>1, <3>1, Sizes, ModSmall
    <3> QED BY <3>1, <3>2, Zenon DEF e
  <2> QED BY <2>2, <2>3
<1>2. (Fwd(i, d) - i) % Bufsz = d
  <2> DEFINE e == Fwd(i, d) - i
  <2>1. e \in Int
    BY Sizes DEF Fwd
  <2>2. CASE i + d < Bufsz
    <3>1. e = d /\ d \in Int
      BY <2>2, Sizes DEF Fwd
    <3> HIDE DEF e
    <3>2. d % Bufsz = d
      BY <3>1, Sizes, ModSmall
    <3> QED BY <3>1, <3>2, Zenon DEF e
  <2>3. CASE ~(i + d < Bufsz)
    <3>1. e \in (0 - Bufsz) .. (0 - 1) /\ e + Bufsz = d
      BY <2>3, Sizes DEF Fwd
    <3> HIDE DEF e
    <3>2. e % Bufsz = e + Bufsz
      BY <2>1, <3>1, Sizes, ModSmall
    <3> QED BY <3>1, <3>2, Zenon DEF e
  <2> QED BY <2>2, <2>3
<1> QED BY <1>1, <1>2

\* Two indices are some distance apart.
LEMMA Apart ==
  ASSUME NEW i \in 0 .. (Bufsz - 1), NEW j \in 0 .. (Bufsz - 1)
  PROVE  (j - i) % Bufsz \in 0 .. (Bufsz - 1) /\ j = Fwd(i, (j - i) % Bufsz)
<1> DEFINE d == IF j >= i THEN j - i ELSE j - i + Bufsz
<1>1. d \in 0 .. (Bufsz - 1) /\ Fwd(i, d) = j
  BY Sizes DEF Fwd
<1> HIDE DEF d
<1>2. (Fwd(i, d) - i) % Bufsz = d
  BY <1>1, Around
<1> QED BY <1>1, <1>2, Zenon

LEMMA Stepping ==
  ASSUME NEW i \in 0 .. (Bufsz - 1)
  PROVE  /\ After(i) \in 0 .. (Bufsz - 1) /\ After(i) = Fwd(i, 1)
         /\ \A d \in 0 .. (Bufsz - 1) : Fwd(i, d) \in 0 .. (Bufsz - 1)
         /\ \A d, e \in 0 .. (Bufsz - 1) : Fwd(i, d) = Fwd(i, e) => d = e
         /\ \A d \in 0 .. (Bufsz - 2) : /\ Fwd(After(i), d) = Fwd(i, d + 1)
                                        /\ After(Fwd(i, d)) = Fwd(i, d + 1)
         /\ After(Fwd(i, Bufsz - 1)) = i /\ Fwd(i, 0) = i
         /\ Fwd(After(i), Bufsz - 1) = i
<1>1. After(i) \in 0 .. (Bufsz - 1) /\ After(i) = Fwd(i, 1)
  BY Sizes DEF After, Fwd
<1>2. \A d \in 0 .. (Bufsz - 1) : Fwd(i, d) \in 0 .. (Bufsz - 1)
  BY Sizes DEF Fwd
<1>3. \A d, e \in 0 .. (Bufsz - 1) : Fwd(i, d) = Fwd(i, e) => d = e
  BY Sizes DEF Fwd
<1>4. \A d \in 0 .. (Bufsz - 2) : Fwd(After(i), d) = Fwd(i, d + 1)
  BY Sizes DEF Fwd, After
<1>5. \A d \in 0 .. (Bufsz - 2) : After(Fwd(i, d)) = Fwd(i, d + 1)
  BY Sizes DEF Fwd, After
<1>6. After(Fwd(i, Bufsz - 1)) = i /\ Fwd(i, 0) = i
  BY Sizes DEF Fwd, After
<1>7. Fwd(After(i), Bufsz - 1) = i
  BY Sizes DEF Fwd, After
<1> QED BY <1>1, <1>2, <1>3, <1>4, <1>5, <1>6, <1>7

Fifo(r) == r = [buffer |-> r.buffer, put |-> r.put, get |-> r.get, full |-> r.full]

LEMMA FifoRecord ==
  ASSUME NEW r, Fifo(r), NEW x, NEW y
  PROVE  /\ [r EXCEPT !.buffer = x, !.put = y]
              = [buffer |-> x, put |-> y, get |-> r.get, full |-> r.full]
         /\ [r EXCEPT !.get = x, !.full = y]
              = [buffer |-> r.buffer, put |-> r.put, get |-> x, full |-> y]
<1>0. PICK b, p, e, f : r = [buffer |-> b, put |-> p, get |-> e, full |-> f]
  BY DEF Fifo
<1>1. [r EXCEPT !.buffer = x, !.put = y] = [buffer |-> x, put |-> y, get |-> e, full |-> f]
  <2> DEFINE s == [r EXCEPT !.buffer = x]
  <2>1. s = [buffer |-> x, put |-> p, get |-> e, full |-> f]
    BY <1>0
  <2>2. [r EXCEPT !.buffer = x, !.put = y] = [s EXCEPT !.put = y]
    OBVIOUS
  <2> HIDE DEF s
  <2>3. [s EXCEPT !.put = y] = [buffer |-> x, put |-> y, get |-> e, full |-> f]
    BY <2>1
  <2> QED BY <2>2, <2>3
<1>2. [r EXCEPT !.get = x, !.full = y] = [buffer |-> b, put |-> p, get |-> x, full |-> y]
  <2> DEFINE s == [r EXCEPT !.get = x]
  <2>1. s = [buffer |-> b, put |-> p, get |-> x, full |-> f]
    BY <1>0
  <2>2. [r EXCEPT !.get = x, !.full = y] = [s EXCEPT !.full = y]
    OBVIOUS
  <2> HIDE DEF s
  <2>3. [s EXCEPT !.full = y] = [buffer |-> b, put |-> p, get |-> x, full |-> y]
    BY <2>1
  <2> QED BY <2>2, <2>3
<1>3. r.buffer = b /\ r.put = p /\ r.get = e /\ r.full = f
  BY <1>0
<1> QED BY <1>1, <1>2, <1>3

LEMMA StoredRecord ==
  ASSUME NEW r, Fifo(r), NEW c, NEW x, x = [r.buffer EXCEPT ![r.put] = c]
  PROVE  /\ After(r.put) = r.get =>
              Stored(r, c) = [buffer |-> x, put |-> After(r.put), get |-> After(r.get),
                              full |-> TRUE]
         /\ After(r.put) # r.get =>
              Stored(r, c) = [buffer |-> x, put |-> After(r.put), get |-> r.get,
                              full |-> r.full]
<1> DEFINE e == r.get
           f == r.full
           y == After(r.put)
           z == After(e)
           w == TRUE
           r1 == [r EXCEPT !.buffer[r.put] = c, !.put = After(@)]
<1>1. r1 = [r EXCEPT !.buffer = x, !.put = y]
  OBVIOUS
<1>2. Stored(r, c) = IF r1.put = r1.get THEN [r1 EXCEPT !.get = After(@), !.full = TRUE] ELSE r1
  BY DEF Stored
<1> HIDE DEF r1, y
<1>3. r1 = [buffer |-> x, put |-> y, get |-> e, full |-> f]
  <2> DEFINE s == [r EXCEPT !.buffer = x]
             p == r.put
             b == r.buffer
  <2>1. r = [buffer |-> b, put |-> p, get |-> e, full |-> f]
    BY DEF Fifo
  <2> HIDE DEF e, f, p, b
  <2>2. s = [buffer |-> x, put |-> p, get |-> e, full |-> f]
    BY <2>1
  <2>3. r1 = [s EXCEPT !.put = y]
    BY <1>1
  <2> HIDE DEF s
  <2>4. [s EXCEPT !.put = y] = [buffer |-> x, put |-> y, get |-> e, full |-> f]
    BY <2>2
  <2> QED BY <2>3, <2>4, Zenon
<1> HIDE DEF e, f
<1>4. r1.buffer = x /\ r1.put = y /\ r1.get = e /\ r1.full = f
  BY <1>3
<1>5. [r1 EXCEPT !.get = After(@), !.full = TRUE] = [r1 EXCEPT !.get = z, !.full = w]
  BY <1>4
<1>6. Fifo(r1)
  BY <1>3, <1>4 DEF Fifo
<1> HIDE DEF z, w
<1>7. [r1 EXCEPT !.get = z, !.full = w] = [buffer |-> x, put |-> y, get |-> z, full |-> w]
  <2>1. [r1 EXCEPT !.get = z, !.full = w]
          = [buffer |-> r1.buffer, put |-> r1.put, get |-> z, full |-> w]
    BY <1>6, FifoRecord
  <2> QED BY <1>4, <2>1
<1> QED BY <1>2, <1>3, <1>4, <1>5, <1>7 DEF y, z, w, e, f

\* rx_fifo takes one more byte; when there is no room the oldest one goes.
LEMMA StoredHolds ==
  ASSUME NEW r, NEW g, NEW h, Holding(r, g, h), NEW c, c = Byte(g + h), NEW s, s = Stored(r, c)
  PROVE  /\ h < Bufsz - 1 => Holding(s, g, h + 1)
         /\ h = Bufsz - 1 => Holding(s, Byte(g + 1), h)
<1>1. PICK b, p, e, f : /\ r = [buffer |-> b, put |-> p, get |-> e, full |-> f]
                        /\ p \in 0 .. (Bufsz - 1) /\ e \in 0 .. (Bufsz - 1) /\ f \in BOOLEAN
                        /\ b \in [0 .. (Bufsz - 1) -> 0 .. (Numbers - 1)]
  BY DEF Holding
<1>2. /\ g \in 0 .. (Numbers - 1) /\ h \in 0 .. (Bufsz - 1) /\ p = Fwd(e, h)
      /\ \A i \in 0 .. (h - 1) : b[Fwd(e, i)] = Byte(g + i)
      /\ f => h = Bufsz - 1
  BY <1>1 DEF Holding
<1> DEFINE x == [b EXCEPT ![p] = c]
<1>3. g \in Int /\ h \in Int /\ g + h \in Int /\ Bufsz \in Int
  BY <1>2, Sizes
<1>4. c \in 0 .. (Numbers - 1)
  BY <1>3, ByteNumber
<1>5. /\ x \in [0 .. (Bufsz - 1) -> 0 .. (Numbers - 1)] /\ x[p] = c
      /\ \A j \in 0 .. (Bufsz - 1) : j # p => x[j] = b[j]
  BY <1>1, <1>4
<1>6. \A i \in 0 .. h : x[Fwd(e, i)] = Byte(g + i)
  <2>1. ASSUME NEW i \in 0 .. h PROVE x[Fwd(e, i)] = Byte(g + i)
    <3>1. i \in 0 .. (Bufsz - 1)
      BY <1>2, Sizes
    <3>2. Fwd(e, i) \in 0 .. (Bufsz - 1) /\ (Fwd(e, i) = p => i = h)
      BY <1>1, <1>2, <3>1, Stepping
    <3>3. CASE i = h
      BY <1>2, <1>5, <3>3
    <3>4. CASE i # h
      <4>1. i \in 0 .. (h - 1)
        BY <1>2, <3>4
      <4> QED BY <1>2, <1>5, <3>2, <3>4, <4>1
    <3> QED BY <3>3, <3>4
  <2> QED BY <2>1
<1>x. x = [b EXCEPT ![p] = c]
  OBVIOUS
<1> HIDE DEF x
<1>7. /\ After(p) = e => s = [buffer |-> x, put |-> After(p), get |-> After(e), full |-> TRUE]
      /\ After(p) # e => s = [buffer |-> x, put |-> After(p), get |-> e, full |-> f]
  <2>1. r.buffer = b /\ r.put = p /\ r.get = e /\ r.full = f /\ Fifo(r)
    BY <1>1 DEF Fifo
  <2> QED BY <1>x, <2>1, StoredRecord
<1>8. After(p) \in 0 .. (Bufsz - 1) /\ After(e) \in 0 .. (Bufsz - 1)
  BY <1>1, Stepping
<1>9. ASSUME h < Bufsz - 1 PROVE Holding(s, g, h + 1)
  <2>1. h \in 0 .. (Bufsz - 2) /\ h + 1 \in 0 .. (Bufsz - 1) /\ (h + 1) - 1 = h /\ h + 1 # 0
        /\ 0 \in 0 .. (Bufsz - 1) /\ h # Bufsz - 1
    BY <1>2, <1>9, Sizes
  <2>2. After(p) = Fwd(e, h + 1) /\ Fwd(e, 0) = e
    BY <1>1, <1>2, <2>1, Stepping
  <2>3. After(p) # e
    BY <1>1, <2>1, <2>2, Stepping
  <2>4. s = [buffer |-> x, put |-> After(p), get |-> e, full |-> f] /\ ~f
    BY <1>2, <1>7, <2>1, <2>3
  <2>5. s \in [buffer : [0 .. (Bufsz - 1) -> 0 .. (Numbers - 1)], put : 0 .. (Bufsz - 1),
               get : 0 .. (Bufsz - 1), full : BOOLEAN]
    BY <1>1, <1>5, <1>8, <2>4
  <2>6. s.buffer = x /\ s.put = After(p) /\ s.get = e /\ s.full = f
    BY <2>4
  <2> QED BY <1>2, <1>6, <2>1, <2>2, <2>4, <2>5, <2>6 DEF Holding
<1>10. ASSUME h = Bufsz - 1 PROVE Holding(s, Byte(g + 1), h)
  <2>1. After(p) = e /\ Fwd(After(e), h) = e
    BY <1>1, <1>2, <1>10, Stepping
  <2>2. s = [buffer |-> x, put |-> e, get |-> After(e), full |-> TRUE]
    BY <1>7, <2>1
  <2>3. s \in [buffer : [0 .. (Bufsz - 1) -> 0 .. (Numbers - 1)], put : 0 .. (Bufsz - 1),
               get : 0 .. (Bufsz - 1), full : BOOLEAN]
    <3> DEFINE w == TRUE
    <3>1. s = [buffer |-> x, put |-> e, get |-> After(e), full |-> w] /\ w \in BOOLEAN
      BY <2>2
    <3> HIDE DEF w
    <3> QED BY <1>1, <1>5, <1>8, <3>1
  <2>4. s.buffer = x /\ s.put = e /\ s.get = After(e) /\ s.full = TRUE
    BY <2>2
  <2>5. g + 1 \in Int /\ Byte(g + 1) \in 0 .. (Numbers - 1)
    BY <1>3, ByteNumber
  <2>6. ASSUME NEW i \in 0 .. (h - 1) PROVE x[Fwd(After(e), i)] = Byte(Byte(g + 1) + i)
    <3>1. /\ i \in 0 .. (Bufsz - 2) /\ i + 1 \in 0 .. h /\ i \in Int
          /\ (g + 1) + i = g + (i + 1)
      BY <1>2, <1>10, Sizes
    <3>2. Fwd(After(e), i) = Fwd(e, i + 1)
      BY <1>1, <3>1, Stepping
    <3>3. Byte(Byte(g + 1) + i) = Byte(g + (i + 1))
      BY <2>5, <3>1, ByteNumber
    <3>4. x[Fwd(e, i + 1)] = Byte(g + (i + 1))
      BY <1>6, <3>1
    <3>5. x[Fwd(After(e), i)] = x[Fwd(e, i + 1)]
      BY <3>2, Zenon
    <3> HIDE DEF x
    <3> QED BY <3>3, <3>4, <3>5, Zenon
  <2>7. /\ s.put = Fwd(s.get, h) /\ (s.full => h = Bufsz - 1)
        /\ \A i \in 0 .. (h - 1) : s.buffer[Fwd(s.get, i)] = Byte(Byte(g + 1) + i)
    BY <1>10, <2>1, <2>4, <2>6
  <2> QED BY <1>2, <2>3, <2>5, <2>7 DEF Holding
<1> QED BY <1>9, <1>10

\* The oldest byte is taken.
LEMMA PoppedHolds ==
  ASSUME NEW h, Holding(rx, got, h), h # 0
  PROVE  Holding(Popped, Byte(got + 1), h - 1)
<1>1. PICK b, p, e, f : /\ rx = [buffer |-> b, put |-> p, get |-> e, full |-> f]
                        /\ p \in 0 .. (Bufsz - 1) /\ e \in 0 .. (Bufsz - 1) /\ f \in BOOLEAN
                        /\ b \in [0 .. (Bufsz - 1) -> 0 .. (Numbers - 1)]
  BY DEF Holding
<1>2. /\ got \in 0 .. (Numbers - 1) /\ h \in 0 .. (Bufsz - 1) /\ p = Fwd(e, h)
      /\ \A i \in 0 .. (h - 1) : b[Fwd(e, i)] = Byte(got + i)
  BY <1>1 DEF Holding
<1> DEFINE s == Popped
           z == After(e)
<1>3. s = [buffer |-> b, put |-> p, get |-> z, full |-> FALSE]
  <2> DEFINE w == FALSE
  <2>1. s = [rx EXCEPT !.get = z, !.full = w]
    <3>1. rx.get = e
      BY <1>1
    <3> QED BY <3>1 DEF Popped
  <2>0. rx.buffer = b /\ rx.put = p /\ rx.get = e /\ rx.full = f /\ Fifo(rx)
    BY <1>1 DEF Fifo
  <2> HIDE DEF s, z, w
  <2>2. s = [buffer |-> b, put |-> p, get |-> z, full |-> w]
    BY <2>0, <2>1, FifoRecord, ZenonT(30)
  <2> QED BY <2>2 DEF w
<1> HIDE DEF s
<1>4. /\ h - 1 \in 0 .. (Bufsz - 1) /\ h - 1 \in 0 .. (Bufsz - 2) /\ (h - 1) + 1 = h /\ got \in Int
      /\ got + 1 \in Int
  BY <1>2, Sizes
<1>5. z \in 0 .. (Bufsz - 1) /\ p = Fwd(z, h - 1)
  BY <1>1, <1>2, <1>4, Stepping
<1>6. ASSUME NEW i \in 0 .. ((h - 1) - 1) PROVE b[Fwd(z, i)] = Byte(Byte(got + 1) + i)
  <2>1. /\ i \in 0 .. (Bufsz - 2) /\ i + 1 \in 0 .. (h - 1) /\ i \in Int
        /\ (got + 1) + i = got + (i + 1)
    BY <1>2, Sizes
  <2>2. Fwd(z, i) = Fwd(e, i + 1)
    BY <1>1, <2>1, Stepping
  <2>3. Byte(Byte(got + 1) + i) = Byte(got + (i + 1))
    BY <1>4, <2>1, ByteNumber
  <2> QED BY <1>2, <2>1, <2>2, <2>3
<1> HIDE DEF z
<1>7. s \in [buffer : [0 .. (Bufsz - 1) -> 0 .. (Numbers - 1)], put : 0 .. (Bufsz - 1),
             get : 0 .. (Bufsz - 1), full : BOOLEAN]
  BY <1>1, <1>3, <1>5
<1>8. s.buffer = b /\ s.put = p /\ s.get = z /\ s.full = FALSE
  BY <1>3
<1>9. Byte(got + 1) \in 0 .. (Numbers - 1)
  BY <1>4, ByteNumber
<1>10. Holding(s, Byte(got + 1), h - 1)
  BY <1>4, <1>5, <1>6, <1>7, <1>8, <1>9 DEF Holding
<1> QED BY <1>10 DEF s

\* What the FIFO and the numbers of the bytes say together.
FifoInv ==
  Holding(rx, got, Held) /\ recv \in 0 .. (Numbers - 1) /\ recv = Byte(got + Held)

LEMMA HoldingHeld ==
  ASSUME NEW r, NEW g, NEW h, Holding(r, g, h)
  PROVE  /\ (r.put - r.get) % Bufsz = h /\ h \in 0 .. (Bufsz - 1) /\ h \in Int /\ g \in Int
         /\ \A i \in 0 .. (h - 1) : r.buffer[(r.get + i) % Bufsz] = (g + i) % Numbers
<1>1. r.get \in 0 .. (Bufsz - 1) /\ h \in 0 .. (Bufsz - 1) /\ r.put = Fwd(r.get, h) /\ g \in Int
  BY Sizes DEF Holding
<1>2. (Fwd(r.get, h) - r.get) % Bufsz = h
  BY <1>1, Around
<1>3. (r.put - r.get) % Bufsz = h
  BY <1>1, <1>2, Zenon
<1>4. ASSUME NEW i \in 0 .. (h - 1) PROVE r.buffer[(r.get + i) % Bufsz] = (g + i) % Numbers
  <2>1. i \in 0 .. (Bufsz - 1)
    BY <1>1, Sizes
  <2>2. (r.get + i) % Bufsz = Fwd(r.get, i)
    BY <1>1, <2>1, Around
  <2>3. r.buffer[Fwd(r.get, i)] = Byte(g + i)
    BY DEF Holding
  <2>4. r.buffer[(r.get + i) % Bufsz] = Byte(g + i)
    BY <2>2, <2>3, Zenon
  <2> QED BY <2>4, Zenon DEF Byte
<1>5. h \in Int
  BY <1>1, Sizes
<1> QED BY <1>1, <1>3, <1>4, <1>5, Zenon

\* The loop of the interrupt handler over n bytes.
ReceiveRuns(x, n) ==
  x = [i \in 0 .. n |-> IF i = 0 THEN rx ELSE Stored(x[i - 1], (recv + i - 1) % Numbers)]

LEMMA ReceiveRunsAt ==
  ASSUME NEW x, NEW n \in Nat, ReceiveRuns(x, n)
  PROVE  /\ x[0] = rx
         /\ \A i \in 1 .. n : x[i] = Stored(x[i - 1], (recv + i - 1) % Numbers)
<1> DEFINE f == [i \in 0 .. n |->
                   IF i = 0 THEN rx ELSE Stored(x[i - 1], (recv + i - 1) % Numbers)]
<1>1. x = f
  BY Zenon DEF ReceiveRuns
<1>2. f[0] = rx
  <2>1. 0 \in 0 .. n
    OBVIOUS
  <2> QED BY <2>1, Zenon
<1>3. ASSUME NEW i \in 1 .. n PROVE f[i] = Stored(x[i - 1], (recv + i - 1) % Numbers)
  <2>1. i \in 0 .. n /\ i # 0
    OBVIOUS
  <2> QED BY <2>1, Zenon
<1> HIDE DEF f
<1> QED BY <1>1, <1>2, <1>3, Zenon

\* The recursion of Received has a solution of every length.
LEMMA ReceiveRunsExist ==
  ASSUME NEW n \in Nat
  PROVE  \E x : ReceiveRuns(x, n)
<1> DEFINE Q == {m \in Nat : \E x : ReceiveRuns(x, m)}
<1>1. 0 \in Q
  <2> DEFINE y == [i \in 0 .. 0 |-> rx]
  <2>1. \A i \in 0 .. 0 : i = 0
    OBVIOUS
  <2>2. y = [i \in 0 .. 0 |-> IF i = 0 THEN rx ELSE Stored(y[i - 1], (recv + i - 1) % Numbers)]
    BY <2>1, Zenon
  <2>3. ReceiveRuns(y, 0)
    BY <2>2, Zenon DEF ReceiveRuns
  <2> QED BY <2>3, Zenon
<1>2. ASSUME NEW m \in Q PROVE m + 1 \in Q
  <2>1. m \in Nat /\ m + 1 \in Nat
    OBVIOUS
  <2>2. PICK x : ReceiveRuns(x, m)
    OBVIOUS
  <2>3. /\ x[0] = rx
        /\ \A i \in 1 .. m : x[i] = Stored(x[i - 1], (recv + i - 1) % Numbers)
    BY <2>1, <2>2, ReceiveRunsAt, Zenon
  <2> DEFINE y == [i \in 0 .. (m + 1) |->
                     IF i = 0 THEN rx ELSE Stored(x[i - 1], (recv + i - 1) % Numbers)]
             z == [i \in 0 .. (m + 1) |->
                     IF i = 0 THEN rx ELSE Stored(y[i - 1], (recv + i - 1) % Numbers)]
  <2>4. ASSUME NEW i \in 0 .. m PROVE y[i] = x[i]
    <3>1. i \in 0 .. (m + 1) /\ (i # 0 => i \in 1 .. m)
      BY <2>1
    <3>2. y[i] = IF i = 0 THEN rx ELSE Stored(x[i - 1], (recv + i - 1) % Numbers)
      BY <3>1, Zenon
    <3> QED BY <2>3, <3>1, <3>2, Zenon
  <2>5. \A i \in 0 .. (m + 1) : i # 0 => i - 1 \in 0 .. m
    BY <2>1
  <2> HIDE DEF y
  <2>6. \A i \in 0 .. (m + 1) : i # 0 => y[i - 1] = x[i - 1]
    BY <2>4, <2>5, Zenon
  <2>7. y = z
    BY <2>6, Zenon DEF y
  <2>8. ReceiveRuns(y, m + 1)
    BY <2>7, Zenon DEF ReceiveRuns
  <2> QED BY <2>1, <2>8
<1> HIDE DEF Q
<1>3. Q \in SUBSET Nat
  BY DEF Q
<1>4. n \in Q
  BY <1>1, <1>2, <1>3, NatSetInduction
<1> QED BY <1>4 DEF Q

LEMMA ReceivedRuns == ReceiveRuns(Received, MaxBurst)
<1> DEFINE y == CHOOSE x : ReceiveRuns(x, MaxBurst)
<1>1. ReceiveRuns(y, MaxBurst)
  <2>1. \E x : ReceiveRuns(x, MaxBurst)
    BY SerialAssumption, ReceiveRunsExist
  <2> QED BY <2>1, Zenon
<1>2. Received = y
  BY Zenon DEF Received, ReceiveRuns
<1> QED BY <1>1, <1>2, Zenon

LEMMA OverwrittenSteps ==
  ASSUME FifoInv, NEW m \in Nat
  PROVE  /\ Overwritten(m) \in Nat /\ Held \in 0 .. (Bufsz - 1)
         /\ Held + m - Overwritten(m) \in 0 .. (Bufsz - 1)
         /\ Overwritten(0) = 0
         /\ Held + m - Overwritten(m) < Bufsz - 1 => Overwritten(m + 1) = Overwritten(m)
         /\ Held + m - Overwritten(m) = Bufsz - 1 => Overwritten(m + 1) = Overwritten(m) + 1
<1> DEFINE h == Held
<1>1. h \in 0 .. (Bufsz - 1)
  BY DEF FifoInv, Holding
<1> HIDE DEF h
<1>2. \A n : Overwritten(n) = IF h + n > Bufsz - 1 THEN h + n - (Bufsz - 1) ELSE 0
  BY DEF Overwritten, h
<1>3. /\ Overwritten(m) \in Nat /\ h + m - Overwritten(m) \in 0 .. (Bufsz - 1)
      /\ Overwritten(0) = 0
      /\ h + m - Overwritten(m) < Bufsz - 1 => Overwritten(m + 1) = Overwritten(m)
      /\ h + m - Overwritten(m) = Bufsz - 1 => Overwritten(m + 1) = Overwritten(m) + 1
  BY <1>1, <1>2, Sizes
<1> QED BY <1>1, <1>3 DEF h

\* The numbers come out right after m bytes of a burst.
LEMMA ReceivedHolds ==
  ASSUME FifoInv, NEW n \in 0 .. MaxBurst
  PROVE  Holding(Received[n], Byte(got + Overwritten(n)), Held + n - Overwritten(n))
<1> DEFINE x == Received
           h(m) == Held + m - Overwritten(m)
           g(m) == Byte(got + Overwritten(m))
           Q == {m \in Nat : m <= MaxBurst => Holding(x[m], g(m), h(m))}
<1>1. /\ MaxBurst \in Nat /\ got \in 0 .. (Numbers - 1) /\ got \in Int /\ Held \in 0 .. (Bufsz - 1)
      /\ Held \in Int /\ Holding(rx, got, Held) /\ recv = Byte(got + Held) /\ recv \in Int
  BY SerialAssumption, Sizes DEF FifoInv, Holding
<1>2. /\ x[0] = rx
      /\ \A i \in 1 .. MaxBurst : x[i] = Stored(x[i - 1], Byte(recv + i - 1))
  <2>1. ReceiveRuns(x, MaxBurst)
    BY ReceivedRuns
  <2> HIDE DEF x
  <2>2. /\ x[0] = rx
        /\ \A i \in 1 .. MaxBurst : x[i] = Stored(x[i - 1], (recv + i - 1) % Numbers)
    BY <1>1, <2>1, ReceiveRunsAt
  <2> QED BY <2>2, Zenon DEF Byte
<1> HIDE DEF x
<1>3. 0 \in Q
  <2>1. h(0) = Held /\ got + Overwritten(0) = got
    BY <1>1, OverwrittenSteps
  <2>2. g(0) = got
    BY <1>1, <2>1, ByteNumber
  <2> HIDE DEF h, g
  <2> QED BY <1>1, <1>2, <2>1, <2>2
<1>4. ASSUME NEW m \in Q PROVE m + 1 \in Q
  <2>1. m \in Nat /\ m + 1 \in Nat
    OBVIOUS
  <2>2. ASSUME m + 1 <= MaxBurst PROVE Holding(x[m + 1], g(m + 1), h(m + 1))
    <3>1. Holding(x[m], g(m), h(m))
      BY <1>1, <2>1, <2>2
    <3> DEFINE o == Overwritten(m)
               hh == h(m)
               gg == g(m)
    <3>2. /\ o \in Nat /\ hh \in 0 .. (Bufsz - 1) /\ hh = Held + m - o
          /\ hh < Bufsz - 1 => Overwritten(m + 1) = o
          /\ hh = Bufsz - 1 => Overwritten(m + 1) = o + 1
      BY <2>1, OverwrittenSteps
    <3>3. gg = Byte(got + o)
      OBVIOUS
    <3>4. x[m + 1] = Stored(x[m], Byte(recv + m))
      <4>1. m + 1 \in 1 .. MaxBurst /\ (m + 1) - 1 = m /\ recv + (m + 1) - 1 = recv + m
        BY <1>1, <2>1, <2>2
      <4> QED BY <1>2, <4>1
    <3> HIDE DEF o, hh, gg
    <3>5. Byte(recv + m) = Byte(gg + hh)
      <4>1. /\ got + Held \in Int /\ m \in Int /\ got + o \in Int /\ hh \in Int
            /\ (got + o) + hh = (got + Held) + m
        BY <1>1, <2>1, <3>2, Sizes
      <4>2. Byte(recv + m) = Byte((got + Held) + m)
        BY <1>1, <4>1, ByteNumber
      <4>3. Byte(gg + hh) = Byte((got + o) + hh)
        BY <3>3, <4>1, ByteNumber
      <4> QED BY <4>1, <4>2, <4>3
    <3>6. /\ hh < Bufsz - 1 => Holding(x[m + 1], gg, hh + 1)
          /\ hh = Bufsz - 1 => Holding(x[m + 1], Byte(gg + 1), hh)
      <4> DEFINE c == Byte(gg + hh)
                 r == x[m]
                 s == x[m + 1]
      <4>1. Holding(r, gg, hh) /\ c = Byte(gg + hh) /\ s = Stored(r, c)
        BY <3>1, <3>4, <3>5 DEF gg, hh
      <4> HIDE DEF c, r, s
      <4>2. /\ hh < Bufsz - 1 => Holding(s, gg, hh + 1)
            /\ hh = Bufsz - 1 => Holding(s, Byte(gg + 1), hh)
        BY <4>1, StoredHolds
      <4> QED BY <4>2 DEF s
    <3>7. CASE hh < Bufsz - 1
      <4>1. h(m + 1) = hh + 1 /\ g(m + 1) = gg
        <5>1. Overwritten(m + 1) = o
          BY <3>2, <3>7
        <5>2. h(m + 1) = hh + 1
          BY <1>1, <2>1, <3>2, <5>1
        <5>3. g(m + 1) = gg
          BY <3>3, <5>1, Zenon
        <5> QED BY <5>2, <5>3
      <4> HIDE DEF h, g
      <4> QED BY <3>6, <3>7, <4>1
    <3>8. CASE hh = Bufsz - 1
      <4>1. h(m + 1) = hh /\ g(m + 1) = Byte(got + (o + 1))
        BY <1>1, <2>1, <3>2, <3>8
      <4>2. Byte(gg + 1) = Byte(got + (o + 1))
        <5>1. got + o \in Int /\ (got + o) + 1 = got + (o + 1)
          BY <1>1, <3>2
        <5> QED BY <3>3, <5>1, ByteNumber
      <4> HIDE DEF h, g
      <4> QED BY <3>6, <3>8, <4>1, <4>2
    <3>9. hh < Bufsz - 1 \/ hh = Bufsz - 1
      BY <3>2, Sizes
    <3> QED BY <3>7, <3>8, <3>9
  <2> HIDE DEF h, g
  <2> QED BY <2>1, <2>2
<1> HIDE DEF Q
<1>5. Q \in SUBSET Nat
  BY DEF Q
<1>6. n \in Q /\ n \in Nat /\ n <= MaxBurst
  BY <1>1, <1>3, <1>4, <1>5, NatSetInduction
<1> QED BY <1>6 DEF Q, x

LEMMA IsrRxFifo ==
  ASSUME FifoInv, NEW n \in 1 .. MaxBurst, IsrRx(n) PROVE FifoInv'
<1> DEFINE o == Overwritten(n)
           h == Held + n - o
<1>1. /\ rx' = Received[n] /\ recv' = (recv + n) % Numbers /\ got' = (got + o) % Numbers
  BY DEF IsrRx
<1>2. recv' = Byte(recv + n) /\ got' = Byte(got + o)
  BY <1>1, Zenon DEF Byte
<1>3. n \in 0 .. MaxBurst /\ n \in Nat
  OBVIOUS
<1>4. Holding(rx', got', h)
  BY <1>1, <1>2, <1>3, ReceivedHolds
<1>5. Held' = h
  <2>1. (rx'.put - rx'.get) % Bufsz = h
    BY <1>4, HoldingHeld
  <2> QED BY <2>1, Zenon DEF Held
<1>6. /\ o \in Nat /\ got \in Int /\ Held \in Int /\ recv \in Int /\ recv = Byte(got + Held)
  BY <1>3, OverwrittenSteps, Sizes DEF FifoInv, Holding
<1>7. /\ got + o \in Int /\ got + Held \in Int /\ h \in Int /\ (got + o) + h = (got + Held) + n
      /\ recv + n \in Int /\ n \in Int
  BY <1>3, <1>6
<1> HIDE DEF o, h
<1>8. recv' = Byte(got' + h)
  <2>1. Byte(recv + n) = Byte((got + Held) + n)
    BY <1>6, <1>7, ByteNumber
  <2>2. Byte(Byte(got + o) + h) = Byte((got + o) + h)
    BY <1>7, ByteNumber
  <2> QED BY <1>2, <1>7, <2>1, <2>2
<1>9. recv' \in 0 .. (Numbers - 1)
  BY <1>2, <1>7, ByteNumber
<1> QED BY <1>4, <1>5, <1>8, <1>9 DEF FifoInv

LEMMA ReadByteFifo == ASSUME FifoInv, ReadByte PROVE FifoInv'
<1> DEFINE h == Held
<1>1. ~Empty /\ rx' = Popped /\ got' = (got + 1) % Numbers /\ recv' = recv
  BY DEF ReadByte
<1>2. got' = Byte(got + 1)
  BY <1>1, Zenon DEF Byte
<1>3. /\ Holding(rx, got, h) /\ recv \in 0 .. (Numbers - 1) /\ recv = Byte(got + h)
  BY DEF FifoInv
<1> HIDE DEF h
<1>4. h \in 0 .. (Bufsz - 1) /\ got \in Int /\ h \in Int
  BY <1>3, HoldingHeld
<1>5. h # 0
  <2>1. SUFFICES ASSUME h = 0 PROVE FALSE
    OBVIOUS
  <2>2. rx.get \in 0 .. (Bufsz - 1) /\ rx.put = Fwd(rx.get, 0) /\ ~rx.full
    BY <1>3, <2>1, Sizes DEF Holding
  <2>3. rx.put = rx.get
    BY <2>2, Stepping
  <2> QED BY <1>1, <2>2, <2>3 DEF Empty
<1>6. Holding(rx', got', h - 1)
  BY <1>1, <1>2, <1>3, <1>5, PoppedHolds
<1>7. Held' = h - 1
  <2>1. (rx'.put - rx'.get) % Bufsz = h - 1
    BY <1>6, HoldingHeld
  <2> QED BY <2>1, Zenon DEF Held
<1>8. recv' = Byte(got' + (h - 1))
  <2>1. got + 1 \in Int /\ h - 1 \in Int /\ (got + 1) + (h - 1) = got + h
    BY <1>4
  <2>2. Byte(Byte(got + 1) + (h - 1)) = Byte((got + 1) + (h - 1))
    BY <2>1, ByteNumber
  <2> QED BY <1>1, <1>2, <1>3, <2>1, <2>2
<1> QED BY <1>1, <1>3, <1>6, <1>7, <1>8 DEF FifoInv

-----------------------------------------------------------------------------
(* The invariant of the serial device. *)

SerialInvariant == SerialState /\ FifoInv

LEMMA SerialStarts == ASSUME SerialInit PROVE SerialInvariant
<1>1. /\ IpcInit /\ lock = Unlocked /\ done = [c \in Completions |-> 0] /\ queue = EmptyQueue
      /\ uart = [full |-> FALSE, etbei |-> FALSE] /\ pt = NoPoll /\ left = 0 /\ time = "NO"
  BY DEF SerialInit
<1>2. "run" \in SerialPC /\ "run" \notin Holds /\ "run" \notin RxSleeps /\ "run" \notin TxSleeps
  BY DEF SerialPC, ClientPC, Holds, RxSleeps, TxSleeps
<1>3. /\ IpcOK(SerialPC, SerialSuspends, SerialLeaving)
      /\ Blocking(LockList, Holds) /\ Blocking(RxDone, RxSleeps) /\ Blocking(TxDone, TxSleeps)
  BY <1>1, <1>2, SerialFacts, IpcStart
<1>4. pc = [t \in Thread |-> "run"] /\ \A t \in Thread : ~k.armed[t]
  BY <1>1, BootedState DEF IpcInit
<1>5. SerialLists
  BY <1>3, <1>4 DEF SerialLists, Rooms, TimersOK, Room, ClientPC, LockerPC
<1>6. pc[Client] = "run"
  BY <1>4, SerialFacts
<1>7. OwnedBy
  <2>1. lock \in [owner : Users \cup {RT_NULL}, orig : Prio]
    BY <1>1, KernelAssumption DEF Unlocked, Prio, RT_THREAD_PRIORITY_MAX
  <2> QED BY <1>2, <1>4, <2>1, SerialFacts DEF OwnedBy
<1>8. NodeOK
  <2>1. queue.nodes = <<>> /\ queue \in [flag : BOOLEAN, nodes : NodeLists]
    BY <1>1 DEF EmptyQueue, NodeLists
  <2>2. queue.nodes # <<WaitNode(Client)>> /\ queue.nodes # <<MyNode>>
    BY <2>1, QueueNodes
  <2>3. pt \in [triggered : BOOLEAN, proc : BOOLEAN, num : BOOLEAN, istimeout : BOOLEAN]
    BY <1>1 DEF NoPoll
  <2> QED BY <1>6, <2>1, <2>2, <2>3 DEF NodeOK
<1>9. TxOK
  BY <1>1, <1>6, Both, CompletionAssumption DEF TxOK, TxSleeps
<1>10. LeftOK
  BY <1>1, <1>6, SerialAssumption DEF LeftOK, Time
<1>11. FifoInv
  <2> DEFINE b == [i \in 0 .. (Bufsz - 1) |-> 0]
  <2>1. /\ rx = [buffer |-> b, put |-> 0, get |-> 0, full |-> FALSE] /\ recv = 0 /\ got = 0
        /\ b \in [0 .. (Bufsz - 1) -> 0 .. (Numbers - 1)]
        /\ 0 \in 0 .. (Bufsz - 1) /\ 0 \in 0 .. (Numbers - 1)
    BY Sizes DEF SerialInit
  <2> HIDE DEF b
  <2>2. rx.put = 0 /\ rx.get = 0 /\ ~rx.full /\ Fwd(0, 0) = 0
    BY <2>1, Stepping
  <2>3. rx \in [buffer : [0 .. (Bufsz - 1) -> 0 .. (Numbers - 1)], put : 0 .. (Bufsz - 1),
                get : 0 .. (Bufsz - 1), full : BOOLEAN]
    BY <2>1
  <2>4. Holding(rx, got, 0)
    BY <2>1, <2>2, <2>3 DEF Holding
  <2>5. Held = 0
    <3>1. (rx.put - rx.get) % Bufsz = 0
      BY <2>4, HoldingHeld
    <3> QED BY <3>1, Zenon DEF Held
  <2>6. Byte(0) = 0 /\ got + 0 = 0
    BY <2>1, ByteNumber
  <2> QED BY <2>1, <2>4, <2>5, <2>6 DEF FifoInv
<1> QED BY <1>5, <1>7, <1>8, <1>9, <1>10, <1>11 DEF SerialInvariant, SerialState

LEMMA StateStep ==
  ASSUME SerialState, SerialNext PROVE SerialState'
<1>1. ASSUME NEW t \in Thread, SerialCall(t) PROVE SerialState'
  <2>1. CASE t = Client /\ (ReadEnter \/ ReadSuspend \/ ReadByte \/ ReadEmpty \/ ReadWait \/ ReadWoken)
    BY <2>1, ReadEnterState, ReadSuspendState, ReadByteState, ReadEmptyState, ReadWaitState,
       ReadWokenState
  <2>2. CASE t = Client /\ (WriteByte \/ WriteIrq \/ WriteSuspend)
    BY <2>2, WriteByteState, WriteIrqState, WriteSuspendState
  <2>3. CASE t = Client /\ (PollLock \/ PollAdd \/ PollLook \/ PollNext \/ PollWait \/ PollWoken)
    BY <2>3, PollLockState, PollAddState, PollLookState, PollNextState, PollWaitState,
       PollWokenState
  <2>4. CASE t = Client /\ poll_teardown
    BY <2>4, TeardownState
  <2>5. CASE Unlock(t)
    BY <2>5, LockerState
  <2>6. CASE Rescheduled(t)
    BY <2>6, RescheduledState
  <2> QED BY <1>1, <2>1, <2>2, <2>3, <2>4, <2>5, <2>6 DEF SerialCall
<1>2. ASSUME NEW t \in Thread, LockCall(t) PROVE SerialState'
  BY <1>2, LockerState
<1>3. ASSUME NEW n \in 1 .. MaxCount, WriteCall(n) PROVE SerialState'
  BY <1>3, WriteCallState
<1>4. ASSUME NEW n \in 1 .. MaxCount, NEW wait \in {"NO", "FOREVER"}, ReadCall(n, wait)
      PROVE  SerialState'
  BY <1>4, ReadCallState
<1>5. ASSUME NEW msec \in Time, PollCall(msec) PROVE SerialState'
  BY <1>5, PollCallState
<1>6. ASSUME NEW n \in 1 .. MaxBurst, IsrRx(n) PROVE SerialState'
  BY <1>6, IsrRxState
<1>7. CASE UartSends
  BY <1>7, UartSendsState
<1>8. CASE IsrTx
  BY <1>8, IsrTxState
<1>9. CASE TickSlice /\ UNCHANGED Other
  BY <1>9, SliceState
<1>10. ASSUME NEW t \in Thread, TickTimeout(t), UNCHANGED Other PROVE SerialState'
  BY <1>10, TimeoutState
<1> QED BY <1>1, <1>2, <1>3, <1>4, <1>5, <1>6, <1>7, <1>8, <1>9, <1>10 DEF SerialNext

LEMMA FifoSame ==
  ASSUME FifoInv, UNCHANGED bytes PROVE FifoInv'
<1>1. rx' = rx /\ recv' = recv /\ got' = got
  BY DEF bytes
<1>2. Held' = Held
  BY <1>1, Zenon DEF Held
<1> QED BY <1>1, <1>2 DEF FifoInv

LEMMA FifoStep ==
  ASSUME FifoInv, SerialNext PROVE FifoInv'
<1>1. ASSUME NEW t \in Thread, SerialCall(t) PROVE FifoInv'
  <2>1. CASE ReadByte
    BY <2>1, ReadByteFifo
  <2>2. CASE ~ReadByte
    <3>1. UNCHANGED bytes
      BY <1>1, <2>2 DEF SerialCall, ReadEnter, ReadSuspend, ReadEmpty, ReadWait, ReadWoken,
             WriteByte, WriteIrq, WriteSuspend, PollLock, PollAdd, PollLook, PollNext, PollWait,
             PollWoken, poll_teardown, Unlock, Rescheduled
    <3> QED BY <3>1, FifoSame
  <2> QED BY <2>1, <2>2
<1>2. ASSUME NEW t \in Thread, LockCall(t) PROVE FifoInv'
  BY <1>2, FifoSame DEF LockCall
<1>3. ASSUME NEW n \in 1 .. MaxCount, WriteCall(n) PROVE FifoInv'
  BY <1>3, FifoSame DEF WriteCall, Call
<1>4. ASSUME NEW n \in 1 .. MaxCount, NEW wait \in {"NO", "FOREVER"}, ReadCall(n, wait)
      PROVE  FifoInv'
  BY <1>4, FifoSame DEF ReadCall, Call
<1>5. ASSUME NEW msec \in Time, PollCall(msec) PROVE FifoInv'
  BY <1>5, FifoSame DEF PollCall, Call
<1>6. ASSUME NEW n \in 1 .. MaxBurst, IsrRx(n) PROVE FifoInv'
  BY <1>6, IsrRxFifo
<1>7. CASE UartSends
  BY <1>7, FifoSame DEF UartSends
<1>8. CASE IsrTx
  BY <1>8, FifoSame DEF IsrTx
<1>9. CASE TickSlice /\ UNCHANGED Other
  BY <1>9, FifoSame DEF Other
<1>10. ASSUME NEW t \in Thread, TickTimeout(t), UNCHANGED Other PROVE FifoInv'
  BY <1>10, FifoSame DEF Other
<1> QED BY <1>1, <1>2, <1>3, <1>4, <1>5, <1>6, <1>7, <1>8, <1>9, <1>10 DEF SerialNext

LEMMA SerialStutter ==
  ASSUME SerialInvariant, UNCHANGED serialVars PROVE SerialInvariant'
<1>1. /\ UNCHANGED <<k, pc, lock, done, queue, uart, pt, left, time>> /\ UNCHANGED bytes
      /\ MyNode' = MyNode
  BY DEF serialVars, local, MyNode
<1>2. SerialLists'
  BY <1>1 DEF SerialInvariant, SerialState, SerialLists, IpcOK, Rooms, TimersOK, Blocking
<1>3. OwnedBy'
  BY <1>1 DEF SerialInvariant, SerialState, OwnedBy
<1>4. NodeOK'
  BY <1>1 DEF SerialInvariant, SerialState, NodeOK, NodeLists
<1>5. TxOK'
  BY <1>1 DEF SerialInvariant, SerialState, TxOK
<1>6. LeftOK'
  BY <1>1 DEF SerialInvariant, SerialState, LeftOK
<1>7. FifoInv'
  BY <1>1, FifoSame DEF SerialInvariant
<1> QED BY <1>2, <1>3, <1>4, <1>5, <1>6, <1>7 DEF SerialInvariant, SerialState

\* The serial device: who waits where and for what, the file system lock's owner, the
\* one node in the device's wait queue, the outstanding transmit interrupt and the
\* numbers in the receive FIFO agree in every reachable state.
THEOREM SerialInvariance == SerialSpec => []SerialInvariant
<1>1. SerialInit => SerialInvariant
  BY SerialStarts
<1>2. SerialInvariant /\ [SerialNext]_serialVars => SerialInvariant'
  <2>1. ASSUME SerialInvariant, SerialNext PROVE SerialInvariant'
    BY <2>1, StateStep, FifoStep DEF SerialInvariant
  <2> QED BY <2>1, SerialStutter
<1> QED BY <1>1, <1>2, PTL DEF SerialSpec

\* RxInOrder of Serial.tla, for any number of threads and any size of the FIFO: what a
\* reader finds in rx_fifo are the latest bytes received and not read, in order, through
\* every wrap of the two indices and every overwriting of old bytes.
THEOREM RxInOrderCorrect == SerialSpec => []RxInOrder
<1>1. SerialInvariant => RxInOrder
  <2>1. SUFFICES ASSUME SerialInvariant PROVE RxInOrder
    OBVIOUS
  <2>2. SerialState /\ FifoInv /\ Holding(rx, got, Held) /\ recv = Byte(got + Held)
    BY <2>1 DEF SerialInvariant, FifoInv
  <2>3. SerialTypeOK
    <3>1. k \in KernelState
      BY <2>2, ListsKernel DEF SerialState
    <3>2. done \in [Completions -> 0 .. UINT_MAX] /\ left \in 0 .. MaxCount /\ time \in Time
      BY <2>2 DEF SerialState, TxOK, LeftOK
    <3>3. rx.put \in 0 .. (Bufsz - 1) /\ rx.get \in 0 .. (Bufsz - 1)
      BY <2>2 DEF Holding
    <3> QED BY <3>1, <3>2, <3>3 DEF SerialTypeOK
  <2>4. \A i \in 0 .. (Held - 1) : rx.buffer[(rx.get + i) % Bufsz] = (got + i) % Numbers
    <3> DEFINE h == Held
    <3>1. Holding(rx, got, h)
      BY <2>2
    <3> HIDE DEF h
    <3>2. \A i \in 0 .. (h - 1) : rx.buffer[(rx.get + i) % Bufsz] = (got + i) % Numbers
      BY <3>1, HoldingHeld
    <3> QED BY <3>2 DEF h
  <2>5. recv = (got + Held) % Numbers
    BY <2>2, Zenon DEF Byte
  <2>6. rx.full => Held = Bufsz - 1
    BY <2>2 DEF Holding
  <2> QED BY <2>3, <2>4, <2>5, <2>6, Zenon DEF RxInOrder
<1> QED BY <1>1, SerialInvariance, PTL

\* FsLockHolds of Serial.tla: two threads are inside dfs_lock at once only when a byte
\* woke a poll() that was waiting for that lock.
THEOREM FsLockCorrect == SerialSpec => []FsLockHolds
<1>1. SerialInvariant => FsLockHolds
  <2>1. SUFFICES ASSUME SerialInvariant, NEW t \in Lockers \cup {Client},
                        NEW u \in Lockers \cup {Client}, t # u, Locked(t), Locked(u)
                 PROVE  pt.triggered
    BY DEF FsLockHolds
  <2>2. t \in Users /\ u \in Users
    BY DEF Users
  <2>3. /\ k.stat[t] = "READY" /\ pc[t] \in Holds
        /\ k.stat[u] = "READY" /\ pc[u] \in Holds
    BY <2>1 DEF Locked, Holds
  <2> QED BY <2>1, <2>2, <2>3 DEF SerialInvariant, SerialState, OwnedBy
<1> QED BY <1>1, SerialInvariance, PTL

\* TxPaired of Serial.tla: however the transmit interrupt races the writer, the counter
\* of the transmit completion is at most one, and zero once the writer has gone on.
THEOREM TxPairedCorrect == SerialSpec => []TxPaired
<1>1. SerialInvariant => TxPaired
  BY DEF SerialInvariant, SerialState, TxOK, TxPaired, TxWaits, TxSleeps
<1> QED BY <1>1, SerialInvariance, PTL

=============================================================================
