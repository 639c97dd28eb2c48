------------------------------ MODULE MemPool -------------------------------
(***************************************************************************)
(* A memory pool (mempool.c): fixed-size blocks allocated by threads that  *)
(* may wait, given back by any thread or interrupt handler, and the pool   *)
(* detached while in use.                                                  *)
(*                                                                         *)
(* free is mp->block_list (block_free_count is its length), count is       *)
(* mp->suspend_thread_count, left the waiting time a thread inside         *)
(* rt_mp_alloc has left, given the blocks handed out (history variable).   *)
(***************************************************************************)
EXTENDS Ipc, FiniteSets

CONSTANTS MpList,     \* mp->suspend_thread
          Blocks,     \* the blocks, in the order rt_mp_init chains them
          Times,      \* the waiting times in use
          DetachBy,   \* threads that detach the pool
          MaxCount    \* bound on count

ASSUME MemPoolAssumption ==
  /\ MpList \in WaitList \ {Defunct}
  /\ Injective(Blocks) /\ Blocks \in Seq(Nodes(Blocks))
  /\ Times \subseteq Time
  /\ DetachBy \subseteq Thread
  /\ MaxCount \in Nat

VARIABLES free, count, left, given, life
vars == <<k, pc, free, count, left, given, life>>
pool == <<free, count, left, given, life>>

BlockSet == Nodes(Blocks)
PC == {"run", "waiting", "woken", "again", "sched", "closing", "closing_do", "crashed",
       "sleeping", "slept"}

waiters == k.wait[MpList]

\* rt_mp_init, rt_mp_create
Init ==
  /\ IpcInit
  /\ free = Blocks /\ count = 0 /\ life = "live"
  /\ left = [t \in Thread |-> "NO"] /\ given = {}

-----------------------------------------------------------------------------
\* The loop of rt_mp_alloc, entered with time or gone round again with the rest
\* of it.

\* mutant: the block stays at the head of the list
Taken_kept == free

Taken == Tail(free)

AllocTake(t) ==
  /\ free # <<>>
  /\ free' = Taken /\ given' = given \cup {Head(free)}
  /\ Goto(t, "run") /\ UNCHANGED <<k, count, left, life>>

AllocFail(t) ==
  /\ free = <<>>
  /\ k' = SetErr(k, t, RT_ETIMEOUT) /\ Goto(t, "run") /\ UNCHANGED pool

\* the caller is linked in at the head of the list
AllocWait(t, time) ==
  /\ free = <<>> /\ count < MaxCount
  /\ LET k1 == rt_thread_suspend(SetErr(k, t, RT_EOK), t)
         k2 == [k1 EXCEPT !.wait = [@ EXCEPT ![MpList] = InsertBefore(k1.wait[MpList], 1, t)]]
     IN  k' = IF time = "TICKS" THEN Started(k2, t) ELSE k2
  /\ count' = count + 1 /\ left' = [left EXCEPT ![t] = time]
  /\ Goto(t, "waiting") /\ UNCHANGED <<free, given, life>>

rt_mp_alloc(t, time) ==
  /\ At(t, "run") /\ t # Idle /\ life = "live"
  /\ \/ AllocTake(t)
     \/ time = "NO" /\ AllocFail(t)
     \/ time # "NO" /\ AllocWait(t, time)

\* back from rt_schedule(): a limited wait goes on with what is left of it
AllocWoken(t) ==
  /\ At(t, "woken")
  /\ IF k.err[t] # RT_EOK
     THEN Goto(t, "run") /\ UNCHANGED left
     ELSE /\ Goto(t, "again")
          /\ \E time \in {left[t]} \cup (IF left[t] = "TICKS" THEN {"NO"} ELSE {}) :
               left' = [left EXCEPT ![t] = time]
  /\ UNCHANGED <<k, free, count, given, life>>

AllocAgain(t) ==
  /\ At(t, "again")
  /\ \/ AllocTake(t)
     \/ left[t] = "NO" /\ AllocFail(t)
     \/ left[t] # "NO" /\ AllocWait(t, left[t])

-----------------------------------------------------------------------------
\* mutant: only the block that ends an empty list wakes a thread
Wakes_edge == count > 0 /\ free = <<>>

\* rt_mp_free.  A count above zero is taken to mean that the list has a thread;
\* if it has none, the list head is resumed for one.
Wakes == count > 0

Fewer == IF Wakes /\ waiters # <<>> THEN count - 1 ELSE count

Return(b) ==
  /\ b \in given /\ life = "live"
  /\ free' = <<b>> \o free /\ given' = given \ {b}
  /\ count' = Fewer /\ UNCHANGED <<left, life>>

HeadReady == LET t == Head(waiters) IN rt_thread_resume(SetErr(k, t, RT_EOK), t)

rt_mp_free(t, b) ==
  /\ At(t, "run") /\ t # Idle /\ Return(b)
  /\ IF ~Wakes THEN UNCHANGED <<k, pc>>
     ELSE IF waiters = <<>> THEN UNCHANGED k /\ Goto(t, "crashed")
     ELSE k' = HeadReady /\ Goto(t, "sched")

IsrFree(b) ==
  /\ IrqOn /\ Return(b)
  /\ IF ~Wakes THEN UNCHANGED <<k, pc>>
     ELSE IF waiters = <<>> THEN UNCHANGED k /\ Goto(k.cur, "crashed")
     ELSE k' = rt_schedule(HeadReady) /\ UNCHANGED pc

-----------------------------------------------------------------------------
\* rt_mp_detach, rt_mp_delete: nobody calls the pool from here on
DetachCall(t) ==
  /\ At(t, "run") /\ t \in DetachBy /\ life = "live"
  /\ life' = "closing" /\ Goto(t, "closing")
  /\ UNCHANGED <<k, free, count, left, given>>

DetachCheck(t) ==
  /\ At(t, "closing")
  /\ IF waiters # <<>>
     THEN Goto(t, "closing_do") /\ UNCHANGED life
     ELSE Goto(t, "run") /\ life' = "gone"
  /\ UNCHANGED <<k, free, count, left, given>>

DetachTurn(t) ==
  /\ ResumeAllTurn(t, MpList, "closing_do", "closing")
  /\ count' = IF waiters # <<>> THEN count - 1 ELSE count
  /\ UNCHANGED <<free, left, given, life>>

-----------------------------------------------------------------------------
Step(t) ==
  \/ \E time \in Times : rt_mp_alloc(t, time)
  \/ Schedule(t, "waiting", "woken") /\ UNCHANGED pool
  \/ AllocWoken(t) \/ AllocAgain(t)
  \/ \E b \in BlockSet : rt_mp_free(t, b)
  \/ Schedule(t, "sched", "run") /\ UNCHANGED pool
  \/ DetachCall(t) \/ DetachCheck(t) \/ DetachTurn(t)
  \/ (rt_thread_sleep(t) \/ Sleeping(t)) /\ UNCHANGED pool

Next ==
  \/ \E t \in Thread : Step(t)
  \/ \E b \in BlockSet : IsrFree(b)
  \/ TickSlice /\ UNCHANGED pool
  \/ \E t \in Thread : TickTimeout(t) /\ UNCHANGED pool

Spec == Init /\ [][Next]_vars

-----------------------------------------------------------------------------
TypeOK ==
  /\ k \in KernelState /\ pc \in [Thread -> PC]
  /\ free \in Seq(BlockSet) /\ count \in Int
  /\ left \in [Thread -> Time] /\ given \subseteq BlockSet
  /\ life \in {"live", "closing", "gone"}

\* rt_mp_alloc never hands out a block that has not been given back, and
\* rt_mp_free loses none: the chain holds each block that is not out exactly once.
BlocksOwned ==
  TypeOK /\ Injective(free) /\ Nodes(free) = BlockSet \ given

\* A thread waits on although there are free blocks only if for each of them
\* rt_mp_free has woken a thread that has not looked yet: no wake-up is lost to
\* a newcomer that takes the block first, or to a time-out.
NoLostWakeup ==
  waiters # <<>> => Len(free) <= Cardinality(Woken({"waiting", "woken"}) \cup
                                             {t \in Thread : pc[t] = "again"})
=============================================================================
