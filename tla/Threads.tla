------------------------------ MODULE Threads -------------------------------
(***************************************************************************)
(* Thread management: creation, start-up, suspend and resume of another    *)
(* thread, sleep, yield, priority change, scheduler lock, exit, deletion   *)
(* by another thread, and the idle thread's reaping of dead threads, under *)
(* the tick interrupt.                                                     *)
(*                                                                         *)
(* One step is one interrupt-disabled section, or one access made with     *)
(* interrupts enabled.  Only k.cur takes thread steps; the tick interrupt  *)
(* comes between any two steps.  pc says where in a kernel call a thread   *)
(* is, arg the thread that call is about.                                  *)
(***************************************************************************)
EXTENDS Kernel

CONSTANTS Main,       \* the thread the system starts with
          Parent,     \* who creates, starts and deletes each thread
          Sleepers,   \* threads that call rt_thread_sleep, rt_thread_delay_until
          Exits,      \* threads whose entry function returns
          Victims,    \* threads their parent deletes
          Control,    \* pairs <<t, u>>: t suspends, resumes, re-prioritises u
          Static,     \* threads initialised with rt_thread_init
          Cleanup,    \* the static ones with a cleanup function
          NewPrio,    \* priorities given to RT_THREAD_CTRL_CHANGE_PRIORITY
          MaxNest     \* bound on nested rt_enter_critical

ASSUME ThreadsAssumption ==
  /\ Main \in Thread \ {Idle}
  /\ Parent \in [Thread -> Thread]
  /\ Sleepers \subseteq Thread \ {Idle}
  /\ Exits \subseteq Thread \ {Idle, Main}
  /\ Victims \subseteq Thread \ {Idle, Main}
  /\ Control \subseteq (Thread \ {Idle}) \X (Thread \ {Idle})
  /\ Static \subseteq Thread
  /\ Cleanup \subseteq Static
  /\ NewPrio \subseteq Prio
  /\ MaxNest \in Nat

VARIABLES k, pc, arg
vars == <<k, pc, arg>>

PC == {"run", "sched", "resume_startup", "startup_do", "resume_do",
       "suspend_do", "sleeping", "slept", "delaying", "delayed",
       "del_remove", "del_timer", "del_close", "del_enqueue", "reap_free"}

Init ==
  /\ k = [cur   |-> Main,
          stat  |-> [t \in Thread |-> IF t \in {Main, Idle} THEN "READY" ELSE "NONE"],
          prio  |-> InitPrio,
          err   |-> [t \in Thread |-> RT_EOK],
          armed |-> [t \in Thread |-> FALSE],
          ready |-> [p \in Prio |->
                      IF p = InitPrio[Main]
                      THEN IF p = InitPrio[Idle] THEN <<Main, Idle>> ELSE <<Main>>
                      ELSE IF p = InitPrio[Idle] THEN <<Idle>> ELSE <<>>],
          wait  |-> [q \in WaitList |-> <<>>],
          table |-> [g \in Group |->
                      {high_mask(InitPrio[t]) :
                         t \in {u \in {Main, Idle} : number(InitPrio[u]) = g}}],
          group |-> {number(InitPrio[Main]), number(InitPrio[Idle])},
          nest  |-> 0]
  /\ pc = [t \in Thread |-> "run"]
  /\ arg = [t \in Thread |-> t]

-----------------------------------------------------------------------------
(* t runs and is at control point l; its next one is m, about thread u. *)

At(t, l) == k.cur = t /\ pc[t] = l
Call(t, m, u) ==
  /\ pc' = [pc EXCEPT ![t] = m]
  /\ arg' = [arg EXCEPT ![t] = IF m = "run" THEN t ELSE u]
Goto(t, m) == Call(t, m, arg[t])

\* rt_schedule(), then the caller goes on at m when it is switched in again
Schedule(t, l, m) == At(t, l) /\ k' = rt_schedule(k) /\ Goto(t, m)

\* rt_thread_create or rt_thread_init by the parent
rt_thread_create(t, u) ==
  /\ At(t, "run") /\ Parent[u] = t /\ k.stat[u] = "NONE"
  /\ k' = SetErr(SetPrio(SetStat(k, u, "INIT"), u, InitPrio[u]), u, RT_EOK)
  /\ Call(u, "run", u)

\* rt_thread_startup: the state is written, then rt_thread_resume is called
rt_thread_startup(t, u) ==
  /\ At(t, "run") /\ Parent[u] = t /\ k.stat[u] = "INIT"
  /\ k' = SetStat(SetPrio(k, u, InitPrio[u]), u, "SUSPEND")
  /\ Call(t, "resume_startup", u)

\* rt_thread_resume: the state is checked with interrupts enabled
StartupCheck(t) ==
  /\ At(t, "resume_startup") /\ UNCHANGED k
  /\ Goto(t, IF k.stat[arg[t]] = "SUSPEND" THEN "startup_do" ELSE "sched")

StartupResume(t) ==
  At(t, "startup_do") /\ k' = ResumeSection(k, arg[t]) /\ Goto(t, "sched")

ResumeCall(t, u) ==
  /\ At(t, "run") /\ <<t, u>> \in Control /\ k.stat[u] # "NONE"
  /\ UNCHANGED k
  /\ Call(t, IF k.stat[u] = "SUSPEND" THEN "resume_do" ELSE "run", u)

ResumeDo(t) == At(t, "resume_do") /\ k' = ResumeSection(k, arg[t]) /\ Goto(t, "run")

\* rt_thread_suspend: check, then section; a thread that suspends itself
\* goes on to rt_schedule()
SuspendCall(t, u) ==
  /\ At(t, "run") /\ <<t, u>> \in Control /\ k.stat[u] # "NONE"
  /\ UNCHANGED k
  /\ Call(t, IF k.stat[u] = "READY" THEN "suspend_do" ELSE "run", u)

SuspendDo(t) ==
  /\ At(t, "suspend_do") /\ k' = SuspendSection(k, arg[t])
  /\ Goto(t, IF arg[t] = t THEN "sched" ELSE "run")

\* RT_THREAD_CTRL_CHANGE_PRIORITY
rt_thread_control(t, u, p) ==
  /\ At(t, "run") /\ <<t, u>> \in Control /\ k.stat[u] # "NONE"
  /\ k' = ChangePriority(k, u, p) /\ UNCHANGED <<pc, arg>>

Yield(t) == At(t, "run") /\ k' = rt_thread_yield(k) /\ UNCHANGED <<pc, arg>>

\* rt_thread_sleep: suspend self and start the thread timer
rt_thread_sleep(t) ==
  /\ At(t, "run") /\ t \in Sleepers
  /\ k' = Started(rt_thread_suspend(k, t), t) /\ Goto(t, "sleeping")

SleepReturn(t) ==
  /\ At(t, "slept")
  /\ k' = IF k.err[t] = RT_ETIMEOUT THEN SetErr(k, t, RT_EOK) ELSE k
  /\ Goto(t, "run")

\* rt_thread_delay_until: as sleep when the period is not over yet
rt_thread_delay_until(t) ==
  /\ At(t, "run") /\ t \in Sleepers
  /\ k' = Started(rt_thread_suspend(k, t), t) /\ Goto(t, "delaying")

DelayReturn(t) ==
  /\ At(t, "delayed")
  /\ k' = IF k.err[t] = -RT_ETIMEOUT THEN SetErr(k, t, RT_EOK) ELSE k
  /\ Goto(t, "run")

rt_enter_critical(t) ==
  /\ At(t, "run") /\ t # Idle /\ k.nest < MaxNest
  /\ k' = [k EXCEPT !.nest = @ + 1] /\ UNCHANGED <<pc, arg>>

ExitNest(n) == IF n - 1 <= 0 THEN 0 ELSE n - 1

rt_exit_critical(t) ==
  /\ At(t, "run") /\ k.nest > 0
  /\ k' = [k EXCEPT !.nest = ExitNest(@)]
  /\ Goto(t, IF ExitNest(k.nest) = 0 THEN "sched" ELSE "run")

-----------------------------------------------------------------------------
(* Death: a static thread without cleanup is only detached, the others are  *)
(* put at the head of the defunct list for the idle thread.                 *)

Enqueue(ks, u) ==
  IF u \in Static \ Cleanup
  THEN SetStat(ks, u, "NONE")
  ELSE [ks EXCEPT !.wait = [@ EXCEPT ![Defunct] = <<u>> \o ks.wait[Defunct]]]

\* rt_thread_exit: one section, with the scheduler lock taken and given back
rt_thread_exit(t) ==
  /\ At(t, "run") /\ t \in Exits /\ k.nest = 0
  /\ k' = rt_schedule(Enqueue(
            Stopped(SetStat(rt_schedule_remove_thread(k, t), t, "CLOSE"), t), t))
  /\ UNCHANGED <<pc, arg>>

\* mutant: a closed thread is deleted again
rt_thread_delete_again(t, u) ==
  /\ At(t, "run") /\ Parent[u] = t /\ u \in Victims /\ u # t
  /\ k.stat[u] # "NONE" /\ UNCHANGED k
  /\ Call(t, IF k.stat[u] = "INIT" THEN "del_timer" ELSE "del_remove", u)

\* rt_thread_delete and rt_thread_detach by the parent
rt_thread_delete(t, u) ==
  /\ At(t, "run") /\ Parent[u] = t /\ u \in Victims /\ u # t
  /\ k.stat[u] # "NONE" /\ UNCHANGED k
  /\ Call(t, CASE k.stat[u] = "CLOSE" -> "run"
               [] k.stat[u] = "INIT"  -> "del_timer"
               [] OTHER               -> "del_remove", u)

DeleteRemove(t) ==
  At(t, "del_remove") /\ k' = rt_schedule_remove_thread(k, arg[t]) /\ Goto(t, "del_timer")

DeleteTimer(t) == At(t, "del_timer") /\ k' = Stopped(k, arg[t]) /\ Goto(t, "del_close")

DeleteClose(t) ==
  At(t, "del_close") /\ k' = SetStat(k, arg[t], "CLOSE") /\ Goto(t, "del_enqueue")

DeleteEnqueue(t) == At(t, "del_enqueue") /\ k' = Enqueue(k, arg[t]) /\ Goto(t, "run")

\* rt_defunct_execute: a static thread is detached and the scheduler
\* unlocked, the memory of a dynamic one is freed after the section
rt_defunct_execute ==
  LET u == Head(k.wait[Defunct])
      k1 == rt_list_remove(k, u)
  IN  /\ At(Idle, "run") /\ k.wait[Defunct] # <<>>
      /\ IF u \in Static
         THEN /\ k' = rt_schedule([SetStat(k1, u, "NONE") EXCEPT !.nest = ExitNest(@)])
              /\ UNCHANGED <<pc, arg>>
         ELSE k' = k1 /\ Call(Idle, "reap_free", u)

ReapFree ==
  At(Idle, "reap_free") /\ k' = SetStat(k, arg[Idle], "NONE") /\ Goto(Idle, "run")

-----------------------------------------------------------------------------
(* rt_tick_increase: the slice of the current thread ends, or a thread      *)
(* timer expires; both may happen at any tick.                              *)

TickSlice == k' = rt_thread_yield(k) /\ UNCHANGED <<pc, arg>>

TickTimeout(u) ==
  k.armed[u] /\ k' = rt_thread_timeout(k, u) /\ UNCHANGED <<pc, arg>>

Step(t) ==
  \/ \E u \in Thread : \/ rt_thread_create(t, u)
                       \/ rt_thread_startup(t, u)
                       \/ rt_thread_delete(t, u)
                       \/ ResumeCall(t, u)
                       \/ SuspendCall(t, u)
                       \/ \E p \in NewPrio : rt_thread_control(t, u, p)
  \/ StartupCheck(t) \/ StartupResume(t) \/ ResumeDo(t) \/ SuspendDo(t)
  \/ Schedule(t, "sched", "run")
  \/ rt_thread_sleep(t) \/ Schedule(t, "sleeping", "slept") \/ SleepReturn(t)
  \/ rt_thread_delay_until(t) \/ Schedule(t, "delaying", "delayed") \/ DelayReturn(t)
  \/ Yield(t) \/ rt_enter_critical(t) \/ rt_exit_critical(t)
  \/ rt_thread_exit(t)
  \/ DeleteRemove(t) \/ DeleteTimer(t) \/ DeleteClose(t) \/ DeleteEnqueue(t)

Next ==
  \/ \E t \in Thread \ {Idle} : Step(t)
  \/ \E t \in Thread : TickTimeout(t)
  \/ rt_defunct_execute \/ ReapFree
  \/ TickSlice

Spec == Init /\ [][Next]_vars

-----------------------------------------------------------------------------
(* Usage under which the kernel's lists stay sound.  The checks of         *)
(* rt_thread_suspend, rt_thread_resume and rt_thread_delete are made with  *)
(* interrupts enabled, so a caller must know that the thread it names does *)
(* not die, wake up or get deleted in between.                             *)

Disciplined ==
  /\ Victims \cap Sleepers = {}
  /\ Victims \cap Exits = {}
  /\ \A u \in Victims : Parent[u] \notin Victims
  /\ \A c \in Control : c[2] \notin Victims \cup Exits

\* threads a parent or the idle thread has taken off their list and is not
\* done with
limbo == {arg[t] : t \in {u \in Thread :
             pc[u] \in {"del_timer", "del_close", "del_enqueue", "reap_free"}}}

TypeOK == k \in KernelState /\ pc \in [Thread -> PC] /\ arg \in [Thread -> Thread]

\* A thread is linked into exactly the list its state says: the ready list of
\* its priority, one wait list, the defunct list, or none (thread->tlist).
ListsOK == ReadyListed(k, limbo) /\ ListsSound(k, limbo)

\* The two-level bitmap rt_schedule looks into agrees with the ready lists.
BitmapOK == BitmapSound(k)

\* RT_ASSERT of rt_thread_timeout: a thread timer only runs while its thread
\* is suspended.
TimerAssert == TimerSound(k)

\* The processor never runs on in a thread that is suspended, closed or freed,
\* except for the way to rt_schedule() or while the scheduler is locked.
RunningIsReady ==
  \/ k.stat[k.cur] = "READY"
  \/ k.stat[k.cur] = "SUSPEND" /\ (k.nest > 0 \/ pc[k.cur] \in {"sched", "sleeping", "delaying"})

-----------------------------------------------------------------------------
(* The inductive invariant: what a thread inside a kernel call may rely on. *)

RunningOK ==
  /\ RunningIsReady /\ k.cur \notin limbo
  /\ k.nest >= 0 /\ (k.nest > 0 => k.cur # Idle)

\* only the parent deletes, and it lives as long as the call takes
DeletingOK ==
  \A t \in Thread :
    pc[t] \in {"del_remove", "del_timer", "del_close", "del_enqueue"} =>
      /\ arg[t] \in Victims /\ Parent[arg[t]] = t
      /\ k.stat[t] \in {"READY", "SUSPEND"}
      /\ IF pc[t] = "del_enqueue" THEN k.stat[arg[t]] = "CLOSE"
         ELSE k.stat[arg[t]] \in {"INIT", "READY", "SUSPEND"}

ReapingOK ==
  /\ pc[Idle] \in {"run", "reap_free"}
  /\ \A t \in Thread : pc[t] = "reap_free" =>
       /\ t = Idle /\ k.stat[arg[t]] = "CLOSE"
       /\ \A u \in Thread : pc[u] = "del_enqueue" => arg[u] # arg[t]

ActingOK ==
  \A t \in Thread : pc[t] \in {"resume_do", "suspend_do"} =>
    arg[t] \notin Victims \cup Exits \cup {Idle}

StartingOK ==
  \A t \in Thread : pc[t] \in {"resume_startup", "startup_do"} =>
    /\ arg[t] # Idle /\ Parent[arg[t]] = t
    /\ k.stat[arg[t]] \in {"READY", "SUSPEND"}
    /\ arg[t] \in Exits =>
         k.stat[arg[t]] = "SUSPEND" /\ ~k.armed[arg[t]] /\ arg[t] # k.cur

MortalOK ==
  /\ \A u \in Thread : k.stat[u] = "CLOSE" => u \in Victims \cup Exits
  /\ \A u \in Victims : ~k.armed[u]

Inv ==
  /\ TypeOK /\ KernelInv(k, limbo)
  /\ RunningOK /\ DeletingOK /\ ReapingOK /\ ActingOK /\ StartingOK /\ MortalOK

-----------------------------------------------------------------------------
\* Every context switch goes to a ready thread no ready thread outranks.
SwitchToHighest ==
  [][k'.cur # k.cur =>
       /\ k'.stat[k'.cur] = "READY"
       /\ \A u \in Thread \ limbo' :
            k'.stat[u] = "READY" => k'.prio[k'.cur] <= k'.prio[u]]_vars

\* Between rt_enter_critical and rt_exit_critical no other thread runs,
\* whatever the tick interrupt wakes.
LockedNotPreempted == [][k.nest > 0 => k'.cur = k.cur]_vars
=============================================================================
