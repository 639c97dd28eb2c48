--------------------------- MODULE ThreadsProofs ----------------------------
(***************************************************************************)
(* Inv of module Threads is inductive under the usage hypothesis           *)
(* Disciplined, for any number of threads, priorities and list heads.  The *)
(* lemmas of KernelProofs say what each kernel operator does to a sound    *)
(* kernel state; here they are put together action by action.              *)
(***************************************************************************)
EXTENDS Threads, KernelProofs

Off == {"del_timer", "del_close", "del_enqueue", "reap_free"}
Del == {"del_remove", "del_timer", "del_close", "del_enqueue"}

\* What is known of a thread that is off every list.
LEMMA LimboFacts ==
  ASSUME Inv, NEW u \in limbo
  PROVE  /\ u \in Thread /\ u \in Victims \cup Exits /\ ~k.armed[u]
         /\ k.stat[u] # "NONE" /\ u # Idle
         /\ k.stat[u] # "CLOSE" => pc[Parent[u]] \in {"del_timer", "del_close"}
<1>1. PICK t \in Thread : u = arg[t] /\ pc[t] \in Off
  BY DEF limbo, Off
<1>2. u \in Thread /\ k \in KernelState
  BY <1>1 DEF Inv, TypeOK
<1>3. CASE pc[t] = "reap_free"
  <2>1. k.stat[u] = "CLOSE"
    BY <1>1, <1>3 DEF Inv, ReapingOK
  <2>2. u \in Victims \cup Exits /\ ~k.armed[u]
    BY <2>1, <1>2 DEF Inv, MortalOK, KernelInv, TimerSound
  <2> QED BY <1>2, <2>1, <2>2 DEF Inv, KernelInv, IdleReady
<1>4. CASE pc[t] # "reap_free"
  <2>1. /\ u \in Victims /\ Parent[u] = t /\ k.stat[u] # "NONE"
        /\ pc[t] = "del_enqueue" => k.stat[u] = "CLOSE"
    BY <1>1, <1>4 DEF Inv, DeletingOK, Off
  <2>2. ~k.armed[u]
    BY <2>1 DEF Inv, MortalOK
  <2>3. u # Idle
    BY <2>1, ThreadsAssumption
  <2> QED BY <1>1, <1>2, <1>4, <2>1, <2>2, <2>3 DEF Off
<1> QED BY <1>3, <1>4

\* A call whose control points are outside Off leaves limbo alone.
LEMMA LimboSame ==
  ASSUME TypeOK, NEW t \in Thread, NEW m, NEW u, pc[t] \notin Off, m \notin Off, Call(t, m, u)
  PROVE  limbo' = limbo
<1>1. \A x \in Thread : x # t => pc'[x] = pc[x] /\ arg'[x] = arg[x]
  BY DEF Call, TypeOK
<1>2. pc'[t] = m
  BY DEF Call, TypeOK
<1> QED BY <1>1, <1>2 DEF limbo, Off

\* The next control state is well typed.
LEMMA CallType ==
  ASSUME TypeOK, NEW t \in Thread, NEW m \in PC, NEW u \in Thread, Call(t, m, u)
  PROVE  /\ pc' \in [Thread -> PC] /\ arg' \in [Thread -> Thread]
         /\ pc'[t] = m /\ (m # "run" => arg'[t] = u)
         /\ \A x \in Thread : x # t => pc'[x] = pc[x] /\ arg'[x] = arg[x]
  BY DEF Call, TypeOK

\* What the action properties say of a step.
Switch ==
  /\ k'.cur # k.cur => Highest(k', limbo', k'.cur)
  /\ k.nest > 0 => k'.cur = k.cur

\* A thread that is not mortal is in nobody's hands.
LEMMA ImmortalFree ==
  ASSUME Inv, NEW u, u \notin Victims \cup Exits
  PROVE  u \notin limbo
  BY LimboFacts

\* Nor is a thread whose parent is not deleting anything.
LEMMA ChildFree ==
  ASSUME Inv, NEW u, k.stat[u] # "CLOSE", pc[Parent[u]] \notin Del
  PROVE  u \notin limbo
  BY LimboFacts DEF Del

-----------------------------------------------------------------------------
(* The tick interrupt. *)

LEMMA TickSliceInv ==
  ASSUME Disciplined, Inv, TickSlice
  PROVE  Inv' /\ Switch
<1>1. /\ KernelInv(k, limbo) /\ k.cur \notin limbo
      /\ k' = rt_thread_yield(k) /\ limbo' = limbo /\ pc' = pc /\ arg' = arg
  BY DEF Inv, RunningOK, TickSlice, limbo
<1>2. /\ KernelInv(k', limbo)
      /\ k'.stat = k.stat /\ k'.prio = k.prio /\ k'.err = k.err
      /\ k'.armed = k.armed /\ k'.nest = k.nest
      /\ k.nest # 0 => k'.cur = k.cur
      /\ k'.cur # k.cur => Highest(k', limbo, k'.cur)
  BY <1>1, YieldOK
<1>3. TypeOK' /\ KernelInv(k', limbo')
  BY <1>1, <1>2 DEF Inv, TypeOK, KernelInv
<1>4. RunningOK'
  BY <1>1, <1>2 DEF Inv, RunningOK, RunningIsReady, Highest, TypeOK, KernelState
<1>5. DeletingOK' /\ ReapingOK' /\ ActingOK' /\ MortalOK'
  BY <1>1, <1>2 DEF Inv, DeletingOK, ReapingOK, ActingOK, MortalOK
<1>6. StartingOK'
  BY <1>1, <1>2 DEF Inv, StartingOK, Highest
<1>7. Switch
  BY <1>1, <1>2 DEF Switch
<1> QED BY <1>3, <1>4, <1>5, <1>6, <1>7 DEF Inv

LEMMA TickTimeoutInv ==
  ASSUME Disciplined, Inv, NEW u \in Thread, TickTimeout(u)
  PROVE  Inv' /\ Switch
<1>1. /\ KernelInv(k, limbo) /\ k.armed[u] = TRUE /\ u \notin Victims
      /\ k' = rt_thread_timeout(k, u) /\ limbo' = limbo /\ pc' = pc /\ arg' = arg
  BY DEF Inv, MortalOK, TickTimeout, limbo
<1>2. u \notin limbo /\ k.stat[u] = "SUSPEND"
  BY <1>1, LimboFacts DEF KernelInv, TimerSound
<1>3. /\ KernelInv(k', limbo)
      /\ k'.prio = k.prio /\ k'.nest = k.nest
      /\ k'.stat = [k.stat EXCEPT ![u] = "READY"]
      /\ k'.armed = [k.armed EXCEPT ![u] = FALSE]
      /\ k'.err = [k.err EXCEPT ![u] = RT_ETIMEOUT]
      /\ k.nest # 0 => k'.cur = k.cur
      /\ k.nest = 0 => Highest(k', limbo, k'.cur)
  <2>1. KernelInv(k', limbo) /\ TimedOut(k', k, limbo, u)
    BY <1>1, <1>2, TimeoutOK
  <2> QED BY <2>1 DEF TimedOut
<1>4. TypeOK' /\ KernelInv(k', limbo')
  BY <1>1, <1>3 DEF Inv, TypeOK, KernelInv
<1>5. /\ \A t \in Thread : k'.stat[t] = IF t = u THEN "READY" ELSE k.stat[t]
      /\ \A t \in Thread : k'.armed[t] => k.armed[t]
  BY <1>3, <1>4 DEF Inv, TypeOK, KernelState
<1>6. RunningOK'
  BY <1>1, <1>2, <1>3, <1>5 DEF Inv, RunningOK, RunningIsReady, Highest, TypeOK, KernelState
<1>7. DeletingOK'
  BY <1>1, <1>2, <1>5 DEF Inv, DeletingOK, TypeOK
<1>8. ReapingOK' /\ ActingOK' /\ MortalOK'
  BY <1>1, <1>2, <1>5, ThreadsAssumption DEF Inv, ReapingOK, ActingOK, MortalOK, TypeOK
<1>9. StartingOK'
  BY <1>1, <1>2, <1>3, <1>5 DEF Inv, StartingOK, Highest, TypeOK
<1>10. Switch
  BY <1>1, <1>3 DEF Switch, Inv, RunningOK, TypeOK, KernelState
<1> QED BY <1>4, <1>6, <1>7, <1>8, <1>9, <1>10 DEF Inv

-----------------------------------------------------------------------------
(* Calls that only move between control points. *)

LEMMA CheckInv ==
  ASSUME Disciplined, Inv, NEW t \in Thread \ {Idle}, k' = k,
         \/ StartupCheck(t)
         \/ \E u \in Thread : ResumeCall(t, u) \/ SuspendCall(t, u)
  PROVE  Inv' /\ Switch
<1>1. PICK m \in {"startup_do", "sched", "resume_do", "suspend_do", "run"}, u \in Thread :
        /\ k.cur = t /\ pc[t] \in {"run", "resume_startup"} /\ Call(t, m, u)
        /\ m = "startup_do" => u = arg[t] /\ pc[t] = "resume_startup"
        /\ m \in {"resume_do", "suspend_do"} => <<t, u>> \in Control
        /\ m = "sched" => pc[t] = "resume_startup"
  BY DEF StartupCheck, ResumeCall, SuspendCall, At, Goto, Inv, TypeOK
<1>2. m \in PC /\ m \notin Off /\ pc[t] \notin Off
  BY <1>1 DEF PC, Off
<1>3. /\ pc' \in [Thread -> PC] /\ arg' \in [Thread -> Thread] /\ limbo' = limbo
      /\ pc'[t] = m /\ (m # "run" => arg'[t] = u)
      /\ \A x \in Thread : x # t => pc'[x] = pc[x] /\ arg'[x] = arg[x]
  BY <1>1, <1>2, CallType, LimboSame DEF Inv
<1>4. TypeOK' /\ KernelInv(k', limbo')
  BY <1>3 DEF Inv, TypeOK
<1>5. RunningOK'
  BY <1>1, <1>3 DEF Inv, RunningOK, RunningIsReady, TypeOK, KernelState
<1>6. DeletingOK' /\ ReapingOK' /\ MortalOK'
  BY <1>1, <1>3, KernelAssumption DEF Inv, DeletingOK, ReapingOK, MortalOK
<1>7. ActingOK'
  <2>1. m \in {"resume_do", "suspend_do"} => u \notin Victims \cup Exits \cup {Idle}
    BY <1>1, ThreadsAssumption DEF Disciplined
  <2> QED BY <1>3, <2>1 DEF Inv, ActingOK
<1>8. StartingOK'
  BY <1>1, <1>3 DEF Inv, StartingOK
<1> QED BY <1>4, <1>5, <1>6, <1>7, <1>8 DEF Inv, Switch

\* rt_schedule() on the way out of a call.
LEMMA ScheduleInv ==
  ASSUME Disciplined, Inv, NEW t \in Thread \ {Idle},
         \/ Schedule(t, "sched", "run")
         \/ Schedule(t, "sleeping", "slept")
         \/ Schedule(t, "delaying", "delayed")
  PROVE  Inv' /\ Switch
<1>1. PICK m \in {"run", "slept", "delayed"} :
        /\ k.cur = t /\ pc[t] \in {"sched", "sleeping", "delaying"}
        /\ k' = rt_schedule(k) /\ Call(t, m, arg[t])
  BY DEF Schedule, At, Goto
<1>2. m \in PC /\ m \notin Off /\ pc[t] \notin Off /\ arg[t] \in Thread
  BY <1>1 DEF PC, Off, Inv, TypeOK
<1>3. /\ pc' \in [Thread -> PC] /\ arg' \in [Thread -> Thread] /\ limbo' = limbo
      /\ pc'[t] = m
      /\ \A x \in Thread : x # t => pc'[x] = pc[x] /\ arg'[x] = arg[x]
  BY <1>1, <1>2, CallType, LimboSame DEF Inv
<1>4. /\ KernelInv(k', limbo)
      /\ k'.stat = k.stat /\ k'.armed = k.armed /\ k'.nest = k.nest
      /\ k.nest # 0 => k'.cur = k.cur
      /\ k.nest = 0 => Highest(k', limbo, k'.cur)
  BY <1>1, ScheduleOK DEF Inv
<1>5. TypeOK' /\ KernelInv(k', limbo')
  BY <1>3, <1>4 DEF TypeOK, KernelInv
<1>6. RunningOK'
  BY <1>1, <1>3, <1>4 DEF Inv, RunningOK, RunningIsReady, Highest, TypeOK, KernelState
<1>7. DeletingOK' /\ ReapingOK' /\ ActingOK' /\ MortalOK'
  BY <1>1, <1>3, <1>4, KernelAssumption DEF Inv, DeletingOK, ReapingOK, ActingOK, MortalOK
<1>8. StartingOK'
  BY <1>1, <1>3, <1>4 DEF Inv, StartingOK, Highest
<1>9. Switch
  BY <1>3, <1>4 DEF Switch, Inv, RunningOK, TypeOK, KernelState
<1> QED BY <1>5, <1>6, <1>7, <1>8, <1>9 DEF Inv

LEMMA YieldInv ==
  ASSUME Disciplined, Inv, NEW t \in Thread, Yield(t)
  PROVE  Inv' /\ Switch
<1>1. TickSlice
  BY DEF Yield, TickSlice
<1> QED BY <1>1, TickSliceInv

\* Returning from a sleep: only thread->error may change.
LEMMA ReturnInv ==
  ASSUME Disciplined, Inv, NEW t \in Thread \ {Idle}, SleepReturn(t) \/ DelayReturn(t)
  PROVE  Inv' /\ Switch
<1>1. /\ k.cur = t /\ pc[t] \in {"slept", "delayed"} /\ Call(t, "run", arg[t])
      /\ k' = SetErr(k, t, RT_EOK) \/ k' = k
  BY DEF SleepReturn, DelayReturn, At, Goto
<1>2. "run" \in PC /\ "run" \notin Off /\ pc[t] \notin Off /\ arg[t] \in Thread /\ RT_EOK \in ErrNo
  BY <1>1 DEF PC, Off, Inv, TypeOK, ErrNo
<1>3. /\ pc' \in [Thread -> PC] /\ arg' \in [Thread -> Thread] /\ limbo' = limbo
      /\ pc'[t] = "run"
      /\ \A x \in Thread : x # t => pc'[x] = pc[x] /\ arg'[x] = arg[x]
  BY <1>1, <1>2, CallType, LimboSame DEF Inv
<1>4. /\ KernelInv(k', limbo) /\ k'.stat = k.stat /\ k'.armed = k.armed
      /\ k'.nest = k.nest /\ k'.cur = k.cur
  <2>1. CASE k' = k
    BY <2>1 DEF Inv
  <2>2. CASE k' = SetErr(k, t, RT_EOK)
    <3>1. KernelInv(k, limbo) /\ t \in Thread
      BY DEF Inv
    <3>2. KernelInv(k', limbo) /\ Unmoved(k', k)
      BY <3>1, <2>2, <1>2, SetErrUnmoved
    <3> QED BY <3>2 DEF Unmoved
  <2> QED BY <1>1, <2>1, <2>2
<1>5. TypeOK' /\ KernelInv(k', limbo')
  BY <1>3, <1>4 DEF TypeOK, KernelInv
<1>6. RunningOK'
  BY <1>1, <1>3, <1>4 DEF Inv, RunningOK, RunningIsReady, TypeOK, KernelState
<1>7. DeletingOK' /\ ReapingOK' /\ ActingOK' /\ MortalOK' /\ StartingOK'
  BY <1>1, <1>3, <1>4, KernelAssumption
  DEF Inv, DeletingOK, ReapingOK, ActingOK, MortalOK, StartingOK
<1> QED BY <1>4, <1>5, <1>6, <1>7 DEF Inv, Switch

-----------------------------------------------------------------------------
(* Scheduler lock. *)

\* A kernel state that differs in rt_scheduler_lock_nest only.
LEMMA SetNestOK ==
  ASSUME NEW i, NEW X, KernelInv(i, X), NEW n \in Int, NEW j, j = [i EXCEPT !.nest = n]
  PROVE  /\ KernelInv(j, X) /\ j.nest = n /\ j.cur = i.cur
         /\ j.stat = i.stat /\ j.armed = i.armed
<1>1. /\ j \in KernelState /\ SameLists(j, i) /\ j.nest = n /\ j.cur = i.cur
      /\ j.stat = i.stat /\ j.prio = i.prio /\ j.armed = i.armed
  BY DEF KernelInv, KernelState, SameLists
<1>2. TimerSound(j)
  BY <1>1 DEF KernelInv, TimerSound
<1> QED BY <1>1, <1>2, SameListsOK

LEMMA EnterCriticalInv ==
  ASSUME Disciplined, Inv, NEW t \in Thread \ {Idle}, rt_enter_critical(t)
  PROVE  Inv' /\ Switch
<1>1. /\ KernelInv(k, limbo) /\ k.nest \in Int /\ k' = [k EXCEPT !.nest = k.nest + 1]
      /\ pc' = pc /\ arg' = arg /\ limbo' = limbo /\ k.cur = t
  BY DEF rt_enter_critical, At, Inv, TypeOK, KernelState, limbo
<1>2. /\ KernelInv(k', limbo) /\ k'.nest = k.nest + 1 /\ k'.cur = k.cur
      /\ k'.stat = k.stat /\ k'.armed = k.armed
  BY <1>1, SetNestOK
<1>3. TypeOK' /\ KernelInv(k', limbo')
  BY <1>1, <1>2 DEF Inv, TypeOK, KernelInv
<1>4. RunningOK'
  BY <1>1, <1>2 DEF Inv, RunningOK, RunningIsReady
<1>5. DeletingOK' /\ ReapingOK' /\ ActingOK' /\ MortalOK' /\ StartingOK'
  BY <1>1, <1>2 DEF Inv, DeletingOK, ReapingOK, ActingOK, MortalOK, StartingOK
<1> QED BY <1>2, <1>3, <1>4, <1>5 DEF Inv, Switch

LEMMA ExitCriticalInv ==
  ASSUME Disciplined, Inv, NEW t \in Thread \ {Idle}, rt_exit_critical(t)
  PROVE  Inv' /\ Switch
<1>1. PICK m \in {"run", "sched"} :
        /\ KernelInv(k, limbo) /\ k.nest \in Int /\ k.nest > 0 /\ k.cur = t
        /\ pc[t] = "run" /\ k' = [k EXCEPT !.nest = ExitNest(k.nest)]
        /\ Call(t, m, arg[t]) /\ (m = "run" => ExitNest(k.nest) # 0)
  BY DEF rt_exit_critical, At, Goto, Inv, TypeOK, KernelState
<1>2. m \in PC /\ m \notin Off /\ pc[t] \notin Off /\ arg[t] \in Thread
  BY <1>1 DEF PC, Off, Inv, TypeOK
<1>3. /\ pc' \in [Thread -> PC] /\ arg' \in [Thread -> Thread] /\ limbo' = limbo
      /\ pc'[t] = m
      /\ \A x \in Thread : x # t => pc'[x] = pc[x] /\ arg'[x] = arg[x]
  BY <1>1, <1>2, CallType, LimboSame DEF Inv
<1>4. ExitNest(k.nest) \in Int /\ ExitNest(k.nest) >= 0
  BY <1>1 DEF ExitNest
<1>5. /\ KernelInv(k', limbo) /\ k'.nest = ExitNest(k.nest) /\ k'.cur = k.cur
      /\ k'.stat = k.stat /\ k'.armed = k.armed
  BY <1>1, <1>4, SetNestOK
<1>6. TypeOK' /\ KernelInv(k', limbo')
  BY <1>3, <1>5 DEF TypeOK, KernelInv
<1>7. RunningOK'
  BY <1>1, <1>3, <1>4, <1>5 DEF Inv, RunningOK, RunningIsReady
<1>8. DeletingOK' /\ ReapingOK' /\ ActingOK' /\ MortalOK' /\ StartingOK'
  BY <1>1, <1>3, <1>5, KernelAssumption
  DEF Inv, DeletingOK, ReapingOK, ActingOK, MortalOK, StartingOK
<1> QED BY <1>5, <1>6, <1>7, <1>8 DEF Inv, Switch

-----------------------------------------------------------------------------
(* Suspend, resume, sleep, priority. *)

\* The section of rt_thread_resume, called by a controlling thread or by
\* rt_thread_startup.
LEMMA ResumeInv ==
  ASSUME Disciplined, Inv, NEW t \in Thread \ {Idle}, StartupResume(t) \/ ResumeDo(t)
  PROVE  Inv' /\ Switch
<1> DEFINE u == arg[t]
<1>1. PICK m \in {"run", "sched"} :
        /\ k.cur = t /\ pc[t] \in {"startup_do", "resume_do"}
        /\ k' = ResumeSection(k, u) /\ Call(t, m, u)
        /\ m = "run" => pc[t] = "resume_do"
  BY DEF StartupResume, ResumeDo, At, Goto
<1>2. m \in PC /\ m \notin Off /\ pc[t] \notin Off /\ u \in Thread
  BY <1>1 DEF PC, Off, Inv, TypeOK
<1>3. /\ pc' \in [Thread -> PC] /\ arg' \in [Thread -> Thread] /\ limbo' = limbo
      /\ pc'[t] = m
      /\ \A x \in Thread : x # t => pc'[x] = pc[x] /\ arg'[x] = arg[x]
  BY <1>1, <1>2, CallType, LimboSame DEF Inv
<1>4. u # Idle /\ u \notin limbo /\ (u \in Victims \cup Exits => Parent[u] = t /\ k.stat[u] # "CLOSE")
  <2>1. CASE pc[t] = "startup_do"
    <3>1. u # Idle /\ Parent[u] = t /\ k.stat[u] # "CLOSE"
      BY <2>1 DEF Inv, StartingOK
    <3>2. pc[Parent[u]] \notin Del
      BY <3>1, <2>1 DEF Del
    <3> HIDE DEF u
    <3> QED BY <3>1, <3>2, ChildFree
  <2>2. CASE pc[t] = "resume_do"
    <3>1. u \notin Victims \cup Exits \cup {Idle}
      BY <2>2 DEF Inv, ActingOK
    <3> HIDE DEF u
    <3> QED BY <3>1, ImmortalFree
  <2> QED BY <1>1, <2>1, <2>2
<1> HIDE DEF u
<1>5. /\ KernelInv(k', limbo) /\ k'.cur = k.cur /\ k'.nest = k.nest
      /\ k'.stat = [k.stat EXCEPT ![u] = "READY"]
      /\ k'.armed = [k.armed EXCEPT ![u] = FALSE]
  <2>1. KernelInv(k, limbo) /\ u \in Thread \ {Idle}
    BY <1>2, <1>4 DEF Inv
  <2>2. KernelInv(k', limbo) /\ Moved(k', k, u, "READY", FALSE)
    BY <1>1, <1>4, <2>1, ResumeMoves
  <2> QED BY <2>2 DEF Moved
<1>6. TypeOK' /\ KernelInv(k', limbo')
  BY <1>3, <1>5 DEF TypeOK, KernelInv
<1>7. /\ \A x \in Thread : k'.stat[x] = IF x = u THEN "READY" ELSE k.stat[x]
      /\ \A x \in Thread : k'.armed[x] => k.armed[x]
  BY <1>5, <1>6 DEF Inv, TypeOK, KernelState
<1>8. RunningOK'
  BY <1>1, <1>3, <1>5, <1>7 DEF Inv, RunningOK, RunningIsReady, TypeOK, KernelState
<1>9. DeletingOK'
  <2>1. ASSUME NEW x \in Thread, pc'[x] \in Del
        PROVE  x # t /\ (arg[x] = u => pc[x] # "del_enqueue")
    <3>1. x # t
      BY <2>1, <1>3 DEF Del
    <3>2. arg[x] = u /\ pc[x] = "del_enqueue" => u \in limbo
      BY DEF limbo
    <3> QED BY <3>1, <3>2, <1>4
  <2> QED BY <1>3, <1>7, <2>1 DEF Inv, DeletingOK, TypeOK, Del
<1>10. ReapingOK'
  <2>1. pc[Idle] = "reap_free" => arg[Idle] # u
    BY <1>4, KernelAssumption DEF limbo
  <2> QED BY <1>1, <1>3, <1>7, <2>1, KernelAssumption DEF Inv, ReapingOK, TypeOK
<1>11. ActingOK' /\ MortalOK'
  BY <1>3, <1>7, ThreadsAssumption DEF Inv, ActingOK, MortalOK, TypeOK
<1>12. StartingOK'
  <2>1. ASSUME NEW x \in Thread, pc'[x] \in {"resume_startup", "startup_do"}
        PROVE  x # t /\ (arg[x] = u => u \notin Exits)
    <3>1. x # t
      BY <2>1, <1>3
    <3>2. Parent[arg[x]] = x
      BY <2>1, <3>1, <1>3 DEF Inv, StartingOK
    <3> QED BY <3>1, <3>2, <1>4
  <2> QED BY <1>3, <1>5, <1>7, <2>1 DEF Inv, StartingOK, TypeOK
<1>13. Switch
  BY <1>5 DEF Switch
<1> QED BY <1>6, <1>8, <1>9, <1>10, <1>11, <1>12, <1>13 DEF Inv

LEMMA SuspendInv ==
  ASSUME Disciplined, Inv, NEW t \in Thread \ {Idle}, SuspendDo(t)
  PROVE  Inv' /\ Switch
<1> DEFINE u == arg[t]
<1>1. PICK m \in {"run", "sched"} :
        /\ k.cur = t /\ pc[t] = "suspend_do"
        /\ k' = SuspendSection(k, u) /\ Call(t, m, u)
        /\ m = "run" => u # t
  BY DEF SuspendDo, At, Goto
<1>2. m \in PC /\ m \notin Off /\ pc[t] \notin Off /\ u \in Thread
  BY <1>1 DEF PC, Off, Inv, TypeOK
<1>3. /\ pc' \in [Thread -> PC] /\ arg' \in [Thread -> Thread] /\ limbo' = limbo
      /\ pc'[t] = m
      /\ \A x \in Thread : x # t => pc'[x] = pc[x] /\ arg'[x] = arg[x]
  BY <1>1, <1>2, CallType, LimboSame DEF Inv
<1>4. u \notin Victims \cup Exits \cup {Idle}
  BY <1>1 DEF Inv, ActingOK
<1> HIDE DEF u
<1>5. u \notin limbo
  BY <1>4, ImmortalFree
<1>6. /\ KernelInv(k', limbo) /\ k'.cur = k.cur /\ k'.nest = k.nest
      /\ k'.stat = [k.stat EXCEPT ![u] = "SUSPEND"]
      /\ k'.armed = [k.armed EXCEPT ![u] = FALSE]
  <2>1. KernelInv(k, limbo) /\ u \in Thread \ {Idle}
    BY <1>2, <1>4 DEF Inv
  <2>2. KernelInv(k', limbo) /\ Moved(k', k, u, "SUSPEND", FALSE)
    BY <1>1, <1>5, <2>1, SuspendMoves
  <2> QED BY <2>2 DEF Moved
<1>7. TypeOK' /\ KernelInv(k', limbo')
  BY <1>3, <1>6 DEF TypeOK, KernelInv
<1>8. /\ \A x \in Thread : k'.stat[x] = IF x = u THEN "SUSPEND" ELSE k.stat[x]
      /\ \A x \in Thread : k'.armed[x] => k.armed[x]
  BY <1>6, <1>7 DEF Inv, TypeOK, KernelState
<1>9. RunningOK'
  BY <1>1, <1>3, <1>6, <1>8 DEF Inv, RunningOK, RunningIsReady, TypeOK, KernelState
<1>10. DeletingOK'
  BY <1>1, <1>3, <1>4, <1>8 DEF Inv, DeletingOK, TypeOK
<1>11. ReapingOK'
  <2>1. pc[Idle] = "reap_free" => arg[Idle] # u
    BY <1>5, KernelAssumption DEF limbo
  <2> QED BY <1>1, <1>3, <1>8, <2>1, KernelAssumption DEF Inv, ReapingOK, TypeOK
<1>12. ActingOK' /\ MortalOK'
  BY <1>3, <1>8, ThreadsAssumption DEF Inv, ActingOK, MortalOK, TypeOK
<1>13. StartingOK'
  BY <1>3, <1>4, <1>6, <1>8 DEF Inv, StartingOK, TypeOK
<1>14. Switch
  BY <1>6 DEF Switch
<1> QED BY <1>7, <1>9, <1>10, <1>11, <1>12, <1>13, <1>14 DEF Inv

\* Going to sleep: suspend self, then start the thread timer.
LEMMA SleepInv ==
  ASSUME Disciplined, Inv, NEW t \in Thread \ {Idle},
         rt_thread_sleep(t) \/ rt_thread_delay_until(t)
  PROVE  Inv' /\ Switch
<1>1. PICK m \in {"sleeping", "delaying"} :
        /\ k.cur = t /\ pc[t] = "run" /\ t \in Sleepers
        /\ k' = Started(rt_thread_suspend(k, t), t) /\ Call(t, m, arg[t])
  BY DEF rt_thread_sleep, rt_thread_delay_until, At, Goto
<1>2. m \in PC /\ m \notin Off /\ pc[t] \notin Off /\ arg[t] \in Thread
  BY <1>1 DEF PC, Off, Inv, TypeOK
<1>3. /\ pc' \in [Thread -> PC] /\ arg' \in [Thread -> Thread] /\ limbo' = limbo
      /\ pc'[t] = m
      /\ \A x \in Thread : x # t => pc'[x] = pc[x] /\ arg'[x] = arg[x]
  BY <1>1, <1>2, CallType, LimboSame DEF Inv
<1> DEFINE k1 == rt_thread_suspend(k, t)
<1>4. t \notin limbo /\ k.stat[t] \in {"READY", "SUSPEND"} /\ KernelInv(k, limbo)
  BY <1>1 DEF Inv, RunningOK, RunningIsReady
<1>5. /\ KernelInv(k1, limbo) /\ k1.cur = k.cur /\ k1.nest = k.nest
      /\ k1.stat = [k.stat EXCEPT ![t] = "SUSPEND"]
      /\ \A x \in Thread : x # t => k1.armed[x] = k.armed[x]
  <2>1. CASE k.stat[t] = "READY"
    <3>1. k1 = SuspendSection(k, t)
      BY <2>1 DEF rt_thread_suspend
    <3> HIDE DEF k1
    <3>2. KernelInv(k1, limbo) /\ Moved(k1, k, t, "SUSPEND", FALSE)
      BY <3>1, <1>4, SuspendMoves
    <3> QED BY <3>2 DEF Inv, TypeOK, KernelState, Moved
  <2>2. CASE k.stat[t] = "SUSPEND"
    <3>1. k1 = k
      BY <2>2 DEF rt_thread_suspend
    <3> HIDE DEF k1
    <3> QED BY <3>1, <2>2, <1>4 DEF KernelInv, KernelState
  <2> QED BY <1>4, <2>1, <2>2
<1> HIDE DEF k1
<1>6. /\ KernelInv(k', limbo) /\ k'.cur = k.cur /\ k'.nest = k.nest
      /\ k'.stat = k1.stat
      /\ k'.armed = [k1.armed EXCEPT ![t] = TRUE]
  <2>1. k1.stat[t] = "SUSPEND"
    BY <1>4, <1>5 DEF KernelInv, KernelState
  <2>2. k' = Started(k1, t)
    BY <1>1 DEF k1
  <2>3. KernelInv(k', limbo) /\ Moved(k', k1, t, "SUSPEND", TRUE)
    BY <1>5, <2>1, <2>2, StartedMoves
  <2>4. [k1.stat EXCEPT ![t] = "SUSPEND"] = k1.stat
    BY <1>5, <2>1 DEF KernelInv, KernelState
  <2> QED BY <1>5, <2>3, <2>4 DEF Moved
<1>7. TypeOK' /\ KernelInv(k', limbo')
  BY <1>3, <1>6 DEF TypeOK, KernelInv
<1>8. \A x \in Thread : /\ k'.stat[x] = IF x = t THEN "SUSPEND" ELSE k.stat[x]
                        /\ x # t => k'.armed[x] = k.armed[x]
  <2>0. k.stat \in [Thread -> Stat]
    BY <1>4 DEF KernelInv, KernelState
  <2>1. \A x \in Thread : k'.stat[x] = IF x = t THEN "SUSPEND" ELSE k.stat[x]
    BY <1>5, <1>6, <2>0
  <2>2. k1.armed \in [Thread -> BOOLEAN]
    BY <1>5 DEF KernelInv, KernelState
  <2>3. \A x \in Thread : x # t => k'.armed[x] = k1.armed[x]
    BY <1>6, <2>2
  <2> QED BY <1>5, <2>1, <2>3
<1>9. RunningOK'
  BY <1>1, <1>3, <1>6, <1>8 DEF Inv, RunningOK, RunningIsReady, TypeOK, KernelState
<1>10. DeletingOK' /\ ReapingOK' /\ ActingOK'
  BY <1>1, <1>3, <1>4, <1>8, KernelAssumption DEF Inv, DeletingOK, ReapingOK, ActingOK, TypeOK
<1>11. MortalOK'
  <2>1. t \notin Victims
    BY <1>1 DEF Disciplined
  <2> QED BY <1>8, <2>1, ThreadsAssumption DEF Inv, MortalOK
<1>12. StartingOK'
  <2>1. ASSUME NEW x \in Thread, pc'[x] \in {"resume_startup", "startup_do"}
        PROVE  /\ x # t /\ pc'[x] = pc[x] /\ arg'[x] = arg[x] /\ arg[x] \in Thread
               /\ arg[x] = t => t \notin Exits
    <3>1. x # t
      BY <2>1, <1>3
    <3> QED BY <3>1, <2>1, <1>1, <1>3 DEF Inv, StartingOK, TypeOK
  <2> SUFFICES ASSUME NEW x \in Thread, pc'[x] \in {"resume_startup", "startup_do"}
               PROVE  /\ arg'[x] # Idle /\ Parent[arg'[x]] = x
                      /\ k'.stat[arg'[x]] \in {"READY", "SUSPEND"}
                      /\ arg'[x] \in Exits =>
                           /\ k'.stat[arg'[x]] = "SUSPEND" /\ ~k'.armed[arg'[x]]
                           /\ arg'[x] # k'.cur
    BY DEF StartingOK
  <2>2. /\ arg[x] # Idle /\ Parent[arg[x]] = x /\ k.stat[arg[x]] \in {"READY", "SUSPEND"}
        /\ arg[x] \in Exits =>
             k.stat[arg[x]] = "SUSPEND" /\ ~k.armed[arg[x]] /\ arg[x] # k.cur
    BY <2>1 DEF Inv, StartingOK
  <2>3. CASE arg[x] = t
    BY <1>8, <2>1, <2>2, <2>3
  <2>4. CASE arg[x] # t
    <3>1. k'.stat[arg[x]] = k.stat[arg[x]] /\ k'.armed[arg[x]] = k.armed[arg[x]]
      BY <1>8, <2>1, <2>4
    <3> QED BY <1>6, <2>1, <2>2, <3>1
  <2> QED BY <2>3, <2>4
<1>13. Switch
  BY <1>6 DEF Switch
<1> QED BY <1>7, <1>9, <1>10, <1>11, <1>12, <1>13 DEF Inv

LEMMA ControlInv ==
  ASSUME Disciplined, Inv, NEW t \in Thread \ {Idle}, NEW u \in Thread, NEW p \in NewPrio,
         rt_thread_control(t, u, p)
  PROVE  Inv' /\ Switch
<1>1. /\ <<t, u>> \in Control /\ k' = ChangePriority(k, u, p)
      /\ pc' = pc /\ arg' = arg /\ limbo' = limbo /\ KernelInv(k, limbo)
  BY DEF rt_thread_control, Inv, limbo
<1>2. u \notin Victims \cup Exits /\ u \in Thread \ {Idle} /\ p \in Prio
  BY <1>1, ThreadsAssumption DEF Disciplined
<1>3. u \notin limbo
  BY <1>2, ImmortalFree
<1>4. /\ KernelInv(k', limbo) /\ k'.cur = k.cur /\ k'.nest = k.nest
      /\ k'.stat = k.stat /\ k'.armed = k.armed
  <2>1. KernelInv(k', limbo) /\ Unmoved(k', k)
    BY <1>1, <1>2, <1>3, PriorityUnmoved
  <2> QED BY <2>1 DEF Unmoved
<1>5. TypeOK' /\ KernelInv(k', limbo')
  BY <1>1, <1>4 DEF Inv, TypeOK, KernelInv
<1>6. RunningOK' /\ DeletingOK' /\ ReapingOK' /\ ActingOK' /\ MortalOK' /\ StartingOK'
  BY <1>1, <1>4
  DEF Inv, RunningOK, RunningIsReady, DeletingOK, ReapingOK, ActingOK, MortalOK, StartingOK
<1> QED BY <1>4, <1>5, <1>6 DEF Inv, Switch

-----------------------------------------------------------------------------
(* Creation and start-up. *)

LEMMA CreateInv ==
  ASSUME Disciplined, Inv, NEW t \in Thread \ {Idle}, NEW u \in Thread, rt_thread_create(t, u)
  PROVE  Inv' /\ Switch
<1>1. /\ k.cur = t /\ pc[t] = "run" /\ k.stat[u] = "NONE" /\ Call(u, "run", u)
      /\ k' = SetErr(SetPrio(SetStat(k, u, "INIT"), u, InitPrio[u]), u, RT_EOK)
      /\ KernelInv(k, limbo)
  BY DEF rt_thread_create, At, Inv
<1>2. /\ u # Idle /\ u \notin limbo /\ k.stat[t] \in {"READY", "SUSPEND"} /\ u # t
  <2>1. u # Idle
    BY <1>1 DEF KernelInv, IdleReady
  <2>2. k.stat[t] \in {"READY", "SUSPEND"}
    BY <1>1 DEF Inv, RunningOK, RunningIsReady
  <2> QED BY <1>1, <2>1, <2>2, LimboFacts
<1>3. "run" \in PC /\ "run" \notin Off /\ pc[u] \notin Off
  BY <1>1, <1>2 DEF PC, Off, Inv, DeletingOK, ReapingOK
<1>4. /\ pc' \in [Thread -> PC] /\ arg' \in [Thread -> Thread] /\ limbo' = limbo
      /\ pc'[u] = "run"
      /\ \A x \in Thread : x # u => pc'[x] = pc[x] /\ arg'[x] = arg[x]
  BY <1>1, <1>3, CallType, LimboSame DEF Inv
<1> DEFINE k1 == SetStat(k, u, "INIT")
           k2 == SetPrio(k1, u, InitPrio[u])
<1>5. KernelInv(k1, limbo) /\ Restated(k1, k, u, "INIT")
  <2>1. "INIT" \in Stat /\ k.stat[u] \in {"NONE", "INIT"} /\ u \in Thread \ {Idle} /\ "INIT" # "READY"
    BY <1>1, <1>2 DEF Stat
  <2>2. k1 = SetStat(k, u, "INIT")
    OBVIOUS
  <2> HIDE DEF k1
  <2> QED BY <1>1, <1>2, <2>1, <2>2, FreshStatOK
<1>6. KernelInv(k2, limbo) /\ Unmoved(k2, k1)
  <2>1. InitPrio[u] \in Prio /\ u \in Thread \ {Idle}
    BY <1>2, KernelAssumption
  <2>2. k1.stat[u] # "READY"
    <3> HIDE DEF k1
    <3> QED BY <1>1, <1>5 DEF Restated, KernelInv, KernelState
  <2>3. k2 = SetPrio(k1, u, InitPrio[u])
    OBVIOUS
  <2> HIDE DEF k1, k2
  <2> QED BY <1>5, <2>1, <2>2, <2>3, SetPrioUnmoved
<1>7. KernelInv(k', limbo) /\ Unmoved(k', k2)
  <2>1. RT_EOK \in ErrNo
    BY DEF ErrNo
  <2>2. k' = SetErr(k2, u, RT_EOK)
    BY <1>1
  <2> HIDE DEF k2
  <2> QED BY <1>6, <2>1, <2>2, SetErrUnmoved
<1> HIDE DEF k1, k2
<1>8. /\ k'.cur = k.cur /\ k'.nest = k.nest /\ k'.armed = k.armed
      /\ k'.stat = [k.stat EXCEPT ![u] = "INIT"]
  BY <1>5, <1>6, <1>7 DEF Unmoved, Restated
<1>9. TypeOK' /\ KernelInv(k', limbo')
  BY <1>4, <1>7 DEF TypeOK, KernelInv
<1>10. \A x \in Thread : k'.stat[x] = IF x = u THEN "INIT" ELSE k.stat[x]
  BY <1>8 DEF Inv, TypeOK, KernelState
<1>11. RunningOK'
  BY <1>1, <1>2, <1>4, <1>8, <1>10 DEF Inv, RunningOK, RunningIsReady
<1>12. DeletingOK'
  BY <1>1, <1>4, <1>10 DEF Inv, DeletingOK, TypeOK
<1>13. ReapingOK' /\ ActingOK' /\ MortalOK'
  BY <1>1, <1>2, <1>4, <1>8, <1>10, KernelAssumption DEF Inv, ReapingOK, ActingOK, MortalOK, TypeOK
<1>14. StartingOK'
  BY <1>1, <1>4, <1>8, <1>10 DEF Inv, StartingOK, TypeOK
<1>15. Switch
  BY <1>8 DEF Switch
<1> QED BY <1>9, <1>11, <1>12, <1>13, <1>14, <1>15 DEF Inv

LEMMA StartupInv ==
  ASSUME Disciplined, Inv, NEW t \in Thread \ {Idle}, NEW u \in Thread, rt_thread_startup(t, u)
  PROVE  Inv' /\ Switch
<1>1. /\ k.cur = t /\ pc[t] = "run" /\ k.stat[u] = "INIT" /\ Parent[u] = t
      /\ Call(t, "resume_startup", u)
      /\ k' = SetStat(SetPrio(k, u, InitPrio[u]), u, "SUSPEND")
      /\ KernelInv(k, limbo)
  BY DEF rt_thread_startup, At, Inv
<1>2. u # Idle /\ u \notin limbo /\ u # t
  <2>1. u # Idle
    BY <1>1 DEF KernelInv, IdleReady
  <2>2. u # t
    BY <1>1 DEF Inv, RunningOK, RunningIsReady
  <2>3. k.stat[u] # "CLOSE" /\ pc[Parent[u]] \notin Del
    BY <1>1 DEF Del
  <2> QED BY <2>1, <2>2, <2>3, ChildFree
<1>3. "resume_startup" \in PC /\ "resume_startup" \notin Off /\ pc[t] \notin Off /\ "resume_startup" # "run"
  BY <1>1 DEF PC, Off
<1>4. /\ pc' \in [Thread -> PC] /\ arg' \in [Thread -> Thread] /\ limbo' = limbo
      /\ pc'[t] = "resume_startup" /\ arg'[t] = u
      /\ \A x \in Thread : x # t => pc'[x] = pc[x] /\ arg'[x] = arg[x]
  BY <1>1, <1>3, CallType, LimboSame DEF Inv
<1> DEFINE k1 == SetPrio(k, u, InitPrio[u])
<1>5. KernelInv(k1, limbo) /\ Unmoved(k1, k)
  <2>1. InitPrio[u] \in Prio /\ u \in Thread \ {Idle} /\ k.stat[u] # "READY"
    BY <1>1, <1>2, KernelAssumption
  <2>2. k1 = SetPrio(k, u, InitPrio[u])
    OBVIOUS
  <2> HIDE DEF k1
  <2> QED BY <1>1, <2>1, <2>2, SetPrioUnmoved
<1>6. KernelInv(k', limbo) /\ Restated(k', k1, u, "SUSPEND")
  <2>1. k' = SetStat(k1, u, "SUSPEND")
    BY <1>1
  <2> HIDE DEF k1
  <2>2. "SUSPEND" \in Stat /\ k1.stat[u] \in {"NONE", "INIT"} /\ u \in Thread \ {Idle} /\ "SUSPEND" # "READY"
    BY <1>1, <1>2, <1>5 DEF Stat, Unmoved
  <2> QED BY <1>2, <1>5, <2>1, <2>2, FreshStatOK
<1> HIDE DEF k1
<1>7. /\ k'.cur = k.cur /\ k'.nest = k.nest /\ k'.armed = k.armed
      /\ k'.stat = [k.stat EXCEPT ![u] = "SUSPEND"]
  BY <1>5, <1>6 DEF Unmoved, Restated
<1>8. TypeOK' /\ KernelInv(k', limbo')
  BY <1>4, <1>6 DEF TypeOK, KernelInv
<1>9. /\ \A x \in Thread : k'.stat[x] = IF x = u THEN "SUSPEND" ELSE k.stat[x]
      /\ ~k'.armed[u]
  BY <1>1, <1>7 DEF Inv, TypeOK, KernelInv, KernelState, TimerSound
<1>10. RunningOK'
  BY <1>1, <1>2, <1>4, <1>7, <1>9 DEF Inv, RunningOK, RunningIsReady
<1>11. DeletingOK'
  BY <1>1, <1>4, <1>9 DEF Inv, DeletingOK, TypeOK
<1>12. ReapingOK' /\ ActingOK' /\ MortalOK'
  BY <1>1, <1>4, <1>7, <1>9, KernelAssumption DEF Inv, ReapingOK, ActingOK, MortalOK, TypeOK
<1>13. StartingOK'
  BY <1>1, <1>2, <1>4, <1>7, <1>9 DEF Inv, StartingOK, TypeOK
<1>14. Switch
  BY <1>7 DEF Switch
<1> QED BY <1>8, <1>10, <1>11, <1>12, <1>13, <1>14 DEF Inv

-----------------------------------------------------------------------------
(* Exit, deletion and reaping. *)

LEMMA LimboGrow ==
  ASSUME TypeOK, NEW t \in Thread, NEW m \in Off, NEW u, pc[t] \notin Off, Call(t, m, u)
  PROVE  limbo' = limbo \cup {u}
<1>1. \A x \in Thread : x # t => pc'[x] = pc[x] /\ arg'[x] = arg[x]
  BY DEF Call, TypeOK
<1>2. pc'[t] = m /\ arg'[t] = u
  BY DEF Call, TypeOK, Off
<1> QED BY <1>1, <1>2 DEF limbo, Off

LEMMA LimboKeep ==
  ASSUME TypeOK, NEW t \in Thread, NEW m \in Off, pc[t] \in Off, Call(t, m, arg[t])
  PROVE  limbo' = limbo
<1>1. \A x \in Thread : x # t => pc'[x] = pc[x] /\ arg'[x] = arg[x]
  BY DEF Call, TypeOK
<1>2. pc'[t] = m /\ arg'[t] = arg[t]
  BY DEF Call, TypeOK, Off
<1> QED BY <1>1, <1>2 DEF limbo, Off

\* No two threads are about to dispose of the same thread.
LEMMA OffUnique ==
  ASSUME Inv, NEW t \in Thread, NEW x \in Thread, t # x, pc[t] \in Off, pc[x] \in Off
  PROVE  arg[x] # arg[t]
<1>1. CASE pc[t] = "reap_free"
  BY <1>1 DEF Inv, ReapingOK, DeletingOK, Off
<1>2. CASE pc[x] = "reap_free"
  BY <1>2 DEF Inv, ReapingOK, DeletingOK, Off
<1>3. CASE pc[t] # "reap_free" /\ pc[x] # "reap_free"
  BY <1>3 DEF Inv, DeletingOK, Off
<1> QED BY <1>1, <1>2, <1>3

LEMMA LimboShrink ==
  ASSUME Inv, NEW t \in Thread, NEW m, NEW u, m \notin Off, pc[t] \in Off, Call(t, m, u)
  PROVE  limbo' = limbo \ {arg[t]}
<1>1. \A x \in Thread : x # t => pc'[x] = pc[x] /\ arg'[x] = arg[x]
  BY DEF Call, Inv, TypeOK
<1>2. pc'[t] = m
  BY DEF Call, Inv, TypeOK
<1>3. \A x \in Thread : x # t /\ pc[x] \in Off => arg[x] # arg[t]
  BY OffUnique
<1> QED BY <1>1, <1>2, <1>3 DEF limbo, Off

\* u has been handed to the idle thread, or forgotten.
Handed(j, i, u) ==
  /\ j.cur = i.cur /\ j.nest = i.nest /\ j.armed = i.armed
  /\ j.stat = i.stat \/ j.stat = [i.stat EXCEPT ![u] = "NONE"]

LEMMA EnqueueOK ==
  ASSUME NEW i, NEW X, KernelInv(i, X), NEW u \in X, u \in Thread, i.stat[u] = "CLOSE",
         NEW j, j = Enqueue(i, u)
  PROVE  KernelInv(j, X \ {u}) /\ Handed(j, i, u)
<1>1. i \in KernelState /\ ~i.armed[u]
  BY DEF KernelInv, TimerSound
<1>2. CASE u \in Static \ Cleanup
  <2>1. j = SetStat(i, u, "NONE") /\ "NONE" \in Stat /\ "NONE" # "READY"
    BY <1>2 DEF Enqueue, Stat
  <2>2. KernelInv(j, X \ {u}) /\ Restated(j, i, u, "NONE")
    BY <1>1, <2>1, SetStatMoves
  <2> QED BY <2>2 DEF Restated, Handed
<1>3. CASE u \notin Static \ Cleanup
  <2> DEFINE w == <<u>> \o i.wait[Defunct]
  <2>1. j = Linked(i, Defunct, w)
    BY <1>3 DEF Enqueue, Linked
  <2>2. /\ Defunct \in WaitList /\ i.wait[Defunct] \in Seq(Thread)
        /\ Injective(i.wait[Defunct]) /\ u \notin Nodes(i.wait[Defunct])
    BY <1>1, KernelAssumption DEF KernelInv, KernelState, ListsSound
  <2>3. w \in Seq(Thread) /\ Injective(w) /\ Nodes(w) = Nodes(i.wait[Defunct]) \cup {u}
    BY <2>2, PushNodes
  <2> HIDE DEF w
  <2>4. Joined(i, Defunct, u, w)
    BY <2>3 DEF Joined
  <2>5. KernelInv(j, X \ {u}) /\ SameThreads(j, i)
    BY <2>1, <2>2, <2>4, LinkOK
  <2> QED BY <2>5 DEF SameThreads, Handed
<1> QED BY <1>2, <1>3

LEMMA ExitInv ==
  ASSUME Disciplined, Inv, NEW t \in Thread \ {Idle}, rt_thread_exit(t)
  PROVE  Inv' /\ Switch
<1> DEFINE k1 == rt_schedule_remove_thread(k, t)
           k2 == SetStat(k1, t, "CLOSE")
           k3 == Stopped(k2, t)
           k4 == Enqueue(k3, t)
           Y == limbo \cup {t}
<1>1. /\ k.cur = t /\ pc[t] = "run" /\ t \in Exits /\ k.nest = 0
      /\ k' = rt_schedule(k4) /\ pc' = pc /\ arg' = arg /\ limbo' = limbo
      /\ KernelInv(k, limbo)
  BY DEF rt_thread_exit, At, Inv, limbo
<1>2. t \notin limbo /\ k.stat[t] = "READY" /\ ~k.armed[t] /\ t \notin Victims
  <2>1. t \notin limbo /\ k.stat[t] = "READY"
    BY <1>1 DEF Inv, RunningOK, RunningIsReady
  <2> QED BY <1>1, <2>1 DEF KernelInv, TimerSound, Disciplined
<1>3. KernelInv(k1, Y) /\ SameThreads(k1, k)
  BY <1>1, RemoveThreadOK
<1>4. t \in Y /\ Y \ {t} = limbo
  BY <1>2
<1> HIDE DEF k1, Y
<1>5. KernelInv(k2, Y) /\ Restated(k2, k1, t, "CLOSE")
  <2>1. "CLOSE" \in Stat /\ "CLOSE" # "READY" /\ t \in Thread /\ ~k1.armed[t]
    BY <1>2, <1>3 DEF Stat, SameThreads
  <2>2. k2 = SetStat(k1, t, "CLOSE")
    OBVIOUS
  <2> HIDE DEF k2
  <2> QED BY <1>3, <1>4, <2>1, <2>2, SetStatMoves
<1> HIDE DEF k2
<1>6. KernelInv(k3, Y) /\ k3.stat = k2.stat /\ k3.cur = k2.cur /\ k3.nest = k2.nest
      /\ k3.armed = [k2.armed EXCEPT ![t] = FALSE]
  <2>1. k3 = Stopped(k2, t)
    OBVIOUS
  <2> HIDE DEF k3
  <2>2. KernelInv(k3, Y) /\ Disarmed(k3, k2, t)
    BY <1>5, <2>1, StoppedOK
  <2> QED BY <2>2 DEF Disarmed
<1> HIDE DEF k3
<1>7. /\ k3.stat = [k.stat EXCEPT ![t] = "CLOSE"] /\ k3.nest = k.nest
      /\ k3.stat[t] = "CLOSE"
      /\ \A x \in Thread : k3.armed[x] => k.armed[x]
  BY <1>1, <1>3, <1>5, <1>6 DEF SameThreads, Restated, KernelInv, KernelState
<1>8. KernelInv(k4, limbo) /\ Handed(k4, k3, t)
  BY <1>4, <1>6, <1>7, EnqueueOK
<1> HIDE DEF k4
<1>9. /\ KernelInv(k', limbo) /\ k'.stat = k4.stat /\ k'.nest = k4.nest
      /\ k'.armed = k4.armed
      /\ k4.nest = 0 => Highest(k', limbo, k'.cur)
  BY <1>1, <1>8, ScheduleOK
<1>10. /\ k'.nest = 0 /\ Highest(k', limbo, k'.cur)
       /\ \A x \in Thread : k'.armed[x] => k.armed[x]
  BY <1>1, <1>7, <1>8, <1>9 DEF Handed
<1>11. \A x \in Thread : /\ x # t => k'.stat[x] = k.stat[x]
                         /\ x = t => k'.stat[x] \in {"CLOSE", "NONE"}
  <2>1. k3.stat \in [Thread -> Stat] /\ k.stat \in [Thread -> Stat]
    BY <1>1, <1>6 DEF KernelInv, KernelState
  <2>2. \A x \in Thread : k3.stat[x] = IF x = t THEN "CLOSE" ELSE k.stat[x]
    BY <1>7, <2>1
  <2>3. CASE k4.stat = k3.stat
    BY <1>9, <2>2, <2>3
  <2>4. CASE k4.stat = [k3.stat EXCEPT ![t] = "NONE"]
    BY <1>9, <2>1, <2>2, <2>4
  <2> QED BY <1>8, <2>3, <2>4 DEF Handed
<1>12. TypeOK' /\ KernelInv(k', limbo')
  BY <1>1, <1>9 DEF Inv, TypeOK, KernelInv
<1>13. RunningOK'
  BY <1>1, <1>10 DEF RunningOK, RunningIsReady, Highest
<1>14. DeletingOK'
  BY <1>1, <1>2, <1>11 DEF Inv, DeletingOK, TypeOK
<1>15. ReapingOK' /\ ActingOK' /\ MortalOK'
  BY <1>1, <1>2, <1>10, <1>11, ThreadsAssumption DEF Inv, ReapingOK, ActingOK, MortalOK, TypeOK
<1>16. StartingOK'
  BY <1>1, <1>2, <1>10, <1>11 DEF Inv, StartingOK, TypeOK, Highest
<1>17. Switch
  BY <1>1, <1>10 DEF Switch
<1> QED BY <1>12, <1>13, <1>14, <1>15, <1>16, <1>17 DEF Inv

\* The check at the start of rt_thread_delete.
LEMMA DeleteInv ==
  ASSUME Disciplined, Inv, NEW t \in Thread \ {Idle}, NEW u \in Thread, rt_thread_delete(t, u)
  PROVE  Inv' /\ Switch
<1>1. PICK m \in {"run", "del_timer", "del_remove"} :
        /\ k.cur = t /\ pc[t] = "run" /\ Parent[u] = t /\ u \in Victims /\ u # t
        /\ k' = k /\ Call(t, m, u) /\ KernelInv(k, limbo)
        /\ m = "del_timer" => k.stat[u] = "INIT"
        /\ m = "del_remove" => k.stat[u] \in {"READY", "SUSPEND"}
  <2>1. k.stat[u] \in Stat
    BY DEF Inv, TypeOK, KernelState
  <2> QED BY <2>1 DEF rt_thread_delete, At, Inv, Stat
<1>2. m \in PC /\ pc[t] \notin Off /\ u # Idle /\ k.stat[t] \in {"READY", "SUSPEND"}
  BY <1>1, ThreadsAssumption DEF PC, Off, Inv, RunningOK, RunningIsReady
<1>3. /\ pc' \in [Thread -> PC] /\ arg' \in [Thread -> Thread]
      /\ pc'[t] = m /\ (m # "run" => arg'[t] = u)
      /\ \A x \in Thread : x # t => pc'[x] = pc[x] /\ arg'[x] = arg[x]
  BY <1>1, <1>2, CallType DEF Inv
<1>4. KernelInv(k', limbo') /\ k.cur \notin limbo'
  <2>1. CASE m = "del_timer"
    <3>1. m \in Off
      BY <2>1 DEF Off
    <3>2. limbo' = limbo \cup {u}
      BY <1>1, <1>2, <3>1, LimboGrow DEF Inv
    <3>3. k.stat[u] \in {"NONE", "INIT"} /\ u \in Thread \ {Idle}
      BY <1>1, <1>2, <2>1
    <3>4. KernelInv(k, limbo \cup {u})
      BY <1>1, <3>3, GrowOK
    <3> QED BY <1>1, <3>2, <3>4 DEF Inv, RunningOK
  <2>2. CASE m # "del_timer"
    <3>1. m \notin Off
      BY <1>1, <2>2 DEF Off
    <3>2. limbo' = limbo
      BY <1>1, <1>2, <3>1, LimboSame DEF Inv
    <3> QED BY <1>1, <3>2 DEF Inv, RunningOK
  <2> QED BY <2>1, <2>2
<1>5. TypeOK'
  BY <1>1, <1>3 DEF Inv, TypeOK
<1>6. RunningOK'
  BY <1>1, <1>3, <1>4 DEF Inv, RunningOK, RunningIsReady
<1>7. DeletingOK'
  BY <1>1, <1>2, <1>3 DEF Inv, DeletingOK
<1>8. ReapingOK' /\ ActingOK' /\ MortalOK' /\ StartingOK'
  BY <1>1, <1>3, KernelAssumption DEF Inv, ReapingOK, ActingOK, MortalOK, StartingOK
<1>9. Switch
  BY <1>1 DEF Switch
<1> QED BY <1>4, <1>5, <1>6, <1>7, <1>8, <1>9 DEF Inv

LEMMA DeleteRemoveInv ==
  ASSUME Disciplined, Inv, NEW t \in Thread \ {Idle}, DeleteRemove(t)
  PROVE  Inv' /\ Switch
<1> DEFINE u == arg[t]
<1>1. /\ k.cur = t /\ pc[t] = "del_remove" /\ k' = rt_schedule_remove_thread(k, u)
      /\ Call(t, "del_timer", u) /\ KernelInv(k, limbo)
  BY DEF DeleteRemove, At, Goto, Inv
<1>2. /\ "del_timer" \in PC /\ "del_timer" \in Off /\ pc[t] \notin Off
      /\ "del_timer" # "run" /\ u \in Thread \ {Idle} /\ u # t
  <2>1. u \in Victims /\ Parent[u] = t
    BY <1>1 DEF Inv, DeletingOK
  <2> QED BY <1>1, <2>1, ThreadsAssumption DEF PC, Off, Disciplined
<1>3. /\ pc' \in [Thread -> PC] /\ arg' \in [Thread -> Thread] /\ limbo' = limbo \cup {u}
      /\ pc'[t] = "del_timer" /\ arg'[t] = u
      /\ \A x \in Thread : x # t => pc'[x] = pc[x] /\ arg'[x] = arg[x]
  <2> HIDE DEF u
  <2> QED BY <1>1, <1>2, CallType, LimboGrow DEF Inv
<1>4. KernelInv(k', limbo \cup {u}) /\ SameThreads(k', k)
  <2> HIDE DEF u
  <2> QED BY <1>1, <1>2, RemoveThreadOK
<1>5. /\ k'.cur = k.cur /\ k'.nest = k.nest /\ k'.armed = k.armed /\ k'.stat = k.stat
  BY <1>4 DEF SameThreads
<1>6. TypeOK' /\ KernelInv(k', limbo')
  BY <1>3, <1>4 DEF TypeOK, KernelInv
<1>7. RunningOK'
  BY <1>1, <1>2, <1>3, <1>5 DEF Inv, RunningOK, RunningIsReady
<1>8. DeletingOK'
  BY <1>1, <1>3, <1>5 DEF Inv, DeletingOK
<1>9. ReapingOK' /\ ActingOK' /\ MortalOK' /\ StartingOK'
  BY <1>1, <1>3, <1>5, KernelAssumption DEF Inv, ReapingOK, ActingOK, MortalOK, StartingOK
<1>10. Switch
  BY <1>5 DEF Switch
<1> QED BY <1>6, <1>7, <1>8, <1>9, <1>10 DEF Inv

LEMMA DeleteTimerInv ==
  ASSUME Disciplined, Inv, NEW t \in Thread \ {Idle}, DeleteTimer(t)
  PROVE  Inv' /\ Switch
<1> DEFINE u == arg[t]
<1>1. /\ k.cur = t /\ pc[t] = "del_timer" /\ k' = Stopped(k, u)
      /\ Call(t, "del_close", u) /\ KernelInv(k, limbo) /\ u \in Thread
  BY DEF DeleteTimer, At, Goto, Inv, TypeOK
<1>2. "del_close" \in PC /\ "del_close" \in Off /\ pc[t] \in Off /\ "del_close" # "run"
  BY <1>1 DEF PC, Off
<1>3. limbo' = limbo
  BY <1>1, <1>2, LimboKeep DEF Inv
<1> HIDE DEF u
<1>4. /\ pc' \in [Thread -> PC] /\ arg' \in [Thread -> Thread]
      /\ pc'[t] = "del_close" /\ arg'[t] = u
      /\ \A x \in Thread : x # t => pc'[x] = pc[x] /\ arg'[x] = arg[x]
  BY <1>1, <1>2, CallType DEF Inv
<1>5. /\ KernelInv(k', limbo) /\ k'.cur = k.cur /\ k'.nest = k.nest /\ k'.stat = k.stat
      /\ k'.armed = [k.armed EXCEPT ![u] = FALSE]
  <2>1. KernelInv(k', limbo) /\ Disarmed(k', k, u)
    BY <1>1, StoppedOK
  <2> QED BY <2>1 DEF Disarmed
<1>6. \A x \in Thread : k'.armed[x] => k.armed[x]
  BY <1>1, <1>5 DEF KernelInv, KernelState
<1>7. TypeOK' /\ KernelInv(k', limbo')
  BY <1>3, <1>4, <1>5 DEF TypeOK, KernelInv
<1>8. RunningOK'
  BY <1>1, <1>3, <1>4, <1>5 DEF Inv, RunningOK, RunningIsReady
<1>9. DeletingOK'
  BY <1>1, <1>4, <1>5 DEF Inv, DeletingOK, u
<1>10. ReapingOK' /\ ActingOK' /\ MortalOK'
  BY <1>1, <1>4, <1>5, <1>6, KernelAssumption, ThreadsAssumption
  DEF Inv, ReapingOK, ActingOK, MortalOK
<1>11. StartingOK'
  BY <1>1, <1>4, <1>5, <1>6 DEF Inv, StartingOK, TypeOK
<1>12. Switch
  BY <1>5 DEF Switch
<1> QED BY <1>7, <1>8, <1>9, <1>10, <1>11, <1>12 DEF Inv

LEMMA DeleteCloseInv ==
  ASSUME Disciplined, Inv, NEW t \in Thread \ {Idle}, DeleteClose(t)
  PROVE  Inv' /\ Switch
<1> DEFINE u == arg[t]
<1>1. /\ k.cur = t /\ pc[t] = "del_close" /\ k' = SetStat(k, u, "CLOSE")
      /\ Call(t, "del_enqueue", u) /\ KernelInv(k, limbo) /\ u \in Thread
  BY DEF DeleteClose, At, Goto, Inv, TypeOK
<1>2. /\ "del_enqueue" \in PC /\ "del_enqueue" \in Off /\ pc[t] \in Off
      /\ "del_enqueue" # "run" /\ "CLOSE" \in Stat /\ "CLOSE" # "READY"
  BY <1>1 DEF PC, Off, Stat
<1>3. limbo' = limbo
  BY <1>1, <1>2, LimboKeep DEF Inv
<1>4. /\ u \in Victims /\ Parent[u] = t /\ u \in limbo /\ ~k.armed[u] /\ u # t
      /\ k.stat[u] # "CLOSE" /\ u \notin Exits
  BY <1>1 DEF Inv, DeletingOK, limbo, MortalOK, Disciplined
<1> HIDE DEF u
<1>5. /\ pc' \in [Thread -> PC] /\ arg' \in [Thread -> Thread]
      /\ pc'[t] = "del_enqueue" /\ arg'[t] = u
      /\ \A x \in Thread : x # t => pc'[x] = pc[x] /\ arg'[x] = arg[x]
  BY <1>1, <1>2, CallType DEF Inv
<1>6. KernelInv(k', limbo) /\ Restated(k', k, u, "CLOSE")
  BY <1>1, <1>2, <1>4, SetStatMoves
<1>7. /\ k'.cur = k.cur /\ k'.nest = k.nest /\ k'.armed = k.armed
      /\ \A x \in Thread : k'.stat[x] = IF x = u THEN "CLOSE" ELSE k.stat[x]
  BY <1>1, <1>6 DEF Restated, KernelInv, KernelState
<1>8. TypeOK' /\ KernelInv(k', limbo')
  BY <1>3, <1>5, <1>6 DEF TypeOK, KernelInv
<1>9. RunningOK'
  BY <1>1, <1>3, <1>4, <1>5, <1>7 DEF Inv, RunningOK, RunningIsReady
<1>10. DeletingOK'
  <2>1. ASSUME NEW x \in Thread, x # t, pc[x] \in Del
        PROVE  arg[x] # u /\ x # u
    <3>1. Parent[arg[x]] = x /\ arg[x] \in Victims
      BY <2>1 DEF Inv, DeletingOK, Del
    <3> QED BY <3>1, <2>1, <1>4 DEF Disciplined
  <2> QED BY <1>1, <1>4, <1>5, <1>7, <2>1 DEF Inv, DeletingOK, TypeOK, Del
<1>11. ReapingOK'
  BY <1>1, <1>4, <1>5, <1>7, KernelAssumption DEF Inv, ReapingOK, TypeOK
<1>12. ActingOK' /\ MortalOK'
  BY <1>1, <1>4, <1>5, <1>7 DEF Inv, ActingOK, MortalOK
<1>13. StartingOK'
  <2>1. ASSUME NEW x \in Thread, pc'[x] \in {"resume_startup", "startup_do"}
        PROVE  x # t /\ arg[x] # u
    <3>1. x # t
      BY <2>1, <1>5
    <3>2. Parent[arg[x]] = x
      BY <2>1, <3>1, <1>5 DEF Inv, StartingOK
    <3> QED BY <3>1, <3>2, <1>4
  <2> QED BY <1>1, <1>5, <1>7, <2>1 DEF Inv, StartingOK, TypeOK
<1>14. Switch
  BY <1>7 DEF Switch
<1> QED BY <1>8, <1>9, <1>10, <1>11, <1>12, <1>13, <1>14 DEF Inv

LEMMA DeleteEnqueueInv ==
  ASSUME Disciplined, Inv, NEW t \in Thread \ {Idle}, DeleteEnqueue(t)
  PROVE  Inv' /\ Switch
<1> DEFINE u == arg[t]
<1>1. /\ k.cur = t /\ pc[t] = "del_enqueue" /\ k' = Enqueue(k, u)
      /\ Call(t, "run", u) /\ KernelInv(k, limbo) /\ u \in Thread
  BY DEF DeleteEnqueue, At, Goto, Inv, TypeOK
<1>2. "run" \in PC /\ "run" \notin Off /\ pc[t] \in Off
  BY <1>1 DEF PC, Off
<1>3. limbo' = limbo \ {u}
  BY <1>1, <1>2, LimboShrink
<1>u. \A x \in Thread : x # t /\ pc[x] \in Off => arg[x] # u
  BY <1>2, OffUnique
<1>4. Parent[u] = t /\ u \in limbo /\ k.stat[u] = "CLOSE" /\ u # t /\ u \in Victims
  BY <1>1 DEF Inv, DeletingOK, limbo
<1> HIDE DEF u
<1>5. /\ pc' \in [Thread -> PC] /\ arg' \in [Thread -> Thread] /\ pc'[t] = "run"
      /\ \A x \in Thread : x # t => pc'[x] = pc[x] /\ arg'[x] = arg[x]
  BY <1>1, <1>2, CallType DEF Inv
<1>6. KernelInv(k', limbo \ {u}) /\ Handed(k', k, u)
  BY <1>1, <1>4, EnqueueOK
<1>7. /\ k'.cur = k.cur /\ k'.nest = k.nest /\ k'.armed = k.armed
      /\ \A x \in Thread : x # u => k'.stat[x] = k.stat[x]
      /\ k'.stat[u] \in {"CLOSE", "NONE"}
  BY <1>1, <1>4, <1>6 DEF Handed, KernelInv, KernelState
<1>8. TypeOK' /\ KernelInv(k', limbo')
  BY <1>3, <1>5, <1>6 DEF TypeOK, KernelInv
<1>9. RunningOK'
  BY <1>1, <1>3, <1>4, <1>5, <1>7 DEF Inv, RunningOK, RunningIsReady
<1>10. DeletingOK'
  <2>1. ASSUME NEW x \in Thread, x # t, pc[x] \in Del
        PROVE  arg[x] # u /\ x # u
    BY <1>4, <2>1 DEF Inv, DeletingOK, Del, Disciplined
  <2> QED BY <1>1, <1>5, <1>7, <2>1 DEF Inv, DeletingOK, TypeOK, Del
<1>11. ReapingOK'
  <2>1. pc[Idle] = "reap_free" => arg[Idle] # u
    BY <1>u, KernelAssumption DEF Off
  <2> QED BY <1>1, <1>5, <1>7, <2>1, KernelAssumption DEF Inv, ReapingOK, TypeOK
<1>12. ActingOK' /\ MortalOK'
  BY <1>1, <1>4, <1>5, <1>7 DEF Inv, ActingOK, MortalOK
<1>13. StartingOK'
  <2>1. ASSUME NEW x \in Thread, pc'[x] \in {"resume_startup", "startup_do"}
        PROVE  x # t /\ arg[x] # u
    BY <2>1, <1>4, <1>5 DEF Inv, StartingOK
  <2> QED BY <1>1, <1>5, <1>7, <2>1 DEF Inv, StartingOK, TypeOK
<1>14. Switch
  BY <1>7 DEF Switch
<1> QED BY <1>8, <1>9, <1>10, <1>11, <1>12, <1>13, <1>14 DEF Inv

\* The idle thread takes a dead thread off the defunct list.
LEMMA DefunctInv ==
  ASSUME Disciplined, Inv, rt_defunct_execute
  PROVE  Inv' /\ Switch
<1> DEFINE u == Head(k.wait[Defunct])
           k1 == rt_list_remove(k, u)
           Y == limbo \cup {u}
<1>1. /\ k.cur = Idle /\ pc[Idle] = "run" /\ k.wait[Defunct] # <<>> /\ KernelInv(k, limbo)
      /\ \/ /\ k' = rt_schedule([SetStat(k1, u, "NONE") EXCEPT !.nest = ExitNest(@)])
            /\ pc' = pc /\ arg' = arg
         \/ k' = k1 /\ Call(Idle, "reap_free", u)
  BY DEF rt_defunct_execute, At, Inv
<1>2. u \in Thread /\ k.stat[u] = "CLOSE" /\ u \notin limbo /\ u # Idle /\ k.nest = 0
  <2>1. k.wait[Defunct] \in Seq(Thread)
    BY <1>1, KernelAssumption DEF KernelInv, KernelState
  <2>2. u \in Nodes(k.wait[Defunct]) /\ u \in Thread
    BY <1>1, <2>1, EmptyNodes
  <2>3. k.stat[u] = "CLOSE" /\ u \notin limbo
    BY <1>1, <2>2, KernelAssumption DEF KernelInv, ListsSound
  <2>4. k.nest = 0
    BY <1>1 DEF Inv, RunningOK, TypeOK, KernelState
  <2> QED BY <1>1, <2>2, <2>3, <2>4 DEF KernelInv, IdleReady
<1> HIDE DEF u
<1>3. KernelInv(k1, Y) /\ SameThreads(k1, k)
  <2>1. k.stat[u] # "READY" /\ k1 = rt_list_remove(k, u)
    BY <1>2
  <2> HIDE DEF k1
  <2> QED BY <1>1, <1>2, <2>1, ListRemoveOK
<1>4. u \in Y /\ Y \ {u} = limbo
  BY <1>2
<1> HIDE DEF k1
<1>5. CASE k' = k1 /\ Call(Idle, "reap_free", u)
  <2>1. /\ "reap_free" \in PC /\ "reap_free" \in Off /\ pc[Idle] \notin Off
        /\ "reap_free" # "run" /\ Idle \in Thread
    BY <1>1, KernelAssumption DEF PC, Off
  <2>2. limbo' = limbo \cup {u}
    BY <1>5, <2>1, LimboGrow DEF Inv
  <2>3. /\ pc' \in [Thread -> PC] /\ arg' \in [Thread -> Thread]
        /\ pc'[Idle] = "reap_free" /\ arg'[Idle] = u
        /\ \A x \in Thread : x # Idle => pc'[x] = pc[x] /\ arg'[x] = arg[x]
    BY <1>2, <1>5, <2>1, CallType DEF Inv
  <2>4. k'.cur = k.cur /\ k'.nest = k.nest /\ k'.armed = k.armed /\ k'.stat = k.stat
    BY <1>3, <1>5 DEF SameThreads
  <2>5. TypeOK' /\ KernelInv(k', limbo')
    BY <1>3, <1>5, <2>2, <2>3 DEF TypeOK, KernelInv
  <2>6. RunningOK'
    BY <1>1, <1>2, <2>2, <2>3, <2>4 DEF Inv, RunningOK, RunningIsReady
  <2>7. DeletingOK' /\ ActingOK' /\ MortalOK' /\ StartingOK'
    BY <1>1, <2>1, <2>3, <2>4 DEF Inv, DeletingOK, ActingOK, MortalOK, StartingOK
  <2>8. ReapingOK'
    <3>1. \A x \in Thread : x # Idle /\ pc[x] = "del_enqueue" => arg[x] # u
      BY <1>2 DEF limbo
    <3> QED BY <1>2, <2>1, <2>3, <2>4, <3>1 DEF Inv, ReapingOK
  <2>9. Switch
    BY <2>4 DEF Switch
  <2> QED BY <2>5, <2>6, <2>7, <2>8, <2>9 DEF Inv
<1>6. CASE /\ k' = rt_schedule([SetStat(k1, u, "NONE") EXCEPT !.nest = ExitNest(@)])
           /\ pc' = pc /\ arg' = arg
  <2> DEFINE k2 == SetStat(k1, u, "NONE")
             k3 == [k2 EXCEPT !.nest = ExitNest(k2.nest)]
  <2>0. limbo' = limbo
    BY <1>6 DEF limbo
  <2>1. KernelInv(k2, limbo) /\ Restated(k2, k1, u, "NONE")
    <3>1. ~k1.armed[u]
      BY <1>1, <1>2, <1>3 DEF SameThreads, KernelInv, TimerSound
    <3>2. "NONE" \in Stat /\ "NONE" # "READY" /\ k2 = SetStat(k1, u, "NONE")
      BY DEF Stat
    <3> HIDE DEF k2, Y
    <3>3. KernelInv(k2, Y \ {u}) /\ Restated(k2, k1, u, "NONE")
      BY <1>2, <1>3, <1>4, <3>1, <3>2, SetStatMoves
    <3> QED BY <1>4, <3>3
  <2>2. k' = rt_schedule(k3)
    BY <1>6
  <2> HIDE DEF k2
  <2>3. k2.nest = 0 /\ ExitNest(k2.nest) \in Int /\ ExitNest(k2.nest) = 0
    BY <1>2, <1>3, <2>1 DEF SameThreads, Restated, ExitNest
  <2>4. /\ KernelInv(k3, limbo) /\ k3.nest = 0 /\ k3.stat = k2.stat /\ k3.armed = k2.armed
    <3>1. k3 = [k2 EXCEPT !.nest = ExitNest(k2.nest)]
      OBVIOUS
    <3> HIDE DEF k3
    <3> QED BY <2>1, <2>3, <3>1, SetNestOK
  <2> HIDE DEF k3
  <2>5. /\ KernelInv(k', limbo) /\ k'.stat = k3.stat /\ k'.nest = k3.nest
        /\ k'.armed = k3.armed /\ (k3.nest = 0 => Highest(k', limbo, k'.cur))
    BY <2>2, <2>4, ScheduleOK
  <2>6. /\ k'.nest = 0 /\ Highest(k', limbo, k'.cur) /\ k'.armed = k.armed
        /\ k'.stat = [k.stat EXCEPT ![u] = "NONE"]
    BY <1>3, <2>1, <2>4, <2>5 DEF SameThreads, Restated
  <2>7. \A x \in Thread : k'.stat[x] = IF x = u THEN "NONE" ELSE k.stat[x]
    BY <1>1, <2>6 DEF KernelInv, KernelState
  <2>8. TypeOK' /\ KernelInv(k', limbo')
    BY <1>6, <2>0, <2>5 DEF Inv, TypeOK, KernelInv
  <2>9. RunningOK'
    BY <1>6, <2>0, <2>6 DEF RunningOK, RunningIsReady, Highest
  <2>10. DeletingOK'
    <3>1. \A x \in Thread : pc[x] = "del_enqueue" => arg[x] # u
      BY <1>2 DEF limbo
    <3> QED BY <1>2, <1>6, <2>7, <3>1 DEF Inv, DeletingOK, TypeOK
  <2>11. ReapingOK'
    BY <1>1, <1>6 DEF Inv, ReapingOK
  <2>12. ActingOK' /\ MortalOK'
    BY <1>6, <2>6, <2>7 DEF Inv, ActingOK, MortalOK
  <2>13. StartingOK'
    BY <1>2, <1>6, <2>6, <2>7 DEF Inv, StartingOK, TypeOK, Highest
  <2>14. Switch
    BY <1>2, <2>0, <2>6 DEF Switch
  <2> QED BY <2>8, <2>9, <2>10, <2>11, <2>12, <2>13, <2>14 DEF Inv
<1> QED BY <1>1, <1>5, <1>6

\* The idle thread frees a dead thread.
LEMMA ReapInv ==
  ASSUME Disciplined, Inv, ReapFree
  PROVE  Inv' /\ Switch
<1> DEFINE u == arg[Idle]
<1>1. /\ k.cur = Idle /\ pc[Idle] = "reap_free" /\ k' = SetStat(k, u, "NONE")
      /\ Call(Idle, "run", u) /\ KernelInv(k, limbo) /\ u \in Thread /\ Idle \in Thread
  BY KernelAssumption DEF ReapFree, At, Goto, Inv, TypeOK
<1>2. "run" \in PC /\ "run" \notin Off /\ pc[Idle] \in Off
  BY <1>1 DEF PC, Off
<1>3. limbo' = limbo \ {u}
  BY <1>1, <1>2, LimboShrink
<1>4. k.stat[u] = "CLOSE" /\ u \in limbo /\ ~k.armed[u] /\ u # Idle
  <2>1. k.stat[u] = "CLOSE" /\ u \in limbo
    BY <1>1 DEF Inv, ReapingOK, limbo
  <2> HIDE DEF u
  <2> QED BY <2>1, LimboFacts
<1>u. \A x \in Thread : x # Idle /\ pc[x] \in Off => arg[x] # u
  BY <1>1, <1>2, OffUnique
<1> HIDE DEF u
<1>5. /\ pc' \in [Thread -> PC] /\ arg' \in [Thread -> Thread] /\ pc'[Idle] = "run"
      /\ \A x \in Thread : x # Idle => pc'[x] = pc[x] /\ arg'[x] = arg[x]
  BY <1>1, <1>2, CallType DEF Inv
<1>6. KernelInv(k', limbo \ {u}) /\ Restated(k', k, u, "NONE")
  <2>1. "NONE" \in Stat /\ "NONE" # "READY"
    BY DEF Stat
  <2> QED BY <1>1, <1>4, <2>1, SetStatMoves
<1>7. /\ k'.cur = k.cur /\ k'.nest = k.nest /\ k'.armed = k.armed
      /\ \A x \in Thread : k'.stat[x] = IF x = u THEN "NONE" ELSE k.stat[x]
  BY <1>1, <1>6 DEF Restated, KernelInv, KernelState
<1>8. TypeOK' /\ KernelInv(k', limbo')
  BY <1>3, <1>5, <1>6 DEF TypeOK, KernelInv
<1>9. RunningOK'
  BY <1>1, <1>3, <1>4, <1>5, <1>7 DEF Inv, RunningOK, RunningIsReady
<1>10. DeletingOK'
  <2>1. ASSUME NEW x \in Thread, pc'[x] \in Del
        PROVE  x # Idle /\ x # u /\ arg[x] # u
    <3>1. x # Idle /\ pc[x] \in Del
      BY <2>1, <1>5 DEF Del
    <3>2. pc[x] = "del_remove" \/ pc[x] \in Off
      BY <3>1 DEF Del, Off
    <3> QED BY <3>1, <3>2, <1>4, <1>u DEF Inv, DeletingOK, Del
  <2> QED BY <1>5, <1>7, <2>1 DEF Inv, DeletingOK, TypeOK, Del
<1>11. ReapingOK' /\ ActingOK' /\ MortalOK'
  BY <1>1, <1>5, <1>7 DEF Inv, ReapingOK, ActingOK, MortalOK
<1>12. StartingOK'
  BY <1>1, <1>4, <1>5, <1>7 DEF Inv, StartingOK, TypeOK
<1>13. Switch
  BY <1>7 DEF Switch
<1> QED BY <1>8, <1>9, <1>10, <1>11, <1>12, <1>13 DEF Inv

-----------------------------------------------------------------------------
(* The theorems. *)

LEMMA InitInv == Init => Inv
<1> SUFFICES ASSUME Init PROVE Inv
  OBVIOUS
<1> DEFINE pm == InitPrio[Main]
           pi == InitPrio[Idle]
<1>1. /\ Main \in Thread /\ Idle \in Thread /\ Main # Idle /\ pm \in Prio /\ pi \in Prio
      /\ pi = RT_THREAD_PRIORITY_MAX - 1 /\ InitPrio \in [Thread -> Prio]
  BY KernelAssumption, ThreadsAssumption
<1>2. /\ k.cur = Main /\ k.prio = InitPrio /\ k.nest = 0
      /\ \A t \in Thread : k.stat[t] = IF t \in {Main, Idle} THEN "READY" ELSE "NONE"
      /\ \A t \in Thread : ~k.armed[t]
      /\ k.wait = [q \in WaitList |-> <<>>]
  BY DEF Init
<1>3. /\ \A p \in Prio : k.ready[p] \in Seq(Thread) /\ Injective(k.ready[p])
      /\ \A p \in Prio : Nodes(k.ready[p]) = {t \in {Main, Idle} : InitPrio[t] = p}
  <2>1. <<Main, Idle>> \in Seq(Thread) /\ Injective(<<Main, Idle>>) /\ Nodes(<<Main, Idle>>) = {Main, Idle}
    BY <1>1 DEF Injective, Nodes
  <2>2. <<Main>> \in Seq(Thread) /\ Injective(<<Main>>) /\ Nodes(<<Main>>) = {Main}
    BY <1>1 DEF Injective, Nodes
  <2>3. <<Idle>> \in Seq(Thread) /\ Injective(<<Idle>>) /\ Nodes(<<Idle>>) = {Idle}
    BY <1>1 DEF Injective, Nodes
  <2>4. << >> \in Seq(Thread) /\ Injective(<< >>) /\ Nodes(<< >>) = {}
    BY DEF Injective, Nodes
  <2>5. \A p \in Prio : k.ready[p] =
          IF p = pm THEN IF p = pi THEN <<Main, Idle>> ELSE <<Main>>
          ELSE IF p = pi THEN <<Idle>> ELSE <<>>
    BY DEF Init
  <2> SUFFICES ASSUME NEW p \in Prio
               PROVE  /\ k.ready[p] \in Seq(Thread) /\ Injective(k.ready[p])
                      /\ Nodes(k.ready[p]) = {t \in {Main, Idle} : InitPrio[t] = p}
    OBVIOUS
  <2>6. CASE p = pm /\ p = pi
    BY <2>1, <2>5, <2>6
  <2>7. CASE p = pm /\ p # pi
    BY <2>2, <2>5, <2>7
  <2>8. CASE p # pm /\ p = pi
    BY <2>3, <2>5, <2>8
  <2>9. CASE p # pm /\ p # pi
    BY <2>4, <2>5, <2>9
  <2> QED BY <2>6, <2>7, <2>8, <2>9
<1>4. /\ k.table = [g \in Group |-> {high_mask(InitPrio[t]) :
                      t \in {u \in {Main, Idle} : number(InitPrio[u]) = g}}]
      /\ k.group = {number(pm), number(pi)}
  BY DEF Init
<1>5. /\ number(pm) \in Group /\ high_mask(pm) \in Bit
      /\ number(pi) \in Group /\ high_mask(pi) \in Bit
  BY <1>1, GroupOfPrio
<1>6. \A g \in Group : \A b : b \in k.table[g] <=>
         \/ b = high_mask(pm) /\ number(pm) = g
         \/ b = high_mask(pi) /\ number(pi) = g
  BY <1>4
<1>7. k \in KernelState
  <2>1. k.table \in [Group -> SUBSET Bit] /\ k.group \in SUBSET Group
    BY <1>4, <1>5, <1>6
  <2>2. k.ready \in [Prio -> Seq(Thread)] /\ k.wait \in [WaitList -> Seq(Thread)]
    BY <1>2, <1>3 DEF Init
  <2>3. /\ k.stat \in [Thread -> Stat] /\ k.err \in [Thread -> ErrNo]
        /\ k.armed \in [Thread -> BOOLEAN] /\ k.nest \in Int /\ k.cur \in Thread
        /\ k.prio \in [Thread -> Prio]
    BY <1>1 DEF Init, Stat, ErrNo
  <2>4. k = [cur |-> k.cur, stat |-> k.stat, prio |-> k.prio, err |-> k.err,
             armed |-> k.armed, ready |-> k.ready, wait |-> k.wait,
             table |-> k.table, group |-> k.group, nest |-> k.nest]
    BY DEF Init
  <2> QED BY <2>1, <2>2, <2>3, <2>4 DEF KernelState
<1>8. limbo = {} /\ TypeOK
  BY <1>7 DEF Init, limbo, TypeOK, PC
<1>9. BitmapSound(k)
  <2>1. ASSUME NEW p \in Prio
        PROVE  high_mask(p) \in k.table[number(p)] <=> k.ready[p] # <<>>
    <3>1. /\ number(p) \in Group /\ p = number(p) * 8 + high_mask(p)
          /\ pm = number(pm) * 8 + high_mask(pm) /\ pi = number(pi) * 8 + high_mask(pi)
      BY <1>1, GroupOfPrio
    <3>2. high_mask(p) \in k.table[number(p)] <=> p = pm \/ p = pi
      BY <1>6, <3>1
    <3>3. k.ready[p] # <<>> <=> Nodes(k.ready[p]) # {}
      BY <1>3, EmptyNodes
    <3>4. Nodes(k.ready[p]) # {} <=> p = pm \/ p = pi
      BY <1>3
    <3> QED BY <3>2, <3>3, <3>4
  <2>2. \A g \in Group : g \in k.group <=> k.table[g] # {}
    BY <1>4, <1>6
  <2> QED BY <2>1, <2>2 DEF BitmapSound
<1>10. ListsSound(k, {}) /\ ReadyListed(k, {})
  <2>1. \A q \in WaitList : k.wait[q] = <<>> /\ Injective(k.wait[q]) /\ Nodes(k.wait[q]) = {}
    BY <1>2 DEF Injective, Nodes
  <2> QED BY <1>1, <1>2, <1>3, <2>1 DEF ListsSound, ReadyListed
<1>11. KernelInv(k, limbo)
  <2>1. TimerSound(k) /\ IdleReady(k, {})
    BY <1>1, <1>2 DEF TimerSound, IdleReady
  <2> QED BY <1>7, <1>8, <1>9, <1>10, <2>1 DEF KernelInv
<1>12. pc = [t \in Thread |-> "run"]
  BY DEF Init
<1>13. RunningOK
  BY <1>1, <1>2, <1>8 DEF RunningOK, RunningIsReady
<1>14. DeletingOK /\ ReapingOK /\ ActingOK /\ StartingOK
  BY <1>1, <1>12 DEF DeletingOK, ReapingOK, ActingOK, StartingOK
<1>15. MortalOK
  BY <1>2, ThreadsAssumption DEF MortalOK
<1> QED BY <1>8, <1>11, <1>13, <1>14, <1>15 DEF Inv

\* Every step keeps the invariant and switches only as the properties allow.
LEMMA NextInv ==
  ASSUME Disciplined, Inv, Next
  PROVE  Inv' /\ Switch
<1>1. ASSUME NEW t \in Thread \ {Idle}, Step(t)
      PROVE  Inv' /\ Switch
  <2>1. ASSUME NEW u \in Thread, rt_thread_create(t, u) PROVE Inv' /\ Switch
    BY <2>1, CreateInv
  <2>2. ASSUME NEW u \in Thread, rt_thread_startup(t, u) PROVE Inv' /\ Switch
    BY <2>2, StartupInv
  <2>3. ASSUME NEW u \in Thread, rt_thread_delete(t, u) PROVE Inv' /\ Switch
    BY <2>3, DeleteInv
  <2>4. ASSUME NEW u \in Thread, NEW p \in NewPrio, rt_thread_control(t, u, p)
        PROVE  Inv' /\ Switch
    BY <2>4, ControlInv
  <2>5. CASE StartupCheck(t) \/ \E u \in Thread : ResumeCall(t, u) \/ SuspendCall(t, u)
    <3>1. k' = k
      BY <2>5 DEF StartupCheck, ResumeCall, SuspendCall
    <3> QED BY <2>5, <3>1, CheckInv
  <2>6. CASE StartupResume(t) \/ ResumeDo(t)
    BY <2>6, ResumeInv
  <2>7. CASE SuspendDo(t)
    BY <2>7, SuspendInv
  <2>8. CASE \/ Schedule(t, "sched", "run") \/ Schedule(t, "sleeping", "slept")
             \/ Schedule(t, "delaying", "delayed")
    BY <2>8, ScheduleInv
  <2>9. CASE rt_thread_sleep(t) \/ rt_thread_delay_until(t)
    BY <2>9, SleepInv
  <2>10. CASE SleepReturn(t) \/ DelayReturn(t)
    BY <2>10, ReturnInv
  <2>11. CASE Yield(t)
    BY <2>11, YieldInv
  <2>12. CASE rt_enter_critical(t)
    BY <2>12, EnterCriticalInv
  <2>13. CASE rt_exit_critical(t)
    BY <2>13, ExitCriticalInv
  <2>14. CASE rt_thread_exit(t)
    BY <2>14, ExitInv
  <2>15. CASE DeleteRemove(t)
    BY <2>15, DeleteRemoveInv
  <2>16. CASE DeleteTimer(t)
    BY <2>16, DeleteTimerInv
  <2>17. CASE DeleteClose(t)
    BY <2>17, DeleteCloseInv
  <2>18. CASE DeleteEnqueue(t)
    BY <2>18, DeleteEnqueueInv
  <2> QED BY <1>1, <2>1, <2>2, <2>3, <2>4, <2>5, <2>6, <2>7, <2>8, <2>9, <2>10, <2>11,
             <2>12, <2>13, <2>14, <2>15, <2>16, <2>17, <2>18 DEF Step
<1>2. ASSUME NEW t \in Thread, TickTimeout(t) PROVE Inv' /\ Switch
  BY <1>2, TickTimeoutInv
<1>3. CASE rt_defunct_execute
  BY <1>3, DefunctInv
<1>4. CASE ReapFree
  BY <1>4, ReapInv
<1>5. CASE TickSlice
  BY <1>5, TickSliceInv
<1> QED BY <1>1, <1>2, <1>3, <1>4, <1>5 DEF Next

LEMMA StutterInv ==
  ASSUME Inv, UNCHANGED vars
  PROVE  Inv'
  BY DEF Inv, vars, TypeOK, limbo, RunningOK, RunningIsReady, DeletingOK, ReapingOK,
         ActingOK, StartingOK, MortalOK

\* Inv holds in every reachable state of a disciplined system.
THEOREM Invariance == ASSUME Disciplined PROVE Spec => []Inv
<1>1. Init => Inv
  BY InitInv
<1>2. Inv /\ [Next]_vars => Inv'
  BY NextInv, StutterInv
<1> QED BY <1>1, <1>2, PTL DEF Spec

\* Every thread of the scheduler's data structures has the type the code gives it.
THEOREM TypeCorrect == ASSUME Disciplined PROVE Spec => []TypeOK
<1>1. Inv => TypeOK
  BY DEF Inv
<1> QED BY <1>1, Invariance, PTL

\* A thread's tlist node is always in exactly the list its stat stands for, and
\* in no list while rt_thread_delete or rt_defunct_execute has it in hand.
THEOREM ListsCorrect == ASSUME Disciplined PROVE Spec => []ListsOK
<1>1. Inv => ListsOK
  BY DEF Inv, KernelInv, ListsOK
<1> QED BY <1>1, Invariance, PTL

\* The two-level bitmap that rt_schedule searches always agrees with the lists.
THEOREM BitmapCorrect == ASSUME Disciplined PROVE Spec => []BitmapOK
<1>1. Inv => BitmapOK
  BY DEF Inv, KernelInv, BitmapOK
<1> QED BY <1>1, Invariance, PTL

\* The assertion of rt_thread_timeout never fails.
THEOREM TimerCorrect == ASSUME Disciplined PROVE Spec => []TimerAssert
<1>1. Inv => TimerAssert
  BY DEF Inv, KernelInv, TimerAssert
<1> QED BY <1>1, Invariance, PTL

\* The processor never runs on in a thread that is not ready.
THEOREM RunningCorrect == ASSUME Disciplined PROVE Spec => []RunningIsReady
<1>1. Inv => RunningIsReady
  BY DEF Inv, RunningOK
<1> QED BY <1>1, Invariance, PTL

\* Every context switch picks a ready thread that no ready thread outranks.
THEOREM SwitchCorrect == ASSUME Disciplined PROVE Spec => SwitchToHighest
<1>1. Inv /\ [Next]_vars =>
        [k'.cur # k.cur =>
           /\ k'.stat[k'.cur] = "READY"
           /\ \A u \in Thread \ limbo' :
                k'.stat[u] = "READY" => k'.prio[k'.cur] <= k'.prio[u]]_vars
  <2>1. ASSUME Inv, Next
        PROVE  k'.cur # k.cur =>
                 /\ k'.stat[k'.cur] = "READY"
                 /\ \A u \in Thread \ limbo' :
                      k'.stat[u] = "READY" => k'.prio[k'.cur] <= k'.prio[u]
    BY <2>1, NextInv DEF Switch, Highest
  <2> QED BY <2>1
<1> QED BY <1>1, Invariance, PTL DEF Spec, SwitchToHighest

\* While the scheduler is locked no other thread gets the processor.
THEOREM LockCorrect == ASSUME Disciplined PROVE Spec => LockedNotPreempted
<1>1. Inv /\ [Next]_vars => [k.nest > 0 => k'.cur = k.cur]_vars
  <2>1. ASSUME Inv, Next
        PROVE  k.nest > 0 => k'.cur = k.cur
    BY <2>1, NextInv DEF Switch
  <2> QED BY <2>1
<1> QED BY <1>1, Invariance, PTL DEF Spec, LockedNotPreempted
=============================================================================
