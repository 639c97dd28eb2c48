----------------------------- MODULE SoftTimer ------------------------------
(***************************************************************************)
(* Software timers: the sorted list of active timers, rt_timer_start and   *)
(* rt_timer_stop by threads, by an interrupt handler and by the call-backs *)
(* themselves, and the timer thread that sleeps until the first timer is   *)
(* due and calls back with interrupts enabled.                             *)
(*                                                                         *)
(* soft holds rt_soft_timer_list and the timers' ACTIVATED flag,           *)
(* timeout_tick and init_tick.  next_timeout, current_tick, following (n)  *)
(* and calling (t) are the timer thread's locals; subject is the timer a   *)
(* start or stop is about.  Call-backs return, and start or stop at most   *)
(* one timer; they do not block.                                           *)
(***************************************************************************)
EXTENDS Ipc

CONSTANTS TimerThread,
          Timer, NoTimer,
          Periodic,      \* the timers with RT_TIMER_FLAG_PERIODIC
          InitTimer,     \* a timer started before the threads run, or NoTimer
          Ticks,         \* values of init_tick
          TickModulus,   \* 2^32
          MaxLate,       \* how many ticks late a timer is looked at
          Stride,        \* ticks that pass at a time; 1, or more to leave ticks out
          Uses,          \* pairs <<t, x>>: thread t starts and stops timer x
          IsrStarts,     \* timers an interrupt handler starts
          CallStarts,    \* pairs <<x, y>>: the call-back of x starts y,
          CallStops      \* stops y

RT_TICK_MAX == TickModulus - 1
Half == RT_TICK_MAX \div 2
Tick == 0 .. RT_TICK_MAX

ASSUME SoftTimerAssumption ==
  /\ TimerThread \in Thread \ {Idle} /\ NoTimer \notin Timer
  /\ Periodic \subseteq Timer /\ InitTimer \in Timer \cup {NoTimer}
  /\ TickModulus \in Nat \ {0} /\ MaxLate \in 1 .. Half
  /\ Ticks \subseteq 0 .. (Half - 1) /\ Ticks # {}   \* RT_ASSERT of rt_timer_start
  /\ Uses \subseteq (Thread \ {Idle, TimerThread}) \X Timer
  /\ IsrStarts \subseteq Timer
  /\ CallStarts \subseteq Timer \X Timer /\ CallStops \subseteq Timer \X Timer
  /\ Stride \in Nat \ {0}

VARIABLES rt_tick, soft, next_timeout, following, current_tick, calling, subject
entry_locals == <<next_timeout, following, current_tick, calling>>
timer_vars == <<k, pc, rt_tick, soft, entry_locals, subject>>

TimerPC == {"run", "next", "nap", "suspended", "delaying", "delayed", "check", "first",
            "callback", "called", "after", "start_link", "start_check", "start_resume",
            "sched", "stop_unlink", "stop_clear"}

TimerInit ==
  /\ k = Booted
  /\ pc = [t \in Thread |-> IF t = TimerThread THEN "next" ELSE "run"]
  /\ rt_tick = 0
  /\ \E init \in [Timer -> Ticks] :
       soft = [list   |-> IF InitTimer = NoTimer THEN <<>> ELSE <<InitTimer>>,
               active |-> [x \in Timer |-> x = InitTimer],
               due    |-> [x \in Timer |-> IF x = InitTimer THEN init[x] ELSE 0],
               init   |-> init]
  /\ next_timeout = 0 /\ following = NoTimer /\ current_tick = 0 /\ calling = NoTimer
  /\ subject = [t \in Thread |-> NoTimer]

-----------------------------------------------------------------------------
(* The timer list. *)

\* ticks from b to a; rt_tick_t is unsigned
Minus(a, b) == (a - b) % TickModulus

\* mutant: the ticks are compared as numbers
Later_plain(a, b) == a > b

\* timeout_tick a comes after b, not at the same time
Later(a, b) == Minus(a, b) # 0 /\ Minus(a, b) < Half

\* _rt_timer_remove: the node is linked to itself
Removed(q, x) == [q EXCEPT !.list = Unlink(q.list, x)]

\* the first two statements of rt_timer_start, and the tick that it reads
Unlinked(q, x) ==
  [Removed(q, x) EXCEPT !.active = [@ EXCEPT ![x] = FALSE],
                        !.due = [@ EXCEPT ![x] = (rt_tick + q.init[x]) % TickModulus]]

\* behind every timer due earlier or at the same time
TimerLinked(q, x) ==
  LET late == {i \in 1 .. Len(q.list) : Later(q.due[q.list[i]], q.due[x])}
      i    == IF late = {} THEN Len(q.list) + 1
              ELSE CHOOSE j \in late : \A m \in late : j <= m
  IN  [q EXCEPT !.list = InsertBefore(q.list, i, x), !.active = [@ EXCEPT ![x] = TRUE]]

Inactive(q, x) == [q EXCEPT !.active = [@ EXCEPT ![x] = FALSE]]

\* node->next; NoTimer is the list head
First(q) == IF q.list = <<>> THEN NoTimer ELSE Head(q.list)
NextNode(q, x) ==
  IF x \notin Nodes(q.list) THEN x
  ELSE LET i == CHOOSE j \in 1 .. Len(q.list) : q.list[j] = x
       IN  IF i = Len(q.list) THEN NoTimer ELSE q.list[i + 1]

-----------------------------------------------------------------------------
(* rt_timer_start and rt_timer_stop, called by a thread at "run" or by a      *)
(* call-back at "callback"; a call-back makes one call.                       *)

Caller(t) == IF t = TimerThread THEN "callback" ELSE "run"
Back(t)   == IF t = TimerThread THEN "called" ELSE "run"
MayStart(t, x) == IF t = TimerThread THEN <<calling, x>> \in CallStarts ELSE <<t, x>> \in Uses
MayStop(t, x)  == IF t = TimerThread THEN <<calling, x>> \in CallStops ELSE <<t, x>> \in Uses
With(t, x) == subject' = [subject EXCEPT ![t] = x]

rt_timer_start(t, x) ==
  /\ At(t, Caller(t)) /\ MayStart(t, x)
  /\ soft' = Unlinked(soft, x) /\ With(t, x) /\ Goto(t, "start_link")
  /\ UNCHANGED <<k, rt_tick, entry_locals>>

StartLink(t) ==
  /\ At(t, "start_link")
  /\ soft' = TimerLinked(soft, subject[t]) /\ Goto(t, "start_check")
  /\ UNCHANGED <<k, rt_tick, entry_locals, subject>>

\* mutant: the timer thread is left asleep
StartCheck_asleep(t) ==
  /\ At(t, "start_check") /\ Goto(t, Back(t))
  /\ With(t, NoTimer) /\ UNCHANGED <<k, rt_tick, soft, entry_locals>>

StartCheck(t) ==
  /\ At(t, "start_check")
  /\ Goto(t, IF k.stat[TimerThread] = "READY" THEN Back(t) ELSE "start_resume")
  /\ With(t, NoTimer) /\ UNCHANGED <<k, rt_tick, soft, entry_locals>>

\* rt_thread_resume looks at the state again, with interrupts enabled
StartResume(t) ==
  /\ At(t, "start_resume") /\ Goto(t, "sched")
  /\ \/ k' = ResumeSection(k, TimerThread)
     \/ k.stat[TimerThread] # "SUSPEND" /\ k' = k
  /\ UNCHANGED <<rt_tick, soft, entry_locals, subject>>

\* an interrupt handler starts a timer in one go
IsrStart(x) ==
  /\ x \in IsrStarts
  /\ soft' = TimerLinked(Unlinked(soft, x), x)
  /\ k' = IF k.stat[TimerThread] # "READY"
          THEN rt_schedule(rt_thread_resume(k, TimerThread)) ELSE k
  /\ UNCHANGED <<pc, rt_tick, entry_locals, subject>>

rt_timer_stop(t, x) ==
  /\ At(t, Caller(t)) /\ MayStop(t, x)
  /\ IF soft.active[x] THEN With(t, x) /\ Goto(t, "stop_unlink")
     ELSE UNCHANGED subject /\ Goto(t, Back(t))
  /\ UNCHANGED <<k, rt_tick, soft, entry_locals>>

StopUnlink(t) ==
  /\ At(t, "stop_unlink")
  /\ soft' = Removed(soft, subject[t]) /\ Goto(t, "stop_clear")
  /\ UNCHANGED <<k, rt_tick, entry_locals, subject>>

\* mutant: the timer stays marked as active
StopClear_not(t) ==
  /\ At(t, "stop_clear")
  /\ With(t, NoTimer) /\ Goto(t, Back(t))
  /\ UNCHANGED <<k, rt_tick, soft, entry_locals>>

StopClear(t) ==
  /\ At(t, "stop_clear")
  /\ soft' = Inactive(soft, subject[t]) /\ With(t, NoTimer) /\ Goto(t, Back(t))
  /\ UNCHANGED <<k, rt_tick, entry_locals>>

\* rt_timer_detach, and rt_timer_init to use the timer again
rt_timer_detach(t, x) ==
  /\ At(t, "run") /\ <<t, x>> \in Uses
  /\ soft' = Inactive(Removed(soft, x), x) /\ UNCHANGED <<k, pc, rt_tick, entry_locals, subject>>

\* RT_TIMER_CTRL_SET_TIME
rt_timer_control(t, x, d) ==
  /\ At(t, "run") /\ <<t, x>> \in Uses
  /\ soft' = [soft EXCEPT !.init = [@ EXCEPT ![x] = d]]
  /\ UNCHANGED <<k, pc, rt_tick, entry_locals, subject>>

-----------------------------------------------------------------------------
(* rt_thread_timer_entry *)

TAt(l) == At(TimerThread, l)
TGoto(m) == Goto(TimerThread, m)

NextTimeout ==
  /\ TAt("next") /\ TGoto("nap")
  /\ next_timeout' = IF soft.list = <<>> THEN RT_TICK_MAX ELSE soft.due[Head(soft.list)]
  /\ UNCHANGED <<k, rt_tick, soft, following, current_tick, calling, subject>>

Nap ==
  /\ TAt("nap") /\ UNCHANGED <<rt_tick, soft, entry_locals, subject>>
  /\ CASE next_timeout = RT_TICK_MAX ->
            k' = rt_thread_suspend(k, TimerThread) /\ TGoto("suspended")
       [] next_timeout # RT_TICK_MAX /\ Minus(next_timeout, rt_tick) < Half ->
            k' = Started(rt_thread_suspend(k, TimerThread), TimerThread) /\ TGoto("delaying")
       [] OTHER -> UNCHANGED k /\ TGoto("check")

DelayReturn ==
  /\ TAt("delayed") /\ TGoto("check")
  /\ k' = IF k.err[TimerThread] = RT_ETIMEOUT THEN SetErr(k, TimerThread, RT_EOK) ELSE k
  /\ UNCHANGED <<rt_tick, soft, entry_locals, subject>>

\* mutant: the tick is not read again
rt_soft_timer_check_stale ==
  /\ TAt("check") /\ TGoto("first")
  /\ UNCHANGED <<k, rt_tick, soft, entry_locals, subject>>

\* rt_soft_timer_check; a turn of its loop looks at node x of list q, and
\* remembers the next one before it unlinks x
rt_soft_timer_check ==
  /\ TAt("check") /\ current_tick' = rt_tick /\ TGoto("first")
  /\ UNCHANGED <<k, rt_tick, soft, next_timeout, following, calling, subject>>

\* mutant: the next node is read after the timer was unlinked
Turn_after(q, x) ==
  /\ IF x # NoTimer /\ Minus(current_tick, q.due[x]) < Half
     THEN /\ following' = NextNode(Removed(q, x), x) /\ soft' = Removed(q, x)
          /\ calling' = x /\ TGoto("callback")
     ELSE following' = NoTimer /\ soft' = q /\ calling' = NoTimer /\ TGoto("next")
  /\ UNCHANGED <<k, rt_tick, next_timeout, current_tick, subject>>

Turn(q, x) ==
  /\ IF x # NoTimer /\ Minus(current_tick, q.due[x]) < Half
     THEN /\ following' = NextNode(q, x) /\ soft' = Removed(q, x)
          /\ calling' = x /\ TGoto("callback")
     ELSE following' = NoTimer /\ soft' = q /\ calling' = NoTimer /\ TGoto("next")
  /\ UNCHANGED <<k, rt_tick, next_timeout, current_tick, subject>>

FirstTurn == TAt("first") /\ Turn(soft, First(soft))

CallbackEnd ==
  /\ TAt("callback") \/ TAt("called")
  /\ current_tick' = rt_tick /\ TGoto("after")
  /\ UNCHANGED <<k, rt_tick, soft, next_timeout, following, calling, subject>>

\* the call-back has returned: restart or stop the timer, go on with the node after it
NextTurn ==
  /\ TAt("after")
  /\ IF calling \in Periodic /\ soft.active[calling]
     THEN Turn(TimerLinked(Unlinked(soft, calling), calling), following)
     ELSE Turn(Inactive(soft, calling), following)

-----------------------------------------------------------------------------
\* "It supposes that the new tick shall less than the half duration of tick
\* max": no tick that a timer or the timer thread has read is older than MaxLate
Pending ==
  {soft.due[x] : x \in {u \in Timer : u \in Nodes(soft.list) \/ \E t \in Thread : subject[t] = u}}
    \cup (IF pc[TimerThread] = "nap" \/ k.armed[TimerThread] THEN {next_timeout} ELSE {})
    \cup (IF pc[TimerThread] \in {"first", "after"} THEN {current_tick} ELSE {})

TickIncrease ==
  /\ \A p \in Pending : Minus(rt_tick, p) < Half => Minus(rt_tick, p) < MaxLate
  /\ rt_tick' = (rt_tick + Stride) % TickModulus
  /\ UNCHANGED <<k, pc>> \/ TickSlice
  /\ UNCHANGED <<soft, entry_locals, subject>>

\* rt_thread_delay of the timer thread is over
DelayOver ==
  /\ Minus(rt_tick, next_timeout) < Half /\ TickTimeout(TimerThread)
  /\ UNCHANGED <<rt_tick, soft, entry_locals, subject>>

Sched ==
  /\ \/ Schedule(TimerThread, "suspended", "check")
     \/ Schedule(TimerThread, "delaying", "delayed")
     \/ \E t \in Thread \ {TimerThread} : Schedule(t, "sched", "run")
  /\ UNCHANGED <<rt_tick, soft, entry_locals, subject>>

TimerCall(t) ==
  \/ StartLink(t) \/ StartCheck(t) \/ StartResume(t) \/ StopUnlink(t) \/ StopClear(t)

TimerEntry ==
  \/ NextTimeout \/ Nap \/ DelayReturn \/ rt_soft_timer_check
  \/ FirstTurn \/ CallbackEnd \/ NextTurn

TimerNext ==
  \/ \E t \in Thread, x \in Timer :
       \/ rt_timer_start(t, x) \/ rt_timer_stop(t, x) \/ rt_timer_detach(t, x)
       \/ \E d \in Ticks : rt_timer_control(t, x, d)
  \/ \E t \in Thread : TimerCall(t)
  \/ \E x \in Timer : IsrStart(x)
  \/ TimerEntry \/ Sched
  \/ TickIncrease
  \/ DelayOver

\* The running thread goes on in its call however often it is interrupted,
\* call-backs end, and the tick keeps coming.
TimerFairness ==
  /\ SF_timer_vars((\E t \in Thread : TimerCall(t)) \/ TimerEntry \/ Sched)
  /\ WF_timer_vars(TickIncrease) /\ WF_timer_vars(DelayOver)

TimerSpec == TimerInit /\ [][TimerNext]_timer_vars
FairTimerSpec == TimerSpec /\ TimerFairness

-----------------------------------------------------------------------------
(* What the code relies on its callers for; the theorems assume it. *)

TimerUsers == {t \in Thread : \E x \in Timer : <<t, x>> \in Uses}

\* Who may touch a timer: one thread; or an interrupt handler, and then it is periodic;
\* or the call-backs.  A call-back stops no timer but its own, and restarts its own
\* only if it is periodic.
TimersApart ==
  /\ \A t, u \in Thread : \A x \in Timer : <<t, x>> \in Uses /\ <<u, x>> \in Uses => t = u
  /\ \A x \in IsrStarts : x \in Periodic /\ \A t \in Thread : <<t, x>> \notin Uses
  /\ \A x, y \in Timer : <<x, y>> \in CallStarts =>
       /\ y \notin IsrStarts
       /\ IF x = y THEN x \in Periodic ELSE \A t \in Thread : <<t, y>> \notin Uses
  /\ \A x, y \in Timer : <<x, y>> \in CallStops => x = y /\ x \notin IsrStarts

\* The timer thread is scheduled before the threads that use timers.
TimerOutranks == \A t \in TimerUsers : InitPrio[TimerThread] < InitPrio[t]

\* The longest time-out and the latest look at a timer are less than half the range of
\* the tick apart.
TicksFit == \A d \in Ticks : d + MaxLate + Stride <= Half

-----------------------------------------------------------------------------
TimerTypeOK ==
  /\ k \in KernelState /\ pc \in [Thread -> TimerPC] /\ rt_tick \in Tick
  /\ soft \in [list : Seq(Timer), active : [Timer -> BOOLEAN],
               due : [Timer -> Tick], init : [Timer -> Ticks]]
  /\ next_timeout \in Tick /\ current_tick \in Tick
  /\ following \in Timer \cup {NoTimer} /\ calling \in Timer \cup {NoTimer}
  /\ subject \in [Thread -> Timer \cup {NoTimer}]

\* The list is in the order in which the timers are due, across the wrap of the
\* 32-bit tick, so looking at its head is enough; no timer is in it twice.
Sorted ==
  TimerTypeOK /\ \A i, j \in 1 .. Len(soft.list) :
    i < j => /\ soft.list[i] # soft.list[j]
             /\ Minus(soft.due[soft.list[j]], soft.due[soft.list[i]]) < Half

\* "no software timer exist, suspend self": the timer thread sleeps without a
\* time-out only while no timer is active.
SleepsOnlyIdle ==
  pc[TimerThread] \in {"suspended", "check"} /\ k.stat[TimerThread] = "SUSPEND"
    => \/ soft.list = <<>>
       \/ \E t \in Thread : pc[t] \in {"start_check", "start_resume"}

\* ACTIVATED tells rt_timer_stop whether the timer is in the list; it may be
\* wrong only while a start, a stop or the call-back of the timer is under way.
ActiveIsLinked ==
  \A x \in Timer :
    \/ soft.active[x] = (x \in Nodes(soft.list))
    \/ x = calling \/ \E t \in Thread : subject[t] = x

\* A timer that was stopped is not called: a call-back only runs for a timer that
\* is active when it is taken off the list.
StoppedNotCalled ==
  [][(TAt("first") \/ TAt("after")) /\ pc'[TimerThread] = "callback"
       => soft'.active[calling']]_timer_vars

\* The same for the timers that only threads and call-backs start, which the
\* timer thread outranks or is: whatever an interrupt handler starts in between,
\* the timer thread does not sleep past one of them.
SleepsOnlyPast ==
  pc[TimerThread] \in {"suspended", "check"} /\ k.stat[TimerThread] = "SUSPEND"
    => \/ Nodes(soft.list) \subseteq IsrStarts
       \/ \E t \in Thread : pc[t] \in {"start_check", "start_resume"}

\* Every such timer in the list is called, stopped or restarted: the timer thread
\* wakes up for it although it sleeps until the first one that it saw.
Fires ==
  \A x \in Timer \ IsrStarts : x \in Nodes(soft.list) ~> x \notin Nodes(soft.list)
=============================================================================
