-------------------------------- MODULE Sem ---------------------------------
(***************************************************************************)
(* A counting semaphore (rt_sem_take and the rest): taken and released    *)
(* by threads, released by an interrupt handler, reset, and detached while *)
(* in use.                                                                 *)
(*                                                                         *)
(* value is sem->value.  life says whether the object may be called: from  *)
(* the start of rt_sem_detach on no thread makes a new call.  balance is a *)
(* history variable: the tokens released and not yet taken.                *)
(***************************************************************************)
EXTENDS Ipc, FiniteSets

CONSTANTS SemList,    \* sem->parent.suspend_thread
          Flag,       \* RT_IPC_FLAG_FIFO or RT_IPC_FLAG_PRIO
          InitValue,
          Modulus,    \* 0x10000: sem->value is a rt_uint16_t
          MaxTokens,  \* bound on balance
          Times,      \* the waiting times in use
          ResetBy, DetachBy,  \* threads that reset and that detach it
          Sleepers            \* threads that sleep between two uses

ASSUME SemAssumption ==
  /\ SemList \in WaitList \ {Defunct}
  /\ Flag \in {"FIFO", "PRIO"}
  /\ Modulus \in Nat \ {0} /\ InitValue \in 0 .. (Modulus - 1)
  /\ MaxTokens \in Nat
  /\ Times \subseteq Time
  /\ ResetBy \subseteq Thread /\ DetachBy \subseteq Thread /\ Sleepers \subseteq Thread

VARIABLES value, life, balance
vars == <<k, pc, value, life, balance>>
obj  == <<value, life, balance>>

PC == {"run", "waiting", "woken", "sched", "reset",
       "closing", "closing_do", "crashed", "sleeping", "slept"}

waiters == k.wait[SemList]
Granted == Woken({"waiting", "woken"})

Init == IpcInit /\ value = InitValue /\ life = "live" /\ balance = InitValue

-----------------------------------------------------------------------------
\* rt_sem_take with a token there, without and without waiting, and waiting
TakeNow(t) ==
  /\ At(t, "run") /\ t # Idle /\ life = "live" /\ value > 0
  /\ value' = value - 1 /\ balance' = balance - 1
  /\ UNCHANGED <<k, pc, life>>

TakeTry(t) ==
  /\ At(t, "run") /\ t # Idle /\ life = "live" /\ value = 0 /\ "NO" \in Times
  /\ UNCHANGED vars

\* mutant: the value is not looked at
TakeWait_eager(t, time) ==
  /\ At(t, "run") /\ t # Idle /\ life = "live" /\ time # "NO"
  /\ k' = Block(k, SemList, t, Flag, time) /\ Goto(t, "waiting")
  /\ UNCHANGED obj

TakeWait(t, time) ==
  /\ At(t, "run") /\ t # Idle /\ life = "live" /\ value = 0 /\ time # "NO"
  /\ k' = Block(k, SemList, t, Flag, time) /\ Goto(t, "waiting")
  /\ UNCHANGED obj

\* back from rt_schedule(): the error number tells a token from a failure
TakeReturn(t) ==
  /\ At(t, "woken") /\ Goto(t, "run")
  /\ balance' = IF k.err[t] = RT_EOK THEN balance - 1 ELSE balance
  /\ UNCHANGED <<k, value, life>>

\* the section of rt_sem_release: the first waiter gets the token, or the
\* value goes up
HandOver == IF waiters = <<>> THEN k ELSE rt_ipc_list_resume(k, SemList)

\* mutant: the value goes up although the token was handed over
NewValue_twice == (value + 1) % Modulus

NewValue == IF waiters = <<>> THEN (value + 1) % Modulus ELSE value

rt_sem_release(t) ==
  /\ At(t, "run") /\ t # Idle /\ life = "live" /\ balance < MaxTokens
  /\ k' = HandOver /\ value' = NewValue /\ balance' = balance + 1
  /\ Goto(t, IF waiters = <<>> THEN "run" ELSE "sched")
  /\ UNCHANGED life

\* an interrupt handler releases: the switch it asks for is made on return
IsrRelease ==
  /\ IrqOn /\ life = "live" /\ balance < MaxTokens
  /\ k' = IF waiters = <<>> THEN k ELSE rt_schedule(HandOver)
  /\ value' = NewValue /\ balance' = balance + 1 /\ UNCHANGED <<pc, life>>

\* rt_sem_control(RT_IPC_CMD_RESET): the loop runs with interrupts disabled
ResetCall(t) ==
  /\ At(t, "run") /\ t \in ResetBy /\ life = "live"
  /\ Goto(t, "reset") /\ UNCHANGED <<k, value, life, balance>>

\* mutant: the waiter gets its error number and is not resumed
ResetTurn_asleep(t) ==
  /\ At(t, "reset") /\ waiters # <<>>
  /\ k' = SetErr(k, Head(waiters), RT_ERROR)
  /\ UNCHANGED <<pc, value, life, balance>>

ResetTurn(t) ==
  /\ At(t, "reset") /\ waiters # <<>>
  /\ k' = rt_ipc_list_resume_error(k, SemList)
  /\ UNCHANGED <<pc, value, life, balance>>

ResetEnd(t) ==
  /\ At(t, "reset") /\ waiters = <<>>
  /\ value' = InitValue /\ balance' = InitValue + Cardinality(Granted)
  /\ Goto(t, "sched") /\ UNCHANGED <<k, life>>

\* rt_sem_detach, rt_sem_delete: the loop of rt_ipc_list_resume_all looks at
\* the list with interrupts enabled and takes its head with them disabled
DetachCall(t) ==
  /\ At(t, "run") /\ t \in DetachBy /\ life = "live"
  /\ life' = "closing" /\ Goto(t, "closing") /\ UNCHANGED <<k, value, balance>>

DetachCheck(t) ==
  /\ At(t, "closing")
  /\ IF waiters # <<>>
     THEN Goto(t, "closing_do") /\ UNCHANGED life
     ELSE Goto(t, "run") /\ life' = "gone"
  /\ UNCHANGED <<k, value, balance>>

DetachTurn(t) == ResumeAllTurn(t, SemList, "closing_do", "closing") /\ UNCHANGED obj

\* rt_sem_init, rt_sem_create
rt_sem_init(t) ==
  /\ At(t, "run") /\ t \in DetachBy /\ life = "gone"
  /\ life' = "live" /\ value' = InitValue
  /\ balance' = InitValue + Cardinality(Granted)
  /\ UNCHANGED <<k, pc>>

-----------------------------------------------------------------------------
InCall(t) ==
  \/ Schedule(t, "waiting", "woken") /\ UNCHANGED obj
  \/ Schedule(t, "sched", "run") /\ UNCHANGED obj
  \/ TakeReturn(t)
  \/ ResetTurn(t) \/ ResetEnd(t)
  \/ DetachCheck(t) \/ DetachTurn(t)
  \/ Sleeping(t) /\ UNCHANGED obj

Step(t) ==
  \/ TakeNow(t) \/ TakeTry(t) \/ \E time \in Times : TakeWait(t, time)
  \/ rt_sem_release(t) \/ ResetCall(t)
  \/ DetachCall(t) \/ rt_sem_init(t)
  \/ t \in Sleepers /\ rt_thread_sleep(t) /\ UNCHANGED obj
  \/ InCall(t)

Next ==
  \/ \E t \in Thread : Step(t)
  \/ IsrRelease
  \/ TickSlice /\ UNCHANGED obj
  \/ \E t \in Thread : TickTimeout(t) /\ UNCHANGED obj

\* The running thread finishes its kernel call however often it is interrupted,
\* and a tick that finds interrupts disabled is taken when they are enabled.
Fairness ==
  /\ SF_vars(\E t \in Thread : InCall(t))
  /\ \A t \in Thread : SF_vars(TickTimeout(t) /\ UNCHANGED obj)

Spec == Init /\ [][Next]_vars
FairSpec == Spec /\ Fairness

-----------------------------------------------------------------------------
TypeOK ==
  /\ k \in KernelState /\ pc \in [Thread -> PC]
  /\ value \in 0 .. (Modulus - 1) /\ life \in {"live", "closing", "gone"}
  /\ balance \in Int

\* No token is lost, invented or handed out twice by rt_sem_take, rt_sem_release
\* and a time-out racing with them: every token released and not yet taken is in
\* sem->value or with a thread that was woken without an error.  The 16-bit value
\* wraps, so the count is kept modulo Modulus.
TokensKept == TypeOK /\ (balance - value - Cardinality(Granted)) % Modulus = 0

\* A thread waits for the semaphore only while it has no value: rt_sem_release
\* never raises the value past a waiting thread.
NoLostWakeup == value > 0 => waiters = <<>>

\* The suspend list holds exactly the threads blocked in rt_sem_take, in priority
\* order with RT_IPC_FLAG_PRIO, and rt_sem_detach leaves nobody on it.
SuspendListOK ==
  /\ Nodes(waiters) = {t \in Thread : pc[t] \in {"waiting", "woken"} /\ k.stat[t] = "SUSPEND"}
  /\ Flag = "PRIO" =>
       \A i, j \in 1 .. Len(waiters) : i < j => k.prio[waiters[i]] <= k.prio[waiters[j]]
  /\ life = "gone" => waiters = <<>>

\* A limited wait of a thread that no other thread outranks ends: it returns
\* from rt_sem_take whatever the others do.
TimedTakeReturns ==
  \A t \in Thread :
    (\A u \in Thread \ {t} : InitPrio[t] < InitPrio[u]) => (k.armed[t] ~> pc[t] = "run")
=============================================================================
