------------------------------- MODULE Event --------------------------------
(***************************************************************************)
(* An event object (rt_event_send, rt_event_recv and the rest): a set of   *)
(* flags that threads wait for, all or any of them, and may clear when     *)
(* they get them.                                                          *)
(*                                                                         *)
(* set is event->set; info[t] holds thread->event_set and event_info of    *)
(* the call t is in.  sends and takes are history variables: how often a   *)
(* flag was sent, and how often a thread that clears it was told it has    *)
(* come.                                                                   *)
(***************************************************************************)
EXTENDS Ipc, FiniteSets

CONSTANTS EventList,   \* event->parent.suspend_thread
          Flag,        \* RT_IPC_FLAG_FIFO or RT_IPC_FLAG_PRIO
          Bits,        \* the 32 flags
          Masks,       \* the non-empty sets of flags sent and waited for
          Senders, Receivers,
          IsrMasks,    \* what an interrupt handler sends
          EventTimes,  \* the waiting times in use
          ResetBy, DeleteBy,  \* threads that reset and that delete the object
          MaxSends     \* bound on sends of one flag

ASSUME EventAssumption ==
  /\ EventList \in WaitList \ {Defunct} /\ Flag \in {"FIFO", "PRIO"}
  /\ Masks \subseteq (SUBSET Bits) \ {{}} /\ IsrMasks \subseteq Masks
  /\ Senders \subseteq Thread \ {Idle} /\ Receivers \subseteq Thread \ {Idle}
  /\ EventTimes \subseteq Time /\ ResetBy \subseteq Thread /\ DeleteBy \subseteq Thread
  /\ MaxSends \in Nat

VARIABLES set, info, phase, sends, takes
eventVars == <<k, pc, set, info, phase, sends, takes>>

EventPC == {"run", "sched", "waiting", "woken", "reset", "closing", "closing_do", "crashed"}

\* RT_EVENT_FLAG_AND or RT_EVENT_FLAG_OR, with or without RT_EVENT_FLAG_CLEAR
Option == [all : BOOLEAN, clear : BOOLEAN]
Info == [set : SUBSET Bits, all : BOOLEAN, clear : BOOLEAN]
NoInfo == [set |-> {}, all |-> FALSE, clear |-> FALSE]

EventInit ==
  /\ IpcInit /\ set = {} /\ phase = "live"
  /\ info = [t \in Thread |-> NoInfo]
  /\ sends = [b \in Bits |-> 0] /\ takes = [b \in Bits |-> 0]

Enter(t, T) == At(t, "run") /\ t \in T /\ phase = "live"
Counted(count, S) == [b \in Bits |-> IF b \in S THEN count[b] + 1 ELSE count[b]]

-----------------------------------------------------------------------------
\* what thread info i waits for is in s
Satisfied(i, s) == IF i.all THEN i.set \subseteq s ELSE i.set \cap s # {}

\* mutants: the flags are not cleared while the list is searched; the search
\* stops at the first thread that is resumed
Visit_keep(x, t) ==
  IF Satisfied(x.info[t], x.set)
  THEN LET have == x.info[t].set \cap x.set
       IN  [k    |-> rt_thread_resume(x.k, t),
            info |-> [x.info EXCEPT ![t].set = have],
            set  |-> x.set,
            woke |-> TRUE]
  ELSE x

Visit_first(x, t) ==
  IF ~x.woke /\ Satisfied(x.info[t], x.set)
  THEN LET have == x.info[t].set \cap x.set
       IN  [k    |-> rt_thread_resume(x.k, t),
            info |-> [x.info EXCEPT ![t].set = have],
            set  |-> IF x.info[t].clear THEN x.set \ have ELSE x.set,
            woke |-> TRUE]
  ELSE x

\* one thread of the search in rt_event_send: if what it waits for is there, it
\* keeps the flags that are, clears them if it said so, and is resumed
Visit(x, t) ==
  IF Satisfied(x.info[t], x.set)
  THEN LET have == x.info[t].set \cap x.set
       IN  [k    |-> rt_thread_resume(x.k, t),
            info |-> [x.info EXCEPT ![t].set = have],
            set  |-> IF x.info[t].clear THEN x.set \ have ELSE x.set,
            woke |-> TRUE]
  ELSE x

\* the search over the threads that wait when the flags come in
Search(mask) ==
  LET w == k.wait[EventList]
      x[i \in 0 .. Len(w)] ==
        IF i = 0 THEN [k |-> k, info |-> info, set |-> set \cup mask, woke |-> FALSE]
        ELSE Visit(x[i - 1], w[i])
  IN  x[Len(w)]

SendOn(mask) ==
  /\ \A b \in mask : sends[b] < MaxSends
  /\ set' = Search(mask).set /\ info' = Search(mask).info
  /\ sends' = Counted(sends, mask) /\ UNCHANGED <<phase, takes>>

rt_event_send(t, mask) ==
  /\ Enter(t, Senders) /\ SendOn(mask)
  /\ k' = Search(mask).k
  /\ Goto(t, IF Search(mask).woke THEN "sched" ELSE "run")

IsrSend(mask) ==
  /\ IrqOn /\ phase = "live" /\ SendOn(mask)
  /\ k' = IF Search(mask).woke THEN rt_schedule(Search(mask).k) ELSE k
  /\ UNCHANGED pc

-----------------------------------------------------------------------------
\* rt_event_recv: the flags are there; they are not and the call does not wait;
\* it waits
RecvNow(t, mask, o) ==
  LET i == [set |-> mask, all |-> o.all, clear |-> o.clear] IN
  /\ Enter(t, Receivers) /\ Satisfied(i, set)
  /\ k' = SetErr(k, t, RT_EOK)
  /\ set' = IF o.clear THEN set \ mask ELSE set
  /\ takes' = IF o.clear THEN Counted(takes, set \cap mask) ELSE takes
  /\ UNCHANGED <<pc, info, phase, sends>>

RecvTry(t, mask, o) ==
  LET i == [set |-> mask, all |-> o.all, clear |-> o.clear] IN
  /\ Enter(t, Receivers) /\ ~Satisfied(i, set) /\ "NO" \in EventTimes
  /\ k' = SetErr(k, t, RT_ETIMEOUT)
  /\ UNCHANGED <<pc, set, info, phase, sends, takes>>

RecvWait(t, mask, o, time) ==
  LET i == [set |-> mask, all |-> o.all, clear |-> o.clear] IN
  /\ Enter(t, Receivers) /\ ~Satisfied(i, set) /\ time # "NO"
  /\ k' = Block(k, EventList, t, Flag, time) /\ Goto(t, "waiting")
  /\ info' = [info EXCEPT ![t] = i]
  /\ UNCHANGED <<set, phase, sends, takes>>

RecvReturn(t) ==
  /\ At(t, "woken") /\ Goto(t, "run")
  /\ takes' = IF k.err[t] = RT_EOK /\ info[t].clear
              THEN Counted(takes, info[t].set) ELSE takes
  /\ info' = [info EXCEPT ![t] = NoInfo]
  /\ UNCHANGED <<k, set, phase, sends>>

\* rt_event_control(RT_IPC_CMD_RESET), in one section
ResetCall(t) ==
  /\ Enter(t, ResetBy) /\ Goto(t, "reset")
  /\ UNCHANGED <<k, set, info, phase, sends, takes>>

ResetThread(t) ==
  /\ At(t, "reset") /\ k.wait[EventList] # <<>>
  /\ k' = rt_ipc_list_resume_error(k, EventList)
  /\ UNCHANGED <<pc, set, info, phase, sends, takes>>

ResetEnd(t) ==
  /\ At(t, "reset") /\ k.wait[EventList] = <<>>
  /\ set' = {} /\ Goto(t, "sched") /\ UNCHANGED <<k, info, phase, sends, takes>>

\* rt_event_detach, rt_event_delete
DeleteCall(t) ==
  /\ Enter(t, DeleteBy) /\ phase' = "closing" /\ Goto(t, "closing")
  /\ UNCHANGED <<k, set, info, sends, takes>>

DeleteCheck(t) ==
  /\ At(t, "closing")
  /\ IF k.wait[EventList] # <<>>
     THEN Goto(t, "closing_do") /\ UNCHANGED phase
     ELSE Goto(t, "run") /\ phase' = "gone"
  /\ UNCHANGED <<k, set, info, sends, takes>>

DeleteTurn(t) ==
  /\ ResumeAllTurn(t, EventList, "closing_do", "closing")
  /\ UNCHANGED <<set, info, phase, sends, takes>>

EventNext ==
  \/ \E t \in Thread :
       \/ \E mask \in Masks : rt_event_send(t, mask)
       \/ \E mask \in Masks, o \in Option :
            \/ RecvNow(t, mask, o) \/ RecvTry(t, mask, o)
            \/ \E time \in EventTimes : RecvWait(t, mask, o, time)
       \/ RecvReturn(t)
       \/ ResetCall(t) \/ ResetThread(t) \/ ResetEnd(t)
       \/ DeleteCall(t) \/ DeleteCheck(t) \/ DeleteTurn(t)
       \/ (\/ Schedule(t, "waiting", "woken") \/ Schedule(t, "sched", "run")
           \/ TickTimeout(t)) /\ UNCHANGED <<set, info, phase, sends, takes>>
  \/ \E mask \in IsrMasks : IsrSend(mask)
  \/ TickSlice /\ UNCHANGED <<set, info, phase, sends, takes>>

EventSpec == EventInit /\ [][EventNext]_eventVars

-----------------------------------------------------------------------------
EventTypeOK ==
  /\ k \in KernelState /\ pc \in [Thread -> EventPC] /\ phase \in {"live", "closing", "gone"}
  /\ set \subseteq Bits /\ info \in [Thread -> Info]
  /\ sends \in [Bits -> 0 .. MaxSends] /\ takes \in [Bits -> Nat]

\* No thread sleeps on for flags that are there: one send wakes every thread it
\* satisfies, in list order, even while earlier threads clear flags; and
\* rt_event_detach leaves nobody waiting.
NoSatisfiedWaiter ==
  EventTypeOK /\ \A t \in Nodes(k.wait[EventList]) : phase # "gone" /\ ~Satisfied(info[t], set)

\* threads a send has satisfied that have not returned yet
Owed(b) ==
  {t \in Woken({"waiting", "woken"}) : info[t].clear /\ b \in info[t].set}

\* A flag sent once satisfies at most one receiver that clears it, a time-out and a
\* waiter that was resumed but has not run included.
ClearedOnce ==
  \A b \in Bits :
    takes[b] + Cardinality(Owed(b)) + (IF b \in set THEN 1 ELSE 0) <= sends[b]
=============================================================================
