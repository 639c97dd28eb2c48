------------------------------ MODULE Mailbox -------------------------------
(***************************************************************************)
(* A mailbox (rt_mb_send_wait and the rest): a ring of mails on which both *)
(* receivers and senders may wait.                                         *)
(*                                                                         *)
(* mb holds msg_pool, in_offset, out_offset and entry.  mail and time are  *)
(* the locals of a call.  History variables: got is what a receiver got    *)
(* last, asleep the threads that waited when the mailbox was deleted and   *)
(* that no mail, or room for one, has woken since.                         *)
(***************************************************************************)
EXTENDS Ipc, FiniteSets

CONSTANTS RecvList, SendList,  \* parent.suspend_thread, suspend_sender_thread
          Flag,                \* RT_IPC_FLAG_FIFO or RT_IPC_FLAG_PRIO
          Size,                \* mb->size
          Msg, NoMsg,          \* mails; what a fresh pool holds
          Senders, Receivers,  \* threads that send and that receive
          IsrMsg,              \* mails an interrupt handler sends
          Times,               \* the waiting times in use
          ResetBy, DeleteBy    \* threads that reset and that delete the mailbox

ASSUME MailboxAssumption ==
  /\ {RecvList, SendList} \subseteq WaitList \ {Defunct} /\ RecvList # SendList
  /\ Flag \in {"FIFO", "PRIO"} /\ Size \in Nat \ {0}
  /\ NoMsg \notin Msg /\ IsrMsg \subseteq Msg
  /\ Senders \subseteq Thread \ {Idle} /\ Receivers \subseteq Thread \ {Idle}
  /\ Times \subseteq Time /\ ResetBy \subseteq Thread /\ DeleteBy \subseteq Thread

VARIABLES mb, mail, time, got, life, asleep
locals == <<mail, time, got>>
obj == <<life, asleep>>
vars == <<k, pc, mb, locals, obj>>

Slot == 0 .. (Size - 1)
PC == {"run", "sched", "receiving", "received", "sending", "sent", "reset",
       "closing", "closing_do", "ending", "ending_do", "crashed"}

\* rt_mb_init, rt_mb_create, and the end of RT_IPC_CMD_RESET but for the pool
FreshBox == [pool |-> [i \in Slot |-> NoMsg], in |-> 0, out |-> 0, entry |-> 0]

Init ==
  /\ IpcInit /\ mb = FreshBox /\ life = "live" /\ asleep = {}
  /\ mail = [t \in Thread |-> NoMsg] /\ time = [t \in Thread |-> "NO"]
  /\ got = [t \in Thread |-> NoMsg]

Enter(t, T) == At(t, "run") /\ t \in T /\ life = "live"
Full == mb.entry = Size

-----------------------------------------------------------------------------
Forward(i) == IF i + 1 >= Size THEN 0 ELSE i + 1
Backward(i) == IF i > 0 THEN i - 1 ELSE Size - 1

Put(b, m) == [b EXCEPT !.pool = [@ EXCEPT ![b.in] = m], !.in = Forward(@), !.entry = @ + 1]

\* mutant: the mail is written before the offset is moved back
PutUrgent_here(b, m) ==
  [b EXCEPT !.pool = [@ EXCEPT ![b.out] = m], !.out = Backward(@), !.entry = @ + 1]

PutUrgent(b, m) ==
  LET i == Backward(b.out)
  IN  [b EXCEPT !.pool = [@ EXCEPT ![i] = m], !.out = i, !.entry = @ + 1]

Get(b) == [b EXCEPT !.out = Forward(@), !.entry = @ - 1]

\* mutant: only a mail in an empty box, or a slot in a full one, wakes
Wake_edge(q) ==
  IF k.wait[q] = <<>> \/ mb.entry \in 1 .. (Size - 1) THEN k ELSE rt_ipc_list_resume(k, q)

Wake(q) == IF k.wait[q] = <<>> THEN k ELSE rt_ipc_list_resume(k, q)
AfterWake(q) == IF k.wait[q] = <<>> THEN "run" ELSE "sched"

\* history: a mail or room for one has woken the first thread of list q
Served(q) == asleep' = IF k.wait[q] = <<>> THEN asleep ELSE asleep \ {Head(k.wait[q])}

\* leave a call
Leave(t) ==
  /\ mail' = [mail EXCEPT ![t] = NoMsg] /\ time' = [time EXCEPT ![t] = "NO"]

-----------------------------------------------------------------------------
\* rt_mb_send_wait: put the mail, or wait; rt_mb_send does not wait
SendPut(t, l, m) ==
  /\ At(t, l) /\ ~Full
  /\ mb' = Put(mb, m) /\ k' = Wake(RecvList) /\ Goto(t, AfterWake(RecvList))
  /\ Leave(t) /\ Served(RecvList) /\ UNCHANGED <<got, life>>

SendWait(t, l, m, tm) ==
  /\ At(t, l) /\ Full /\ tm # "NO"
  /\ k' = Block(k, SendList, t, Flag, tm) /\ Goto(t, "sending")
  /\ mail' = [mail EXCEPT ![t] = m] /\ time' = [time EXCEPT ![t] = tm]
  /\ UNCHANGED <<mb, got, obj>>

SendCall(t, m) ==
  /\ Enter(t, Senders)
  /\ SendPut(t, "run", m) \/ \E tm \in Times : SendWait(t, "run", m, tm)

SendFull(t) == Enter(t, Senders) /\ Full /\ "NO" \in Times /\ UNCHANGED vars

Fail(t, e) ==
  /\ k' = SetErr(k, t, e) /\ Goto(t, "run") /\ Leave(t) /\ UNCHANGED <<mb, got, obj>>

\* back from rt_schedule(): an error, a free slot, or another turn of the loop
\* with what is left of a limited wait, which may be nothing (-RT_EFULL)
SendWoken(t) ==
  /\ At(t, "sent")
  /\ \/ k.err[t] # RT_EOK /\ Fail(t, k.err[t])
     \/ k.err[t] = RT_EOK /\ SendPut(t, "sent", mail[t])
     \/ k.err[t] = RT_EOK /\ SendWait(t, "sent", mail[t], time[t])
     \/ k.err[t] = RT_EOK /\ Full /\ time[t] = "TICKS" /\ Fail(t, RT_EOK)

\* rt_mb_urgent
rt_mb_urgent(t, m) ==
  /\ Enter(t, Senders) /\ ~Full
  /\ mb' = PutUrgent(mb, m) /\ k' = Wake(RecvList) /\ Goto(t, AfterWake(RecvList))
  /\ Served(RecvList) /\ UNCHANGED <<locals, life>>

\* an interrupt handler sends without waiting
IsrSend(m) ==
  /\ IrqOn /\ life = "live" /\ ~Full
  /\ mb' = Put(mb, m)
  /\ k' = IF k.wait[RecvList] = <<>> THEN k ELSE rt_schedule(Wake(RecvList))
  /\ Served(RecvList) /\ UNCHANGED <<pc, locals, life>>

\* rt_mb_recv
RecvGet(t, l) ==
  /\ At(t, l) /\ mb.entry > 0
  /\ mb' = Get(mb) /\ got' = [got EXCEPT ![t] = mb.pool[mb.out]]
  /\ k' = Wake(SendList) /\ Goto(t, AfterWake(SendList))
  /\ Leave(t) /\ Served(SendList) /\ UNCHANGED life

RecvWait(t, l, tm) ==
  /\ At(t, l) /\ mb.entry = 0 /\ tm # "NO"
  /\ k' = Block(k, RecvList, t, Flag, tm) /\ Goto(t, "receiving")
  /\ time' = [time EXCEPT ![t] = tm] /\ UNCHANGED <<mb, mail, got, obj>>

RecvCall(t) ==
  /\ Enter(t, Receivers)
  /\ RecvGet(t, "run") \/ \E tm \in Times : RecvWait(t, "run", tm)

RecvTry(t) == Enter(t, Receivers) /\ mb.entry = 0 /\ "NO" \in Times /\ UNCHANGED vars

RecvWoken(t) ==
  /\ At(t, "received")
  /\ \/ k.err[t] # RT_EOK /\ Fail(t, k.err[t])
     \/ k.err[t] = RT_EOK /\ RecvGet(t, "received")
     \/ k.err[t] = RT_EOK /\ RecvWait(t, "received", time[t])
     \/ /\ k.err[t] = RT_EOK /\ mb.entry = 0 /\ time[t] = "TICKS"
        /\ Fail(t, RT_ETIMEOUT)

-----------------------------------------------------------------------------
Waiting == IF k.wait[RecvList] # <<>> THEN RecvList ELSE SendList

\* rt_mb_control(RT_IPC_CMD_RESET), in one section
ResetCall(t) ==
  /\ Enter(t, ResetBy) /\ Goto(t, "reset") /\ UNCHANGED <<k, mb, locals, obj>>

ResetThread(t) ==
  /\ At(t, "reset") /\ k.wait[Waiting] # <<>>
  /\ k' = rt_ipc_list_resume_error(k, Waiting) /\ UNCHANGED <<pc, mb, locals, obj>>

ResetEnd(t) ==
  /\ At(t, "reset") /\ k.wait[Waiting] = <<>>
  /\ mb' = [FreshBox EXCEPT !.pool = mb.pool]
  /\ Goto(t, "sched") /\ UNCHANGED <<k, locals, obj>>

\* rt_mb_detach, rt_mb_delete: the receivers ("closing"), then, without looking
\* at them again, the senders ("ending")
DeleteCall(t) ==
  /\ Enter(t, DeleteBy) /\ life' = "closing" /\ Goto(t, "closing")
  /\ asleep' = Nodes(k.wait[RecvList]) \cup Nodes(k.wait[SendList])
  /\ UNCHANGED <<k, mb, locals>>

DeleteReceivers(t) ==
  /\ At(t, "closing")
  /\ Goto(t, IF k.wait[RecvList] # <<>> THEN "closing_do" ELSE "ending")
  /\ UNCHANGED <<k, mb, locals, obj>>

\* mutant: the senders are not resumed
DeleteSenders_none(t) ==
  /\ At(t, "ending") /\ Goto(t, "run") /\ life' = "gone"
  /\ UNCHANGED <<k, mb, locals, asleep>>

DeleteSenders(t) ==
  /\ At(t, "ending")
  /\ IF k.wait[SendList] # <<>>
     THEN Goto(t, "ending_do") /\ UNCHANGED life
     ELSE Goto(t, "run") /\ life' = "gone"
  /\ UNCHANGED <<k, mb, locals, asleep>>

DeleteTurn(t) ==
  /\ \/ ResumeAllTurn(t, RecvList, "closing_do", "closing")
     \/ ResumeAllTurn(t, SendList, "ending_do", "ending")
  /\ UNCHANGED <<mb, locals, obj>>

InCall(t) ==
  \/ SendWoken(t) \/ RecvWoken(t)
  \/ (\/ Schedule(t, "receiving", "received")
      \/ Schedule(t, "sending", "sent")
      \/ Schedule(t, "sched", "run")) /\ UNCHANGED <<mb, locals, obj>>
  \/ ResetThread(t) \/ ResetEnd(t)
  \/ DeleteReceivers(t) \/ DeleteSenders(t) \/ DeleteTurn(t)

Step(t) ==
  \/ \E m \in Msg : SendCall(t, m) \/ rt_mb_urgent(t, m)
  \/ SendFull(t) \/ RecvTry(t) \/ RecvCall(t)
  \/ ResetCall(t) \/ DeleteCall(t)
  \/ InCall(t)

Next ==
  \/ \E t \in Thread : Step(t)
  \/ \E m \in IsrMsg : IsrSend(m)
  \/ TickSlice /\ UNCHANGED <<mb, locals, obj>>
  \/ \E t \in Thread : TickTimeout(t) /\ UNCHANGED <<mb, locals, obj>>

Spec == Init /\ [][Next]_vars

-----------------------------------------------------------------------------
TypeOK ==
  /\ k \in KernelState /\ pc \in [Thread -> PC] /\ life \in {"live", "closing", "gone"}
  /\ mb \in [pool : [Slot -> Msg \cup {NoMsg}], in : Slot, out : Slot, entry : 0 .. Size]
  /\ mail \in [Thread -> Msg \cup {NoMsg}] /\ time \in [Thread -> Time]
  /\ got \in [Thread -> Msg \cup {NoMsg}] /\ asleep \subseteq Thread

\* Nobody sleeps on while there is something to do: a receiver only if every mail
\* has a receiver that was woken for it, a sender only if every free slot has a
\* sender that was woken for it.
NoLostWakeup ==
  TypeOK /\ (life = "live" =>
    /\ k.wait[RecvList] # <<>> =>
         mb.entry <= Cardinality(Woken({"receiving", "received"}))
    /\ k.wait[SendList] # <<>> =>
         Size - mb.entry <= Cardinality(Woken({"sending", "sent"})))

\* Whoever waited when rt_mb_delete or rt_mb_detach was called, for mail or for
\* room, is awake when it is done, unless a mail or room came in between: a thread
\* woken by that and not by the delete looks again and may go back to wait.
DeleteWakesAll ==
  life = "gone" => asleep \cap (Nodes(k.wait[RecvList]) \cup Nodes(k.wait[SendList])) = {}

C == INSTANCE Channel WITH
       Client <- Thread, Capacity <- Size, hand <- got,
       queue <- [i \in 1 .. mb.entry |-> mb.pool[(mb.out + i - 1) % Size]]

\* The ring with its offsets is a bounded queue: no mail is lost, repeated,
\* reordered or overwritten, however sends, urgent sends and receives interleave.
IsChannel == C!Spec
=============================================================================
