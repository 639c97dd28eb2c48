------------------------------ MODULE MsgQueue ------------------------------
(***************************************************************************)
(* A message queue (rt_mq_send and the rest): messages are nodes of a pool *)
(* on one of two linked lists, the queue from head to tail and the free    *)
(* list.  A sender takes a node off the free list in one section, fills it *)
(* with interrupts enabled and links it in a second section; a receiver    *)
(* unlinks, copies and frees in the same way.                              *)
(*                                                                         *)
(* mq holds msg_queue_head, _tail, _free, the nodes' next and contents and *)
(* entry.  node, msg and time are the locals of a call, got the receiver's *)
(* buffer; asleep is a history variable, the threads that waited when the  *)
(* queue was deleted and that no message has woken since.                  *)
(***************************************************************************)
EXTENDS Ipc, FiniteSets

CONSTANTS RecvList, SendList,  \* parent.suspend_thread, suspend_sender_thread
          Flag,                \* RT_IPC_FLAG_FIFO or RT_IPC_FLAG_PRIO
          MaxMsgs,             \* mq->max_msgs
          Msg, NoMsg,          \* message contents; what a fresh node holds
          Senders, Receivers,  \* threads that send and that receive
          IsrMsg,              \* messages an interrupt handler sends
          Times,               \* the waiting times in use
          ResetBy, DeleteBy,   \* threads that reset and that delete the queue
          Created              \* made by rt_mq_create, not by rt_mq_init

ASSUME MsgQueueAssumption ==
  /\ {RecvList, SendList} \subseteq WaitList \ {Defunct} /\ RecvList # SendList
  /\ Flag \in {"FIFO", "PRIO"} /\ MaxMsgs \in Nat
  /\ NoMsg \notin Msg /\ IsrMsg \subseteq Msg
  /\ Senders \subseteq Thread \ {Idle} /\ Receivers \subseteq Thread \ {Idle}
  /\ Times \subseteq Time /\ ResetBy \subseteq Thread /\ DeleteBy \subseteq Thread
  /\ Created \in BOOLEAN

VARIABLES mq, node, msg, time, got, life, asleep
locals == <<node, msg, time, got>>
obj == <<life, asleep>>
vars == <<k, pc, mq, locals, obj>>

NULL == 0
Node == 1 .. MaxMsgs

PC == {"run", "fill_tail", "fill_head", "link_tail", "link_head", "sched",
       "waiting", "woken", "copy", "free", "reset", "closing", "closing_do", "crashed"}

\* rt_mq_init, rt_mq_create: every node is pushed on the free list
FreshQueue ==
  [head |-> NULL, tail |-> NULL, free |-> MaxMsgs, entry |-> 0,
   next |-> [n \in Node |-> n - 1], data |-> [n \in Node |-> NoMsg]]

Init ==
  /\ IpcInit /\ mq = FreshQueue /\ life = "live" /\ asleep = {}
  /\ node = [t \in Thread |-> NULL] /\ msg = [t \in Thread |-> NoMsg]
  /\ time = [t \in Thread |-> "NO"] /\ got = [t \in Thread |-> NoMsg]

Enter(t, T) == At(t, "run") /\ t \in T /\ life = "live"

-----------------------------------------------------------------------------
(* The lists, and the list operations, each a piece of a call. *)

\* s is the list of nodes that starts at n
IsChain(n, s) ==
  IF s = <<>> THEN n = NULL
  ELSE /\ s[1] = n /\ mq.next[s[Len(s)]] = NULL
       /\ \A i \in 1 .. (Len(s) - 1) : mq.next[s[i]] = s[i + 1]

Chains == UNION {[1 .. j -> Node] : j \in 0 .. MaxMsgs}
Queued == CHOOSE s \in Chains : IsChain(mq.head, s)

Alloc(q) == [q EXCEPT !.free = q.next[q.free]]

FillTail(q, n, m) == [q EXCEPT !.next = [@ EXCEPT ![n] = NULL],
                               !.data = [@ EXCEPT ![n] = m]]

\* mutant: an urgent message is not copied into its node
FillHead_stale(q, n, m) == q

FillHead(q, n, m) == [q EXCEPT !.data = [@ EXCEPT ![n] = m]]

LinkTail(q, n) ==
  [q EXCEPT !.next  = IF q.tail # NULL THEN [@ EXCEPT ![q.tail] = n] ELSE @,
            !.tail  = n,
            !.head  = IF @ = NULL THEN n ELSE @,
            !.entry = @ + 1]

LinkHead(q, n) ==
  [q EXCEPT !.next  = [@ EXCEPT ![n] = q.head],
            !.head  = n,
            !.tail  = IF @ = NULL THEN n ELSE @,
            !.entry = @ + 1]

\* mutant: the tail goes on pointing to the last message
PopHead_tail(q) ==
  [q EXCEPT !.head  = q.next[q.head],
            !.entry = @ - 1]

PopHead(q) ==
  [q EXCEPT !.head  = q.next[q.head],
            !.tail  = IF @ = q.head THEN NULL ELSE @,
            !.entry = @ - 1]

Release(q, n) == [q EXCEPT !.next = [@ EXCEPT ![n] = q.free], !.free = n]

\* mutant: only the first message of an empty queue wakes
Wake_first(q) ==
  IF k.wait[q] = <<>> \/ mq.entry > 0 THEN k ELSE rt_ipc_list_resume(k, q)

\* a linked message wakes the first receiver
Wake(q) == IF k.wait[q] = <<>> THEN k ELSE rt_ipc_list_resume(k, q)
AfterWake(q) == IF k.wait[q] = <<>> THEN "run" ELSE "sched"

\* history: a message has woken the first thread of list q
Served(q) == asleep' = IF k.wait[q] = <<>> THEN asleep ELSE asleep \ {Head(k.wait[q])}

-----------------------------------------------------------------------------
\* rt_mq_send and rt_mq_urgent (at: "tail" or "head")
SendFull(t) == Enter(t, Senders) /\ mq.free = NULL /\ UNCHANGED vars

SendAlloc(t, m, at) ==
  /\ Enter(t, Senders) /\ mq.free # NULL
  /\ mq' = Alloc(mq)
  /\ node' = [node EXCEPT ![t] = mq.free] /\ msg' = [msg EXCEPT ![t] = m]
  /\ Goto(t, IF at = "tail" THEN "fill_tail" ELSE "fill_head")
  /\ UNCHANGED <<k, time, got, obj>>

SendFill(t) ==
  /\ \/ /\ At(t, "fill_tail") /\ Goto(t, "link_tail")
        /\ mq' = FillTail(mq, node[t], msg[t])
     \/ /\ At(t, "fill_head") /\ Goto(t, "link_head")
        /\ mq' = FillHead(mq, node[t], msg[t])
  /\ UNCHANGED <<k, locals, obj>>

SendLink(t) ==
  /\ \/ At(t, "link_tail") /\ mq' = LinkTail(mq, node[t])
     \/ At(t, "link_head") /\ mq' = LinkHead(mq, node[t])
  /\ k' = Wake(RecvList) /\ Goto(t, AfterWake(RecvList))
  /\ node' = [node EXCEPT ![t] = NULL] /\ msg' = [msg EXCEPT ![t] = NoMsg]
  /\ Served(RecvList) /\ UNCHANGED <<time, got, life>>

\* an interrupt handler sends: the whole call runs before any thread does
IsrSend(m) ==
  /\ IrqOn /\ life = "live" /\ mq.free # NULL
  /\ mq' = LinkTail(FillTail(Alloc(mq), mq.free, m), mq.free)
  /\ k' = IF k.wait[RecvList] = <<>> THEN k ELSE rt_schedule(Wake(RecvList))
  /\ UNCHANGED <<pc, locals, obj>>

\* rt_mq_recv: unlink the first message
RecvTake(t, l) ==
  /\ At(t, l) /\ mq.entry > 0
  /\ node' = [node EXCEPT ![t] = mq.head] /\ mq' = PopHead(mq)
  /\ time' = [time EXCEPT ![t] = "NO"]
  /\ Goto(t, "copy") /\ UNCHANGED <<k, msg, got, obj>>

RecvTry(t) ==
  Enter(t, Receivers) /\ mq.entry = 0 /\ "NO" \in Times /\ UNCHANGED vars

RecvWait(t, l, tm) ==
  /\ At(t, l) /\ mq.entry = 0 /\ tm # "NO"
  /\ k' = Block(k, RecvList, t, Flag, tm) /\ Goto(t, "waiting")
  /\ time' = [time EXCEPT ![t] = tm]
  /\ UNCHANGED <<mq, node, msg, got, obj>>

RecvCall(t) ==
  /\ Enter(t, Receivers)
  /\ RecvTake(t, "run") \/ \E tm \in Times : RecvWait(t, "run", tm)

RecvFail(t, e) ==
  /\ k' = SetErr(k, t, e) /\ Goto(t, "run") /\ time' = [time EXCEPT ![t] = "NO"]
  /\ UNCHANGED <<mq, node, msg, got, obj>>

\* back from rt_schedule(): an error, a message, or another turn of the loop
\* with what is left of a limited wait, which may be nothing
RecvWoken(t) ==
  /\ At(t, "woken")
  /\ \/ k.err[t] # RT_EOK /\ RecvFail(t, k.err[t])
     \/ k.err[t] = RT_EOK /\ RecvTake(t, "woken")
     \/ k.err[t] = RT_EOK /\ RecvWait(t, "woken", time[t])
     \/ /\ k.err[t] = RT_EOK /\ mq.entry = 0 /\ time[t] = "TICKS"
        /\ RecvFail(t, RT_ETIMEOUT)

RecvCopy(t) ==
  /\ At(t, "copy") /\ Goto(t, "free")
  /\ got' = [got EXCEPT ![t] = mq.data[node[t]]]
  /\ UNCHANGED <<k, mq, node, msg, time, obj>>

RecvFree(t) ==
  /\ At(t, "free") /\ mq' = Release(mq, node[t])
  /\ node' = [node EXCEPT ![t] = NULL]
  /\ k' = Wake(SendList) /\ Goto(t, AfterWake(SendList))
  /\ UNCHANGED <<msg, time, got, obj>>

-----------------------------------------------------------------------------
\* rt_mq_control(RT_IPC_CMD_RESET), in one section: every waiting thread is
\* resumed with an error, every queued message goes to the free list
ResetCall(t) ==
  /\ Enter(t, ResetBy) /\ Goto(t, "reset") /\ UNCHANGED <<k, mq, locals, obj>>

ResetThread(t) ==
  LET q == IF k.wait[RecvList] # <<>> THEN RecvList ELSE SendList IN
  /\ At(t, "reset") /\ k.wait[q] # <<>>
  /\ k' = rt_ipc_list_resume_error(k, q) /\ UNCHANGED <<pc, mq, locals, obj>>

\* the messages s of queue q one after the other pushed on the free list
Emptied(q, s) ==
  [head  |-> NULL, entry |-> 0, data |-> q.data,
   tail  |-> IF q.tail \in Nodes(s) THEN NULL ELSE q.tail,
   free  |-> IF s = <<>> THEN q.free ELSE s[Len(s)],
   next  |-> [n \in Node |->
               IF n \in Nodes(s)
               THEN LET i == CHOOSE j \in 1 .. Len(s) : s[j] = n
                    IN  IF i = 1 THEN q.free ELSE s[i - 1]
               ELSE q.next[n]]]

ResetEnd(t) ==
  /\ At(t, "reset") /\ k.wait[RecvList] = <<>> /\ k.wait[SendList] = <<>>
  /\ mq' = Emptied(mq, Queued) /\ Goto(t, "sched") /\ UNCHANGED <<k, locals, obj>>

\* rt_mq_delete resumes receivers and senders, rt_mq_detach only senders;
\* no sender ever waits, since rt_mq_send returns -RT_EFULL
Resumed == IF Created THEN RecvList ELSE SendList

DeleteCall(t) ==
  /\ Enter(t, DeleteBy) /\ life' = "closing" /\ Goto(t, "closing")
  /\ asleep' = Nodes(k.wait[RecvList]) /\ UNCHANGED <<k, mq, locals>>

\* mutant: the loop ends after a thread of the queue was resumed
DeleteTurn_once(t) ==
  /\ At(t, "closing_do") /\ k.wait[Resumed] # <<>>
  /\ k' = rt_ipc_list_resume_error(k, Resumed) /\ Goto(t, "run")
  /\ life' = "gone" /\ UNCHANGED <<mq, locals, asleep>>

DeleteCheck(t) ==
  /\ At(t, "closing")
  /\ IF k.wait[Resumed] # <<>>
     THEN Goto(t, "closing_do") /\ UNCHANGED life
     ELSE Goto(t, "run") /\ life' = "gone"
  /\ UNCHANGED <<k, mq, locals, asleep>>

DeleteTurn(t) ==
  ResumeAllTurn(t, Resumed, "closing_do", "closing") /\ UNCHANGED <<mq, locals, obj>>

InCall(t) ==
  \/ SendFill(t) \/ SendLink(t)
  \/ RecvWoken(t) \/ RecvCopy(t) \/ RecvFree(t)
  \/ (Schedule(t, "waiting", "woken") \/ Schedule(t, "sched", "run"))
     /\ UNCHANGED <<mq, locals, obj>>
  \/ ResetThread(t) \/ ResetEnd(t)
  \/ DeleteCheck(t) \/ DeleteTurn(t)

Step(t) ==
  \/ SendFull(t) \/ \E m \in Msg, at \in {"tail", "head"} : SendAlloc(t, m, at)
  \/ RecvTry(t) \/ RecvCall(t)
  \/ ResetCall(t) \/ DeleteCall(t)
  \/ InCall(t)

Next ==
  \/ \E t \in Thread : Step(t)
  \/ \E m \in IsrMsg : IsrSend(m)
  \/ TickSlice /\ UNCHANGED <<mq, locals, obj>>
  \/ \E t \in Thread : TickTimeout(t) /\ UNCHANGED <<mq, locals, obj>>

Spec == Init /\ [][Next]_vars

-----------------------------------------------------------------------------
Private == {node[t] : t \in Thread} \ {NULL}

TypeOK ==
  /\ k \in KernelState /\ pc \in [Thread -> PC] /\ life \in {"live", "closing", "gone"}
  /\ mq \in [head : Node \cup {NULL}, tail : Node \cup {NULL}, free : Node \cup {NULL},
             entry : 0 .. MaxMsgs, next : [Node -> Node \cup {NULL}],
             data : [Node -> Msg \cup {NoMsg}]]
  /\ node \in [Thread -> Node \cup {NULL}] /\ time \in [Thread -> Time]
  /\ msg \in [Thread -> Msg \cup {NoMsg}] /\ got \in [Thread -> Msg \cup {NoMsg}]
  /\ asleep \subseteq Thread

\* No message node is lost or shared, however the two sections of senders and
\* receivers interleave: each is on the queue, on the free list or in the hands of
\* one thread, and tail and entry describe the queue.
NodesKept ==
  TypeOK /\ \E q, f \in Chains :
    /\ IsChain(mq.head, q) /\ IsChain(mq.free, f)
    /\ mq.entry = Len(q) /\ mq.tail = IF q = <<>> THEN NULL ELSE q[Len(q)]
    /\ Nodes(q) \cap Nodes(f) = {} /\ (Nodes(q) \cup Nodes(f)) \cap Private = {}
    /\ Nodes(q) \cup Nodes(f) \cup Private = Node
    /\ \A t, u \in Thread : t # u /\ node[t] # NULL => node[t] # node[u]

\* A receiver sleeps on only if every queued message already has a receiver that
\* was woken for it.
NoLostWakeup ==
  life = "live" /\ k.wait[RecvList] # <<>> =>
    mq.entry <= Cardinality(Woken({"waiting", "woken"}))

\* Whoever waited when rt_mq_delete was called is awake when it is done ("resume all
\* suspended thread"), unless a message came in between: a thread woken by that and
\* not by the delete looks again and may go back to wait.
DeleteWakesAll == life = "gone" => asleep \cap Nodes(k.wait[RecvList]) = {}

\* The messages in the hands of receivers that have not copied them yet are as
\* good as received.
C == INSTANCE Channel WITH
       Client <- Thread, Capacity <- MaxMsgs,
       queue <- [i \in 1 .. Len(Queued) |-> mq.data[Queued[i]]],
       hand  <- [t \in Thread |-> IF pc[t] = "copy" THEN mq.data[node[t]] ELSE got[t]]

\* Pointers, copying outside the sections and interrupts included, the message
\* queue is a bounded queue: nothing is lost, repeated, reordered or overwritten.
IsChannel == C!Spec
=============================================================================
