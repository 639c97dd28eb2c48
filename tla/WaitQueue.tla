----------------------------- MODULE WaitQueue ------------------------------
(***************************************************************************)
(* Wait queues (rt_wqueue_t) as operators on a record: flag is             *)
(* RT_WQ_FLAG_WAKEUP, nodes the linked nodes.  A node belongs to a thread; *)
(* poll nodes ask for some events, the node rt_wqueue_wait keeps on its    *)
(* stack accepts every wake-up.                                            *)
(***************************************************************************)
EXTENDS Kernel

EmptyQueue == [flag |-> FALSE, nodes |-> <<>>]

WaitNode(t) == [thread |-> t, poll |-> FALSE, key |-> {}]
PollNode(t, events) == [thread |-> t, poll |-> TRUE, key |-> events]

\* entry->wakeup(entry, key) == 0: __wqueue_default_wake, __wqueue_pollwake
Accepts(node, key) == node.poll => node.key \cap key # {}

rt_wqueue_add(q, node) == [q EXCEPT !.nodes = Append(@, node)]
rt_wqueue_remove(q, node) == [q EXCEPT !.nodes = Unlink(@, node)]

\* the node that rt_wqueue_wakeup(q, key) picks
Accepting(q, key) == {i \in 1 .. Len(q.nodes) : Accepts(q.nodes[i], key)}
Picked(q, key) == q.nodes[CHOOSE i \in Accepting(q, key) :
                            \A j \in Accepting(q, key) : i <= j]

\* mutant: nobody is waiting, so nothing is noted
WokenQueue_unnoted(q, key) ==
  IF Accepting(q, key) = {} THEN q
  ELSE rt_wqueue_remove([q EXCEPT !.flag = TRUE], Picked(q, key))

\* the section of rt_wqueue_wakeup: the queue and the kernel after it
WokenQueue(q, key) ==
  IF Accepting(q, key) = {} THEN [q EXCEPT !.flag = TRUE]
  ELSE rt_wqueue_remove([q EXCEPT !.flag = TRUE], Picked(q, key))

WokenKernel(ks, q, key) ==
  IF Accepting(q, key) = {} THEN ks ELSE rt_thread_resume(ks, Picked(q, key).thread)
=============================================================================
