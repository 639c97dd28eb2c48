------------------------------ MODULE Channel -------------------------------
(***************************************************************************)
(* What a mailbox or a message queue promises its users: a bounded queue   *)
(* that a sender appends to, or puts an urgent message in front of, and    *)
(* that a receiver takes the first message from.  hand[t] is the message t *)
(* received last.                                                          *)
(***************************************************************************)
EXTENDS Naturals, Sequences

CONSTANTS Client, Msg, NoMsg, Capacity

VARIABLES queue, hand
vars == <<queue, hand>>

Init == queue = <<>> /\ hand = [t \in Client |-> NoMsg]

Push(m) ==
  Len(queue) < Capacity /\ queue' = Append(queue, m) /\ UNCHANGED hand

PushFront(m) ==
  Len(queue) < Capacity /\ queue' = <<m>> \o queue /\ UNCHANGED hand

Pop(t) ==
  /\ queue # <<>> /\ queue' = Tail(queue)
  /\ hand' = [hand EXCEPT ![t] = Head(queue)]

Clear == queue' = <<>> /\ UNCHANGED hand

Next ==
  \/ \E m \in Msg : Push(m) \/ PushFront(m)
  \/ \E t \in Client : Pop(t)
  \/ Clear

Spec == Init /\ [][Next]_vars
=============================================================================
