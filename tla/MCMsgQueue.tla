----------------------------- MODULE MCMsgQueue -----------------------------
(***************************************************************************)
(* Instances of MsgQueue: an urgent receiver over two threads of the same  *)
(* priority that the tick interleaves.                                     *)
(***************************************************************************)
EXTENDS MsgQueue

CONSTANTS a, b, c

MCInitPrio == [t \in Thread |-> CASE t = Idle -> 7 [] t = a -> 2 [] OTHER -> 5]
MCInitReady ==
  [p \in Prio |-> CASE p = 2 -> <<a>> [] p = 5 -> <<b, c>> [] p = 7 -> <<Idle>>
                    [] OTHER -> <<>>]
=============================================================================
