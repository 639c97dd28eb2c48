----------------------------- MODULE MCMemPool ------------------------------
(***************************************************************************)
(* Instances of MemPool: two blocks, an urgent thread, two threads of one  *)
(* middle priority and the idle thread.                                    *)
(***************************************************************************)
EXTENDS MemPool

CONSTANTS a, b, c, b1, b2

MCBlocks == <<b1, b2>>
MCInitPrio == [t \in Thread |-> CASE t = Idle -> 7 [] t = a -> 2 [] OTHER -> 5]
MCInitReady ==
  [p \in Prio |-> CASE p = 2 -> <<a>> [] p = 5 -> <<b, c>> [] p = 7 -> <<Idle>>
                    [] OTHER -> <<>>]
=============================================================================
