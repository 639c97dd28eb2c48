------------------------------- MODULE MCSem --------------------------------
(***************************************************************************)
(* Instances of Sem: one urgent thread, two of the same middle priority    *)
(* and the idle thread.                                                    *)
(***************************************************************************)
EXTENDS Sem

CONSTANTS a, b, c

MCInitPrio == [t \in Thread |-> CASE t = Idle -> 7 [] t = a -> 2 [] OTHER -> 5]
MCInitReady ==
  [p \in Prio |-> CASE p = 2 -> <<a>> [] p = 5 -> <<b, c>> [] p = 7 -> <<Idle>>
                    [] OTHER -> <<>>]
=============================================================================
