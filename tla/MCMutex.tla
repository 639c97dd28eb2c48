------------------------------ MODULE MCMutex -------------------------------
(***************************************************************************)
(* Instances of Mutex: an urgent, a middle and a low thread over the idle  *)
(* thread, with one mutex and with two.                                    *)
(***************************************************************************)
EXTENDS Mutex

CONSTANTS hi, mid, lo

MCInitPrio == [t \in Thread |-> CASE t = hi -> 1 [] t = mid -> 3 [] t = lo -> 5 [] OTHER -> 7]
MCInitReady ==
  [p \in Prio |-> CASE p = 1 -> <<hi>> [] p = 3 -> <<mid>> [] p = 5 -> <<lo>>
                    [] p = 7 -> <<Idle>> [] OTHER -> <<>>]
=============================================================================
