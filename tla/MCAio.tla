-------------------------------- MODULE MCAio -------------------------------
(***************************************************************************)
(* Instances of Aio: two clients of one priority, below the worker, which  *)
(* the tick interleaves at every step.                                     *)
(***************************************************************************)
EXTENDS Aio

CONSTANTS w, c, d

MCInitPrio == [t \in Thread |-> CASE t = Idle -> 7 [] t = w -> 4 [] OTHER -> 5]
MCInitReady ==
  [p \in Prio |-> CASE p = 4 -> <<w>> [] p = 5 -> <<c, d>> [] p = 7 -> <<Idle>>
                    [] OTHER -> <<>>]

\* The instance is among those the theorems are about.
ASSUME ClientsUsed == Outranks
=============================================================================
