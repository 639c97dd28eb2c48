------------------------------ MODULE MCEvent -------------------------------
(***************************************************************************)
(* Instances of Event: two flags, three threads of the same priority,      *)
(* which the tick interleaves in any way.                                  *)
(***************************************************************************)
EXTENDS Event

CONSTANTS a, b, c, f, g

MCInitPrio == [t \in Thread |-> IF t = Idle THEN 7 ELSE 5]
MCInitReady ==
  [p \in Prio |-> CASE p = 5 -> <<a, b, c>> [] p = 7 -> <<Idle>> [] OTHER -> <<>>]
=============================================================================
