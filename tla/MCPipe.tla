------------------------------- MODULE MCPipe -------------------------------
(***************************************************************************)
(* Instances of Pipe: a reader and a writer of the same priority, which    *)
(* the tick interleaves at every step.                                     *)
(***************************************************************************)
EXTENDS Pipe

CONSTANTS r, w

MCInitPrio == [t \in Thread |-> IF t = Idle THEN 7 ELSE 5]
MCInitReady ==
  [p \in Prio |-> CASE p = 5 -> <<r, w>> [] p = 7 -> <<Idle>> [] OTHER -> <<>>]
=============================================================================
