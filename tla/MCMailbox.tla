----------------------------- MODULE MCMailbox ------------------------------
(***************************************************************************)
(* Instances of Mailbox: three threads of the same priority, which the     *)
(* tick interleaves in any way, over the idle thread.                      *)
(***************************************************************************)
EXTENDS Mailbox

CONSTANTS a, b, c

MCInitPrio == [t \in Thread |-> IF t = Idle THEN 7 ELSE 5]
MCInitReady ==
  [p \in Prio |-> CASE p = 5 -> <<a, b, c>> [] p = 7 -> <<Idle>> [] OTHER -> <<>>]
=============================================================================
