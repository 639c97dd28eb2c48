------------------------------ MODULE MCSerial ------------------------------
(***************************************************************************)
(* Instances of Serial: the client and a user of the file system lock at   *)
(* the same priority, which the tick interleaves at every step.            *)
(***************************************************************************)
EXTENDS Serial

CONSTANTS a, b

MCInitPrio == [t \in Thread |-> IF t = Idle THEN 7 ELSE 5]
MCInitReady ==
  [p \in Prio |-> CASE p = 5 -> <<a, b>> [] p = 7 -> <<Idle>> [] OTHER -> <<>>]
=============================================================================
