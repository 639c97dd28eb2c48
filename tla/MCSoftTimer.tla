---------------------------- MODULE MCSoftTimer -----------------------------
(***************************************************************************)
(* Instances of SoftTimer: the timer thread between a more and a less      *)
(* urgent thread.                                                          *)
(***************************************************************************)
EXTENDS SoftTimer

CONSTANTS hi, lo, x, y

MCInitPrio == [t \in Thread |-> CASE t = Idle -> 7 [] t = hi -> 1
                                  [] t = TimerThread -> 3 [] OTHER -> 5]
MCInitReady == [p \in Prio |-> CASE p = 1 /\ hi \in Thread -> <<hi>> [] p = 3 -> <<TimerThread>>
                                 [] p = 5 -> <<lo>> [] p = 7 -> <<Idle>> [] OTHER -> <<>>]
UsesBoth == {<<lo, x>>, <<lo, y>>}
UsesX == {<<lo, x>>}
XCallsY == {<<x, y>>}
XCallsX == {<<x, x>>}

\* The instances are among those the theorems are about.
ASSUME TimersUsed == TimersApart /\ TimerOutranks /\ TicksFit
=============================================================================
