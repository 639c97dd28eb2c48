----------------------------- MODULE MCThreads ------------------------------
(***************************************************************************)
(* Instances of Threads: a main thread, a sleeper main controls, a static  *)
(* thread with and one without cleanup that exit, a dynamic one that is    *)
(* deleted, on both sides of a bitmap word.                                *)
(***************************************************************************)
EXTENDS Threads

CONSTANTS a, b, c, d

MCInitPrio == [t \in Thread |-> CASE t = Idle -> 15
                                  [] t = Main -> 8
                                  [] t = a    -> 7
                                  [] t = b    -> 8
                                  [] OTHER    -> 6]
MCParent == [t \in Thread |-> Main]
MCControl == {<<Main, a>>, <<a, a>>}
MCNewPrio == {9}
=============================================================================
