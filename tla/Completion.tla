----------------------------- MODULE Completion -----------------------------
(***************************************************************************)
(* Completions (completion.c).  A completion is named by the list its      *)
(* waiting thread is linked into; done is its flag, a counter that sticks  *)
(* at UINT_MAX.                                                            *)
(***************************************************************************)
EXTENDS Ipc

CONSTANTS Completions,   \* completion->suspended_list of each
          UINT_MAX

ASSUME CompletionAssumption ==
  Completions \subseteq WaitList \ {Defunct} /\ UINT_MAX \in Nat \ {0, 1}

VARIABLE done

Counted(n)  == IF n # UINT_MAX THEN n + 1 ELSE n
Consumed(n) == IF n # UINT_MAX THEN n - 1 ELSE n

\* at l, going on at m.  The list is emptied, whoever is linked into it.
rt_completion_init(t, c, l, m) ==
  /\ At(t, l) /\ Goto(t, m)
  /\ done' = [done EXCEPT ![c] = 0] /\ k' = [k EXCEPT !.wait[c] = <<>>]

\* rt_completion_wait at l, with a time other than "NO": on to m, or to s to wait
CompletionWait(t, c, time, l, s, m) ==
  /\ At(t, l)
  /\ IF done[c] > 0
     THEN done' = [done EXCEPT ![c] = Consumed(@)] /\ UNCHANGED k /\ Goto(t, m)
     ELSE k' = Block(k, c, t, "FIFO", time) /\ UNCHANGED done /\ Goto(t, s)

\* back from rt_schedule(): the flag is consumed, if set, even after a time-out
CompletionWoken(t, c, l, m) ==
  /\ At(t, l) /\ Goto(t, m) /\ UNCHANGED k
  /\ done' = IF done[c] > 0 THEN [done EXCEPT ![c] = Consumed(@)] ELSE done

\* mutant: only a waiting thread is told
DoneFlag_waited(c) ==
  IF k.wait[c] # <<>> THEN [done EXCEPT ![c] = Counted(@)] ELSE done

\* rt_completion_done: the flag, and the thread resumed
DoneFlag(c) == [done EXCEPT ![c] = Counted(@)]
DoneKernel(ks, c) == IF ks.wait[c] # <<>> THEN rt_ipc_list_resume(ks, c) ELSE ks
=============================================================================
