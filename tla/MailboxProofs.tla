--------------------------- MODULE MailboxProofs ----------------------------
(***************************************************************************)
(* The mailbox, for every size, list flag and number of threads: no wake-up*)
(* is lost, a delete wakes everybody, and the ring is a bounded queue.     *)
(*                                                                         *)
(* The count of wake-ups needs both lists to hold suspended threads inside *)
(* a call, without an error number (Lists).  That a delete wakes everybody *)
(* needs that nobody it has woken waits again (Closing): such a thread has *)
(* an error number, and once the mailbox is closing no call begins.  The   *)
(* ring is a queue because in_offset is where out_offset and entry say     *)
(* (Ring), which the code keeps only by moving the three together.         *)
(*                                                                         *)
(* Behind the mailbox come the proofs about the pipe and its ring buffer.  *)
(***************************************************************************)
EXTENDS Mailbox, Pipe, IpcProofs, SequenceTheorems

RecvAt   == {"receiving", "received"}
SendAt   == {"sending", "sent"}
Suspends == RecvAt \cup SendAt
Leaving  == {"receiving", "sending"}
Deleter  == {"closing", "closing_do", "ending", "ending_do"}
Ending   == {"ending", "ending_do"}
BoxList  == {RecvList, SendList}

Lists ==
  /\ IpcOK(PC, Suspends, Leaving)
  /\ Blocking(RecvList, RecvAt) /\ Blocking(SendList, SendAt)

\* An offset that has run past the end of msg_pool at most once.
Wrap(i) == IF i < Size THEN i ELSE i - Size

RingOK(b) ==
  /\ b \in [pool : [Slot -> Msg \cup {NoMsg}], in : Slot, out : Slot, entry : 0 .. Size]
  /\ b.in = Wrap(b.out + b.entry)

Ring == RingOK(mb)

Locals ==
  /\ mail \in [Thread -> Msg \cup {NoMsg}] /\ time \in [Thread -> Time]
  /\ got \in [Thread -> Msg \cup {NoMsg}]
  /\ life \in {"live", "closing", "gone"} /\ asleep \subseteq Thread
  /\ \A t \in Thread : pc[t] \in SendAt => mail[t] \in Msg
  /\ pc[Idle] \notin Suspends

Counts ==
  life = "live" =>
    /\ k.wait[RecvList] # <<>> => mb.entry <= Cardinality(Woken(RecvAt))
    /\ k.wait[SendList] # <<>> => Size - mb.entry <= Cardinality(Woken(SendAt))

Closing ==
  /\ \A t \in Thread : pc[t] \in Deleter => life # "live"
  /\ life # "live" => \A t \in asleep : t \notin Woken(Suspends)
  /\ (\E t \in Thread : pc[t] \in Ending) => \A t \in asleep : t \notin Nodes(k.wait[RecvList])
  /\ life = "gone" => \A t \in asleep : \A q \in BoxList : t \notin Nodes(k.wait[q])

Inv == Lists /\ Ring /\ Locals /\ Counts /\ Closing

-----------------------------------------------------------------------------
LEMMA BoxLists ==
  ASSUME Lists
  PROVE  /\ RecvList \in WaitList \ {Defunct} /\ SendList \in WaitList \ {Defunct}
         /\ RecvList \in WaitList /\ SendList \in WaitList /\ RecvList # SendList
         /\ IpcOK(PC, Suspends, Leaving) /\ Sound(k) /\ k \in KernelState
         /\ \A q \in BoxList : q \in WaitList /\ k.wait[q] \in Seq(Thread)
<1>1. Sound(k) /\ RecvList \in WaitList /\ SendList \in WaitList
  BY MailboxAssumption DEF Lists, IpcOK
<1> QED BY <1>1, MailboxAssumption DEF Lists, Sound, KernelInv, KernelState, BoxList

LEMMA WokenBoth ==
  /\ Woken(Suspends) = Woken(RecvAt) \cup Woken(SendAt)
  /\ Woken(Suspends)' = Woken(RecvAt)' \cup Woken(SendAt)'
  BY DEF Woken, Suspends

\* A step in which nobody joins a list and nobody is woken without an error.
Quiet ==
  /\ Lists'
  /\ \A q \in BoxList : \A u \in Nodes(k'.wait[q]) : u \in Nodes(k.wait[q])
  /\ \A q \in BoxList : k.wait[q] = <<>> => k'.wait[q] = <<>>
  /\ Woken(RecvAt)' = Woken(RecvAt) /\ Woken(SendAt)' = Woken(SendAt)

LEMMA CalmQuiet ==
  ASSUME Lists, IpcOK(PC, Suspends, Leaving)', NEW t \in Thread, Moves(PC, t), Calm(k', k),
         pc[t] \in RecvAt <=> pc'[t] \in RecvAt, pc[t] \in SendAt <=> pc'[t] \in SendAt
  PROVE  Quiet
<1>1. Blocking(RecvList, RecvAt)' /\ Blocking(SendList, SendAt)'
  BY CalmBlocking DEF Lists
<1>2. Woken(RecvAt)' = Woken(RecvAt) /\ Woken(SendAt)' = Woken(SendAt)
  BY CalmWoken
<1>3. k'.wait = k.wait
  BY DEF Calm
<1> QED BY <1>1, <1>2, <1>3 DEF Lists, Quiet

LEMMA FailedQuiet ==
  ASSUME Lists, IpcOK(PC, Suspends, Leaving)', NEW t \in Thread, Moves(PC, t),
         NEW u \in Thread, NEW e, Roused(k', k, u, e), k.stat[u] = "SUSPEND", e # RT_EOK,
         pc[t] \in RecvAt <=> pc'[t] \in RecvAt, pc[t] \in SendAt <=> pc'[t] \in SendAt
  PROVE  Quiet
<1>1. Blocking(RecvList, RecvAt)' /\ Blocking(SendList, SendAt)'
  BY BoxLists, RousedBlocking DEF Lists
<1>2. Woken(RecvAt)' = Woken(RecvAt) /\ Woken(SendAt)' = Woken(SendAt)
  BY BoxLists, RousedWoken
<1>3. ASSUME NEW q \in BoxList
      PROVE  /\ Nodes(k'.wait[q]) = Nodes(k.wait[q]) \ {u}
             /\ k.wait[q] = <<>> => k'.wait[q] = <<>>
  <2>1. q \in WaitList /\ Sound(k)
    BY BoxLists
  <2> QED BY <2>1, RousedLists
<1> QED BY <1>1, <1>2, <1>3 DEF Lists, Quiet

-----------------------------------------------------------------------------
(* The parts of the invariant, step by step. *)

\* Nobody who waited at the delete waits again or is woken without an error.
LEMMA ClosingKept ==
  ASSUME Closing, life' = life, asleep' \subseteq asleep,
         \A t \in Thread : pc'[t] \in Deleter => pc[t] \in Deleter,
         \A t \in Thread : pc'[t] \in Ending => pc[t] \in Ending,
         life # "live" => \A u \in asleep' :
            /\ u \in Woken(Suspends)' => u \in Woken(Suspends)
            /\ \A q \in BoxList : u \in Nodes(k'.wait[q]) => u \in Nodes(k.wait[q])
  PROVE  Closing'
<1>1. RecvList \in BoxList
  BY DEF BoxList
<1>2. \A t \in Thread : pc'[t] \in Deleter => life' # "live"
  BY DEF Closing
<1>3. life' # "live" => \A t \in asleep' : t \notin Woken(Suspends)'
  BY DEF Closing
<1>4. ASSUME NEW t \in Thread, pc'[t] \in Ending, NEW u \in asleep'
      PROVE  u \notin Nodes(k'.wait[RecvList])
  <2>1. pc[t] \in Ending /\ pc[t] \in Deleter
    BY <1>4 DEF Ending, Deleter
  <2> QED BY <1>1, <2>1 DEF Closing
<1>5. life' = "gone" => \A t \in asleep' : \A q \in BoxList : t \notin Nodes(k'.wait[q])
  BY DEF Closing
<1> QED BY <1>2, <1>3, <1>4, <1>5 DEF Closing, BoxList

LEMMA QuietInv ==
  ASSUME Inv, Quiet, UNCHANGED <<mb, locals, obj>>, NEW t \in Thread, Moves(PC, t),
         pc[t] \in SendAt <=> pc'[t] \in SendAt, pc[t] \in RecvAt <=> pc'[t] \in RecvAt,
         pc'[t] \in Deleter => pc[t] \in Deleter, pc'[t] \in Ending => pc[t] \in Ending
  PROVE  Inv'
<1>1. Ring' /\ Lists'
  BY DEF Inv, Ring, RingOK, Quiet
<1>2. Locals'
  <2>1. \A u \in Thread : pc'[u] \in SendAt => pc[u] \in SendAt
    BY DEF Moves
  <2>2. pc'[Idle] \notin Suspends
    BY KernelAssumption DEF Inv, Locals, Moves, Suspends
  <2> QED BY <2>1, <2>2 DEF Inv, Locals, locals, obj
<1>3. Counts'
  BY DEF Inv, Counts, Quiet, BoxList, obj
<1>4. Closing'
  <2>1. /\ \A u \in Thread : pc'[u] \in Deleter => pc[u] \in Deleter
        /\ \A u \in Thread : pc'[u] \in Ending => pc[u] \in Ending
    BY DEF Moves
  <2>2. Woken(Suspends)' = Woken(Suspends)
    BY WokenBoth DEF Quiet
  <2> QED BY <2>1, <2>2, ClosingKept DEF Inv, Quiet, obj
<1> QED BY <1>1, <1>2, <1>3, <1>4 DEF Inv

-----------------------------------------------------------------------------
(* A mail, or room for one, wakes the first thread of list q; the caller goes *)
(* on outside any wait.                                                       *)

LEMMA ServeStep ==
  ASSUME Lists, NEW t, NEW l, At(t, l), l \notin Leaving,
         NEW q \in BoxList, k' = Wake(q), Goto(t, AfterWake(q))
  PROVE  /\ IpcOK(PC, Suspends, Leaving)' /\ t \in Thread /\ Moves(PC, t) /\ pc[t] = l
         /\ pc'[t] \in {"run", "sched"} /\ k.stat[t] = "READY"
         /\ \/ k.wait[q] = <<>> /\ Calm(k', k)
            \/ /\ k.wait[q] # <<>> /\ Roused(k', k, Head(k.wait[q]), RT_EOK)
               /\ Head(k.wait[q]) \in Thread /\ k.stat[Head(k.wait[q])] = "SUSPEND"
               /\ Head(k.wait[q]) \in Nodes(k.wait[q])
<1>1. q \in WaitList \ {Defunct} /\ Sound(k) /\ IpcOK(PC, Suspends, Leaving)
  BY BoxLists DEF BoxList
<1>2. {"run", "sched"} \subseteq PC
  BY DEF PC
<1>3. t \in Thread /\ pc[t] = l /\ k.stat[t] = "READY"
  BY <1>1, RunnerReady
<1>4. CASE k.wait[q] = <<>>
  <2>1. k' = k /\ Goto(t, "run")
    BY <1>4 DEF Wake, AfterWake
  <2> QED BY <1>1, <1>2, <1>3, <1>4, <2>1, StillStep
<1>5. CASE k.wait[q] # <<>>
  <2> DEFINE u == Head(k.wait[q])
  <2>1. k' = rt_ipc_list_resume(k, q) /\ Goto(t, "sched")
    BY <1>5 DEF Wake, AfterWake
  <2>2. u \in Thread /\ k.stat[u] = "SUSPEND" /\ u \in Nodes(k.wait[q])
    BY <1>1, <1>5, HeadSuspended
  <2>3. k.err[u] = RT_EOK
    BY <2>2 DEF Lists, Blocking, BoxList
  <2>4. Sound(k') /\ k'.cur = k.cur /\ Roused(k', k, u, RT_EOK)
    BY <1>1, <1>5, <2>1, <2>3, ListResumeRouses
  <2> HIDE DEF u
  <2>5. IpcOK(PC, Suspends, Leaving)' /\ Moves(PC, t) /\ pc'[t] = "sched"
    BY <1>1, <1>2, <2>1, <2>2, <2>4, RouseStep
  <2> QED BY <1>3, <1>5, <2>2, <2>4, <2>5 DEF u
<1> QED BY <1>4, <1>5

\* What the step does to the threads woken at control points P.
LEMMA ServeWoken ==
  ASSUME Sound(k), NEW t \in Thread, Moves(PC, t), NEW u \in Thread, NEW P,
         Roused(k', k, u, RT_EOK), k.stat[u] = "SUSPEND", u # t, pc'[t] \notin P
  PROVE  /\ u \notin Woken(P)
         /\ pc[u] \in P => Woken(P)' = (Woken(P) \ {t}) \cup {u}
         /\ pc[u] \notin P => Woken(P)' = Woken(P) \ {t}
<1>1. k.stat \in [Thread -> Stat] /\ k.err \in [Thread -> ErrNo]
  BY CurThread DEF KernelState
<1>2. \A v \in Thread : /\ k'.stat[v] = IF v = u THEN "READY" ELSE k.stat[v]
                        /\ k'.err[v] = IF v = u THEN RT_EOK ELSE k.err[v]
  BY <1>1 DEF Roused
<1> QED BY <1>2 DEF Woken, Moves

\* Of list q, whose threads wait at P, the first is served; the threads woken at R,
\* where the threads of list r wait, lose at most the caller.
Serves(q, P, r, R) ==
  /\ k.wait[q] = <<>> => k'.wait[q] = <<>>
  /\ k.wait[r] = <<>> => k'.wait[r] = <<>>
  /\ k.wait[q] # <<>> => Cardinality(Woken(P)') = Cardinality(Woken(P)) + 1
  /\ Cardinality(Woken(R)) \in Nat /\ Cardinality(Woken(R)') \in Nat
  /\ Cardinality(Woken(P)) \in Nat
  /\ Cardinality(Woken(R)') >= Cardinality(Woken(R)) - 1

\* What it does to the threads that waited when the mailbox was deleted.
Releases ==
  \A u \in asleep' : /\ u \in Woken(Suspends)' => u \in Woken(Suspends)
                     /\ \A r \in BoxList : u \in Nodes(k'.wait[r]) => u \in Nodes(k.wait[r])

\* t, about to leave its call or outside any, serves list q.
LEMMA ServeKeeps ==
  ASSUME Lists, NEW t, NEW l, At(t, l), l \notin Leaving, NEW q \in BoxList,
         k' = Wake(q), Goto(t, AfterWake(q)), Served(q)
  PROVE  Lists' /\ Releases /\ asleep' \subseteq asleep
<1> DEFINE u == Head(k.wait[q])
<1>1. /\ IpcOK(PC, Suspends, Leaving)' /\ t \in Thread /\ Moves(PC, t) /\ pc[t] = l
      /\ pc'[t] \in {"run", "sched"} /\ k.stat[t] = "READY"
      /\ \/ k.wait[q] = <<>> /\ Calm(k', k)
         \/ /\ k.wait[q] # <<>> /\ Roused(k', k, u, RT_EOK)
            /\ u \in Thread /\ k.stat[u] = "SUSPEND"
  BY ServeStep
<1>2. Sound(k) /\ \A r \in BoxList : r \in WaitList
  BY BoxLists
<1>3. pc'[t] \notin RecvAt /\ pc'[t] \notin SendAt /\ pc'[t] \notin Suspends
  BY <1>1 DEF RecvAt, SendAt, Suspends
<1>4. CASE k.wait[q] = <<>> /\ Calm(k', k)
  <2>1. Blocking(RecvList, RecvAt)' /\ Blocking(SendList, SendAt)'
    BY <1>1, <1>4, CalmBlocking DEF Lists
  <2>2. Woken(Suspends)' = Woken(Suspends) \ {t}
    BY <1>1, <1>3, <1>4, LeaveWoken
  <2>3. k'.wait = k.wait /\ asleep' = asleep
    BY <1>4 DEF Calm, Served
  <2> QED BY <1>1, <2>1, <2>2, <2>3 DEF Lists, Releases
<1>5. CASE /\ k.wait[q] # <<>> /\ Roused(k', k, u, RT_EOK)
           /\ u \in Thread /\ k.stat[u] = "SUSPEND"
  <2>0. asleep' = asleep \ {u} /\ u # t
    BY <1>1, <1>5 DEF Served
  <2> HIDE DEF u
  <2>1. Blocking(RecvList, RecvAt)' /\ Blocking(SendList, SendAt)'
    BY <1>1, <1>2, <1>5, BoxLists, RousedBlocking DEF Lists
  <2>2. \/ Woken(Suspends)' = Woken(Suspends) \ {t}
        \/ Woken(Suspends)' = (Woken(Suspends) \ {t}) \cup {u}
    BY <1>1, <1>2, <1>3, <1>5, <2>0, ServeWoken
  <2>3. ASSUME NEW r \in BoxList PROVE Nodes(k'.wait[r]) = Nodes(k.wait[r]) \ {u}
    BY <1>2, <1>5, RousedLists
  <2> QED BY <1>1, <2>0, <2>1, <2>2, <2>3 DEF Lists, Releases
<1> QED BY <1>1, <1>4, <1>5

LEMMA ServeCounts ==
  ASSUME Lists, NEW t, NEW l, At(t, l), l \notin Leaving,
         NEW q \in BoxList, NEW P, Blocking(q, P), l \notin P,
         NEW r \in BoxList, NEW R, P \cap R = {}, {"run", "sched"} \cap (P \cup R) = {},
         k' = Wake(q), Goto(t, AfterWake(q))
  PROVE  Serves(q, P, r, R)
<1> DEFINE u == Head(k.wait[q])
<1>1. /\ t \in Thread /\ Moves(PC, t) /\ pc[t] = l
      /\ pc'[t] \in {"run", "sched"} /\ k.stat[t] = "READY"
      /\ \/ k.wait[q] = <<>> /\ Calm(k', k)
         \/ /\ k.wait[q] # <<>> /\ Roused(k', k, u, RT_EOK)
            /\ u \in Thread /\ k.stat[u] = "SUSPEND" /\ u \in Nodes(k.wait[q])
  BY ServeStep
<1>2. Sound(k) /\ q \in WaitList /\ r \in WaitList
  BY BoxLists
<1>3. pc'[t] \notin P /\ pc'[t] \notin R /\ t \notin Woken(P)
  BY <1>1 DEF Woken
<1>4. Cardinality(Woken(P)) \in Nat
  BY WokenFinite
<1>5. CASE k.wait[q] = <<>> /\ Calm(k', k)
  <2>1. Woken(R)' = Woken(R) \ {t}
    BY <1>1, <1>3, <1>5, LeaveWoken
  <2>2. k'.wait = k.wait
    BY <1>5 DEF Calm
  <2> QED BY <1>4, <1>5, <2>1, <2>2, OneLess DEF Serves
<1>6. CASE /\ k.wait[q] # <<>> /\ Roused(k', k, u, RT_EOK)
           /\ u \in Thread /\ k.stat[u] = "SUSPEND" /\ u \in Nodes(k.wait[q])
  <2>1. u # t /\ pc[u] \in P /\ pc[u] \notin R
    BY <1>1, <1>6 DEF Blocking
  <2> HIDE DEF u
  <2>2. Woken(P)' = (Woken(P) \ {t}) \cup {u} /\ u \notin Woken(P)
    BY <1>1, <1>2, <1>3, <1>6, <2>1, ServeWoken
  <2>3. Woken(R)' = Woken(R) \ {t}
    BY <1>1, <1>2, <1>3, <1>6, <2>1, ServeWoken
  <2>4. Woken(P)' = Woken(P) \cup {u}
    BY <1>3, <2>2
  <2>5. Cardinality(Woken(P)') = Cardinality(Woken(P)) + 1
    BY <2>2, <2>4, WokenCount
  <2>6. /\ k.wait[q] = <<>> => k'.wait[q] = <<>>
        /\ k.wait[r] = <<>> => k'.wait[r] = <<>>
    BY <1>2, <1>6, RousedLists
  <2> QED BY <1>4, <2>3, <2>5, <2>6, OneLess DEF Serves
<1> QED BY <1>1, <1>5, <1>6

\* An interrupt handler serves the receivers.
LEMMA IsrServe ==
  ASSUME Lists, pc' = pc, Served(RecvList),
         k' = IF k.wait[RecvList] = <<>> THEN k ELSE rt_schedule(Wake(RecvList))
  PROVE  /\ Lists' /\ Releases /\ asleep' \subseteq asleep
         /\ Serves(RecvList, RecvAt, SendList, SendAt)
<1> DEFINE q == RecvList
           u == Head(k.wait[q])
           j == rt_ipc_list_resume(k, q)
<1>1. /\ Sound(k) /\ q \in WaitList \ {Defunct} /\ SendList \in WaitList /\ q \in WaitList
      /\ IpcOK(PC, Suspends, Leaving) /\ \A r \in BoxList : r \in WaitList
      /\ Cardinality(Woken(RecvAt)) \in Nat /\ Cardinality(Woken(SendAt)) \in Nat
  BY BoxLists, WokenFinite
<1>2. CASE k.wait[q] = <<>>
  <2>1. k' = k /\ asleep' = asleep
    BY <1>2 DEF Served
  <2>2. /\ Woken(RecvAt)' = Woken(RecvAt) /\ Woken(SendAt)' = Woken(SendAt)
        /\ Woken(Suspends)' = Woken(Suspends)
    BY <2>1 DEF Woken
  <2>3. Lists'
    BY <2>1 DEF Lists, IpcOK, Blocking
  <2> QED BY <1>1, <1>2, <2>1, <2>2, <2>3 DEF Releases, Serves
<1>3. CASE k.wait[q] # <<>>
  <2>1. k' = rt_schedule(j)
    BY <1>3 DEF Wake
  <2>2. /\ u \in Thread /\ k.stat[u] = "SUSPEND" /\ pc[u] \in RecvAt /\ k.err[u] = RT_EOK
        /\ asleep' = asleep \ {u}
    BY <1>1, <1>3, HeadSuspended DEF Lists, Blocking, Served
  <2>3. Sound(j) /\ Roused(j, k, u, RT_EOK)
    BY <1>1, <1>3, <2>2, ListResumeRouses
  <2> HIDE DEF u, j
  <2>4. /\ IpcOK(PC, Suspends, Leaving)' /\ Roused(k', k, u, RT_EOK) /\ k.cur \in Thread
        /\ Moves(PC, k.cur)
    BY <1>1, <1>3, <2>1, <2>2, <2>3, IsrRouseStep
  <2>5. Blocking(RecvList, RecvAt)' /\ Blocking(SendList, SendAt)'
    BY <1>1, <2>2, <2>4, RousedBlocking DEF Lists
  <2>6. pc'[u] \in RecvAt /\ pc'[u] \notin SendAt
    BY <2>2 DEF RecvAt, SendAt
  <2>7. /\ Woken(RecvAt)' = Woken(RecvAt) \cup {u} /\ u \notin Woken(RecvAt)
        /\ Woken(SendAt)' = Woken(SendAt)
    BY <1>1, <2>2, <2>4, <2>6, RousedWoken
  <2>8. ASSUME NEW r \in BoxList
        PROVE  /\ Nodes(k'.wait[r]) = Nodes(k.wait[r]) \ {u}
               /\ k.wait[r] = <<>> => k'.wait[r] = <<>>
    BY <1>1, <2>4, RousedLists
  <2>9. Releases
    BY <2>2, <2>7, <2>8, WokenBoth DEF Releases
  <2>10. Cardinality(Woken(RecvAt)') = Cardinality(Woken(RecvAt)) + 1
    BY <2>7, WokenCount
  <2>11. Serves(RecvList, RecvAt, SendList, SendAt)
    BY <1>1, <2>7, <2>8, <2>10 DEF Serves, BoxList
  <2> QED BY <2>2, <2>4, <2>5, <2>9, <2>11 DEF Lists
<1> QED BY <1>2, <1>3

-----------------------------------------------------------------------------
(* The ring. *)

\* What the mailbox holds, the next mail first.
Queue(b) == [i \in 1 .. b.entry |-> b.pool[(b.out + i - 1) % Size]]

LEMMA RingMod ==
  ASSUME NEW i \in Int, 0 <= i, i < 2 * Size
  PROVE  i % Size = Wrap(i)
<1>1. Size \in Nat \ {0}
  BY MailboxAssumption
<1>2. CASE i < Size
  BY <1>1, <1>2 DEF Wrap
<1>3. CASE i >= Size
  <2> DEFINE d == i - Size
  <2>1. d \in 0 .. (Size - 1) /\ i = d + Size /\ d \in Int
    BY <1>1, <1>3
  <2> HIDE DEF d
  <2>2. (d + Size) % Size = d % Size
    BY <1>1, <2>1, ModShift
  <2>3. d % Size = d
    BY <1>1, <2>1
  <2> QED BY <1>1, <1>3, <2>1, <2>2, <2>3 DEF Wrap
<1> QED BY <1>1, <1>2, <1>3

LEMMA RingFields ==
  ASSUME NEW b, RingOK(b)
  PROVE  /\ Size \in Nat \ {0} /\ b.out \in 0 .. (Size - 1) /\ b.in \in 0 .. (Size - 1)
         /\ b.entry \in 0 .. Size /\ b.pool \in [Slot -> Msg \cup {NoMsg}]
         /\ b.in = Wrap(b.out + b.entry)
  BY MailboxAssumption DEF RingOK, Slot

LEMMA PutRing ==
  ASSUME NEW b, RingOK(b), b.entry # Size, NEW m \in Msg, NEW c, c = Put(b, m)
  PROVE  /\ RingOK(c) /\ c.entry = b.entry + 1 /\ c.out = b.out
         /\ c.pool = [b.pool EXCEPT ![b.in] = m]
<1>0. /\ Size \in Nat \ {0} /\ b.out \in 0 .. (Size - 1) /\ b.in \in 0 .. (Size - 1)
      /\ b.entry \in 0 .. Size /\ b.pool \in [Slot -> Msg \cup {NoMsg}]
      /\ b.in = Wrap(b.out + b.entry)
  BY RingFields
<1>1. /\ c.pool = [b.pool EXCEPT ![b.in] = m] /\ c.in = Forward(b.in) /\ c.out = b.out
      /\ c.entry = b.entry + 1
      /\ c = [pool |-> c.pool, in |-> c.in, out |-> c.out, entry |-> c.entry]
  BY DEF RingOK, Put
<1>2. c.in = Wrap(c.out + c.entry) /\ c.in \in Slot
  <2>1. b.in = IF b.out + b.entry < Size THEN b.out + b.entry ELSE b.out + b.entry - Size
    BY <1>0 DEF Wrap
  <2>2. c.in = IF b.in + 1 >= Size THEN 0 ELSE b.in + 1
    BY <1>1 DEF Forward
  <2>3. c.in = IF b.out + (b.entry + 1) < Size THEN b.out + (b.entry + 1)
               ELSE b.out + (b.entry + 1) - Size
    BY <1>0, <2>1, <2>2
  <2>4. c.in \in Slot
    BY <1>0, <2>2 DEF Slot
  <2>5. c.out + c.entry = b.out + (b.entry + 1)
    BY <1>1
  <2>6. c.in = Wrap(b.out + (b.entry + 1))
    BY <1>0, <2>3 DEF Wrap
  <2> QED BY <2>4, <2>5, <2>6
<1>3. c.pool \in [Slot -> Msg \cup {NoMsg}] /\ c.entry \in 0 .. Size /\ c.out \in Slot
  BY <1>1, <1>0 DEF Slot
<1> QED BY <1>1, <1>2, <1>3 DEF RingOK

LEMMA UrgentRing ==
  ASSUME NEW b, RingOK(b), b.entry # Size, NEW m \in Msg, NEW c, c = PutUrgent(b, m)
  PROVE  /\ RingOK(c) /\ c.entry = b.entry + 1 /\ c.out = Backward(b.out)
         /\ c.pool = [b.pool EXCEPT ![c.out] = m]
<1>0. /\ Size \in Nat \ {0} /\ b.out \in 0 .. (Size - 1) /\ b.in \in 0 .. (Size - 1)
      /\ b.entry \in 0 .. Size /\ b.pool \in [Slot -> Msg \cup {NoMsg}]
      /\ b.in = Wrap(b.out + b.entry)
  BY RingFields
<1>1. /\ c.pool = [b.pool EXCEPT ![c.out] = m] /\ c.in = b.in /\ c.out = Backward(b.out)
      /\ c.entry = b.entry + 1
      /\ c = [pool |-> c.pool, in |-> c.in, out |-> c.out, entry |-> c.entry]
  BY DEF RingOK, PutUrgent
<1>2. c.out \in 0 .. (Size - 1)
  BY <1>1, <1>0 DEF Backward
<1>3. c.in = Wrap(c.out + c.entry) /\ c.in \in Slot
  BY <1>1, <1>2, <1>0, SMTT(30) DEF Backward, Slot, Wrap
<1>4. c.pool \in [Slot -> Msg \cup {NoMsg}] /\ c.entry \in 0 .. Size /\ c.out \in Slot
  BY <1>1, <1>2, <1>0 DEF Slot
<1> QED BY <1>1, <1>3, <1>4 DEF RingOK

LEMMA GetRing ==
  ASSUME NEW b, RingOK(b), b.entry > 0, NEW c, c = Get(b)
  PROVE  RingOK(c) /\ c.entry = b.entry - 1 /\ c.out = Forward(b.out) /\ c.pool = b.pool
<1>0. /\ Size \in Nat \ {0} /\ b.out \in 0 .. (Size - 1) /\ b.in \in 0 .. (Size - 1)
      /\ b.entry \in 0 .. Size /\ b.pool \in [Slot -> Msg \cup {NoMsg}]
      /\ b.in = Wrap(b.out + b.entry)
  BY RingFields
<1>1. /\ c.pool = b.pool /\ c.in = b.in /\ c.out = Forward(b.out)
      /\ c.entry = b.entry - 1
      /\ c = [pool |-> c.pool, in |-> c.in, out |-> c.out, entry |-> c.entry]
  BY DEF RingOK, Get
<1>2. c.out \in 0 .. (Size - 1)
  BY <1>1, <1>0 DEF Forward
<1>3. c.in = Wrap(c.out + c.entry) /\ c.in \in Slot
  <2>1. b.in = IF b.out + b.entry < Size THEN b.out + b.entry ELSE b.out + b.entry - Size
    BY <1>0 DEF Wrap
  <2>2. c.out = IF b.out + 1 >= Size THEN 0 ELSE b.out + 1
    BY <1>1 DEF Forward
  <2>3. b.in = IF c.out + (b.entry - 1) < Size THEN c.out + (b.entry - 1)
               ELSE c.out + (b.entry - 1) - Size
    BY <1>0, <2>1, <2>2
  <2>4. c.out + c.entry = c.out + (b.entry - 1) /\ c.in = b.in /\ c.in \in Slot
    BY <1>0, <1>1 DEF Slot
  <2>5. b.in = Wrap(c.out + (b.entry - 1))
    BY <1>0, <1>2, <2>3 DEF Wrap
  <2> QED BY <2>4, <2>5
<1>4. c.pool \in [Slot -> Msg \cup {NoMsg}] /\ c.entry \in 0 .. Size /\ c.out \in Slot
  BY <1>1, <1>2, <1>0 DEF Slot
<1> QED BY <1>1, <1>3, <1>4 DEF RingOK

LEMMA FreshRing ==
  ASSUME NEW p \in [Slot -> Msg \cup {NoMsg}], NEW b, b = [FreshBox EXCEPT !.pool = p]
  PROVE  RingOK(b) /\ b.entry = 0
<1>1. Size \in Nat \ {0} /\ Wrap(0) = 0 /\ 0 \in Slot /\ 0 \in 0 .. Size
  BY MailboxAssumption DEF Slot, Wrap
<1>2. b = [pool |-> p, in |-> 0, out |-> 0, entry |-> 0]
  BY DEF FreshBox
<1>3. b.in = Wrap(b.out + b.entry) /\ b.entry = 0
  BY <1>1, <1>2
<1>4. b.pool = p /\ b.in = 0 /\ b.out = 0
  BY <1>2
<1> QED BY <1>1, <1>2, <1>3, <1>4 DEF RingOK

\* The i-th mail of a sound ring.
LEMMA QueueAt ==
  ASSUME NEW b, RingOK(b)
  PROVE  /\ Queue(b) = [i \in 1 .. b.entry |-> b.pool[Wrap(b.out + i - 1)]]
         /\ Len(Queue(b)) = b.entry /\ Queue(b) \in Seq(Msg \cup {NoMsg})
<1>1. ASSUME NEW i \in 1 .. b.entry
      PROVE  /\ (b.out + i - 1) % Size = Wrap(b.out + i - 1)
             /\ b.pool[Wrap(b.out + i - 1)] \in Msg \cup {NoMsg}
  <2> DEFINE d == b.out + i - 1
  <2>1. d \in Int /\ 0 <= d /\ d < 2 * Size
    BY RingFields
  <2>2. Wrap(d) \in Slot
    BY <2>1, MailboxAssumption DEF Wrap, Slot
  <2> HIDE DEF d
  <2>3. d % Size = Wrap(d) /\ b.pool[Wrap(d)] \in Msg \cup {NoMsg}
    BY <2>1, <2>2, RingMod, RingFields
  <2> QED BY <2>3 DEF d
<1>2. Queue(b) = [i \in 1 .. b.entry |-> b.pool[Wrap(b.out + i - 1)]]
  BY <1>1 DEF Queue
<1>3. b.entry \in Nat
  BY RingFields
<1> QED BY <1>1, <1>2, <1>3

\* The three operations are those of a bounded queue.
LEMMA PutQueue ==
  ASSUME NEW b, RingOK(b), b.entry # Size, NEW m \in Msg
  PROVE  Queue(Put(b, m)) = Append(Queue(b), m)
<1> DEFINE c == Put(b, m)
<1>0. /\ Size \in Nat \ {0} /\ b.out \in 0 .. (Size - 1) /\ b.in \in 0 .. (Size - 1)
      /\ b.entry \in 0 .. Size /\ b.pool \in [Slot -> Msg \cup {NoMsg}]
      /\ b.in = Wrap(b.out + b.entry)
  BY RingFields
<1>1. /\ RingOK(c) /\ c.entry = b.entry + 1 /\ c.out = b.out
      /\ c.pool = [b.pool EXCEPT ![b.in] = m]
  BY PutRing
<1> HIDE DEF c
<1>2. ASSUME NEW i \in 1 .. (b.entry + 1)
      PROVE  c.pool[Wrap(c.out + i - 1)] = IF i = b.entry + 1 THEN m
                                           ELSE b.pool[Wrap(b.out + i - 1)]
  <2>1. Wrap(b.out + i - 1) \in Slot /\ (Wrap(b.out + i - 1) = b.in => i = b.entry + 1)
        /\ (i = b.entry + 1 => Wrap(b.out + i - 1) = b.in)
    BY <1>0, SMTT(30) DEF Wrap, Slot
  <2> QED BY <1>1, <2>1, <1>0
<1>3. Queue(c) = [i \in 1 .. (b.entry + 1) |-> c.pool[Wrap(c.out + i - 1)]]
  BY <1>1, QueueAt
<1>4. /\ Queue(b) = [i \in 1 .. b.entry |-> b.pool[Wrap(b.out + i - 1)]]
      /\ Len(Queue(b)) = b.entry /\ Queue(b) \in Seq(Msg \cup {NoMsg}) /\ b.entry \in Nat
  BY QueueAt, <1>0
<1>5. Append(Queue(b), m) = [i \in 1 .. (b.entry + 1) |->
                               IF i = b.entry + 1 THEN m ELSE Queue(b)[i]]
  BY <1>4
<1> QED BY <1>2, <1>3, <1>4, <1>5 DEF c

LEMMA UrgentQueue ==
  ASSUME NEW b, RingOK(b), b.entry # Size, NEW m \in Msg
  PROVE  Queue(PutUrgent(b, m)) = <<m>> \o Queue(b)
<1> DEFINE c == PutUrgent(b, m)
<1>0. /\ Size \in Nat \ {0} /\ b.out \in 0 .. (Size - 1) /\ b.in \in 0 .. (Size - 1)
      /\ b.entry \in 0 .. Size /\ b.pool \in [Slot -> Msg \cup {NoMsg}]
      /\ b.in = Wrap(b.out + b.entry)
  BY RingFields
<1>1. /\ RingOK(c) /\ c.entry = b.entry + 1 /\ c.out = Backward(b.out)
      /\ c.pool = [b.pool EXCEPT ![c.out] = m]
  BY UrgentRing
<1> HIDE DEF c
<1>2. ASSUME NEW i \in 1 .. (b.entry + 1)
      PROVE  c.pool[Wrap(c.out + i - 1)] = IF i = 1 THEN m
                                           ELSE b.pool[Wrap(b.out + i - 2)]
  <2>0. /\ c.out = IF b.out > 0 THEN b.out - 1 ELSE Size - 1
        /\ c.out \in 0 .. (Size - 1)
    BY <1>0, <1>1 DEF Backward
  <2> DEFINE o == c.out
             w == IF o + i - 1 < Size THEN o + i - 1 ELSE o + i - 1 - Size
  <2>1. w = Wrap(c.out + i - 1) /\ i - 1 < Size /\ o \in 0 .. (Size - 1)
    BY <1>0, <2>0 DEF Wrap
  <2> HIDE DEF o
  <2>2. w \in Slot /\ o \in Slot /\ (i = 1 => w = o) /\ (i # 1 => w # o)
    BY <1>0, <2>1 DEF Slot
  <2>3. i # 1 => w = Wrap(b.out + i - 2)
    BY <1>0, <2>0, <2>1 DEF Wrap, o
  <2> HIDE DEF w
  <2> QED BY <1>0, <1>1, <2>1, <2>2, <2>3 DEF o
<1>3. Queue(c) = [i \in 1 .. (b.entry + 1) |-> c.pool[Wrap(c.out + i - 1)]]
  BY <1>1, QueueAt
<1>4. /\ Queue(b) = [i \in 1 .. b.entry |-> b.pool[Wrap(b.out + i - 1)]]
      /\ Len(Queue(b)) = b.entry /\ Queue(b) \in Seq(Msg \cup {NoMsg}) /\ b.entry \in Nat
  BY QueueAt, <1>0
<1>5. <<m>> \o Queue(b) = [i \in 1 .. (b.entry + 1) |-> IF i = 1 THEN m ELSE Queue(b)[i - 1]]
  BY <1>4
<1>6. ASSUME NEW i \in 1 .. (b.entry + 1), i # 1
      PROVE  Queue(b)[i - 1] = b.pool[Wrap(b.out + i - 2)]
  <2>1. i - 1 \in 1 .. b.entry /\ b.out + (i - 1) - 1 = b.out + i - 2
    BY <1>4, <1>6, <1>0
  <2> QED BY <1>4, <2>1
<1>7. \A i \in 1 .. (b.entry + 1) :
        c.pool[Wrap(c.out + i - 1)] = IF i = 1 THEN m ELSE Queue(b)[i - 1]
  BY <1>2, <1>6
<1>8. Queue(c) = <<m>> \o Queue(b)
  BY <1>3, <1>5, <1>7
<1> QED BY <1>8 DEF c

LEMMA GetQueue ==
  ASSUME NEW b, RingOK(b), b.entry > 0
  PROVE  /\ Queue(b) # <<>> /\ Queue(Get(b)) = Tail(Queue(b))
         /\ b.pool[b.out] = Head(Queue(b))
<1> DEFINE c == Get(b)
<1>0. /\ Size \in Nat \ {0} /\ b.out \in 0 .. (Size - 1) /\ b.in \in 0 .. (Size - 1)
      /\ b.entry \in 0 .. Size /\ b.pool \in [Slot -> Msg \cup {NoMsg}]
      /\ b.in = Wrap(b.out + b.entry)
  BY RingFields
<1>1. RingOK(c) /\ c.entry = b.entry - 1 /\ c.out = Forward(b.out) /\ c.pool = b.pool
  BY GetRing
<1> HIDE DEF c
<1>2. Queue(c) = [i \in 1 .. (b.entry - 1) |-> c.pool[Wrap(c.out + i - 1)]]
  BY <1>1, QueueAt
<1>3. /\ Queue(b) = [i \in 1 .. b.entry |-> b.pool[Wrap(b.out + i - 1)]]
      /\ Len(Queue(b)) = b.entry /\ Queue(b) \in Seq(Msg \cup {NoMsg}) /\ b.entry \in Nat
  BY QueueAt, <1>0
<1>4. ASSUME NEW i \in 1 .. (b.entry - 1)
      PROVE  c.pool[Wrap(c.out + i - 1)] = Queue(b)[i + 1]
  <2>0. c.out = IF b.out + 1 >= Size THEN 0 ELSE b.out + 1
    BY <1>1 DEF Forward
  <2>1. i + 1 \in 1 .. b.entry /\ Wrap(c.out + i - 1) = Wrap(b.out + (i + 1) - 1)
    BY <1>0, <2>0 DEF Wrap
  <2> QED BY <1>1, <1>3, <2>1
<1>5. Tail(Queue(b)) = [i \in 1 .. (b.entry - 1) |-> Queue(b)[i + 1]] /\ Queue(b) # <<>>
  BY <1>3
<1>6. b.pool[b.out] = Head(Queue(b))
  <2>1. Wrap(b.out + 1 - 1) = b.out /\ 1 \in 1 .. b.entry
    BY <1>3, <1>0 DEF Wrap
  <2> QED BY <1>3, <2>1
<1> QED BY <1>2, <1>4, <1>5, <1>6 DEF c

-----------------------------------------------------------------------------
(* Sending and receiving. *)

Idles == {"run", "sched"}

LEMMA PutCounts ==
  ASSUME Ring, Counts, life' = life, Serves(RecvList, RecvAt, SendList, SendAt),
         mb'.entry = mb.entry + 1
  PROVE  Counts'
<1>1. mb.entry \in Int /\ Size \in Int
  BY RingFields DEF Ring
<1>2. ASSUME life' = "live", k'.wait[RecvList] # <<>>
      PROVE  mb'.entry <= Cardinality(Woken(RecvAt)')
  BY <1>1, <1>2 DEF Counts, Serves
<1>3. ASSUME life' = "live", k'.wait[SendList] # <<>>
      PROVE  Size - mb'.entry <= Cardinality(Woken(SendAt)')
  BY <1>1, <1>3 DEF Counts, Serves
<1> QED BY <1>2, <1>3 DEF Counts

LEMMA GetCounts ==
  ASSUME Ring, Counts, life' = life, Serves(SendList, SendAt, RecvList, RecvAt),
         mb'.entry = mb.entry - 1
  PROVE  Counts'
<1>1. mb.entry \in Int /\ Size \in Int
  BY RingFields DEF Ring
<1>2. ASSUME life' = "live", k'.wait[RecvList] # <<>>
      PROVE  mb'.entry <= Cardinality(Woken(RecvAt)')
  BY <1>1, <1>2 DEF Counts, Serves
<1>3. ASSUME life' = "live", k'.wait[SendList] # <<>>
      PROVE  Size - mb'.entry <= Cardinality(Woken(SendAt)')
  BY <1>1, <1>3 DEF Counts, Serves
<1> QED BY <1>2, <1>3 DEF Counts

\* Whoever moves, leaves or stays outside its wait.
LEMMA ServeRest ==
  ASSUME Locals, Closing, life' = life, asleep' \subseteq asleep, Releases,
         \A u \in Thread : pc'[u] = pc[u] \/ pc'[u] \in Idles,
         \A u \in Thread : mail'[u] = mail[u] \/ pc'[u] \in Idles,
         mail' \in [Thread -> Msg \cup {NoMsg}], time' \in [Thread -> Time],
         got' \in [Thread -> Msg \cup {NoMsg}]
  PROVE  Locals' /\ Closing'
<1>1. Idles \cap (Suspends \cup Deleter) = {} /\ SendAt \subseteq Suspends
      /\ Ending \subseteq Deleter /\ Idle \in Thread
  BY KernelAssumption DEF Idles, Suspends, Deleter, RecvAt, SendAt, Ending
<1>2. Locals'
  BY <1>1 DEF Locals
<1>3. /\ \A t \in Thread : pc'[t] \in Deleter => pc[t] \in Deleter
      /\ \A t \in Thread : pc'[t] \in Ending => pc[t] \in Ending
  BY <1>1
<1>4. Closing'
  BY <1>3, ClosingKept DEF Releases
<1> QED BY <1>2, <1>4

LEMMA LeaveOK ==
  ASSUME Locals, NEW t \in Thread, Leave(t)
  PROVE  /\ mail' \in [Thread -> Msg \cup {NoMsg}] /\ time' \in [Thread -> Time]
         /\ \A u \in Thread : u # t => mail'[u] = mail[u]
  BY DEF Locals, Leave, Time

LEMMA SendPutInv ==
  ASSUME Inv, NEW t \in Thread, NEW l \in {"run", "sent"}, NEW m \in Msg, SendPut(t, l, m)
  PROVE  Inv'
<1>1. /\ At(t, l) /\ mb.entry # Size /\ mb' = Put(mb, m) /\ k' = Wake(RecvList)
      /\ Goto(t, AfterWake(RecvList)) /\ Leave(t) /\ Served(RecvList) /\ life' = life
      /\ got' = got
  BY DEF SendPut, Full
<1>2. /\ l \notin Leaving /\ l \notin RecvAt /\ RecvAt \cap SendAt = {}
      /\ {"run", "sched"} \cap (RecvAt \cup SendAt) = {}
      /\ RecvList \in BoxList /\ SendList \in BoxList
      /\ Lists /\ Blocking(RecvList, RecvAt)
  BY DEF Leaving, RecvAt, SendAt, BoxList, Inv, Lists
<1>3. Moves(PC, t) /\ pc'[t] \in Idles
  BY <1>1, <1>2, ServeStep DEF Idles
<1>4. Lists' /\ Releases /\ asleep' \subseteq asleep
  BY <1>1, <1>2, ServeKeeps
<1>5. Serves(RecvList, RecvAt, SendList, SendAt)
  BY <1>1, <1>2, ServeCounts
<1>6. RingOK(mb') /\ mb'.entry = mb.entry + 1
  BY <1>1, PutRing DEF Inv, Ring
<1>7. Counts'
  BY <1>1, <1>5, <1>6, PutCounts DEF Inv
<1>8. Locals' /\ Closing'
  <2>1. /\ \A u \in Thread : pc'[u] = pc[u] \/ pc'[u] \in Idles
        /\ \A u \in Thread : mail'[u] = mail[u] \/ pc'[u] \in Idles
        /\ mail' \in [Thread -> Msg \cup {NoMsg}] /\ time' \in [Thread -> Time]
    BY <1>1, <1>3, LeaveOK DEF Moves, Inv
  <2>2. got' \in [Thread -> Msg \cup {NoMsg}] /\ Locals /\ Closing
    BY <1>1 DEF Inv, Locals
  <2> QED BY <1>1, <1>4, <2>1, <2>2, ServeRest
<1>9. Ring'
  BY <1>6 DEF Ring, RingOK, Wrap, Slot
<1> QED BY <1>4, <1>7, <1>8, <1>9 DEF Inv

LEMMA UrgentInv ==
  ASSUME Inv, NEW t \in Thread, NEW m \in Msg, rt_mb_urgent(t, m)
  PROVE  Inv'
<1>1. /\ At(t, "run") /\ mb.entry # Size /\ mb' = PutUrgent(mb, m) /\ k' = Wake(RecvList)
      /\ Goto(t, AfterWake(RecvList)) /\ Served(RecvList) /\ life' = life
      /\ got' = got /\ mail' = mail /\ time' = time
  BY DEF rt_mb_urgent, Full, Enter, locals
<1>2. /\ "run" \notin Leaving /\ "run" \notin RecvAt /\ RecvAt \cap SendAt = {}
      /\ {"run", "sched"} \cap (RecvAt \cup SendAt) = {}
      /\ RecvList \in BoxList /\ SendList \in BoxList
      /\ Lists /\ Blocking(RecvList, RecvAt)
  BY DEF Leaving, RecvAt, SendAt, BoxList, Inv, Lists
<1>3. Moves(PC, t) /\ pc'[t] \in Idles
  BY <1>1, <1>2, ServeStep DEF Idles
<1>4. Lists' /\ Releases /\ asleep' \subseteq asleep
  BY <1>1, <1>2, ServeKeeps
<1>5. Serves(RecvList, RecvAt, SendList, SendAt)
  BY <1>1, <1>2, ServeCounts
<1>6. RingOK(mb') /\ mb'.entry = mb.entry + 1
  BY <1>1, UrgentRing DEF Inv, Ring
<1>7. Counts'
  BY <1>1, <1>5, <1>6, PutCounts DEF Inv
<1>8. Locals' /\ Closing'
  <2>1. \A u \in Thread : pc'[u] = pc[u] \/ pc'[u] \in Idles
    BY <1>3 DEF Moves
  <2>2. /\ mail' \in [Thread -> Msg \cup {NoMsg}] /\ time' \in [Thread -> Time]
        /\ got' \in [Thread -> Msg \cup {NoMsg}] /\ Locals /\ Closing
    BY <1>1 DEF Inv, Locals
  <2> QED BY <1>1, <1>4, <2>1, <2>2, ServeRest
<1>9. Ring'
  BY <1>6 DEF Ring, RingOK, Wrap, Slot
<1> QED BY <1>4, <1>7, <1>8, <1>9 DEF Inv

LEMMA IsrSendInv == ASSUME Inv, NEW m \in Msg, IsrSend(m) PROVE Inv'
<1>1. /\ mb.entry # Size /\ mb' = Put(mb, m) /\ Served(RecvList) /\ life' = life
      /\ got' = got /\ mail' = mail /\ time' = time /\ pc' = pc
      /\ k' = IF k.wait[RecvList] = <<>> THEN k ELSE rt_schedule(Wake(RecvList))
  BY DEF IsrSend, Full, locals
<1>2. /\ Lists' /\ Releases /\ asleep' \subseteq asleep
      /\ Serves(RecvList, RecvAt, SendList, SendAt)
  BY <1>1, IsrServe DEF Inv
<1>3. RingOK(mb') /\ mb'.entry = mb.entry + 1
  BY <1>1, PutRing DEF Inv, Ring
<1>4. Counts'
  BY <1>1, <1>2, <1>3, PutCounts DEF Inv
<1>5. Locals' /\ Closing'
  <2>1. /\ mail' \in [Thread -> Msg \cup {NoMsg}] /\ time' \in [Thread -> Time]
        /\ got' \in [Thread -> Msg \cup {NoMsg}] /\ Locals /\ Closing
    BY <1>1 DEF Inv, Locals
  <2> QED BY <1>1, <1>2, <2>1, ServeRest
<1>6. Ring'
  BY <1>3 DEF Ring, RingOK, Wrap, Slot
<1> QED BY <1>2, <1>4, <1>5, <1>6 DEF Inv

LEMMA RecvGetInv ==
  ASSUME Inv, NEW t \in Thread, NEW l \in {"run", "received"}, RecvGet(t, l)
  PROVE  Inv'
<1>1. /\ At(t, l) /\ mb.entry > 0 /\ mb' = Get(mb) /\ k' = Wake(SendList)
      /\ Goto(t, AfterWake(SendList)) /\ Leave(t) /\ Served(SendList) /\ life' = life
      /\ got' = [got EXCEPT ![t] = mb.pool[mb.out]]
  BY DEF RecvGet
<1>2. /\ l \notin Leaving /\ l \notin SendAt /\ SendAt \cap RecvAt = {}
      /\ {"run", "sched"} \cap (SendAt \cup RecvAt) = {}
      /\ RecvList \in BoxList /\ SendList \in BoxList
      /\ Lists /\ Blocking(SendList, SendAt)
  BY DEF Leaving, RecvAt, SendAt, BoxList, Inv, Lists
<1>3. Moves(PC, t) /\ pc'[t] \in Idles
  BY <1>1, <1>2, ServeStep DEF Idles
<1>4. Lists' /\ Releases /\ asleep' \subseteq asleep
  BY <1>1, <1>2, ServeKeeps
<1>5. Serves(SendList, SendAt, RecvList, RecvAt)
  BY <1>1, <1>2, ServeCounts
<1>6. RingOK(mb') /\ mb'.entry = mb.entry - 1
  BY <1>1, GetRing DEF Inv, Ring
<1>7. Counts'
  BY <1>1, <1>5, <1>6, GetCounts DEF Inv
<1>8. Locals' /\ Closing'
  <2>1. /\ \A u \in Thread : pc'[u] = pc[u] \/ pc'[u] \in Idles
        /\ \A u \in Thread : mail'[u] = mail[u] \/ pc'[u] \in Idles
        /\ mail' \in [Thread -> Msg \cup {NoMsg}] /\ time' \in [Thread -> Time]
    BY <1>1, <1>3, LeaveOK DEF Moves, Inv
  <2>2. got' \in [Thread -> Msg \cup {NoMsg}] /\ Locals /\ Closing
    <3>1. mb.pool[mb.out] \in Msg \cup {NoMsg}
      BY DEF Inv, Ring, RingOK
    <3> QED BY <1>1, <3>1 DEF Inv, Locals
  <2> QED BY <1>1, <1>4, <2>1, <2>2, ServeRest
<1>9. Ring'
  BY <1>6 DEF Ring, RingOK, Wrap, Slot
<1> QED BY <1>4, <1>7, <1>8, <1>9 DEF Inv

-----------------------------------------------------------------------------
(* Waiting, and giving up. *)

LEMMA WaitKeeps ==
  ASSUME Lists, NEW t \in Thread, t # Idle, NEW l, At(t, l), l \notin Leaving,
         NEW q \in BoxList, NEW m, NEW tm,
         \/ q = RecvList /\ m = "receiving"
         \/ q = SendList /\ m = "sending",
         k' = Block(k, q, t, Flag, tm), Goto(t, m)
  PROVE  /\ Lists' /\ Moves(PC, t) /\ pc[t] = l /\ pc'[t] = m /\ k.stat[t] = "READY"
         /\ Woken(RecvAt)' = Woken(RecvAt) \ {t} /\ Woken(SendAt)' = Woken(SendAt) \ {t}
         /\ \A r \in BoxList : \A u \in Nodes(k'.wait[r]) : u \in Nodes(k.wait[r]) \/ u = t
         /\ \A r \in BoxList : r # q => k'.wait[r] = k.wait[r]
<1> DEFINE x == Position(k, q, t, Flag)
<1>1. /\ q \in WaitList \ {Defunct} /\ q \in WaitList /\ Sound(k) /\ k \in KernelState
      /\ \A r \in BoxList : r \in WaitList
      /\ IpcOK(PC, Suspends, Leaving)
  BY BoxLists DEF BoxList
<1>2. m \in PC \cap Suspends \cap Leaving
  BY DEF PC, Suspends, Leaving, RecvAt, SendAt
<1>3. /\ IpcOK(PC, Suspends, Leaving)' /\ k.stat[t] = "READY" /\ Moves(PC, t)
      /\ pc[t] = l /\ pc'[t] = m /\ BlockedAt(k', k, q, t, x) /\ Place(k, q, x)
  BY <1>1, <1>2, BlockStep
<1> HIDE DEF x
<1>4. Blocking(RecvList, RecvAt)'
  <2>1. IF RecvList = q THEN pc'[t] \in RecvAt ELSE pc'[t] \notin RecvAt
    BY <1>3, MailboxAssumption DEF RecvAt
  <2>2. Blocking(RecvList, RecvAt) /\ RecvList \in WaitList
    BY BoxLists DEF Lists
  <2> QED BY <1>1, <1>3, <2>1, <2>2, BlockedBlocking
<1>5. Blocking(SendList, SendAt)'
  <2>1. IF SendList = q THEN pc'[t] \in SendAt ELSE pc'[t] \notin SendAt
    BY <1>3, MailboxAssumption DEF SendAt
  <2>2. Blocking(SendList, SendAt) /\ SendList \in WaitList
    BY BoxLists DEF Lists
  <2> QED BY <1>1, <1>3, <2>1, <2>2, BlockedBlocking
<1>6. /\ k'.stat[t] = "SUSPEND"
      /\ \A u \in Thread \ {t} : k'.stat[u] = k.stat[u] /\ k'.err[u] = k.err[u]
  BY <1>1, <1>3 DEF BlockedAt, KernelState
<1>7. Woken(RecvAt)' = Woken(RecvAt) \ {t} /\ Woken(SendAt)' = Woken(SendAt) \ {t}
  BY <1>3, <1>6, OwnWoken
<1>8. \A u : u \in Nodes(k'.wait[q]) <=> u \in Nodes(k.wait[q]) \/ u = t
  BY <1>1, <1>3, BlockedList
<1>9. \A r \in WaitList : r # q => k'.wait[r] = k.wait[r]
  BY <1>1, <1>3, BlockedNodes
<1>10. ASSUME NEW r \in BoxList, NEW u \in Nodes(k'.wait[r])
       PROVE  u \in Nodes(k.wait[r]) \/ u = t
  BY <1>1, <1>8, <1>9
<1> QED BY <1>1, <1>3, <1>4, <1>5, <1>7, <1>9, <1>10 DEF Lists

\* A thread that waits again was woken without an error, so no delete woke it.
LEMMA WaitCloses ==
  ASSUME Closing, NEW t \in Thread, NEW l, At(t, l), k.stat[t] = "READY",
         \/ l = "run" /\ life = "live"
         \/ l \in Suspends /\ k.err[t] = RT_EOK,
         UNCHANGED obj, Moves(PC, t), pc'[t] \in Suspends,
         Woken(RecvAt)' = Woken(RecvAt) \ {t}, Woken(SendAt)' = Woken(SendAt) \ {t},
         \A r \in BoxList : \A u \in Nodes(k'.wait[r]) : u \in Nodes(k.wait[r]) \/ u = t
  PROVE  Closing'
<1>1. /\ \A u \in Thread : pc'[u] \in Deleter => pc[u] \in Deleter
      /\ \A u \in Thread : pc'[u] \in Ending => pc[u] \in Ending
  BY DEF Moves, Suspends, RecvAt, SendAt, Deleter, Ending
<1>2. life # "live" => t \notin asleep
  <2>1. l \in Suspends /\ k.err[t] = RT_EOK => t \in Woken(Suspends)
    BY DEF Woken, At
  <2> QED BY <2>1 DEF Closing
<1>3. \A u : u \in Woken(Suspends)' => u \in Woken(Suspends)
  BY WokenBoth
<1>4. life' = life /\ asleep' = asleep
  BY DEF obj
<1> QED BY <1>1, <1>2, <1>3, <1>4, ClosingKept

LEMMA SendWaitInv ==
  ASSUME Inv, NEW t \in Thread, t # Idle, NEW l, NEW m \in Msg, NEW tm \in Time,
         SendWait(t, l, m, tm),
         \/ l = "run" /\ life = "live"
         \/ l = "sent" /\ k.err[t] = RT_EOK
  PROVE  Inv'
<1>1. /\ At(t, l) /\ mb.entry = Size /\ k' = Block(k, SendList, t, Flag, tm)
      /\ Goto(t, "sending") /\ mail' = [mail EXCEPT ![t] = m]
      /\ time' = [time EXCEPT ![t] = tm] /\ UNCHANGED <<mb, got, obj>>
  BY DEF SendWait, Full
<1>2. /\ l \notin Leaving /\ SendList \in BoxList /\ RecvList \in BoxList /\ Lists
      /\ l \notin RecvAt /\ RecvList # SendList
  BY MailboxAssumption DEF Leaving, BoxList, Inv, RecvAt
<1>3. /\ Lists' /\ Moves(PC, t) /\ pc[t] = l /\ pc'[t] = "sending" /\ k.stat[t] = "READY"
      /\ Woken(RecvAt)' = Woken(RecvAt) \ {t} /\ Woken(SendAt)' = Woken(SendAt) \ {t}
      /\ \A r \in BoxList : \A u \in Nodes(k'.wait[r]) : u \in Nodes(k.wait[r]) \/ u = t
      /\ \A r \in BoxList : r # SendList => k'.wait[r] = k.wait[r]
  BY <1>1, <1>2, WaitKeeps
<1>4. Ring'
  BY <1>1 DEF Inv, Ring, RingOK, Wrap, Slot
<1>5. Locals'
  BY <1>1, <1>3, KernelAssumption DEF Inv, Locals, Moves, obj, Suspends
<1>6. Counts'
  <2>1. Woken(RecvAt)' = Woken(RecvAt)
    BY <1>2, <1>3 DEF Woken
  <2>2. Cardinality(Woken(SendAt)') \in Nat
    BY <1>3, OneLess
  <2>3. Size \in Int /\ mb' = mb /\ life' = life /\ k'.wait[RecvList] = k.wait[RecvList]
    BY <1>1, <1>2, <1>3, MailboxAssumption DEF obj
  <2>4. Size - mb'.entry <= Cardinality(Woken(SendAt)')
    BY <1>1, <2>2, <2>3
  <2> QED BY <2>1, <2>3, <2>4 DEF Inv, Counts
<1>7. Closing'
  <2>1. pc'[t] \in Suspends /\ ("sent" \in Suspends)
    BY <1>3 DEF Suspends, SendAt
  <2> QED BY <1>1, <1>3, <2>1, WaitCloses DEF Inv
<1> QED BY <1>3, <1>4, <1>5, <1>6, <1>7 DEF Inv

LEMMA RecvWaitInv ==
  ASSUME Inv, NEW t \in Thread, t # Idle, NEW l, NEW tm \in Time, RecvWait(t, l, tm),
         \/ l = "run" /\ life = "live"
         \/ l = "received" /\ k.err[t] = RT_EOK
  PROVE  Inv'
<1>1. /\ At(t, l) /\ mb.entry = 0 /\ k' = Block(k, RecvList, t, Flag, tm)
      /\ Goto(t, "receiving") /\ time' = [time EXCEPT ![t] = tm]
      /\ UNCHANGED <<mb, mail, got, obj>>
  BY DEF RecvWait
<1>2. /\ l \notin Leaving /\ SendList \in BoxList /\ RecvList \in BoxList /\ Lists
      /\ l \notin SendAt /\ RecvList # SendList
  BY MailboxAssumption DEF Leaving, BoxList, Inv, SendAt
<1>3. /\ Lists' /\ Moves(PC, t) /\ pc[t] = l /\ pc'[t] = "receiving" /\ k.stat[t] = "READY"
      /\ Woken(RecvAt)' = Woken(RecvAt) \ {t} /\ Woken(SendAt)' = Woken(SendAt) \ {t}
      /\ \A r \in BoxList : \A u \in Nodes(k'.wait[r]) : u \in Nodes(k.wait[r]) \/ u = t
      /\ \A r \in BoxList : r # RecvList => k'.wait[r] = k.wait[r]
  BY <1>1, <1>2, WaitKeeps
<1>4. Ring'
  BY <1>1 DEF Inv, Ring, RingOK, Wrap, Slot
<1>5. Locals'
  <2>1. pc'[t] \notin SendAt
    BY <1>3 DEF SendAt
  <2> QED BY <1>1, <1>3, <2>1, KernelAssumption DEF Inv, Locals, Moves, obj, Suspends
<1>6. Counts'
  <2>1. Woken(SendAt)' = Woken(SendAt)
    BY <1>2, <1>3 DEF Woken
  <2>2. Cardinality(Woken(RecvAt)') \in Nat
    BY <1>3, OneLess
  <2>3. mb' = mb /\ life' = life /\ k'.wait[SendList] = k.wait[SendList]
    BY <1>1, <1>2, <1>3 DEF obj
  <2>4. mb'.entry <= Cardinality(Woken(RecvAt)')
    BY <1>1, <2>2, <2>3
  <2> QED BY <2>1, <2>3, <2>4 DEF Inv, Counts
<1>7. Closing'
  <2>1. pc'[t] \in Suspends /\ ("received" \in Suspends)
    BY <1>3 DEF Suspends, RecvAt
  <2> QED BY <1>1, <1>3, <2>1, WaitCloses DEF Inv
<1> QED BY <1>3, <1>4, <1>5, <1>6, <1>7 DEF Inv

\* A call fails: nobody counted on it, or there is nothing to count.
LEMMA FailInv ==
  ASSUME Inv, NEW t \in Thread, NEW l \in {"sent", "received"}, At(t, l),
         NEW e \in ErrNo, Fail(t, e),
         \/ k.err[t] # RT_EOK
         \/ l = "sent" /\ Full
         \/ l = "received" /\ mb.entry = 0
  PROVE  Inv'
<1>1. /\ k' = SetErr(k, t, e) /\ Goto(t, "run") /\ Leave(t) /\ UNCHANGED <<mb, got, obj>>
      /\ l \notin Leaving /\ "run" \in PC /\ IpcOK(PC, Suspends, Leaving)
  BY DEF Fail, Leaving, PC, Inv, Lists
<1>2. /\ IpcOK(PC, Suspends, Leaving)' /\ Moves(PC, t) /\ Noted(k', k, t, e)
      /\ pc'[t] = "run" /\ pc[t] = l /\ k.stat[t] = "READY"
  BY <1>1, NoteStep, RunnerReady
<1>3. /\ RecvList \in WaitList /\ SendList \in WaitList /\ Sound(k) /\ k \in KernelState
      /\ Blocking(RecvList, RecvAt) /\ Blocking(SendList, SendAt) /\ Lists
  BY BoxLists DEF Inv, Lists
<1>4. Blocking(RecvList, RecvAt)' /\ Blocking(SendList, SendAt)'
  BY <1>2, <1>3, NotedBlocking
<1>5. \A u \in Thread \ {t} : k'.stat[u] = k.stat[u] /\ k'.err[u] = k.err[u]
  BY <1>2, <1>3 DEF Noted, KernelState
<1>6. /\ Woken(RecvAt)' = Woken(RecvAt) \ {t} /\ Woken(SendAt)' = Woken(SendAt) \ {t}
      /\ Woken(Suspends)' = Woken(Suspends) \ {t}
  <2>1. pc'[t] \notin RecvAt /\ pc'[t] \notin SendAt /\ pc'[t] \notin Suspends
    BY <1>2 DEF RecvAt, SendAt, Suspends
  <2> QED BY <1>2, <1>5, <2>1, OwnWoken
<1>7. k'.wait = k.wait
  BY <1>2 DEF Noted
<1>8. Ring'
  BY <1>1 DEF Inv, Ring, RingOK, Wrap, Slot
<1>9. Counts'
  <2>1. /\ t \in Woken(RecvAt) => l = "received" /\ k.err[t] = RT_EOK
        /\ t \in Woken(SendAt) => l = "sent" /\ k.err[t] = RT_EOK
    BY <1>2 DEF Woken, RecvAt, SendAt
  <2>2. \/ Woken(RecvAt)' = Woken(RecvAt)
        \/ mb.entry = 0
    BY <1>6, <2>1
  <2>3. \/ Woken(SendAt)' = Woken(SendAt)
        \/ mb.entry = Size
    BY <1>6, <2>1 DEF Full
  <2>4. Cardinality(Woken(RecvAt)') \in Nat /\ Cardinality(Woken(SendAt)') \in Nat
    BY <1>6, OneLess
  <2>5. Size \in Int /\ mb' = mb /\ life' = life
    BY <1>1, MailboxAssumption DEF obj
  <2>6. mb.entry = 0 => mb'.entry <= Cardinality(Woken(RecvAt)')
    BY <2>4, <2>5
  <2>7. mb.entry = Size => Size - mb'.entry <= Cardinality(Woken(SendAt)')
    BY <2>4, <2>5
  <2> QED BY <1>7, <2>2, <2>3, <2>5, <2>6, <2>7 DEF Inv, Counts
<1>10. Locals' /\ Closing'
  <2>1. /\ \A u \in Thread : pc'[u] = pc[u] \/ pc'[u] \in Idles
        /\ \A u \in Thread : mail'[u] = mail[u] \/ pc'[u] \in Idles
        /\ mail' \in [Thread -> Msg \cup {NoMsg}] /\ time' \in [Thread -> Time]
    BY <1>1, <1>2, LeaveOK DEF Moves, Inv, Idles
  <2>2. got' \in [Thread -> Msg \cup {NoMsg}] /\ Locals /\ Closing
    BY <1>1 DEF Inv, Locals
  <2>3. Releases /\ life' = life /\ asleep' \subseteq asleep
    BY <1>1, <1>6, <1>7 DEF Releases, obj
  <2> QED BY <2>1, <2>2, <2>3, ServeRest
<1> QED BY <1>2, <1>4, <1>8, <1>9, <1>10 DEF Inv, Lists

-----------------------------------------------------------------------------
(* Reset, delete, thread switches and the tick. *)

LEMMA StillQuiet ==
  ASSUME Inv, NEW t \in Thread, NEW l, At(t, l), l \notin Suspends, k' = k,
         NEW m \in PC \ Suspends, Goto(t, m)
  PROVE  /\ Quiet /\ Moves(PC, t) /\ pc[t] = l /\ pc'[t] = m
         /\ pc[t] \in SendAt <=> pc'[t] \in SendAt
         /\ pc[t] \in RecvAt <=> pc'[t] \in RecvAt
<1>1. l \notin Leaving /\ IpcOK(PC, Suspends, Leaving) /\ Lists
  BY DEF Leaving, Suspends, RecvAt, SendAt, Inv, Lists
<1>2. /\ IpcOK(PC, Suspends, Leaving)' /\ Moves(PC, t) /\ Calm(k', k)
      /\ pc[t] = l /\ pc'[t] = m
  BY <1>1, StillStep DEF At
<1>3. /\ pc[t] \in SendAt <=> pc'[t] \in SendAt
      /\ pc[t] \in RecvAt <=> pc'[t] \in RecvAt
  BY <1>2 DEF Suspends
<1>4. Quiet
  BY <1>1, <1>2, <1>3, CalmQuiet
<1> QED BY <1>2, <1>3, <1>4

\* The same, when the delete makes progress.
LEMMA StillRest ==
  ASSUME Inv, NEW t \in Thread, NEW l, At(t, l), l \notin Suspends, k' = k,
         NEW m \in PC \ Suspends, Goto(t, m), UNCHANGED <<mb, locals>>,
         life' \in {life, "closing", "gone"}, asleep' \subseteq Thread
  PROVE  Lists' /\ Ring' /\ Locals' /\ Counts'
<1>1. /\ Quiet /\ Moves(PC, t) /\ pc[t] = l /\ pc'[t] = m
      /\ pc[t] \in SendAt <=> pc'[t] \in SendAt
      /\ pc[t] \in RecvAt <=> pc'[t] \in RecvAt
  BY StillQuiet
<1>2. Ring' /\ Lists'
  BY <1>1 DEF Inv, Ring, RingOK, Quiet
<1>3. Locals'
  <2>1. \A u \in Thread : pc'[u] \in SendAt => pc[u] \in SendAt
    BY <1>1 DEF Moves
  <2>2. pc'[Idle] \notin Suspends
    BY <1>1, KernelAssumption DEF Inv, Locals, Moves, Suspends
  <2> QED BY <2>1, <2>2 DEF Inv, Locals, locals
<1>4. Counts'
  BY <1>1 DEF Inv, Counts, Quiet, BoxList
<1> QED BY <1>2, <1>3, <1>4

LEMMA DeleteCallInv == ASSUME Inv, NEW t \in Thread, DeleteCall(t) PROVE Inv'
<1>1. /\ At(t, "run") /\ k' = k /\ Goto(t, "closing") /\ UNCHANGED <<mb, locals>>
      /\ life = "live" /\ life' = "closing"
      /\ asleep' = Nodes(k.wait[RecvList]) \cup Nodes(k.wait[SendList])
  BY DEF DeleteCall, Enter
<1>2. "run" \notin Suspends /\ "closing" \in PC \ Suspends /\ "closing" \notin Ending
  BY DEF Suspends, RecvAt, SendAt, PC, Ending
<1>3. \A u \in asleep' : u \in Thread /\ k.stat[u] = "SUSPEND"
  BY <1>1, BoxLists DEF Inv, Lists, Blocking
<1>4. Lists' /\ Ring' /\ Locals' /\ Counts'
  <2>1. asleep' \subseteq Thread /\ life' \in {life, "closing", "gone"}
    BY <1>1, <1>3
  <2> QED BY <1>1, <1>2, <2>1, StillRest
<1>5. Quiet /\ Moves(PC, t) /\ pc[t] = "run" /\ pc'[t] = "closing"
  BY <1>1, <1>2, StillQuiet
<1>6. Closing'
  <2>1. \A u \in asleep' : u \notin Woken(Suspends)'
    BY <1>1, <1>3 DEF Woken
  <2>2. \A u \in Thread : pc'[u] \notin Ending
    BY <1>1, <1>2, <1>5 DEF Moves, Inv, Closing, Ending, Deleter
  <2> QED BY <1>1, <2>1, <2>2 DEF Closing
<1> QED BY <1>4, <1>6 DEF Inv

LEMMA DeleteReceiversInv == ASSUME Inv, NEW t \in Thread, DeleteReceivers(t) PROVE Inv'
<1> DEFINE m == IF k.wait[RecvList] # <<>> THEN "closing_do" ELSE "ending"
<1>1. At(t, "closing") /\ k' = k /\ Goto(t, m) /\ UNCHANGED <<mb, locals, obj>>
  BY DEF DeleteReceivers
<1>2. "closing" \notin Suspends /\ m \in PC \ Suspends /\ m \in Deleter
      /\ "closing" \in Deleter
  BY DEF Suspends, RecvAt, SendAt, PC, Deleter
<1>3. m \in Ending => k.wait[RecvList] = <<>>
  BY DEF Ending
<1> HIDE DEF m
<1>4. Lists' /\ Ring' /\ Locals' /\ Counts'
  <2>1. asleep' \subseteq Thread /\ life' \in {life, "closing", "gone"}
    BY <1>1 DEF obj, Inv, Locals
  <2>2. UNCHANGED <<mb, locals>>
    BY <1>1
  <2> QED BY <1>1, <1>2, <2>1, <2>2, StillRest
<1>5. Quiet /\ Moves(PC, t) /\ pc[t] = "closing" /\ pc'[t] = m
  BY <1>1, <1>2, StillQuiet
<1>6. Closing'
  <2>1. life' = life /\ asleep' = asleep /\ life # "live" /\ Woken(Suspends)' = Woken(Suspends)
    BY <1>1, <1>2, <1>5, WokenBoth DEF obj, Inv, Closing, Quiet
  <2>2. ASSUME NEW u \in Thread, pc'[u] \in Ending
        PROVE  \A v \in asleep' : v \notin Nodes(k'.wait[RecvList])
    <3>1. CASE u = t
      BY <1>1, <1>3, <1>5, <2>2, <3>1 DEF Nodes
    <3>2. CASE u # t
      BY <1>1, <1>5, <2>1, <2>2, <3>2 DEF Moves, Inv, Closing
    <3> QED BY <3>1, <3>2
  <2>3. life' = "gone" => \A v \in asleep' : \A q \in BoxList : v \notin Nodes(k'.wait[q])
    BY <1>1, <2>1 DEF Inv, Closing
  <2> QED BY <1>5, <2>1, <2>2, <2>3 DEF Inv, Closing, BoxList
<1> QED BY <1>4, <1>6 DEF Inv

LEMMA DeleteSendersInv == ASSUME Inv, NEW t \in Thread, DeleteSenders(t) PROVE Inv'
<1> DEFINE m == IF k.wait[SendList] # <<>> THEN "ending_do" ELSE "run"
<1>1. /\ At(t, "ending") /\ k' = k /\ Goto(t, m) /\ UNCHANGED <<mb, locals>>
      /\ asleep' = asleep
      /\ \/ m = "ending_do" /\ life' = life
         \/ m = "run" /\ life' = "gone" /\ k.wait[SendList] = <<>>
  BY DEF DeleteSenders
<1>2. "ending" \notin Suspends /\ m \in PC \ Suspends /\ "ending" \in Ending
      /\ "ending" \in Deleter
  BY DEF Suspends, RecvAt, SendAt, PC, Deleter, Ending
<1> HIDE DEF m
<1>3. Lists' /\ Ring' /\ Locals' /\ Counts'
  <2>1. asleep' \subseteq Thread /\ life' \in {life, "closing", "gone"}
    BY <1>1 DEF Inv, Locals
  <2> QED BY <1>1, <1>2, <2>1, StillRest
<1>4. Quiet /\ Moves(PC, t) /\ pc[t] = "ending" /\ pc'[t] = m
  BY <1>1, <1>2, StillQuiet
<1>5. Closing'
  <2>1. /\ life # "live" /\ life' # "live" /\ Woken(Suspends)' = Woken(Suspends)
        /\ \A v \in asleep' : v \notin Nodes(k'.wait[RecvList])
    BY <1>1, <1>2, <1>4, WokenBoth DEF Inv, Closing, Quiet
  <2>2. life' = "gone" => \A v \in asleep' : \A q \in BoxList : v \notin Nodes(k'.wait[q])
    <3>1. CASE life' = life
      BY <1>1, <3>1 DEF Inv, Closing
    <3>2. CASE k.wait[SendList] = <<>>
      BY <1>1, <2>1, <3>2 DEF Nodes, BoxList
    <3> QED BY <1>1, <3>1, <3>2
  <2> QED BY <1>1, <2>1, <2>2 DEF Inv, Closing, BoxList
<1> QED BY <1>3, <1>5 DEF Inv

LEMMA DeleteTurnInv == ASSUME Inv, NEW t \in Thread, DeleteTurn(t) PROVE Inv'
<1>1. ASSUME NEW q \in BoxList, NEW l \in Deleter, NEW m \in Deleter \cap PC,
             ResumeAllTurn(t, q, l, m), m \in Ending => l \in Ending
      PROVE  Inv'
  <2>1. /\ IpcOK(PC, Suspends, Leaving) /\ q \in WaitList \ {Defunct} /\ l \notin Leaving
        /\ "crashed" \in PC /\ "crashed" \notin Deleter /\ Lists /\ Ending \subseteq Deleter
    BY BoxLists DEF Inv, BoxList, Leaving, Deleter, Ending, PC
  <2>2. /\ IpcOK(PC, Suspends, Leaving)' /\ Moves(PC, t) /\ pc[t] = l
        /\ \/ /\ Roused(k', k, Head(k.wait[q]), RT_ERROR) /\ pc'[t] = m
              /\ Head(k.wait[q]) \in Thread /\ k.stat[Head(k.wait[q])] = "SUSPEND"
           \/ Calm(k', k) /\ pc'[t] = "crashed"
    BY <1>1, <2>1, ResumeAllStep
  <2>3. pc[t] \in RecvAt <=> pc'[t] \in RecvAt
    BY <2>2 DEF RecvAt, Deleter
  <2>4. pc[t] \in SendAt <=> pc'[t] \in SendAt
    BY <2>2 DEF SendAt, Deleter
  <2>5. Quiet
    <3>1. CASE Calm(k', k)
      BY <2>1, <2>2, <2>3, <2>4, <3>1, CalmQuiet
    <3>2. CASE /\ Roused(k', k, Head(k.wait[q]), RT_ERROR)
               /\ Head(k.wait[q]) \in Thread /\ k.stat[Head(k.wait[q])] = "SUSPEND"
      <4>1. RT_ERROR # RT_EOK
        BY DEF RT_ERROR, RT_EOK
      <4> QED BY <2>1, <2>2, <2>3, <2>4, <3>2, <4>1, FailedQuiet
    <3> QED BY <2>2, <3>1, <3>2
  <2>6. UNCHANGED <<mb, locals, obj>>
    BY DEF DeleteTurn
  <2>7. (pc'[t] \in Deleter => pc[t] \in Deleter) /\ (pc'[t] \in Ending => pc[t] \in Ending)
    BY <1>1, <2>1, <2>2
  <2> QED BY <2>2, <2>3, <2>4, <2>5, <2>6, <2>7, QuietInv
<1>2. /\ RecvList \in BoxList /\ SendList \in BoxList
      /\ {"closing_do", "ending_do"} \subseteq Deleter
      /\ "closing" \in Deleter \cap PC /\ "ending" \in Deleter \cap PC
      /\ "ending_do" \in Ending /\ "closing" \notin Ending
  BY DEF BoxList, Deleter, PC, Ending
<1> QED BY <1>1, <1>2 DEF DeleteTurn

LEMMA ResetInv ==
  ASSUME Inv, NEW t \in Thread, ResetCall(t) \/ ResetThread(t) \/ ResetEnd(t)
  PROVE  Inv'
<1>0. /\ "run" \notin Suspends /\ "reset" \notin Suspends /\ "reset" \notin Leaving
      /\ {"reset", "sched"} \subseteq PC \ Suspends
      /\ {"reset", "sched"} \cap (Deleter \cup Ending) = {}
  BY DEF Suspends, RecvAt, SendAt, PC, Deleter, Ending, Leaving
<1>1. CASE ResetCall(t)
  <2>1. At(t, "run") /\ k' = k /\ Goto(t, "reset") /\ UNCHANGED <<mb, locals, obj>>
    BY <1>1 DEF ResetCall, Enter
  <2>2. /\ Quiet /\ Moves(PC, t) /\ pc'[t] = "reset"
        /\ pc[t] \in SendAt <=> pc'[t] \in SendAt
        /\ pc[t] \in RecvAt <=> pc'[t] \in RecvAt
    BY <1>0, <2>1, StillQuiet
  <2>3. pc'[t] \notin Deleter /\ pc'[t] \notin Ending
    BY <1>0, <2>2
  <2> QED BY <2>1, <2>2, <2>3, QuietInv
<1>2. CASE ResetThread(t)
  <2> DEFINE q == Waiting
             u == Head(k.wait[q])
  <2>1. /\ At(t, "reset") /\ k.wait[q] # <<>> /\ k' = rt_ipc_list_resume_error(k, q)
        /\ pc' = pc /\ UNCHANGED <<mb, locals, obj>> /\ Lists
    BY <1>2 DEF ResetThread, Inv
  <2>2. q \in WaitList \ {Defunct} /\ Sound(k) /\ IpcOK(PC, Suspends, Leaving)
    BY <2>1, BoxLists DEF Waiting
  <2> HIDE DEF q
  <2>3. u \in Thread /\ k.stat[u] = "SUSPEND"
    BY <2>1, <2>2, HeadSuspended
  <2>4. Sound(k') /\ k'.cur = k.cur /\ Roused(k', k, u, RT_ERROR)
    BY <2>1, <2>2, ListResumeErrorRouses
  <2> HIDE DEF u
  <2>5. Goto(t, "reset") /\ "reset" \in PC
    BY <1>0, <2>1, <2>2 DEF Goto, At, IpcOK
  <2>6. IpcOK(PC, Suspends, Leaving)' /\ Moves(PC, t)
    BY <1>0, <2>1, <2>2, <2>3, <2>4, <2>5, RouseStep
  <2>7. RT_ERROR # RT_EOK
    BY DEF RT_ERROR, RT_EOK
  <2>8. Quiet
    BY <2>1, <2>3, <2>4, <2>6, <2>7, FailedQuiet
  <2> QED BY <2>1, <2>6, <2>8, QuietInv
<1>3. CASE ResetEnd(t)
  <2>1. /\ At(t, "reset") /\ k.wait[Waiting] = <<>> /\ mb' = [FreshBox EXCEPT !.pool = mb.pool]
        /\ Goto(t, "sched") /\ k' = k /\ UNCHANGED <<locals, obj>>
    BY <1>3 DEF ResetEnd
  <2>2. k.wait[RecvList] = <<>> /\ k.wait[SendList] = <<>>
    BY <2>1 DEF Waiting
  <2>3. /\ Quiet /\ Moves(PC, t) /\ pc'[t] = "sched"
        /\ pc[t] \in SendAt <=> pc'[t] \in SendAt
        /\ pc[t] \in RecvAt <=> pc'[t] \in RecvAt
    BY <1>0, <2>1, StillQuiet
  <2>4. Ring'
    <3>1. mb.pool \in [Slot -> Msg \cup {NoMsg}]
      BY DEF Inv, Ring, RingOK
    <3>2. RingOK(mb')
      BY <2>1, <3>1, FreshRing
    <3> QED BY <3>2 DEF Ring, RingOK, Wrap, Slot
  <2>5. Counts'
    BY <2>1, <2>2 DEF Counts
  <2>6. Locals' /\ Closing'
    <3>1. \A u \in Thread : pc'[u] = pc[u] \/ pc'[u] \in Idles
      BY <2>3 DEF Moves, Idles
    <3>2. /\ life' = life /\ asleep' \subseteq asleep /\ mail' = mail
          /\ mail' \in [Thread -> Msg \cup {NoMsg}] /\ time' \in [Thread -> Time]
          /\ got' \in [Thread -> Msg \cup {NoMsg}] /\ Locals /\ Closing
      BY <2>1 DEF Inv, Locals, locals, obj
    <3>3. Releases
      BY <2>1, <2>3, WokenBoth DEF Releases, Quiet
    <3> QED BY <3>1, <3>2, <3>3, ServeRest
  <2> QED BY <2>3, <2>4, <2>5, <2>6 DEF Inv, Quiet
<1> QED BY <1>1, <1>2, <1>3

LEMMA SwitchInv ==
  ASSUME Inv, NEW t \in Thread, UNCHANGED <<mb, locals, obj>>,
         \/ Schedule(t, "receiving", "received") \/ Schedule(t, "sending", "sent")
         \/ Schedule(t, "sched", "run")
  PROVE  Inv'
<1>1. /\ IpcOK(PC, Suspends, Leaving)' /\ Moves(PC, t) /\ Calm(k', k)
      /\ pc'[t] \in {"received", "sent", "run"}
      /\ pc[t] \in RecvAt <=> pc'[t] \in RecvAt
  BY ScheduleStep DEF Inv, Lists, PC, Suspends, Leaving, RecvAt, SendAt
<1>2. pc[t] \in SendAt <=> pc'[t] \in SendAt
  BY ScheduleStep DEF Inv, Lists, PC, Suspends, Leaving, RecvAt, SendAt
<1>3. Quiet
  BY <1>1, <1>2, CalmQuiet DEF Inv
<1>4. pc'[t] \notin Deleter /\ pc'[t] \notin Ending
  BY <1>1 DEF Deleter, Ending
<1> QED BY <1>1, <1>2, <1>3, <1>4, QuietInv

LEMMA TickInv ==
  ASSUME Inv, UNCHANGED <<mb, locals, obj>>, TickSlice \/ \E t \in Thread : TickTimeout(t)
  PROVE  Inv'
<1>1. CASE TickSlice
  <2>1. /\ IpcOK(PC, Suspends, Leaving)' /\ k.cur \in Thread /\ Moves(PC, k.cur)
        /\ Calm(k', k) /\ pc' = pc
    BY <1>1, SliceStep DEF Inv, Lists
  <2>2. Quiet
    BY <2>1, CalmQuiet DEF Inv
  <2> QED BY <2>1, <2>2, QuietInv
<1>2. ASSUME NEW t \in Thread, TickTimeout(t) PROVE Inv'
  <2>1. /\ IpcOK(PC, Suspends, Leaving)' /\ Moves(PC, t) /\ Roused(k', k, t, RT_ETIMEOUT)
        /\ k.stat[t] = "SUSPEND" /\ pc' = pc
    BY <1>2, TimeoutStep DEF Inv, Lists
  <2>2. RT_ETIMEOUT # RT_EOK
    BY DEF RT_ETIMEOUT, RT_EOK
  <2>3. Quiet
    BY <2>1, <2>2, FailedQuiet DEF Inv
  <2> QED BY <2>1, <2>3, QuietInv
<1> QED BY <1>1, <1>2

LEMMA StutterInv == Inv /\ UNCHANGED vars => Inv'
<1> SUFFICES ASSUME Inv, UNCHANGED vars PROVE Inv'
  OBVIOUS
<1>1. /\ k' = k /\ pc' = pc /\ UNCHANGED <<mb, locals, obj>>
      /\ mb' = mb /\ life' = life /\ asleep' = asleep
      /\ mail' = mail /\ time' = time /\ got' = got
  BY DEF vars, locals, obj
<1>2. Woken(RecvAt)' = Woken(RecvAt) /\ Woken(SendAt)' = Woken(SendAt)
      /\ Woken(Suspends)' = Woken(Suspends)
  BY <1>1 DEF Woken
<1>3. Lists' /\ Ring'
  BY <1>1 DEF Inv, Lists, IpcOK, Blocking, Ring, RingOK
<1>4. Locals' /\ Counts'
  BY <1>1, <1>2 DEF Inv, Locals, Counts
<1>5. Closing'
  BY <1>1, <1>2 DEF Inv, Closing, BoxList
<1> QED BY <1>3, <1>4, <1>5 DEF Inv

LEMMA InitInv == Init => Inv
<1> SUFFICES ASSUME Init PROVE Inv
  OBVIOUS
<1>1. /\ "run" \in PC /\ "run" \notin RecvAt /\ "run" \notin SendAt /\ "run" \notin Suspends
      /\ "run" \notin Deleter /\ "run" \notin Ending
      /\ RecvList \in WaitList /\ SendList \in WaitList /\ IpcInit
  BY MailboxAssumption DEF PC, RecvAt, SendAt, Suspends, Deleter, Ending, Init
<1>2. /\ IpcOK(PC, Suspends, Leaving)
      /\ k.wait[RecvList] = <<>> /\ k.wait[SendList] = <<>>
      /\ Blocking(RecvList, RecvAt) /\ Blocking(SendList, SendAt)
  BY <1>1, IpcStart
<1>3. Ring
  <2>1. [i \in Slot |-> NoMsg] \in [Slot -> Msg \cup {NoMsg}]
    OBVIOUS
  <2>2. FreshBox = [FreshBox EXCEPT !.pool = [i \in Slot |-> NoMsg]]
    BY DEF FreshBox
  <2> QED BY <2>1, <2>2, FreshRing DEF Init, Ring
<1>4. pc = [t \in Thread |-> "run"] /\ life = "live" /\ asleep = {}
  BY DEF Init, IpcInit
<1>5. Locals
  BY <1>1, <1>4, KernelAssumption DEF Init, Locals, Time
<1>6. Counts /\ Closing
  BY <1>1, <1>2, <1>4 DEF Counts, Closing
<1> QED BY <1>2, <1>3, <1>5, <1>6 DEF Inv, Lists

LEMMA NextInv == Inv /\ Next => Inv'
<1> SUFFICES ASSUME Inv, Next PROVE Inv'
  OBVIOUS
<1>0. Times \subseteq Time /\ Idle \notin Senders /\ Idle \notin Receivers /\ IsrMsg \subseteq Msg
  BY MailboxAssumption
<1>1. ASSUME NEW t \in Thread, Step(t) PROVE Inv'
  <2>1. ASSUME NEW m \in Msg, SendCall(t, m) PROVE Inv'
    <3>1. t \in Senders /\ life = "live" /\ t # Idle
      BY <1>0, <2>1 DEF SendCall, Enter
    <3>2. ASSUME NEW tm \in Times, SendWait(t, "run", m, tm) PROVE Inv'
      BY <1>0, <3>1, <3>2, SendWaitInv
    <3>3. CASE SendPut(t, "run", m)
      BY <3>3, SendPutInv
    <3> QED BY <2>1, <3>2, <3>3 DEF SendCall
  <2>2. ASSUME NEW m \in Msg, rt_mb_urgent(t, m) PROVE Inv'
    BY <2>2, UrgentInv
  <2>3. CASE SendFull(t) \/ RecvTry(t)
    BY <2>3, StutterInv DEF SendFull, RecvTry
  <2>4. CASE RecvCall(t)
    <3>1. t \in Receivers /\ life = "live" /\ t # Idle
      BY <1>0, <2>4 DEF RecvCall, Enter
    <3>2. ASSUME NEW tm \in Times, RecvWait(t, "run", tm) PROVE Inv'
      BY <1>0, <3>1, <3>2, RecvWaitInv
    <3>3. CASE RecvGet(t, "run")
      BY <3>3, RecvGetInv
    <3> QED BY <2>4, <3>2, <3>3 DEF RecvCall
  <2>5. CASE SendWoken(t)
    <3>1. /\ At(t, "sent") /\ pc[t] = "sent" /\ t # Idle /\ mail[t] \in Msg /\ time[t] \in Time
          /\ k.err[t] \in ErrNo /\ RT_EOK \in ErrNo
      BY <2>5, BoxLists DEF SendWoken, At, Inv, Locals, Suspends, SendAt, KernelState, ErrNo
    <3>2. CASE k.err[t] # RT_EOK /\ Fail(t, k.err[t])
      BY <3>1, <3>2, FailInv
    <3>3. CASE k.err[t] = RT_EOK /\ SendPut(t, "sent", mail[t])
      BY <3>1, <3>3, SendPutInv
    <3>4. CASE k.err[t] = RT_EOK /\ SendWait(t, "sent", mail[t], time[t])
      BY <3>1, <3>4, SendWaitInv
    <3>5. CASE k.err[t] = RT_EOK /\ Full /\ time[t] = "TICKS" /\ Fail(t, RT_EOK)
      BY <3>1, <3>5, FailInv
    <3> QED BY <2>5, <3>2, <3>3, <3>4, <3>5 DEF SendWoken
  <2>6. CASE RecvWoken(t)
    <3>1. /\ At(t, "received") /\ pc[t] = "received" /\ t # Idle /\ time[t] \in Time
          /\ k.err[t] \in ErrNo /\ RT_ETIMEOUT \in ErrNo
      BY <2>6, BoxLists DEF RecvWoken, At, Inv, Locals, Suspends, RecvAt, KernelState, ErrNo
    <3>2. CASE k.err[t] # RT_EOK /\ Fail(t, k.err[t])
      BY <3>1, <3>2, FailInv
    <3>3. CASE k.err[t] = RT_EOK /\ RecvGet(t, "received")
      BY <3>1, <3>3, RecvGetInv
    <3>4. CASE k.err[t] = RT_EOK /\ RecvWait(t, "received", time[t])
      BY <3>1, <3>4, RecvWaitInv
    <3>5. CASE k.err[t] = RT_EOK /\ mb.entry = 0 /\ Fail(t, RT_ETIMEOUT)
      BY <3>1, <3>5, FailInv
    <3> QED BY <2>6, <3>2, <3>3, <3>4, <3>5 DEF RecvWoken
  <2>7. CASE DeleteReceivers(t) \/ DeleteSenders(t) \/ DeleteTurn(t) \/ DeleteCall(t)
    BY <2>7, DeleteReceiversInv, DeleteSendersInv, DeleteTurnInv, DeleteCallInv
  <2> QED BY <1>1, <2>1, <2>2, <2>3, <2>4, <2>5, <2>6, <2>7, ResetInv, SwitchInv
          DEF Step, InCall
<1>2. ASSUME NEW m \in IsrMsg, IsrSend(m) PROVE Inv'
  BY <1>0, <1>2, IsrSendInv
<1> QED BY <1>1, <1>2, TickInv DEF Next

\* The inductive invariant.
THEOREM Invariance == Spec => []Inv
<1>1. Init => Inv
  BY InitInv
<1>2. Inv /\ [Next]_vars => Inv'
  BY NextInv, StutterInv
<1> QED BY <1>1, <1>2, PTL DEF Spec

\* rt_mb_send, rt_mb_recv: a receiver sleeps only if every mail has a receiver that
\* was woken for it, a sender only if every free slot has one.
THEOREM WakeupCorrect == Spec => []NoLostWakeup
<1>1. Inv => NoLostWakeup
  <2> SUFFICES ASSUME Inv PROVE NoLostWakeup
    OBVIOUS
  <2>1. TypeOK
    BY BoxLists DEF Inv, Lists, IpcOK, Ring, RingOK, Locals, TypeOK
  <2> QED BY <2>1 DEF Inv, Counts, NoLostWakeup, RecvAt, SendAt
<1> QED BY <1>1, Invariance, PTL

\* rt_mb_delete, rt_mb_detach: whoever waited and was not served is awake at the end.
THEOREM DeleteCorrect == Spec => []DeleteWakesAll
<1>1. Inv => DeleteWakesAll
  BY DEF Inv, Closing, DeleteWakesAll, BoxList
<1> QED BY <1>1, Invariance, PTL

-----------------------------------------------------------------------------
(* The mailbox implements the bounded queue of module Channel. *)

\* What a step does to the ring and to what the receivers got.
Pushes(m)      == mb.entry # Size /\ mb' = Put(mb, m) /\ got' = got
PushesFront(m) == mb.entry # Size /\ mb' = PutUrgent(mb, m) /\ got' = got
Pops(t)        == /\ mb.entry > 0 /\ mb' = Get(mb)
                  /\ got' = [got EXCEPT ![t] = mb.pool[mb.out]]
Clears         == mb' = [FreshBox EXCEPT !.pool = mb.pool] /\ got' = got
Keeps          == mb' = mb /\ got' = got

LEMMA StepEffect ==
  ASSUME Inv, Next
  PROVE  \/ \E m \in Msg : Pushes(m) \/ PushesFront(m)
         \/ \E t \in Thread : Pops(t)
         \/ Clears \/ Keeps
<1>0. IsrMsg \subseteq Msg
  BY MailboxAssumption
<1>1. ASSUME NEW t \in Thread, NEW m, NEW l, SendPut(t, l, m) PROVE Pushes(m)
  BY <1>1 DEF SendPut, Full, Pushes
<1>2. ASSUME NEW t \in Thread, NEW m, NEW l, NEW tm, SendWait(t, l, m, tm) PROVE Keeps
  BY <1>2 DEF SendWait, Keeps
<1>3. ASSUME NEW t \in Thread, NEW l, RecvGet(t, l) PROVE Pops(t)
  BY <1>3 DEF RecvGet, Pops
<1>4. ASSUME NEW t \in Thread, NEW l, NEW tm, RecvWait(t, l, tm) PROVE Keeps
  BY <1>4 DEF RecvWait, Keeps
<1>5. ASSUME NEW t \in Thread, NEW m, rt_mb_urgent(t, m) PROVE PushesFront(m)
  BY <1>5 DEF rt_mb_urgent, Full, PushesFront, locals
<1>6. ASSUME NEW m, IsrSend(m) PROVE Pushes(m)
  BY <1>6 DEF IsrSend, Full, Pushes, locals
<1>7. ASSUME NEW t \in Thread, NEW e, Fail(t, e) PROVE Keeps
  BY <1>7 DEF Fail, Keeps
<1>8. ASSUME NEW t \in Thread, ResetEnd(t) PROVE Clears
  BY <1>8 DEF ResetEnd, Clears, locals
<1>9. ASSUME NEW t \in Thread,
             \/ SendFull(t) \/ RecvTry(t) \/ ResetCall(t) \/ DeleteCall(t) \/ ResetThread(t)
             \/ DeleteReceivers(t) \/ DeleteSenders(t) \/ DeleteTurn(t)
      PROVE  Keeps
  BY <1>9 DEF SendFull, RecvTry, ResetCall, DeleteCall, ResetThread, DeleteReceivers,
              DeleteSenders, DeleteTurn, vars, locals, Keeps
<1>10. UNCHANGED <<mb, locals, obj>> => Keeps
  BY DEF locals, Keeps
<1>11. ASSUME NEW t \in Thread, SendWoken(t)
       PROVE  (Pushes(mail[t]) /\ mail[t] \in Msg) \/ Keeps
  <2>1. mail[t] \in Msg
    BY <1>11 DEF SendWoken, At, Inv, Locals, SendAt
  <2> QED BY <1>1, <1>2, <1>7, <1>11, <2>1 DEF SendWoken
<1>12. ASSUME NEW t \in Thread, RecvWoken(t) PROVE Pops(t) \/ Keeps
  BY <1>3, <1>4, <1>7, <1>12 DEF RecvWoken
<1>13. ASSUME NEW t \in Thread, NEW m \in Msg, SendCall(t, m) PROVE Pushes(m) \/ Keeps
  BY <1>1, <1>2, <1>13 DEF SendCall
<1>14. ASSUME NEW t \in Thread, RecvCall(t) PROVE Pops(t) \/ Keeps
  BY <1>3, <1>4, <1>14 DEF RecvCall
<1>15. ASSUME NEW t \in Thread, InCall(t)
       PROVE  \/ \E m \in Msg : Pushes(m)
              \/ Pops(t) \/ Clears \/ Keeps
  BY <1>8, <1>9, <1>10, <1>11, <1>12, <1>15 DEF InCall
<1> HIDE DEF Pushes, PushesFront, Pops, Clears, Keeps
<1> QED BY <1>0, <1>5, <1>6, <1>9, <1>10, <1>13, <1>14, <1>15 DEF Next, Step

LEMMA ChannelInit == Init => C!Init
  BY DEF Init, FreshBox, C!Init

LEMMA ChannelStep == Inv /\ [Next]_vars => [C!Next]_C!vars
<1> SUFFICES ASSUME Inv, [Next]_vars PROVE [C!Next]_C!vars
  OBVIOUS
<1> DEFINE q == Queue(mb)
<1>0. /\ q = [i \in 1 .. mb.entry |-> mb.pool[(mb.out + i - 1) % Size]]
      /\ q' = [i \in 1 .. mb'.entry |-> mb'.pool[(mb'.out + i - 1) % Size]]
      /\ q' = Queue(mb')
  BY DEF Queue
<1>1. /\ RingOK(mb) /\ Len(q) = mb.entry /\ mb.entry \in 0 .. Size /\ Size \in Nat
  BY QueueAt, RingFields DEF Inv, Ring
<1>2. ASSUME NEW m \in Msg, Pushes(m) PROVE C!Next
  <2>1. mb' = Put(mb, m) /\ mb.entry # Size /\ got' = got
    BY <1>2 DEF Pushes
  <2>2. Queue(Put(mb, m)) = Append(Queue(mb), m)
    BY <1>1, <2>1, PutQueue
  <2>3. q' = Queue(mb')
    BY DEF Queue
  <2>4. q' = Append(q, m)
    BY <2>1, <2>2, <2>3
  <2>5. Len(q) < Size
    BY <1>1, <2>1
  <2> QED BY <1>0, <2>1, <2>4, <2>5 DEF C!Next, C!Push
<1>3. ASSUME NEW m \in Msg, PushesFront(m) PROVE C!Next
  <2>1. mb' = PutUrgent(mb, m) /\ mb.entry # Size /\ got' = got
    BY <1>3 DEF PushesFront
  <2>2. Queue(PutUrgent(mb, m)) = <<m>> \o Queue(mb)
    BY <1>1, <2>1, UrgentQueue
  <2>3. q' = Queue(mb')
    BY DEF Queue
  <2>4. q' = <<m>> \o q
    BY <2>1, <2>2, <2>3
  <2>5. Len(q) < Size
    BY <1>1, <2>1
  <2> QED BY <1>0, <2>1, <2>4, <2>5 DEF C!Next, C!PushFront
<1>4. ASSUME NEW t \in Thread, Pops(t) PROVE C!Next
  <2>1. q # <<>> /\ q' = Tail(q) /\ got' = [got EXCEPT ![t] = Head(q)]
    BY <1>0, <1>1, <1>4, GetQueue DEF Pops
  <2> QED BY <1>0, <2>1 DEF C!Next, C!Pop
<1>5. CASE Clears
  <2>1. mb'.entry = 0 /\ got' = got
    BY <1>5 DEF Clears, FreshBox
  <2>2. q' = <<>>
    BY <1>0, <2>1
  <2> QED BY <1>0, <2>1, <2>2 DEF C!Next, C!Clear
<1>6. CASE Keeps
  BY <1>6 DEF Keeps, C!vars
<1>7. CASE UNCHANGED vars
  BY <1>7 DEF vars, locals, C!vars
<1> QED BY <1>2, <1>3, <1>4, <1>5, <1>6, <1>7, StepEffect

\* No mail is lost, repeated, reordered or overwritten: the ring with its offsets
\* behaves as a bounded queue whatever sends, urgent sends and receives interleave.
THEOREM Refinement == Spec => IsChannel
<1>1. Init => C!Init
  BY ChannelInit
<1>2. Inv /\ [Next]_vars => [C!Next]_C!vars
  BY ChannelStep
<1> QED BY <1>1, <1>2, Invariance, PTL DEF Spec, IsChannel, C!Spec

-----------------------------------------------------------------------------
(*****************************************************************************)
(* The pipe and its ring buffer. The invariant says who has the pipe open    *)
(* and who of them is still counted, so that the buffer exists while anybody *)
(* can reach it, and which byte each cell of the buffer holds; the index     *)
(* arithmetic with its mirror bits is that of cells in a circle (Cell).      *)
(*****************************************************************************)

\* Control points: before the pipe is open for a caller, once it is counted off, once
\* it has closed, of those who may be suspended and those who have suspended themselves.
Opening == {"o_take", "o_taking", "o_count"}
Off == {"c_hup", "c_hups", "c_err", "c_fin", "c_fins", "c_ref"}
Closed == {"c_out", "c_outs", "c_last", "c_del", "crashed"}
Working == {"o_out", "o_outs", "c_take", "c_taking", "c_count",
            "r_take", "r_taking", "r_look", "r_rel", "r_rels", "r_poke", "r_pokes", "r_wait",
            "r_sleep", "r_woken", "r_wake", "r_wakes", "r_out", "r_outs",
            "w_take", "w_taking", "w_look", "w_rel", "w_rels", "w_poke", "w_pokes", "w_wait",
            "w_sleep", "w_woken", "w_out", "w_outs", "w_tell", "w_wake", "w_wakes"}
PipePC == {"run"} \cup Opening \cup Off \cup Closed \cup Working
PipeLeaving == {"o_taking", "c_taking", "r_taking", "w_taking", "r_sleep", "w_sleep"}
PipeSuspends == PipeLeaving \cup {"o_count", "c_count", "r_look", "w_look", "r_woken", "w_woken"}

PipeUsers == Readers \cup Writers
PipeNodes == {WaitNode(t) : t \in PipeUsers}
PipeQueue == [flag : BOOLEAN, nodes : Seq(PipeNodes)]

\* Only users of the pipe are inside a call.
PipeLists ==
  /\ IpcOK(PipePC, PipeSuspends, PipeLeaving)
  /\ \A t \in Thread : pc[t] # "run" => t \in PipeUsers

PipeObjects ==
  /\ lock \in [owner : (Thread \ {Idle}) \cup {RT_NULL}, orig : Prio]
  /\ queue \in [{"rd", "wr"} -> PipeQueue]

\* Who has the pipe open, and who of them is still counted.
Attached(S) == {t \in open \cap S : pc[t] \notin Off}
EndsOK ==
  /\ open \subseteq PipeUsers /\ named \in BOOLEAN
  /\ \A t \in Thread : /\ pc[t] \in Opening \cup Closed => t \notin open
                       /\ pc[t] \in Working \cup Off => t \in open
                       /\ pc[t] \in Opening => named
                       /\ pc[t] = "c_del" => ~named /\ open = {}
  /\ readers = Cardinality(Attached(Readers)) /\ writers = Cardinality(Attached(Writers))
  /\ \/ ref = Cardinality(open)
     \/ ref = -1 /\ open = {} /\ ~named

\* The ring buffer's indices and mirrors, and its bytes from number g on.
RingType == [r : Index, rm : {0, 1}, w : Index, wm : {0, 1}, buf : [Index -> Int]]
RingLen(rb) == IF rb.rm = rb.wm THEN rb.w - rb.r ELSE BufSize - rb.r + rb.w
FifoOK(rb) == rb \in RingType /\ (IF rb.rm = rb.wm THEN rb.r <= rb.w ELSE rb.w <= rb.r)
Cell(i, d) == IF i + d < BufSize THEN i + d ELSE i + d - BufSize
Number(n) == n % Numbers
RingHolds(rb, g, s) ==
  /\ FifoOK(rb) /\ s = Number(g + RingLen(rb))
  /\ \A i \in 0 .. (RingLen(rb) - 1) : rb.buf[Cell(rb.r, i)] = Number(g + i)

BytesOK ==
  /\ left \in [Thread -> Nat] /\ sent \in 0 .. (Numbers - 1) /\ fetched \in 0 .. (Numbers - 1)
  /\ open = {} => sent = 0 /\ fetched = 0
  /\ open # {} => RingHolds(fifo, fetched, sent)

PipeInvariant == PipeLists /\ PipeObjects /\ EndsOK /\ BytesOK

-----------------------------------------------------------------------------
(* The kernel, the mutex and the wait queues under the calls of a pipe. *)

LEMMA PipeFacts ==
  /\ PipeUsers \subseteq Thread \ {Idle} /\ PipeUsers \subseteq Thread
  /\ LockList \in WaitList \ {Defunct} /\ LockList \in WaitList /\ RT_NULL \notin Thread
  /\ PipeLeaving \subseteq PipeSuspends /\ PipeSuspends \subseteq PipePC
BY PipeAssumption, LockAssumption DEF PipeUsers, PipeLeaving, PipeSuspends, PipePC, Opening,
   Working

LEMMA PipeKernel ==
  ASSUME PipeLists
  PROVE  /\ IpcOK(PipePC, PipeSuspends, PipeLeaving) /\ Sound(k) /\ k \in KernelState
         /\ k.cur \in Thread /\ pc \in [Thread -> PipePC]
         /\ k.stat \in [Thread -> Stat] /\ k.prio \in [Thread -> Prio]
<1>1. IpcOK(PipePC, PipeSuspends, PipeLeaving) /\ Sound(k) /\ pc \in [Thread -> PipePC]
  BY DEF PipeLists, IpcOK
<1>2. k.cur \in Thread /\ k \in KernelState
  BY <1>1, CurThread
<1>3. k.stat \in [Thread -> Stat] /\ k.prio \in [Thread -> Prio]
  BY <1>2 DEF KernelState
<1> QED BY <1>1, <1>2, <1>3

LEMMA PipeUsersKept ==
  ASSUME PipeLists, NEW t \in Thread, Moves(PipePC, t), pc'[t] # "run" => t \in PipeUsers,
         IpcOK(PipePC, PipeSuspends, PipeLeaving)'
  PROVE  PipeLists'
BY DEF PipeLists, Moves

LEMMA PipeRunner ==
  ASSUME PipeLists, NEW t, NEW l, At(t, l), l \notin PipeLeaving
  PROVE  /\ t \in Thread /\ k.cur = t /\ k.stat[t] = "READY" /\ pc[t] = l
         /\ l # "run" => t \in PipeUsers /\ t \in Thread \ {Idle}
<1>1. t \in Thread /\ k.cur = t /\ k.stat[t] = "READY" /\ pc[t] = l
  BY PipeKernel, RunnerReady
<1> QED BY <1>1, PipeFacts DEF PipeLists

\* A step of t that leaves the kernel alone.
LEMMA PipeStill ==
  ASSUME PipeLists, NEW t, NEW l, At(t, l), l \notin PipeLeaving, k' = k,
         NEW m \in PipePC, Goto(t, m), l # "run" \/ t \in PipeUsers
  PROVE  /\ PipeLists' /\ Moves(PipePC, t) /\ t \in Thread /\ t \in PipeUsers
         /\ pc[t] = l /\ pc'[t] = m
<1>1. t \in Thread /\ t \in PipeUsers /\ pc[t] = l
  BY PipeRunner
<1>2. IpcOK(PipePC, PipeSuspends, PipeLeaving)' /\ Moves(PipePC, t) /\ pc'[t] = m
  BY PipeKernel, StillStep
<1> QED BY <1>1, <1>2, PipeUsersKept

\* rt_schedule().
LEMMA PipeSwitch ==
  ASSUME PipeLists, NEW t, NEW l, NEW m \in PipePC, Schedule(t, l, m), l # "run",
         l \in PipeLeaving => m \in PipeSuspends
  PROVE  /\ PipeLists' /\ Moves(PipePC, t) /\ t \in Thread /\ t \in PipeUsers
         /\ pc[t] = l /\ pc'[t] = m
<1>1. /\ IpcOK(PipePC, PipeSuspends, PipeLeaving)' /\ t \in Thread /\ Moves(PipePC, t)
      /\ pc[t] = l /\ pc'[t] = m
  BY PipeKernel, ScheduleStep
<1>2. t \in PipeUsers
  BY <1>1 DEF PipeLists
<1> QED BY <1>1, <1>2, PipeUsersKept

LEMMA PipeSlice ==
  ASSUME PipeLists, TickSlice
  PROVE  PipeLists' /\ pc' = pc
<1>1. IpcOK(PipePC, PipeSuspends, PipeLeaving)' /\ pc' = pc
  BY PipeKernel, SliceStep
<1> QED BY <1>1 DEF PipeLists

\* t notes an error number, or the priorities of others change.
LEMMA PipeSteady ==
  ASSUME PipeLists, NEW t, NEW l, At(t, l), l \notin PipeLeaving, l # "run",
         NEW m \in PipePC, Goto(t, m), Sound(k'),
         Reranked(k', k) \/ \E e \in ErrNo : Noted(k', k, t, e)
  PROVE  /\ PipeLists' /\ Moves(PipePC, t) /\ t \in Thread /\ t \in PipeUsers
         /\ pc[t] = l /\ pc'[t] = m
<1>1. t \in Thread /\ t \in PipeUsers /\ pc[t] = l
  BY PipeRunner
<1>2. Moves(PipePC, t) /\ pc'[t] = m
  BY <1>1, PipeKernel, GotoMoves
<1>3. k'.stat = k.stat /\ k'.cur = k.cur
  BY DEF Reranked, Noted
<1>4. IpcOK(PipePC, PipeSuspends, PipeLeaving)'
  BY <1>1, <1>2, <1>3, PipeKernel, SteadyKeeps
<1> QED BY <1>1, <1>2, <1>4, PipeUsersKept

\* t suspends itself.
LEMMA PipeSleeps ==
  ASSUME PipeLists, NEW t, NEW l, At(t, l), l \notin PipeLeaving, l # "run",
         NEW m \in PipeLeaving, Goto(t, m), Sound(k'),
         k'.stat = [k.stat EXCEPT ![t] = "SUSPEND"], k'.cur = k.cur
  PROVE  /\ PipeLists' /\ Moves(PipePC, t) /\ t \in Thread /\ t \in PipeUsers
         /\ pc[t] = l /\ pc'[t] = m
<1>1. t \in Thread /\ t \in PipeUsers /\ pc[t] = l /\ k.cur = t
  BY PipeRunner
<1>2. m \in PipePC /\ m \in PipeSuspends
  BY PipeFacts
<1>3. Moves(PipePC, t) /\ pc'[t] = m
  BY <1>1, <1>2, PipeKernel, GotoMoves
<1>4. IpcOK(PipePC, PipeSuspends, PipeLeaving)'
  BY <1>1, <1>2, <1>3, PipeKernel, SuspendedKeeps
<1> QED BY <1>1, <1>3, <1>4, PipeUsersKept

\* t wakes u.
LEMMA PipeWakes ==
  ASSUME PipeLists, NEW t, NEW l, At(t, l), l \notin PipeLeaving, l # "run",
         NEW m \in PipePC, Goto(t, m), Sound(k'), NEW u \in Thread, Freed(k', k, u),
         k'.cur = k.cur
  PROVE  /\ PipeLists' /\ Moves(PipePC, t) /\ t \in Thread /\ t \in PipeUsers
         /\ pc[t] = l /\ pc'[t] = m
<1>1. t \in Thread /\ t \in PipeUsers /\ pc[t] = l /\ k.cur = t /\ k.stat[t] = "READY"
  BY PipeRunner
<1>2. Moves(PipePC, t) /\ pc'[t] = m
  BY <1>1, PipeKernel, GotoMoves
<1>3. k'.stat[k'.cur] = "READY"
  BY <1>1, PipeKernel DEF Freed
<1>4. IpcOK(PipePC, PipeSuspends, PipeLeaving)'
  BY <1>1, <1>2, <1>3, PipeKernel, FreedKeeps
<1> QED BY <1>1, <1>2, <1>4, PipeUsersKept

\* t goes from l to m, and the kernel, the mutex and the queues stay well formed.
Passes(t, l, m) ==
  /\ PipeLists' /\ PipeObjects' /\ Moves(PipePC, t) /\ t \in Thread /\ t \in PipeUsers
  /\ pc[t] = l /\ pc'[t] = m

LEMMA LockValue ==
  ASSUME NEW o \in (Thread \ {Idle}) \cup {RT_NULL}, NEW p \in Prio
  PROVE  [owner |-> o, orig |-> p] \in [owner : (Thread \ {Idle}) \cup {RT_NULL}, orig : Prio]
OBVIOUS

LEMMA InheritedOK ==
  ASSUME PipeLists, PipeObjects, NEW t \in Thread, lock.owner # RT_NULL,
         NEW h, h = Inherited(t)
  PROVE  Sound(h) /\ Reranked(h, k)
<1> DEFINE o == lock.owner
           p == k.prio[t]
<1>1. o \in Thread \ {Idle} /\ p \in Prio /\ Sound(k)
  BY PipeKernel DEF PipeObjects
<1>2. h = ChangePriority(k, o, p) \/ h = k
  BY DEF Inherited
<1> HIDE DEF o, p
<1> QED BY <1>1, <1>2, RerankedOK, RerankedSame

LEMMA GivesBack ==
  ASSUME PipeLists, PipeObjects, NEW t \in Thread \ {Idle}, NEW h, h = GivenBack(t)
  PROVE  Sound(h) /\ Reranked(h, k)
<1> DEFINE p == lock.orig
<1>1. p \in Prio /\ Sound(k)
  BY PipeKernel DEF PipeObjects
<1>2. h = ChangePriority(k, t, p) \/ h = k
  BY DEF GivenBack
<1> HIDE DEF p
<1> QED BY <1>1, <1>2, RerankedOK, RerankedSame

\* rt_mutex_take.
LEMMA PipeTakes ==
  ASSUME PipeLists, PipeObjects, NEW t, NEW l, l \notin PipeLeaving, l # "run",
         NEW w \in PipeLeaving, NEW m \in PipePC, LockTake(t, l, w, m), queue' = queue
  PROVE  Passes(t, l, w) \/ Passes(t, l, m)
<1>0. At(t, l)
  BY DEF LockTake
<1>1. t \in Thread \ {Idle} /\ t \in Thread /\ k.stat[t] = "READY" /\ Sound(k) /\ k.prio[t] \in Prio
  BY <1>0, PipeRunner, PipeKernel
<1>2. CASE lock.owner = RT_NULL /\ k' = SetErr(k, t, RT_EOK) /\ lock' = LockedBy(k, t) /\ Goto(t, m)
  <2>1. RT_EOK \in ErrNo
    BY DEF ErrNo
  <2>2. Sound(k') /\ Noted(k', k, t, RT_EOK)
    BY <1>1, <1>2, <2>1, NotedOK
  <2>3. /\ PipeLists' /\ Moves(PipePC, t) /\ t \in Thread /\ t \in PipeUsers
        /\ pc[t] = l /\ pc'[t] = m
    BY <1>0, <1>2, <2>1, <2>2, PipeSteady
  <2>4. lock' \in [owner : (Thread \ {Idle}) \cup {RT_NULL}, orig : Prio]
    BY <1>1, <1>2, LockValue DEF LockedBy
  <2>5. PipeObjects'
    BY <2>4 DEF PipeObjects
  <2> QED BY <2>3, <2>5 DEF Passes
<1>3. CASE /\ lock.owner # RT_NULL /\ k' = Block(Inherited(t), LockList, t, "PRIO", "FOREVER")
           /\ lock' = lock /\ Goto(t, w)
  <2> DEFINE h == Inherited(t)
  <2>1. Sound(h) /\ Reranked(h, k)
    BY <1>1, <1>3, InheritedOK
  <2>2. k' = Block(h, LockList, t, "PRIO", "FOREVER")
    BY <1>3
  <2> HIDE DEF h
  <2>3. Sound(k') /\ Enlists(k', k, LockList, t)
    BY <1>1, <2>1, <2>2, PipeFacts, BlockJoins
  <2>4. k'.stat = [k.stat EXCEPT ![t] = "SUSPEND"] /\ k'.cur = k.cur
    BY <2>3 DEF Enlists
  <2>5. /\ PipeLists' /\ Moves(PipePC, t) /\ t \in Thread /\ t \in PipeUsers
        /\ pc[t] = l /\ pc'[t] = w
    BY <1>0, <1>3, <2>3, <2>4, PipeSleeps
  <2>6. PipeObjects'
    BY <1>3 DEF PipeObjects
  <2> QED BY <2>5, <2>6 DEF Passes
<1> QED BY <1>2, <1>3 DEF LockTake

\* rt_mutex_release.
LEMMA PipeReleases ==
  ASSUME PipeLists, PipeObjects, NEW t, NEW l, l \notin PipeLeaving, l # "run",
         NEW s \in PipePC, NEW m \in PipePC, LockRelease(t, l, s, m), queue' = queue
  PROVE  Passes(t, l, s) \/ Passes(t, l, m)
<1>0. At(t, l)
  BY DEF LockRelease
<1>1. t \in Thread \ {Idle} /\ t \in Thread /\ k.stat[t] = "READY" /\ Sound(k) /\ k.cur = t
  BY <1>0, PipeRunner, PipeKernel
<1> DEFINE h == GivenBack(t)
<1>5. Sound(h) /\ Reranked(h, k)
  BY <1>1, GivesBack
<1>6. h.prio \in [Thread -> Prio]
  <2>1. h \in KernelState
    BY <1>5, CurThread
  <2> QED BY <2>1 DEF KernelState
<1>2. CASE k' = SetErr(k, t, RT_ERROR) /\ lock' = lock /\ Goto(t, m)
  <2>1. RT_ERROR \in ErrNo
    BY DEF ErrNo
  <2>2. Sound(k') /\ Noted(k', k, t, RT_ERROR)
    BY <1>1, <1>2, <2>1, NotedOK
  <2>3. /\ PipeLists' /\ Moves(PipePC, t) /\ t \in Thread /\ t \in PipeUsers
        /\ pc[t] = l /\ pc'[t] = m
    BY <1>0, <1>2, <2>1, <2>2, PipeSteady
  <2>4. PipeObjects'
    BY <1>2 DEF PipeObjects
  <2> QED BY <2>3, <2>4 DEF Passes
<1>3. CASE k' = GivenBack(t) /\ lock' = Unlocked /\ Goto(t, m)
  <2>1. Sound(k') /\ Reranked(k', k)
    BY <1>3, <1>5
  <2>2. /\ PipeLists' /\ Moves(PipePC, t) /\ t \in Thread /\ t \in PipeUsers
        /\ pc[t] = l /\ pc'[t] = m
    BY <1>0, <1>3, <2>1, PipeSteady
  <2>3. RT_THREAD_PRIORITY_MAX - 1 \in Prio
    BY KernelAssumption DEF Prio, RT_THREAD_PRIORITY_MAX
  <2>4. lock' \in [owner : (Thread \ {Idle}) \cup {RT_NULL}, orig : Prio]
    BY <1>3, <2>3, LockValue DEF Unlocked
  <2>5. PipeObjects'
    BY <2>4 DEF PipeObjects
  <2> QED BY <2>2, <2>5 DEF Passes
<1>4. CASE /\ k.wait[LockList] # <<>> /\ k' = rt_ipc_list_resume(GivenBack(t), LockList)
           /\ lock' = LockedBy(GivenBack(t), Head(k.wait[LockList])) /\ Goto(t, s)
  <2> DEFINE u == Head(k.wait[LockList])
  <2>1. u \in Thread /\ k.stat[u] = "SUSPEND"
    BY <1>1, <1>4, PipeFacts, HeadSuspended
  <2>2. k' = rt_ipc_list_resume(h, LockList) /\ lock' = LockedBy(h, u)
    BY <1>4
  <2>3. h.wait[LockList] = k.wait[LockList]
    BY <1>5 DEF Reranked
  <2> HIDE DEF h
  <2>4. Sound(k') /\ k'.cur = h.cur /\ Roused(k', h, u, h.err[u])
    BY <1>4, <1>5, <2>2, <2>3, PipeFacts, ListResumeRouses
  <2> HIDE DEF u
  <2>5. Freed(k', k, u) /\ k'.cur = k.cur
    BY <1>1, <1>5, <2>1, <2>4, RousedFreed DEF Reranked
  <2>6. /\ PipeLists' /\ Moves(PipePC, t) /\ t \in Thread /\ t \in PipeUsers
        /\ pc[t] = l /\ pc'[t] = s
    BY <1>0, <1>4, <2>1, <2>4, <2>5, PipeWakes
  <2>7. u # Idle
    <3>1. pc[u] \in PipeSuspends
      BY <2>1, PipeKernel DEF IpcOK
    <3>2. pc[u] # "run"
      BY <3>1 DEF PipeSuspends, PipeLeaving
    <3> QED BY <2>1, <3>2, PipeFacts DEF PipeLists
  <2>8. lock' \in [owner : (Thread \ {Idle}) \cup {RT_NULL}, orig : Prio]
    BY <1>6, <2>1, <2>2, <2>7, LockValue DEF LockedBy, h
  <2>9. PipeObjects'
    BY <2>8 DEF PipeObjects
  <2> QED BY <2>6, <2>9 DEF Passes
<1> QED BY <1>2, <1>3, <1>4 DEF LockRelease

-----------------------------------------------------------------------------
(* The wait queues: every node is one of rt_wqueue_wait, so the first is woken. *)

LEMMA UnlinkType ==
  ASSUME NEW S, NEW s \in Seq(S), NEW x
  PROVE  Unlink(s, x) \in Seq(S)
<1>1. CASE x \notin Nodes(s)
  BY <1>1 DEF Unlink
<1>2. CASE x \in Nodes(s)
  <2> DEFINE i == CHOOSE j \in 1 .. Len(s) : s[j] = x
             u == [j \in 1 .. (Len(s) - 1) |-> IF j < i THEN s[j] ELSE s[j + 1]]
  <2>1. i \in 1 .. Len(s) /\ Len(s) \in Nat
    BY <1>2 DEF Nodes
  <2> HIDE DEF i
  <2>2. \A j \in 1 .. (Len(s) - 1) : u[j] \in S
    BY <2>1
  <2>3. u \in Seq(S)
    BY <2>1, <2>2
  <2>4. Unlink(s, x) = u
    BY <1>2 DEF Unlink, i
  <2> QED BY <2>3, <2>4
<1> QED BY <1>1, <1>2

LEMMA QueueFlag ==
  ASSUME NEW q \in PipeQueue, NEW b \in BOOLEAN
  PROVE  [q EXCEPT !.flag = b] \in PipeQueue
BY DEF PipeQueue

LEMMA QueueSet ==
  ASSUME NEW q \in PipeQueue, NEW s \in Seq(PipeNodes)
  PROVE  [q EXCEPT !.nodes = s] \in PipeQueue
BY DEF PipeQueue

LEMMA QueueAdd ==
  ASSUME NEW q \in PipeQueue, NEW t \in PipeUsers
  PROVE  rt_wqueue_add(q, WaitNode(t)) \in PipeQueue
<1> DEFINE x == WaitNode(t)
           s == Append(q.nodes, x)
<1>1. x \in PipeNodes
  BY DEF PipeNodes
<1> HIDE DEF x
<1>2. s \in Seq(PipeNodes)
  BY <1>1 DEF PipeQueue
<1> HIDE DEF s
<1>3. rt_wqueue_add(q, x) = [q EXCEPT !.nodes = s]
  BY Zenon DEF rt_wqueue_add, s
<1> QED BY <1>2, <1>3, QueueSet DEF x

LEMMA QueueRemove ==
  ASSUME NEW q \in PipeQueue, NEW x
  PROVE  rt_wqueue_remove(q, x) \in PipeQueue
<1> DEFINE s == Unlink(q.nodes, x)
<1>1. s \in Seq(PipeNodes)
  BY UnlinkType DEF PipeQueue
<1> HIDE DEF s
<1>2. rt_wqueue_remove(q, x) = [q EXCEPT !.nodes = s]
  BY Zenon DEF rt_wqueue_remove, s
<1> QED BY <1>1, <1>2, QueueSet

LEMMA PickedUser ==
  ASSUME NEW q \in PipeQueue, Accepting(q, {}) # {}
  PROVE  Picked(q, {}).thread \in PipeUsers
<1> DEFINE c == CHOOSE i \in Accepting(q, {}) : \A j \in Accepting(q, {}) : i <= j
<1>1. \A i \in 1 .. Len(q.nodes) : q.nodes[i] \in PipeNodes
  BY DEF PipeQueue
<1>2. \A x \in PipeNodes : Accepts(x, {}) /\ x.thread \in PipeUsers
  BY DEF PipeNodes, WaitNode, Accepts
<1>3. Accepting(q, {}) = 1 .. Len(q.nodes) /\ Len(q.nodes) \in Nat
  BY <1>1, <1>2 DEF Accepting, PipeQueue
<1>4. 1 \in Accepting(q, {}) /\ \A j \in Accepting(q, {}) : 1 <= j
  BY <1>3
<1>5. c \in Accepting(q, {})
  BY <1>4
<1>6. Picked(q, {}) = q.nodes[c]
  BY Zenon DEF Picked
<1> HIDE DEF c
<1> QED BY <1>1, <1>2, <1>3, <1>5, <1>6

LEMMA QueueWoken ==
  ASSUME NEW q \in PipeQueue
  PROVE  WokenQueue(q, {}) \in PipeQueue
<1> DEFINE r == [q EXCEPT !.flag = TRUE]
           x == Picked(q, {})
<1>1. r \in PipeQueue
  BY QueueFlag
<1>2. WokenQueue(q, {}) = IF Accepting(q, {}) = {} THEN r ELSE rt_wqueue_remove(r, x)
  BY Zenon DEF WokenQueue
<1> HIDE DEF r, x
<1>3. rt_wqueue_remove(r, x) \in PipeQueue
  BY <1>1, QueueRemove
<1> QED BY <1>1, <1>2, <1>3

LEMMA QueuesSet ==
  ASSUME PipeObjects, NEW n \in {"rd", "wr"}, NEW q \in PipeQueue, lock' = lock,
         queue' = [queue EXCEPT ![n] = q]
  PROVE  PipeObjects'
BY DEF PipeObjects

LEMMA QueueIs ==
  ASSUME PipeObjects, NEW n \in {"rd", "wr"}
  PROVE  queue[n] \in PipeQueue
BY DEF PipeObjects

\* rt_wqueue_wakeup.
LEMMA PipeWakeup ==
  ASSUME PipeLists, PipeObjects, NEW t, NEW l, At(t, l), l \notin PipeLeaving, l # "run",
         NEW n \in {"rd", "wr"}, NEW m \in PipePC, Goto(t, m),
         k' = WokenKernel(k, queue[n], {}), lock' = lock,
         queue' = [queue EXCEPT ![n] = WokenQueue(@, {})]
  PROVE  Passes(t, l, m)
<1> DEFINE q == queue[n]
           u == Picked(q, {}).thread
           z == WokenQueue(q, {})
<1>1. q \in PipeQueue /\ z \in PipeQueue
  BY QueueIs, QueueWoken
<1>2. PipeObjects'
  <2>1. queue' = [queue EXCEPT ![n] = z]
    BY DEF PipeObjects
  <2> HIDE DEF z
  <2> QED BY <1>1, <2>1, QueuesSet
<1>3. k' = IF Accepting(q, {}) = {} THEN k ELSE rt_thread_resume(k, u)
  BY Zenon DEF WokenKernel
<1>4. Accepting(q, {}) # {} => u \in Thread
  <2> HIDE DEF q
  <2> QED BY <1>1, PickedUser, PipeFacts
<1> HIDE DEF q, u, z
<1>5. /\ PipeLists' /\ Moves(PipePC, t) /\ t \in Thread /\ t \in PipeUsers
      /\ pc[t] = l /\ pc'[t] = m
  <2>1. CASE k' = k
    BY <2>1, PipeStill
  <2>2. CASE u \in Thread /\ k.stat[u] = "SUSPEND" /\ k' = rt_thread_resume(k, u)
    <3>1. Sound(k)
      BY PipeKernel
    <3>2. Sound(k') /\ Roused(k', k, u, k.err[u]) /\ k'.cur = k.cur
      BY <2>2, <3>1, ResumeRouses
    <3>3. Freed(k', k, u)
      BY <2>2, <3>1, <3>2, RousedFreed, RerankedSame
    <3> QED BY <2>2, <3>2, <3>3, PipeWakes
  <2>3. CASE u \in Thread /\ k.stat[u] # "SUSPEND" /\ k' = rt_thread_resume(k, u)
    <3>1. k' = k
      BY <2>3 DEF rt_thread_resume
    <3> QED BY <3>1, PipeStill
  <2> QED BY <1>3, <1>4, <2>1, <2>2, <2>3
<1> QED BY <1>2, <1>5 DEF Passes

\* rt_wqueue_wait: t links its node and suspends itself.
LEMMA PipeWaits ==
  ASSUME PipeLists, PipeObjects, NEW t, NEW l, At(t, l), l \notin PipeLeaving, l # "run",
         NEW n \in {"rd", "wr"}, NEW m \in PipeLeaving, Goto(t, m),
         k' = rt_thread_suspend(k, t), lock' = lock,
         queue' = [queue EXCEPT ![n] = rt_wqueue_add(@, WaitNode(t))]
  PROVE  Passes(t, l, m)
<1>1. t \in PipeUsers /\ t \in Thread \ {Idle} /\ k.stat[t] = "READY" /\ Sound(k)
  BY PipeRunner, PipeKernel
<1>2. Sound(k') /\ Slept(k', k, t)
  BY <1>1, SuspendSleeps
<1>3. /\ PipeLists' /\ Moves(PipePC, t) /\ t \in Thread /\ t \in PipeUsers
      /\ pc[t] = l /\ pc'[t] = m
  BY <1>2, PipeSleeps DEF Slept
<1> DEFINE z == rt_wqueue_add(queue[n], WaitNode(t))
<1>4. z \in PipeQueue
  BY <1>1, QueueIs, QueueAdd
<1>5. queue' = [queue EXCEPT ![n] = z]
  BY DEF PipeObjects
<1> HIDE DEF z
<1>6. PipeObjects'
  BY <1>4, <1>5, QueuesSet
<1> QED BY <1>3, <1>6 DEF Passes

LEMMA PipeWaited ==
  ASSUME PipeLists, PipeObjects, NEW t, NEW l, At(t, l), l \notin PipeLeaving, l # "run",
         NEW n \in {"rd", "wr"}, NEW m \in PipePC, Goto(t, m), k' = k, lock' = lock,
         \/ queue' = [queue EXCEPT ![n].flag = FALSE]
         \/ queue' = [queue EXCEPT ![n] = rt_wqueue_remove([@ EXCEPT !.flag = FALSE], WaitNode(t))]
  PROVE  Passes(t, l, m)
<1> DEFINE y == [queue[n] EXCEPT !.flag = FALSE]
           z == rt_wqueue_remove(y, WaitNode(t))
<1>1. y \in PipeQueue
  BY QueueIs, QueueFlag
<1>2. queue' = [queue EXCEPT ![n] = y] \/ queue' = [queue EXCEPT ![n] = z]
  BY DEF PipeObjects
<1>3. z \in PipeQueue
  <2> HIDE DEF y
  <2> QED BY <1>1, QueueRemove
<1> HIDE DEF y, z
<1>4. PipeObjects'
  BY <1>1, <1>2, <1>3, QueuesSet
<1>5. /\ PipeLists' /\ Moves(PipePC, t) /\ t \in Thread /\ t \in PipeUsers
      /\ pc[t] = l /\ pc'[t] = m
  BY PipeStill
<1> QED BY <1>4, <1>5 DEF Passes

-----------------------------------------------------------------------------
(* Who has the pipe open. *)

\* A move after which the same is known of the caller.
Alike(l, m) ==
  /\ m \in Opening => l \in Opening
  /\ m \in Closed => l \in Closed
  /\ m \in Working \cup Off => l \in Working \cup Off
  /\ l \in Off <=> m \in Off
  /\ m # "c_del"

LEMMA TakesTable ==
  ASSUME NEW c \in Takes
  PROVE  /\ c[1] \notin PipeLeaving /\ c[1] # "run" /\ c[2] \in PipeLeaving /\ c[3] \in PipePC
         /\ Alike(c[1], c[2]) /\ Alike(c[1], c[3])
BY DEF Takes, PipeLeaving, PipePC, Alike, Opening, Closed, Working, Off

LEMMA ReleasesTable ==
  ASSUME NEW c \in LockReleases
  PROVE  /\ c[1] \notin PipeLeaving /\ c[1] # "run" /\ c[2] \in PipePC /\ c[3] \in PipePC
         /\ Alike(c[1], c[2]) /\ Alike(c[1], c[3])
BY DEF LockReleases, PipeLeaving, PipePC, Alike, Opening, Closed, Working, Off

LEMMA WakesTable ==
  ASSUME NEW c \in Wakes
  PROVE  /\ c[1] \notin PipeLeaving /\ c[1] # "run" /\ c[2] \in PipePC /\ c[3] \in PipePC
         /\ c[4] \in {"rd", "wr"} /\ Alike(c[1], c[2]) /\ Alike(c[1], c[3])
BY DEF Wakes, PipeLeaving, PipePC, Alike, Opening, Closed, Working, Off

LEMMA WaitsTable ==
  ASSUME NEW c \in Waits
  PROVE  /\ c[1] \notin PipeLeaving /\ c[1] # "run" /\ c[2] \in PipeLeaving /\ c[3] \in PipePC
         /\ c[4] \in {"rd", "wr"} /\ Alike(c[1], c[2]) /\ Alike(c[1], c[3])
BY DEF Waits, PipeLeaving, PipePC, Alike, Opening, Closed, Working, Off

LEMMA SchedulesTable ==
  ASSUME NEW d \in Schedules
  PROVE  /\ d[1] # "run" /\ d[2] \in PipePC /\ (d[1] \in PipeLeaving => d[2] \in PipeSuspends)
         /\ Alike(d[1], d[2])
<1>1. ASSUME NEW c \in Takes, d = <<c[2], c[3]>>
      PROVE  /\ d[1] # "run" /\ d[2] \in PipePC /\ (d[1] \in PipeLeaving => d[2] \in PipeSuspends)
             /\ Alike(d[1], d[2])
  BY <1>1 DEF Takes, PipeLeaving, PipeSuspends, PipePC, Alike, Opening, Closed, Working, Off
<1>2. ASSUME NEW c \in LockReleases, d = <<c[2], c[3]>>
      PROVE  /\ d[1] # "run" /\ d[2] \in PipePC /\ (d[1] \in PipeLeaving => d[2] \in PipeSuspends)
             /\ Alike(d[1], d[2])
  BY <1>2 DEF LockReleases, PipeLeaving, PipeSuspends, PipePC, Alike, Opening, Closed, Working, Off
<1>3. ASSUME NEW c \in Wakes, d = <<c[2], c[3]>>
      PROVE  /\ d[1] # "run" /\ d[2] \in PipePC /\ (d[1] \in PipeLeaving => d[2] \in PipeSuspends)
             /\ Alike(d[1], d[2])
  BY <1>3 DEF Wakes, PipeLeaving, PipeSuspends, PipePC, Alike, Opening, Closed, Working, Off
<1>4. ASSUME d \in {<<"r_sleep", "r_woken">>, <<"w_sleep", "w_woken">>}
      PROVE  /\ d[1] # "run" /\ d[2] \in PipePC /\ (d[1] \in PipeLeaving => d[2] \in PipeSuspends)
             /\ Alike(d[1], d[2])
  BY <1>4 DEF PipeLeaving, PipeSuspends, PipePC, Alike, Opening, Closed, Working, Off
<1> QED BY <1>1, <1>2, <1>3, <1>4 DEF Schedules

\* Every call of the mutex and the queues is such a move.
LEMMA ServicesPass ==
  ASSUME PipeLists, PipeObjects, NEW t, Services(t)
  PROVE  \E l, m : Passes(t, l, m) /\ Alike(l, m)
<1>1. ASSUME NEW c \in Takes, LockTake(t, c[1], c[2], c[3]), queue' = queue
      PROVE  \E l, m : Passes(t, l, m) /\ Alike(l, m)
  <2>1. Passes(t, c[1], c[2]) \/ Passes(t, c[1], c[3])
    BY <1>1, TakesTable, PipeTakes
  <2> QED BY <2>1, TakesTable
<1>2. ASSUME NEW c \in LockReleases, LockRelease(t, c[1], c[2], c[3]), queue' = queue
      PROVE  \E l, m : Passes(t, l, m) /\ Alike(l, m)
  <2>1. Passes(t, c[1], c[2]) \/ Passes(t, c[1], c[3])
    BY <1>2, ReleasesTable, PipeReleases
  <2> QED BY <2>1, ReleasesTable
<1>3. ASSUME rt_wqueue_wakeup(t)
      PROVE  \E l, m : Passes(t, l, m) /\ Alike(l, m)
  <2>1. PICK c \in Wakes :
          /\ At(t, c[1])
          /\ k' = WokenKernel(k, queue[c[4]], {})
          /\ queue' = [queue EXCEPT ![c[4]] = WokenQueue(@, {})]
          /\ Goto(t, IF Accepting(queue[c[4]], {}) # {} THEN c[2] ELSE c[3])
          /\ lock' = lock
    BY <1>3, Zenon DEF rt_wqueue_wakeup
  <2> DEFINE n == c[4]
             l == c[1]
             m == IF Accepting(queue[c[4]], {}) # {} THEN c[2] ELSE c[3]
  <2>2. /\ l \notin PipeLeaving /\ l # "run" /\ m \in PipePC /\ n \in {"rd", "wr"} /\ Alike(l, m)
    BY WakesTable
  <2>3. /\ At(t, l) /\ Goto(t, m) /\ k' = WokenKernel(k, queue[n], {}) /\ lock' = lock
        /\ queue' = [queue EXCEPT ![n] = WokenQueue(@, {})]
    BY <2>1
  <2> HIDE DEF n, l, m
  <2>4. Passes(t, l, m)
    BY <2>2, <2>3, PipeWakeup
  <2> QED BY <2>2, <2>4
<1>4. ASSUME WaitStart(t)
      PROVE  \E l, m : Passes(t, l, m) /\ Alike(l, m)
  <2>1. PICK c \in Waits :
          /\ At(t, c[1])
          /\ IF queue[c[4]].flag
             THEN /\ queue' = [queue EXCEPT ![c[4]].flag = FALSE]
                  /\ UNCHANGED k /\ Goto(t, c[3])
             ELSE /\ queue' = [queue EXCEPT ![c[4]] = rt_wqueue_add(@, WaitNode(t))]
                  /\ k' = rt_thread_suspend(k, t) /\ Goto(t, c[2])
          /\ lock' = lock
    BY <1>4, Zenon DEF WaitStart
  <2> DEFINE n == c[4]
             l == c[1]
             w == c[2]
             m == c[3]
  <2>2. /\ l \notin PipeLeaving /\ l # "run" /\ w \in PipeLeaving /\ m \in PipePC
        /\ n \in {"rd", "wr"} /\ Alike(l, w) /\ Alike(l, m)
    BY WaitsTable
  <2>3. /\ At(t, l) /\ lock' = lock
        /\ \/ queue' = [queue EXCEPT ![n].flag = FALSE] /\ k' = k /\ Goto(t, m)
           \/ /\ queue' = [queue EXCEPT ![n] = rt_wqueue_add(@, WaitNode(t))]
              /\ k' = rt_thread_suspend(k, t) /\ Goto(t, w)
    BY <2>1
  <2> HIDE DEF n, l, m, w
  <2>4. Passes(t, l, w) \/ Passes(t, l, m)
    BY <2>2, <2>3, PipeWaits, PipeWaited
  <2> QED BY <2>2, <2>4
<1>5. ASSUME WaitEnd(t)
      PROVE  \E l, m : Passes(t, l, m) /\ Alike(l, m)
  <2>1. PICK c \in {<<"r_woken", "r_take", "rd">>, <<"w_woken", "w_take", "wr">>} :
          /\ At(t, c[1])
          /\ queue' = [queue EXCEPT ![c[3]] =
                         rt_wqueue_remove([@ EXCEPT !.flag = FALSE], WaitNode(t))]
          /\ Goto(t, c[2]) /\ k' = k /\ lock' = lock
    BY <1>5, Zenon DEF WaitEnd
  <2> DEFINE n == c[3]
             l == c[1]
             m == c[2]
  <2>2. /\ l \notin PipeLeaving /\ l # "run" /\ m \in PipePC /\ n \in {"rd", "wr"} /\ Alike(l, m)
    BY DEF PipeLeaving, PipePC, Alike, Opening, Closed, Working, Off
  <2>3. /\ At(t, l) /\ Goto(t, m) /\ k' = k /\ lock' = lock
        /\ queue' = [queue EXCEPT ![n] = rt_wqueue_remove([@ EXCEPT !.flag = FALSE], WaitNode(t))]
    BY <2>1
  <2> HIDE DEF n, l, m
  <2>4. Passes(t, l, m)
    BY <2>2, <2>3, PipeWaited
  <2> QED BY <2>2, <2>4
<1>6. ASSUME NEW c \in Schedules, Schedule(t, c[1], c[2]), lock' = lock, queue' = queue
      PROVE  \E l, m : Passes(t, l, m) /\ Alike(l, m)
  <2>1. /\ PipeLists' /\ Moves(PipePC, t) /\ t \in Thread /\ t \in PipeUsers
        /\ pc[t] = c[1] /\ pc'[t] = c[2]
    BY <1>6, SchedulesTable, PipeSwitch
  <2>2. PipeObjects'
    BY <1>6 DEF PipeObjects
  <2> QED BY <2>1, <2>2, SchedulesTable DEF Passes
<1> QED BY <1>1, <1>2, <1>3, <1>4, <1>5, <1>6 DEF Services, Take, Release, Rescheduled

LEMMA OpenFinite ==
  ASSUME NEW S \in SUBSET Thread, NEW t \in Thread
  PROVE  /\ IsFiniteSet(S) /\ Cardinality(S) \in Nat /\ Cardinality(S) <= Cardinality(Thread)
         /\ Cardinality(Thread) \in Nat
         /\ t \notin S => Cardinality(S \cup {t}) = Cardinality(S) + 1
         /\ t \in S => Cardinality(S \ {t}) = Cardinality(S) - 1
         /\ Cardinality(S) = 0 <=> S = {}
<1>1. IsFiniteSet(S) /\ Cardinality(S) <= Cardinality(Thread)
  BY ThreadFinite, FS_Subset
<1>2. Cardinality(S) \in Nat /\ Cardinality(Thread) \in Nat
  BY <1>1, ThreadFinite, FS_CardinalityType
<1>3. t \notin S => Cardinality(S \cup {t}) = Cardinality(S) + 1
  BY <1>1, FS_AddElement
<1>4. t \in S => Cardinality(S \ {t}) = Cardinality(S) - 1
  BY <1>1, FS_RemoveElement
<1>5. Cardinality(S) = 0 <=> S = {}
  BY <1>1, FS_EmptySet
<1> QED BY <1>1, <1>2, <1>3, <1>4, <1>5

LEMMA AttachedType ==
  ASSUME EndsOK, NEW S
  PROVE  Attached(S) \subseteq Thread /\ open \subseteq Thread
BY PipeFacts DEF EndsOK, Attached

\* A step that opens and closes nothing.
LEMMA EndsKept ==
  ASSUME EndsOK, NEW t \in Thread, Moves(PipePC, t),
         UNCHANGED <<readers, writers, ref, named, open>>,
         pc'[t] \in Opening \cup Closed => t \notin open,
         pc'[t] \in Working \cup Off => t \in open,
         pc'[t] \in Opening => named,
         pc'[t] = "c_del" => ~named /\ open = {},
         t \in open => (pc[t] \in Off <=> pc'[t] \in Off)
  PROVE  EndsOK'
<1>1. \A u \in Thread : u # t => pc'[u] = pc[u]
  BY DEF Moves
<1>2. open \subseteq Thread
  BY AttachedType
<1>3. \A S : Attached(S)' = Attached(S)
  BY <1>1, <1>2 DEF Attached
<1>4. open' \subseteq PipeUsers /\ named' \in BOOLEAN
  BY DEF EndsOK
<1>5. \A u \in Thread : /\ pc'[u] \in Opening \cup Closed => u \notin open'
                        /\ pc'[u] \in Working \cup Off => u \in open'
                        /\ pc'[u] \in Opening => named'
                        /\ pc'[u] = "c_del" => ~named' /\ open' = {}
  BY <1>1 DEF EndsOK
<1>6. readers' = Cardinality(Attached(Readers)') /\ writers' = Cardinality(Attached(Writers)')
  BY <1>3 DEF EndsOK
<1>7. \/ ref' = Cardinality(open')
      \/ ref' = -1 /\ open' = {} /\ ~named'
  BY DEF EndsOK
<1> QED BY <1>4, <1>5, <1>6, <1>7 DEF EndsOK

LEMMA EndsAlike ==
  ASSUME EndsOK, NEW t \in Thread, Moves(PipePC, t), Alike(pc[t], pc'[t]),
         UNCHANGED <<readers, writers, ref, named, open>>
  PROVE  EndsOK'
<1>1. /\ pc'[t] \in Opening \cup Closed => t \notin open
      /\ pc'[t] \in Working \cup Off => t \in open
      /\ pc'[t] \in Opening => named
      /\ pc'[t] # "c_del"
      /\ pc[t] \in Off <=> pc'[t] \in Off
  BY DEF EndsOK, Alike
<1> QED BY <1>1, EndsKept

LEMMA OpenCountEnds ==
  ASSUME EndsOK, NEW t, t \in PipeUsers, Moves(PipePC, t), OpenCount(t), pc[t] = "o_count",
         pc'[t] = "o_out"
  PROVE  EndsOK' /\ t \notin open /\ ref = Cardinality(open)
<1>1. t \in Thread /\ t \notin open /\ named
  BY PipeFacts DEF EndsOK, Opening
<1>2. /\ readers' = readers + One(t, Readers) /\ writers' = writers + One(t, Writers)
      /\ ref' = ref + 1 /\ open' = open \cup {t} /\ named' = named
  BY DEF OpenCount
<1>3. ref = Cardinality(open)
  BY <1>1 DEF EndsOK
<1>4. \A u \in Thread : u # t => pc'[u] = pc[u]
  BY DEF Moves
<1>5. open \subseteq Thread /\ open' \subseteq PipeUsers
  BY <1>2, AttachedType DEF EndsOK
<1>6. ref' = Cardinality(open')
  BY <1>1, <1>2, <1>3, <1>5, OpenFinite
<1>7. ASSUME NEW S
      PROVE  Cardinality(Attached(S)') = Cardinality(Attached(S)) + One(t, S)
  <2>1. CASE t \in S
    <3>1. Attached(S)' = Attached(S) \cup {t} /\ t \notin Attached(S)
      BY <1>1, <1>2, <1>4, <1>5, <2>1 DEF Attached, Off
    <3> QED BY <1>1, <2>1, <3>1, AttachedType, OpenFinite DEF One
  <2>2. CASE t \notin S
    <3>1. Attached(S)' = Attached(S)
      BY <1>1, <1>2, <1>4, <1>5, <2>2 DEF Attached, Off
    <3>2. Cardinality(Attached(S)) \in Nat
      BY <1>1, AttachedType, OpenFinite
    <3> QED BY <2>2, <3>1, <3>2 DEF One
  <2> QED BY <2>1, <2>2
<1>8. readers' = Cardinality(Attached(Readers)') /\ writers' = Cardinality(Attached(Writers)')
  BY <1>2, <1>7 DEF EndsOK
<1>9. \A u \in Thread : /\ pc'[u] \in Opening \cup Closed => u \notin open'
                        /\ pc'[u] \in Working \cup Off => u \in open'
                        /\ pc'[u] \in Opening => named'
                        /\ pc'[u] = "c_del" => ~named' /\ open' = {}
  <2>1. pc'[t] \notin Opening \cup Closed /\ pc'[t] # "c_del"
    BY DEF Opening, Closed
  <2>2. ASSUME NEW u \in Thread, u # t
        PROVE  /\ pc'[u] \in Opening \cup Closed => u \notin open'
               /\ pc'[u] \in Working \cup Off => u \in open'
               /\ pc'[u] \in Opening => named'
               /\ pc'[u] # "c_del"
    BY <1>1, <1>2, <1>4, <2>2 DEF EndsOK
  <2>3. t \in open' /\ named'
    BY <1>1, <1>2
  <2> QED BY <2>1, <2>2, <2>3
<1> QED BY <1>1, <1>2, <1>3, <1>5, <1>6, <1>8, <1>9 DEF EndsOK

LEMMA CloseCountEnds ==
  ASSUME EndsOK, NEW t, t \in PipeUsers, Moves(PipePC, t), CloseCount(t), pc[t] = "c_count",
         pc'[t] \in {"c_hup", "c_err"}
  PROVE  EndsOK'
<1>1. t \in Thread /\ t \in open
  BY PipeFacts DEF EndsOK, Working
<1>2. /\ readers' = readers - One(t, Readers) /\ writers' = writers - One(t, Writers)
      /\ ref' = ref /\ open' = open /\ named' = named
  BY DEF CloseCount
<1>4. \A u \in Thread : u # t => pc'[u] = pc[u]
  BY DEF Moves
<1>5. open \subseteq Thread
  BY AttachedType
<1>6. pc[t] \notin Off /\ pc'[t] \in Off /\ pc'[t] \notin Opening \cup Closed
  BY DEF Off, Opening, Closed
<1>7. ASSUME NEW S
      PROVE  Cardinality(Attached(S)') = Cardinality(Attached(S)) - One(t, S)
  <2>1. CASE t \in S
    <3>1. Attached(S)' = Attached(S) \ {t} /\ t \in Attached(S)
      BY <1>1, <1>2, <1>4, <1>5, <1>6, <2>1 DEF Attached
    <3> QED BY <1>1, <2>1, <3>1, AttachedType, OpenFinite DEF One
  <2>2. CASE t \notin S
    <3>1. Attached(S)' = Attached(S)
      BY <1>1, <1>2, <1>4, <1>5, <2>2 DEF Attached
    <3>2. Cardinality(Attached(S)) \in Nat
      BY <1>1, AttachedType, OpenFinite
    <3> QED BY <2>2, <3>1, <3>2 DEF One
  <2> QED BY <2>1, <2>2
<1>8. readers' = Cardinality(Attached(Readers)') /\ writers' = Cardinality(Attached(Writers)')
  BY <1>2, <1>7 DEF EndsOK
<1>9. \A u \in Thread : /\ pc'[u] \in Opening \cup Closed => u \notin open'
                        /\ pc'[u] \in Working \cup Off => u \in open'
                        /\ pc'[u] \in Opening => named'
                        /\ pc'[u] = "c_del" => ~named' /\ open' = {}
  BY <1>1, <1>2, <1>4, <1>6 DEF EndsOK
<1> QED BY <1>2, <1>8, <1>9 DEF EndsOK

LEMMA CloseRefEnds ==
  ASSUME EndsOK, NEW t, t \in PipeUsers, Moves(PipePC, t), CloseRef(t), pc[t] = "c_ref",
         pc'[t] = "c_out"
  PROVE  EndsOK' /\ t \in open /\ ref = Cardinality(open)
<1>1. t \in Thread /\ t \in open
  BY PipeFacts DEF EndsOK, Off
<1>2. /\ readers' = readers /\ writers' = writers
      /\ ref' = ref - 1 /\ open' = open \ {t} /\ named' = named
  BY DEF CloseRef
<1>3. ref = Cardinality(open)
  BY <1>1 DEF EndsOK
<1>4. \A u \in Thread : u # t => pc'[u] = pc[u]
  BY DEF Moves
<1>5. open \subseteq Thread
  BY AttachedType
<1>6. pc[t] \in Off /\ pc'[t] \notin Off /\ pc'[t] \notin Opening \cup Working /\ pc'[t] # "c_del"
  BY DEF Off, Opening, Working
<1>7. ref' = Cardinality(open')
  BY <1>1, <1>2, <1>3, <1>5, OpenFinite
<1>8. \A S : Attached(S)' = Attached(S)
  BY <1>1, <1>2, <1>4, <1>5, <1>6 DEF Attached
<1>9. readers' = Cardinality(Attached(Readers)') /\ writers' = Cardinality(Attached(Writers)')
  BY <1>2, <1>8 DEF EndsOK
<1>10. \A u \in Thread : /\ pc'[u] \in Opening \cup Closed => u \notin open'
                         /\ pc'[u] \in Working \cup Off => u \in open'
                         /\ pc'[u] \in Opening => named'
                         /\ pc'[u] = "c_del" => ~named' /\ open' = {}
  BY <1>1, <1>2, <1>4, <1>6 DEF EndsOK
<1> QED BY <1>1, <1>2, <1>3, <1>7, <1>9, <1>10 DEF EndsOK

\* rt_pipe_delete: nobody has the unnamed pipe open.
LEMMA DeleteEnds ==
  ASSUME EndsOK, NEW t \in Thread, Moves(PipePC, t), rt_pipe_delete(t), pc[t] = "c_del",
         pc'[t] \in {"crashed", "run"}
  PROVE  EndsOK'
<1>1. ~named /\ open = {}
  BY DEF EndsOK
<1>2. ref' = -1 /\ UNCHANGED <<readers, writers, named, open>>
  BY DEF rt_pipe_delete
<1>3. \A u \in Thread : u # t => pc'[u] = pc[u]
  BY DEF Moves
<1>4. pc'[t] \notin Opening \cup Working \cup Off /\ pc'[t] # "c_del"
  BY DEF Off, Opening, Working
<1>5. \A S : Attached(S)' = Attached(S)
  BY <1>1, <1>2 DEF Attached
<1>6. \A u \in Thread : /\ pc'[u] \in Opening \cup Closed => u \notin open'
                        /\ pc'[u] \in Working \cup Off => u \in open'
                        /\ pc'[u] \in Opening => named'
                        /\ pc'[u] = "c_del" => ~named' /\ open' = {}
  BY <1>1, <1>2, <1>3, <1>4 DEF EndsOK
<1> QED BY <1>1, <1>2, <1>5, <1>6 DEF EndsOK

-----------------------------------------------------------------------------
(* The ring buffer. *)

\* How far cell c is ahead of cell w.
Ahead(c, w) == IF c >= w THEN c - w ELSE c - w + BufSize

LEMMA RingSizes ==
  /\ BufSize \in Nat \ {0} /\ BufSize \in Int /\ BufSize >= 1
  /\ Numbers \in Nat \ {0} /\ Numbers \in Int /\ Numbers = 2 * BufSize
  BY RingAssumption DEF Numbers

LEMMA LengthOK ==
  ASSUME NEW n \in Nat
  PROVE  Length(n) \in 0 .. n /\ (n <= BufSize + 1 => Length(n) = n)
<1>1. LenModulus \in Nat /\ LenModulus > 0 /\ BufSize + 1 < LenModulus /\ BufSize \in Nat
  BY RingAssumption
<1> QED BY <1>1 DEF Length

LEMMA NumberOK ==
  ASSUME NEW a \in Int, NEW b \in Int
  PROVE  /\ Number(a) \in 0 .. (Numbers - 1) /\ Number(a) \in Int
         /\ Number(Number(a) + b) = Number(a + b)
         /\ a \in 0 .. (Numbers - 1) => Number(a) = a
<1>1. Number(a) \in 0 .. (Numbers - 1)
  BY RingSizes, ModSplit DEF Number
<1>2. Number(Number(a) + b) = Number(a + b)
  BY RingSizes, ModAdd, Zenon DEF Number
<1>3. a \in 0 .. (Numbers - 1) => Number(a) = a
  BY RingSizes, ModSmall DEF Number
<1>4. Number(a) \in Int
  BY <1>1
<1> QED BY <1>1, <1>2, <1>3, <1>4

\* The index arithmetic of the two memcpy is that of cells in a circle.
LEMMA CellMod ==
  ASSUME NEW i \in Index, NEW d \in Index
  PROVE  (i + d) % BufSize = Cell(i, d) /\ (i - d) % BufSize = Ahead(i, d)
<1> DEFINE e == i + d
           f == i - d
<1>1. e \in Int /\ f \in Int
  BY RingSizes DEF Index
<1>2. \/ e \in 0 .. (BufSize - 1) /\ Cell(i, d) = e
      \/ e \in BufSize .. (2 * BufSize - 1) /\ Cell(i, d) = e - BufSize
  BY RingSizes DEF Index, Cell
<1>3. \/ f \in 0 .. (BufSize - 1) /\ Ahead(i, d) = f
      \/ f \in (0 - BufSize) .. (0 - 1) /\ Ahead(i, d) = f + BufSize
  BY RingSizes DEF Index, Ahead
<1> HIDE DEF e, f
<1>4. e % BufSize = Cell(i, d)
  BY <1>1, <1>2, RingSizes, ModSmall
<1>5. f % BufSize = Ahead(i, d)
  BY <1>1, <1>3, RingSizes, ModSmall
<1> QED BY <1>4, <1>5 DEF e, f

LEMMA CellIndex ==
  ASSUME NEW i \in Index, NEW d \in 0 .. BufSize
  PROVE  Cell(i, d) \in Index
BY RingSizes DEF Index, Cell

\* The cell i after the read index, seen from the write index L after it.
LEMMA CellAhead ==
  ASSUME NEW r \in Index, NEW L \in 0 .. BufSize, NEW i \in Index
  PROVE  Ahead(Cell(r, i), Cell(r, L)) = IF i < L THEN BufSize - L + i ELSE i - L
BY RingSizes DEF Index, Cell, Ahead

LEMMA FifoFields ==
  ASSUME NEW rb, FifoOK(rb)
  PROVE  /\ rb.r \in Index /\ rb.w \in Index /\ rb.rm \in {0, 1} /\ rb.wm \in {0, 1}
         /\ rb.buf \in [Index -> Int] /\ rb \in RingType
         /\ (IF rb.rm = rb.wm THEN rb.r <= rb.w ELSE rb.w <= rb.r)
BY DEF FifoOK, RingType

LEMMA RingLength ==
  ASSUME NEW rb, FifoOK(rb)
  PROVE  /\ RingLen(rb) \in 0 .. BufSize /\ rb.w = Cell(rb.r, RingLen(rb))
         /\ rt_ringbuffer_data_len(rb) = RingLen(rb)
         /\ rt_ringbuffer_space_len(rb) = BufSize - RingLen(rb)
<1> DEFINE r == rb.r
           w == rb.w
           rm == rb.rm
           wm == rb.wm
<1>1. /\ r \in Index /\ w \in Index /\ rm \in {0, 1} /\ wm \in {0, 1}
      /\ (IF rm = wm THEN r <= w ELSE w <= r)
  BY FifoFields
<1>2. RingLen(rb) = IF rm = wm THEN w - r ELSE BufSize - r + w
  BY DEF RingLen
<1>3. rt_ringbuffer_data_len(rb) = CASE r = w /\ rm = wm -> 0
                                     [] r = w /\ rm # wm -> BufSize
                                     [] w > r -> w - r
                                     [] OTHER -> BufSize - (r - w)
  BY DEF rt_ringbuffer_data_len, RingEmpty, RingFull
<1> HIDE DEF r, w, rm, wm
<1>4. RingLen(rb) \in 0 .. BufSize /\ w = Cell(r, RingLen(rb))
  BY <1>1, <1>2, RingSizes DEF Index, Cell
<1>5. rt_ringbuffer_data_len(rb) = RingLen(rb)
  <2>1. CASE r = w /\ rm = wm
    BY <1>1, <1>2, <1>3, <2>1, RingSizes DEF Index
  <2>2. CASE r = w /\ rm # wm
    BY <1>1, <1>2, <1>3, <2>2, RingSizes DEF Index
  <2>3. CASE w > r
    BY <1>1, <1>2, <1>3, <2>3, RingSizes DEF Index
  <2>4. CASE r # w /\ ~(w > r)
    BY <1>1, <1>2, <1>3, <2>4, RingSizes DEF Index
  <2> QED BY <2>1, <2>2, <2>3, <2>4
<1>6. rt_ringbuffer_space_len(rb) = BufSize - RingLen(rb)
  BY <1>5 DEF rt_ringbuffer_space_len
<1> QED BY <1>4, <1>5, <1>6 DEF r, w

LEMMA RingContent ==
  ASSUME NEW rb, FifoOK(rb)
  PROVE  /\ Content(rb) \in Seq(Int) /\ Len(Content(rb)) = RingLen(rb)
         /\ \A j \in 1 .. RingLen(rb) : Content(rb)[j] = rb.buf[Cell(rb.r, j - 1)]
         /\ Content(rb) = [j \in 1 .. RingLen(rb) |-> rb.buf[Cell(rb.r, j - 1)]]
<1> DEFINE n == RingLen(rb)
           s == [j \in 1 .. n |-> rb.buf[(rb.r + j - 1) % BufSize]]
           z == [j \in 1 .. n |-> rb.buf[Cell(rb.r, j - 1)]]
<1>1. n \in 0 .. BufSize /\ rt_ringbuffer_data_len(rb) = n
  BY RingLength
<1>2. Content(rb) = s
  BY <1>1, Zenon DEF Content, Bytes
<1> HIDE DEF n
<1>3. rb.r \in Index /\ rb.buf \in [Index -> Int]
  BY FifoFields
<1>4. ASSUME NEW j \in 1 .. n
      PROVE  (rb.r + j - 1) % BufSize = Cell(rb.r, j - 1) /\ Cell(rb.r, j - 1) \in Index
  <2> DEFINE d == j - 1
             i == rb.r
  <2>1. d \in Index /\ d \in 0 .. BufSize /\ i \in Index /\ i + j - 1 = i + d
    BY <1>1, <1>3, RingSizes DEF Index
  <2> HIDE DEF d, i
  <2>2. (i + d) % BufSize = Cell(i, d) /\ Cell(i, d) \in Index
    BY <2>1, CellMod, CellIndex
  <2> QED BY <2>1, <2>2 DEF d, i
<1>5. s = z
  BY <1>4
<1>6. \A j \in 1 .. n : z[j] = rb.buf[Cell(rb.r, j - 1)] /\ z[j] \in Int
  BY <1>3, <1>4
<1>7. z \in Seq(Int) /\ Len(z) = n
  BY <1>1, <1>6
<1> QED BY <1>2, <1>5, <1>6, <1>7 DEF n

\* How far the cell i after the read index is ahead of the write index L after it.
Behind(i, L) == IF i < L THEN BufSize - L + i ELSE i - L

LEMMA CopiedAt ==
  ASSUME NEW rb, FifoOK(rb), NEW s \in Seq(Int), NEW b, b = Copied(rb.buf, rb.w, s)
  PROVE  /\ b \in [Index -> Int]
         /\ \A i \in Index : b[Cell(rb.r, i)] =
              IF Behind(i, RingLen(rb)) < Len(s) THEN s[Behind(i, RingLen(rb)) + 1]
              ELSE rb.buf[Cell(rb.r, i)]
<1> DEFINE L == RingLen(rb)
           r == rb.r
           w == rb.w
           o == rb.buf
<1>1. /\ r \in Index /\ w \in Index /\ o \in [Index -> Int] /\ L \in 0 .. BufSize
      /\ w = Cell(r, L)
  BY FifoFields, RingLength
<1>2. b = [c \in Index |-> IF ((c - w) % BufSize) + 1 <= Len(s) THEN s[((c - w) % BufSize) + 1] ELSE o[c]]
  BY Zenon DEF Copied
<1> HIDE DEF L, r, w, o
<1>3. ASSUME NEW c \in Index
      PROVE  /\ b[c] = IF Ahead(c, w) < Len(s) THEN s[Ahead(c, w) + 1] ELSE o[c]
             /\ b[c] \in Int
  <2>0. Ahead(c, w) \in Nat
    BY <1>1, RingSizes, SMTT(30) DEF Ahead, Index
  <2>1. (c - w) % BufSize = Ahead(c, w) /\ Ahead(c, w) \in Nat
    BY <1>1, <2>0, CellMod
  <2> DEFINE a == Ahead(c, w)
  <2>2. b[c] = IF a + 1 <= Len(s) THEN s[a + 1] ELSE o[c]
    BY <1>2, <2>1
  <2>3. Len(s) \in Nat /\ a \in Nat
    BY <2>1
  <2> HIDE DEF a
  <2>4. b[c] = IF a < Len(s) THEN s[a + 1] ELSE o[c]
    BY <2>2, <2>3
  <2>5. o[c] \in Int /\ (a < Len(s) => s[a + 1] \in Int)
    BY <1>1, <2>3
  <2> QED BY <2>4, <2>5 DEF a
<1>4. b \in [Index -> Int]
  BY <1>2, <1>3
<1>5. ASSUME NEW i \in Index
      PROVE  b[Cell(r, i)] = IF Behind(i, L) < Len(s) THEN s[Behind(i, L) + 1] ELSE o[Cell(r, i)]
  <2>0. i \in 0 .. BufSize
    BY RingSizes DEF Index
  <2>1. Cell(r, i) \in Index
    BY <1>1, <2>0, CellIndex
  <2>2. Ahead(Cell(r, i), w) = Behind(i, L)
    BY <1>1, CellAhead DEF Behind
  <2> QED BY <1>3, <2>1, <2>2
<1> QED BY <1>4, <1>5 DEF L, r, w, o

LEMMA RingRecord ==
  ASSUME NEW r, NEW rm, NEW w, NEW wm, NEW b,
         NEW rb, rb = [r |-> r, rm |-> rm, w |-> w, wm |-> wm, buf |-> b], NEW x, NEW y
  PROVE  /\ [rb EXCEPT !.buf = x] = [r |-> r, rm |-> rm, w |-> w, wm |-> wm, buf |-> x]
         /\ [rb EXCEPT !.w = x] = [r |-> r, rm |-> rm, w |-> x, wm |-> wm, buf |-> b]
         /\ [rb EXCEPT !.r = x] = [r |-> x, rm |-> rm, w |-> w, wm |-> wm, buf |-> b]
         /\ [rb EXCEPT !.w = x, !.wm = y] = [r |-> r, rm |-> rm, w |-> x, wm |-> y, buf |-> b]
         /\ [rb EXCEPT !.r = x, !.rm = y] = [r |-> x, rm |-> y, w |-> w, wm |-> wm, buf |-> b]
<1>1. [rb EXCEPT !.buf = x] = [r |-> r, rm |-> rm, w |-> w, wm |-> wm, buf |-> x]
  OBVIOUS
<1>2. [rb EXCEPT !.w = x] = [r |-> r, rm |-> rm, w |-> x, wm |-> wm, buf |-> b]
  OBVIOUS
<1>3. [rb EXCEPT !.r = x] = [r |-> x, rm |-> rm, w |-> w, wm |-> wm, buf |-> b]
  OBVIOUS
<1>4. [rb EXCEPT !.w = x, !.wm = y] = [r |-> r, rm |-> rm, w |-> x, wm |-> y, buf |-> b]
  <2> DEFINE s == [rb EXCEPT !.w = x]
  <2>1. [rb EXCEPT !.w = x, !.wm = y] = [s EXCEPT !.wm = y]
    OBVIOUS
  <2>3. s = [r |-> r, rm |-> rm, w |-> x, wm |-> wm, buf |-> b]
    BY <1>2
  <2> HIDE DEF s
  <2>2. [s EXCEPT !.wm = y] = [r |-> r, rm |-> rm, w |-> x, wm |-> y, buf |-> b]
    BY <2>3
  <2> QED BY <2>1, <2>2
<1>5. [rb EXCEPT !.r = x, !.rm = y] = [r |-> x, rm |-> y, w |-> w, wm |-> wm, buf |-> b]
  <2> DEFINE s == [rb EXCEPT !.r = x]
  <2>1. [rb EXCEPT !.r = x, !.rm = y] = [s EXCEPT !.rm = y]
    OBVIOUS
  <2>3. s = [r |-> x, rm |-> rm, w |-> w, wm |-> wm, buf |-> b]
    BY <1>3
  <2> HIDE DEF s
  <2>2. [s EXCEPT !.rm = y] = [r |-> x, rm |-> y, w |-> w, wm |-> wm, buf |-> b]
    BY <2>3
  <2> QED BY <2>1, <2>2
<1> QED BY <1>1, <1>2, <1>3, <1>4, <1>5

LEMMA RingIs ==
  ASSUME NEW rb \in RingType
  PROVE  rb = [r |-> rb.r, rm |-> rb.rm, w |-> rb.w, wm |-> rb.wm, buf |-> rb.buf]
BY DEF RingType

LEMMA WroteIs ==
  ASSUME NEW rb, FifoOK(rb), NEW b \in [Index -> Int], NEW n \in 0 .. BufSize,
         NEW y, y = Wrote([rb EXCEPT !.buf = b], n)
  PROVE  /\ y = [r |-> rb.r, rm |-> rb.rm, w |-> Cell(rb.w, n),
                 wm |-> IF BufSize - rb.w > n THEN rb.wm ELSE Flip(rb.wm), buf |-> b]
         /\ y \in RingType
<1> DEFINE x == [rb EXCEPT !.buf = b]
           r == rb.r
           w == rb.w
           rm == rb.rm
           wm == rb.wm
<1>1. /\ r \in Index /\ w \in Index /\ rm \in {0, 1} /\ wm \in {0, 1} /\ rb \in RingType
  BY FifoFields
<1>2. x = [r |-> r, rm |-> rm, w |-> w, wm |-> wm, buf |-> b]
  <2> DEFINE o == rb.buf
  <2>1. rb = [r |-> r, rm |-> rm, w |-> w, wm |-> wm, buf |-> o]
    BY <1>1, RingIs
  <2> HIDE DEF r, w, rm, wm, o
  <2>2. [rb EXCEPT !.buf = b] = [r |-> r, rm |-> rm, w |-> w, wm |-> wm, buf |-> b]
    BY <2>1
  <2> QED BY <2>2
<1>3. y = Wrote(x, n)
  OBVIOUS
<1> HIDE DEF x, r, w, rm, wm
<1>4. x \in RingType /\ x.r = r /\ x.rm = rm /\ x.w = w /\ x.wm = wm /\ x.buf = b
  BY <1>1, <1>2 DEF RingType
<1>5. CASE BufSize - w > n
  <2> DEFINE v == w + n
  <2>1. y = [x EXCEPT !.w = v]
    BY <1>3, <1>4, <1>5 DEF Wrote
  <2>2. Cell(w, n) = v /\ v \in Index
    BY <1>1, <1>5, RingSizes DEF Cell, Index
  <2> HIDE DEF v
  <2>3. y = [r |-> r, rm |-> rm, w |-> v, wm |-> wm, buf |-> b]
    BY <1>2, <2>1, RingRecord
  <2> QED BY <1>1, <1>5, <2>2, <2>3 DEF RingType, r, w, rm, wm
<1>6. CASE ~(BufSize - w > n)
  <2> DEFINE v == n - (BufSize - w)
             m == Flip(wm)
  <2>1. y = [x EXCEPT !.w = v, !.wm = m]
    BY <1>3, <1>4, <1>6 DEF Wrote
  <2>2. Cell(w, n) = v /\ v \in Index
    BY <1>1, <1>6, RingSizes DEF Cell, Index
  <2>4. m \in {0, 1} /\ m = Flip(wm)
    BY <1>1 DEF Flip
  <2> HIDE DEF v, m
  <2>3. y = [r |-> r, rm |-> rm, w |-> v, wm |-> m, buf |-> b]
    BY <1>2, <2>1, RingRecord
  <2> QED BY <1>1, <1>6, <2>2, <2>3, <2>4 DEF RingType, r, w, rm, wm
<1> QED BY <1>5, <1>6

\* A put into the free cells.
LEMMA WroteOK ==
  ASSUME NEW rb, FifoOK(rb), NEW b \in [Index -> Int], NEW n \in 0 .. (BufSize - RingLen(rb)),
         NEW y, y = Wrote([rb EXCEPT !.buf = b], n)
  PROVE  FifoOK(y) /\ RingLen(y) = RingLen(rb) + n /\ y.r = rb.r /\ y.buf = b
<1> DEFINE r == rb.r
           w == rb.w
           rm == rb.rm
           wm == rb.wm
           v == Cell(w, n)
           m == IF BufSize - w > n THEN wm ELSE Flip(wm)
<1>0. RingLen(rb) \in 0 .. BufSize /\ RingLen(rb) = IF rm = wm THEN w - r ELSE BufSize - r + w
  BY RingLength DEF RingLen
<1>1. /\ r \in Index /\ w \in Index /\ rm \in {0, 1} /\ wm \in {0, 1} /\ rb \in RingType
      /\ (IF rm = wm THEN r <= w ELSE w <= r)
  BY FifoFields
<1>2. n \in 0 .. BufSize
  BY <1>0, RingSizes
<1>3. y = [r |-> r, rm |-> rm, w |-> v, wm |-> m, buf |-> b] /\ y \in RingType
  BY <1>2, WroteIs
<1>4. /\ (IF rm = m THEN r <= v ELSE v <= r)
      /\ (IF rm = m THEN v - r ELSE BufSize - r + v) = RingLen(rb) + n
  <2> DEFINE L == RingLen(rb)
  <2>0. n \in Int /\ L \in Int /\ n <= BufSize - L /\ n >= 0
    BY <1>0, RingSizes
  <2> HIDE DEF r, w, rm, wm, L
  <2>1. CASE rm = wm /\ BufSize - w > n
    BY <1>0, <1>1, <2>0, <2>1, RingSizes, SMTT(30) DEF Index, Cell, L
  <2>2. CASE rm = wm /\ ~(BufSize - w > n)
    <3>1. m # rm
      BY <1>1, <2>2 DEF Flip
    <3>2. v = w + n - BufSize
      BY <1>1, <2>0, <2>2, RingSizes DEF Index, Cell
    <3>3. L = w - r
      BY <1>0, <2>2 DEF L
    <3> HIDE DEF m, v
    <3>4. v <= r /\ BufSize - r + v = L + n
      BY <1>1, <2>0, <3>2, <3>3, RingSizes, SMTT(30) DEF Index
    <3> QED BY <3>1, <3>4 DEF L
  <2>3. CASE rm # wm
    <3>1. BufSize - w > n
      BY <1>0, <1>1, <2>0, <2>3, RingSizes DEF Index, L
    <3>2. v = w + n
      BY <1>1, <2>0, <3>1, RingSizes DEF Index, Cell
    <3>3. L = BufSize - r + w /\ m = wm
      BY <1>0, <2>3, <3>1 DEF L
    <3> HIDE DEF m, v
    <3>4. v <= r /\ BufSize - r + v = L + n
      BY <1>1, <2>0, <3>2, <3>3, RingSizes DEF Index
    <3> QED BY <2>3, <3>3, <3>4 DEF L
  <2> QED BY <2>1, <2>2, <2>3
<1> HIDE DEF r, w, rm, wm, v, m
<1>5. y.r = r /\ y.rm = rm /\ y.w = v /\ y.wm = m /\ y.buf = b
  BY <1>3
<1>6. FifoOK(y)
  BY <1>3, <1>4, <1>5 DEF FifoOK
<1>7. RingLen(y) = RingLen(rb) + n
  BY <1>4, <1>5 DEF RingLen
<1> QED BY <1>5, <1>6, <1>7 DEF r

\* A get of n bytes.
LEMMA DrainedOK ==
  ASSUME NEW rb, FifoOK(rb), NEW n \in 0 .. RingLen(rb), NEW y, y = Drained(rb, n)
  PROVE  FifoOK(y) /\ RingLen(y) = RingLen(rb) - n /\ y.r = Cell(rb.r, n) /\ y.buf = rb.buf
<1> DEFINE r == rb.r
           w == rb.w
           rm == rb.rm
           wm == rb.wm
           b == rb.buf
           v == Cell(r, n)
           m == IF BufSize - r > n THEN rm ELSE Flip(rm)
<1>0. RingLen(rb) \in 0 .. BufSize /\ RingLen(rb) = IF rm = wm THEN w - r ELSE BufSize - r + w
  BY RingLength DEF RingLen
<1>1. /\ r \in Index /\ w \in Index /\ rm \in {0, 1} /\ wm \in {0, 1} /\ rb \in RingType
      /\ (IF rm = wm THEN r <= w ELSE w <= r) /\ b \in [Index -> Int]
  BY FifoFields
<1>2. n \in 0 .. BufSize
  BY <1>0, RingSizes
<1>3. y = [r |-> v, rm |-> m, w |-> w, wm |-> wm, buf |-> b]
  <2>1. CASE BufSize - r > n
    <3> DEFINE x == r + n
    <3>1. y = [rb EXCEPT !.r = x]
      BY <2>1 DEF Drained
    <3>2. v = x
      <4> HIDE DEF r
      <4> QED BY <1>1, <1>2, <2>1, RingSizes DEF Cell, Index
    <3> HIDE DEF x, v
    <3>3. y = [r |-> x, rm |-> rm, w |-> w, wm |-> wm, buf |-> b]
      BY <1>1, <3>1, RingIs, RingRecord
    <3> QED BY <2>1, <3>2, <3>3
  <2>2. CASE ~(BufSize - r > n)
    <3> DEFINE x == n - (BufSize - r)
               z == Flip(rm)
    <3>1. y = [rb EXCEPT !.r = x, !.rm = z]
      BY <2>2 DEF Drained
    <3>2. v = x /\ m = z
      <4> HIDE DEF r
      <4> QED BY <1>1, <1>2, <2>2, RingSizes DEF Cell, Index
    <3> HIDE DEF x, v, z, m
    <3>3. y = [r |-> x, rm |-> z, w |-> w, wm |-> wm, buf |-> b]
      BY <1>1, <3>1, RingIs, RingRecord
    <3> QED BY <3>2, <3>3
  <2> QED BY <2>1, <2>2
<1>4. /\ (IF m = wm THEN v <= w ELSE w <= v)
      /\ (IF m = wm THEN w - v ELSE BufSize - v + w) = RingLen(rb) - n
      /\ m \in {0, 1}
  <2> HIDE DEF r, w, rm, wm
  <2> QED BY <1>0, <1>1, <1>2, RingSizes DEF Index, Cell, Flip
<1>8. v \in Index
  BY <1>1, <1>2, CellIndex
<1> HIDE DEF r, w, rm, wm, v, m, b
<1>5. y.r = v /\ y.rm = m /\ y.w = w /\ y.wm = wm /\ y.buf = b /\ y \in RingType
  BY <1>1, <1>3, <1>4, <1>8 DEF RingType
<1>6. FifoOK(y)
  BY <1>4, <1>5 DEF FifoOK
<1>7. RingLen(y) = RingLen(rb) - n
  BY <1>4, <1>5 DEF RingLen
<1> QED BY <1>5, <1>6, <1>7 DEF v, r, b


LEMMA CellTwice ==
  ASSUME NEW r \in Index, NEW n \in 0 .. BufSize, NEW i \in Nat, n + i < BufSize
  PROVE  Cell(Cell(r, n), i) = Cell(r, n + i)
BY RingSizes DEF Index, Cell

LEMMA Part ==
  ASSUME NEW s \in Seq(Int), NEW a \in 1 .. (Len(s) + 1), NEW z, z = SubSeq(s, a, Len(s))
  PROVE  /\ z \in Seq(Int) /\ Len(z) = Len(s) - a + 1
         /\ \A i \in 1 .. (Len(s) - a + 1) : z[i] = s[a + i - 1]
<1> DEFINE n == Len(s)
<1>1. n \in Int /\ n \in Nat /\ a \in Int /\ a <= n + 1 /\ a >= 1
  OBVIOUS
<1>2. \A i \in a .. n : s[i] \in Int
  BY <1>1, ElementOfSeq
<1>3. z = SubSeq(s, a, n)
  OBVIOUS
<1> HIDE DEF n
<1>4. /\ SubSeq(s, a, n) \in Seq(Int)
      /\ Len(SubSeq(s, a, n)) = IF a <= n THEN n - a + 1 ELSE 0
      /\ \A i \in 1 .. (n - a + 1) : SubSeq(s, a, n)[i] = s[a + i - 1]
  BY <1>1, <1>2, SubSeqProperties
<1>5. Len(z) = n - a + 1
  BY <1>1, <1>3, <1>4
<1> QED BY <1>3, <1>4, <1>5 DEF n

LEMMA Front ==
  ASSUME NEW s \in Seq(Int), NEW m \in 0 .. Len(s), NEW z, z = SubSeq(s, 1, m)
  PROVE  z \in Seq(Int) /\ Len(z) = m /\ \A i \in 1 .. m : z[i] = s[i]
<1>1. m \in Int /\ 1 \in Int /\ m >= 0
  OBVIOUS
<1>2. \A i \in 1 .. m : s[i] \in Int
  BY ElementOfSeq
<1>4. /\ SubSeq(s, 1, m) \in Seq(Int)
      /\ Len(SubSeq(s, 1, m)) = IF 1 <= m THEN m - 1 + 1 ELSE 0
      /\ \A i \in 1 .. (m - 1 + 1) : SubSeq(s, 1, m)[i] = s[1 + i - 1]
  BY <1>1, <1>2, SubSeqProperties
<1>5. m - 1 + 1 = m /\ (IF 1 <= m THEN m - 1 + 1 ELSE 0) = m
  BY <1>1
<1>6. \A i \in 1 .. m : 1 + i - 1 = i
  OBVIOUS
<1>7. Len(z) = m /\ z \in Seq(Int)
  BY <1>4, <1>5
<1>8. \A i \in 1 .. m : z[i] = s[i]
  BY <1>4, <1>5, <1>6
<1> QED BY <1>7, <1>8

\* A put of c into the free cells: the bytes that were there and then those of c.
LEMMA PutCells ==
  ASSUME NEW rb, FifoOK(rb), NEW c \in Seq(Int), Len(c) <= BufSize - RingLen(rb), NEW y,
         y = Wrote([rb EXCEPT !.buf = Copied(@, rb.w, c)], Len(c))
  PROVE  /\ FifoOK(y) /\ RingLen(y) = RingLen(rb) + Len(c) /\ y.r = rb.r
         /\ \A i \in 0 .. (RingLen(rb) - 1) : y.buf[Cell(y.r, i)] = rb.buf[Cell(rb.r, i)]
         /\ \A j \in 1 .. Len(c) : y.buf[Cell(y.r, RingLen(rb) + j - 1)] = c[j]
<1> DEFINE L == RingLen(rb)
           r == rb.r
           o == rb.buf
           b == Copied(rb.buf, rb.w, c)
           m == Len(c)
<1>1. L \in 0 .. BufSize /\ L \in Int /\ m \in Nat /\ m <= BufSize - L /\ m \in 0 .. (BufSize - L)
  BY RingLength, RingSizes
<1>2. y = Wrote([rb EXCEPT !.buf = b], m) /\ b = Copied(rb.buf, rb.w, c)
  OBVIOUS
<1> HIDE DEF b
<1>3. /\ b \in [Index -> Int]
      /\ \A i \in Index : b[Cell(r, i)] = IF Behind(i, L) < m THEN c[Behind(i, L) + 1] ELSE o[Cell(r, i)]
  BY <1>2, CopiedAt
<1>4. FifoOK(y) /\ RingLen(y) = L + m /\ y.r = r /\ y.buf = b
  BY <1>1, <1>2, <1>3, WroteOK
<1> HIDE DEF L, r, o, m
<1>5. ASSUME NEW i \in 0 .. (L - 1) PROVE b[Cell(r, i)] = o[Cell(r, i)]
  <2>1. i \in Index /\ ~(Behind(i, L) < m)
    BY <1>1, RingSizes DEF Behind, Index
  <2> QED BY <1>3, <2>1
<1>6. ASSUME NEW j \in 1 .. m PROVE b[Cell(r, L + j - 1)] = c[j]
  <2> DEFINE i == L + j - 1
  <2>1. i \in Index /\ Behind(i, L) = j - 1 /\ j - 1 < m /\ j - 1 + 1 = j
    BY <1>1, RingSizes DEF Behind, Index
  <2> HIDE DEF i
  <2>2. b[Cell(r, i)] = c[j]
    BY <1>3, <2>1
  <2> QED BY <2>2 DEF i
<1> QED BY <1>4, <1>5, <1>6 DEF L, r, o, m

\* n bytes numbered from s on.
Run(s, n) == [i \in 1 .. n |-> Number(s + i - 1)]

LEMMA RunOK ==
  ASSUME NEW s \in Int, NEW n \in Nat
  PROVE  /\ Run(s, n) \in Seq(Int) /\ Len(Run(s, n)) = n
         /\ \A i \in 1 .. n : Run(s, n)[i] = Number(s + i - 1)
<1> DEFINE z == [i \in 1 .. n |-> Number(s + i - 1)]
<1>1. \A i \in 1 .. n : z[i] = Number(s + i - 1) /\ z[i] \in Int
  <2> TAKE i \in 1 .. n
  <2>1. s + i - 1 \in Int
    OBVIOUS
  <2> QED BY <2>1, NumberOK
<1>2. z \in Seq(Int) /\ Len(z) = n
  BY <1>1
<1> HIDE DEF z
<1>3. Run(s, n) = z
  BY Zenon DEF Run, z
<1> QED BY <1>1, <1>2, <1>3

\* A put carries on the numbering, and puts what there is room for.
LEMMA PutHolds ==
  ASSUME NEW rb, NEW g \in Int, NEW s0, RingHolds(rb, g, s0), NEW n \in Nat,
         NEW z, z = Run(s0, n), NEW m, m = PutLen(rb, z), NEW y, y = rt_ringbuffer_put(rb, z)
  PROVE  m \in 0 .. n /\ RingHolds(y, g, Number(s0 + m))
<1> DEFINE L == RingLen(rb)
           r == rb.r
<1>1. /\ FifoOK(rb) /\ s0 = Number(g + L)
      /\ \A i \in 0 .. (L - 1) : rb.buf[Cell(r, i)] = Number(g + i)
  BY DEF RingHolds
<1>2. L \in 0 .. BufSize /\ rt_ringbuffer_space_len(rb) = BufSize - L
  BY <1>1, RingLength
<1> HIDE DEF L, r
<1>3. L \in Int /\ g + L \in Int
  BY <1>2, RingSizes
<1>4. s0 \in Int /\ Number(s0) = s0
  <2>1. s0 \in Int /\ s0 \in 0 .. (Numbers - 1)
    BY <1>1, <1>3, NumberOK
  <2> QED BY <2>1, NumberOK
<1>6. z \in Seq(Int) /\ Len(z) = n /\ \A i \in 1 .. n : z[i] = Number(s0 + i - 1)
  BY <1>4, RunOK
<1> DEFINE p == Length(n)
<1>5. p \in 0 .. n
  BY LengthOK
<1>7. m = IF p < BufSize - L THEN p ELSE BufSize - L
  BY <1>2, <1>6 DEF PutLen, Least
<1> HIDE DEF p
<1>8. m \in 0 .. n /\ m <= BufSize - L /\ m \in Int
  BY <1>2, <1>5, <1>7, RingSizes
<1>9. CASE m = 0
  <2>1. y = rb
    BY <1>9 DEF rt_ringbuffer_put
  <2>2. s0 + m = s0
    BY <1>4, <1>9
  <2> QED BY <1>4, <1>8, <2>1, <2>2
<1>10. CASE m # 0
  <2> DEFINE c == SubSeq(z, 1, m)
  <2>0. m \in 0 .. Len(z)
    BY <1>6, <1>8
  <2>1. c \in Seq(Int) /\ Len(c) = m /\ \A i \in 1 .. m : c[i] = z[i]
    BY <1>6, <2>0, Front
  <2>2. y = Wrote([rb EXCEPT !.buf = Copied(@, rb.w, c)], Len(c))
    BY <1>10, <2>1 DEF rt_ringbuffer_put
  <2> HIDE DEF c
  <2>3. Len(c) <= BufSize - RingLen(rb)
    BY <1>8, <2>1 DEF L
  <2>4. /\ FifoOK(y) /\ RingLen(y) = L + m
        /\ \A i \in 0 .. (L - 1) : y.buf[Cell(y.r, i)] = rb.buf[Cell(r, i)]
        /\ \A j \in 1 .. m : y.buf[Cell(y.r, L + j - 1)] = c[j]
    BY <1>1, <2>1, <2>2, <2>3, PutCells DEF L, r
  <2>5. ASSUME NEW e \in Int PROVE Number(s0 + e) = Number(g + (L + e))
    <3> DEFINE f == g + L
    <3>1. f \in Int /\ f + e = g + (L + e) /\ s0 = Number(f)
      BY <1>1, <1>3
    <3> HIDE DEF f
    <3>2. Number(Number(f) + e) = Number(f + e)
      BY <3>1, NumberOK
    <3> QED BY <3>1, <3>2
  <2>7. ASSUME NEW i \in 0 .. (L + m - 1) PROVE y.buf[Cell(y.r, i)] = Number(g + i)
    <3>2. CASE i < L
      <4>1. i \in 0 .. (L - 1)
        BY <1>3, <3>2
      <4> QED BY <1>1, <2>4, <4>1
    <3>3. CASE i >= L
      <4> DEFINE j == i - L + 1
                 e == i - L
      <4>1. /\ j \in 1 .. m /\ j \in 1 .. n /\ e \in Int /\ L + j - 1 = i /\ s0 + j - 1 = s0 + e
            /\ g + (L + e) = g + i
        BY <1>3, <1>4, <1>8, <3>3
      <4> HIDE DEF j, e
      <4>2. y.buf[Cell(y.r, i)] = c[j]
        BY <2>4, <4>1
      <4>3. c[j] = Number(s0 + j - 1)
        BY <1>6, <2>1, <4>1
      <4> QED BY <2>5, <4>1, <4>2, <4>3
    <3> QED BY <1>3, <1>8, <3>2, <3>3
  <2>8. Number(s0 + m) = Number(g + (L + m))
    BY <1>8, <2>5
  <2> DEFINE q == RingLen(y)
  <2>9. q = L + m
    BY <2>4
  <2> HIDE DEF q
  <2>10. Number(s0 + m) = Number(g + q)
    BY <2>8, <2>9
  <2>12. ASSUME NEW i \in 0 .. (q - 1) PROVE y.buf[Cell(y.r, i)] = Number(g + i)
    <3>1. i \in 0 .. (L + m - 1)
      BY <1>3, <1>8, <2>9
    <3> QED BY <2>7, <3>1
  <2>11. RingHolds(y, g, Number(s0 + m))
    BY <2>4, <2>10, <2>12 DEF RingHolds, q
  <2> QED BY <1>8, <2>11
<1> QED BY <1>9, <1>10

\* A get carries on from the oldest byte.
LEMMA DrainHolds ==
  ASSUME NEW rb, NEW g \in Int, NEW s0, RingHolds(rb, g, s0), NEW n \in 0 .. RingLen(rb),
         NEW y, y = Drained(rb, n)
  PROVE  RingHolds(y, Number(g + n), s0)
<1> DEFINE L == RingLen(rb)
           r == rb.r
           h == Number(g + n)
<1>1. /\ FifoOK(rb) /\ s0 = Number(g + L)
      /\ \A i \in 0 .. (L - 1) : rb.buf[Cell(r, i)] = Number(g + i)
  BY DEF RingHolds
<1>2. L \in 0 .. BufSize /\ r \in Index
  BY <1>1, RingLength, FifoFields
<1>3. FifoOK(y) /\ RingLen(y) = L - n /\ y.r = Cell(r, n) /\ y.buf = rb.buf
  BY <1>1, DrainedOK
<1> HIDE DEF L, r
<1>4. n \in 0 .. BufSize /\ n \in Int /\ L \in Int /\ n <= L /\ n >= 0
  BY <1>2, RingSizes DEF L
<1>5. ASSUME NEW i \in Int PROVE Number(h + i) = Number(g + (n + i))
  <2>1. g + n + i = g + (n + i)
    BY <1>4
  <2>2. g + n \in Int
    BY <1>4
  <2> DEFINE e == g + n
  <2>3. h = Number(e) /\ e \in Int /\ e + i = g + (n + i)
    BY <2>1, <2>2
  <2> HIDE DEF e, h
  <2>4. Number(Number(e) + i) = Number(e + i)
    BY <2>3, NumberOK
  <2> QED BY <2>3, <2>4
<1> HIDE DEF h
<1>6. s0 = Number(h + (L - n))
  <2>1. L - n \in Int /\ g + (n + (L - n)) = g + L
    BY <1>4
  <2> QED BY <1>1, <1>5, <2>1
<1>7. ASSUME NEW i \in 0 .. (L - n - 1) PROVE y.buf[Cell(y.r, i)] = Number(h + i)
  <2>1. i \in Nat /\ n + i \in 0 .. (L - 1) /\ n + i < BufSize /\ i \in Int
    BY <1>2, <1>4, RingSizes
  <2>2. Cell(Cell(r, n), i) = Cell(r, n + i)
    BY <1>2, <1>4, <2>1, CellTwice
  <2> QED BY <1>1, <1>3, <1>5, <2>1, <2>2
<1> QED BY <1>3, <1>6, <1>7 DEF RingHolds, h

LEMMA GetHolds ==
  ASSUME NEW rb, NEW g \in Int, NEW s0, RingHolds(rb, g, s0), NEW n \in Nat,
         NEW m, m = GetLen(rb, n), NEW y, y = rt_ringbuffer_get(rb, n)
  PROVE  m \in Nat /\ (m > 0 => RingHolds(y, Number(g + m), s0))
<1> DEFINE L == RingLen(rb)
<1>1. FifoOK(rb)
  BY DEF RingHolds
<1>2. L \in 0 .. BufSize /\ rt_ringbuffer_data_len(rb) = L
  BY <1>1, RingLength
<1> DEFINE p == Length(n)
<1>6. p \in 0 .. n
  BY LengthOK
<1>3. m = IF p < L THEN p ELSE L
  BY <1>2 DEF GetLen, Least
<1> HIDE DEF L, p
<1>4. m \in Nat /\ m \in 0 .. L /\ (m > 0 => L # 0)
  BY <1>2, <1>3, <1>6, RingSizes
<1>5. ASSUME m > 0 PROVE RingHolds(y, Number(g + m), s0)
  <2>1. y = Drained(rb, m)
    BY <1>2, <1>4, <1>5 DEF rt_ringbuffer_get
  <2> QED BY <1>4, <2>1, DrainHolds DEF L
<1> QED BY <1>4, <1>5

LEMMA NewHolds ==
  RingHolds(NewFifo, 0, 0) /\ 0 \in 0 .. (Numbers - 1)
<1> DEFINE b == [i \in Index |-> 0]
           f == NewFifo
<1>1. f = [r |-> 0, rm |-> 0, w |-> 0, wm |-> 0, buf |-> b]
  BY DEF NewFifo, NewRing
<1>2. b \in [Index -> Int] /\ 0 \in Index
  BY RingSizes DEF Index
<1> HIDE DEF b, f
<1>3. f \in RingType /\ f.r = 0 /\ f.w = 0 /\ f.rm = 0 /\ f.wm = 0
  BY <1>1, <1>2 DEF RingType
<1>4. FifoOK(f) /\ RingLen(f) = 0
  BY <1>3 DEF FifoOK, RingLen
<1>5. 0 \in 0 .. (Numbers - 1) /\ 0 + 0 = 0 /\ 0 .. (0 - 1) = {}
  BY RingSizes
<1>6. Number(0) = 0
  BY <1>5, NumberOK
<1> QED BY <1>4, <1>5, <1>6 DEF RingHolds, f
-----------------------------------------------------------------------------
(* The invariant. *)

LEMMA InsidePasses ==
  ASSUME PipeInvariant, NEW t, NEW l, NEW m \in PipePC, Inside(t, l, m), l \notin PipeLeaving,
         l # "run"
  PROVE  Passes(t, l, m)
<1>1. At(t, l) /\ Goto(t, m) /\ k' = k /\ lock' = lock /\ queue' = queue
  BY DEF Inside
<1>2. PipeLists /\ PipeObjects
  BY DEF PipeInvariant
<1>3. PipeObjects'
  BY <1>1, <1>2 DEF PipeObjects
<1> QED BY <1>1, <1>2, <1>3, PipeStill DEF Passes

\* A call of an open pipe, or of one to be opened.
LEMMA CallPasses ==
  ASSUME PipeInvariant, NEW t \in PipeUsers, NEW m \in PipePC, Call(t, m)
  PROVE  Passes(t, "run", m)
<1>1. At(t, "run") /\ Goto(t, m) /\ k' = k /\ lock' = lock /\ queue' = queue
  BY DEF Call
<1>2. PipeLists /\ PipeObjects /\ "run" \notin PipeLeaving
  BY DEF PipeInvariant, PipeLeaving
<1>3. PipeObjects'
  BY <1>1, <1>2 DEF PipeObjects
<1> QED BY <1>1, <1>2, <1>3, PipeStill DEF Passes

LEMMA PassedStep ==
  ASSUME NEW t, NEW l, NEW m, Passes(t, l, m), EndsOK', BytesOK'
  PROVE  PipeInvariant'
BY DEF Passes, PipeInvariant

\* A step that puts and gets nothing.
LEMMA BytesKept ==
  ASSUME BytesOK, UNCHANGED <<bytes, open>>, left' \in [Thread -> Nat]
  PROVE  BytesOK'
<1>1. fifo' = fifo /\ sent' = sent /\ fetched' = fetched /\ open' = open
  BY DEF bytes
<1> QED BY <1>1 DEF BytesOK

LEMMA PassKeeps ==
  ASSUME PipeInvariant, NEW t, NEW l, NEW m, Passes(t, l, m), Alike(l, m),
         UNCHANGED <<readers, writers, ref, named, open, bytes>>, left' \in [Thread -> Nat]
  PROVE  PipeInvariant'
<1>1. EndsOK /\ BytesOK
  BY DEF PipeInvariant
<1>2. EndsOK'
  BY <1>1, EndsAlike DEF Passes
<1>3. BytesOK'
  BY <1>1, BytesKept
<1> QED BY <1>2, <1>3, PassedStep

LEMMA LeftSet ==
  ASSUME BytesOK, NEW t, NEW n \in Nat, left' = [left EXCEPT ![t] = n]
  PROVE  left' \in [Thread -> Nat]
BY DEF BytesOK

\* Out of "run" and into a call that leaves the same known of the caller.
LEMMA CallEnds ==
  ASSUME PipeInvariant, NEW t, NEW m, Passes(t, "run", m),
         m \in Opening \cup Working, m \in Opening => named, m \in Opening => t \notin open,
         m \in Working => t \in open,
         UNCHANGED <<readers, writers, ref, named, open, bytes>>, left' \in [Thread -> Nat]
  PROVE  PipeInvariant'
<1>1. EndsOK /\ BytesOK
  BY DEF PipeInvariant
<1>2. /\ m \in Opening => m \notin Working \cup Off \cup Closed
      /\ m \in Working => m \notin Opening \cup Off \cup Closed
      /\ "run" \notin Off /\ m # "c_del"
  BY DEF Opening, Working, Off, Closed
<1>3. EndsOK'
  BY <1>1, <1>2, EndsKept DEF Passes
<1>4. BytesOK'
  BY <1>1, BytesKept
<1> QED BY <1>3, <1>4, PassedStep

LEMMA ServicesStep ==
  ASSUME PipeInvariant, NEW t, Services(t)
  PROVE  PipeInvariant'
<1>1. PICK l, m : Passes(t, l, m) /\ Alike(l, m)
  BY ServicesPass DEF PipeInvariant
<1>2. UNCHANGED <<readers, writers, ref, named, open, bytes>> /\ left' = left
  BY DEF Services, ends, local
<1>3. left' \in [Thread -> Nat]
  BY <1>2 DEF PipeInvariant, BytesOK
<1> QED BY <1>1, <1>2, <1>3, PassKeeps

LEMMA OpenCallStep ==
  ASSUME PipeInvariant, NEW t, NEW nb, OpenCall(t, nb)
  PROVE  PipeInvariant'
<1>1. /\ t \in PipeUsers /\ t \notin open /\ named /\ Call(t, "o_take") /\ left' = left
      /\ UNCHANGED <<readers, writers, ref, named, open, bytes>>
  BY DEF OpenCall, PipeUsers, Call, local
<1>2. "o_take" \in PipePC /\ "o_take" \in Opening
  BY DEF PipePC, Opening
<1>3. Passes(t, "run", "o_take")
  BY <1>1, <1>2, CallPasses
<1>4. left' \in [Thread -> Nat]
  BY <1>1 DEF PipeInvariant, BytesOK
<1>5. "o_take" \notin Working
  BY DEF Working
<1> QED BY <1>1, <1>2, <1>3, <1>4, <1>5, CallEnds

LEMMA CloseCallStep ==
  ASSUME PipeInvariant, NEW t, CloseCall(t)
  PROVE  PipeInvariant'
<1>1. /\ t \in open /\ Call(t, "c_take") /\ left' = left
      /\ UNCHANGED <<readers, writers, ref, named, open, bytes>>
  BY DEF CloseCall, Call, local, ends
<1>2. "c_take" \in PipePC /\ "c_take" \in Working /\ "c_take" \notin Opening
  BY DEF PipePC, Working, Opening
<1>3. t \in PipeUsers
  BY <1>1 DEF PipeInvariant, EndsOK
<1>4. Passes(t, "run", "c_take")
  BY <1>1, <1>2, <1>3, CallPasses
<1>5. left' \in [Thread -> Nat]
  BY <1>1 DEF PipeInvariant, BytesOK
<1> QED BY <1>1, <1>2, <1>4, <1>5, CallEnds

LEMMA TransferCallStep ==
  ASSUME PipeInvariant, NEW t, NEW n \in CallCounts, ReadCall(t, n) \/ WriteCall(t, n)
  PROVE  PipeInvariant'
<1>1. PICK m \in {"r_take", "w_take"} :
        /\ t \in open /\ Call(t, m) /\ left' = [left EXCEPT ![t] = n]
        /\ UNCHANGED <<readers, writers, ref, named, open, bytes>>
  BY DEF ReadCall, WriteCall, Call, ends
<1>2. m \in PipePC /\ m \in Working /\ m \notin Opening
  BY DEF PipePC, Working, Opening
<1>3. t \in PipeUsers
  BY <1>1 DEF PipeInvariant, EndsOK
<1>4. Passes(t, "run", m)
  BY <1>1, <1>2, <1>3, CallPasses
<1>5. left' \in [Thread -> Nat]
  BY <1>1, PipeAssumption, LeftSet DEF PipeInvariant
<1> QED BY <1>1, <1>2, <1>4, <1>5, CallEnds

LEMMA OpenCountStep ==
  ASSUME PipeInvariant, NEW t, OpenCount(t)
  PROVE  PipeInvariant'
<1>1. /\ Inside(t, "o_count", "o_out") /\ fifo' = (IF ref = 0 THEN NewFifo ELSE fifo)
      /\ sent' = sent /\ fetched' = fetched /\ open' = open \cup {t} /\ left' = left
  BY DEF OpenCount, local
<1>2. "o_count" \notin PipeLeaving /\ "o_out" \in PipePC
  BY DEF PipeLeaving, PipePC, Working
<1>3. Passes(t, "o_count", "o_out")
  BY <1>1, <1>2, InsidePasses
<1>4. EndsOK' /\ t \notin open /\ ref = Cardinality(open)
  BY <1>3, OpenCountEnds DEF Passes, PipeInvariant
<1>5. BytesOK /\ open \subseteq Thread /\ t \in Thread
  BY <1>3, AttachedType DEF PipeInvariant, Passes
<1>6. ref = 0 <=> open = {}
  BY <1>4, <1>5, OpenFinite
<1>7. RingHolds(fifo', fetched', sent')
  <2>1. CASE ref = 0
    BY <1>1, <1>5, <1>6, <2>1, NewHolds DEF BytesOK
  <2>2. CASE ref # 0
    BY <1>1, <1>5, <1>6, <2>2 DEF BytesOK
  <2> QED BY <2>1, <2>2
<1>8. open' # {} /\ left' \in [Thread -> Nat] /\ sent' \in 0 .. (Numbers - 1) /\ fetched' \in 0 .. (Numbers - 1)
  BY <1>1, <1>5 DEF BytesOK
<1>9. BytesOK'
  BY <1>7, <1>8 DEF BytesOK
<1> QED BY <1>3, <1>4, <1>9, PassedStep

LEMMA CloseCountStep ==
  ASSUME PipeInvariant, NEW t, CloseCount(t)
  PROVE  PipeInvariant'
<1> DEFINE m == IF writers' = 0 THEN "c_hup" ELSE "c_err"
<1>1. Inside(t, "c_count", m) /\ left' = left /\ UNCHANGED <<bytes, open>>
  BY DEF CloseCount, Inside, local
<1>2. "c_count" \notin PipeLeaving /\ m \in PipePC /\ m \in {"c_hup", "c_err"}
  BY DEF PipeLeaving, PipePC, Off
<1> HIDE DEF m
<1>3. Passes(t, "c_count", m)
  BY <1>1, <1>2, InsidePasses
<1>4. EndsOK'
  BY <1>2, <1>3, CloseCountEnds DEF Passes, PipeInvariant
<1>5. left' \in [Thread -> Nat] /\ BytesOK
  BY <1>1 DEF PipeInvariant, BytesOK
<1>6. BytesOK'
  BY <1>1, <1>5, BytesKept
<1> QED BY <1>3, <1>4, <1>6, PassedStep

LEMMA CloseErrStep ==
  ASSUME PipeInvariant, NEW t, CloseErr(t)
  PROVE  PipeInvariant'
<1> DEFINE m == IF readers = 0 THEN "c_fin" ELSE "c_ref"
<1>1. /\ Inside(t, "c_err", m) /\ left' = left
      /\ UNCHANGED <<readers, writers, ref, named, open, bytes>>
  BY DEF CloseErr, local, ends
<1>2. "c_err" \notin PipeLeaving /\ m \in PipePC /\ Alike("c_err", m)
  BY DEF PipeLeaving, PipePC, Alike, Opening, Closed, Working, Off
<1> HIDE DEF m
<1>3. Passes(t, "c_err", m)
  BY <1>1, <1>2, InsidePasses
<1>4. left' \in [Thread -> Nat]
  BY <1>1 DEF PipeInvariant, BytesOK
<1> QED BY <1>1, <1>2, <1>3, <1>4, PassKeeps

LEMMA CloseRefStep ==
  ASSUME PipeInvariant, NEW t, CloseRef(t)
  PROVE  PipeInvariant'
<1>1. /\ Inside(t, "c_ref", "c_out") /\ open' = open \ {t} /\ left' = left
      /\ ref = 1 => sent' = 0 /\ fetched' = 0
      /\ ref # 1 => fifo' = fifo /\ sent' = sent /\ fetched' = fetched
  BY DEF CloseRef, local, bytes
<1>2. "c_ref" \notin PipeLeaving /\ "c_out" \in PipePC
  BY DEF PipeLeaving, PipePC, Closed
<1>3. Passes(t, "c_ref", "c_out")
  BY <1>1, <1>2, InsidePasses
<1>4. EndsOK' /\ t \in open /\ ref = Cardinality(open)
  BY <1>3, CloseRefEnds DEF Passes, PipeInvariant
<1>5. BytesOK /\ open \subseteq Thread /\ t \in Thread
  BY <1>3, AttachedType DEF PipeInvariant, Passes
<1>6. ref = 1 <=> open' = {}
  <2>1. Cardinality(open') = ref - 1 /\ ref \in Nat /\ open' \subseteq Thread
    BY <1>1, <1>4, <1>5, OpenFinite
  <2>2. Cardinality(open') = 0 <=> open' = {}
    BY <1>5, <2>1, OpenFinite
  <2> QED BY <2>1, <2>2
<1>7. left' \in [Thread -> Nat]
  BY <1>1, <1>5 DEF BytesOK
<1>8. ASSUME ref = 1 PROVE BytesOK'
  BY <1>1, <1>6, <1>7, <1>8, NewHolds DEF BytesOK
<1>9. ASSUME ref # 1 PROVE BytesOK'
  BY <1>1, <1>4, <1>5, <1>6, <1>7, <1>9 DEF BytesOK
<1> QED BY <1>3, <1>4, <1>8, <1>9, PassedStep

LEMMA CloseLastStep ==
  ASSUME PipeInvariant, NEW t, CloseLast(t)
  PROVE  PipeInvariant'
<1> DEFINE m == CASE ref < 0           -> "crashed"
                  [] ref = 0 /\ ~named -> "c_del"
                  [] OTHER             -> "run"
<1>1. /\ Inside(t, "c_last", m) /\ left' = left
      /\ UNCHANGED <<readers, writers, ref, named, open, bytes>>
  BY DEF CloseLast, local, ends
<1>0. ref \in Int
  <2>1. Cardinality(open) \in Nat
    BY PipeFacts, AttachedType, OpenFinite, KernelAssumption DEF PipeInvariant
  <2> QED BY <2>1 DEF PipeInvariant, EndsOK
<1>2. /\ m \in {"crashed", "c_del", "run"} /\ (m = "c_del" => ref = 0 /\ ~named)
  BY <1>0
<1> HIDE DEF m
<1>3. /\ "c_last" \notin PipeLeaving /\ m \in PipePC /\ m \notin Opening \cup Working \cup Off
      /\ "c_last" \in Closed /\ "c_last" \notin Off
  BY <1>2 DEF PipeLeaving, PipePC, Opening, Closed, Working, Off
<1>4. Passes(t, "c_last", m)
  BY <1>1, <1>3, InsidePasses
<1>5. EndsOK /\ BytesOK /\ open \subseteq Thread /\ t \in Thread
  BY <1>4, AttachedType DEF PipeInvariant, Passes
<1>6. m = "c_del" => ~named /\ open = {}
  <2>1. Cardinality(open) = 0 <=> open = {}
    BY <1>5, OpenFinite
  <2> QED BY <1>2, <1>5, <2>1 DEF EndsOK
<1>7. t \notin open
  BY <1>3, <1>4, <1>5 DEF EndsOK, Passes
<1>8. EndsOK'
  BY <1>1, <1>3, <1>4, <1>5, <1>6, <1>7, EndsKept DEF Passes
<1>9. left' \in [Thread -> Nat]
  BY <1>1, <1>5 DEF BytesOK
<1>10. BytesOK'
  BY <1>1, <1>5, <1>9, BytesKept
<1> QED BY <1>4, <1>8, <1>10, PassedStep

LEMMA DeleteStep ==
  ASSUME PipeInvariant, NEW t, rt_pipe_delete(t)
  PROVE  PipeInvariant'
<1> DEFINE m == IF ref < 0 THEN "crashed" ELSE "run"
<1>1. Inside(t, "c_del", m) /\ left' = left /\ UNCHANGED <<open, bytes>>
  BY DEF rt_pipe_delete, local
<1>2. "c_del" \notin PipeLeaving /\ m \in PipePC /\ m \in {"crashed", "run"}
  BY DEF PipeLeaving, PipePC, Closed
<1> HIDE DEF m
<1>3. Passes(t, "c_del", m)
  BY <1>1, <1>2, InsidePasses
<1>4. EndsOK'
  BY <1>2, <1>3, DeleteEnds DEF Passes, PipeInvariant
<1>5. left' \in [Thread -> Nat] /\ BytesOK
  BY <1>1 DEF PipeInvariant, BytesOK
<1>6. BytesOK'
  BY <1>1, <1>5, BytesKept
<1> QED BY <1>3, <1>4, <1>6, PassedStep

LEMMA BytesTypes ==
  ASSUME BytesOK
  PROVE  /\ left \in [Thread -> Nat] /\ sent \in Int /\ fetched \in Int
         /\ \A t \in Thread : left[t] \in Nat
BY RingSizes DEF BytesOK

LEMMA ReadGetStep ==
  ASSUME PipeInvariant, NEW t, ReadGet(t)
  PROVE  PipeInvariant'
<1> DEFINE n == left[t]
           m == GetLen(fifo, left[t])
           y == rt_ringbuffer_get(fifo, left[t])
<1>1. /\ Inside(t, "r_look", "r_wake") /\ m > 0 /\ fifo' = y /\ left' = [left EXCEPT ![t] = 0]
      /\ sent' = sent /\ UNCHANGED <<readers, writers, ref, named, open>>
  BY DEF ReadGet, ends
<1>2. fetched' = Number(fetched + m)
  BY Zenon DEF ReadGet, Number
<1>3. "r_look" \notin PipeLeaving /\ "r_wake" \in PipePC /\ Alike("r_look", "r_wake")
  BY DEF PipeLeaving, PipePC, Alike, Opening, Closed, Working, Off
<1>4. Passes(t, "r_look", "r_wake")
  BY <1>1, <1>3, InsidePasses
<1>5. EndsOK /\ BytesOK /\ t \in Thread /\ pc[t] = "r_look" /\ n \in Nat /\ fetched \in Int
  BY <1>4, BytesTypes DEF PipeInvariant, Passes
<1>6. EndsOK'
  BY <1>1, <1>3, <1>4, <1>5, EndsAlike DEF Passes
<1>7. open # {}
  BY <1>5 DEF EndsOK, Working
<1>8. RingHolds(fifo, fetched, sent)
  BY <1>5, <1>7 DEF BytesOK
<1>9. m = GetLen(fifo, n) /\ y = rt_ringbuffer_get(fifo, n)
  OBVIOUS
<1> HIDE DEF n, m, y
<1>10. m \in Nat /\ RingHolds(y, Number(fetched + m), sent)
  BY <1>1, <1>5, <1>8, <1>9, GetHolds
<1>11. Number(fetched + m) \in 0 .. (Numbers - 1)
  BY <1>5, <1>10, NumberOK
<1>12. left' \in [Thread -> Nat]
  BY <1>1, <1>5, LeftSet
<1>13. BytesOK'
  BY <1>1, <1>2, <1>5, <1>7, <1>10, <1>11, <1>12 DEF BytesOK
<1> QED BY <1>4, <1>6, <1>13, PassedStep

LEMMA ReadNothingStep ==
  ASSUME PipeInvariant, NEW t, ReadNothing(t)
  PROVE  PipeInvariant'
<1> DEFINE m == IF writers = 0 \/ t \in nonblock THEN "r_out" ELSE "r_rel"
<1>1. /\ Inside(t, "r_look", m) /\ (left' = [left EXCEPT ![t] = 0] \/ left' = left)
      /\ UNCHANGED <<readers, writers, ref, named, open, bytes>>
  BY DEF ReadNothing, ends
<1>2. "r_look" \notin PipeLeaving /\ m \in PipePC /\ Alike("r_look", m)
  BY DEF PipeLeaving, PipePC, Alike, Opening, Closed, Working, Off
<1> HIDE DEF m
<1>3. Passes(t, "r_look", m)
  BY <1>1, <1>2, InsidePasses
<1>4. BytesOK
  BY DEF PipeInvariant
<1>5. left' \in [Thread -> Nat]
  BY <1>1, <1>4, LeftSet, BytesTypes
<1> QED BY <1>1, <1>2, <1>3, <1>5, PassKeeps

LEMMA WritePutStep ==
  ASSUME PipeInvariant, NEW t, WritePut(t)
  PROVE  PipeInvariant'
<1> DEFINE n == left[t]
           z == Sent(left[t])
           m == PutLen(fifo, Sent(left[t]))
           y == rt_ringbuffer_put(fifo, Sent(left[t]))
           l == IF m = left[t] \/ t \in nonblock THEN "w_out" ELSE "w_rel"
<1>1. /\ Inside(t, "w_look", l) /\ fifo' = y /\ left' = [left EXCEPT ![t] = @ - m]
      /\ fetched' = fetched /\ UNCHANGED <<readers, writers, ref, named, open>>
  BY DEF WritePut, ends
<1>2. sent' = Number(sent + m)
  BY Zenon DEF WritePut, Number
<1>3. "w_look" \notin PipeLeaving /\ l \in PipePC /\ Alike("w_look", l)
  BY DEF PipeLeaving, PipePC, Alike, Opening, Closed, Working, Off
<1>9. z = Run(sent, n) /\ m = PutLen(fifo, z) /\ y = rt_ringbuffer_put(fifo, z)
  BY Zenon DEF Sent, Run, Number
<1> HIDE DEF z, m, y, l
<1>4. Passes(t, "w_look", l)
  BY <1>1, <1>3, InsidePasses
<1>5. /\ EndsOK /\ BytesOK /\ t \in Thread /\ pc[t] = "w_look" /\ n \in Nat /\ fetched \in Int
      /\ sent \in Int /\ left \in [Thread -> Nat]
  BY <1>4, BytesTypes DEF PipeInvariant, Passes
<1>6. EndsOK'
  BY <1>1, <1>3, <1>4, <1>5, EndsAlike DEF Passes
<1>7. open # {}
  BY <1>5 DEF EndsOK, Working
<1>8. RingHolds(fifo, fetched, sent)
  BY <1>5, <1>7 DEF BytesOK
<1> DEFINE d == n - m
<1>0. left' = [left EXCEPT ![t] = d]
  BY <1>1, <1>5
<1> HIDE DEF n
<1>10. m \in 0 .. n /\ RingHolds(y, fetched, Number(sent + m))
  BY <1>5, <1>8, <1>9, PutHolds
<1>11. Number(sent + m) \in 0 .. (Numbers - 1) /\ d \in Nat
  BY <1>5, <1>10, NumberOK
<1> HIDE DEF d
<1>12. left' \in [Thread -> Nat]
  BY <1>0, <1>5, <1>11, LeftSet
<1>13. BytesOK'
  BY <1>1, <1>2, <1>5, <1>7, <1>10, <1>11, <1>12 DEF BytesOK
<1> QED BY <1>4, <1>6, <1>13, PassedStep

LEMMA WriteEndStep ==
  ASSUME PipeInvariant, NEW t, WriteBroken(t) \/ WriteTell(t)
  PROVE  PipeInvariant'
<1>1. /\ \/ Inside(t, "w_look", "w_out")
         \/ Inside(t, "w_tell", "w_wake")
         \/ Inside(t, "w_tell", "run")
      /\ left' = [left EXCEPT ![t] = 0] \/ left' = left
      /\ UNCHANGED <<readers, writers, ref, named, open, bytes>>
  BY DEF WriteBroken, WriteTell, ends, local
<1>2. PICK l, m : /\ Inside(t, l, m) /\ l \notin PipeLeaving /\ l # "run" /\ m \in PipePC
                  /\ Alike(l, m)
  BY <1>1 DEF PipeLeaving, PipePC, Alike, Opening, Closed, Working, Off
<1>3. Passes(t, l, m)
  BY <1>2, InsidePasses
<1>4. BytesOK
  BY DEF PipeInvariant
<1>5. left' \in [Thread -> Nat]
  BY <1>1, <1>4, LeftSet, BytesTypes
<1> QED BY <1>1, <1>2, <1>3, <1>5, PassKeeps

LEMMA PipeSliceStep ==
  ASSUME PipeInvariant, Slice
  PROVE  PipeInvariant'
<1>1. /\ TickSlice /\ lock' = lock /\ queue' = queue /\ left' = left
      /\ UNCHANGED <<readers, writers, ref, named, open, bytes>>
  BY DEF Slice, ends, local
<1>2. PipeLists' /\ pc' = pc
  BY <1>1, PipeSlice DEF PipeInvariant
<1>3. PipeObjects'
  BY <1>1 DEF PipeInvariant, PipeObjects
<1>4. EndsOK'
  BY <1>1, <1>2 DEF PipeInvariant, EndsOK, Attached
<1>5. BytesOK'
  BY <1>1, BytesKept DEF PipeInvariant, BytesOK
<1> QED BY <1>2, <1>3, <1>4, <1>5 DEF PipeInvariant

LEMMA PipeStutter ==
  ASSUME PipeInvariant, UNCHANGED pipeVars
  PROVE  PipeInvariant'
<1>1. /\ k' = k /\ pc' = pc /\ lock' = lock /\ queue' = queue /\ left' = left
      /\ UNCHANGED <<readers, writers, ref, named, open, bytes>>
  BY DEF pipeVars, ends, local
<1>2. PipeLists'
  BY <1>1 DEF PipeInvariant, PipeLists, IpcOK
<1>3. PipeObjects'
  BY <1>1 DEF PipeInvariant, PipeObjects
<1>4. EndsOK'
  BY <1>1 DEF PipeInvariant, EndsOK, Attached
<1>5. BytesOK'
  BY <1>1, BytesKept DEF PipeInvariant, BytesOK
<1> QED BY <1>2, <1>3, <1>4, <1>5 DEF PipeInvariant

LEMMA PipeStep ==
  ASSUME PipeInvariant, PipeNext
  PROVE  PipeInvariant'
<1>1. ASSUME NEW t, PipeCall(t) PROVE PipeInvariant'
  BY <1>1, ServicesStep, OpenCountStep, CloseCountStep, CloseErrStep, CloseRefStep,
     CloseLastStep, DeleteStep, ReadGetStep, ReadNothingStep, WritePutStep, WriteEndStep
     DEF PipeCall
<1> QED BY <1>1, OpenCallStep, CloseCallStep, TransferCallStep, PipeSliceStep DEF PipeNext

LEMMA PipeStarts == ASSUME PipeInit PROVE PipeInvariant
<1>1. /\ IpcInit /\ lock = Unlocked /\ named \in BOOLEAN
      /\ open = IF named THEN {} ELSE PipeUsers
      /\ readers = IF named THEN 0 ELSE Cardinality(Readers)
      /\ writers = IF named THEN 0 ELSE Cardinality(Writers)
      /\ ref = Cardinality(open)
      /\ queue = [rd |-> EmptyQueue, wr |-> EmptyQueue]
      /\ fifo = (IF named THEN RT_NULL ELSE NewFifo) /\ sent = 0 /\ fetched = 0
      /\ left = [t \in Thread |-> 0]
  BY DEF PipeInit, PipeUsers
<1>2. "run" \in PipePC /\ "run" \notin Opening \cup Closed \cup Working \cup Off
  BY DEF PipePC, Opening, Closed, Working, Off
<1>3. IpcOK(PipePC, PipeSuspends, PipeLeaving) /\ pc = [t \in Thread |-> "run"]
  BY <1>1, <1>2, IpcStart DEF IpcInit
<1>4. PipeLists
  BY <1>3 DEF PipeLists
<1>5. PipeObjects
  <2>1. lock \in [owner : (Thread \ {Idle}) \cup {RT_NULL}, orig : Prio]
    BY <1>1, KernelAssumption DEF Unlocked, Prio, RT_THREAD_PRIORITY_MAX
  <2>2. EmptyQueue \in PipeQueue
    BY DEF EmptyQueue, PipeQueue
  <2>3. queue \in [{"rd", "wr"} -> PipeQueue]
    BY <1>1, <2>2
  <2> QED BY <2>1, <2>3 DEF PipeObjects
<1>6. EndsOK
  <2>1. open \subseteq PipeUsers
    BY <1>1
  <2>2. \A t \in Thread : pc[t] \notin Opening \cup Closed \cup Working \cup Off /\ pc[t] # "c_del"
    BY <1>2, <1>3 DEF Closed
  <2>3. ASSUME NEW S, S \subseteq PipeUsers
        PROVE  Attached(S) = IF named THEN {} ELSE S
    BY <1>1, <2>1, <2>2, <2>3, PipeFacts DEF Attached
  <2>4. Attached(Readers) = (IF named THEN {} ELSE Readers) /\ Attached(Writers) = IF named THEN {} ELSE Writers
    BY <2>3 DEF PipeUsers
  <2>5. Cardinality({}) = 0
    BY FS_EmptySet
  <2>6. readers = Cardinality(Attached(Readers)) /\ writers = Cardinality(Attached(Writers))
    BY <1>1, <2>4, <2>5
  <2> QED BY <1>1, <2>1, <2>2, <2>6 DEF EndsOK
<1>7. BytesOK
  <2>1. open # {} => fifo = NewFifo
    BY <1>1
  <2> QED BY <1>1, <2>1, NewHolds DEF BytesOK
<1> QED BY <1>4, <1>5, <1>6, <1>7 DEF PipeInvariant

\* The inductive invariant of Pipe.tla, for any threads, either end of the pipe shared by
\* any number of them, any ring buffer and any counts: who has the pipe open and is still
\* counted, the references, the mutex and the queues, and where each byte is.
THEOREM PipeInvariance == PipeSpec => []PipeInvariant
<1>1. PipeInit => PipeInvariant
  BY PipeStarts
<1>2. PipeInvariant /\ [PipeNext]_pipeVars => PipeInvariant'
  BY PipeStep, PipeStutter
<1> QED BY <1>1, <1>2, PTL DEF PipeSpec

\* InOrder of Pipe.tla, for every ring buffer: what has been written and not read is in
\* the buffer, in order, however puts and gets wrap round its end, are cut short and come
\* between opening and closing.
THEOREM InOrderCorrect == PipeSpec => []InOrder
<1>1. PipeInvariant => InOrder
  <2>1. SUFFICES ASSUME PipeInvariant PROVE InOrder
    OBVIOUS
  <2>2. PipeLists /\ PipeObjects /\ EndsOK /\ BytesOK
    BY <2>1 DEF PipeInvariant
  <2>3. PipeTypeOK
    <3>1. k \in KernelState /\ lock \in [owner : Thread \cup {RT_NULL}, orig : Prio]
      <4>1. k \in KernelState
        BY <2>2, PipeKernel
      <4>2. lock \in [owner : Thread \cup {RT_NULL}, orig : Prio]
        BY <2>2 DEF PipeObjects
      <4> QED BY <4>1, <4>2
    <3>2. ASSUME NEW S, S \subseteq PipeUsers
          PROVE  Cardinality(Attached(S)) \in 0 .. Cardinality(S)
      <4>1. S \subseteq Thread /\ Attached(S) \subseteq S
        BY <3>2, PipeFacts DEF Attached
      <4>2. IsFiniteSet(S)
        BY <4>1, ThreadFinite, FS_Subset
      <4>3. IsFiniteSet(Attached(S)) /\ Cardinality(Attached(S)) <= Cardinality(S)
        BY <4>1, <4>2, FS_Subset
      <4>4. Cardinality(Attached(S)) \in Nat /\ Cardinality(S) \in Nat
        BY <4>2, <4>3, FS_CardinalityType
      <4> QED BY <4>3, <4>4
    <3>3. readers \in 0 .. Cardinality(Readers) /\ writers \in 0 .. Cardinality(Writers)
      BY <2>2, <3>2 DEF EndsOK, PipeUsers
    <3>4. open \subseteq Thread
      BY <2>2, AttachedType
    <3>5. ref \in -1 .. Cardinality(Thread)
      <4>1. /\ Cardinality(open) \in Nat /\ Cardinality(Thread) \in Nat
            /\ Cardinality(open) <= Cardinality(Thread)
        BY <3>4, OpenFinite, KernelAssumption
      <4> QED BY <2>2, <4>1 DEF EndsOK
    <3> QED BY <3>1, <3>3, <3>4, <3>5 DEF PipeTypeOK
  <2>4. ASSUME open # {}
        PROVE  /\ Content(fifo) = [i \in 1 .. rt_ringbuffer_data_len(fifo) |->
                                     (fetched + i - 1) % Numbers]
               /\ sent = (fetched + rt_ringbuffer_data_len(fifo)) % Numbers
    <3> DEFINE L == RingLen(fifo)
               z == [i \in 1 .. L |-> Number(fetched + i - 1)]
    <3>1. RingHolds(fifo, fetched, sent) /\ fetched \in Int
      BY <2>2, <2>4, BytesTypes DEF BytesOK
    <3>2. FifoOK(fifo) /\ sent = Number(fetched + L)
      BY <3>1 DEF RingHolds
    <3>3. rt_ringbuffer_data_len(fifo) = L /\ L \in Int
      BY <3>2, RingLength, RingSizes
    <3>4. Content(fifo) = [j \in 1 .. L |-> fifo.buf[Cell(fifo.r, j - 1)]]
      BY <3>2, RingContent
    <3>5. ASSUME NEW j \in 1 .. L PROVE fifo.buf[Cell(fifo.r, j - 1)] = Number(fetched + j - 1)
      <4>1. j - 1 \in 0 .. (L - 1) /\ fetched + (j - 1) = fetched + j - 1
        BY <3>1, <3>3
      <4> QED BY <3>1, <4>1 DEF RingHolds
    <3> HIDE DEF L
    <3>6. Content(fifo) = z
      BY <3>4, <3>5
    <3> QED BY <3>2, <3>3, <3>6, Zenon DEF Number
  <2> QED BY <2>3, <2>4, Zenon DEF InOrder
<1> QED BY <1>1, PipeInvariance, PTL
-----------------------------------------------------------------------------
(* The ring buffer as a queue of bytes. *)

LEMMA ContentIs ==
  ASSUME NEW y, FifoOK(y), NEW s \in Seq(Int), Len(s) = RingLen(y),
         \A j \in 1 .. RingLen(y) : s[j] = y.buf[Cell(y.r, j - 1)]
  PROVE  Content(y) = s
<1> DEFINE c == Content(y)
           n == RingLen(y)
<1>1. c \in Seq(Int) /\ Len(c) = n /\ \A j \in 1 .. n : c[j] = y.buf[Cell(y.r, j - 1)]
  BY RingContent
<1> HIDE DEF c
<1>2. \A j \in 1 .. Len(c) : c[j] = s[j]
  BY <1>1
<1>3. c = s
  BY <1>1, <1>2, SeqEqual
<1> QED BY <1>3 DEF c

\* The cell of a byte of the content.
LEMMA ContentAt ==
  ASSUME NEW rb, FifoOK(rb), NEW i \in 0 .. (RingLen(rb) - 1)
  PROVE  Content(rb)[i + 1] = rb.buf[Cell(rb.r, i)]
<1>1. RingLen(rb) \in Int
  BY RingLength, RingSizes
<1>2. i + 1 \in 1 .. RingLen(rb) /\ i + 1 - 1 = i
  BY <1>1
<1> QED BY <1>2, RingContent

LEMMA PutContent ==
  ASSUME NEW rb, FifoOK(rb), NEW s \in Seq(Int), Len(s) <= BufSize - RingLen(rb), NEW y,
         y = Wrote([rb EXCEPT !.buf = Copied(@, rb.w, s)], Len(s))
  PROVE  Content(y) = Content(rb) \o s
<1> DEFINE L == RingLen(rb)
           n == Len(s)
           c == Content(rb)
           z == c \o s
<1>1. /\ FifoOK(y) /\ RingLen(y) = L + n
      /\ \A i \in 0 .. (L - 1) : y.buf[Cell(y.r, i)] = rb.buf[Cell(rb.r, i)]
      /\ \A j \in 1 .. n : y.buf[Cell(y.r, L + j - 1)] = s[j]
  BY PutCells
<1>2. /\ c \in Seq(Int) /\ Len(c) = L /\ L \in Nat /\ n \in Nat
      /\ \A i \in 0 .. (L - 1) : c[i + 1] = rb.buf[Cell(rb.r, i)]
  BY RingContent, RingLength, RingSizes, ContentAt
<1> HIDE DEF c, L
<1>3. /\ z \in Seq(Int) /\ Len(z) = L + n
      /\ \A i \in 1 .. (L + n) : z[i] = IF i <= L THEN c[i] ELSE s[i - L]
  BY <1>2, ConcatProperties
<1> HIDE DEF z, n
<1>4. ASSUME NEW j \in 1 .. (L + n) PROVE z[j] = y.buf[Cell(y.r, j - 1)]
  <2>1. CASE j <= L
    <3> DEFINE i == j - 1
    <3>1. i \in 0 .. (L - 1) /\ i + 1 = j
      BY <1>2, <2>1
    <3> HIDE DEF i
    <3>2. y.buf[Cell(y.r, i)] = c[j]
      BY <1>1, <1>2, <3>1
    <3> QED BY <1>3, <2>1, <3>2 DEF i
  <2>2. CASE ~(j <= L)
    <3> DEFINE i == j - L
    <3>1. i \in 1 .. n /\ L + i - 1 = j - 1
      BY <1>2, <2>2
    <3>2. z[j] = s[i]
      BY <1>3, <2>2
    <3> HIDE DEF i
    <3>3. y.buf[Cell(y.r, L + i - 1)] = s[i]
      BY <1>1, <3>1
    <3> QED BY <3>1, <3>2, <3>3
  <2> QED BY <2>1, <2>2
<1>5. Content(y) = z
  BY <1>1, <1>3, <1>4, ContentIs
<1> QED BY <1>5 DEF z, c

LEMMA LastIs ==
  ASSUME NEW s \in Seq(Int)
  PROVE  /\ Len(s) <= BufSize => Last(s, BufSize) = s
         /\ Len(s) >= BufSize =>
              /\ Last(s, BufSize) \in Seq(Int) /\ Len(Last(s, BufSize)) = BufSize
              /\ \A j \in 1 .. BufSize : Last(s, BufSize)[j] = s[Len(s) - BufSize + j]
<1> DEFINE n == Len(s)
<1>1. n \in Nat
  OBVIOUS
<1>2. ASSUME n <= BufSize PROVE Last(s, BufSize) = s
  <2>1. n - Least(BufSize, n) + 1 = 1
    BY <1>1, <1>2, RingSizes DEF Least
  <2>2. Last(s, BufSize) = SubSeq(s, 1, n)
    BY <2>1 DEF Last
  <2> QED BY <2>2, SubSeqFull
<1>3. ASSUME n >= BufSize
      PROVE  /\ Last(s, BufSize) \in Seq(Int) /\ Len(Last(s, BufSize)) = BufSize
             /\ \A j \in 1 .. BufSize : Last(s, BufSize)[j] = s[n - BufSize + j]
  <2> DEFINE a == n - BufSize + 1
             z == Last(s, BufSize)
  <2>0. Least(BufSize, n) = BufSize
    BY <1>1, <1>3, RingSizes DEF Least
  <2>1. n - Least(BufSize, n) + 1 = a /\ a \in 1 .. (n + 1) /\ n - a + 1 = BufSize
    <3> HIDE DEF n
    <3>1. n - Least(BufSize, n) + 1 = a
      BY <2>0
    <3>2. a \in 1 .. (n + 1) /\ n - a + 1 = BufSize
      BY <1>1, <1>3, RingSizes
    <3> QED BY <3>1, <3>2
  <2>2. z = SubSeq(s, a, n)
    BY <2>1 DEF Last
  <2>3. \A j \in 1 .. BufSize : a + j - 1 = n - BufSize + j
    BY <1>1, RingSizes
  <2> HIDE DEF a, z
  <2>4. /\ z \in Seq(Int) /\ Len(z) = n - a + 1
        /\ \A i \in 1 .. (n - a + 1) : z[i] = s[a + i - 1]
    BY <2>1, <2>2, Part
  <2>5. z \in Seq(Int) /\ Len(z) = BufSize /\ \A j \in 1 .. BufSize : z[j] = s[n - BufSize + j]
    BY <2>1, <2>3, <2>4
  <2> QED BY <2>5 DEF z
<1> QED BY <1>2, <1>3

\* Where the bytes are after a put of n that overwrites the oldest: the one j after the
\* new read index is an old one, i after the old read index, or the one d after the old
\* write index.
LEMMA OldCell ==
  ASSUME NEW r \in Index, NEW w \in Index, w <= r, NEW L \in Int, L = BufSize - r + w,
         NEW n \in Nat, n <= BufSize, n > BufSize - L, NEW j \in 1 .. BufSize, n + j <= BufSize,
         NEW i, i = L + n + j - 1 - BufSize, NEW v, v = Cell(w, n)
  PROVE  i \in Index /\ ~(Behind(i, L) < n) /\ Cell(v, j - 1) = Cell(r, i)
<1>1. i \in Index /\ i < L
  BY RingSizes DEF Index
<1>2. Behind(i, L) = n + j - 1
  BY <1>1, RingSizes DEF Index, Behind
<1>3. ~(Behind(i, L) < n)
  BY <1>2
<1>4. v = IF w + n < BufSize THEN w + n ELSE w + n - BufSize
  BY DEF Cell
<1>5. Cell(v, j - 1) = Cell(r, i)
  <2>1. CASE w + n < BufSize
    BY <1>1, <1>4, <2>1, RingSizes DEF Index, Cell
  <2>2. CASE ~(w + n < BufSize)
    BY <1>1, <1>4, <2>2, RingSizes DEF Index, Cell
  <2> QED BY <2>1, <2>2
<1> QED BY <1>1, <1>3, <1>5

LEMMA NewCell ==
  ASSUME NEW r \in Index, NEW w \in Index, w <= r, NEW L \in Int, L = BufSize - r + w,
         NEW n \in Nat, n <= BufSize, n > BufSize - L, NEW j \in 1 .. BufSize, n + j > BufSize,
         NEW d, d = n + j - 1 - BufSize, NEW v, v = Cell(w, n),
         NEW i, i = Cell(L, d)
  PROVE  i \in Index /\ d \in Nat /\ d < n /\ Behind(i, L) = d /\ Cell(v, j - 1) = Cell(r, i)
<1>1. d \in Nat /\ d < n /\ d < BufSize /\ L \in 0 .. BufSize
  BY RingSizes DEF Index
<1>2. i \in Index /\ (L + d < BufSize => i = L + d) /\ (~(L + d < BufSize) => i = L + d - BufSize)
  BY <1>1, RingSizes DEF Index, Cell
<1>3. Behind(i, L) = d
  BY <1>1, <1>2, RingSizes DEF Index, Behind
<1>4. v = IF w + n < BufSize THEN w + n ELSE w + n - BufSize
  BY DEF Cell
<1>5. Cell(v, j - 1) = Cell(r, i)
  <2>1. CASE w + n < BufSize
    BY <1>1, <1>2, <1>4, <2>1, RingSizes DEF Index, Cell
  <2>2. CASE ~(w + n < BufSize)
    BY <1>1, <1>2, <1>4, <2>2, RingSizes DEF Index, Cell
  <2> QED BY <2>1, <2>2
<1> QED BY <1>1, <1>2, <1>3, <1>5

LEMMA ForcedRecord ==
  ASSUME NEW r, NEW rm, NEW w, NEW wm, NEW b, NEW a, NEW n,
         NEW x, x = [r |-> r, rm |-> rm, w |-> w, wm |-> wm, buf |-> b],
         NEW y, y = [x EXCEPT !.r = x.w, !.rm = IF BufSize - a > n THEN @ ELSE Flip(@)]
  PROVE  y = [r |-> w, rm |-> IF BufSize - a > n THEN rm ELSE Flip(rm), w |-> w, wm |-> wm, buf |-> b]
<1> DEFINE q == IF BufSize - a > n THEN rm ELSE Flip(rm)
           s == [x EXCEPT !.r = w]
<1>1. x.w = w /\ x.rm = rm
  OBVIOUS
<1>2. s = [r |-> w, rm |-> rm, w |-> w, wm |-> wm, buf |-> b]
  OBVIOUS
<1>3. y = [s EXCEPT !.rm = IF BufSize - a > n THEN @ ELSE Flip(@)]
  BY <1>1
<1> HIDE DEF s
<1>4. s.rm = rm
  BY <1>2
<1>5. y = [s EXCEPT !.rm = q]
  BY <1>2, <1>3, <1>4
<1> HIDE DEF q
<1>6. [s EXCEPT !.rm = q] = [r |-> w, rm |-> q, w |-> w, wm |-> wm, buf |-> b]
  BY <1>2
<1> QED BY <1>5, <1>6 DEF q

LEMMA RingTyped ==
  ASSUME NEW r \in Index, NEW w \in Index, NEW rm \in {0, 1}, NEW wm \in {0, 1},
         NEW b \in [Index -> Int], NEW y, y = [r |-> r, rm |-> rm, w |-> w, wm |-> wm, buf |-> b]
  PROVE  y \in RingType /\ y.r = r /\ y.rm = rm /\ y.w = w /\ y.wm = wm /\ y.buf = b
BY DEF RingType

\* x is rb after the bytes s were copied and the write index moved; y is x with the read
\* index moved along.
Puts(x, rb, s) == x = Wrote([rb EXCEPT !.buf = Copied(@, rb.w, s)], Len(s))
Overwrites(y, x, rb, n) ==
  y = [x EXCEPT !.r = x.w, !.rm = IF BufSize - rb.w > n THEN @ ELSE Flip(@)]

\* A put that overwrites the oldest bytes, the indices on different sides.
LEMMA ForcedCells ==
  ASSUME NEW rb, FifoOK(rb), rb.rm # rb.wm, NEW s \in Seq(Int), Len(s) <= BufSize,
         Len(s) > BufSize - RingLen(rb),
         NEW x, Puts(x, rb, s), NEW y, Overwrites(y, x, rb, Len(s))
  PROVE  /\ FifoOK(y) /\ RingLen(y) = BufSize
         /\ \A j \in 1 .. BufSize :
              y.buf[Cell(y.r, j - 1)] =
                IF Len(s) + j <= BufSize
                THEN rb.buf[Cell(rb.r, RingLen(rb) + Len(s) + j - 1 - BufSize)]
                ELSE s[Len(s) + j - BufSize]
<1> DEFINE L == RingLen(rb)
           n == Len(s)
           r == rb.r
           w == rb.w
           rm == rb.rm
           wm == rb.wm
           o == rb.buf
           b == Copied(rb.buf, rb.w, s)
           v == Cell(w, n)
           m == IF BufSize - w > n THEN wm ELSE Flip(wm)
           q == IF BufSize - w > n THEN rm ELSE Flip(rm)
<1>1. /\ r \in Index /\ w \in Index /\ rm \in {0, 1} /\ wm \in {0, 1} /\ w <= r
      /\ L = BufSize - r + w /\ n \in Nat /\ n <= BufSize /\ n > BufSize - L /\ rm # wm
  BY FifoFields DEF RingLen
<1>2. /\ b \in [Index -> Int]
      /\ \A i \in Index : b[Cell(r, i)] = IF Behind(i, L) < n THEN s[Behind(i, L) + 1] ELSE o[Cell(r, i)]
  BY CopiedAt
<1>3. x = Wrote([rb EXCEPT !.buf = b], n) /\ n \in 0 .. BufSize
  BY <1>1, RingSizes DEF Puts
<1> HIDE DEF b
<1>4. x = [r |-> r, rm |-> rm, w |-> v, wm |-> m, buf |-> b]
  BY <1>2, <1>3, WroteIs
<1>6. v \in Index
  BY <1>1, <1>3, CellIndex
<1>7. m \in {0, 1} /\ q \in {0, 1} /\ m # q
  <2> HIDE DEF rm, wm, w, n
  <2> QED BY <1>1 DEF Flip
<1>8. y = [x EXCEPT !.r = x.w, !.rm = IF BufSize - w > n THEN @ ELSE Flip(@)]
  BY DEF Overwrites
<1> HIDE DEF L, n, r, w, rm, wm, o, v, m
<1>9. y = [r |-> v, rm |-> q, w |-> v, wm |-> m, buf |-> b]
  BY <1>4, <1>8, ForcedRecord
<1> HIDE DEF q
<1>10. y.r = v /\ y.rm = q /\ y.w = v /\ y.wm = m /\ y.buf = b /\ y \in RingType
  BY <1>2, <1>6, <1>7, <1>9, RingTyped
<1>11. FifoOK(y) /\ RingLen(y) = BufSize
  BY <1>6, <1>7, <1>10, RingSizes DEF FifoOK, RingLen, Index
<1>12. ASSUME NEW j \in 1 .. BufSize
       PROVE  b[Cell(v, j - 1)] = IF n + j <= BufSize THEN o[Cell(r, L + n + j - 1 - BufSize)]
                                  ELSE s[n + j - BufSize]
  <2>0. L \in Int /\ v = Cell(w, n) /\ j \in Int /\ n \in Int
    BY <1>1, RingSizes DEF v, Index
  <2>1. CASE n + j <= BufSize
    <3> DEFINE i == L + n + j - 1 - BufSize
    <3>0. i = L + n + j - 1 - BufSize
      OBVIOUS
    <3> HIDE DEF i
    <3>1. i \in Index /\ ~(Behind(i, L) < n) /\ Cell(v, j - 1) = Cell(r, i)
      BY <1>1, <2>0, <2>1, <3>0, OldCell
    <3>3. b[Cell(r, i)] = o[Cell(r, i)]
      BY <1>2, <3>1
    <3> QED BY <2>1, <3>0, <3>1, <3>3
  <2>2. CASE ~(n + j <= BufSize)
    <3> DEFINE d == n + j - 1 - BufSize
               i == Cell(L, d)
    <3>0. /\ d = n + j - 1 - BufSize /\ i = Cell(L, d)
          /\ n + j > BufSize /\ n + j - BufSize = d + 1
      BY <2>0, <2>2, RingSizes
    <3> HIDE DEF d, i
    <3>1. i \in Index /\ d \in Nat /\ d < n /\ Behind(i, L) = d /\ Cell(v, j - 1) = Cell(r, i)
      BY <1>1, <2>0, <3>0, NewCell
    <3>4. b[Cell(r, i)] = s[d + 1]
      BY <1>2, <3>1
    <3> QED BY <2>2, <3>0, <3>1, <3>4
  <2> QED BY <2>1, <2>2
<1> QED BY <1>10, <1>11, <1>12 DEF L, n, r, o

LEMMA ForcedContent ==
  ASSUME NEW rb, FifoOK(rb), rb.rm # rb.wm, NEW s \in Seq(Int), Len(s) <= BufSize,
         Len(s) > BufSize - RingLen(rb), NEW x, Puts(x, rb, s), NEW y, Overwrites(y, x, rb, Len(s))
  PROVE  Content(y) = Last(Content(rb) \o s, BufSize)
<1> DEFINE L == RingLen(rb)
           n == Len(s)
           c == Content(rb)
           z == c \o s
           q == Last(z, BufSize)
<1>1. /\ FifoOK(y) /\ RingLen(y) = BufSize
      /\ \A j \in 1 .. BufSize :
           y.buf[Cell(y.r, j - 1)] =
             IF n + j <= BufSize THEN rb.buf[Cell(rb.r, L + n + j - 1 - BufSize)]
             ELSE s[n + j - BufSize]
  BY ForcedCells
<1>2. /\ c \in Seq(Int) /\ Len(c) = L /\ L \in Nat /\ n \in Nat /\ L + n >= BufSize
      /\ L <= BufSize /\ n <= BufSize
      /\ \A i \in 0 .. (L - 1) : c[i + 1] = rb.buf[Cell(rb.r, i)]
  BY RingContent, RingLength, RingSizes, ContentAt
<1> HIDE DEF c, L
<1>3. /\ z \in Seq(Int) /\ Len(z) = L + n
      /\ \A i \in 1 .. (L + n) : z[i] = IF i <= L THEN c[i] ELSE s[i - L]
  BY <1>2, ConcatProperties
<1> HIDE DEF z, n
<1>4. q \in Seq(Int) /\ Len(q) = BufSize /\ \A j \in 1 .. BufSize : q[j] = z[L + n - BufSize + j]
  <2>1. Len(z) >= BufSize /\ z \in Seq(Int)
    BY <1>2, <1>3
  <2>2. q \in Seq(Int) /\ Len(q) = BufSize /\ \A j \in 1 .. BufSize : q[j] = z[Len(z) - BufSize + j]
    BY <2>1, LastIs
  <2> HIDE DEF q
  <2>3. ASSUME NEW j \in 1 .. BufSize PROVE q[j] = z[L + n - BufSize + j]
    <3>1. Len(z) - BufSize + j = L + n - BufSize + j
      BY <1>2, <1>3, RingSizes
    <3> QED BY <2>2, <3>1
  <2> QED BY <2>2, <2>3
<1> HIDE DEF q
<1>5. ASSUME NEW j \in 1 .. BufSize PROVE q[j] = y.buf[Cell(y.r, j - 1)]
  <2> DEFINE a == L + n - BufSize + j
  <2>0. a \in 1 .. (L + n) /\ q[j] = z[a]
    BY <1>2, <1>4, RingSizes
  <2>1. CASE n + j <= BufSize
    <3> DEFINE i == L + n + j - 1 - BufSize
    <3>1. i \in 0 .. (L - 1) /\ i + 1 = a /\ a <= L
      BY <1>2, <2>1, RingSizes
    <3>2. y.buf[Cell(y.r, j - 1)] = rb.buf[Cell(rb.r, i)]
      BY <1>1, <2>1
    <3> HIDE DEF i, a
    <3>3. c[a] = rb.buf[Cell(rb.r, i)]
      BY <1>2, <3>1
    <3>4. z[a] = c[a]
      BY <1>3, <2>0, <3>1
    <3> QED BY <2>0, <3>2, <3>3, <3>4
  <2>2. CASE ~(n + j <= BufSize)
    <3>1. a - L = n + j - BufSize /\ ~(a <= L)
      BY <1>2, <2>2, RingSizes
    <3>2. y.buf[Cell(y.r, j - 1)] = s[n + j - BufSize]
      BY <1>1, <2>2
    <3> HIDE DEF a
    <3>3. z[a] = s[a - L]
      BY <1>3, <2>0, <3>1
    <3> QED BY <2>0, <3>1, <3>2, <3>3
  <2> QED BY <2>1, <2>2
<1>6. Content(y) = q
  BY <1>1, <1>4, <1>5, ContentIs
<1> QED BY <1>6 DEF q, z, c

\* A byte is put as a block of one.
PutOne(rb, ch) ==
  LET b1 == [rb EXCEPT !.buf = [@ EXCEPT ![rb.w] = ch]]
  IN  IF rb.w = BufSize - 1 THEN [b1 EXCEPT !.w = 0, !.wm = Flip(@)]
      ELSE [b1 EXCEPT !.w = @ + 1]

LEMMA OneCopied ==
  ASSUME NEW rb, FifoOK(rb), NEW ch \in Int
  PROVE  Copied(rb.buf, rb.w, <<ch>>) = [rb.buf EXCEPT ![rb.w] = ch]
<1> DEFINE w == rb.w
           o == rb.buf
           s == <<ch>>
           b == Copied(o, w, s)
<1>1. w \in Index /\ o \in [Index -> Int]
  BY FifoFields
<1>2. b = [c \in Index |-> IF ((c - w) % BufSize) + 1 <= Len(s) THEN s[((c - w) % BufSize) + 1] ELSE o[c]]
  BY Zenon DEF Copied
<1> HIDE DEF w, o, b
<1>3. ASSUME NEW c \in Index PROVE b[c] = IF c = w THEN ch ELSE o[c]
  <2> DEFINE a == Ahead(c, w)
  <2>1. a \in Nat /\ (a = 0 <=> c = w)
    BY <1>1, RingSizes DEF Ahead, Index
  <2>2. (c - w) % BufSize = a
    BY <1>1, CellMod
  <2> HIDE DEF a
  <2>3. b[c] = IF a + 1 <= Len(s) THEN s[a + 1] ELSE o[c]
    BY <1>2, <2>2
  <2>4. Len(s) = 1 /\ s[1] = ch
    OBVIOUS
  <2> QED BY <2>1, <2>3, <2>4
<1>4. b = [o EXCEPT ![w] = ch]
  BY <1>1, <1>2, <1>3
<1> QED BY <1>4 DEF b, o, w

LEMMA OnePut ==
  ASSUME NEW rb, FifoOK(rb), NEW ch \in Int
  PROVE  Puts(PutOne(rb, ch), rb, <<ch>>)
<1> DEFINE w == rb.w
           b == [rb.buf EXCEPT ![w] = ch]
           b1 == [rb EXCEPT !.buf = b]
           x == PutOne(rb, ch)
           y == Wrote(b1, 1)
<1>1. w \in Index /\ rb \in RingType
  BY FifoFields
<1>2. x = IF w = BufSize - 1 THEN [b1 EXCEPT !.w = 0, !.wm = Flip(@)] ELSE [b1 EXCEPT !.w = @ + 1]
  BY <1>1 DEF PutOne, RingType
<1>3. b1.w = w
  BY <1>1 DEF RingType
<1>4. y = IF BufSize - b1.w > 1 THEN [b1 EXCEPT !.w = @ + 1] ELSE [b1 EXCEPT !.w = 1 - (BufSize - @), !.wm = Flip(@)]
  BY Zenon DEF Wrote
<1>5. [rb EXCEPT !.buf = Copied(@, rb.w, <<ch>>)] = b1
  BY <1>1, OneCopied DEF RingType
<1>6. Len(<<ch>>) = 1
  OBVIOUS
<1> HIDE DEF b1, w, x
<1>7. x = y
  <2>1. CASE w = BufSize - 1
    <3>1. ~(BufSize - b1.w > 1) /\ 1 - (BufSize - b1.w) = 0
      BY <1>3, <2>1, RingSizes
    <3> QED BY <1>2, <1>4, <2>1, <3>1
  <2>2. CASE w # BufSize - 1
    <3>1. BufSize - b1.w > 1
      BY <1>1, <1>3, <2>2, RingSizes DEF Index
    <3> QED BY <1>2, <1>4, <2>2, <3>1
  <2> QED BY <2>1, <2>2
<1> QED BY <1>5, <1>6, <1>7 DEF Puts, x

LEMMA PutsContent ==
  ASSUME NEW rb, FifoOK(rb), NEW s \in Seq(Int), Len(s) <= BufSize - RingLen(rb), NEW y,
         Puts(y, rb, s)
  PROVE  Content(y) = Content(rb) \o s
BY PutContent DEF Puts

LEMMA PutcharQueues ==
  ASSUME NEW rb, FifoOK(rb), NEW ch \in Int
  PROVE  Content(rt_ringbuffer_putchar(rb, ch)) =
           IF Len(Content(rb)) < BufSize THEN Append(Content(rb), ch) ELSE Content(rb)
<1> DEFINE L == RingLen(rb)
           c == Content(rb)
           s == <<ch>>
           x == PutOne(rb, ch)
           y == rt_ringbuffer_putchar(rb, ch)
<1>1. L \in 0 .. BufSize /\ rt_ringbuffer_space_len(rb) = BufSize - L /\ c \in Seq(Int) /\ Len(c) = L
  BY RingLength, RingContent
<1>2. y = IF rt_ringbuffer_space_len(rb) = 0 THEN rb ELSE x
  BY Zenon DEF rt_ringbuffer_putchar, PutOne
<1>3. Puts(x, rb, s)
  BY OnePut
<1>4. s \in Seq(Int) /\ Len(s) = 1 /\ c \o s = Append(c, ch)
  BY <1>1, AppendIsConcat
<1> HIDE DEF s, x, y, c
<1>5. CASE L = BufSize
  BY <1>1, <1>2, <1>5, RingSizes DEF y, c
<1>6. CASE L # BufSize
  <2>1. BufSize - L # 0 /\ Len(s) <= BufSize - L /\ Len(c) < BufSize
    BY <1>1, <1>4, <1>6, RingSizes
  <2>2. Content(x) = Content(rb) \o s
    BY <1>3, <1>4, <2>1, PutsContent
  <2> QED BY <1>1, <1>2, <1>4, <2>1, <2>2 DEF y, c
<1> QED BY <1>5, <1>6

LEMMA FullLength ==
  ASSUME NEW rb, FifoOK(rb)
  PROVE  RingFull(rb) <=> RingLen(rb) = BufSize
<1>1. /\ rb.r \in Index /\ rb.w \in Index /\ rb.rm \in {0, 1} /\ rb.wm \in {0, 1}
      /\ (IF rb.rm = rb.wm THEN rb.r <= rb.w ELSE rb.w <= rb.r)
  BY FifoFields
<1>2. CASE rb.rm = rb.wm
  BY <1>1, <1>2, RingSizes DEF RingFull, RingLen, Index
<1>3. CASE rb.rm # rb.wm
  BY <1>1, <1>3, RingSizes DEF RingFull, RingLen, Index
<1> QED BY <1>2, <1>3

LEMMA ForcecharQueues ==
  ASSUME NEW rb, FifoOK(rb), NEW ch \in Int
  PROVE  Content(rt_ringbuffer_putchar_force(rb, ch)) = Last(Append(Content(rb), ch), BufSize)
<1> DEFINE L == RingLen(rb)
           c == Content(rb)
           s == <<ch>>
           x == PutOne(rb, ch)
           y == rt_ringbuffer_putchar_force(rb, ch)
<1>1. L \in 0 .. BufSize /\ c \in Seq(Int) /\ Len(c) = L /\ rb.w \in Index
  BY RingLength, RingContent, FifoFields
<1>2. y = IF ~RingFull(rb) THEN x
          ELSE [x EXCEPT !.r = x.w, !.rm = IF rb.w = BufSize - 1 THEN Flip(@) ELSE @]
  BY Zenon DEF rt_ringbuffer_putchar_force, PutOne
<1>3. Puts(x, rb, s)
  BY OnePut
<1>4. s \in Seq(Int) /\ Len(s) = 1 /\ c \o s = Append(c, ch)
  BY <1>1, AppendIsConcat
<1>5. Append(c, ch) \in Seq(Int) /\ Len(Append(c, ch)) = L + 1
  BY <1>1, AppendProperties
<1> HIDE DEF s, x, y, c, L
<1>6. CASE ~RingFull(rb)
  <2>1. L # BufSize
    BY <1>6, FullLength DEF L
  <2>2. Len(s) <= BufSize - L /\ L + 1 <= BufSize
    BY <1>1, <1>4, <2>1, RingSizes
  <2>3. Content(x) = c \o s
    BY <1>3, <1>4, <2>2, PutsContent DEF L, c
  <2>4. Last(Append(c, ch), BufSize) = Append(c, ch)
    BY <1>5, <2>2, LastIs
  <2> QED BY <1>2, <1>4, <1>6, <2>3, <2>4 DEF y, c
<1>7. CASE RingFull(rb)
  <2>1. L = BufSize /\ rb.rm # rb.wm
    BY <1>7, FullLength DEF L, RingFull
  <2>2. y = [x EXCEPT !.r = x.w, !.rm = IF rb.w = BufSize - 1 THEN Flip(@) ELSE @]
    BY <1>2, <1>7
  <2>3. BufSize - rb.w > Len(s) <=> rb.w # BufSize - 1
    BY <1>1, <1>4, RingSizes DEF Index
  <2>4. Overwrites(y, x, rb, Len(s))
    BY <2>2, <2>3 DEF Overwrites
  <2>5. Len(s) <= BufSize /\ Len(s) > BufSize - L
    BY <1>4, <2>1, RingSizes
  <2>6. Content(y) = Last(c \o s, BufSize)
    BY <1>3, <1>4, <2>1, <2>4, <2>5, ForcedContent DEF L, c
  <2> QED BY <1>4, <2>6 DEF y, c
<1> QED BY <1>6, <1>7

LEMMA GetcharQueues ==
  ASSUME NEW rb, FifoOK(rb)
  PROVE  Content(rt_ringbuffer_getchar(rb)) =
           IF Content(rb) = <<>> THEN Content(rb) ELSE Tail(Content(rb))
<1> DEFINE L == RingLen(rb)
           c == Content(rb)
           r == rb.r
           y == rt_ringbuffer_getchar(rb)
<1>1. /\ L \in 0 .. BufSize /\ L \in Nat /\ rt_ringbuffer_data_len(rb) = L /\ r \in Index
      /\ c \in Seq(Int) /\ Len(c) = L
      /\ \A i \in 0 .. (L - 1) : c[i + 1] = rb.buf[Cell(r, i)]
  BY RingLength, RingContent, FifoFields, ContentAt, RingSizes
<1>2. c = <<>> <=> L = 0
  BY <1>1
<1>3. CASE L = 0
  <2>0. rt_ringbuffer_data_len(rb) = 0
    BY <1>1, <1>3
  <2>1. y = rb
    BY <2>0 DEF rt_ringbuffer_getchar
  <2> QED BY <1>2, <1>3, <2>1
<1>4. CASE L # 0
  <2>1. y = IF r = BufSize - 1 THEN [rb EXCEPT !.r = 0, !.rm = Flip(@)] ELSE [rb EXCEPT !.r = @ + 1]
    BY <1>1, <1>4 DEF rt_ringbuffer_getchar
  <2>2. y = Drained(rb, 1)
    <3>1. CASE r = BufSize - 1
      <4>1. ~(BufSize - r > 1) /\ 1 - (BufSize - r) = 0
        BY <3>1, RingSizes
      <4> QED BY <2>1, <3>1, <4>1 DEF Drained
    <3>2. CASE r # BufSize - 1
      <4>1. BufSize - r > 1
        BY <1>1, <3>2, RingSizes DEF Index
      <4> QED BY <2>1, <3>2, <4>1 DEF Drained
    <3> QED BY <3>1, <3>2
  <2>3. 1 \in 0 .. L /\ 1 \in 0 .. BufSize
    BY <1>1, <1>4, RingSizes
  <2> HIDE DEF y
  <2>4. FifoOK(y) /\ RingLen(y) = L - 1 /\ y.r = Cell(r, 1) /\ y.buf = rb.buf
    BY <2>2, <2>3, DrainedOK
  <2> DEFINE s == Tail(c)
  <2>5. s \in Seq(Int) /\ Len(s) = L - 1 /\ \A i \in 1 .. Len(s) : s[i] = c[i + 1]
    BY <1>1, <1>2, <1>4, HeadTailProperties
  <2> HIDE DEF s, L, c, r
  <2>6. ASSUME NEW j \in 1 .. (L - 1) PROVE s[j] = y.buf[Cell(y.r, j - 1)]
    <3> DEFINE i == j - 1
    <3>1. i \in Nat /\ 1 + i < BufSize /\ 1 + i = j /\ j \in 0 .. (L - 1)
      BY <1>1, RingSizes
    <3> HIDE DEF i
    <3>2. Cell(Cell(r, 1), i) = Cell(r, j)
      BY <1>1, <2>3, <3>1, CellTwice
    <3>3. s[j] = c[j + 1]
      BY <2>5
    <3>4. c[j + 1] = rb.buf[Cell(r, j)]
      BY <1>1, <3>1
    <3> QED BY <2>4, <3>2, <3>3, <3>4 DEF i
  <2>7. Content(y) = s
    BY <2>4, <2>5, <2>6, ContentIs
  <2> QED BY <1>2, <1>4, <2>7 DEF s, c, y
<1> QED BY <1>3, <1>4

\* Only the last BufSize bytes of a longer block are left, whatever was there before.
LEMMA LastOfLast ==
  ASSUME NEW c \in Seq(Int), NEW s \in Seq(Int), Len(s) >= BufSize, NEW t, t = Last(s, BufSize)
  PROVE  Last(c \o s, BufSize) = t /\ Last(c \o t, BufSize) = t /\ t \in Seq(Int) /\ Len(t) = BufSize
<1>1. t \in Seq(Int) /\ Len(t) = BufSize /\ \A j \in 1 .. BufSize : t[j] = s[Len(s) - BufSize + j]
  BY LastIs
<1>2. ASSUME NEW u \in Seq(Int), Len(u) >= BufSize,
             \A j \in 1 .. BufSize : t[j] = u[Len(u) - BufSize + j]
      PROVE  Last(c \o u, BufSize) = t
  <2> DEFINE z == c \o u
             q == Last(z, BufSize)
             l == Len(c)
             n == Len(u)
  <2>0. l \in Nat /\ n \in Nat /\ n >= BufSize
    BY <1>2
  <2>1. /\ z \in Seq(Int) /\ Len(z) = l + n
        /\ \A i \in 1 .. (l + n) : z[i] = IF i <= l THEN c[i] ELSE u[i - l]
    BY ConcatProperties
  <2> HIDE DEF z
  <2>2. Len(z) >= BufSize
    BY <1>2, <2>0, <2>1, RingSizes
  <2>3. q \in Seq(Int) /\ Len(q) = BufSize /\ \A j \in 1 .. BufSize : q[j] = z[Len(z) - BufSize + j]
    BY <2>1, <2>2, LastIs
  <2> HIDE DEF q, l, n
  <2>4. ASSUME NEW j \in 1 .. BufSize PROVE q[j] = t[j]
    <3> DEFINE a == Len(z) - BufSize + j
    <3>1. a \in 1 .. (l + n) /\ ~(a <= l) /\ a - l = n - BufSize + j
      <4>1. a = l + n - BufSize + j
        BY <2>0, <2>1, RingSizes
      <4> HIDE DEF a
      <4> QED BY <2>0, <4>1, RingSizes
    <3>2. q[j] = z[a]
      BY <2>3
    <3> HIDE DEF a
    <3>3. z[a] = u[n - BufSize + j]
      BY <2>1, <3>1
    <3>4. t[j] = u[n - BufSize + j]
      BY <1>2 DEF n
    <3> QED BY <3>2, <3>3, <3>4
  <2>5. \A j \in 1 .. Len(q) : q[j] = t[j]
    BY <2>3, <2>4
  <2>6. q = t
    BY <1>1, <2>3, <2>5, SeqEqual
  <2> QED BY <2>6 DEF q, z
<1>3. Last(c \o s, BufSize) = t
  BY <1>1, <1>2
<1>4. Len(t) >= BufSize /\ \A j \in 1 .. BufSize : t[j] = t[Len(t) - BufSize + j]
  BY <1>1, RingSizes
<1>5. Last(c \o t, BufSize) = t
  BY <1>1, <1>2, <1>4
<1> QED BY <1>1, <1>3, <1>5

LEMMA WholeSeq ==
  ASSUME NEW s \in Seq(Int)
  PROVE  SubSeq(s, 1, Len(s)) = s
<1> DEFINE q == SubSeq(s, 1, Len(s))
<1>1. q \in Seq(Int) /\ Len(q) = Len(s) /\ \A i \in 1 .. Len(s) : q[i] = s[i]
  OBVIOUS
<1> HIDE DEF q
<1>2. q = s
  BY <1>1, SeqEqual
<1> QED BY <1>2 DEF q

LEMMA PutForceQueues ==
  ASSUME NEW rb, FifoOK(rb), NEW s \in Seq(Int), Len(s) <= BufSize + 1,
         Len(s) <= BufSize - Len(Content(rb)) \/ rb.rm # rb.wm
  PROVE  Content(rt_ringbuffer_put_force(rb, s)) = Last(Content(rb) \o s, BufSize)
<1> DEFINE L == RingLen(rb)
           c == Content(rb)
           l == Length(Len(s))
           t == SubSeq(s, IF l > BufSize THEN l - BufSize + 1 ELSE 1, l)
           n == Len(t)
           x == Wrote([rb EXCEPT !.buf = Copied(@, rb.w, t)], n)
           y == rt_ringbuffer_put_force(rb, s)
<1>1. /\ L \in 0 .. BufSize /\ rt_ringbuffer_space_len(rb) = BufSize - L
      /\ c \in Seq(Int) /\ Len(c) = L /\ Len(s) \in Nat
  BY RingLength, RingContent
<1>2. y = IF n <= BufSize - L THEN x
          ELSE [x EXCEPT !.r = x.w, !.rm = IF BufSize - rb.w > n THEN @ ELSE Flip(@)]
  BY <1>1, Zenon DEF rt_ringbuffer_put_force
<1>8. l = Len(s)
  BY <1>1, LengthOK
<1> HIDE DEF l
<1>9. ~(Len(s) > BufSize) => t = s
  <2>1. SUFFICES ASSUME ~(Len(s) > BufSize) PROVE t = s
    OBVIOUS
  <2>2. t = SubSeq(s, 1, Len(s))
    BY <1>8, <2>1
  <2> HIDE DEF t
  <2> QED BY <2>2, WholeSeq
<1>3. t \in Seq(Int) /\ n \in 0 .. BufSize /\ Last(c \o t, BufSize) = Last(c \o s, BufSize)
  <2>1. CASE Len(s) > BufSize
    <3>1. Least(BufSize, Len(s)) = BufSize
      BY <1>1, <2>1, RingSizes DEF Least
    <3>2. t = Last(s, BufSize) /\ Len(s) >= BufSize
      BY <1>1, <1>8, <2>1, <3>1, RingSizes DEF Last
    <3> HIDE DEF t, c
    <3>3. t \in Seq(Int) /\ Len(t) = BufSize /\ Last(c \o t, BufSize) = Last(c \o s, BufSize)
      BY <1>1, <3>2, LastOfLast
    <3> QED BY <3>3, RingSizes
  <2>2. CASE ~(Len(s) > BufSize)
    <3>1. t = s
      BY <1>9, <2>2
    <3> HIDE DEF t
    <3> QED BY <1>1, <2>2, <3>1, RingSizes
  <2> QED BY <2>1, <2>2
<1>4. n <= BufSize - L \/ rb.rm # rb.wm
  <2>1. CASE rb.rm # rb.wm
    BY <2>1
  <2>2. CASE Len(s) <= BufSize - L
    <3>1. t = s
      BY <1>1, <1>9, <2>2, RingSizes
    <3> QED BY <2>2, <3>1
  <2> QED BY <1>1, <2>1, <2>2
<1>5. Puts(x, rb, t)
  BY DEF Puts
<1> HIDE DEF t, x, y, c, L
<1>6. CASE n <= BufSize - L
  <2>1. Content(x) = c \o t
    BY <1>3, <1>5, <1>6, PutsContent DEF c, L
  <2> DEFINE z == c \o t
  <2>2. z \in Seq(Int) /\ Len(z) = L + n
    BY <1>1, <1>3, ConcatProperties
  <2>3. Len(z) <= BufSize
    BY <1>1, <1>3, <1>6, <2>2, RingSizes
  <2> HIDE DEF z
  <2>4. Last(z, BufSize) = z
    BY <2>2, <2>3, LastIs
  <2>5. y = x
    BY <1>2, <1>6
  <2> QED BY <1>3, <2>1, <2>4, <2>5 DEF z, y, c
<1>7. CASE ~(n <= BufSize - L)
  <2>1. n > BufSize - L /\ n <= BufSize /\ rb.rm # rb.wm
    BY <1>1, <1>3, <1>4, <1>7, RingSizes
  <2>2. y = [x EXCEPT !.r = x.w, !.rm = IF BufSize - rb.w > n THEN @ ELSE Flip(@)]
    BY <1>2, <1>7
  <2>3. Overwrites(y, x, rb, n)
    BY <2>2 DEF Overwrites
  <2>4. Content(y) = Last(c \o t, BufSize)
    BY <1>3, <1>5, <2>1, <2>3, ForcedContent DEF c, L
  <2> QED BY <1>3, <2>4 DEF y, c
<1> QED BY <1>6, <1>7

\* RingIsQueue of Pipe.tla, for every size of the buffer: whatever the indices and mirrors
\* are, putting and getting bytes, forced or not, is what it is for a queue of BufSize
\* bytes that drops the oldest ones.
THEOREM RingIsQueueCorrect == PipeSpec => []RingIsQueue
<1>1. PipeInvariant => RingIsQueue
  <2>1. SUFFICES ASSUME PipeInvariant, open # {} PROVE RingIsQueue
    BY DEF RingIsQueue
  <2>2. FifoOK(fifo) /\ sent \in Int
    BY <2>1, BytesTypes DEF PipeInvariant, BytesOK, RingHolds
  <2> DEFINE c == Content(fifo)
  <2>3. Content(rt_ringbuffer_putchar(fifo, 0)) = IF Len(c) < BufSize THEN Append(c, 0) ELSE c
    BY <2>2, PutcharQueues
  <2>4. Content(rt_ringbuffer_putchar_force(fifo, 0)) = Last(Append(c, 0), BufSize)
    BY <2>2, ForcecharQueues
  <2>5. Content(rt_ringbuffer_getchar(fifo)) = IF c = <<>> THEN c ELSE Tail(c)
    BY <2>2, GetcharQueues
  <2>6. ASSUME NEW n \in 0 .. (BufSize + 1), n <= BufSize - Len(c) \/ fifo.rm # fifo.wm
        PROVE  Content(rt_ringbuffer_put_force(fifo, Sent(n))) = Last(c \o Sent(n), BufSize)
    <3> DEFINE s == Sent(n)
    <3>1. s = Run(sent, n)
      BY Zenon DEF Sent, Run, Number
    <3>2. n \in Nat
      BY RingSizes
    <3> HIDE DEF s
    <3>3. s \in Seq(Int) /\ Len(s) = n
      BY <2>2, <3>1, <3>2, RunOK
    <3>5. Len(s) <= BufSize + 1
      BY <3>3, RingSizes
    <3>4. Content(rt_ringbuffer_put_force(fifo, s)) = Last(Content(fifo) \o s, BufSize)
      BY <2>2, <2>6, <3>3, <3>5, PutForceQueues
    <3> QED BY <3>4 DEF s
  <2> HIDE DEF c
  <2> QED BY <2>3, <2>4, <2>5, <2>6, Zenon DEF RingIsQueue, c
<1> QED BY <1>1, PipeInvariance, PTL

=============================================================================
