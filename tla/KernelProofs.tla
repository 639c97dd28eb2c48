---------------------------- MODULE KernelProofs ----------------------------
(***************************************************************************)
(* Every kernel primitive of module Kernel keeps the kernel's lists, its   *)
(* bitmap and its thread timers sound, for every set of threads, every     *)
(* number of priorities and every set of wait lists.                       *)
(*                                                                         *)
(* KernelInv(k, X) allows the threads of X to be off every list.  A        *)
(* primitive that moves a thread takes it into X and out of it again, so   *)
(* that the compound operations follow by chaining the lemmas.             *)
(***************************************************************************)
EXTENDS Kernel, WellFoundedInduction, TLAPS

-----------------------------------------------------------------------------
(* Lists. *)

LEMMA EmptyNodes ==
  ASSUME NEW S, NEW s \in Seq(S)
  PROVE  /\ Nodes(s) = {} <=> s = <<>>
         /\ Nodes(s) \subseteq S
         /\ s # <<>> => Head(s) \in Nodes(s)
BY DEF Nodes

LEMMA UnlinkNodes ==
  ASSUME NEW S, NEW s \in Seq(S), Injective(s), NEW t
  PROVE  /\ Unlink(s, t) \in Seq(S)
         /\ Injective(Unlink(s, t))
         /\ Nodes(Unlink(s, t)) = Nodes(s) \ {t}
<1>1. CASE t \notin Nodes(s)
  BY <1>1 DEF Unlink
<1>2. CASE t \in Nodes(s)
  <2> DEFINE i == CHOOSE j \in 1 .. Len(s) : s[j] = t
             u == [j \in 1 .. (Len(s) - 1) |-> IF j < i THEN s[j] ELSE s[j + 1]]
  <2>1. i \in 1 .. Len(s) /\ s[i] = t
    BY <1>2 DEF Nodes
  <2>2. Unlink(s, t) = u
    BY <1>2 DEF Unlink
  <2> HIDE DEF i
  <2>3. u \in Seq(S) /\ Len(u) = Len(s) - 1
    BY <2>1
  <2>4. \A j \in 1 .. Len(u) : u[j] = IF j < i THEN s[j] ELSE s[j + 1]
    BY <2>3
  <2> HIDE DEF u
  <2>5. Injective(u)
    <3> SUFFICES ASSUME NEW x \in 1 .. Len(u), NEW y \in 1 .. Len(u), u[x] = u[y]
                 PROVE  x = y
      BY DEF Injective
    <3> DEFINE f(j) == IF j < i THEN j ELSE j + 1
    <3>1. f(x) \in 1 .. Len(s) /\ f(y) \in 1 .. Len(s) /\ s[f(x)] = s[f(y)]
      BY <2>1, <2>3, <2>4
    <3>2. f(x) = f(y)
      BY <3>1 DEF Injective
    <3> QED BY <3>2, <2>1, <2>3
  <2>6. Nodes(u) \subseteq Nodes(s) \ {t}
    BY <2>1, <2>3, <2>4 DEF Nodes, Injective
  <2>7. ASSUME NEW j \in 1 .. Len(s), s[j] # t PROVE s[j] \in Nodes(u)
    <3>1. CASE j < i
      <4>1. j \in 1 .. Len(u) /\ u[j] = s[j]
        BY <3>1, <2>1, <2>3, <2>4
      <4> QED BY <4>1 DEF Nodes
    <3>2. CASE j > i
      <4>1. j - 1 \in 1 .. Len(u) /\ u[j - 1] = s[j]
        BY <3>2, <2>1, <2>3, <2>4
      <4> QED BY <4>1 DEF Nodes
    <3> QED BY <3>1, <3>2, <2>1, <2>7
  <2>8. Nodes(s) \ {t} \subseteq Nodes(u)
    BY <2>7 DEF Nodes
  <2> QED BY <2>2, <2>3, <2>5, <2>6, <2>8
<1> QED BY <1>1, <1>2

\* u is s with t inserted at position i
Inserted(u, s, i, t) ==
  /\ Len(u) = Len(s) + 1
  /\ \A j \in 1 .. Len(u) :
       u[j] = IF j < i THEN s[j] ELSE IF j = i THEN t ELSE s[j - 1]

LEMMA InsertedNodes ==
  ASSUME NEW S, NEW s \in Seq(S), Injective(s), NEW t \in S, t \notin Nodes(s),
         NEW i \in 1 .. (Len(s) + 1), NEW u \in Seq(S), Inserted(u, s, i, t)
  PROVE  Injective(u) /\ Nodes(u) = Nodes(s) \cup {t}
<1>1. u \in Seq(S) /\ Len(u) = Len(s) + 1
  BY DEF Inserted
<1>2. \A j \in 1 .. Len(u) : u[j] = IF j < i THEN s[j] ELSE IF j = i THEN t ELSE s[j - 1]
  BY DEF Inserted
<1>3. Injective(u)
  <2> SUFFICES ASSUME NEW x \in 1 .. Len(u), NEW y \in 1 .. Len(u), u[x] = u[y]
               PROVE  x = y
    BY DEF Injective
  <2> DEFINE f(j) == IF j < i THEN j ELSE j - 1
  <2>1. CASE x # i /\ y # i
    <3>1. f(x) \in 1 .. Len(s) /\ f(y) \in 1 .. Len(s) /\ s[f(x)] = s[f(y)]
      BY <2>1, <1>1, <1>2
    <3>2. f(x) = f(y)
      BY <3>1 DEF Injective
    <3> QED BY <3>2, <2>1, <1>1
  <2>2. CASE x = i /\ y # i
    <3>1. f(y) \in 1 .. Len(s) /\ s[f(y)] = t
      BY <2>2, <1>1, <1>2
    <3> QED BY <3>1 DEF Nodes
  <2>3. CASE x # i /\ y = i
    <3>1. f(x) \in 1 .. Len(s) /\ s[f(x)] = t
      BY <2>3, <1>1, <1>2
    <3> QED BY <3>1 DEF Nodes
  <2> QED BY <2>1, <2>2, <2>3
<1>4. Nodes(u) \subseteq Nodes(s) \cup {t}
  BY <1>1, <1>2 DEF Nodes
<1>5. t \in Nodes(u)
  BY <1>1, <1>2 DEF Nodes
<1>6. ASSUME NEW j \in 1 .. Len(s) PROVE s[j] \in Nodes(u)
  <2>1. CASE j < i
    BY <2>1, <1>1, <1>2 DEF Nodes
  <2>2. CASE ~(j < i)
    <3>1. j + 1 \in 1 .. Len(u) /\ u[j + 1] = s[j]
      BY <2>2, <1>1, <1>2
    <3> QED BY <3>1 DEF Nodes
  <2> QED BY <2>1, <2>2
<1>7. Nodes(s) \subseteq Nodes(u)
  BY <1>6 DEF Nodes
<1> QED BY <1>3, <1>4, <1>5, <1>7

LEMMA InsertNodes ==
  ASSUME NEW S, NEW s \in Seq(S), Injective(s), NEW t \in S, t \notin Nodes(s),
         NEW i \in 1 .. (Len(s) + 1)
  PROVE  /\ InsertBefore(s, i, t) \in Seq(S)
         /\ Injective(InsertBefore(s, i, t))
         /\ Nodes(InsertBefore(s, i, t)) = Nodes(s) \cup {t}
<1> DEFINE u == InsertBefore(s, i, t)
<1>1. u \in Seq(S)
  BY DEF InsertBefore
<1>2. Inserted(u, s, i, t)
  BY <1>1 DEF InsertBefore, Inserted
<1> HIDE DEF u
<1>3. Injective(u) /\ Nodes(u) = Nodes(s) \cup {t}
  BY <1>1, <1>2, InsertedNodes
<1> QED BY <1>1, <1>3 DEF u

LEMMA AppendNodes ==
  ASSUME NEW S, NEW s \in Seq(S), Injective(s), NEW t \in S, t \notin Nodes(s)
  PROVE  /\ Append(s, t) \in Seq(S)
         /\ Injective(Append(s, t))
         /\ Nodes(Append(s, t)) = Nodes(s) \cup {t}
<1> DEFINE u == Append(s, t)
           i == Len(s) + 1
<1>1. u \in Seq(S) /\ i \in 1 .. (Len(s) + 1)
  OBVIOUS
<1>2. Inserted(u, s, i, t)
  BY DEF Inserted
<1> HIDE DEF u, i
<1>3. Injective(u) /\ Nodes(u) = Nodes(s) \cup {t}
  BY <1>1, <1>2, InsertedNodes
<1> QED BY <1>1, <1>3 DEF u

LEMMA PushNodes ==
  ASSUME NEW S, NEW s \in Seq(S), Injective(s), NEW t \in S, t \notin Nodes(s)
  PROVE  /\ <<t>> \o s \in Seq(S)
         /\ Injective(<<t>> \o s)
         /\ Nodes(<<t>> \o s) = Nodes(s) \cup {t}
<1> DEFINE u == <<t>> \o s
           i == 1
<1>1. u \in Seq(S) /\ i \in 1 .. (Len(s) + 1)
  OBVIOUS
<1>2. Inserted(u, s, i, t)
  BY DEF Inserted
<1> HIDE DEF u, i
<1>3. Injective(u) /\ Nodes(u) = Nodes(s) \cup {t}
  BY <1>1, <1>2, InsertedNodes
<1> QED BY <1>1, <1>3 DEF u

-----------------------------------------------------------------------------
(* The lowest bit of a non-empty word. *)

LEMMA rt_ffsLowest ==
  ASSUME NEW word \in SUBSET Nat, word # {}
  PROVE  rt_ffs(word) \in word /\ \A c \in word : rt_ffs(word) <= c
<1> DEFINE R == {ss \in Nat \X Nat : ss[1] < ss[2]}
<1>1. IsWellFoundedOn(R, Nat)
  BY NatLessThanWellFounded DEF OpToRel
<1>2. \A x, y \in Nat : x < y => <<x, y>> \in R
  OBVIOUS
<1> HIDE DEF R
<1>3. PICK b \in word : \A c \in word : ~(<<c, b>> \in R)
  BY <1>1, WFMin
<1>4. \A c \in word : b <= c
  <2> TAKE c \in word
  <2>1. b \in Nat /\ c \in Nat /\ ~(c < b)
    BY <1>2, <1>3
  <2> QED BY <2>1
<1> QED BY <1>3, <1>4 DEF rt_ffs

-----------------------------------------------------------------------------
(* Taking a thread off its list. *)

SameThreads(j, k) ==
  /\ j.cur = k.cur /\ j.stat = k.stat /\ j.prio = k.prio
  /\ j.err = k.err /\ j.armed = k.armed /\ j.nest = k.nest

\* The lists of j are those of k without t.
Without(j, k, t) ==
  /\ \A p \in Prio : Injective(j.ready[p])
                    /\ Nodes(j.ready[p]) = Nodes(k.ready[p]) \ {t}
  /\ \A q \in WaitList : Injective(j.wait[q])
                        /\ Nodes(j.wait[q]) = Nodes(k.wait[q]) \ {t}

LEMMA ListRemoveState ==
  ASSUME NEW k, k \in KernelState, NEW X, ListsSound(k, X), NEW t, NEW j,
         j = rt_list_remove(k, t)
  PROVE  /\ j \in KernelState /\ Without(j, k, t)
         /\ SameThreads(j, k) /\ j.table = k.table /\ j.group = k.group
<1>1. \A p \in Prio : /\ Unlink(k.ready[p], t) \in Seq(Thread)
                      /\ Injective(Unlink(k.ready[p], t))
                      /\ Nodes(Unlink(k.ready[p], t)) = Nodes(k.ready[p]) \ {t}
  BY UnlinkNodes DEF KernelState, ListsSound
<1>2. \A q \in WaitList : /\ Unlink(k.wait[q], t) \in Seq(Thread)
                          /\ Injective(Unlink(k.wait[q], t))
                          /\ Nodes(Unlink(k.wait[q], t)) = Nodes(k.wait[q]) \ {t}
  BY UnlinkNodes DEF KernelState, ListsSound
<1>3. /\ j.ready = [p \in Prio |-> Unlink(k.ready[p], t)]
      /\ j.wait = [q \in WaitList |-> Unlink(k.wait[q], t)]
      /\ SameThreads(j, k) /\ j.table = k.table /\ j.group = k.group
  BY DEF rt_list_remove, SameThreads, KernelState
<1>4. j \in KernelState
  BY <1>1, <1>2 DEF rt_list_remove, KernelState
<1> QED BY <1>1, <1>2, <1>3, <1>4 DEF Without

LEMMA GroupOfPrio ==
  ASSUME NEW p \in Prio
  PROVE  /\ number(p) \in Group /\ high_mask(p) \in Bit
         /\ p = number(p) * 8 + high_mask(p)
BY KernelAssumption DEF Prio, Group, Bit, number, high_mask, RT_THREAD_PRIORITY_MAX

LEMMA PrioOfGroup ==
  ASSUME NEW g \in Group, NEW b \in Bit
  PROVE  /\ g * 8 + b \in Prio
         /\ number(g * 8 + b) = g /\ high_mask(g * 8 + b) = b
BY KernelAssumption DEF Prio, Group, Bit, number, high_mask, RT_THREAD_PRIORITY_MAX

LEMMA ListsSoundUnlinked ==
  ASSUME NEW k, NEW X, NEW t, NEW j, ListsSound(k, X),
         SameThreads(j, k), Without(j, k, t)
  PROVE  ListsSound(j, X \cup {t})
<1> USE DEF SameThreads, Without
<1>1. \A p \in Prio : \A u \in Nodes(j.ready[p]) :
        j.stat[u] = "READY" /\ j.prio[u] = p /\ u \notin X \cup {t}
  BY DEF ListsSound
<1>2. \A q \in WaitList : \A u \in Nodes(j.wait[q]) :
        /\ j.stat[u] = IF q = Defunct THEN "CLOSE" ELSE "SUSPEND"
        /\ u \notin X \cup {t}
  BY DEF ListsSound
<1>3. \A q, r \in WaitList : q # r => Nodes(j.wait[q]) \cap Nodes(j.wait[r]) = {}
  BY DEF ListsSound
<1> QED BY <1>1, <1>2, <1>3 DEF ListsSound

\* rt_list_remove of a suspended thread leaves the ready lists alone.
LEMMA ListRemoveOK ==
  ASSUME NEW k, NEW X, KernelInv(k, X), NEW t \in Thread, k.stat[t] # "READY",
         NEW j, j = rt_list_remove(k, t)
  PROVE  KernelInv(j, X \cup {t}) /\ SameThreads(j, k)
<1>1. /\ k \in KernelState /\ ListsSound(k, X) /\ BitmapSound(k)
      /\ ReadyListed(k, X) /\ TimerSound(k) /\ IdleReady(k, X)
  BY DEF KernelInv
<1>2. /\ j \in KernelState /\ Without(j, k, t)
      /\ SameThreads(j, k) /\ j.table = k.table /\ j.group = k.group
  BY <1>1, ListRemoveState
<1>3. \A p \in Prio : Nodes(j.ready[p]) = Nodes(k.ready[p])
  <2> TAKE p \in Prio
  <2>1. t \notin Nodes(k.ready[p])
    BY <1>1 DEF ListsSound
  <2> QED BY <2>1, <1>2 DEF Without
<1>4. \A p \in Prio : j.ready[p] = <<>> <=> k.ready[p] = <<>>
  <2> TAKE p \in Prio
  <2>1. j.ready[p] \in Seq(Thread) /\ k.ready[p] \in Seq(Thread)
    BY <1>1, <1>2 DEF KernelState
  <2> QED BY <2>1, <1>3, EmptyNodes
<1>5. BitmapSound(j)
  BY <1>1, <1>2, <1>4 DEF BitmapSound
<1>6. ReadyListed(j, X \cup {t})
  BY <1>1, <1>2, <1>3 DEF ReadyListed, SameThreads, KernelState
<1>7. ListsSound(j, X \cup {t})
  BY <1>1, <1>2, ListsSoundUnlinked
<1>8. TimerSound(j) /\ IdleReady(j, X \cup {t})
  BY <1>1, <1>2 DEF TimerSound, IdleReady, SameThreads
<1> QED BY <1>2, <1>5, <1>6, <1>7, <1>8 DEF KernelInv

\* rt_schedule_remove_thread takes any thread but the idle thread off its list
\* and keeps the bitmap in step.
LEMMA RemoveThreadOK ==
  ASSUME NEW k, NEW X, KernelInv(k, X), NEW t \in Thread \ {Idle},
         NEW j, j = rt_schedule_remove_thread(k, t)
  PROVE  KernelInv(j, X \cup {t}) /\ SameThreads(j, k)
<1> DEFINE k1 == rt_list_remove(k, t)
           p  == k.prio[t]
           word == k1.table[number(p)] \ {high_mask(p)}
<1>1. /\ k \in KernelState /\ ListsSound(k, X) /\ BitmapSound(k)
      /\ ReadyListed(k, X) /\ TimerSound(k) /\ IdleReady(k, X)
  BY DEF KernelInv
<1>2. /\ k1 \in KernelState /\ Without(k1, k, t)
      /\ SameThreads(k1, k) /\ k1.table = k.table /\ k1.group = k.group
  BY <1>1, ListRemoveState
<1>3. j = ClearReadyBit(k1, p)
  BY DEF rt_schedule_remove_thread
<1> HIDE DEF k1
<1>4. p \in Prio /\ k.prio[t] = p
  BY <1>1 DEF KernelState
<1> HIDE DEF p
<1>p. number(p) \in Group /\ high_mask(p) \in Bit
  BY <1>4, GroupOfPrio
<1>5. \A r \in Prio : r # p => (k1.ready[r] = <<>> <=> k.ready[r] = <<>>)
  <2> TAKE r \in Prio
  <2>1. k1.ready[r] \in Seq(Thread) /\ k.ready[r] \in Seq(Thread)
    BY <1>1, <1>2 DEF KernelState
  <2>2. r # p => t \notin Nodes(k.ready[r])
    BY <1>1, <1>4 DEF ListsSound
  <2>a. Nodes(k1.ready[r]) = Nodes(k.ready[r]) \ {t}
    BY <1>2 DEF Without
  <2>3. r # p => Nodes(k1.ready[r]) = Nodes(k.ready[r])
    BY <2>2, <2>a
  <2>4. Nodes(k1.ready[r]) = {} <=> k1.ready[r] = <<>>
    BY <2>1, EmptyNodes
  <2>5. Nodes(k.ready[r]) = {} <=> k.ready[r] = <<>>
    BY <2>1, EmptyNodes
  <2> QED BY <2>3, <2>4, <2>5
<1>6. k1.ready[p] # <<>> => k.ready[p] # <<>>
  <2>1. k1.ready[p] \in Seq(Thread) /\ k.ready[p] \in Seq(Thread)
    BY <1>1, <1>2, <1>4 DEF KernelState
  <2>2. Nodes(k1.ready[p]) \subseteq Nodes(k.ready[p])
    BY <1>2, <1>4 DEF Without
  <2>3. Nodes(k1.ready[p]) = {} <=> k1.ready[p] = <<>>
    BY <2>1, EmptyNodes
  <2>4. Nodes(k.ready[p]) = {} <=> k.ready[p] = <<>>
    BY <2>1, EmptyNodes
  <2> QED BY <2>2, <2>3, <2>4
<1>7. /\ j \in KernelState /\ SameThreads(j, k1)
      /\ j.ready = k1.ready /\ j.wait = k1.wait
      /\ j.table = IF k1.ready[p] = <<>>
                   THEN [k1.table EXCEPT ![number(p)] = word] ELSE k1.table
      /\ j.group = IF k1.ready[p] = <<>> /\ word = {}
                   THEN k1.group \ {number(p)} ELSE k1.group
  <2>0. k1.table[number(p)] \in SUBSET Bit
    BY <1>2, <1>p DEF KernelState
  <2>1. CASE k1.ready[p] = <<>>
    <3> DEFINE grp == IF word = {} THEN k1.group \ {number(p)} ELSE k1.group
               tbl == [k1.table EXCEPT ![number(p)] = word]
    <3>1. j = [k1 EXCEPT !.table = tbl, !.group = grp]
      BY <2>1, <1>3 DEF ClearReadyBit
    <3>2. grp \in SUBSET Group /\ tbl \in [Group -> SUBSET Bit]
      BY <2>0, <1>2 DEF KernelState
    <3> HIDE DEF grp, tbl
    <3>3. /\ j \in KernelState /\ SameThreads(j, k1) /\ j.ready = k1.ready
          /\ j.wait = k1.wait /\ j.table = tbl /\ j.group = grp
      BY <3>1, <3>2, <1>2 DEF KernelState, SameThreads
    <3> QED BY <3>3, <2>1 DEF grp, tbl
  <2>2. CASE k1.ready[p] # <<>>
    BY <2>2, <1>2, <1>3 DEF ClearReadyBit, SameThreads
  <2> QED BY <2>1, <2>2
<1>8. BitmapSound(j)
  <2>1. ASSUME NEW r \in Prio
        PROVE  high_mask(r) \in j.table[number(r)] <=> j.ready[r] # <<>>
    <3>0. number(r) \in Group /\ r = number(r) * 8 + high_mask(r)
          /\ p = number(p) * 8 + high_mask(p)
      BY GroupOfPrio, <1>4
    <3>1. high_mask(r) \in k.table[number(r)] <=> k.ready[r] # <<>>
      BY <1>1 DEF BitmapSound
    <3>2. CASE r = p
      BY <3>1, <3>2, <1>7, <1>2, <1>6, <3>0, <1>p DEF KernelState
    <3>3. CASE r # p /\ number(r) = number(p)
      <4>1. high_mask(r) # high_mask(p)
        BY <3>3, <3>0
      <4>2. k1.ready[r] = <<>> <=> k.ready[r] = <<>>
        BY <3>3, <1>5
      <4>3. high_mask(r) \in j.table[number(r)] <=> high_mask(r) \in k.table[number(r)]
        BY <3>3, <4>1, <1>7, <1>2, <1>p DEF KernelState
      <4> QED BY <4>2, <4>3, <3>1, <1>7
    <3>4. CASE number(r) # number(p)
      <4>1. r # p
        BY <3>4
      <4>2. k1.ready[r] = <<>> <=> k.ready[r] = <<>>
        BY <4>1, <1>5
      <4>3. j.table[number(r)] = k.table[number(r)]
        BY <3>4, <1>7, <1>2, <1>p, <3>0 DEF KernelState
      <4> QED BY <4>2, <4>3, <3>1, <1>7
    <3> QED BY <3>2, <3>3, <3>4
  <2>2. ASSUME NEW g \in Group PROVE g \in j.group <=> j.table[g] # {}
    <3>1. g \in k.group <=> k.table[g] # {}
      BY <1>1 DEF BitmapSound
    <3>2. CASE k1.ready[p] # <<>>
      BY <3>1, <3>2, <1>7, <1>2
    <3>3. CASE k1.ready[p] = <<>> /\ g # number(p)
      BY <3>1, <3>3, <1>7, <1>2, <1>p DEF KernelState
    <3>4. CASE k1.ready[p] = <<>> /\ g = number(p)
      BY <3>1, <3>4, <1>7, <1>2, <1>p DEF KernelState
    <3> QED BY <3>2, <3>3, <3>4
  <2> QED BY <2>1, <2>2 DEF BitmapSound
<1>9. SameThreads(j, k)
  BY <1>2, <1>7 DEF SameThreads
<1>n. Without(j, k, t)
  BY <1>2, <1>7 DEF Without
<1>10. ReadyListed(j, X \cup {t})
  BY <1>1, <1>n, <1>9 DEF ReadyListed, SameThreads, KernelState, Without
<1>11. ListsSound(j, X \cup {t})
  BY <1>1, <1>n, <1>9, ListsSoundUnlinked
<1>12. TimerSound(j) /\ IdleReady(j, X \cup {t})
  BY <1>1, <1>9 DEF TimerSound, IdleReady, SameThreads
<1> QED BY <1>7, <1>8, <1>9, <1>10, <1>11, <1>12 DEF KernelInv

-----------------------------------------------------------------------------
(* Field updates. *)

SameLists(j, k) ==
  j.ready = k.ready /\ j.wait = k.wait /\ j.table = k.table /\ j.group = k.group

LEMMA SameListsOK ==
  ASSUME NEW k, NEW X, KernelInv(k, X), NEW j \in KernelState, SameLists(j, k),
         j.stat = k.stat, j.prio = k.prio, TimerSound(j)
  PROVE  KernelInv(j, X)
<1>1. ReadyListed(j, X) /\ IdleReady(j, X)
  BY DEF KernelInv, ReadyListed, IdleReady, SameLists
<1>2. ListsSound(j, X)
  BY DEF KernelInv, ListsSound, SameLists
<1>3. BitmapSound(j)
  BY DEF KernelInv, BitmapSound, SameLists
<1> QED BY <1>1, <1>2, <1>3 DEF KernelInv

\* t is now in state s with its timer running or not; nothing else changes.
Moved(j, k, t, s, a) ==
  /\ j.cur = k.cur /\ j.nest = k.nest
  /\ j.stat = [k.stat EXCEPT ![t] = s]
  /\ j.armed = [k.armed EXCEPT ![t] = a]

Suspended(j, k, t) ==
  Moved(j, k, t, "SUSPEND", FALSE) /\ j.prio = k.prio /\ j.err = k.err

\* No thread changes its state.
Unmoved(j, k) ==
  /\ j.cur = k.cur /\ j.nest = k.nest /\ j.stat = k.stat /\ j.armed = k.armed

\* Only thread->error of t changes.
ErrSet(j, k, t, e) ==
  SameLists(j, k) /\ j.prio = k.prio /\ j.err = [k.err EXCEPT ![t] = e]

\* Only the timer of t changes.
Disarmed(j, k, t) ==
  /\ SameLists(j, k)
  /\ j.cur = k.cur /\ j.stat = k.stat /\ j.prio = k.prio /\ j.err = k.err
  /\ j.nest = k.nest /\ j.armed = [k.armed EXCEPT ![t] = FALSE]

LEMMA StoppedOK ==
  ASSUME NEW k, NEW X, KernelInv(k, X), NEW t \in Thread, NEW j, j = Stopped(k, t)
  PROVE  KernelInv(j, X) /\ Disarmed(j, k, t)
<1>1. k \in KernelState
  BY DEF KernelInv
<1>2. /\ j \in KernelState /\ SameLists(j, k)
      /\ j.cur = k.cur /\ j.stat = k.stat /\ j.prio = k.prio /\ j.err = k.err
      /\ j.nest = k.nest /\ j.armed = [k.armed EXCEPT ![t] = FALSE]
  BY <1>1 DEF Stopped, KernelState, SameLists
<1>3. TimerSound(j)
  BY <1>1, <1>2 DEF KernelInv, TimerSound, KernelState
<1> QED BY <1>2, <1>3, SameListsOK DEF Disarmed

LEMMA StartedOK ==
  ASSUME NEW k, NEW X, KernelInv(k, X), NEW t \in Thread, k.stat[t] = "SUSPEND",
         NEW j, j = Started(k, t)
  PROVE  /\ KernelInv(j, X) /\ SameLists(j, k)
         /\ j.cur = k.cur /\ j.stat = k.stat /\ j.prio = k.prio /\ j.err = k.err
         /\ j.nest = k.nest /\ j.armed = [k.armed EXCEPT ![t] = TRUE]
<1>1. k \in KernelState
  BY DEF KernelInv
<1>2. /\ j \in KernelState /\ SameLists(j, k)
      /\ j.cur = k.cur /\ j.stat = k.stat /\ j.prio = k.prio /\ j.err = k.err
      /\ j.nest = k.nest /\ j.armed = [k.armed EXCEPT ![t] = TRUE]
  BY <1>1 DEF Started, KernelState, SameLists
<1>3. TimerSound(j)
  BY <1>1, <1>2 DEF KernelInv, TimerSound, KernelState
<1> QED BY <1>2, <1>3, SameListsOK

LEMMA SetErrOK ==
  ASSUME NEW k, NEW X, KernelInv(k, X), NEW t \in Thread,
         NEW e \in ErrNo, NEW j, j = SetErr(k, t, e)
  PROVE  KernelInv(j, X) /\ Unmoved(j, k) /\ ErrSet(j, k, t, e)
<1>1. k \in KernelState
  BY DEF KernelInv
<1>2. /\ j \in KernelState /\ SameLists(j, k)
      /\ j.cur = k.cur /\ j.stat = k.stat /\ j.prio = k.prio
      /\ j.armed = k.armed /\ j.nest = k.nest
      /\ j.err = [k.err EXCEPT ![t] = e]
  BY <1>1 DEF SetErr, KernelState, SameLists
<1>3. TimerSound(j)
  BY <1>2 DEF KernelInv, TimerSound
<1> QED BY <1>2, <1>3, SameListsOK DEF Unmoved, ErrSet

\* A thread that is off every list may change its state; once it is not READY
\* it may leave X.
LEMMA SetStatOK ==
  ASSUME NEW k, NEW X, KernelInv(k, X), NEW t \in X, t \in Thread,
         NEW x \in Stat, x # "SUSPEND" => ~k.armed[t],
         NEW Y, Y = X \/ (x # "READY" /\ Y = X \ {t}),
         NEW j, j = SetStat(k, t, x)
  PROVE  /\ KernelInv(j, Y) /\ SameLists(j, k)
         /\ j.cur = k.cur /\ j.prio = k.prio /\ j.err = k.err
         /\ j.armed = k.armed /\ j.nest = k.nest
         /\ j.stat = [k.stat EXCEPT ![t] = x]
<1>1. /\ k \in KernelState /\ ListsSound(k, X) /\ BitmapSound(k)
      /\ ReadyListed(k, X) /\ TimerSound(k) /\ IdleReady(k, X)
  BY DEF KernelInv
<1>2. /\ j \in KernelState /\ SameLists(j, k)
      /\ j.cur = k.cur /\ j.prio = k.prio /\ j.err = k.err
      /\ j.armed = k.armed /\ j.nest = k.nest
      /\ j.stat = [k.stat EXCEPT ![t] = x]
  BY <1>1 DEF SetStat, KernelState, SameLists
<1>3. k.stat \in [Thread -> Stat] /\ \A u \in Thread : u # t => j.stat[u] = k.stat[u]
  BY <1>1, <1>2 DEF KernelState
<1>4. j.stat[t] = x
  BY <1>2, <1>3
<1>5. TimerSound(j)
  BY <1>1, <1>2, <1>3, <1>4 DEF TimerSound
<1>6. ReadyListed(j, Y)
  BY <1>1, <1>2, <1>3, <1>4 DEF ReadyListed, SameLists
<1>7. ListsSound(j, Y)
  <2>1. \A p \in Prio : k.ready[p] \in Seq(Thread)
    BY <1>1 DEF KernelState
  <2>2. \A q \in WaitList : k.wait[q] \in Seq(Thread)
    BY <1>1 DEF KernelState
  <2>3. \A p \in Prio : \A u \in Nodes(k.ready[p]) : u \in Thread /\ u # t /\ u \notin Y
    BY <2>1, <1>1, EmptyNodes DEF ListsSound
  <2>4. \A q \in WaitList : \A u \in Nodes(k.wait[q]) : u \in Thread /\ u # t /\ u \notin Y
    BY <2>2, <1>1, EmptyNodes DEF ListsSound
  <2> QED BY <2>3, <2>4, <1>1, <1>2, <1>3 DEF ListsSound, SameLists
<1>8. IdleReady(j, Y) /\ BitmapSound(j)
  BY <1>1, <1>2, <1>3, KernelAssumption DEF IdleReady, BitmapSound, SameLists
<1> QED BY <1>2, <1>5, <1>6, <1>7, <1>8 DEF KernelInv

\* The priority of a thread that is off the ready lists may change.

LEMMA SetPrioOK ==
  ASSUME NEW k, NEW X, KernelInv(k, X), NEW t \in Thread \ {Idle}, NEW p \in Prio,
         k.stat[t] # "READY" \/ t \in X, NEW j, j = SetPrio(k, t, p)
  PROVE  /\ KernelInv(j, X) /\ SameLists(j, k)
         /\ j.cur = k.cur /\ j.stat = k.stat /\ j.err = k.err
         /\ j.armed = k.armed /\ j.nest = k.nest
         /\ j.prio = [k.prio EXCEPT ![t] = p]
<1>1. /\ k \in KernelState /\ ListsSound(k, X) /\ BitmapSound(k)
      /\ ReadyListed(k, X) /\ TimerSound(k) /\ IdleReady(k, X)
  BY DEF KernelInv
<1>2. /\ j \in KernelState /\ SameLists(j, k)
      /\ j.cur = k.cur /\ j.stat = k.stat /\ j.err = k.err
      /\ j.armed = k.armed /\ j.nest = k.nest
      /\ j.prio = [k.prio EXCEPT ![t] = p]
  BY <1>1 DEF SetPrio, KernelState, SameLists
<1>3. \A u \in Thread : u # t => j.prio[u] = k.prio[u]
  BY <1>1, <1>2 DEF KernelState
<1>4. \A r \in Prio : \A u \in Nodes(k.ready[r]) : u \in Thread /\ u # t
  <2> TAKE r \in Prio
  <2>1. k.ready[r] \in Seq(Thread)
    BY <1>1 DEF KernelState
  <2>2. Nodes(k.ready[r]) \subseteq Thread
    BY <2>1, EmptyNodes
  <2> QED BY <2>2, <1>1 DEF ListsSound
<1>5. ReadyListed(j, X)
  BY <1>1, <1>2, <1>3 DEF ReadyListed, SameLists
<1>6. ListsSound(j, X)
  BY <1>1, <1>2, <1>3, <1>4 DEF ListsSound, SameLists
<1>7. IdleReady(j, X) /\ BitmapSound(j) /\ TimerSound(j)
  BY <1>1, <1>2, <1>3, KernelAssumption DEF IdleReady, BitmapSound, TimerSound, SameLists
<1> QED BY <1>2, <1>5, <1>6, <1>7 DEF KernelInv

-----------------------------------------------------------------------------
(* Into the ready table, and the scheduler's choice out of it. *)

\* What rt_schedule_insert_thread needs: the bit of the thread's own priority
\* may still be set for an empty list, it is set again.
PreInsert(k, X, t) ==
  /\ k \in KernelState /\ ReadyListed(k, X) /\ ListsSound(k, X)
  /\ TimerSound(k) /\ IdleReady(k, X)
  /\ \A p \in Prio : p # k.prio[t] =>
       (high_mask(p) \in k.table[number(p)] <=> k.ready[p] # <<>>)
  /\ \A g \in Group : g \in k.group <=> k.table[g] # {}

\* rt_list_remove of any thread but the idle thread, ready or not.
LEMMA UnlinkForInsertOK ==
  ASSUME NEW k, NEW X, KernelInv(k, X), NEW t \in Thread \ {Idle},
         NEW j, j = rt_list_remove(k, t)
  PROVE  PreInsert(j, X \cup {t}, t) /\ SameThreads(j, k)
<1>1. /\ k \in KernelState /\ ListsSound(k, X) /\ BitmapSound(k)
      /\ ReadyListed(k, X) /\ TimerSound(k) /\ IdleReady(k, X)
  BY DEF KernelInv
<1>2. /\ j \in KernelState /\ Without(j, k, t)
      /\ SameThreads(j, k) /\ j.table = k.table /\ j.group = k.group
  BY <1>1, ListRemoveState
<1>3. \A p \in Prio : p # k.prio[t] => (j.ready[p] = <<>> <=> k.ready[p] = <<>>)
  <2> TAKE p \in Prio
  <2> HAVE p # k.prio[t]
  <2>1. j.ready[p] \in Seq(Thread) /\ k.ready[p] \in Seq(Thread)
    BY <1>1, <1>2 DEF KernelState
  <2>2. t \notin Nodes(k.ready[p])
    BY <1>1 DEF ListsSound
  <2>3. Nodes(j.ready[p]) = Nodes(k.ready[p])
    BY <2>2, <1>2 DEF Without
  <2> QED BY <2>1, <2>3, EmptyNodes
<1>4. \A p \in Prio : p # j.prio[t] =>
        (high_mask(p) \in j.table[number(p)] <=> j.ready[p] # <<>>)
  BY <1>1, <1>2, <1>3 DEF BitmapSound, SameThreads
<1>5. \A g \in Group : g \in j.group <=> j.table[g] # {}
  BY <1>1, <1>2 DEF BitmapSound
<1>6. ReadyListed(j, X \cup {t})
  BY <1>1, <1>2 DEF ReadyListed, SameThreads, KernelState, Without
<1>7. ListsSound(j, X \cup {t})
  BY <1>1, <1>2, ListsSoundUnlinked
<1>8. TimerSound(j) /\ IdleReady(j, X \cup {t})
  BY <1>1, <1>2 DEF TimerSound, IdleReady, SameThreads
<1> QED BY <1>2, <1>4, <1>5, <1>6, <1>7, <1>8 DEF PreInsert

LEMMA InsertThreadOK ==
  ASSUME NEW k, NEW X, NEW t \in X, PreInsert(k, X, t), t \in Thread, ~k.armed[t],
         NEW j, j = rt_schedule_insert_thread(k, t)
  PROVE  /\ KernelInv(j, X \ {t})
         /\ j.cur = k.cur /\ j.prio = k.prio /\ j.err = k.err
         /\ j.armed = k.armed /\ j.nest = k.nest /\ j.wait = k.wait
         /\ j.stat = [k.stat EXCEPT ![t] = "READY"]
<1> DEFINE p == k.prio[t]
           tbl == [k.table EXCEPT ![number(p)] = k.table[number(p)] \cup {high_mask(p)}]
           rdy == [k.ready EXCEPT ![p] = Append(k.ready[p], t)]
           st  == [k.stat EXCEPT ![t] = "READY"]
<1>1. /\ k \in KernelState /\ ListsSound(k, X)
      /\ ReadyListed(k, X) /\ TimerSound(k) /\ IdleReady(k, X)
  BY DEF PreInsert
<1>2. p \in Prio /\ k.prio[t] = p
  BY <1>1 DEF KernelState
<1>3. j = [k EXCEPT !.stat = st, !.ready = rdy, !.table = tbl,
                    !.group = @ \cup {number(p)}]
  BY DEF rt_schedule_insert_thread
<1> HIDE DEF p
<1>4. number(p) \in Group /\ high_mask(p) \in Bit
  BY <1>2, GroupOfPrio
<1>5. /\ \A r \in Prio : k.ready[r] \in Seq(Thread)
      /\ k.stat \in [Thread -> Stat] /\ k.ready \in [Prio -> Seq(Thread)]
      /\ k.table \in [Group -> SUBSET Bit] /\ k.prio \in [Thread -> Prio]
  BY <1>1 DEF KernelState
<1>6. /\ Append(k.ready[p], t) \in Seq(Thread)
      /\ Injective(Append(k.ready[p], t))
      /\ Nodes(Append(k.ready[p], t)) = Nodes(k.ready[p]) \cup {t}
  <2>1. Injective(k.ready[p]) /\ t \notin Nodes(k.ready[p])
    BY <1>1, <1>2 DEF ListsSound
  <2> QED BY <2>1, <1>2, <1>5, AppendNodes
<1>7. /\ st \in [Thread -> Stat] /\ rdy \in [Prio -> Seq(Thread)]
      /\ tbl \in [Group -> SUBSET Bit] /\ k.group \cup {number(p)} \in SUBSET Group
  <2>1. st \in [Thread -> Stat]
    BY <1>5 DEF Stat
  <2>2. rdy \in [Prio -> Seq(Thread)]
    BY <1>5, <1>6
  <2>3. tbl \in [Group -> SUBSET Bit]
    BY <1>4, <1>5
  <2>4. k.group \cup {number(p)} \in SUBSET Group
    BY <1>1, <1>4 DEF KernelState
  <2> QED BY <2>1, <2>2, <2>3, <2>4
<1>8. /\ \A r \in Prio : r # p => rdy[r] = k.ready[r]
      /\ rdy[p] = Append(k.ready[p], t)
      /\ \A u \in Thread : u # t => st[u] = k.stat[u]
      /\ st[t] = "READY"
      /\ \A g \in Group : g # number(p) => tbl[g] = k.table[g]
      /\ tbl[number(p)] = k.table[number(p)] \cup {high_mask(p)}
  BY <1>2, <1>4, <1>5
<1> HIDE DEF tbl, rdy, st
<1>9. /\ j \in KernelState
      /\ j.cur = k.cur /\ j.prio = k.prio /\ j.err = k.err
      /\ j.armed = k.armed /\ j.nest = k.nest /\ j.wait = k.wait
      /\ j.stat = st /\ j.ready = rdy /\ j.table = tbl
      /\ j.group = k.group \cup {number(p)}
  BY <1>1, <1>3, <1>7 DEF KernelState
<1>10. ReadyListed(j, X \ {t})
  <2> SUFFICES ASSUME NEW u \in Thread \ (X \ {t}), st[u] = "READY"
               PROVE  u \in Nodes(rdy[k.prio[u]])
    BY <1>9 DEF ReadyListed
  <2>1. CASE u = t
    BY <2>1, <1>2, <1>6, <1>8
  <2>2. CASE u # t
    <3>1. u \in Nodes(k.ready[k.prio[u]])
      BY <2>2, <1>1, <1>8 DEF ReadyListed
    <3>2. k.prio[u] = p => u \in Nodes(rdy[p])
      BY <3>1, <1>6, <1>8
    <3>3. k.prio[u] \in Prio
      BY <1>5
    <3> QED BY <3>1, <3>2, <3>3, <1>8
  <2> QED BY <2>1, <2>2
<1>11. ListsSound(j, X \ {t})
  <2>1. ASSUME NEW r \in Prio
        PROVE  /\ Injective(rdy[r])
               /\ \A u \in Nodes(rdy[r]) :
                    st[u] = "READY" /\ k.prio[u] = r /\ u \notin X \ {t}
    <3>1. /\ Injective(k.ready[r])
          /\ \A u \in Nodes(k.ready[r]) :
               k.stat[u] = "READY" /\ k.prio[u] = r /\ u \notin X
      BY <1>1 DEF ListsSound
    <3>2. Nodes(k.ready[r]) \subseteq Thread
      BY <1>5, EmptyNodes
    <3>3. CASE r = p
      BY <3>1, <3>2, <3>3, <1>2, <1>6, <1>8
    <3>4. CASE r # p
      BY <3>1, <3>2, <3>4, <1>8
    <3> QED BY <3>3, <3>4
  <2>2. ASSUME NEW q \in WaitList
        PROVE  /\ Injective(k.wait[q])
               /\ \A u \in Nodes(k.wait[q]) :
                    /\ st[u] = IF q = Defunct THEN "CLOSE" ELSE "SUSPEND"
                    /\ u \notin X \ {t}
    <3>1. k.wait[q] \in Seq(Thread)
      BY <1>1 DEF KernelState
    <3>2. Nodes(k.wait[q]) \subseteq Thread
      BY <3>1, EmptyNodes
    <3> QED BY <3>2, <1>1, <1>8 DEF ListsSound
  <2>3. \A q, r \in WaitList : q # r => Nodes(k.wait[q]) \cap Nodes(k.wait[r]) = {}
    BY <1>1 DEF ListsSound
  <2> QED BY <2>1, <2>2, <2>3, <1>9 DEF ListsSound
<1>12. BitmapSound(j)
  <2>1. ASSUME NEW r \in Prio
        PROVE  high_mask(r) \in tbl[number(r)] <=> rdy[r] # <<>>
    <3>0. number(r) \in Group /\ r = number(r) * 8 + high_mask(r)
          /\ p = number(p) * 8 + high_mask(p)
      BY GroupOfPrio, <1>2
    <3>1. r # p => (high_mask(r) \in k.table[number(r)] <=> k.ready[r] # <<>>)
      BY <1>2 DEF PreInsert
    <3>2. CASE r = p
      <4>1. t \in Nodes(rdy[r]) /\ rdy[r] \in Seq(Thread)
        BY <3>2, <1>6, <1>8
      <4>2. rdy[r] # <<>>
        BY <4>1, EmptyNodes
      <4> QED BY <3>2, <4>2, <1>8
    <3>3. CASE r # p /\ number(r) = number(p)
      BY <3>0, <3>1, <3>3, <1>8
    <3>4. CASE number(r) # number(p)
      BY <3>0, <3>1, <3>4, <1>8
    <3> QED BY <3>2, <3>3, <3>4
  <2>2. \A g \in Group : g \in k.group \cup {number(p)} <=> tbl[g] # {}
    BY <1>8 DEF PreInsert
  <2> QED BY <2>1, <2>2, <1>9 DEF BitmapSound
<1>13. TimerSound(j) /\ IdleReady(j, X \ {t})
  BY <1>1, <1>8, <1>9, KernelAssumption DEF TimerSound, IdleReady
<1> QED BY <1>9, <1>10, <1>11, <1>12, <1>13 DEF KernelInv, st

\* No ready thread outranks t.
Highest(k, X, t) ==
  /\ t \in Thread /\ t \notin X /\ k.stat[t] = "READY"
  /\ \A u \in Thread \ X : k.stat[u] = "READY" => k.prio[t] <= k.prio[u]

LEMMA ScheduleOK ==
  ASSUME NEW k, NEW X, KernelInv(k, X), NEW j, j = rt_schedule(k)
  PROVE  /\ KernelInv(j, X) /\ SameLists(j, k)
         /\ j.stat = k.stat /\ j.prio = k.prio /\ j.err = k.err
         /\ j.armed = k.armed /\ j.nest = k.nest
         /\ k.nest # 0 => j.cur = k.cur
         /\ k.nest = 0 => Highest(j, X, j.cur)
<1>1. /\ k \in KernelState /\ ListsSound(k, X) /\ BitmapSound(k)
      /\ ReadyListed(k, X) /\ TimerSound(k) /\ IdleReady(k, X)
  BY DEF KernelInv
<1> DEFINE n == rt_ffs(k.group)
           b == rt_ffs(k.table[n])
           h == n * 8 + b
<1>2. ASSUME NEW u \in Thread \ X, k.stat[u] = "READY"
      PROVE  /\ k.prio[u] \in Prio
             /\ number(k.prio[u]) \in k.group
             /\ high_mask(k.prio[u]) \in k.table[number(k.prio[u])]
  <2>1. k.prio[u] \in Prio /\ k.ready[k.prio[u]] \in Seq(Thread)
    BY <1>1 DEF KernelState
  <2>2. k.ready[k.prio[u]] # <<>>
    BY <2>1, <1>1, <1>2, EmptyNodes DEF ReadyListed
  <2>3. number(k.prio[u]) \in Group
    BY <2>1, GroupOfPrio
  <2> QED BY <2>1, <2>2, <2>3, <1>1 DEF BitmapSound
<1>3. n \in k.group /\ \A g \in k.group : n <= g
  <2>1. k.group \in SUBSET Nat
    BY <1>1, KernelAssumption DEF KernelState, Group
  <2>2. k.group # {}
    BY <1>1, <1>2, KernelAssumption DEF IdleReady
  <2> QED BY <2>1, <2>2, rt_ffsLowest
<1> HIDE DEF n
<1>4. n \in Group
  BY <1>1, <1>3 DEF KernelState
<1>5. b \in k.table[n] /\ \A c \in k.table[n] : b <= c
  <2>1. k.table[n] \in SUBSET Nat
    <3>1. k.table[n] \in SUBSET Bit
      BY <1>1, <1>4 DEF KernelState
    <3> QED BY <3>1 DEF Bit
  <2>2. k.table[n] # {}
    BY <1>1, <1>3, <1>4 DEF BitmapSound
  <2> QED BY <2>1, <2>2, rt_ffsLowest
<1> HIDE DEF b
<1>6. b \in Bit
  BY <1>1, <1>4, <1>5 DEF KernelState
<1>7. h \in Prio /\ number(h) = n /\ high_mask(h) = b
  BY <1>4, <1>6, PrioOfGroup
<1>8. highest_ready_priority(k) = h
  BY DEF highest_ready_priority, n, b
<1> HIDE DEF h
<1>9. k.ready[h] # <<>> /\ k.ready[h] \in Seq(Thread)
  BY <1>1, <1>5, <1>7 DEF BitmapSound, KernelState
<1> DEFINE t == Head(k.ready[h])
<1>10. t \in Nodes(k.ready[h]) /\ t \in Thread
  BY <1>9, EmptyNodes
<1>11. t \notin X /\ k.stat[t] = "READY" /\ k.prio[t] = h
  BY <1>1, <1>7, <1>10 DEF ListsSound
<1>12. ASSUME NEW u \in Thread \ X, k.stat[u] = "READY" PROVE h <= k.prio[u]
  <2> DEFINE r == k.prio[u]
  <2>1. r \in Prio /\ number(r) \in k.group /\ high_mask(r) \in k.table[number(r)]
    BY <1>2, <1>12
  <2> HIDE DEF r
  <2>2. /\ number(r) \in Group /\ high_mask(r) \in Bit
        /\ r = number(r) * 8 + high_mask(r)
    BY <2>1, GroupOfPrio
  <2>3. n <= number(r)
    BY <2>1, <1>3
  <2>4. number(r) = n => b <= high_mask(r)
    BY <2>1, <1>5
  <2>5. h <= r
    BY <2>2, <2>3, <2>4, <1>4, <1>6, KernelAssumption DEF h, Group, Bit
  <2> QED BY <2>5 DEF r
<1>13. CASE k.nest = 0
  <2>1. j = [k EXCEPT !.cur = t]
    BY <1>8, <1>13 DEF rt_schedule
  <2>2. /\ j \in KernelState /\ SameLists(j, k)
        /\ j.stat = k.stat /\ j.prio = k.prio /\ j.err = k.err
        /\ j.armed = k.armed /\ j.nest = k.nest /\ j.cur = t
    BY <2>1, <1>1, <1>10 DEF KernelState, SameLists
  <2>3. TimerSound(j)
    BY <2>2, <1>1 DEF TimerSound
  <2>4. KernelInv(j, X)
    BY <2>2, <2>3, SameListsOK
  <2>5. Highest(j, X, j.cur)
    BY <2>2, <1>10, <1>11, <1>12 DEF Highest
  <2> QED BY <2>2, <2>4, <2>5, <1>13
<1>14. CASE k.nest # 0
  <2>1. j = k
    BY <1>14 DEF rt_schedule
  <2> QED BY <2>1, <1>14 DEF SameLists
<1> QED BY <1>13, <1>14

-----------------------------------------------------------------------------
(* The compound operations. *)

\* rt_thread_yield by a thread that is not being deleted.
LEMMA YieldOK ==
  ASSUME NEW k, NEW X, KernelInv(k, X), k.cur \notin X, NEW j, j = rt_thread_yield(k)
  PROVE  /\ KernelInv(j, X)
         /\ j.stat = k.stat /\ j.prio = k.prio /\ j.err = k.err
         /\ j.armed = k.armed /\ j.nest = k.nest /\ j.wait = k.wait
         /\ k.nest # 0 => j.cur = k.cur
         /\ j.cur # k.cur => Highest(j, X, j.cur)
<1> DEFINE t == k.cur
           p == k.prio[t]
           w == Append(Unlink(k.ready[p], t), t)
           rdy == [k.ready EXCEPT ![p] = w]
           k1 == [k EXCEPT !.ready = rdy]
<1>1. /\ k \in KernelState /\ ListsSound(k, X) /\ BitmapSound(k)
      /\ ReadyListed(k, X) /\ TimerSound(k) /\ IdleReady(k, X)
  BY DEF KernelInv
<1>2. CASE ~(k.stat[t] = "READY" /\ Len(k.ready[p]) > 1)
  <2>1. j = k
    BY <1>2 DEF rt_thread_yield
  <2> QED BY <2>1
<1>3. CASE k.stat[t] = "READY" /\ Len(k.ready[p]) > 1
  <2>1. j = rt_schedule(k1)
    BY <1>3 DEF rt_thread_yield
  <2>2. t \in Thread /\ p \in Prio /\ k.ready[p] \in Seq(Thread)
    BY <1>1 DEF KernelState
  <2>3. t \in Nodes(k.ready[p]) /\ Injective(k.ready[p])
    BY <1>1, <1>3, <2>2 DEF ReadyListed, ListsSound
  <2>4. /\ Unlink(k.ready[p], t) \in Seq(Thread)
        /\ Injective(Unlink(k.ready[p], t))
        /\ Nodes(Unlink(k.ready[p], t)) = Nodes(k.ready[p]) \ {t}
    BY <2>2, <2>3, UnlinkNodes
  <2>5. w \in Seq(Thread) /\ Injective(w) /\ Nodes(w) = Nodes(k.ready[p]) \cup {t}
    <3>1. Nodes(w) = Nodes(Unlink(k.ready[p], t)) \cup {t}
      BY <2>2, <2>4, AppendNodes
    <3> QED BY <2>2, <2>3, <2>4, <3>1, AppendNodes
  <2>6. Nodes(w) = Nodes(k.ready[p])
    BY <2>3, <2>5
  <2>7. w # <<>> /\ k.ready[p] # <<>>
    BY <2>2, <2>3, <2>5, <2>6, EmptyNodes
  <2> HIDE DEF w, p, t
  <2>8. /\ rdy \in [Prio -> Seq(Thread)]
        /\ \A r \in Prio : r # p => rdy[r] = k.ready[r]
        /\ rdy[p] = w
    BY <1>1, <2>2, <2>5 DEF KernelState
  <2> HIDE DEF rdy
  <2>9. /\ k1 \in KernelState /\ k1.ready = rdy /\ SameThreads(k1, k)
        /\ k1.wait = k.wait /\ k1.table = k.table /\ k1.group = k.group
    BY <1>1, <2>8 DEF KernelState, SameThreads
  <2> HIDE DEF k1
  <2>10. \A r \in Prio : /\ Nodes(rdy[r]) = Nodes(k.ready[r])
                         /\ Injective(rdy[r])
                         /\ rdy[r] = <<>> <=> k.ready[r] = <<>>
    BY <2>5, <2>6, <2>7, <2>8, <1>1 DEF ListsSound
  <2>11. KernelInv(k1, X)
    <3>1. ReadyListed(k1, X)
      BY <1>1, <2>9, <2>10 DEF ReadyListed, SameThreads, KernelState
    <3>2. ListsSound(k1, X)
      <4>1. \A r \in Prio :
              /\ Injective(k1.ready[r])
              /\ \A u \in Nodes(k1.ready[r]) :
                   k1.stat[u] = "READY" /\ k1.prio[u] = r /\ u \notin X
        BY <1>1, <2>9, <2>10 DEF ListsSound, SameThreads
      <4> QED BY <4>1, <1>1, <2>9 DEF ListsSound, SameThreads
    <3>3. BitmapSound(k1)
      BY <1>1, <2>9, <2>10 DEF BitmapSound
    <3>4. TimerSound(k1) /\ IdleReady(k1, X)
      BY <1>1, <2>9 DEF TimerSound, IdleReady, SameThreads
    <3> QED BY <2>9, <3>1, <3>2, <3>3, <3>4 DEF KernelInv
  <2>12. /\ KernelInv(j, X) /\ SameLists(j, k1)
         /\ j.stat = k1.stat /\ j.prio = k1.prio /\ j.err = k1.err
         /\ j.armed = k1.armed /\ j.nest = k1.nest
         /\ k1.nest # 0 => j.cur = k1.cur
         /\ k1.nest = 0 => Highest(j, X, j.cur)
    BY <2>1, <2>11, ScheduleOK
  <2> QED BY <2>12, <2>9 DEF SameThreads, SameLists
<1> QED BY <1>2, <1>3

\* The section of rt_thread_suspend.
LEMMA SuspendOK ==
  ASSUME NEW k, NEW X, KernelInv(k, X), NEW t \in Thread \ {Idle}, t \notin X,
         NEW j, j = SuspendSection(k, t)
  PROVE  /\ KernelInv(j, X) /\ KernelInv(j, X \cup {t})
         /\ Suspended(j, k, t)
<1> DEFINE k1 == rt_schedule_remove_thread(k, t)
           k2 == SetStat(k1, t, "SUSPEND")
           Y == X \cup {t}
<1>1. KernelInv(k1, Y) /\ SameThreads(k1, k)
  BY RemoveThreadOK
<1>2. j = Stopped(k2, t)
  BY DEF SuspendSection
<1> HIDE DEF k1
<1>3. t \in Y /\ t \in Thread /\ "SUSPEND" \in Stat /\ X = Y \ {t}
  BY DEF Stat
<1> HIDE DEF Y
<1>4. /\ KernelInv(k2, X) /\ KernelInv(k2, Y)
      /\ k2.cur = k1.cur /\ k2.prio = k1.prio /\ k2.err = k1.err
      /\ k2.armed = k1.armed /\ k2.nest = k1.nest
      /\ k2.stat = [k1.stat EXCEPT ![t] = "SUSPEND"]
  BY <1>1, <1>3, SetStatOK
<1> HIDE DEF k2
<1>5. KernelInv(j, X) /\ KernelInv(j, Y) /\ Disarmed(j, k2, t)
  BY <1>2, <1>3, <1>4, StoppedOK
<1> QED BY <1>1, <1>4, <1>5 DEF SameThreads, Y, Moved, Suspended, Disarmed

\* The section of rt_thread_resume.  The thread may have become READY since
\* its state was checked: it then moves to the end of its ready list.
LEMMA ResumeOK ==
  ASSUME NEW k, NEW X, KernelInv(k, X), NEW t \in Thread \ {Idle}, t \notin X,
         NEW j, j = ResumeSection(k, t)
  PROVE  /\ KernelInv(j, X)
         /\ j.cur = k.cur /\ j.prio = k.prio /\ j.err = k.err /\ j.nest = k.nest
         /\ j.stat = [k.stat EXCEPT ![t] = "READY"]
         /\ j.armed = [k.armed EXCEPT ![t] = FALSE]
<1> DEFINE k1 == rt_list_remove(k, t)
           k2 == Stopped(k1, t)
           Y == X \cup {t}
<1>1. PreInsert(k1, Y, t) /\ SameThreads(k1, k)
  BY UnlinkForInsertOK
<1>2. j = rt_schedule_insert_thread(k2, t)
  BY DEF ResumeSection
<1> HIDE DEF k1
<1>3. t \in Y /\ X = Y \ {t}
  OBVIOUS
<1> HIDE DEF Y
<1>4. k1 \in KernelState
  BY <1>1 DEF PreInsert
<1>5. /\ k2 \in KernelState /\ SameLists(k2, k1)
      /\ k2.cur = k1.cur /\ k2.stat = k1.stat /\ k2.prio = k1.prio /\ k2.err = k1.err
      /\ k2.nest = k1.nest /\ k2.armed = [k1.armed EXCEPT ![t] = FALSE]
  BY <1>4 DEF Stopped, KernelState, SameLists
<1> HIDE DEF k2
<1>6. k1.armed \in [Thread -> BOOLEAN]
  BY <1>4 DEF KernelState
<1>7. ~k2.armed[t] /\ TimerSound(k2)
  BY <1>1, <1>5, <1>6 DEF PreInsert, TimerSound
<1>8. PreInsert(k2, Y, t)
  <2>1. ReadyListed(k2, Y) /\ IdleReady(k2, Y)
    BY <1>1, <1>5 DEF PreInsert, ReadyListed, IdleReady, SameLists
  <2>2. ListsSound(k2, Y)
    BY <1>1, <1>5 DEF PreInsert, ListsSound, SameLists
  <2>3. /\ \A p \in Prio : p # k2.prio[t] =>
             (high_mask(p) \in k2.table[number(p)] <=> k2.ready[p] # <<>>)
        /\ \A g \in Group : g \in k2.group <=> k2.table[g] # {}
    BY <1>1, <1>5 DEF PreInsert, SameLists
  <2> QED BY <1>5, <1>7, <2>1, <2>2, <2>3 DEF PreInsert
<1>9. /\ KernelInv(j, Y \ {t})
      /\ j.cur = k2.cur /\ j.prio = k2.prio /\ j.err = k2.err
      /\ j.armed = k2.armed /\ j.nest = k2.nest
      /\ j.stat = [k2.stat EXCEPT ![t] = "READY"]
  BY <1>2, <1>3, <1>7, <1>8, InsertThreadOK
<1> QED BY <1>1, <1>3, <1>5, <1>9 DEF SameThreads

\* What rt_thread_timeout does.
TimedOut(j, k, X, t) ==
  /\ j.prio = k.prio /\ j.nest = k.nest
  /\ j.stat = [k.stat EXCEPT ![t] = "READY"]
  /\ j.armed = [k.armed EXCEPT ![t] = FALSE]
  /\ j.err = [k.err EXCEPT ![t] = RT_ETIMEOUT]
  /\ k.nest # 0 => j.cur = k.cur
  /\ k.nest = 0 => Highest(j, X, j.cur)

\* rt_thread_timeout of a thread whose timer was running.
LEMMA TimeoutOK ==
  ASSUME NEW k, NEW X, KernelInv(k, X), NEW t \in Thread, t \notin X, k.armed[t] = TRUE,
         NEW j, j = rt_thread_timeout(k, t)
  PROVE  KernelInv(j, X) /\ TimedOut(j, k, X, t)
<1> DEFINE k1 == Stopped(k, t)
           k2 == SetErr(k1, t, RT_ETIMEOUT)
           k3 == rt_list_remove(k2, t)
           k4 == rt_schedule_insert_thread(k3, t)
           Y == X \cup {t}
<1>1. k.stat[t] = "SUSPEND" /\ k.armed \in [Thread -> BOOLEAN]
  BY DEF KernelInv, TimerSound, KernelState
<1>2. j = rt_schedule(k4)
  BY DEF rt_thread_timeout
<1>3. /\ KernelInv(k1, X)
      /\ k1.cur = k.cur /\ k1.stat = k.stat /\ k1.prio = k.prio /\ k1.err = k.err
      /\ k1.nest = k.nest /\ k1.armed = [k.armed EXCEPT ![t] = FALSE]
  <2>1. k1 = Stopped(k, t)
    OBVIOUS
  <2> HIDE DEF k1
  <2>2. KernelInv(k1, X) /\ Disarmed(k1, k, t)
    BY <2>1, StoppedOK
  <2> QED BY <2>2 DEF Disarmed
<1> HIDE DEF k1
<1>4. /\ KernelInv(k2, X)
      /\ k2.cur = k1.cur /\ k2.stat = k1.stat /\ k2.prio = k1.prio
      /\ k2.armed = k1.armed /\ k2.nest = k1.nest
      /\ k2.err = [k1.err EXCEPT ![t] = RT_ETIMEOUT]
  <2>1. RT_ETIMEOUT \in ErrNo
    BY DEF ErrNo
  <2>2. k2 = SetErr(k1, t, RT_ETIMEOUT)
    OBVIOUS
  <2> HIDE DEF k2
  <2>3. KernelInv(k2, X) /\ Unmoved(k2, k1) /\ ErrSet(k2, k1, t, RT_ETIMEOUT)
    BY <1>3, <2>1, <2>2, SetErrOK
  <2> QED BY <2>3 DEF Unmoved, ErrSet
<1> HIDE DEF k2
<1>i. t # Idle
  BY <1>1 DEF KernelInv, IdleReady
<1>5. PreInsert(k3, Y, t) /\ SameThreads(k3, k2)
  BY <1>i, <1>3, <1>4, UnlinkForInsertOK
<1>6. ~k3.armed[t]
  BY <1>1, <1>3, <1>4, <1>5 DEF SameThreads
<1> HIDE DEF k3
<1>7. t \in Y /\ X = Y \ {t}
  OBVIOUS
<1> HIDE DEF Y
<1>8. /\ KernelInv(k4, Y \ {t})
      /\ k4.cur = k3.cur /\ k4.prio = k3.prio /\ k4.err = k3.err
      /\ k4.armed = k3.armed /\ k4.nest = k3.nest
      /\ k4.stat = [k3.stat EXCEPT ![t] = "READY"]
  BY <1>5, <1>6, <1>7, InsertThreadOK
<1> HIDE DEF k4
<1>9. /\ KernelInv(j, X)
      /\ j.stat = k4.stat /\ j.prio = k4.prio /\ j.err = k4.err
      /\ j.armed = k4.armed /\ j.nest = k4.nest
      /\ k4.nest # 0 => j.cur = k4.cur
      /\ k4.nest = 0 => Highest(j, X, j.cur)
  BY <1>2, <1>7, <1>8, ScheduleOK
<1> QED BY <1>3, <1>4, <1>5, <1>8, <1>9 DEF SameThreads, TimedOut

\* A smaller set of exempted threads that are not READY.
LEMMA ShrinkOK ==
  ASSUME NEW k, NEW X, KernelInv(k, X), NEW t, k.stat[t] # "READY"
  PROVE  KernelInv(k, X \ {t})
<1>1. ReadyListed(k, X \ {t}) /\ IdleReady(k, X \ {t})
  BY DEF KernelInv, ReadyListed, IdleReady
<1>2. ListsSound(k, X \ {t})
  BY DEF KernelInv, ListsSound
<1> QED BY <1>1, <1>2 DEF KernelInv

LEMMA ChangePriorityOK ==
  ASSUME NEW k, NEW X, KernelInv(k, X), NEW t \in Thread \ {Idle}, t \notin X,
         NEW p \in Prio, NEW j, j = ChangePriority(k, t, p)
  PROVE  KernelInv(j, X) /\ Unmoved(j, k) /\ j.prio = [k.prio EXCEPT ![t] = p]
<1>0. k \in KernelState /\ TimerSound(k)
  BY DEF KernelInv
<1>1. CASE k.stat[t] # "READY"
  <2>1. j = SetPrio(k, t, p)
    BY <1>1 DEF ChangePriority, SetPrio
  <2> QED BY <2>1, <1>1, SetPrioOK DEF Unmoved
<1>2. CASE k.stat[t] = "READY"
  <2> DEFINE k1 == rt_schedule_remove_thread(k, t)
             k2 == SetPrio(k1, t, p)
             Y == X \cup {t}
  <2>1. j = rt_schedule_insert_thread(k2, t)
    BY <1>2 DEF ChangePriority, SetPrio
  <2>2. KernelInv(k1, Y) /\ SameThreads(k1, k)
    BY RemoveThreadOK
  <2> HIDE DEF k1
  <2>3. t \in Y /\ X = Y \ {t}
    OBVIOUS
  <2> HIDE DEF Y
  <2>4. /\ KernelInv(k2, Y)
        /\ k2.cur = k1.cur /\ k2.stat = k1.stat /\ k2.err = k1.err
        /\ k2.armed = k1.armed /\ k2.nest = k1.nest
        /\ k2.prio = [k1.prio EXCEPT ![t] = p]
    BY <2>2, <2>3, SetPrioOK
  <2> HIDE DEF k2
  <2>5. ~k2.armed[t] /\ PreInsert(k2, Y, t)
    <3>1. ~k2.armed[t]
      BY <1>0, <1>2, <2>2, <2>4 DEF TimerSound, SameThreads
    <3>2. PreInsert(k2, Y, t)
      BY <2>4 DEF KernelInv, PreInsert, BitmapSound
    <3> QED BY <3>1, <3>2
  <2>6. /\ KernelInv(j, Y \ {t})
        /\ j.cur = k2.cur /\ j.prio = k2.prio /\ j.err = k2.err
        /\ j.armed = k2.armed /\ j.nest = k2.nest
        /\ j.stat = [k2.stat EXCEPT ![t] = "READY"]
    BY <2>1, <2>3, <2>5, InsertThreadOK
  <2>7. [k.stat EXCEPT ![t] = "READY"] = k.stat
    BY <1>0, <1>2 DEF KernelState
  <2> QED BY <2>2, <2>3, <2>4, <2>6, <2>7 DEF SameThreads, Unmoved
<1> QED BY <1>1, <1>2

\* List q becomes w.
Linked(k, q, w) == [k EXCEPT !.wait = [@ EXCEPT ![q] = w]]

\* w is list q of k with t linked into it.
Joined(k, q, t, w) ==
  /\ k.stat[t] = IF q = Defunct THEN "CLOSE" ELSE "SUSPEND"
  /\ w \in Seq(Thread) /\ Injective(w) /\ Nodes(w) = Nodes(k.wait[q]) \cup {t}

\* Linking a suspended thread into a wait list, or a closed one into the
\* defunct list.
LEMMA LinkOK ==
  ASSUME NEW k, NEW X, KernelInv(k, X), NEW t \in X, t \in Thread,
         NEW q \in WaitList, NEW w, Joined(k, q, t, w),
         NEW j, j = Linked(k, q, w)
  PROVE  /\ KernelInv(j, X \ {t}) /\ SameThreads(j, k) /\ j.ready = k.ready
         /\ j.wait = [k.wait EXCEPT ![q] = w]
<1> USE DEF Linked
<1>0. /\ k.stat[t] = IF q = Defunct THEN "CLOSE" ELSE "SUSPEND"
      /\ w \in Seq(Thread) /\ Injective(w) /\ Nodes(w) = Nodes(k.wait[q]) \cup {t}
  BY DEF Joined
<1>1. /\ k \in KernelState /\ ListsSound(k, X) /\ BitmapSound(k)
      /\ ReadyListed(k, X) /\ TimerSound(k) /\ IdleReady(k, X)
  BY DEF KernelInv
<1>2. /\ [k.wait EXCEPT ![q] = w] \in [WaitList -> Seq(Thread)]
      /\ [k.wait EXCEPT ![q] = w][q] = w
      /\ \A r \in WaitList : r # q => [k.wait EXCEPT ![q] = w][r] = k.wait[r]
  BY <1>0, <1>1 DEF KernelState
<1>3. /\ j \in KernelState /\ SameThreads(j, k) /\ j.ready = k.ready
      /\ j.table = k.table /\ j.group = k.group
      /\ j.wait = [k.wait EXCEPT ![q] = w]
  BY <1>1, <1>2 DEF KernelState, SameThreads
<1>4. k.stat[t] # "READY"
  BY <1>0
<1>5. ReadyListed(j, X \ {t}) /\ IdleReady(j, X \ {t}) /\ TimerSound(j) /\ BitmapSound(j)
  BY <1>1, <1>3, <1>4 DEF ReadyListed, IdleReady, TimerSound, BitmapSound, SameThreads
<1>6. j.wait[q] = w /\ \A r \in WaitList : r # q => j.wait[r] = k.wait[r]
  BY <1>2, <1>3
<1>7. ListsSound(j, X \ {t})
  <2>1. \A p \in Prio :
          /\ Injective(j.ready[p])
          /\ \A u \in Nodes(j.ready[p]) :
               j.stat[u] = "READY" /\ j.prio[u] = p /\ u \notin X \ {t}
    BY <1>1, <1>3 DEF ListsSound, SameThreads
  <2>2. ASSUME NEW r \in WaitList
        PROVE  /\ Injective(j.wait[r])
               /\ \A u \in Nodes(j.wait[r]) :
                    /\ j.stat[u] = IF r = Defunct THEN "CLOSE" ELSE "SUSPEND"
                    /\ u \notin X \ {t}
    <3>1. /\ Injective(k.wait[r])
          /\ \A u \in Nodes(k.wait[r]) :
               /\ k.stat[u] = IF r = Defunct THEN "CLOSE" ELSE "SUSPEND"
               /\ u \notin X
      BY <1>1 DEF ListsSound
    <3>2. CASE r = q
      BY <1>0, <3>1, <3>2, <1>3, <1>6 DEF SameThreads
    <3>3. CASE r # q
      BY <3>1, <3>3, <1>3, <1>6 DEF SameThreads
    <3> QED BY <3>2, <3>3
  <2>3. ASSUME NEW r \in WaitList, NEW x \in WaitList, r # x
        PROVE  Nodes(j.wait[r]) \cap Nodes(j.wait[x]) = {}
    <3>1. Nodes(k.wait[r]) \cap Nodes(k.wait[x]) = {}
      BY <1>1, <2>3 DEF ListsSound
    <3>2. t \notin Nodes(k.wait[r]) /\ t \notin Nodes(k.wait[x])
      BY <1>1 DEF ListsSound
    <3>3. CASE r = q
      BY <1>0, <3>1, <3>2, <3>3, <2>3, <1>6
    <3>4. CASE r # q
      BY <1>0, <3>1, <3>2, <3>4, <2>3, <1>6
    <3> QED BY <3>3, <3>4
  <2> QED BY <2>1, <2>2, <2>3 DEF ListsSound
<1> QED BY <1>3, <1>5, <1>7 DEF KernelInv

LEMMA PrioPositionType ==
  ASSUME NEW k, NEW s \in Seq(Thread), NEW p \in Prio,
         \A i \in 1 .. Len(s) : k.prio[s[i]] \in Prio
  PROVE  PrioPosition(k, s, p) \in 1 .. (Len(s) + 1)
<1> DEFINE S == {i \in 1 .. Len(s) : p < k.prio[s[i]]}
<1>1. CASE S = {}
  BY <1>1 DEF PrioPosition
<1>2. CASE S # {}
  <2>1. S \in SUBSET Nat
    OBVIOUS
  <2>2. rt_ffs(S) \in S /\ \A c \in S : rt_ffs(S) <= c
    BY <1>2, <2>1, rt_ffsLowest
  <2>3. PICK i \in S : \A c \in S : i <= c
    BY <2>2
  <2>4. /\ i \in 1 .. Len(s) /\ p < k.prio[s[i]]
        /\ \A j \in 1 .. (i - 1) : ~(p < k.prio[s[j]])
    BY <2>3
  <2>5. PrioPosition(k, s, p) \in 1 .. Len(s)
    BY <2>4 DEF PrioPosition
  <2> QED BY <2>5
<1> QED BY <1>1, <1>2

\* rt_ipc_list_suspend of a ready thread.
LEMMA IpcSuspendOK ==
  ASSUME NEW k, NEW X, KernelInv(k, X), NEW t \in Thread \ {Idle}, t \notin X,
         k.stat[t] = "READY", NEW q \in WaitList \ {Defunct}, NEW flag,
         NEW j, j = rt_ipc_list_suspend(k, q, t, flag)
  PROVE  /\ KernelInv(j, X)
         /\ j.cur = k.cur /\ j.prio = k.prio /\ j.err = k.err /\ j.nest = k.nest
         /\ j.stat = [k.stat EXCEPT ![t] = "SUSPEND"]
         /\ j.armed = [k.armed EXCEPT ![t] = FALSE]
         /\ t \in Nodes(j.wait[q])
<1> DEFINE k1 == SuspendSection(k, t)
           s == k1.wait[q]
           i == IF flag = "PRIO" THEN PrioPosition(k1, s, k1.prio[t]) ELSE Len(s) + 1
           w == InsertBefore(s, i, t)
           Y == X \cup {t}
<1>1. j = Linked(k1, q, w)
  BY DEF rt_ipc_list_suspend, rt_thread_suspend, Linked
<1>2. /\ KernelInv(k1, Y)
      /\ k1.cur = k.cur /\ k1.prio = k.prio /\ k1.err = k.err /\ k1.nest = k.nest
      /\ k1.stat = [k.stat EXCEPT ![t] = "SUSPEND"]
      /\ k1.armed = [k.armed EXCEPT ![t] = FALSE]
  <2>1. k1 = SuspendSection(k, t)
    OBVIOUS
  <2> HIDE DEF k1
  <2>2. KernelInv(k1, Y) /\ Suspended(k1, k, t)
    BY <2>1, SuspendOK
  <2> QED BY <2>2 DEF Suspended, Moved
<1> HIDE DEF k1
<1>3. t \in Y /\ t \in Thread /\ X = Y \ {t}
  OBVIOUS
<1>4. k1 \in KernelState /\ k1.stat[t] = "SUSPEND"
  BY <1>2 DEF KernelInv, KernelState
<1>5. s \in Seq(Thread) /\ Injective(s) /\ t \notin Nodes(s)
  BY <1>2, <1>3, <1>4 DEF KernelInv, KernelState, ListsSound
<1>6. i \in 1 .. (Len(s) + 1)
  <2>1. k1.prio[t] \in Prio /\ \A x \in 1 .. Len(s) : k1.prio[s[x]] \in Prio
    BY <1>4, <1>5 DEF KernelState
  <2> HIDE DEF s
  <2>2. PrioPosition(k1, s, k1.prio[t]) \in 1 .. (Len(s) + 1)
    BY <2>1, <1>5, PrioPositionType
  <2> QED BY <2>2, <1>5
<1> HIDE DEF i
<1>7. w \in Seq(Thread) /\ Injective(w) /\ Nodes(w) = Nodes(s) \cup {t}
  BY <1>5, <1>6, <1>3, InsertNodes
<1> HIDE DEF w, Y
<1>8. KernelInv(j, Y \ {t}) /\ SameThreads(j, k1) /\ j.wait = [k1.wait EXCEPT ![q] = w]
  <2>1. q \in WaitList /\ Joined(k1, q, t, w)
    BY <1>4, <1>7 DEF Joined
  <2> HIDE DEF s
  <2> QED BY <1>1, <1>2, <1>3, <2>1, LinkOK
<1>9. t \in Nodes(j.wait[q])
  BY <1>4, <1>7, <1>8 DEF KernelState
<1> QED BY <1>2, <1>3, <1>8, <1>9 DEF SameThreads

-----------------------------------------------------------------------------
(* The same facts in the form the proofs about whole specifications cite.   *)

LEMMA SuspendMoves ==
  ASSUME NEW k, NEW X, KernelInv(k, X), NEW t \in Thread \ {Idle}, t \notin X,
         NEW j, j = SuspendSection(k, t)
  PROVE  KernelInv(j, X) /\ Moved(j, k, t, "SUSPEND", FALSE)
<1>1. KernelInv(j, X) /\ Suspended(j, k, t)
  BY SuspendOK
<1> QED BY <1>1 DEF Suspended

LEMMA ResumeMoves ==
  ASSUME NEW k, NEW X, KernelInv(k, X), NEW t \in Thread \ {Idle}, t \notin X,
         NEW j, j = ResumeSection(k, t)
  PROVE  KernelInv(j, X) /\ Moved(j, k, t, "READY", FALSE)
  BY ResumeOK DEF Moved

LEMMA SetErrUnmoved ==
  ASSUME NEW k, NEW X, KernelInv(k, X), NEW t \in Thread,
         NEW e \in ErrNo, NEW j, j = SetErr(k, t, e)
  PROVE  KernelInv(j, X) /\ Unmoved(j, k)
  BY SetErrOK

LEMMA PriorityUnmoved ==
  ASSUME NEW k, NEW X, KernelInv(k, X), NEW t \in Thread \ {Idle}, t \notin X,
         NEW p \in Prio, NEW j, j = ChangePriority(k, t, p)
  PROVE  KernelInv(j, X) /\ Unmoved(j, k)
  BY ChangePriorityOK

LEMMA StartedMoves ==
  ASSUME NEW k, NEW X, KernelInv(k, X), NEW t \in Thread, k.stat[t] = "SUSPEND",
         NEW j, j = Started(k, t)
  PROVE  KernelInv(j, X) /\ Moved(j, k, t, "SUSPEND", TRUE)
<1>1. [k.stat EXCEPT ![t] = "SUSPEND"] = k.stat
  BY DEF KernelInv, KernelState
<1> QED BY <1>1, StartedOK DEF Moved

\* t is now in state s; nothing else changes.
Restated(j, k, t, s) ==
  /\ j.cur = k.cur /\ j.nest = k.nest /\ j.armed = k.armed
  /\ j.stat = [k.stat EXCEPT ![t] = s]

LEMMA SetStatMoves ==
  ASSUME NEW k, NEW X, KernelInv(k, X), NEW t \in X, t \in Thread,
         NEW x \in Stat, x # "SUSPEND" => ~k.armed[t], x # "READY",
         NEW j, j = SetStat(k, t, x)
  PROVE  KernelInv(j, X) /\ KernelInv(j, X \ {t}) /\ SameLists(j, k) /\ Restated(j, k, t, x)
<1>1. KernelInv(j, X)
  BY SetStatOK
<1>2. KernelInv(j, X \ {t})
  BY SetStatOK
<1>3. k \in KernelState
  BY DEF KernelInv
<1>4. SameLists(j, k) /\ Restated(j, k, t, x)
  BY <1>3 DEF Restated, SameLists, SetStat, KernelState
<1> QED BY <1>1, <1>2, <1>4

\* A thread that is in no list may be set aside.
LEMMA GrowOK ==
  ASSUME NEW k, NEW X, KernelInv(k, X), NEW t \in Thread \ {Idle},
         k.stat[t] \in {"NONE", "INIT"}
  PROVE  KernelInv(k, X \cup {t})
<1>1. ReadyListed(k, X \cup {t}) /\ IdleReady(k, X \cup {t})
  BY DEF KernelInv, ReadyListed, IdleReady
<1>2. ListsSound(k, X \cup {t})
  BY DEF KernelInv, ListsSound
<1> QED BY <1>1, <1>2 DEF KernelInv

\* A new or not yet started thread changes its state.
LEMMA FreshStatOK ==
  ASSUME NEW k, NEW X, KernelInv(k, X), NEW t \in Thread \ {Idle}, t \notin X,
         k.stat[t] \in {"NONE", "INIT"}, NEW x \in Stat, x # "READY",
         NEW j, j = SetStat(k, t, x)
  PROVE  KernelInv(j, X) /\ Restated(j, k, t, x)
<1> DEFINE Y == X \cup {t}
<1>1. KernelInv(k, Y) /\ ~k.armed[t]
  <2>1. KernelInv(k, X \cup {t})
    BY GrowOK
  <2>2. ~k.armed[t]
    BY DEF KernelInv, TimerSound
  <2> QED BY <2>1, <2>2
<1>2. t \in Y /\ Y \ {t} = X /\ t \in Thread
  OBVIOUS
<1> HIDE DEF Y
<1>3. KernelInv(j, Y \ {t}) /\ Restated(j, k, t, x)
  BY <1>1, <1>2, SetStatMoves
<1> QED BY <1>2, <1>3

LEMMA SetPrioUnmoved ==
  ASSUME NEW k, NEW X, KernelInv(k, X), NEW t \in Thread \ {Idle}, NEW p \in Prio,
         k.stat[t] # "READY" \/ t \in X, NEW j, j = SetPrio(k, t, p)
  PROVE  KernelInv(j, X) /\ Unmoved(j, k)
<1>1. KernelInv(j, X)
  BY SetPrioOK
<1>2. k \in KernelState
  BY DEF KernelInv
<1>3. Unmoved(j, k)
  BY <1>2 DEF Unmoved, SetPrio, KernelState
<1> QED BY <1>1, <1>3
=============================================================================
