--------------------------- MODULE MsgQueueProofs ---------------------------
(***************************************************************************)
(* The message queue, for every pool size, list flag and number of         *)
(* threads: no node is lost or shared, no wake-up is lost, a delete wakes  *)
(* everybody, and the linked lists are a bounded queue.                    *)
(*                                                                         *)
(* A node is between two sections of a sender or of a receiver in nobody's *)
(* list, so the invariant says who holds which node and what its next and  *)
(* contents are at each control point (Holds), and that the two lists end  *)
(* and have no node in common (Pool).                                      *)
(***************************************************************************)
EXTENDS MsgQueue, IpcProofs

Waits   == {"waiting", "woken"}
Leaving == {"waiting"}
Filling == {"fill_tail", "fill_head"}
Linking == {"link_tail", "link_head"}
Holding == Filling \cup Linking \cup {"copy", "free"}
Deleter == {"closing", "closing_do"}

\* No sender ever waits: rt_mq_send returns -RT_EFULL.
Lists ==
  IpcOK(PC, Waits, Leaving) /\ Blocking(RecvList, Waits) /\ k.wait[SendList] = <<>>

\* s is the list that starts at n and goes on as nx says.
Chain(nx, n, s) ==
  /\ s \in Seq(Node) /\ Injective(s)
  /\ s = <<>> => n = NULL
  /\ s # <<>> => s[1] = n /\ nx[s[Len(s)]] = NULL
  /\ \A i \in 1 .. (Len(s) - 1) : nx[s[i]] = s[i + 1]

\* c has queue q and free list f.
Ends(c, q, f) ==
  /\ Chain(c.next, c.head, q) /\ Chain(c.next, c.free, f) /\ Nodes(q) \cap Nodes(f) = {}
  /\ c.entry = Len(q) /\ c.tail = IF q = <<>> THEN NULL ELSE q[Len(q)]

Fields(c) ==
  c \in [head : Node \cup {NULL}, tail : Node \cup {NULL}, free : Node \cup {NULL},
         entry : Nat, next : [Node -> Node \cup {NULL}], data : [Node -> Msg \cup {NoMsg}]]

\* Every node is in one of the lists or with one thread; nd[t] is the node of t.
Owns(nd, q, f) ==
  /\ \A t \in Thread : nd[t] # NULL => nd[t] \notin Nodes(q) \cup Nodes(f)
  /\ \A t, u \in Thread : t # u /\ nd[t] # NULL => nd[t] # nd[u]
  /\ \A x \in Node : x \in Nodes(q) \cup Nodes(f) \/ \E t \in Thread : nd[t] = x

Pool == Fields(mq) /\ \E q, f \in Seq(Node) : Ends(mq, q, f) /\ Owns(node, q, f)

Locals ==
  /\ node \in [Thread -> Node \cup {NULL}] /\ msg \in [Thread -> Msg \cup {NoMsg}]
  /\ time \in [Thread -> Time] /\ got \in [Thread -> Msg \cup {NoMsg}]
  /\ life \in {"live", "closing", "gone"} /\ asleep \subseteq Thread
  /\ pc[Idle] \notin Waits

\* What a thread at control point p has: node n, and message m to put there.
Held(c, n, m, p) ==
  /\ n # NULL <=> p \in Holding
  /\ p \in Filling \cup Linking => m \in Msg
  /\ p \in Linking => c.data[n] = m
  /\ p = "link_tail" => c.next[n] = NULL

Holds == \A t \in Thread : Held(mq, node[t], msg[t], pc[t])

Counts ==
  life = "live" /\ k.wait[RecvList] # <<>> => mq.entry <= Cardinality(Woken(Waits))

Closing ==
  /\ \A t \in Thread : pc[t] \in Deleter => life # "live"
  /\ life # "live" => \A t \in asleep : t \notin Woken(Waits)
  /\ life = "gone" /\ Created => \A t \in asleep : t \notin Nodes(k.wait[RecvList])

Inv == Lists /\ Pool /\ Locals /\ Holds /\ Counts /\ Closing

-----------------------------------------------------------------------------
(* Linked lists. *)

LEMMA NodeFacts == MaxMsgs \in Nat /\ NULL \notin Node /\ Node \subseteq Nat
  BY MsgQueueAssumption DEF NULL, Node

LEMMA NodeFinite == IsFiniteSet(Node) /\ Cardinality(Node) = MaxMsgs
<1>1. MaxMsgs \in Int /\ 1 \in Int
  BY NodeFacts
<1>2. IsFiniteSet(1 .. MaxMsgs) /\ Cardinality(1 .. MaxMsgs) = IF 1 > MaxMsgs THEN 0 ELSE MaxMsgs - 1 + 1
  BY <1>1, FS_Interval
<1> QED BY <1>2, NodeFacts DEF Node

LEMMA ChainEnds ==
  ASSUME NEW nx, NEW n, NEW s, Chain(nx, n, s)
  PROVE  /\ s \in Seq(Node) /\ Injective(s) /\ Len(s) \in Nat /\ Nodes(s) \subseteq Node
         /\ s = <<>> <=> n = NULL
         /\ s # <<>> => n = Head(s) /\ n \in Nodes(s) /\ n \in Node /\ s[Len(s)] \in Nodes(s)
<1>1. s \in Seq(Node) /\ Injective(s) /\ Len(s) \in Nat
  BY DEF Chain
<1>2. Nodes(s) \subseteq Node
  BY <1>1, EmptyNodes
<1>3. ASSUME s # <<>> PROVE n = Head(s) /\ n \in Nodes(s) /\ s[Len(s)] \in Nodes(s)
  <2>1. Len(s) # 0 /\ s[1] = n
    BY <1>1, <1>3 DEF Chain
  <2> QED BY <1>1, <2>1 DEF Nodes
<1> QED BY <1>1, <1>2, <1>3, NodeFacts DEF Chain

\* Writing to nodes outside a list leaves it alone.
LEMMA ChainKept ==
  ASSUME NEW nx, NEW n, NEW s, Chain(nx, n, s), NEW nx2, \A x \in Nodes(s) : nx2[x] = nx[x]
  PROVE  Chain(nx2, n, s)
<1>1. s \in Seq(Node) /\ Len(s) \in Nat
  BY DEF Chain
<1>2. \A i \in 1 .. Len(s) : s[i] \in Nodes(s)
  BY <1>1 DEF Nodes
<1>3. s # <<>> => Len(s) \in 1 .. Len(s)
  BY <1>1
<1>4. \A i \in 1 .. (Len(s) - 1) : i \in 1 .. Len(s)
  BY <1>1
<1> QED BY <1>1, <1>2, <1>3, <1>4 DEF Chain

LEMMA ChainNull == ASSUME NEW nx PROVE Chain(nx, NULL, <<>>)
  BY DEF Chain, Injective

\* The list behind its first node.
LEMMA ChainTail ==
  ASSUME NEW nx, NEW n, NEW s, Chain(nx, n, s), s # <<>>
  PROVE  /\ Chain(nx, nx[n], Tail(s)) /\ Len(Tail(s)) = Len(s) - 1
         /\ Nodes(Tail(s)) = Nodes(s) \ {n}
         /\ Tail(s) = <<>> <=> n = s[Len(s)]
         /\ Tail(s) # <<>> => Tail(s)[Len(Tail(s))] = s[Len(s)]
<1> DEFINE u == Tail(s)
<1>1. s \in Seq(Node) /\ Injective(s) /\ Len(s) \in Nat \ {0} /\ n = s[1] /\ n = Head(s)
  <2>1. s \in Seq(Node) /\ Injective(s) /\ n = s[1] /\ n = Head(s)
    BY ChainEnds DEF Chain
  <2> QED BY <2>1
<1>2. /\ u \in Seq(Node) /\ Injective(u) /\ Len(u) = Len(s) - 1
      /\ Nodes(u) = Nodes(s) \ {n}
  BY <1>1, TailNodes
<1>3. \A i \in 1 .. Len(u) : u[i] = s[i + 1]
  BY <1>1
<1> HIDE DEF u
<1>4. \A i \in 1 .. (Len(u) - 1) : nx[u[i]] = u[i + 1]
  <2> TAKE i \in 1 .. (Len(u) - 1)
  <2>1. /\ i \in 1 .. Len(u) /\ i + 1 \in 1 .. Len(u) /\ i + 1 \in 1 .. (Len(s) - 1)
    BY <1>1, <1>2
  <2>2. nx[s[i + 1]] = s[i + 1 + 1]
    BY <2>1 DEF Chain
  <2> QED BY <1>3, <2>1, <2>2
<1>5. CASE Len(s) = 1
  <2>1. u = <<>> /\ nx[n] = NULL /\ n = s[Len(s)]
    BY <1>1, <1>2, <1>5 DEF Chain
  <2> QED BY <1>2, <2>1, ChainNull DEF u
<1>6. CASE Len(s) # 1
  <2>1. Len(u) \in 1 .. Len(u) /\ Len(u) + 1 = Len(s) /\ 1 \in 1 .. (Len(s) - 1) /\ u # <<>>
    BY <1>1, <1>2, <1>6
  <2>2. u[1] = nx[n] /\ u[Len(u)] = s[Len(s)]
    <3>1. nx[s[1]] = s[1 + 1] /\ 1 \in 1 .. Len(u)
      BY <1>2, <2>1 DEF Chain
    <3> QED BY <1>1, <1>3, <2>1, <3>1
  <2>3. n # s[Len(s)]
    <3>1. 1 \in 1 .. Len(s) /\ Len(s) \in 1 .. Len(s)
      BY <1>1
    <3> QED BY <1>1, <1>6, <3>1 DEF Injective
  <2>4. nx[u[Len(u)]] = NULL
    BY <1>1, <2>2 DEF Chain
  <2> QED BY <1>2, <1>4, <2>1, <2>2, <2>3, <2>4 DEF Chain, u
<1> QED BY <1>1, <1>5, <1>6

\* x in front of a list.
LEMMA ChainPush ==
  ASSUME NEW nx, NEW n, NEW s, Chain(nx, n, s), NEW x \in Node \ Nodes(s), nx[x] = n
  PROVE  /\ Chain(nx, x, <<x>> \o s) /\ Nodes(<<x>> \o s) = Nodes(s) \cup {x}
         /\ Len(<<x>> \o s) = Len(s) + 1
         /\ (<<x>> \o s)[Len(s) + 1] = IF s = <<>> THEN x ELSE s[Len(s)]
<1> DEFINE u == <<x>> \o s
<1>1. s \in Seq(Node) /\ Injective(s) /\ Len(s) \in Nat
  BY DEF Chain
<1>2. u \in Seq(Node) /\ Injective(u) /\ Nodes(u) = Nodes(s) \cup {x}
  BY <1>1, PushNodes
<1>3. Len(u) = Len(s) + 1 /\ u # <<>> /\ u[1] = x
  BY <1>1
<1>4. \A i \in 1 .. Len(s) : u[i + 1] = s[i]
  BY <1>1
<1> HIDE DEF u
<1>5. \A i \in 1 .. (Len(u) - 1) : nx[u[i]] = u[i + 1]
  <2> TAKE i \in 1 .. (Len(u) - 1)
  <2>1. i \in 1 .. Len(s) /\ s # <<>>
    BY <1>1, <1>3
  <2>2. CASE i = 1
    BY <1>3, <1>4, <2>1, <2>2 DEF Chain
  <2>3. CASE i # 1
    <3>1. i - 1 \in 1 .. (Len(s) - 1) /\ i - 1 \in 1 .. Len(s) /\ (i - 1) + 1 = i
      BY <1>1, <2>1, <2>3
    <3>2. nx[s[i - 1]] = s[i] /\ u[i] = s[i - 1] /\ u[i + 1] = s[i]
      BY <1>4, <2>1, <3>1 DEF Chain
    <3> QED BY <3>2
  <2> QED BY <2>2, <2>3
<1>6. u[Len(u)] = IF s = <<>> THEN x ELSE s[Len(s)]
  <2>1. CASE s = <<>>
    BY <1>3, <2>1
  <2>2. CASE s # <<>>
    <3>1. Len(s) \in 1 .. Len(s)
      BY <1>1, <2>2
    <3> QED BY <1>3, <1>4, <2>2, <3>1
  <2> QED BY <2>1, <2>2
<1>7. nx[u[Len(u)]] = NULL
  BY <1>6 DEF Chain
<1>8. Chain(nx, x, u)
  BY <1>2, <1>3, <1>5, <1>7 DEF Chain
<1> QED BY <1>2, <1>3, <1>6, <1>8 DEF u

\* x behind the last node of a list.
LEMMA ChainAppend ==
  ASSUME NEW nx, NEW n, NEW s, Chain(nx, n, s), NEW x \in Node \ Nodes(s), nx[x] = NULL,
         NEW nx2, \A y \in Node : nx2[y] = IF s # <<>> /\ y = s[Len(s)] THEN x ELSE nx[y]
  PROVE  /\ Chain(nx2, IF s = <<>> THEN x ELSE n, Append(s, x))
         /\ Nodes(Append(s, x)) = Nodes(s) \cup {x} /\ Len(Append(s, x)) = Len(s) + 1
<1> DEFINE u == Append(s, x)
<1>1. s \in Seq(Node) /\ Injective(s) /\ Len(s) \in Nat
  BY DEF Chain
<1>2. u \in Seq(Node) /\ Injective(u) /\ Nodes(u) = Nodes(s) \cup {x}
  BY <1>1, AppendNodes
<1>3. Len(u) = Len(s) + 1 /\ u # <<>> /\ u[Len(u)] = x
  BY <1>1
<1>4. \A i \in 1 .. Len(s) : u[i] = s[i] /\ s[i] \in Node /\ s[i] \in Nodes(s)
  BY <1>1 DEF Nodes
<1> HIDE DEF u
<1>5. \A i \in 1 .. (Len(u) - 1) : nx2[u[i]] = u[i + 1]
  <2> TAKE i \in 1 .. (Len(u) - 1)
  <2>1. i \in 1 .. Len(s) /\ s # <<>> /\ Len(s) \in 1 .. Len(s)
    BY <1>1, <1>3
  <2>2. CASE i = Len(s)
    BY <1>3, <1>4, <2>1, <2>2
  <2>3. CASE i # Len(s)
    <3>1. i \in 1 .. (Len(s) - 1) /\ i + 1 \in 1 .. Len(s)
      BY <1>1, <2>1, <2>3
    <3>2. nx[s[i]] = s[i + 1] /\ s[i] # s[Len(s)]
      BY <1>1, <2>1, <2>3, <3>1 DEF Chain, Injective
    <3> QED BY <1>4, <2>1, <3>1, <3>2
  <2> QED BY <2>2, <2>3
<1>6. nx2[x] = NULL
  <2>1. s # <<>> => Len(s) \in 1 .. Len(s)
    BY <1>1
  <2> QED BY <1>4, <2>1
<1>7. u[1] = IF s = <<>> THEN x ELSE n
  <2>1. CASE s = <<>>
    BY <1>3, <2>1
  <2>2. CASE s # <<>>
    <3>1. 1 \in 1 .. Len(s)
      BY <1>1, <2>2
    <3> QED BY <1>4, <2>2, <3>1 DEF Chain
  <2> QED BY <2>1, <2>2
<1>8. Chain(nx2, IF s = <<>> THEN x ELSE n, u)
  BY <1>2, <1>3, <1>5, <1>6, <1>7 DEF Chain
<1> QED BY <1>2, <1>3, <1>8 DEF u

\* A list is determined by where it starts.
Path(nx, n, s) ==
  /\ s \in Seq(Node)
  /\ s = <<>> => n = NULL
  /\ s # <<>> => s[1] = n /\ nx[s[Len(s)]] = NULL
  /\ \A i \in 1 .. (Len(s) - 1) : nx[s[i]] = s[i + 1]

LEMMA PathAgrees ==
  ASSUME NEW nx, NEW n, NEW s, NEW u, Path(nx, n, s), Path(nx, n, u),
         NEW j \in Nat, 1 <= j, j <= Len(s), j <= Len(u)
  PROVE  s[j] = u[j]
<1> DEFINE D == {i \in Nat : 1 <= i /\ i <= Len(s) /\ i <= Len(u) /\ s[i] # u[i]}
           m == rt_ffs(D)
<1>1. s \in Seq(Node) /\ u \in Seq(Node) /\ Len(s) \in Nat /\ Len(u) \in Nat
  BY DEF Path
<1>2. ASSUME s[j] # u[j] PROVE FALSE
  <2>1. j \in D /\ D \in SUBSET Nat
    BY <1>2
  <2>2. m \in D /\ \A c \in D : m <= c
    <3>1. D # {}
      BY <2>1
    <3> HIDE DEF D
    <3> QED BY <2>1, <3>1, rt_ffsLowest
  <2> HIDE DEF m
  <2>3. m \in Nat /\ 1 <= m /\ m <= Len(s) /\ m <= Len(u) /\ s[m] # u[m]
    BY <2>2
  <2>4. CASE m = 1
    <3>1. s # <<>> /\ u # <<>>
      BY <1>1, <2>3
    <3> QED BY <2>3, <2>4, <3>1 DEF Path
  <2>5. CASE m # 1
    <3>1. /\ m - 1 \in Nat /\ m - 1 \in 1 .. (Len(s) - 1) /\ m - 1 \in 1 .. (Len(u) - 1)
          /\ (m - 1) + 1 = m /\ 1 <= m - 1 /\ m - 1 <= Len(s) /\ m - 1 <= Len(u)
          /\ ~(m <= m - 1)
      BY <1>1, <2>3, <2>5
    <3>2. s[m - 1] = u[m - 1]
      BY <2>2, <3>1
    <3>3. nx[s[m - 1]] = s[m] /\ nx[u[m - 1]] = u[m]
      BY <3>1 DEF Path
    <3> QED BY <2>3, <3>2, <3>3
  <2> QED BY <2>4, <2>5
<1> QED BY <1>2

LEMMA PathLonger ==
  ASSUME NEW nx, NEW n, NEW s, NEW u, Path(nx, n, s), Path(nx, n, u)
  PROVE  Len(u) <= Len(s)
<1>1. s \in Seq(Node) /\ u \in Seq(Node) /\ Len(s) \in Nat /\ Len(u) \in Nat
  BY DEF Path
<1>2. ASSUME Len(s) < Len(u) PROVE FALSE
  <2>1. CASE s = <<>>
    <3>1. u # <<>> /\ 1 \in 1 .. Len(u)
      BY <1>1, <1>2
    <3>2. u[1] \in Node
      BY <1>1, <3>1
    <3> QED BY <2>1, <3>1, <3>2, NodeFacts DEF Path
  <2>2. CASE s # <<>>
    <3>1. /\ 1 <= Len(s) /\ Len(s) \in 1 .. (Len(u) - 1) /\ Len(s) + 1 \in 1 .. Len(u)
          /\ Len(s) <= Len(s) /\ Len(s) <= Len(u)
      BY <1>1, <1>2, <2>2
    <3>2. s[Len(s)] = u[Len(s)]
      BY <1>1, <3>1, PathAgrees
    <3>3. nx[s[Len(s)]] = NULL /\ nx[u[Len(s)]] = u[Len(s) + 1]
      BY <2>2, <3>1 DEF Path
    <3>4. u[Len(s) + 1] \in Node
      BY <1>1, <3>1
    <3> QED BY <3>2, <3>3, <3>4, NodeFacts
  <2> QED BY <2>1, <2>2
<1> QED BY <1>1, <1>2

LEMMA PathUnique ==
  ASSUME NEW nx, NEW n, NEW s, NEW u, Path(nx, n, s), Path(nx, n, u)
  PROVE  s = u
<1>1. s \in Seq(Node) /\ u \in Seq(Node) /\ Len(s) \in Nat /\ Len(u) \in Nat
  BY DEF Path
<1>2. Len(s) = Len(u)
  <2>1. Len(u) <= Len(s)
    BY PathLonger
  <2>2. Len(s) <= Len(u)
    BY PathLonger
  <2> QED BY <1>1, <2>1, <2>2
<1>3. \A j \in 1 .. Len(s) : s[j] = u[j]
  <2> TAKE j \in 1 .. Len(s)
  <2>1. j \in Nat /\ 1 <= j /\ j <= Len(s) /\ j <= Len(u)
    BY <1>1, <1>2
  <2> QED BY <2>1, PathAgrees
<1> QED BY <1>1, <1>2, <1>3

\* A list without repetition is no longer than the pool.
LEMMA ChainLength ==
  ASSUME NEW s \in Seq(Node), Injective(s)
  PROVE  Len(s) <= MaxMsgs /\ s \in Chains
<1>1. Len(s) \in Nat /\ s \in [1 .. Len(s) -> Node]
  OBVIOUS
<1>2. s \in Injection(1 .. Len(s), Node)
  BY <1>1 DEF Injection, IsInjective, Injective
<1>3. Cardinality(1 .. Len(s)) <= Cardinality(Node)
  BY <1>2, NodeFinite, FS_Injection
<1>4. Cardinality(1 .. Len(s)) = Len(s)
  <2>1. Len(s) \in Int /\ 1 \in Int
    BY <1>1
  <2>2. Cardinality(1 .. Len(s)) = IF 1 > Len(s) THEN 0 ELSE Len(s) - 1 + 1
    BY <2>1, FS_Interval
  <2> QED BY <1>1, <2>2
<1>5. Len(s) <= MaxMsgs
  BY <1>3, <1>4, NodeFinite
<1>6. Len(s) \in 0 .. MaxMsgs
  BY <1>1, <1>5, NodeFacts
<1> QED BY <1>1, <1>5, <1>6 DEF Chains

LEMMA ChainPath ==
  ASSUME NEW q, Chain(mq.next, mq.head, q)
  PROVE  Path(mq.next, mq.head, q) /\ q \in Chains /\ IsChain(mq.head, q)
<1>1. q \in Seq(Node) /\ Injective(q)
  BY DEF Chain
<1>2. q \in Chains
  BY <1>1, ChainLength
<1> QED BY <1>2 DEF Chain, Path, IsChain

\* Queued, chosen among all sequences of nodes, is the queue.
LEMMA QueuedIs ==
  ASSUME NEW q, Chain(mq.next, mq.head, q)
  PROVE  Queued = q
<1>1. Queued \in Chains /\ IsChain(mq.head, Queued)
  BY ChainPath DEF Queued
<1> HIDE DEF Queued
<1>2. Queued \in Seq(Node)
  BY <1>1 DEF Chains
<1>3. Path(mq.next, mq.head, Queued)
  <2>1. CASE Queued = <<>>
    BY <1>1, <1>2, <2>1 DEF IsChain, Path
  <2>2. CASE Queued # <<>>
    BY <1>1, <1>2, <2>2 DEF IsChain, Path
  <2> QED BY <2>1, <2>2
<1> QED BY <1>3, ChainPath, PathUnique

-----------------------------------------------------------------------------
(* The pool. *)

\* d differs from c only in the nodes of lists q and f and in node x.
Beside(d, c, q, f, x) ==
  \A y \in Node : y \notin Nodes(q) /\ y \notin Nodes(f) /\ y # x
                    => d.next[y] = c.next[y] /\ d.data[y] = c.data[y]

LEMMA EndsFacts ==
  ASSUME NEW c, NEW q, NEW f, Ends(c, q, f)
  PROVE  /\ Chain(c.next, c.head, q) /\ Chain(c.next, c.free, f)
         /\ q \in Seq(Node) /\ f \in Seq(Node) /\ Len(q) \in Nat
         /\ Nodes(q) \subseteq Node /\ Nodes(f) \subseteq Node
         /\ Nodes(q) \cap Nodes(f) = {} /\ c.entry = Len(q)
         /\ c.tail = IF q = <<>> THEN NULL ELSE q[Len(q)]
         /\ (q = <<>> <=> c.head = NULL) /\ (q = <<>> <=> c.tail = NULL)
         /\ (f = <<>> <=> c.free = NULL)
<1>1. /\ Chain(c.next, c.head, q) /\ Chain(c.next, c.free, f)
      /\ Nodes(q) \cap Nodes(f) = {} /\ c.entry = Len(q)
      /\ c.tail = IF q = <<>> THEN NULL ELSE q[Len(q)]
  BY DEF Ends
<1>2. /\ q \in Seq(Node) /\ Len(q) \in Nat /\ Nodes(q) \subseteq Node
      /\ (q = <<>> <=> c.head = NULL) /\ (q # <<>> => q[Len(q)] \in Nodes(q))
  BY <1>1, ChainEnds
<1>3. f \in Seq(Node) /\ Nodes(f) \subseteq Node /\ (f = <<>> <=> c.free = NULL)
  BY <1>1, ChainEnds
<1>4. q # <<>> => q[Len(q)] # NULL
  BY <1>2, NodeFacts
<1> QED BY <1>1, <1>2, <1>3, <1>4

\* x is the first node of list s; d and c agree on the nodes.
TakenOff(d, c, s, x) ==
  /\ Tail(s) \in Seq(Node) /\ Nodes(Tail(s)) = Nodes(s) \ {x}
  /\ s # <<>> /\ x = Head(s) /\ x \in Nodes(s) /\ x \in Node
  /\ d.next = c.next /\ d.data = c.data

\* rt_mq_send takes the first free node.
LEMMA AllocEnds ==
  ASSUME NEW c, NEW q, NEW f, Fields(c), Ends(c, q, f), c.free # NULL, NEW d, d = Alloc(c)
  PROVE  /\ Fields(d) /\ Ends(d, q, Tail(f)) /\ TakenOff(d, c, f, c.free)
         /\ d.entry = c.entry /\ d.head = c.head
<1>1. /\ d.next = c.next /\ d.data = c.data /\ d.entry = c.entry /\ d.head = c.head
      /\ d.tail = c.tail /\ d.free = c.next[c.free]
  BY DEF Alloc, Fields
<1>2. f # <<>> /\ Chain(c.next, c.free, f)
  BY EndsFacts
<1>3. c.free \in Nodes(f) /\ c.free \in Node /\ c.free = Head(f)
  BY <1>2, ChainEnds
<1>4. Chain(c.next, d.free, Tail(f)) /\ Nodes(Tail(f)) = Nodes(f) \ {c.free}
  BY <1>1, <1>2, ChainTail
<1>5. Tail(f) \in Seq(Node)
  BY <1>4, ChainEnds
<1>6. Ends(d, q, Tail(f))
  BY <1>1, <1>4 DEF Ends
<1>7. Fields(d)
  BY <1>3 DEF Fields, Alloc
<1>8. TakenOff(d, c, f, c.free)
  BY <1>1, <1>2, <1>3, <1>4, <1>5 DEF TakenOff
<1> QED BY <1>1, <1>6, <1>7, <1>8

\* A node outside both lists is written.
LEMMA WriteEnds ==
  ASSUME NEW c, NEW q, NEW f, Fields(c), Ends(c, q, f),
         NEW x \in Node, x \notin Nodes(q), x \notin Nodes(f),
         NEW d, d.head = c.head, d.tail = c.tail, d.free = c.free, d.entry = c.entry,
         \A y \in Node : y # x => d.next[y] = c.next[y]
  PROVE  Ends(d, q, f)
<1>1. Chain(c.next, c.head, q) /\ Nodes(q) \subseteq Node
  BY EndsFacts
<1>2. \A y \in Nodes(q) : d.next[y] = c.next[y]
  BY <1>1
<1>3. Chain(d.next, d.head, q)
  BY <1>1, <1>2, ChainKept
<1>4. Chain(c.next, c.free, f) /\ Nodes(f) \subseteq Node
  BY EndsFacts
<1>5. \A y \in Nodes(f) : d.next[y] = c.next[y]
  BY <1>4
<1>6. Chain(d.next, d.free, f)
  BY <1>4, <1>5, ChainKept
<1> QED BY <1>3, <1>6 DEF Ends

LEMMA FillTailEnds ==
  ASSUME NEW c, NEW q, NEW f, Fields(c), Ends(c, q, f), NEW m \in Msg,
         NEW x \in Node, x \notin Nodes(q), x \notin Nodes(f), NEW d, d = FillTail(c, x, m)
  PROVE  /\ Fields(d) /\ Ends(d, q, f) /\ Beside(d, c, q, f, x)
         /\ d.next[x] = NULL /\ d.data[x] = m /\ \A y \in Node : y # x => d.data[y] = c.data[y]
         /\ d.entry = c.entry /\ d.head = c.head
<1>1. /\ d.head = c.head /\ d.tail = c.tail /\ d.free = c.free /\ d.entry = c.entry
      /\ d.next = [c.next EXCEPT ![x] = NULL] /\ d.data = [c.data EXCEPT ![x] = m]
      /\ c.next \in [Node -> Node \cup {NULL}] /\ c.data \in [Node -> Msg \cup {NoMsg}]
  BY DEF FillTail, Fields
<1>2. /\ \A y \in Node : y # x => d.next[y] = c.next[y] /\ d.data[y] = c.data[y]
      /\ d.next[x] = NULL /\ d.data[x] = m
  BY <1>1
<1>3. Ends(d, q, f)
  BY <1>1, <1>2, WriteEnds
<1>4. Fields(d)
  BY DEF Fields, FillTail
<1> QED BY <1>1, <1>2, <1>3, <1>4 DEF Beside

LEMMA FillHeadEnds ==
  ASSUME NEW c, NEW q, NEW f, Fields(c), Ends(c, q, f), NEW m \in Msg,
         NEW x \in Node, x \notin Nodes(q), x \notin Nodes(f), NEW d, d = FillHead(c, x, m)
  PROVE  /\ Fields(d) /\ Ends(d, q, f) /\ Beside(d, c, q, f, x)
         /\ d.data[x] = m /\ \A y \in Node : y # x => d.data[y] = c.data[y]
         /\ d.entry = c.entry /\ d.head = c.head
<1>1. /\ d.head = c.head /\ d.tail = c.tail /\ d.free = c.free /\ d.entry = c.entry
      /\ d.next = c.next /\ d.data = [c.data EXCEPT ![x] = m]
      /\ c.data \in [Node -> Msg \cup {NoMsg}]
  BY DEF FillHead, Fields
<1>2. /\ \A y \in Node : y # x => d.next[y] = c.next[y] /\ d.data[y] = c.data[y]
      /\ d.data[x] = m
  BY <1>1
<1>3. Ends(d, q, f)
  BY <1>1, <1>2, WriteEnds
<1>4. Fields(d)
  BY DEF Fields, FillHead
<1> QED BY <1>1, <1>2, <1>3, <1>4 DEF Beside

\* The second section of rt_mq_send.
LEMMA LinkTailEnds ==
  ASSUME NEW c, NEW q, NEW f, Fields(c), Ends(c, q, f),
         NEW x \in Node, x \notin Nodes(q), x \notin Nodes(f), c.next[x] = NULL,
         NEW d, d = LinkTail(c, x)
  PROVE  /\ Fields(d) /\ Ends(d, Append(q, x), f) /\ Append(q, x) \in Seq(Node)
         /\ Nodes(Append(q, x)) = Nodes(q) \cup {x}
         /\ Beside(d, c, q, f, x) /\ d.data = c.data /\ d.entry = c.entry + 1
<1> DEFINE u == Append(q, x)
<1>0. /\ Chain(c.next, c.head, q) /\ Chain(c.next, c.free, f)
      /\ q \in Seq(Node) /\ Len(q) \in Nat /\ Nodes(q) \subseteq Node /\ Nodes(f) \subseteq Node
      /\ Nodes(q) \cap Nodes(f) = {} /\ c.entry = Len(q)
      /\ c.tail = IF q = <<>> THEN NULL ELSE q[Len(q)]
      /\ (q = <<>> <=> c.head = NULL) /\ (q = <<>> <=> c.tail = NULL)
  BY EndsFacts
<1>1. /\ d.next = IF c.tail # NULL THEN [c.next EXCEPT ![c.tail] = x] ELSE c.next
      /\ d.tail = x /\ d.head = (IF c.head = NULL THEN x ELSE c.head)
      /\ d.entry = c.entry + 1 /\ d.free = c.free /\ d.data = c.data
      /\ c.next \in [Node -> Node \cup {NULL}]
  BY DEF LinkTail, Fields
<1>2. q # <<>> => q[Len(q)] \in Nodes(q)
  BY <1>0, ChainEnds
<1>3. \A y \in Node : d.next[y] = IF q # <<>> /\ y = q[Len(q)] THEN x ELSE c.next[y]
  <2>1. CASE q = <<>>
    BY <1>0, <1>1, <2>1
  <2>2. CASE q # <<>>
    BY <1>0, <1>1, <1>2, <2>2
  <2> QED BY <2>1, <2>2
<1>4. /\ Chain(d.next, IF q = <<>> THEN x ELSE c.head, u)
      /\ Nodes(u) = Nodes(q) \cup {x} /\ Len(u) = Len(q) + 1
  BY <1>0, <1>3, ChainAppend
<1>5. u \in Seq(Node) /\ u # <<>> /\ u[Len(u)] = x
  BY <1>0, SMTT(30)
<1> HIDE DEF u
<1>6. Chain(d.next, d.head, u)
  <2>1. d.head = IF q = <<>> THEN x ELSE c.head
    BY <1>0, <1>1
  <2> QED BY <1>4, <2>1
<1>7. Chain(d.next, d.free, f)
  <2>1. \A y \in Nodes(f) : d.next[y] = c.next[y]
    BY <1>0, <1>2, <1>3
  <2>2. Chain(d.next, c.free, f)
    BY <1>0, <2>1, ChainKept
  <2> QED BY <1>1, <2>2
<1>8. Ends(d, u, f)
  BY <1>0, <1>1, <1>4, <1>5, <1>6, <1>7 DEF Ends
<1>9. Fields(d)
  <2>1. d.next \in [Node -> Node \cup {NULL}]
    BY <1>1
  <2>2. /\ d.tail \in Node \cup {NULL} /\ d.head \in Node \cup {NULL} /\ d.entry \in Nat
    BY <1>1 DEF Fields
  <2> QED BY <1>1, <2>1, <2>2 DEF Fields, LinkTail
<1>10. Beside(d, c, q, f, x)
  BY <1>1, <1>2, <1>3 DEF Beside
<1> QED BY <1>1, <1>4, <1>5, <1>8, <1>9, <1>10 DEF u

\* The second section of rt_mq_urgent.
LEMMA LinkHeadEnds ==
  ASSUME NEW c, NEW q, NEW f, Fields(c), Ends(c, q, f),
         NEW x \in Node, x \notin Nodes(q), x \notin Nodes(f), NEW d, d = LinkHead(c, x)
  PROVE  /\ Fields(d) /\ Ends(d, <<x>> \o q, f) /\ <<x>> \o q \in Seq(Node)
         /\ Nodes(<<x>> \o q) = Nodes(q) \cup {x}
         /\ Beside(d, c, q, f, x) /\ d.data = c.data /\ d.entry = c.entry + 1
<1> DEFINE u == <<x>> \o q
<1>0. /\ Chain(c.next, c.head, q) /\ Chain(c.next, c.free, f)
      /\ q \in Seq(Node) /\ Len(q) \in Nat /\ Nodes(q) \subseteq Node /\ Nodes(f) \subseteq Node
      /\ Nodes(q) \cap Nodes(f) = {} /\ c.entry = Len(q)
      /\ c.tail = IF q = <<>> THEN NULL ELSE q[Len(q)]
      /\ (q = <<>> <=> c.head = NULL) /\ (q = <<>> <=> c.tail = NULL)
  BY EndsFacts
<1>1. /\ d.next = [c.next EXCEPT ![x] = c.head]
      /\ d.head = x /\ d.tail = (IF c.tail = NULL THEN x ELSE c.tail)
      /\ d.entry = c.entry + 1 /\ d.free = c.free /\ d.data = c.data
      /\ c.next \in [Node -> Node \cup {NULL}]
  BY DEF LinkHead, Fields
<1>2. \A y \in Node : d.next[y] = IF y = x THEN c.head ELSE c.next[y]
  BY <1>1
<1>3. Chain(d.next, c.head, q)
  <2>1. \A y \in Nodes(q) : d.next[y] = c.next[y]
    BY <1>0, <1>2
  <2> QED BY <1>0, <2>1, ChainKept
<1>4. /\ Chain(d.next, x, u) /\ Nodes(u) = Nodes(q) \cup {x} /\ Len(u) = Len(q) + 1
      /\ u[Len(q) + 1] = IF q = <<>> THEN x ELSE q[Len(q)]
  <2>1. x \in Node \ Nodes(q) /\ d.next[x] = c.head
    BY <1>2
  <2> QED BY <1>3, <2>1, ChainPush
<1>5. u \in Seq(Node) /\ u # <<>>
  BY <1>0
<1> HIDE DEF u
<1>6. d.tail = u[Len(u)]
  BY <1>0, <1>1, <1>4
<1>7. Chain(d.next, d.free, f)
  <2>1. \A y \in Nodes(f) : d.next[y] = c.next[y]
    BY <1>0, <1>2
  <2>2. Chain(d.next, c.free, f)
    BY <1>0, <2>1, ChainKept
  <2> QED BY <1>1, <2>2
<1>8. Ends(d, u, f)
  BY <1>0, <1>1, <1>4, <1>5, <1>6, <1>7 DEF Ends
<1>9. Fields(d)
  <2>1. d.next \in [Node -> Node \cup {NULL}]
    BY <1>1 DEF Fields
  <2>2. /\ d.tail \in Node \cup {NULL} /\ d.head \in Node \cup {NULL} /\ d.entry \in Nat
    BY <1>1 DEF Fields
  <2> QED BY <1>1, <2>1, <2>2 DEF Fields, LinkHead
<1>10. Beside(d, c, q, f, x)
  BY <1>1, <1>2 DEF Beside
<1> QED BY <1>1, <1>4, <1>5, <1>8, <1>9, <1>10 DEF u

\* rt_mq_recv unlinks the first message.
LEMMA PopEnds ==
  ASSUME NEW c, NEW q, NEW f, Fields(c), Ends(c, q, f), c.entry > 0, NEW d, d = PopHead(c)
  PROVE  /\ Fields(d) /\ Ends(d, Tail(q), f) /\ TakenOff(d, c, q, c.head)
         /\ d.entry = c.entry - 1
<1>0. /\ Chain(c.next, c.head, q) /\ Chain(c.next, c.free, f)
      /\ q \in Seq(Node) /\ Len(q) \in Nat
      /\ Nodes(q) \cap Nodes(f) = {} /\ c.entry = Len(q)
      /\ c.tail = IF q = <<>> THEN NULL ELSE q[Len(q)]
  BY EndsFacts
<1>1. /\ d.head = c.next[c.head] /\ d.tail = (IF c.tail = c.head THEN NULL ELSE c.tail)
      /\ d.entry = c.entry - 1 /\ d.free = c.free /\ d.next = c.next /\ d.data = c.data
  BY DEF PopHead, Fields
<1>2. q # <<>>
  BY <1>0
<1>3. /\ Chain(c.next, d.head, Tail(q)) /\ Len(Tail(q)) = Len(q) - 1
      /\ Nodes(Tail(q)) = Nodes(q) \ {c.head}
      /\ Tail(q) = <<>> <=> c.head = q[Len(q)]
      /\ Tail(q) # <<>> => Tail(q)[Len(Tail(q))] = q[Len(q)]
  BY <1>0, <1>1, <1>2, ChainTail
<1>4. c.head \in Nodes(q) /\ c.head \in Node /\ c.head = Head(q)
  BY <1>0, <1>2, ChainEnds
<1>5. Tail(q) \in Seq(Node)
  BY <1>3, ChainEnds
<1>6. d.tail = IF Tail(q) = <<>> THEN NULL ELSE Tail(q)[Len(Tail(q))]
  BY <1>0, <1>1, <1>2, <1>3
<1>7. Ends(d, Tail(q), f)
  BY <1>0, <1>1, <1>3, <1>6 DEF Ends
<1>8. Fields(d)
  <2>1. d.entry \in Nat
    BY <1>0, <1>1, <1>2
  <2>2. d.head \in Node \cup {NULL} /\ d.tail \in Node \cup {NULL}
    BY <1>1, <1>4 DEF Fields
  <2> QED BY <1>1, <2>1, <2>2 DEF Fields, PopHead
<1>9. TakenOff(d, c, q, c.head)
  BY <1>1, <1>2, <1>3, <1>4, <1>5 DEF TakenOff
<1> QED BY <1>1, <1>7, <1>8, <1>9

\* rt_mq_recv gives the node back.
LEMMA ReleaseEnds ==
  ASSUME NEW c, NEW q, NEW f, Fields(c), Ends(c, q, f),
         NEW x \in Node, x \notin Nodes(q), x \notin Nodes(f), NEW d, d = Release(c, x)
  PROVE  /\ Fields(d) /\ Ends(d, q, <<x>> \o f) /\ <<x>> \o f \in Seq(Node)
         /\ Nodes(<<x>> \o f) = Nodes(f) \cup {x}
         /\ Beside(d, c, q, f, x) /\ d.data = c.data /\ d.entry = c.entry /\ d.head = c.head
<1> DEFINE u == <<x>> \o f
<1>0. /\ Chain(c.next, c.head, q) /\ Chain(c.next, c.free, f)
      /\ f \in Seq(Node) /\ Nodes(q) \subseteq Node /\ Nodes(f) \subseteq Node
      /\ Nodes(q) \cap Nodes(f) = {} /\ c.entry = Len(q)
      /\ c.tail = IF q = <<>> THEN NULL ELSE q[Len(q)]
  BY EndsFacts
<1>1. /\ d.next = [c.next EXCEPT ![x] = c.free] /\ d.free = x
      /\ d.head = c.head /\ d.tail = c.tail /\ d.entry = c.entry /\ d.data = c.data
      /\ c.next \in [Node -> Node \cup {NULL}]
  BY DEF Release, Fields
<1>2. \A y \in Node : d.next[y] = IF y = x THEN c.free ELSE c.next[y]
  BY <1>1
<1>3. Chain(d.next, c.free, f)
  <2>1. \A y \in Nodes(f) : d.next[y] = c.next[y]
    BY <1>0, <1>2
  <2> QED BY <1>0, <2>1, ChainKept
<1>4. Chain(d.next, x, u) /\ Nodes(u) = Nodes(f) \cup {x}
  <2>1. x \in Node \ Nodes(f) /\ d.next[x] = c.free
    BY <1>2
  <2> QED BY <1>3, <2>1, ChainPush
<1>5. u \in Seq(Node)
  BY <1>0
<1> HIDE DEF u
<1>6. Chain(d.next, d.head, q)
  <2>1. \A y \in Nodes(q) : d.next[y] = c.next[y]
    BY <1>0, <1>2
  <2>2. Chain(d.next, c.head, q)
    BY <1>0, <2>1, ChainKept
  <2> QED BY <1>1, <2>2
<1>7. Ends(d, q, u)
  BY <1>0, <1>1, <1>4, <1>6 DEF Ends
<1>8. Fields(d)
  <2>1. d.next \in [Node -> Node \cup {NULL}]
    BY <1>1 DEF Fields
  <2> QED BY <1>1, <2>1 DEF Fields, Release
<1>9. Beside(d, c, q, f, x)
  BY <1>1, <1>2 DEF Beside
<1> QED BY <1>1, <1>4, <1>5, <1>7, <1>8, <1>9 DEF u

\* The free list after a reset: the queue backwards, then what was free.
Backwards(q, f) ==
  [i \in 1 .. (Len(q) + Len(f)) |-> IF i <= Len(q) THEN q[Len(q) + 1 - i] ELSE f[i - Len(q)]]

LEMMA BackwardsNodes ==
  ASSUME NEW q \in Seq(Node), NEW f \in Seq(Node), Injective(q), Injective(f),
         Nodes(q) \cap Nodes(f) = {}
  PROVE  /\ Backwards(q, f) \in Seq(Node) /\ Injective(Backwards(q, f))
         /\ Len(Backwards(q, f)) = Len(q) + Len(f)
         /\ Nodes(Backwards(q, f)) = Nodes(q) \cup Nodes(f)
<1> DEFINE r == Backwards(q, f)
           l == Len(q)
           m == Len(f)
<1>1. l \in Nat /\ m \in Nat
  OBVIOUS
<1>2. /\ \A i \in 1 .. (l + m) : i <= l => l + 1 - i \in 1 .. l
      /\ \A i \in 1 .. (l + m) : ~(i <= l) => i - l \in 1 .. m
  BY <1>1
<1>3. \A i \in 1 .. (l + m) : r[i] = IF i <= l THEN q[l + 1 - i] ELSE f[i - l]
  BY DEF Backwards
<1>4. /\ \A j \in 1 .. l : q[j] \in Nodes(q) /\ q[j] \in Node
      /\ \A j \in 1 .. m : f[j] \in Nodes(f) /\ f[j] \in Node
  BY DEF Nodes
<1>5. \A i \in 1 .. (l + m) : /\ r[i] \in Node
                              /\ i <= l => r[i] \in Nodes(q)
                              /\ ~(i <= l) => r[i] \in Nodes(f)
  BY <1>2, <1>3, <1>4
<1>6. r \in [1 .. (l + m) -> Node]
  <2>1. r = [i \in 1 .. (l + m) |-> r[i]]
    BY DEF Backwards
  <2> QED BY <1>5, <2>1
<1>7. r \in Seq(Node) /\ Len(r) = l + m
  <2>1. l + m \in Nat
    BY <1>1
  <2> HIDE DEF r, l, m
  <2> QED BY <1>6, <2>1
<1>8. ASSUME NEW i \in 1 .. (l + m), NEW j \in 1 .. (l + m), r[i] = r[j] PROVE i = j
  <2>1. CASE i <= l /\ j <= l
    <3>1. q[l + 1 - i] = q[l + 1 - j] /\ l + 1 - i \in 1 .. l /\ l + 1 - j \in 1 .. l
      BY <1>2, <1>3, <1>8, <2>1
    <3>2. l + 1 - i = l + 1 - j
      BY <3>1 DEF Injective
    <3> QED BY <1>1, <3>2
  <2>2. CASE ~(i <= l) /\ ~(j <= l)
    <3>1. f[i - l] = f[j - l] /\ i - l \in 1 .. m /\ j - l \in 1 .. m
      BY <1>2, <1>3, <1>8, <2>2
    <3>2. i - l = j - l
      BY <3>1 DEF Injective
    <3> QED BY <1>1, <3>2
  <2>3. CASE ~((i <= l) <=> (j <= l))
    BY <1>5, <1>8, <2>3
  <2> QED BY <2>1, <2>2, <2>3
<1>9. Injective(r)
  BY <1>7, <1>8 DEF Injective
<1>10. Nodes(r) \subseteq Nodes(q) \cup Nodes(f)
  BY <1>5, <1>7 DEF Nodes
<1>11. ASSUME NEW v \in Nodes(q) PROVE v \in Nodes(r)
  <2>1. PICK j \in 1 .. l : q[j] = v
    BY DEF Nodes
  <2>2. l + 1 - j \in 1 .. (l + m) /\ l + 1 - j <= l /\ l + 1 - (l + 1 - j) = j
    BY <1>1
  <2>3. r[l + 1 - j] = v
    BY <1>3, <2>1, <2>2
  <2> QED BY <1>7, <2>2, <2>3 DEF Nodes
<1>12. ASSUME NEW v \in Nodes(f) PROVE v \in Nodes(r)
  <2>1. PICK j \in 1 .. m : f[j] = v
    BY DEF Nodes
  <2>2. l + j \in 1 .. (l + m) /\ ~(l + j <= l) /\ (l + j) - l = j
    BY <1>1
  <2>3. r[l + j] = v
    BY <1>3, <2>1, <2>2
  <2> QED BY <1>7, <2>2, <2>3 DEF Nodes
<1> QED BY <1>7, <1>9, <1>10, <1>11, <1>12

LEMMA BackwardsChain ==
  ASSUME NEW nx, NEW n, NEW q, Chain(nx, n, q), NEW x, NEW f, Chain(nx, x, f),
         Nodes(q) \cap Nodes(f) = {}, NEW nx2,
         \A y \in Nodes(f) : nx2[y] = nx[y],
         \A i \in 1 .. Len(q) : nx2[q[i]] = IF i = 1 THEN x ELSE q[i - 1]
  PROVE  Chain(nx2, IF q = <<>> THEN x ELSE q[Len(q)], Backwards(q, f))
<1> DEFINE r == Backwards(q, f)
           l == Len(q)
           m == Len(f)
           h == IF q = <<>> THEN x ELSE q[Len(q)]
<1>1. /\ q \in Seq(Node) /\ f \in Seq(Node) /\ Injective(q) /\ Injective(f)
      /\ l \in Nat /\ m \in Nat
  BY DEF Chain
<1>2. r \in Seq(Node) /\ Injective(r) /\ Len(r) = l + m
  BY <1>1, BackwardsNodes
<1>3. \A i \in 1 .. (l + m) : r[i] = IF i <= l THEN q[l + 1 - i] ELSE f[i - l]
  BY DEF Backwards
<1>4. Chain(nx2, x, f)
  BY ChainKept
<1>5. /\ q = <<>> <=> l = 0
      /\ f = <<>> <=> m = 0
      /\ r = <<>> <=> l + m = 0
  BY <1>1, <1>2
<1> HIDE DEF r, l, m
<1>6. r = <<>> => h = NULL
  BY <1>1, <1>4, <1>5 DEF Chain
<1>7. r # <<>> => r[1] = h
  <2>1. CASE l = 0 /\ m # 0
    <3>1. 1 \in 1 .. (l + m) /\ ~(1 <= l) /\ 1 - l = 1
      BY <1>1, <2>1
    <3> QED BY <1>3, <1>4, <1>5, <2>1, <3>1 DEF Chain
  <2>2. CASE l # 0
    <3>1. 1 \in 1 .. (l + m) /\ 1 <= l /\ l + 1 - 1 = l
      BY <1>1, <2>2
    <3> QED BY <1>3, <1>5, <2>2, <3>1 DEF l
  <2> QED BY <1>5, <1>1, <2>1, <2>2
<1>8. r # <<>> => nx2[r[Len(r)]] = NULL
  <2>1. CASE m # 0
    <3>1. l + m \in 1 .. (l + m) /\ ~(l + m <= l) /\ (l + m) - l = m
      BY <1>1, <2>1
    <3>2. r[l + m] = f[m]
      BY <1>3, <3>1
    <3> QED BY <1>2, <1>4, <1>5, <2>1, <3>2 DEF Chain, m
  <2>2. CASE m = 0 /\ l # 0
    <3>1. l + m \in 1 .. (l + m) /\ l + m <= l /\ l + 1 - (l + m) = 1 /\ 1 \in 1 .. l
      BY <1>1, <2>2
    <3>2. r[l + m] = q[1] /\ nx2[q[1]] = x
      BY <1>3, <3>1 DEF l
    <3>3. x = NULL
      BY <1>5, <2>2 DEF Chain
    <3> QED BY <1>2, <3>2, <3>3
  <2> QED BY <1>1, <1>5, <2>1, <2>2
<1>9. ASSUME NEW i \in 1 .. (Len(r) - 1) PROVE nx2[r[i]] = r[i + 1]
  <2>0. i \in 1 .. (l + m) /\ i + 1 \in 1 .. (l + m) /\ i \in Int
    BY <1>1, <1>2
  <2>1. CASE i < l
    <3>1. /\ i <= l /\ i + 1 <= l /\ l + 1 - i \in 1 .. l /\ l + 1 - i # 1
          /\ (l + 1 - i) - 1 = l + 1 - (i + 1)
      BY <1>1, <2>0, <2>1
    <3>2. r[i] = q[l + 1 - i] /\ r[i + 1] = q[l + 1 - (i + 1)]
      BY <1>3, <2>0, <3>1
    <3>3. nx2[q[l + 1 - i]] = q[(l + 1 - i) - 1]
      BY <3>1 DEF l
    <3> QED BY <3>1, <3>2, <3>3
  <2>2. CASE i = l
    <3>1. /\ i <= l /\ ~(i + 1 <= l) /\ l + 1 - i = 1 /\ (i + 1) - l = 1 /\ 1 \in 1 .. l
          /\ m # 0
      BY <1>1, <2>0, <2>2
    <3>2. r[i] = q[1] /\ r[i + 1] = f[1]
      BY <1>3, <2>0, <3>1
    <3>3. nx2[q[1]] = x
      BY <3>1 DEF l
    <3>4. f[1] = x
      BY <1>5, <3>1 DEF Chain
    <3> QED BY <3>2, <3>3, <3>4
  <2>3. CASE i > l
    <3>1. /\ ~(i <= l) /\ ~(i + 1 <= l) /\ i - l \in 1 .. (m - 1)
          /\ (i + 1) - l = (i - l) + 1
      BY <1>1, <1>2, <2>0, <2>3
    <3>2. r[i] = f[i - l] /\ r[i + 1] = f[(i - l) + 1]
      BY <1>3, <2>0, <3>1
    <3>3. nx2[f[i - l]] = f[(i - l) + 1]
      BY <1>4, <3>1 DEF Chain, m
    <3> QED BY <3>2, <3>3
  <2> QED BY <1>1, <2>0, <2>1, <2>2, <2>3
<1> HIDE DEF h
<1>10. Chain(nx2, h, r)
  BY <1>2, <1>6, <1>7, <1>8, <1>9 DEF Chain
<1> QED BY <1>10 DEF h, r

\* rt_mq_control(RT_IPC_CMD_RESET) frees every message.
LEMMA EmptiedEnds ==
  ASSUME NEW c, NEW q, NEW f, Fields(c), Ends(c, q, f), NEW d, d = Emptied(c, q)
  PROVE  /\ Fields(d) /\ Ends(d, <<>>, Backwards(q, f)) /\ Backwards(q, f) \in Seq(Node)
         /\ Nodes(Backwards(q, f)) = Nodes(q) \cup Nodes(f)
         /\ Beside(d, c, q, f, NULL) /\ d.data = c.data /\ d.entry = 0 /\ d.head = NULL
<1>0. /\ Chain(c.next, c.head, q) /\ Chain(c.next, c.free, f)
      /\ q \in Seq(Node) /\ f \in Seq(Node) /\ Len(q) \in Nat
      /\ Nodes(q) \subseteq Node /\ Nodes(f) \subseteq Node /\ Nodes(q) \cap Nodes(f) = {}
      /\ c.tail = IF q = <<>> THEN NULL ELSE q[Len(q)]
  BY EndsFacts
<1>1. Injective(q) /\ Injective(f)
  BY <1>0, ChainEnds
<1>2. /\ d.head = NULL /\ d.entry = 0 /\ d.data = c.data
      /\ d.tail = (IF c.tail \in Nodes(q) THEN NULL ELSE c.tail)
      /\ d.free = (IF q = <<>> THEN c.free ELSE q[Len(q)])
      /\ DOMAIN d.next = Node
      /\ \A n \in Node : d.next[n] = IF n \in Nodes(q)
                                     THEN LET i == CHOOSE j \in 1 .. Len(q) : q[j] = n
                                          IN  IF i = 1 THEN c.free ELSE q[i - 1]
                                     ELSE c.next[n]
  BY DEF Emptied
<1>3. ASSUME NEW i \in 1 .. Len(q) PROVE d.next[q[i]] = IF i = 1 THEN c.free ELSE q[i - 1]
  <2>1. q[i] \in Node /\ q[i] \in Nodes(q)
    BY <1>0 DEF Nodes
  <2> DEFINE e == CHOOSE j \in 1 .. Len(q) : q[j] = q[i]
  <2>2. e \in 1 .. Len(q) /\ q[e] = q[i]
    OBVIOUS
  <2>3. d.next[q[i]] = IF e = 1 THEN c.free ELSE q[e - 1]
    BY <1>2, <2>1
  <2> HIDE DEF e
  <2>4. e = i
    BY <1>1, <2>2 DEF Injective
  <2> QED BY <2>3, <2>4
<1>4. \A y \in Nodes(f) : d.next[y] = c.next[y]
  BY <1>0, <1>2
<1>5. Chain(d.next, IF q = <<>> THEN c.free ELSE q[Len(q)], Backwards(q, f))
  BY <1>0, <1>3, <1>4, BackwardsChain, SMTT(30)
<1>6. /\ Backwards(q, f) \in Seq(Node) /\ Nodes(Backwards(q, f)) = Nodes(q) \cup Nodes(f)
  BY <1>0, <1>1, BackwardsNodes
<1>7. d.tail = NULL
  <2>1. q # <<>> => q[Len(q)] \in Nodes(q)
    BY <1>0, ChainEnds
  <2> QED BY <1>0, <1>2, <2>1
<1>8. Ends(d, <<>>, Backwards(q, f))
  <2>1. Nodes(<<>>) = {} /\ Len(<<>>) = 0
    BY DEF Nodes
  <2>2. Chain(d.next, NULL, <<>>)
    BY ChainNull
  <2>3. Chain(d.next, d.free, Backwards(q, f))
    BY <1>2, <1>5
  <2> QED BY <1>2, <1>7, <2>1, <2>2, <2>3 DEF Ends
<1>9. Fields(d)
  <2>1. ASSUME NEW n \in Node PROVE d.next[n] \in Node \cup {NULL}
    <3>1. CASE n \in Nodes(q)
      <4>1. PICK i \in 1 .. Len(q) : q[i] = n
        BY <3>1 DEF Nodes
      <4>2. i = 1 \/ q[i - 1] \in Node
        BY <1>0
      <4>3. c.free \in Node \cup {NULL}
        BY DEF Fields
      <4> QED BY <1>3, <4>1, <4>2, <4>3
    <3>2. CASE n \notin Nodes(q)
      BY <1>2, <3>2 DEF Fields
    <3> QED BY <3>1, <3>2
  <2>2. d.next \in [Node -> Node \cup {NULL}]
    <3>1. d.next = [n \in Node |-> d.next[n]]
      BY DEF Emptied
    <3> QED BY <2>1, <3>1
  <2>3. d.free \in Node \cup {NULL}
    <3>1. q # <<>> => q[Len(q)] \in Node
      BY <1>0
    <3> QED BY <1>2, <3>1 DEF Fields
  <2>4. d.data \in [Node -> Msg \cup {NoMsg}]
    BY <1>2 DEF Fields
  <2>5. d = [head |-> d.head, tail |-> d.tail, free |-> d.free, entry |-> d.entry,
             next |-> d.next, data |-> d.data]
    BY DEF Emptied
  <2> QED BY <1>2, <1>7, <2>2, <2>3, <2>4, <2>5 DEF Fields
<1>10. Beside(d, c, q, f, NULL)
  BY <1>2 DEF Beside
<1> QED BY <1>2, <1>6, <1>8, <1>9, <1>10

-----------------------------------------------------------------------------
(* Who has which node. *)

LEMMA PoolIs ==
  ASSUME NEW q \in Seq(Node), NEW f \in Seq(Node), Fields(mq'), Ends(mq', q, f),
         Owns(node', q, f)
  PROVE  Pool'
  BY DEF Pool

\* t takes a node off a list.
LEMMA OwnsTake ==
  ASSUME NEW nd \in [Thread -> Node \cup {NULL}], NEW q, NEW f, Owns(nd, q, f),
         NEW t \in Thread, nd[t] = NULL, NEW x \in Nodes(q) \cup Nodes(f), x \in Node,
         NEW r, NEW g, Nodes(r) \cup Nodes(g) = (Nodes(q) \cup Nodes(f)) \ {x},
         NEW md, md = [nd EXCEPT ![t] = x]
  PROVE  Owns(md, r, g)
<1>1. \A u \in Thread : md[u] = IF u = t THEN x ELSE nd[u]
  OBVIOUS
<1>2. \A u \in Thread : u # t /\ nd[u] # NULL => nd[u] # x
  BY DEF Owns
<1>3. x # NULL
  BY NodeFacts
<1>4. \A u \in Thread : md[u] # NULL => md[u] \notin Nodes(r) \cup Nodes(g)
  BY <1>1 DEF Owns
<1>5. \A u, v \in Thread : u # v /\ md[u] # NULL => md[u] # md[v]
  BY <1>1, <1>2, <1>3 DEF Owns
<1>6. ASSUME NEW y \in Node PROVE y \in Nodes(r) \cup Nodes(g) \/ \E u \in Thread : md[u] = y
  <2>1. CASE y = x
    BY <1>1, <2>1
  <2>2. CASE y # x /\ y \in Nodes(q) \cup Nodes(f)
    BY <2>2
  <2>3. CASE \E u \in Thread : nd[u] = y
    BY <1>1, <2>3, NodeFacts
  <2> QED BY <2>1, <2>2, <2>3 DEF Owns
<1> QED BY <1>4, <1>5, <1>6 DEF Owns

\* t puts its node on a list.
LEMMA OwnsGive ==
  ASSUME NEW nd \in [Thread -> Node \cup {NULL}], NEW q, NEW f, Owns(nd, q, f),
         NEW t \in Thread, nd[t] # NULL,
         NEW r, NEW g, Nodes(r) \cup Nodes(g) = (Nodes(q) \cup Nodes(f)) \cup {nd[t]},
         NEW md, md = [nd EXCEPT ![t] = NULL]
  PROVE  Owns(md, r, g)
<1>1. \A u \in Thread : md[u] = IF u = t THEN NULL ELSE nd[u]
  OBVIOUS
<1>2. \A u \in Thread : u # t /\ nd[u] # NULL => nd[u] # nd[t]
  BY DEF Owns
<1>4. \A u \in Thread : md[u] # NULL => md[u] \notin Nodes(r) \cup Nodes(g)
  BY <1>1, <1>2 DEF Owns
<1>5. \A u, v \in Thread : u # v /\ md[u] # NULL => md[u] # md[v]
  BY <1>1 DEF Owns
<1>6. ASSUME NEW y \in Node PROVE y \in Nodes(r) \cup Nodes(g) \/ \E u \in Thread : md[u] = y
  <2>1. CASE y = nd[t]
    BY <2>1
  <2>2. CASE y \in Nodes(q) \cup Nodes(f)
    BY <2>2
  <2>3. ASSUME NEW u \in Thread, nd[u] = y, y # nd[t] PROVE md[u] = y
    BY <1>1, <2>3
  <2> QED BY <2>1, <2>2, <2>3 DEF Owns
<1> QED BY <1>4, <1>5, <1>6 DEF Owns

\* A node changes from one list to the other.
LEMMA OwnsSame ==
  ASSUME NEW nd, NEW q, NEW f, Owns(nd, q, f),
         NEW r, NEW g, Nodes(r) \cup Nodes(g) = Nodes(q) \cup Nodes(f)
  PROVE  Owns(nd, r, g)
  BY DEF Owns

\* The others keep what they hold.
LEMMA HoldsKept ==
  ASSUME Holds, Locals, NEW q, NEW f, Owns(node, q, f), NEW t \in Thread, Moves(PC, t),
         NEW x, \A u \in Thread : u # t /\ node[u] # NULL => node[u] # x,
         Beside(mq', mq, q, f, x),
         \A u \in Thread : u # t => node'[u] = node[u] /\ msg'[u] = msg[u],
         Held(mq', node'[t], msg'[t], pc'[t])
  PROVE  Holds'
<1>1. ASSUME NEW u \in Thread, u # t PROVE Held(mq', node'[u], msg'[u], pc'[u])
  <2>1. /\ pc'[u] = pc[u] /\ node'[u] = node[u] /\ msg'[u] = msg[u]
        /\ Held(mq, node[u], msg[u], pc[u]) /\ node[u] \in Node \cup {NULL}
    BY <1>1 DEF Moves, Holds, Locals
  <2>2. node[u] # NULL => node[u] \notin Nodes(q) /\ node[u] \notin Nodes(f) /\ node[u] # x
    BY <1>1 DEF Owns
  <2>3. node[u] # NULL => /\ mq'.next[node[u]] = mq.next[node[u]]
                          /\ mq'.data[node[u]] = mq.data[node[u]]
    BY <2>1, <2>2 DEF Beside
  <2>4. pc[u] \in Linking \/ pc[u] = "link_tail" => pc[u] \in Holding
    BY DEF Linking, Holding
  <2> QED BY <2>1, <2>3, <2>4 DEF Held
<1>2. \A u \in Thread : Held(mq', node'[u], msg'[u], pc'[u])
  BY <1>1
<1> QED BY <1>2 DEF Holds

-----------------------------------------------------------------------------
(* The kernel's side of a step. *)

LEMMA QueueLists ==
  ASSUME Lists
  PROVE  /\ RecvList \in WaitList \ {Defunct} /\ SendList \in WaitList \ {Defunct}
         /\ RecvList \in WaitList /\ SendList \in WaitList /\ RecvList # SendList
         /\ IpcOK(PC, Waits, Leaving) /\ Blocking(RecvList, Waits) /\ k.wait[SendList] = <<>>
         /\ Sound(k) /\ k \in KernelState /\ k.wait[RecvList] \in Seq(Thread)
<1>1. Sound(k) /\ RecvList \in WaitList /\ SendList \in WaitList
  BY MsgQueueAssumption DEF Lists, IpcOK
<1> QED BY <1>1, MsgQueueAssumption DEF Lists, Sound, KernelInv, KernelState

\* A step in which nobody joins the list and nobody is woken without an error.
Quiet ==
  /\ Lists' /\ Woken(Waits)' = Woken(Waits)
  /\ \A u \in Nodes(k'.wait[RecvList]) : u \in Nodes(k.wait[RecvList])
  /\ k.wait[RecvList] = <<>> => k'.wait[RecvList] = <<>>

LEMMA CalmQuiet ==
  ASSUME Lists, IpcOK(PC, Waits, Leaving)', NEW t \in Thread, Moves(PC, t), Calm(k', k),
         pc[t] \in Waits <=> pc'[t] \in Waits
  PROVE  Quiet
<1>1. Blocking(RecvList, Waits)'
  BY CalmBlocking DEF Lists
<1>2. Woken(Waits)' = Woken(Waits)
  BY CalmWoken
<1>3. k'.wait = k.wait
  BY DEF Calm
<1> QED BY <1>1, <1>2, <1>3 DEF Lists, Quiet

LEMMA FailedQuiet ==
  ASSUME Lists, IpcOK(PC, Waits, Leaving)', NEW t \in Thread, Moves(PC, t),
         NEW u \in Thread, NEW e, Roused(k', k, u, e), k.stat[u] = "SUSPEND", e # RT_EOK,
         pc[t] \in Waits <=> pc'[t] \in Waits
  PROVE  Quiet
<1>1. Blocking(RecvList, Waits)'
  BY QueueLists, RousedBlocking
<1>2. Woken(Waits)' = Woken(Waits)
  BY QueueLists, RousedWoken
<1>3. /\ Nodes(k'.wait[RecvList]) = Nodes(k.wait[RecvList]) \ {u}
      /\ k.wait[RecvList] = <<>> => k'.wait[RecvList] = <<>>
  BY QueueLists, RousedLists
<1>4. k'.wait[SendList] = <<>>
  BY QueueLists, RousedLists
<1> QED BY <1>1, <1>2, <1>3, <1>4 DEF Lists, Quiet

\* Nobody who waited at the delete waits again or is woken without an error.
LEMMA ClosingKept ==
  ASSUME Closing, life' = life, asleep' \subseteq asleep,
         \A t \in Thread : pc'[t] \in Deleter => pc[t] \in Deleter,
         life # "live" => \A u \in asleep' :
            /\ u \in Woken(Waits)' => u \in Woken(Waits)
            /\ u \in Nodes(k'.wait[RecvList]) => u \in Nodes(k.wait[RecvList])
  PROVE  Closing'
<1>1. \A t \in Thread : pc'[t] \in Deleter => life' # "live"
  BY DEF Closing
<1>2. life' # "live" => \A t \in asleep' : t \notin Woken(Waits)'
  BY DEF Closing
<1>3. life' = "gone" /\ Created => \A t \in asleep' : t \notin Nodes(k'.wait[RecvList])
  BY DEF Closing
<1> QED BY <1>1, <1>2, <1>3 DEF Closing

\* What a quiet step keeps, whatever it does to the pool.
LEMMA QuietRest ==
  ASSUME Inv, Quiet, UNCHANGED obj, NEW t \in Thread, Moves(PC, t),
         pc'[t] \in Deleter => pc[t] \in Deleter,
         mq'.entry \in Nat, mq.entry \in Nat, mq'.entry <= mq.entry
  PROVE  Lists' /\ Counts' /\ Closing'
<1>1. life' = life /\ asleep' = asleep
  BY DEF obj
<1>2. Lists' /\ Woken(Waits)' = Woken(Waits)
  BY DEF Quiet
<1>3. Counts'
  <2> SUFFICES ASSUME life' = "live", k'.wait[RecvList] # <<>>
               PROVE  mq'.entry <= Cardinality(Woken(Waits)')
    BY DEF Counts
  <2>1. mq.entry <= Cardinality(Woken(Waits))
    BY <1>1 DEF Inv, Counts, Quiet
  <2>2. Cardinality(Woken(Waits)) \in Nat
    BY WokenFinite
  <2>3. Cardinality(Woken(Waits)') = Cardinality(Woken(Waits))
    BY <1>2
  <2> QED BY <2>1, <2>2, <2>3
<1>4. Closing'
  <2>1. \A u \in Thread : pc'[u] \in Deleter => pc[u] \in Deleter
    BY DEF Moves
  <2> QED BY <1>1, <1>2, <2>1, ClosingKept DEF Inv, Quiet
<1> QED BY <1>2, <1>3, <1>4

LEMMA QuietInv ==
  ASSUME Inv, Quiet, UNCHANGED <<mq, locals, obj>>, NEW t \in Thread, Moves(PC, t),
         pc'[t] \in Deleter => pc[t] \in Deleter, pc'[t] \in Waits <=> pc[t] \in Waits,
         pc'[t] = pc[t] \/ (pc[t] \notin Holding /\ pc'[t] \notin Holding)
  PROVE  Inv'
<1>1. mq' = mq /\ node' = node /\ msg' = msg /\ time' = time /\ got' = got /\ UNCHANGED obj
  BY DEF locals
<1>2. mq.entry \in Nat
  BY DEF Inv, Pool, Fields
<1>3. Lists' /\ Counts' /\ Closing'
  <2>1. mq'.entry \in Nat /\ mq'.entry <= mq.entry
    BY <1>1, <1>2
  <2> QED BY <1>1, <1>2, <2>1, QuietRest
<1>4. PICK q \in Seq(Node), f \in Seq(Node) : Ends(mq, q, f) /\ Owns(node, q, f)
  BY DEF Inv, Pool
<1>5. Pool'
  <2>1. Fields(mq') /\ Ends(mq', q, f) /\ Owns(node', q, f)
    BY <1>1, <1>4 DEF Inv, Pool
  <2> QED BY <2>1, PoolIs
<1>6. Locals'
  <2>1. pc'[Idle] \notin Waits
    BY KernelAssumption DEF Inv, Locals, Moves
  <2> QED BY <1>1, <2>1 DEF Inv, Locals, obj
<1>7. Holds'
  <2>1. Beside(mq', mq, q, f, NULL)
    BY <1>1 DEF Beside
  <2>2. Held(mq, node[t], msg[t], pc[t])
    BY DEF Inv, Holds
  <2>3. Held(mq', node'[t], msg'[t], pc'[t])
    <3>1. /\ {"link_tail"} \cup Filling \cup Linking \subseteq Holding
      BY DEF Filling, Linking, Holding
    <3> QED BY <1>1, <2>2, <3>1 DEF Held
  <2> QED BY <1>1, <1>4, <2>1, <2>3, HoldsKept DEF Inv
<1> QED BY <1>3, <1>5, <1>6, <1>7 DEF Inv

-----------------------------------------------------------------------------
(* Steps outside any wait that leave the kernel alone. *)

LEMMA StillQuiet ==
  ASSUME Inv, NEW t \in Thread, NEW l, At(t, l), l \notin Waits, k' = k,
         NEW m \in PC \ Waits, Goto(t, m)
  PROVE  Quiet /\ Moves(PC, t) /\ pc[t] = l /\ pc'[t] = m
<1>1. l \notin Leaving /\ IpcOK(PC, Waits, Leaving) /\ Lists
  BY QueueLists DEF Leaving, Waits, Inv
<1>2. /\ IpcOK(PC, Waits, Leaving)' /\ Moves(PC, t) /\ Calm(k', k)
      /\ pc[t] = l /\ pc'[t] = m
  BY <1>1, StillStep DEF At
<1>3. Quiet
  BY <1>1, <1>2, CalmQuiet
<1> QED BY <1>2, <1>3

\* What such a step has to show of its own.
LEMMA StillInv ==
  ASSUME Inv, NEW t \in Thread, NEW l, At(t, l), l \notin Waits, k' = k,
         NEW m \in PC \ Waits, m \notin Deleter, Goto(t, m), UNCHANGED obj,
         NEW q \in Seq(Node), NEW f \in Seq(Node), Fields(mq'), Ends(mq', q, f),
         Owns(node', q, f), Holds', mq'.entry <= mq.entry,
         node' \in [Thread -> Node \cup {NULL}], msg' \in [Thread -> Msg \cup {NoMsg}],
         time' \in [Thread -> Time], got' \in [Thread -> Msg \cup {NoMsg}]
  PROVE  Inv'
<1>1. Quiet /\ Moves(PC, t) /\ pc[t] = l /\ pc'[t] = m
  BY StillQuiet
<1>2. mq.entry \in Nat /\ mq'.entry \in Nat
  BY DEF Inv, Pool, Fields
<1>3. Lists' /\ Counts' /\ Closing'
  BY <1>1, <1>2, QuietRest
<1>4. Pool'
  BY PoolIs
<1>5. Locals'
  <2>1. pc'[Idle] \notin Waits
    BY <1>1, KernelAssumption DEF Inv, Locals, Moves
  <2> QED BY <2>1 DEF Inv, Locals, obj
<1> QED BY <1>3, <1>4, <1>5 DEF Inv

LEMMA SendAllocInv ==
  ASSUME Inv, NEW t \in Thread, NEW m \in Msg, NEW at, SendAlloc(t, m, at)
  PROVE  Inv'
<1>0. PICK l \in Filling : l = IF at = "tail" THEN "fill_tail" ELSE "fill_head"
  BY DEF Filling
<1>1. /\ At(t, "run") /\ mq.free # NULL /\ mq' = Alloc(mq) /\ k' = k /\ Goto(t, l)
      /\ node' = [node EXCEPT ![t] = mq.free] /\ msg' = [msg EXCEPT ![t] = m]
      /\ time' = time /\ got' = got /\ UNCHANGED obj
  BY <1>0 DEF SendAlloc, Enter
<1>2. /\ l \in PC \ Waits /\ l \notin Deleter /\ "run" \notin Waits /\ "run" \notin Holding
      /\ l \in Filling /\ l \notin Linking /\ l # "link_tail" /\ l \in Holding
  BY DEF PC, Waits, Deleter, Holding, Filling, Linking
<1>3. PICK q \in Seq(Node), f \in Seq(Node) : Ends(mq, q, f) /\ Owns(node, q, f)
  BY DEF Inv, Pool
<1>4. Fields(mq) /\ Locals /\ Holds
  BY DEF Inv, Pool
<1> DEFINE g == Tail(f)
           x == mq.free
<1>e. Fields(mq') /\ Ends(mq', q, g) /\ TakenOff(mq', mq, f, x) /\ mq'.entry = mq.entry
  BY <1>1, <1>3, <1>4, AllocEnds
<1>5. /\ g \in Seq(Node) /\ x \in Nodes(f) /\ x \in Node /\ Nodes(g) = Nodes(f) \ {x}
      /\ mq'.next = mq.next /\ mq'.data = mq.data
  BY <1>e DEF TakenOff
<1>t. x = mq.free
  OBVIOUS
<1> HIDE DEF g, x
<1>6. Quiet /\ Moves(PC, t) /\ pc[t] = "run" /\ pc'[t] = l
  BY <1>1, <1>2, StillQuiet
<1>7. node[t] = NULL
  BY <1>2, <1>4, <1>6 DEF Holds, Held
<1>8. Owns(node', q, g)
  <2>1. node \in [Thread -> Node \cup {NULL}] /\ x \in Nodes(q) \cup Nodes(f)
    BY <1>4, <1>5 DEF Locals
  <2>2. Nodes(q) \cup Nodes(g) = (Nodes(q) \cup Nodes(f)) \ {x}
    <3>1. Nodes(q) \cap Nodes(f) = {}
      BY <1>3, EndsFacts
    <3> QED BY <1>5, <3>1
  <2> QED BY <1>1, <1>t, <1>3, <1>5, <1>7, <2>1, <2>2, OwnsTake
<1>9. /\ node' \in [Thread -> Node \cup {NULL}] /\ msg' \in [Thread -> Msg \cup {NoMsg}]
      /\ time' \in [Thread -> Time] /\ got' \in [Thread -> Msg \cup {NoMsg}]
      /\ node'[t] = x /\ msg'[t] = m
      /\ \A u \in Thread : u # t => node'[u] = node[u] /\ msg'[u] = msg[u]
  BY <1>1, <1>t, <1>4, <1>5 DEF Locals
<1>10. Holds'
  <2>1. \A u \in Thread : u # t /\ node[u] # NULL => node[u] # x
    BY <1>3, <1>5 DEF Owns
  <2>2. Beside(mq', mq, q, f, x)
    BY <1>5 DEF Beside
  <2>3. Held(mq', node'[t], msg'[t], pc'[t])
    BY <1>1, <1>t, <1>2, <1>6, <1>9 DEF Held
  <2> QED BY <1>3, <1>4, <1>6, <1>9, <2>1, <2>2, <2>3, HoldsKept
<1>11. mq'.entry <= mq.entry
  BY <1>4, <1>e DEF Fields
<1> QED BY <1>1, <1>2, <1>e, <1>5, <1>8, <1>9, <1>10, <1>11, StillInv

\* A thread that holds a node holds one outside the lists.
LEMMA OwnNode ==
  ASSUME Inv, NEW t \in Thread, pc[t] \in Holding, NEW q, NEW f, Owns(node, q, f)
  PROVE  /\ node[t] \in Node /\ node[t] # NULL /\ node[t] \notin Nodes(q) /\ node[t] \notin Nodes(f)
         /\ \A u \in Thread : u # t /\ node[u] # NULL => node[u] # node[t]
<1>1. node[t] # NULL /\ node[t] \in Node
  BY DEF Inv, Holds, Held, Locals
<1> QED BY <1>1 DEF Owns

LEMMA SendFillInv ==
  ASSUME Inv, NEW t \in Thread, SendFill(t)
  PROVE  Inv'
<1>1. /\ k' = k /\ UNCHANGED <<locals, obj>>
      /\ node' = node /\ msg' = msg /\ time' = time /\ got' = got /\ UNCHANGED obj
  BY DEF SendFill, locals
<1>2. PICK q \in Seq(Node), f \in Seq(Node) : Ends(mq, q, f) /\ Owns(node, q, f)
  BY DEF Inv, Pool
<1>3. Fields(mq) /\ Locals /\ Holds
  BY DEF Inv, Pool
<1>4. ASSUME NEW l \in Filling, NEW m \in Linking, At(t, l), Goto(t, m),
             Fields(mq'), Ends(mq', q, f), Beside(mq', mq, q, f, node[t]),
             mq'.data[node[t]] = msg[t], m = "link_tail" => mq'.next[node[t]] = NULL,
             mq'.entry = mq.entry
      PROVE  Inv'
  <2>1. /\ l \notin Waits /\ m \in PC \ Waits /\ m \notin Deleter /\ l \in Holding /\ m \in Holding
    BY DEF Filling, Linking, Waits, PC, Deleter, Holding
  <2>2. Quiet /\ Moves(PC, t) /\ pc[t] = l /\ pc'[t] = m
    BY <1>1, <1>4, <2>1, StillQuiet
  <2>3. /\ node[t] # NULL /\ \A u \in Thread : u # t /\ node[u] # NULL => node[u] # node[t]
    BY <1>2, <2>1, <2>2, OwnNode
  <2>4. Held(mq, node[t], msg[t], pc[t])
    BY <1>3 DEF Holds
  <2>5. Held(mq', node'[t], msg'[t], pc'[t])
    BY <1>1, <1>4, <2>1, <2>2, <2>3, <2>4 DEF Held
  <2>6. Holds'
    BY <1>1, <1>2, <1>3, <1>4, <2>2, <2>3, <2>5, HoldsKept
  <2>7. mq'.entry <= mq.entry
    BY <1>3, <1>4 DEF Fields
  <2>8. /\ node' \in [Thread -> Node \cup {NULL}] /\ msg' \in [Thread -> Msg \cup {NoMsg}]
        /\ time' \in [Thread -> Time] /\ got' \in [Thread -> Msg \cup {NoMsg}]
        /\ Owns(node', q, f)
    BY <1>1, <1>2, <1>3 DEF Locals
  <2> QED BY <1>1, <1>4, <2>1, <2>6, <2>7, <2>8, StillInv
<1>5. ASSUME NEW l \in Filling, At(t, l)
      PROVE  /\ node[t] \in Node /\ node[t] \notin Nodes(q) /\ node[t] \notin Nodes(f)
             /\ msg[t] \in Msg
  <2>1. pc[t] = l /\ l \in Holding
    BY <1>5 DEF At, Holding
  <2>2. msg[t] \in Msg
    BY <1>3, <2>1 DEF Holds, Held
  <2> QED BY <1>2, <2>1, <2>2, OwnNode
<1>6. /\ "fill_tail" \in Filling /\ "fill_head" \in Filling
      /\ "link_tail" \in Linking /\ "link_head" \in Linking /\ "link_head" # "link_tail"
  BY DEF Filling, Linking
<1>7. CASE /\ At(t, "fill_tail") /\ Goto(t, "link_tail")
           /\ mq' = FillTail(mq, node[t], msg[t])
  <2>1. /\ Fields(mq') /\ Ends(mq', q, f) /\ Beside(mq', mq, q, f, node[t])
        /\ mq'.next[node[t]] = NULL /\ \A y \in Node : y # node[t] => mq'.data[y] = mq.data[y]
        /\ mq'.data[node[t]] = msg[t] /\ mq'.entry = mq.entry /\ mq'.head = mq.head
    <3>1. /\ node[t] \in Node /\ node[t] \notin Nodes(q) /\ node[t] \notin Nodes(f)
          /\ msg[t] \in Msg
      BY <1>5, <1>6, <1>7
    <3>2. mq' = FillTail(mq, node[t], msg[t])
      BY <1>7
    <3>3. Fields(mq) /\ Ends(mq, q, f)
      BY <1>2, <1>3
    <3> QED BY <3>1, <3>2, <3>3, FillTailEnds
  <2> QED BY <1>4, <1>6, <1>7, <2>1
<1>8. CASE /\ At(t, "fill_head") /\ Goto(t, "link_head")
           /\ mq' = FillHead(mq, node[t], msg[t])
  <2>1. /\ Fields(mq') /\ Ends(mq', q, f) /\ Beside(mq', mq, q, f, node[t])
        /\ \A y \in Node : y # node[t] => mq'.data[y] = mq.data[y]
        /\ mq'.data[node[t]] = msg[t] /\ mq'.entry = mq.entry /\ mq'.head = mq.head
    <3>1. /\ node[t] \in Node /\ node[t] \notin Nodes(q) /\ node[t] \notin Nodes(f)
          /\ msg[t] \in Msg
      BY <1>5, <1>6, <1>8
    <3>2. mq' = FillHead(mq, node[t], msg[t])
      BY <1>8
    <3>3. Fields(mq) /\ Ends(mq, q, f)
      BY <1>2, <1>3
    <3> QED BY <3>1, <3>2, <3>3, FillHeadEnds
  <2> QED BY <1>4, <1>6, <1>8, <2>1
<1> QED BY <1>7, <1>8 DEF SendFill

LEMMA RecvCopyInv ==
  ASSUME Inv, NEW t \in Thread, RecvCopy(t)
  PROVE  Inv'
<1>1. /\ At(t, "copy") /\ Goto(t, "free") /\ k' = k /\ mq' = mq /\ node' = node /\ msg' = msg
      /\ time' = time /\ got' = [got EXCEPT ![t] = mq.data[node[t]]] /\ UNCHANGED obj
  BY DEF RecvCopy
<1>2. PICK q \in Seq(Node), f \in Seq(Node) : Ends(mq, q, f) /\ Owns(node, q, f)
  BY DEF Inv, Pool
<1>3. Fields(mq) /\ Locals /\ Holds
  BY DEF Inv, Pool
<1>4. /\ "copy" \notin Waits /\ "free" \in PC \ Waits /\ "free" \notin Deleter
      /\ "copy" \in Holding /\ "free" \in Holding /\ "free" \notin Filling \cup Linking
      /\ "free" # "link_tail"
  BY DEF Filling, Linking, Waits, PC, Deleter, Holding
<1>5. Quiet /\ Moves(PC, t) /\ pc[t] = "copy" /\ pc'[t] = "free"
  BY <1>1, <1>4, StillQuiet
<1>6. /\ node[t] \in Node /\ node[t] # NULL
      /\ \A u \in Thread : u # t /\ node[u] # NULL => node[u] # node[t]
  BY <1>2, <1>4, <1>5, OwnNode
<1>7. Holds'
  <2>1. Beside(mq', mq, q, f, node[t])
    BY <1>1 DEF Beside
  <2>2. Held(mq', node'[t], msg'[t], pc'[t])
    BY <1>1, <1>4, <1>5, <1>6 DEF Held
  <2> QED BY <1>1, <1>2, <1>3, <1>5, <1>6, <2>1, <2>2, HoldsKept
<1>8. /\ node' \in [Thread -> Node \cup {NULL}] /\ msg' \in [Thread -> Msg \cup {NoMsg}]
      /\ time' \in [Thread -> Time] /\ got' \in [Thread -> Msg \cup {NoMsg}]
      /\ Owns(node', q, f) /\ Fields(mq') /\ Ends(mq', q, f) /\ mq'.entry <= mq.entry
  <2>1. mq.data[node[t]] \in Msg \cup {NoMsg}
    BY <1>3, <1>6 DEF Fields
  <2> QED BY <1>1, <1>2, <1>3, <2>1 DEF Locals, Fields
<1> QED BY <1>1, <1>4, <1>7, <1>8, StillInv

LEMMA RecvFreeInv ==
  ASSUME Inv, NEW t \in Thread, RecvFree(t)
  PROVE  Inv'
<1>1. /\ At(t, "free") /\ Goto(t, "run") /\ k' = k /\ mq' = Release(mq, node[t])
      /\ node' = [node EXCEPT ![t] = NULL] /\ msg' = msg
      /\ time' = time /\ got' = got /\ UNCHANGED obj
  BY QueueLists DEF RecvFree, Wake, AfterWake, Inv
<1>2. PICK q \in Seq(Node), f \in Seq(Node) : Ends(mq, q, f) /\ Owns(node, q, f)
  BY DEF Inv, Pool
<1>3. Fields(mq) /\ Locals /\ Holds
  BY DEF Inv, Pool
<1>4. /\ "free" \notin Waits /\ "run" \in PC \ Waits /\ "run" \notin Deleter
      /\ "free" \in Holding /\ "run" \notin Holding /\ "run" \notin Filling \cup Linking
      /\ "run" # "link_tail"
  BY DEF Filling, Linking, Waits, PC, Deleter, Holding
<1>5. Quiet /\ Moves(PC, t) /\ pc[t] = "free" /\ pc'[t] = "run"
  BY <1>1, <1>4, StillQuiet
<1>6. /\ node[t] \in Node /\ node[t] # NULL /\ node[t] \notin Nodes(q) /\ node[t] \notin Nodes(f)
      /\ \A u \in Thread : u # t /\ node[u] # NULL => node[u] # node[t]
  BY <1>2, <1>4, <1>5, OwnNode
<1> DEFINE g == <<node[t]>> \o f
<1>7. /\ Fields(mq') /\ Ends(mq', q, g) /\ g \in Seq(Node)
      /\ Nodes(g) = Nodes(f) \cup {node[t]}
      /\ Beside(mq', mq, q, f, node[t]) /\ mq'.entry = mq.entry
  BY <1>1, <1>2, <1>3, <1>6, ReleaseEnds
<1> HIDE DEF g
<1>8. Owns(node', q, g)
  <2>1. node \in [Thread -> Node \cup {NULL}]
    BY <1>3 DEF Locals
  <2>2. Nodes(q) \cup Nodes(g) = (Nodes(q) \cup Nodes(f)) \cup {node[t]}
    BY <1>7
  <2> QED BY <1>1, <1>2, <1>6, <2>1, <2>2, OwnsGive
<1>9. /\ node' \in [Thread -> Node \cup {NULL}] /\ msg' \in [Thread -> Msg \cup {NoMsg}]
      /\ time' \in [Thread -> Time] /\ got' \in [Thread -> Msg \cup {NoMsg}]
      /\ node'[t] = NULL /\ \A u \in Thread : u # t => node'[u] = node[u] /\ msg'[u] = msg[u]
  BY <1>1, <1>3 DEF Locals
<1>10. Holds'
  <2>1. Held(mq', node'[t], msg'[t], pc'[t])
    BY <1>4, <1>5, <1>9 DEF Held
  <2> QED BY <1>2, <1>3, <1>5, <1>6, <1>7, <1>9, <2>1, HoldsKept
<1>11. mq'.entry <= mq.entry
  BY <1>3, <1>7 DEF Fields
<1> QED BY <1>1, <1>4, <1>7, <1>8, <1>9, <1>10, <1>11, StillInv

LEMMA ResetEndInv ==
  ASSUME Inv, NEW t \in Thread, ResetEnd(t)
  PROVE  Inv'
<1>1. /\ At(t, "reset") /\ Goto(t, "sched") /\ k' = k /\ mq' = Emptied(mq, Queued)
      /\ node' = node /\ msg' = msg /\ time' = time /\ got' = got /\ UNCHANGED obj
  BY DEF ResetEnd, locals
<1>2. PICK q \in Seq(Node), f \in Seq(Node) : Ends(mq, q, f) /\ Owns(node, q, f)
  BY DEF Inv, Pool
<1>3. Fields(mq) /\ Locals /\ Holds
  BY DEF Inv, Pool
<1>4. Queued = q
  <2>1. Chain(mq.next, mq.head, q)
    BY <1>2, EndsFacts
  <2> QED BY <2>1, QueuedIs
<1> DEFINE g == Backwards(q, f)
<1>5. /\ Fields(mq') /\ Ends(mq', <<>>, g) /\ g \in Seq(Node)
      /\ Nodes(g) = Nodes(q) \cup Nodes(f)
      /\ Beside(mq', mq, q, f, NULL) /\ mq'.entry = 0
  BY <1>1, <1>2, <1>3, <1>4, EmptiedEnds
<1> HIDE DEF g
<1>6. /\ "reset" \notin Waits /\ "sched" \in PC \ Waits /\ "sched" \notin Deleter
      /\ "reset" \notin Holding /\ "sched" \notin Holding /\ "sched" \notin Filling \cup Linking
      /\ "sched" # "link_tail"
  BY DEF Filling, Linking, Waits, PC, Deleter, Holding
<1>7. Quiet /\ Moves(PC, t) /\ pc[t] = "reset" /\ pc'[t] = "sched"
  BY <1>1, <1>6, StillQuiet
<1>8. Holds'
  <2>1. Held(mq', node'[t], msg'[t], pc'[t])
    BY <1>1, <1>3, <1>6, <1>7 DEF Holds, Held
  <2> QED BY <1>1, <1>2, <1>3, <1>5, <1>7, <2>1, HoldsKept
<1>9. Owns(node', <<>>, g) /\ <<>> \in Seq(Node)
  <2>1. Nodes(<<>>) \cup Nodes(g) = Nodes(q) \cup Nodes(f)
    <3>1. Nodes(<<>>) = {}
      BY DEF Nodes
    <3> QED BY <1>5, <3>1
  <2> QED BY <1>1, <1>2, <2>1, OwnsSame
<1>10. /\ node' \in [Thread -> Node \cup {NULL}] /\ msg' \in [Thread -> Msg \cup {NoMsg}]
       /\ time' \in [Thread -> Time] /\ got' \in [Thread -> Msg \cup {NoMsg}]
       /\ mq'.entry <= mq.entry
  BY <1>1, <1>3, <1>5 DEF Locals, Fields
<1> QED BY <1>1, <1>5, <1>6, <1>8, <1>9, <1>10, StillInv

-----------------------------------------------------------------------------
(* A message is linked and wakes the first receiver. *)

\* What the wake-up does to the count, and to those that waited at the delete.
Serves ==
  /\ k.wait[RecvList] = <<>> => k'.wait[RecvList] = <<>>
  /\ k.wait[RecvList] # <<>> => Cardinality(Woken(Waits)') = Cardinality(Woken(Waits)) + 1
  /\ Cardinality(Woken(Waits)) \in Nat

Releases ==
  \A u \in asleep' : /\ u \in Woken(Waits)' => u \in Woken(Waits)
                     /\ u \in Nodes(k'.wait[RecvList]) => u \in Nodes(k.wait[RecvList])

LEMMA ServeStep ==
  ASSUME Lists, NEW t, NEW l, At(t, l), l \notin Waits,
         k' = Wake(RecvList), Goto(t, AfterWake(RecvList)), Served(RecvList)
  PROVE  /\ Lists' /\ Serves /\ Releases /\ asleep' \subseteq asleep
         /\ Moves(PC, t) /\ pc[t] = l /\ pc'[t] \in {"run", "sched"}
<1> DEFINE u == Head(k.wait[RecvList])
<1>1. /\ RecvList \in WaitList \ {Defunct} /\ RecvList \in WaitList /\ SendList \in WaitList
      /\ Sound(k) /\ IpcOK(PC, Waits, Leaving) /\ Blocking(RecvList, Waits)
      /\ k.wait[SendList] = <<>> /\ l \notin Leaving
  BY QueueLists DEF Leaving, Waits
<1>2. {"run", "sched"} \subseteq PC /\ {"run", "sched"} \cap Waits = {}
  BY DEF PC, Waits
<1>3. t \in Thread /\ pc[t] = l /\ k.stat[t] = "READY"
  BY <1>1, RunnerReady
<1>4. Cardinality(Woken(Waits)) \in Nat
  BY WokenFinite
<1>5. CASE k.wait[RecvList] = <<>>
  <2>1. k' = k /\ Goto(t, "run") /\ asleep' = asleep
    BY <1>5 DEF Wake, AfterWake, Served
  <2>2. IpcOK(PC, Waits, Leaving)' /\ Moves(PC, t) /\ Calm(k', k) /\ pc'[t] = "run"
    BY <1>1, <1>2, <2>1, StillStep
  <2>3. pc[t] \in Waits <=> pc'[t] \in Waits
    BY <1>2, <1>3, <2>2
  <2>4. Quiet
    BY <1>3, <2>2, <2>3, CalmQuiet
  <2> QED BY <1>3, <1>4, <1>5, <2>1, <2>2, <2>4 DEF Quiet, Serves, Releases
<1>6. CASE k.wait[RecvList] # <<>>
  <2>1. k' = rt_ipc_list_resume(k, RecvList) /\ Goto(t, "sched") /\ asleep' = asleep \ {u}
    BY <1>6 DEF Wake, AfterWake, Served
  <2>2. u \in Thread /\ k.stat[u] = "SUSPEND" /\ u \in Nodes(k.wait[RecvList])
    BY <1>1, <1>6, HeadSuspended
  <2>3. k.err[u] = RT_EOK /\ pc[u] \in Waits /\ u # t
    BY <1>1, <1>3, <2>2 DEF Blocking
  <2>4. Sound(k') /\ k'.cur = k.cur /\ Roused(k', k, u, RT_EOK)
    BY <1>1, <1>6, <2>1, <2>3, ListResumeRouses
  <2> HIDE DEF u
  <2>5. IpcOK(PC, Waits, Leaving)' /\ Moves(PC, t) /\ pc'[t] = "sched"
    BY <1>1, <1>2, <2>1, <2>2, <2>4, RouseStep
  <2>6. pc[t] \in Waits <=> pc'[t] \in Waits
    BY <1>2, <1>3, <2>5
  <2>7. Blocking(RecvList, Waits)'
    BY <1>1, <1>3, <2>2, <2>4, <2>5, <2>6, RousedBlocking
  <2>8. pc'[u] \in Waits
    BY <2>2, <2>3, <2>5 DEF Moves
  <2>9. Woken(Waits)' = Woken(Waits) \cup {u} /\ u \notin Woken(Waits)
    <3>1. IpcOK(PC, Waits, Leaving)' /\ Moves(PC, t) /\ (pc[t] \in Waits <=> pc'[t] \in Waits)
      BY <2>5, <2>6
    <3>2. u \in Thread /\ Roused(k', k, u, RT_EOK) /\ k.stat[u] = "SUSPEND" /\ t \in Thread
      BY <1>3, <2>2, <2>4
    <3> QED BY <1>1, <2>8, <3>1, <3>2, RousedWoken
  <2>10. Cardinality(Woken(Waits)') = Cardinality(Woken(Waits)) + 1
    BY <2>9, WokenCount
  <2>11. Nodes(k'.wait[RecvList]) = Nodes(k.wait[RecvList]) \ {u}
    BY <1>1, <2>4, RousedLists
  <2>12. k'.wait[SendList] = <<>>
    BY <1>1, <2>4, RousedLists
  <2>13. Lists'
    BY <2>5, <2>7, <2>12 DEF Lists
  <2>14. Releases /\ asleep' \subseteq asleep
    BY <2>1, <2>9, <2>11 DEF Releases
  <2>15. Serves
    BY <1>4, <1>6, <2>10 DEF Serves
  <2> QED BY <1>3, <2>5, <2>13, <2>14, <2>15
<1> QED BY <1>5, <1>6

\* The same from an interrupt handler.
LEMMA IsrServe ==
  ASSUME Lists, pc' = pc,
         k' = IF k.wait[RecvList] = <<>> THEN k ELSE rt_schedule(Wake(RecvList))
  PROVE  Lists' /\ Serves
<1> DEFINE u == Head(k.wait[RecvList])
           j == rt_ipc_list_resume(k, RecvList)
<1>1. /\ RecvList \in WaitList \ {Defunct} /\ RecvList \in WaitList /\ SendList \in WaitList
      /\ Sound(k) /\ IpcOK(PC, Waits, Leaving) /\ Blocking(RecvList, Waits)
      /\ k.wait[SendList] = <<>> /\ Cardinality(Woken(Waits)) \in Nat
  BY QueueLists, WokenFinite
<1>2. CASE k.wait[RecvList] = <<>>
  <2>1. k' = k
    BY <1>2
  <2>2. Lists'
    BY <2>1 DEF Lists, IpcOK, Blocking
  <2> QED BY <1>1, <1>2, <2>1, <2>2 DEF Serves
<1>3. CASE k.wait[RecvList] # <<>>
  <2>1. k' = rt_schedule(j)
    BY <1>3 DEF Wake
  <2>2. u \in Thread /\ k.stat[u] = "SUSPEND" /\ pc[u] \in Waits /\ k.err[u] = RT_EOK
    BY <1>1, <1>3, HeadSuspended DEF Blocking
  <2>3. Sound(j) /\ Roused(j, k, u, RT_EOK)
    BY <1>1, <1>3, <2>2, ListResumeRouses
  <2> HIDE DEF u, j
  <2>4. /\ IpcOK(PC, Waits, Leaving)' /\ Roused(k', k, u, RT_EOK) /\ k.cur \in Thread
        /\ Moves(PC, k.cur)
    BY <1>1, <1>3, <2>1, <2>2, <2>3, IsrRouseStep
  <2>5. Blocking(RecvList, Waits)'
    BY <1>1, <2>2, <2>4, RousedBlocking
  <2>6. pc'[u] \in Waits
    BY <2>2
  <2>7. Woken(Waits)' = Woken(Waits) \cup {u} /\ u \notin Woken(Waits)
    BY <1>1, <2>2, <2>4, <2>6, RousedWoken
  <2>8. Cardinality(Woken(Waits)') = Cardinality(Woken(Waits)) + 1
    BY <2>7, WokenCount
  <2>9. k'.wait[SendList] = <<>>
    BY <1>1, <2>4, RousedLists
  <2> QED BY <1>1, <1>3, <2>4, <2>5, <2>8, <2>9 DEF Lists, Serves
<1> QED BY <1>2, <1>3

LEMMA ServeCounts ==
  ASSUME Counts, Serves, life' = life, mq.entry \in Nat, mq'.entry = mq.entry + 1
  PROVE  Counts'
<1> SUFFICES ASSUME life' = "live", k'.wait[RecvList] # <<>>
             PROVE  mq'.entry <= Cardinality(Woken(Waits)')
  BY DEF Counts
<1>1. k.wait[RecvList] # <<>> /\ Cardinality(Woken(Waits)) \in Nat
  BY DEF Serves
<1>2. mq.entry <= Cardinality(Woken(Waits))
  BY <1>1 DEF Counts
<1>3. Cardinality(Woken(Waits)') = Cardinality(Woken(Waits)) + 1
  BY <1>1 DEF Serves
<1> QED BY <1>1, <1>2, <1>3

LEMMA SendLinkInv ==
  ASSUME Inv, NEW t \in Thread, SendLink(t)
  PROVE  Inv'
<1>1. PICK l \in Linking :
        /\ At(t, l)
        /\ \/ l = "link_tail" /\ mq' = LinkTail(mq, node[t])
           \/ l = "link_head" /\ mq' = LinkHead(mq, node[t])
  BY DEF SendLink, Linking
<1>2. /\ k' = Wake(RecvList) /\ Goto(t, AfterWake(RecvList)) /\ Served(RecvList)
      /\ node' = [node EXCEPT ![t] = NULL] /\ msg' = [msg EXCEPT ![t] = NoMsg]
      /\ time' = time /\ got' = got /\ life' = life
  BY DEF SendLink
<1>3. l \notin Waits /\ l \in Holding
  BY DEF Linking, Waits, Holding
<1>4. PICK q \in Seq(Node), f \in Seq(Node) : Ends(mq, q, f) /\ Owns(node, q, f)
  BY DEF Inv, Pool
<1>5. Fields(mq) /\ Locals /\ Holds /\ Lists /\ Counts /\ Closing /\ mq.entry \in Nat
  BY DEF Inv, Pool, Fields
<1>6. /\ Lists' /\ Serves /\ Releases /\ asleep' \subseteq asleep
      /\ Moves(PC, t) /\ pc[t] = l /\ pc'[t] \in {"run", "sched"}
  BY <1>1, <1>2, <1>3, <1>5, ServeStep
<1>7. /\ node[t] \in Node /\ node[t] # NULL /\ node[t] \notin Nodes(q) /\ node[t] \notin Nodes(f)
      /\ \A u \in Thread : u # t /\ node[u] # NULL => node[u] # node[t]
  BY <1>3, <1>4, <1>6, OwnNode
<1>8. ASSUME NEW r \in Seq(Node), Fields(mq'), Ends(mq', r, f),
             Nodes(r) = Nodes(q) \cup {node[t]}, Beside(mq', mq, q, f, node[t]),
             mq'.entry = mq.entry + 1
      PROVE  Inv'
  <2>1. Counts'
    BY <1>2, <1>5, <1>6, <1>8, ServeCounts
  <2>2. Owns(node', r, f)
    <3>1. node \in [Thread -> Node \cup {NULL}]
      BY <1>5 DEF Locals
    <3>2. Nodes(r) \cup Nodes(f) = (Nodes(q) \cup Nodes(f)) \cup {node[t]}
      BY <1>8
    <3> QED BY <1>2, <1>4, <1>7, <3>1, <3>2, OwnsGive
  <2>3. Pool'
    BY <1>8, <2>2, PoolIs
  <2>4. /\ pc'[t] \notin Waits /\ pc'[t] \notin Deleter /\ pc'[t] \notin Holding
        /\ pc'[t] \notin Filling \cup Linking /\ pc'[t] # "link_tail"
    BY <1>6 DEF Waits, Deleter, Holding, Filling, Linking
  <2>5. /\ node' \in [Thread -> Node \cup {NULL}] /\ msg' \in [Thread -> Msg \cup {NoMsg}]
        /\ node'[t] = NULL
        /\ \A u \in Thread : u # t => node'[u] = node[u] /\ msg'[u] = msg[u]
    BY <1>2, <1>5 DEF Locals
  <2>6. Locals'
    <3>1. pc'[Idle] \notin Waits
      BY <1>5, <1>6, <2>4, KernelAssumption DEF Locals, Moves
    <3> QED BY <1>2, <1>5, <1>6, <2>5, <3>1 DEF Locals
  <2>7. Holds'
    <3>1. Held(mq', node'[t], msg'[t], pc'[t])
      BY <2>4, <2>5 DEF Held
    <3> QED BY <1>4, <1>5, <1>6, <1>7, <1>8, <2>5, <3>1, HoldsKept
  <2>8. Closing'
    <3>1. \A u \in Thread : pc'[u] \in Deleter => pc[u] \in Deleter
      BY <1>6, <2>4 DEF Moves
    <3> QED BY <1>2, <1>5, <1>6, <3>1, ClosingKept DEF Releases
  <2> QED BY <1>6, <2>1, <2>3, <2>6, <2>7, <2>8 DEF Inv
<1>9. CASE l = "link_tail" /\ mq' = LinkTail(mq, node[t])
  <2>1. mq.next[node[t]] = NULL
    BY <1>5, <1>6, <1>9 DEF Holds, Held
  <2>2. /\ Fields(mq') /\ Ends(mq', Append(q, node[t]), f) /\ Append(q, node[t]) \in Seq(Node)
        /\ Nodes(Append(q, node[t])) = Nodes(q) \cup {node[t]}
        /\ Beside(mq', mq, q, f, node[t]) /\ mq'.data = mq.data /\ mq'.entry = mq.entry + 1
    BY <1>4, <1>5, <1>7, <1>9, <2>1, LinkTailEnds
  <2> QED BY <1>8, <2>2
<1>10. CASE l = "link_head" /\ mq' = LinkHead(mq, node[t])
  <2>1. /\ Fields(mq') /\ Ends(mq', <<node[t]>> \o q, f) /\ <<node[t]>> \o q \in Seq(Node)
        /\ Nodes(<<node[t]>> \o q) = Nodes(q) \cup {node[t]}
        /\ Beside(mq', mq, q, f, node[t]) /\ mq'.data = mq.data /\ mq'.entry = mq.entry + 1
    <3>1. Fields(mq) /\ Ends(mq, q, f) /\ mq' = LinkHead(mq, node[t])
      BY <1>4, <1>5, <1>10
    <3>2. node[t] \in Node /\ node[t] \notin Nodes(q) /\ node[t] \notin Nodes(f)
      BY <1>7
    <3> QED BY <3>1, <3>2, LinkHeadEnds
  <2> QED BY <1>8, <2>1
<1> QED BY <1>1, <1>9, <1>10

\* A whole rt_mq_send in an interrupt handler.
LEMMA IsrPool ==
  ASSUME NEW c, NEW q, NEW f, Fields(c), Ends(c, q, f), c.free # NULL, NEW m \in Msg,
         NEW d, d = LinkTail(FillTail(Alloc(c), c.free, m), c.free)
  PROVE  /\ Fields(d) /\ Ends(d, Append(q, c.free), Tail(f)) /\ d.entry = c.entry + 1
         /\ Append(q, c.free) \in Seq(Node) /\ Tail(f) \in Seq(Node)
         /\ Nodes(Append(q, c.free)) = Nodes(q) \cup {c.free}
         /\ Nodes(Tail(f)) = Nodes(f) \ {c.free} /\ c.free \in Nodes(f)
         /\ Beside(d, c, q, f, c.free)
         /\ d.data[c.free] = m /\ \A y \in Node : y # c.free => d.data[y] = c.data[y]
<1> DEFINE x == c.free
           g == Tail(f)
           c1 == Alloc(c)
           c2 == FillTail(c1, x, m)
<1>1. /\ Fields(c1) /\ Ends(c1, q, g) /\ TakenOff(c1, c, f, x)
      /\ c1.entry = c.entry /\ c1.head = c.head
  BY AllocEnds
<1>2. /\ g \in Seq(Node) /\ Nodes(g) = Nodes(f) \ {x} /\ x \in Nodes(f) /\ x \in Node
      /\ c1.next = c.next /\ c1.data = c.data
  BY <1>1 DEF TakenOff
<1>3. x \notin Nodes(q) /\ x \notin Nodes(g)
  <2>1. Nodes(q) \cap Nodes(f) = {}
    BY EndsFacts
  <2> QED BY <1>2, <2>1
<1>4. d = LinkTail(c2, x)
  OBVIOUS
<1> HIDE DEF x, g, c1
<1>5. /\ Fields(c2) /\ Ends(c2, q, g) /\ Beside(c2, c1, q, g, x)
      /\ c2.next[x] = NULL /\ c2.data[x] = m /\ (\A y \in Node : y # x => c2.data[y] = c1.data[y])
      /\ c2.entry = c1.entry /\ c2.head = c1.head
  BY <1>1, <1>2, <1>3, FillTailEnds
<1> HIDE DEF c2
<1>6. /\ Fields(d) /\ Ends(d, Append(q, x), g) /\ Append(q, x) \in Seq(Node)
      /\ Nodes(Append(q, x)) = Nodes(q) \cup {x}
      /\ Beside(d, c2, q, g, x) /\ d.data = c2.data /\ d.entry = c2.entry + 1
  BY <1>2, <1>3, <1>4, <1>5, LinkTailEnds
<1>7. Beside(d, c, q, f, x)
  BY <1>2, <1>5, <1>6 DEF Beside
<1>8. d.entry = c.entry + 1 /\ d.data[x] = m /\ \A y \in Node : y # x => d.data[y] = c.data[y]
  BY <1>1, <1>2, <1>5, <1>6
<1> QED BY <1>2, <1>6, <1>7, <1>8 DEF x, g

LEMMA IsrSendInv ==
  ASSUME Inv, NEW m \in Msg, IsrSend(m)
  PROVE  Inv'
<1> DEFINE x == mq.free
<1>1. /\ life = "live" /\ x # NULL /\ pc' = pc /\ life' = life /\ asleep' = asleep
      /\ mq' = LinkTail(FillTail(Alloc(mq), x, m), x)
      /\ node' = node /\ msg' = msg /\ time' = time /\ got' = got
      /\ k' = IF k.wait[RecvList] = <<>> THEN k ELSE rt_schedule(Wake(RecvList))
  BY DEF IsrSend, locals, obj
<1>2. PICK q \in Seq(Node), f \in Seq(Node) : Ends(mq, q, f) /\ Owns(node, q, f)
  BY DEF Inv, Pool
<1>3. Fields(mq) /\ Locals /\ Holds /\ Lists /\ Counts /\ Closing /\ mq.entry \in Nat
  BY DEF Inv, Pool, Fields
<1> DEFINE r == Append(q, x)
           g == Tail(f)
<1>4. /\ Fields(mq') /\ Ends(mq', r, g) /\ mq'.entry = mq.entry + 1
      /\ r \in Seq(Node) /\ g \in Seq(Node) /\ Nodes(r) = Nodes(q) \cup {x}
      /\ Nodes(g) = Nodes(f) \ {x} /\ x \in Nodes(f) /\ Beside(mq', mq, q, f, x)
  BY <1>1, <1>2, <1>3, IsrPool
<1> HIDE DEF x, r, g
<1>5. Lists' /\ Serves
  BY <1>1, <1>3, IsrServe
<1>6. Counts'
  BY <1>1, <1>3, <1>4, <1>5, ServeCounts
<1>7. Pool'
  <2>1. Nodes(r) \cup Nodes(g) = Nodes(q) \cup Nodes(f)
    BY <1>4
  <2>2. Owns(node', r, g)
    BY <1>1, <1>2, <2>1, OwnsSame
  <2> QED BY <1>4, <2>2, PoolIs
<1>8. Locals'
  BY <1>1, <1>3 DEF Locals
<1>9. Holds'
  <2>1. k.cur \in Thread /\ pc \in [Thread -> PC]
    BY <1>3, QueueLists, CurThread DEF IpcOK
  <2>2. Moves(PC, k.cur)
    BY <1>1, <2>1, StayMoves
  <2>3. \A u \in Thread : node[u] # NULL => node[u] # x
    BY <1>2, <1>4 DEF Owns
  <2>4. Held(mq, node[k.cur], msg[k.cur], pc[k.cur]) /\ node[k.cur] \in Node \cup {NULL}
    BY <1>3, <2>1 DEF Holds, Locals
  <2>5. node[k.cur] # NULL => /\ mq'.next[node[k.cur]] = mq.next[node[k.cur]]
                              /\ mq'.data[node[k.cur]] = mq.data[node[k.cur]]
    BY <1>2, <1>4, <2>1, <2>3, <2>4 DEF Owns, Beside
  <2>6. Held(mq', node'[k.cur], msg'[k.cur], pc'[k.cur])
    <3>1. "link_tail" \in Holding /\ Linking \subseteq Holding
      BY DEF Linking, Holding
    <3> QED BY <1>1, <2>4, <2>5, <3>1 DEF Held
  <2> QED BY <1>1, <1>2, <1>3, <1>4, <2>1, <2>2, <2>3, <2>6, HoldsKept
<1>10. Closing'
  BY <1>1, <1>3 DEF Closing
<1> QED BY <1>5, <1>6, <1>7, <1>8, <1>9, <1>10 DEF Inv

-----------------------------------------------------------------------------
(* The receiver's sections in front of the list. *)

\* Outside the two sections of a call the pool stays as it is.
LEMMA KeepsPool ==
  ASSUME Inv, mq' = mq, node' = node, msg' = msg, NEW t \in Thread, Moves(PC, t),
         pc[t] \notin Holding, pc'[t] \notin Holding
  PROVE  Pool' /\ Holds'
<1>1. PICK q \in Seq(Node), f \in Seq(Node) : Ends(mq, q, f) /\ Owns(node, q, f)
  BY DEF Inv, Pool
<1>2. Pool'
  <2>1. Fields(mq') /\ Ends(mq', q, f) /\ Owns(node', q, f)
    BY <1>1 DEF Inv, Pool
  <2> QED BY <2>1, PoolIs
<1>3. Holds'
  <2>1. Beside(mq', mq, q, f, NULL)
    BY DEF Beside
  <2>2. Held(mq, node[t], msg[t], pc[t]) /\ Holds /\ Locals
    BY DEF Inv, Holds
  <2>3. Held(mq', node'[t], msg'[t], pc'[t])
    <3>1. {"link_tail"} \cup Filling \cup Linking \subseteq Holding
      BY DEF Filling, Linking, Holding
    <3> QED BY <2>2, <3>1 DEF Held
  <2>4. \A u \in Thread : u # t => node'[u] = node[u] /\ msg'[u] = msg[u]
    OBVIOUS
  <2> QED BY <1>1, <2>1, <2>2, <2>3, <2>4, HoldsKept
<1> QED BY <1>2, <1>3

LEMMA RecvTakeInv ==
  ASSUME Inv, NEW t \in Thread, NEW l \in {"run", "woken"}, RecvTake(t, l)
  PROVE  Inv'
<1> DEFINE x == mq.head
<1>1. /\ At(t, l) /\ mq.entry > 0 /\ node' = [node EXCEPT ![t] = x] /\ mq' = PopHead(mq)
      /\ time' = [time EXCEPT ![t] = "NO"] /\ Goto(t, "copy") /\ k' = k /\ msg' = msg
      /\ got' = got /\ life' = life /\ asleep' = asleep
  BY DEF RecvTake, obj
<1>2. /\ l \notin Leaving /\ l \notin Holding /\ "copy" \in PC /\ "copy" \notin Waits
      /\ "copy" \notin Deleter /\ "copy" \in Holding /\ "copy" \notin Filling \cup Linking
      /\ "copy" # "link_tail"
  BY DEF Leaving, PC, Waits, Deleter, Holding, Filling, Linking
<1>3. PICK q \in Seq(Node), f \in Seq(Node) : Ends(mq, q, f) /\ Owns(node, q, f)
  BY DEF Inv, Pool
<1>4. /\ Fields(mq) /\ Locals /\ Holds /\ Lists /\ Counts /\ Closing /\ mq.entry \in Nat
      /\ IpcOK(PC, Waits, Leaving) /\ Blocking(RecvList, Waits)
  BY DEF Inv, Pool, Fields, Lists
<1>5. /\ IpcOK(PC, Waits, Leaving)' /\ Moves(PC, t) /\ Calm(k', k) /\ pc'[t] = "copy"
      /\ pc[t] = l /\ k.stat[t] = "READY"
  BY <1>1, <1>2, <1>4, StillStep, RunnerReady
<1>6. Lists'
  <2>1. Blocking(RecvList, Waits)'
    BY <1>4, <1>5, CalmBlocking
  <2> QED BY <1>1, <1>4, <1>5, <2>1 DEF Lists
<1>7. Woken(Waits)' = Woken(Waits) \ {t}
  BY <1>2, <1>5, LeaveWoken
<1> DEFINE r == Tail(q)
<1>8. /\ Fields(mq') /\ Ends(mq', r, f) /\ TakenOff(mq', mq, q, x)
      /\ mq'.entry = mq.entry - 1
  BY <1>1, <1>3, <1>4, PopEnds
<1>9. /\ r \in Seq(Node) /\ x \in Nodes(q) /\ x \in Node /\ Nodes(r) = Nodes(q) \ {x}
      /\ mq'.next = mq.next /\ mq'.data = mq.data
  BY <1>8 DEF TakenOff
<1> HIDE DEF r, x
<1>10. Counts'
  <2> SUFFICES ASSUME life' = "live", k'.wait[RecvList] # <<>>
               PROVE  mq'.entry <= Cardinality(Woken(Waits)')
    BY DEF Counts
  <2>1. mq.entry <= Cardinality(Woken(Waits))
    BY <1>1, <1>4 DEF Counts
  <2>2. /\ Cardinality(Woken(Waits)) \in Nat /\ Cardinality(Woken(Waits)') \in Nat
        /\ Cardinality(Woken(Waits)') >= Cardinality(Woken(Waits)) - 1
    BY <1>7, OneLess
  <2> QED BY <1>4, <1>8, <2>1, <2>2
<1>11. node[t] = NULL
  BY <1>2, <1>4, <1>5 DEF Holds, Held
<1>12. Owns(node', r, f)
  <2>1. node \in [Thread -> Node \cup {NULL}] /\ x \in Nodes(q) \cup Nodes(f)
    BY <1>4, <1>9 DEF Locals
  <2>2. Nodes(r) \cup Nodes(f) = (Nodes(q) \cup Nodes(f)) \ {x}
    <3>1. Nodes(q) \cap Nodes(f) = {}
      BY <1>3, EndsFacts
    <3> QED BY <1>9, <3>1
  <2> QED BY <1>1, <1>3, <1>9, <1>11, <2>1, <2>2, OwnsTake
<1>13. Pool'
  BY <1>8, <1>9, <1>12, PoolIs
<1>14. /\ node' \in [Thread -> Node \cup {NULL}] /\ time' \in [Thread -> Time]
       /\ node'[t] = x /\ \A u \in Thread : u # t => node'[u] = node[u] /\ msg'[u] = msg[u]
  BY <1>1, <1>4, <1>9 DEF Locals, Time
<1>15. Locals'
  <2>1. pc'[Idle] \notin Waits
    BY <1>2, <1>4, <1>5, KernelAssumption DEF Locals, Moves
  <2> QED BY <1>1, <1>4, <1>14, <2>1 DEF Locals
<1>16. Holds'
  <2>1. \A u \in Thread : u # t /\ node[u] # NULL => node[u] # x
    BY <1>3, <1>9 DEF Owns
  <2>2. Beside(mq', mq, q, f, x)
    BY <1>9 DEF Beside
  <2>3. Held(mq', node'[t], msg'[t], pc'[t])
    BY <1>2, <1>5, <1>9, <1>14, NodeFacts DEF Held
  <2> QED BY <1>3, <1>4, <1>5, <1>14, <2>1, <2>2, <2>3, HoldsKept
<1>17. Closing'
  <2>1. \A u \in Thread : pc'[u] \in Deleter => pc[u] \in Deleter
    BY <1>2, <1>5 DEF Moves
  <2>2. \A u \in asleep' : /\ u \in Woken(Waits)' => u \in Woken(Waits)
                           /\ u \in Nodes(k'.wait[RecvList]) => u \in Nodes(k.wait[RecvList])
    BY <1>1, <1>7
  <2> QED BY <1>1, <1>4, <2>1, <2>2, ClosingKept
<1> QED BY <1>6, <1>10, <1>13, <1>15, <1>16, <1>17 DEF Inv

LEMMA WaitKeeps ==
  ASSUME Lists, NEW t \in Thread, t # Idle, NEW l, At(t, l), l \notin Leaving, NEW tm,
         k' = Block(k, RecvList, t, Flag, tm), Goto(t, "waiting")
  PROVE  /\ Lists' /\ Moves(PC, t) /\ pc[t] = l /\ pc'[t] = "waiting" /\ k.stat[t] = "READY"
         /\ Woken(Waits)' = Woken(Waits) \ {t}
         /\ \A u : u \in Nodes(k'.wait[RecvList]) <=> u \in Nodes(k.wait[RecvList]) \/ u = t
<1> DEFINE x == Position(k, RecvList, t, Flag)
<1>1. /\ RecvList \in WaitList \ {Defunct} /\ RecvList \in WaitList /\ SendList \in WaitList
      /\ SendList # RecvList /\ k.wait[SendList] = <<>>
      /\ Sound(k) /\ k \in KernelState /\ IpcOK(PC, Waits, Leaving) /\ Blocking(RecvList, Waits)
  BY QueueLists
<1>2. "waiting" \in PC \cap Waits \cap Leaving /\ "waiting" \in Waits
  BY DEF Leaving, PC, Waits
<1>3. /\ IpcOK(PC, Waits, Leaving)' /\ k.stat[t] = "READY" /\ Moves(PC, t)
      /\ pc[t] = l /\ pc'[t] = "waiting" /\ BlockedAt(k', k, RecvList, t, x)
      /\ Place(k, RecvList, x)
  BY <1>1, <1>2, BlockStep
<1> HIDE DEF x
<1>4. Blocking(RecvList, Waits)'
  <2>1. IF RecvList = RecvList THEN pc'[t] \in Waits ELSE pc'[t] \notin Waits
    BY <1>2, <1>3
  <2> QED BY <1>1, <1>3, <2>1, BlockedBlocking
<1>5. \A r \in WaitList : r # RecvList => k'.wait[r] = k.wait[r]
  BY <1>1, <1>3, BlockedNodes
<1>6. Lists'
  BY <1>1, <1>3, <1>4, <1>5 DEF Lists
<1>7. /\ k'.stat[t] = "SUSPEND"
      /\ \A u \in Thread \ {t} : k'.stat[u] = k.stat[u] /\ k'.err[u] = k.err[u]
  BY <1>1, <1>3 DEF BlockedAt, KernelState
<1>8. Woken(Waits)' = Woken(Waits) \ {t}
  BY <1>3, <1>7, OwnWoken
<1>9. \A u : u \in Nodes(k'.wait[RecvList]) <=> u \in Nodes(k.wait[RecvList]) \/ u = t
  <2>1. k'.wait[RecvList] = InsertBefore(k.wait[RecvList], x, t)
    BY <1>1, <1>3, BlockedNodes
  <2>2. PICK s \in Seq(Thread) : s = k.wait[RecvList] /\ Injective(s) /\ t \notin Nodes(s)
    <3>1. t \notin Nodes(k.wait[RecvList])
      BY <1>1, <1>3, ReadyUnlisted DEF Sound, KernelInv
    <3> QED BY <1>1, <3>1 DEF Sound, KernelInv, KernelState, ListsSound
  <2>3. x \in 1 .. (Len(s) + 1)
    BY <1>3, <2>2 DEF Place
  <2>4. Nodes(InsertBefore(s, x, t)) = Nodes(s) \cup {t}
    BY <2>2, <2>3, InsertNodes
  <2> QED BY <2>1, <2>2, <2>4
<1> QED BY <1>3, <1>6, <1>8, <1>9

LEMMA RecvWaitInv ==
  ASSUME Inv, NEW t \in Thread, t # Idle, NEW l, NEW tm \in Time, RecvWait(t, l, tm),
         \/ l = "run" /\ life = "live"
         \/ l = "woken" /\ k.err[t] = RT_EOK
  PROVE  Inv'
<1>1. /\ At(t, l) /\ mq.entry = 0 /\ k' = Block(k, RecvList, t, Flag, tm)
      /\ Goto(t, "waiting") /\ time' = [time EXCEPT ![t] = tm]
      /\ mq' = mq /\ node' = node /\ msg' = msg /\ got' = got
      /\ life' = life /\ asleep' = asleep
  BY DEF RecvWait, obj
<1>2. /\ l \notin Leaving /\ l \notin Holding /\ Lists
      /\ "waiting" \notin Deleter /\ "waiting" \notin Holding
  BY DEF Leaving, Deleter, Holding, Filling, Linking, Inv
<1>4. /\ Lists' /\ Moves(PC, t) /\ pc[t] = l /\ pc'[t] = "waiting" /\ k.stat[t] = "READY"
      /\ Woken(Waits)' = Woken(Waits) \ {t}
      /\ \A u : u \in Nodes(k'.wait[RecvList]) <=> u \in Nodes(k.wait[RecvList]) \/ u = t
  BY <1>1, <1>2, WaitKeeps
<1>11. Pool' /\ Holds'
  BY <1>1, <1>2, <1>4, KeepsPool
<1>12. Locals'
  <2>1. pc'[Idle] \notin Waits
    BY <1>4, KernelAssumption DEF Inv, Locals, Moves
  <2> QED BY <1>1, <2>1 DEF Inv, Locals
<1>13. Counts'
  <2>1. Cardinality(Woken(Waits)') \in Nat
    BY <1>4, OneLess
  <2>2. mq'.entry <= Cardinality(Woken(Waits)')
    BY <1>1, <2>1
  <2> QED BY <2>2 DEF Counts
<1>14. Closing'
  <2>1. \A u \in Thread : pc'[u] \in Deleter => pc[u] \in Deleter
    BY <1>2, <1>4 DEF Moves
  <2>2. life # "live" => t \notin asleep
    <3>1. l = "woken" /\ k.err[t] = RT_EOK => t \in Woken(Waits)
      BY <1>4 DEF Woken, Waits
    <3> QED BY <3>1 DEF Inv, Closing
  <2>3. life # "live" => \A u \in asleep' :
            /\ u \in Woken(Waits)' => u \in Woken(Waits)
            /\ u \in Nodes(k'.wait[RecvList]) => u \in Nodes(k.wait[RecvList])
    BY <1>1, <1>4, <2>2
  <2> QED BY <1>1, <2>1, <2>3, ClosingKept DEF Inv
<1> QED BY <1>4, <1>11, <1>12, <1>13, <1>14 DEF Inv

\* A call fails: nobody counted on it, or there is nothing to count.
LEMMA RecvFailInv ==
  ASSUME Inv, NEW t \in Thread, At(t, "woken"), NEW e \in ErrNo, RecvFail(t, e),
         k.err[t] # RT_EOK \/ mq.entry = 0
  PROVE  Inv'
<1>1. /\ k' = SetErr(k, t, e) /\ Goto(t, "run") /\ time' = [time EXCEPT ![t] = "NO"]
      /\ mq' = mq /\ node' = node /\ msg' = msg /\ got' = got
      /\ life' = life /\ asleep' = asleep
  BY DEF RecvFail, obj
<1>2. /\ "woken" \notin Leaving /\ "woken" \notin Holding /\ "run" \in PC
      /\ "run" \notin Deleter /\ "run" \notin Holding /\ "run" \notin Waits
  BY DEF Leaving, PC, Waits, Deleter, Holding, Filling, Linking
<1>3. /\ RecvList \in WaitList /\ k.wait[SendList] = <<>>
      /\ Sound(k) /\ k \in KernelState /\ IpcOK(PC, Waits, Leaving) /\ Blocking(RecvList, Waits)
  BY QueueLists DEF Inv
<1>4. /\ IpcOK(PC, Waits, Leaving)' /\ Moves(PC, t) /\ Noted(k', k, t, e)
      /\ pc'[t] = "run" /\ pc[t] = "woken" /\ k.stat[t] = "READY"
  BY <1>1, <1>2, <1>3, NoteStep, RunnerReady
<1>5. Blocking(RecvList, Waits)'
  BY <1>3, <1>4, NotedBlocking
<1>6. k'.wait = k.wait
  BY <1>4 DEF Noted
<1>7. \A u \in Thread \ {t} : k'.stat[u] = k.stat[u] /\ k'.err[u] = k.err[u]
  BY <1>3, <1>4 DEF Noted, KernelState
<1>8. Woken(Waits)' = Woken(Waits) \ {t}
  BY <1>2, <1>4, <1>7, OwnWoken
<1>9. Lists'
  BY <1>3, <1>4, <1>5, <1>6 DEF Lists
<1>10. Pool' /\ Holds'
  BY <1>1, <1>2, <1>4, KeepsPool
<1>11. Locals'
  <2>1. pc'[Idle] \notin Waits
    BY <1>2, <1>4, KernelAssumption DEF Inv, Locals, Moves
  <2>2. "NO" \in Time
    BY DEF Time
  <2> QED BY <1>1, <2>1, <2>2 DEF Inv, Locals
<1>12. Counts'
  <2>1. CASE mq.entry = 0
    <3>1. Cardinality(Woken(Waits)') \in Nat
      BY <1>8, OneLess
    <3>2. mq'.entry <= Cardinality(Woken(Waits)')
      BY <1>1, <2>1, <3>1
    <3> QED BY <3>2 DEF Counts
  <2>2. CASE k.err[t] # RT_EOK
    <3>1. Woken(Waits)' = Woken(Waits)
      BY <1>8, <2>2 DEF Woken
    <3> QED BY <1>1, <1>6, <3>1 DEF Inv, Counts
  <2> QED BY <2>1, <2>2
<1>13. Closing'
  <2>1. \A u \in Thread : pc'[u] \in Deleter => pc[u] \in Deleter
    BY <1>2, <1>4 DEF Moves
  <2>2. \A u \in asleep' : /\ u \in Woken(Waits)' => u \in Woken(Waits)
                           /\ u \in Nodes(k'.wait[RecvList]) => u \in Nodes(k.wait[RecvList])
    BY <1>6, <1>8
  <2> QED BY <1>1, <2>1, <2>2, ClosingKept DEF Inv
<1> QED BY <1>9, <1>10, <1>11, <1>12, <1>13 DEF Inv

-----------------------------------------------------------------------------
(* Reset, delete, thread switches and the tick. *)

LEMMA ResetInv ==
  ASSUME Inv, NEW t \in Thread, ResetCall(t) \/ ResetThread(t)
  PROVE  Inv'
<1>0. /\ "run" \notin Waits /\ "reset" \notin Waits /\ "reset" \notin Leaving
      /\ "reset" \in PC \ Waits /\ "reset" \in PC /\ "reset" \notin Deleter
      /\ "run" \notin Holding /\ "reset" \notin Holding
  BY DEF Waits, PC, Deleter, Leaving, Holding, Filling, Linking
<1>1. CASE ResetCall(t)
  <2>1. At(t, "run") /\ k' = k /\ Goto(t, "reset") /\ UNCHANGED <<mq, locals, obj>>
    BY <1>1 DEF ResetCall, Enter
  <2>2. Quiet /\ Moves(PC, t) /\ pc[t] = "run" /\ pc'[t] = "reset"
    BY <1>0, <2>1, StillQuiet
  <2>3. /\ pc'[t] \notin Deleter /\ (pc'[t] \in Waits <=> pc[t] \in Waits)
        /\ pc[t] \notin Holding /\ pc'[t] \notin Holding
    BY <1>0, <2>2
  <2> QED BY <2>1, <2>2, <2>3, QuietInv
<1>2. CASE ResetThread(t)
  <2> DEFINE u == Head(k.wait[RecvList])
  <2>0. k.wait[SendList] = <<>> /\ Lists /\ Sound(k) /\ IpcOK(PC, Waits, Leaving)
        /\ RecvList \in WaitList \ {Defunct}
    BY QueueLists DEF Inv
  <2>1. /\ At(t, "reset") /\ k.wait[RecvList] # <<>>
        /\ k' = rt_ipc_list_resume_error(k, RecvList)
        /\ pc' = pc /\ UNCHANGED <<mq, locals, obj>>
    BY <1>2, <2>0 DEF ResetThread
  <2>3. u \in Thread /\ k.stat[u] = "SUSPEND"
    BY <2>0, <2>1, HeadSuspended
  <2>4. Sound(k') /\ k'.cur = k.cur /\ Roused(k', k, u, RT_ERROR)
    BY <2>0, <2>1, ListResumeErrorRouses
  <2> HIDE DEF u
  <2>5. Goto(t, "reset")
    BY <2>0, <2>1 DEF Goto, At, IpcOK
  <2>6. IpcOK(PC, Waits, Leaving)' /\ Moves(PC, t)
    BY <1>0, <2>0, <2>1, <2>3, <2>4, <2>5, RouseStep
  <2>7. RT_ERROR # RT_EOK
    BY DEF RT_ERROR, RT_EOK
  <2>8. Quiet
    BY <2>0, <2>1, <2>3, <2>4, <2>6, <2>7, FailedQuiet
  <2>9. pc'[t] = pc[t]
    BY <2>1
  <2> QED BY <2>1, <2>6, <2>8, <2>9, QuietInv
<1> QED BY <1>1, <1>2

\* The delete makes progress.
LEMMA StillRest ==
  ASSUME Inv, NEW t \in Thread, NEW l, At(t, l), l \notin Waits, l \notin Holding, k' = k,
         NEW m \in PC \ Waits, m \notin Holding, Goto(t, m), UNCHANGED <<mq, locals>>,
         life' \in {life, "closing", "gone"}, asleep' \subseteq Thread
  PROVE  Lists' /\ Pool' /\ Locals' /\ Holds' /\ Counts'
<1>1. Quiet /\ Moves(PC, t) /\ pc[t] = l /\ pc'[t] = m
  BY StillQuiet
<1>2. mq' = mq /\ node' = node /\ msg' = msg /\ time' = time /\ got' = got
  BY DEF locals
<1>3. Pool' /\ Holds'
  BY <1>1, <1>2, KeepsPool
<1>4. Locals'
  <2>1. pc'[Idle] \notin Waits
    BY <1>1, KernelAssumption DEF Inv, Locals, Moves
  <2> QED BY <1>2, <2>1 DEF Inv, Locals
<1>5. Counts'
  BY <1>1, <1>2 DEF Inv, Counts, Quiet
<1> QED BY <1>1, <1>3, <1>4, <1>5 DEF Quiet

LEMMA DeleteCallInv == ASSUME Inv, NEW t \in Thread, DeleteCall(t) PROVE Inv'
<1>1. /\ At(t, "run") /\ k' = k /\ Goto(t, "closing") /\ UNCHANGED <<mq, locals>>
      /\ life = "live" /\ life' = "closing" /\ asleep' = Nodes(k.wait[RecvList])
  BY DEF DeleteCall, Enter
<1>2. /\ "run" \notin Waits /\ "closing" \in PC \ Waits
      /\ "run" \notin Holding /\ "closing" \notin Holding
  BY DEF Waits, PC, Holding, Filling, Linking
<1>3. \A u \in asleep' : u \in Thread /\ k.stat[u] = "SUSPEND"
  BY <1>1, QueueLists DEF Inv, Lists, Blocking
<1>4. Lists' /\ Pool' /\ Locals' /\ Holds' /\ Counts'
  <2>1. asleep' \subseteq Thread /\ life' \in {life, "closing", "gone"}
    BY <1>1, <1>3
  <2> QED BY <1>1, <1>2, <2>1, StillRest
<1>5. Closing'
  <2>1. \A u \in asleep' : u \notin Woken(Waits)'
    BY <1>1, <1>3 DEF Woken
  <2> QED BY <1>1, <2>1 DEF Closing
<1> QED BY <1>4, <1>5 DEF Inv

LEMMA DeleteCheckInv == ASSUME Inv, NEW t \in Thread, DeleteCheck(t) PROVE Inv'
<1>1. PICK m \in {"closing_do", "run"} :
        /\ At(t, "closing") /\ k' = k /\ Goto(t, m) /\ UNCHANGED <<mq, locals>>
        /\ asleep' = asleep /\ life' \in {life, "gone"}
        /\ life' = life \/ k.wait[Resumed] = <<>>
  BY DEF DeleteCheck
<1>2. /\ "closing" \notin Waits /\ m \in PC \ Waits
      /\ "closing" \notin Holding /\ m \notin Holding /\ "closing" \in Deleter
  BY DEF Waits, PC, Holding, Filling, Linking, Deleter
<1>3. Lists' /\ Pool' /\ Locals' /\ Holds' /\ Counts'
  <2>1. asleep' \subseteq Thread /\ life' \in {life, "closing", "gone"}
    BY <1>1 DEF Inv, Locals
  <2> QED BY <1>1, <1>2, <2>1, StillRest
<1>4. Quiet /\ Moves(PC, t) /\ pc[t] = "closing"
  BY <1>1, <1>2, StillQuiet
<1>5. life # "live" /\ life' # "live"
  BY <1>1, <1>2, <1>4 DEF Inv, Closing
<1>6. Closing'
  <2>1. \A u \in asleep' : u \notin Woken(Waits)'
    BY <1>1, <1>4, <1>5 DEF Inv, Closing, Quiet
  <2>2. life' = "gone" /\ Created => \A u \in asleep' : u \notin Nodes(k'.wait[RecvList])
    <3>1. CASE life' = life
      BY <1>1, <3>1 DEF Inv, Closing
    <3>2. CASE k.wait[Resumed] = <<>>
      <4>1. Created => k'.wait[RecvList] = <<>>
        BY <1>1, <3>2 DEF Resumed
      <4>2. Nodes(<<>>) = {}
        BY DEF Nodes
      <4> QED BY <4>1, <4>2
    <3> QED BY <1>1, <3>1, <3>2
  <2> QED BY <1>5, <2>1, <2>2 DEF Closing
<1> QED BY <1>3, <1>6 DEF Inv

LEMMA DeleteTurnInv == ASSUME Inv, NEW t \in Thread, DeleteTurn(t) PROVE Inv'
<1> DEFINE q == Resumed
<1>1. ResumeAllTurn(t, q, "closing_do", "closing") /\ UNCHANGED <<mq, locals, obj>>
  BY DEF DeleteTurn
<1>2. /\ IpcOK(PC, Waits, Leaving) /\ q \in WaitList \ {Defunct} /\ Lists
      /\ "closing_do" \notin Leaving /\ "closing" \in PC /\ "crashed" \in PC
  BY QueueLists DEF Inv, Resumed, Leaving, PC
<1> HIDE DEF q
<1>3. /\ IpcOK(PC, Waits, Leaving)' /\ Moves(PC, t) /\ pc[t] = "closing_do"
      /\ \/ /\ Roused(k', k, Head(k.wait[q]), RT_ERROR) /\ pc'[t] = "closing"
            /\ Head(k.wait[q]) \in Thread /\ k.stat[Head(k.wait[q])] = "SUSPEND"
         \/ Calm(k', k) /\ pc'[t] = "crashed"
  BY <1>1, <1>2, ResumeAllStep
<1>4. pc[t] \notin Waits /\ pc'[t] \notin Waits /\ pc[t] \notin Holding /\ pc'[t] \notin Holding
  BY <1>3 DEF Waits, Holding, Filling, Linking
<1>5. Quiet
  <2>0. pc[t] \in Waits <=> pc'[t] \in Waits
    BY <1>4
  <2>1. CASE Calm(k', k)
    BY <1>2, <1>3, <2>0, <2>1, CalmQuiet
  <2>2. CASE /\ Roused(k', k, Head(k.wait[q]), RT_ERROR)
             /\ Head(k.wait[q]) \in Thread /\ k.stat[Head(k.wait[q])] = "SUSPEND"
    <3>1. RT_ERROR # RT_EOK
      BY DEF RT_ERROR, RT_EOK
    <3> QED BY <1>2, <1>3, <2>0, <2>2, <3>1, FailedQuiet
  <2> QED BY <1>3, <2>1, <2>2
<1>6. pc[t] \in Deleter
  BY <1>3 DEF Deleter
<1> QED BY <1>1, <1>3, <1>4, <1>5, <1>6, QuietInv

LEMMA SwitchInv ==
  ASSUME Inv, NEW t \in Thread, UNCHANGED <<mq, locals, obj>>,
         Schedule(t, "waiting", "woken") \/ Schedule(t, "sched", "run")
  PROVE  Inv'
<1>0. Lists /\ IpcOK(PC, Waits, Leaving)
  BY QueueLists DEF Inv
<1>1. /\ IpcOK(PC, Waits, Leaving)' /\ Moves(PC, t) /\ Calm(k', k)
      /\ \/ pc[t] = "waiting" /\ pc'[t] = "woken"
         \/ pc[t] = "sched" /\ pc'[t] = "run"
  BY <1>0, ScheduleStep DEF PC, Waits, Leaving
<1>2. /\ pc[t] \in Waits <=> pc'[t] \in Waits
      /\ pc[t] \notin Holding /\ pc'[t] \notin Holding /\ pc'[t] \notin Deleter
  BY <1>1 DEF Waits, Holding, Filling, Linking, Deleter
<1>3. Quiet
  BY <1>0, <1>1, <1>2, CalmQuiet
<1> QED BY <1>1, <1>2, <1>3, QuietInv

LEMMA TickInv ==
  ASSUME Inv, UNCHANGED <<mq, locals, obj>>, TickSlice \/ \E t \in Thread : TickTimeout(t)
  PROVE  Inv'
<1>0. Lists /\ IpcOK(PC, Waits, Leaving)
  BY QueueLists DEF Inv
<1>1. CASE TickSlice
  <2>1. /\ IpcOK(PC, Waits, Leaving)' /\ k.cur \in Thread /\ Moves(PC, k.cur)
        /\ Calm(k', k) /\ pc' = pc
    BY <1>0, <1>1, SliceStep
  <2>2. Quiet
    BY <1>0, <2>1, CalmQuiet
  <2> QED BY <2>1, <2>2, QuietInv
<1>2. ASSUME NEW t \in Thread, TickTimeout(t) PROVE Inv'
  <2>1. /\ IpcOK(PC, Waits, Leaving)' /\ Moves(PC, t) /\ Roused(k', k, t, RT_ETIMEOUT)
        /\ k.stat[t] = "SUSPEND" /\ pc' = pc
    BY <1>0, <1>2, TimeoutStep
  <2>2. RT_ETIMEOUT # RT_EOK
    BY DEF RT_ETIMEOUT, RT_EOK
  <2>3. Quiet
    BY <1>0, <2>1, <2>2, FailedQuiet
  <2> QED BY <2>1, <2>3, QuietInv
<1> QED BY <1>1, <1>2

LEMMA StutterInv == Inv /\ UNCHANGED vars => Inv'
<1> SUFFICES ASSUME Inv, UNCHANGED vars PROVE Inv'
  OBVIOUS
<1>1. k' = k /\ pc' = pc /\ UNCHANGED <<mq, locals, obj>>
  BY DEF vars
<1>2. Lists /\ pc \in [Thread -> PC] /\ k.cur \in Thread
  BY QueueLists, CurThread DEF Inv, IpcOK
<1>3. Moves(PC, k.cur)
  BY <1>1, <1>2, StayMoves
<1>4. Quiet
  BY <1>1, <1>2 DEF Quiet, Lists, IpcOK, Blocking, Woken
<1> QED BY <1>1, <1>2, <1>3, <1>4, QuietInv

-----------------------------------------------------------------------------
\* rt_mq_init: the free list has every node, the last of the pool first.
LEMMA FreshEnds ==
  \E f \in Seq(Node) : /\ Fields(FreshQueue) /\ Ends(FreshQueue, <<>>, f)
                       /\ Nodes(f) = Node
<1> DEFINE f == [i \in 1 .. MaxMsgs |-> MaxMsgs + 1 - i]
           nx == [n \in Node |-> n - 1]
<1>0. MaxMsgs \in Nat /\ NULL = 0 /\ Node = 1 .. MaxMsgs
  BY NodeFacts DEF NULL, Node
<1>1. f \in Seq(Node) /\ Len(f) = MaxMsgs /\ \A i \in 1 .. MaxMsgs : f[i] = MaxMsgs + 1 - i
  <2>1. \A i \in 1 .. MaxMsgs : MaxMsgs + 1 - i \in Node
    BY <1>0
  <2> QED BY <1>0, <2>1
<1>2. \A n \in Node : nx[n] = n - 1
  OBVIOUS
<1> HIDE DEF f, nx
<1>3. Nodes(f) = Node
  <2>1. \A n \in Node : (MaxMsgs + 1 - n) \in 1 .. MaxMsgs /\ f[MaxMsgs + 1 - n] = n
    BY <1>0, <1>1
  <2>2. \A n \in Node : n \in Nodes(f)
    BY <1>1, <2>1 DEF Nodes
  <2>3. Nodes(f) \subseteq Node
    BY <1>1, EmptyNodes
  <2> QED BY <2>2, <2>3
<1>4. Chain(nx, MaxMsgs, f)
  <2>1. Injective(f)
    BY <1>0, <1>1 DEF Injective
  <2>2. f = <<>> => MaxMsgs = NULL
    BY <1>0, <1>1
  <2>3. f # <<>> => f[1] = MaxMsgs /\ nx[f[Len(f)]] = NULL
    <3>1. f # <<>> => MaxMsgs # 0
      BY <1>1
    <3>2. MaxMsgs # 0 => /\ 1 \in 1 .. MaxMsgs /\ MaxMsgs \in 1 .. MaxMsgs /\ 1 \in Node
                         /\ MaxMsgs + 1 - MaxMsgs = 1 /\ MaxMsgs + 1 - 1 = MaxMsgs
      BY <1>0
    <3>3. MaxMsgs # 0 => f[1] = MaxMsgs /\ f[MaxMsgs] = 1 /\ nx[1] = 1 - 1
      BY <1>1, <1>2, <3>2
    <3> QED BY <1>0, <1>1, <3>1, <3>3
  <2>4. ASSUME NEW i \in 1 .. (Len(f) - 1) PROVE nx[f[i]] = f[i + 1]
    <3>1. /\ i \in 1 .. MaxMsgs /\ i + 1 \in 1 .. MaxMsgs /\ MaxMsgs + 1 - i \in Node
          /\ (MaxMsgs + 1 - i) - 1 = MaxMsgs + 1 - (i + 1)
      BY <1>0, <1>1
    <3>2. f[i] = MaxMsgs + 1 - i /\ f[i + 1] = MaxMsgs + 1 - (i + 1)
      BY <1>1, <3>1
    <3> QED BY <1>2, <3>1, <3>2
  <2> QED BY <1>1, <2>1, <2>2, <2>3, <2>4 DEF Chain
<1>5. /\ FreshQueue.next = nx /\ FreshQueue.free = MaxMsgs /\ FreshQueue.head = NULL
      /\ FreshQueue.tail = NULL /\ FreshQueue.entry = 0
  BY DEF FreshQueue, nx
<1>6. Ends(FreshQueue, <<>>, f)
  <2>1. Nodes(<<>>) = {} /\ Len(<<>>) = 0
    BY DEF Nodes
  <2> QED BY <1>4, <1>5, <2>1, ChainNull DEF Ends
<1>7. Fields(FreshQueue)
  <2>1. MaxMsgs \in Node \cup {NULL} /\ [n \in Node |-> n - 1] \in [Node -> Node \cup {NULL}]
    BY <1>0
  <2> QED BY <2>1 DEF Fields, FreshQueue
<1> QED BY <1>1, <1>3, <1>6, <1>7

LEMMA InitInv == Init => Inv
<1> SUFFICES ASSUME Init PROVE Inv
  OBVIOUS
<1>1. /\ "run" \in PC /\ "run" \notin Waits /\ "run" \notin Deleter /\ "run" \notin Holding
      /\ "run" \notin Filling \cup Linking /\ "run" # "link_tail"
      /\ RecvList \in WaitList /\ SendList \in WaitList /\ IpcInit
  BY MsgQueueAssumption DEF PC, Waits, Deleter, Holding, Filling, Linking, Init
<1>2. /\ IpcOK(PC, Waits, Leaving)
      /\ k.wait[RecvList] = <<>> /\ k.wait[SendList] = <<>> /\ Blocking(RecvList, Waits)
  BY <1>1, IpcStart
<1>3. /\ pc = [t \in Thread |-> "run"] /\ life = "live" /\ asleep = {} /\ mq = FreshQueue
      /\ node = [t \in Thread |-> NULL]
  BY DEF Init, IpcInit
<1>4. Pool
  <2>1. PICK f \in Seq(Node) : /\ Fields(FreshQueue) /\ Ends(FreshQueue, <<>>, f)
                               /\ Nodes(f) = Node
    BY FreshEnds
  <2>2. Owns(node, <<>>, f)
    BY <1>3, <2>1 DEF Owns
  <2>3. <<>> \in Seq(Node)
    OBVIOUS
  <2> QED BY <1>3, <2>1, <2>2, <2>3 DEF Pool
<1>5. Locals
  BY <1>1, <1>3, KernelAssumption DEF Init, Locals, Time
<1>6. Holds
  BY <1>1, <1>3 DEF Holds, Held
<1>7. Counts /\ Closing
  BY <1>1, <1>2, <1>3 DEF Counts, Closing
<1> QED BY <1>2, <1>4, <1>5, <1>6, <1>7 DEF Inv, Lists

LEMMA NextInv == Inv /\ Next => Inv'
<1> SUFFICES ASSUME Inv, Next PROVE Inv'
  OBVIOUS
<1>0. Times \subseteq Time /\ Idle \notin Receivers /\ IsrMsg \subseteq Msg
  BY MsgQueueAssumption
<1>1. ASSUME NEW t \in Thread, Step(t) PROVE Inv'
  <2>1. ASSUME NEW m \in Msg, NEW at, SendAlloc(t, m, at) PROVE Inv'
    BY <2>1, SendAllocInv
  <2>2. CASE SendFull(t) \/ RecvTry(t)
    BY <2>2, StutterInv DEF SendFull, RecvTry
  <2>3. CASE RecvCall(t)
    <3>1. t \in Receivers /\ life = "live" /\ t # Idle
      BY <1>0, <2>3 DEF RecvCall, Enter
    <3>2. ASSUME NEW tm \in Times, RecvWait(t, "run", tm) PROVE Inv'
      BY <1>0, <3>1, <3>2, RecvWaitInv
    <3>3. CASE RecvTake(t, "run")
      BY <3>3, RecvTakeInv
    <3> QED BY <2>3, <3>2, <3>3 DEF RecvCall
  <2>4. CASE RecvWoken(t)
    <3>1. /\ At(t, "woken") /\ pc[t] = "woken" /\ t # Idle /\ time[t] \in Time
          /\ k.err[t] \in ErrNo /\ RT_ETIMEOUT \in ErrNo
      BY <2>4, QueueLists DEF RecvWoken, At, Inv, Locals, Waits, KernelState, ErrNo
    <3>2. CASE k.err[t] # RT_EOK /\ RecvFail(t, k.err[t])
      BY <3>1, <3>2, RecvFailInv
    <3>3. CASE k.err[t] = RT_EOK /\ RecvTake(t, "woken")
      BY <3>3, RecvTakeInv
    <3>4. CASE k.err[t] = RT_EOK /\ RecvWait(t, "woken", time[t])
      BY <3>1, <3>4, RecvWaitInv
    <3>5. CASE k.err[t] = RT_EOK /\ mq.entry = 0 /\ RecvFail(t, RT_ETIMEOUT)
      BY <3>1, <3>5, RecvFailInv
    <3> QED BY <2>4, <3>2, <3>3, <3>4, <3>5 DEF RecvWoken
  <2>5. CASE SendFill(t) \/ SendLink(t) \/ RecvCopy(t) \/ RecvFree(t) \/ ResetEnd(t)
    BY <2>5, SendFillInv, SendLinkInv, RecvCopyInv, RecvFreeInv, ResetEndInv
  <2>6. CASE DeleteCheck(t) \/ DeleteTurn(t) \/ DeleteCall(t)
    BY <2>6, DeleteCheckInv, DeleteTurnInv, DeleteCallInv
  <2> QED BY <1>1, <2>1, <2>2, <2>3, <2>4, <2>5, <2>6, ResetInv, SwitchInv DEF Step, InCall
<1>2. ASSUME NEW m \in IsrMsg, IsrSend(m) PROVE Inv'
  BY <1>0, <1>2, IsrSendInv
<1> QED BY <1>1, <1>2, TickInv DEF Next

\* The inductive invariant.
THEOREM Invariance == Spec => []Inv
<1>1. Init => Inv
  BY InitInv
<1>2. Inv /\ [Next]_vars => Inv'
  BY NextInv, StutterInv
<1> QED BY <1>1, <1>2, PTL DEF Spec

\* rt_mq_send, rt_mq_urgent, rt_mq_recv, rt_mq_control: whoever is between the two
\* sections of a call, no node of the pool is lost, shared or on both lists.
THEOREM NodesCorrect == Spec => []NodesKept
<1>1. Inv => NodesKept
  <2> SUFFICES ASSUME Inv PROVE NodesKept
    OBVIOUS
  <2>1. PICK q \in Seq(Node), f \in Seq(Node) : Ends(mq, q, f) /\ Owns(node, q, f)
    BY DEF Inv, Pool
  <2>2. /\ Chain(mq.next, mq.head, q) /\ Chain(mq.next, mq.free, f) /\ Len(q) \in Nat
        /\ Nodes(q) \subseteq Node /\ Nodes(f) \subseteq Node
        /\ Nodes(q) \cap Nodes(f) = {} /\ mq.entry = Len(q)
        /\ mq.tail = IF q = <<>> THEN NULL ELSE q[Len(q)]
    BY <2>1, EndsFacts
  <2>3. q \in Chains /\ IsChain(mq.head, q) /\ Len(q) <= MaxMsgs
    <3>1. Injective(q)
      BY <2>2 DEF Chain
    <3> QED BY <2>2, <3>1, ChainPath, ChainLength
  <2>4. f \in Chains /\ IsChain(mq.free, f)
    <3>1. Injective(f)
      BY <2>2 DEF Chain
    <3>2. f \in Chains
      BY <3>1, ChainLength
    <3> QED BY <2>2, <3>2 DEF Chain, IsChain
  <2>5. node \in [Thread -> Node \cup {NULL}]
    BY DEF Inv, Locals
  <2>6. (Nodes(q) \cup Nodes(f)) \cap Private = {}
    BY <2>1, <2>5 DEF Owns, Private
  <2>7. Nodes(q) \cup Nodes(f) \cup Private = Node
    <3>1. Private \subseteq Node
      BY <2>5 DEF Private
    <3>2. \A x \in Node : x \in Nodes(q) \cup Nodes(f) \cup Private
      BY <2>1, NodeFacts DEF Owns, Private
    <3> QED BY <2>2, <3>1, <3>2
  <2>8. \A t, u \in Thread : t # u /\ node[t] # NULL => node[t] # node[u]
    BY <2>1 DEF Owns
  <2>9. TypeOK
    <3>1. mq.entry \in 0 .. MaxMsgs
      BY <2>2, <2>3, NodeFacts
    <3>2. mq \in [head : Node \cup {NULL}, tail : Node \cup {NULL}, free : Node \cup {NULL},
                  entry : 0 .. MaxMsgs, next : [Node -> Node \cup {NULL}],
                  data : [Node -> Msg \cup {NoMsg}]]
      BY <3>1 DEF Inv, Pool, Fields
    <3> QED BY <3>2, QueueLists DEF Inv, IpcOK, Locals, TypeOK
  <2> QED BY <2>2, <2>3, <2>4, <2>6, <2>7, <2>8, <2>9 DEF NodesKept
<1> QED BY <1>1, Invariance, PTL

\* rt_mq_send, rt_mq_recv: a receiver sleeps only if every queued message has a
\* receiver that was woken for it.
THEOREM WakeupCorrect == Spec => []NoLostWakeup
<1>1. Inv => NoLostWakeup
  BY DEF Inv, Counts, NoLostWakeup, Waits
<1> QED BY <1>1, Invariance, PTL

\* rt_mq_delete: whoever waited and was not served is awake at the end.  Without
\* Created it is rt_mq_detach, which leaves the receivers on the list.
THEOREM DeleteCorrect == ASSUME Created PROVE Spec => []DeleteWakesAll
<1>1. Inv => DeleteWakesAll
  BY DEF Inv, Closing, DeleteWakesAll
<1> QED BY <1>1, Invariance, PTL

-----------------------------------------------------------------------------
(* The message queue implements the bounded queue of module Channel. *)

\* The messages in the nodes q of a queue.
Msgs(c, q) == [i \in 1 .. Len(q) |-> c.data[q[i]]]

Contents == Msgs(mq, Queued)
Hands == [t \in Thread |-> IF pc[t] = "copy" THEN mq.data[node[t]] ELSE got[t]]

LEMMA MsgsAt ==
  ASSUME NEW c, Fields(c), NEW q \in Seq(Node)
  PROVE  /\ Msgs(c, q) \in Seq(Msg \cup {NoMsg}) /\ Len(Msgs(c, q)) = Len(q)
         /\ \A i \in 1 .. Len(q) : Msgs(c, q)[i] = c.data[q[i]]
<1>1. Len(q) \in Nat /\ \A i \in 1 .. Len(q) : q[i] \in Node
  OBVIOUS
<1>2. \A i \in 1 .. Len(q) : c.data[q[i]] \in Msg \cup {NoMsg}
  BY <1>1 DEF Fields
<1> QED BY <1>1, <1>2 DEF Msgs

\* What happens elsewhere in the pool does not matter.
LEMMA MsgsSame ==
  ASSUME NEW q \in Seq(Node), NEW c, NEW d, \A y \in Nodes(q) : d.data[y] = c.data[y]
  PROVE  Msgs(d, q) = Msgs(c, q)
<1>1. Len(q) \in Nat /\ \A i \in 1 .. Len(q) : q[i] \in Nodes(q)
  BY DEF Nodes
<1> QED BY <1>1 DEF Msgs

LEMMA MsgsAppend ==
  ASSUME NEW c, Fields(c), NEW q \in Seq(Node), NEW x \in Node
  PROVE  Msgs(c, Append(q, x)) = Append(Msgs(c, q), c.data[x])
<1> DEFINE s == Msgs(c, q)
           r == Append(q, x)
<1>1. /\ s \in Seq(Msg \cup {NoMsg}) /\ Len(s) = Len(q)
      /\ \A i \in 1 .. Len(q) : s[i] = c.data[q[i]]
  BY MsgsAt
<1>2. /\ Len(q) \in Nat /\ Len(r) = Len(q) + 1
      /\ \A i \in 1 .. (Len(q) + 1) : r[i] = IF i = Len(q) + 1 THEN x ELSE q[i]
  OBVIOUS
<1>3. Msgs(c, r) = [i \in 1 .. (Len(q) + 1) |-> c.data[r[i]]]
  BY <1>2 DEF Msgs
<1> HIDE DEF s, r
<1>4. Append(s, c.data[x]) = [i \in 1 .. (Len(q) + 1) |->
                                IF i = Len(q) + 1 THEN c.data[x] ELSE s[i]]
  BY <1>1, <1>2
<1>5. \A i \in 1 .. (Len(q) + 1) : c.data[r[i]] = IF i = Len(q) + 1 THEN c.data[x] ELSE s[i]
  BY <1>1, <1>2
<1> QED BY <1>3, <1>4, <1>5 DEF s, r

LEMMA MsgsPush ==
  ASSUME NEW c, Fields(c), NEW q \in Seq(Node), NEW x \in Node
  PROVE  Msgs(c, <<x>> \o q) = <<c.data[x]>> \o Msgs(c, q)
<1> DEFINE s == Msgs(c, q)
           r == <<x>> \o q
<1>1. /\ s \in Seq(Msg \cup {NoMsg}) /\ Len(s) = Len(q)
      /\ \A i \in 1 .. Len(q) : s[i] = c.data[q[i]]
  BY MsgsAt
<1>2. /\ Len(q) \in Nat /\ Len(r) = Len(q) + 1
      /\ \A i \in 1 .. (Len(q) + 1) : r[i] = IF i = 1 THEN x ELSE q[i - 1]
  OBVIOUS
<1>3. Msgs(c, r) = [i \in 1 .. (Len(q) + 1) |-> c.data[r[i]]]
  BY <1>2 DEF Msgs
<1> HIDE DEF s, r
<1>4. <<c.data[x]>> \o s = [i \in 1 .. (Len(q) + 1) |-> IF i = 1 THEN c.data[x] ELSE s[i - 1]]
  BY <1>1, <1>2
<1>5. ASSUME NEW i \in 1 .. (Len(q) + 1)
      PROVE  c.data[r[i]] = IF i = 1 THEN c.data[x] ELSE s[i - 1]
  <2>1. i # 1 => i - 1 \in 1 .. Len(q)
    BY <1>2
  <2> QED BY <1>1, <1>2, <2>1
<1> QED BY <1>3, <1>4, <1>5 DEF s, r

LEMMA MsgsTail ==
  ASSUME NEW c, Fields(c), NEW q \in Seq(Node), q # <<>>
  PROVE  /\ Msgs(c, q) # <<>> /\ Msgs(c, Tail(q)) = Tail(Msgs(c, q))
         /\ c.data[Head(q)] = Head(Msgs(c, q))
<1> DEFINE s == Msgs(c, q)
           r == Tail(q)
           u == Msgs(c, r)
<1>1. /\ s \in Seq(Msg \cup {NoMsg}) /\ Len(s) = Len(q)
      /\ \A i \in 1 .. Len(q) : s[i] = c.data[q[i]]
  BY MsgsAt
<1>2. /\ Len(q) \in Nat /\ Len(q) # 0 /\ Len(r) = Len(q) - 1 /\ Head(q) = q[1]
      /\ r \in Seq(Node) /\ \A i \in 1 .. (Len(q) - 1) : r[i] = q[i + 1]
  OBVIOUS
<1> HIDE DEF r
<1>3. /\ u \in Seq(Msg \cup {NoMsg}) /\ Len(u) = Len(r)
      /\ \A i \in 1 .. Len(r) : u[i] = c.data[r[i]]
  BY <1>2, MsgsAt
<1> HIDE DEF s, u
<1>4. s # <<>>
  BY <1>1, <1>2
<1>5. /\ Tail(s) \in Seq(Msg \cup {NoMsg}) /\ Len(Tail(s)) = Len(q) - 1 /\ Head(s) = s[1]
      /\ \A i \in 1 .. (Len(q) - 1) : Tail(s)[i] = s[i + 1]
  BY <1>1, <1>4
<1>6. ASSUME NEW i \in 1 .. (Len(q) - 1) PROVE u[i] = Tail(s)[i]
  <2>1. i + 1 \in 1 .. Len(q) /\ i \in 1 .. Len(r)
    BY <1>2
  <2> QED BY <1>1, <1>2, <1>3, <1>5, <2>1
<1>7. u = Tail(s)
  BY <1>2, <1>3, <1>5, <1>6
<1>8. s[1] = c.data[q[1]]
  BY <1>1, <1>2
<1> QED BY <1>2, <1>4, <1>5, <1>7, <1>8 DEF s, r, u

LEMMA QueuedNext ==
  ASSUME NEW q, Chain(mq'.next, mq'.head, q)
  PROVE  Queued' = q
<1>1. q \in Seq(Node) /\ Injective(q)
  BY DEF Chain
<1>2. q \in Chains
  BY <1>1, ChainLength
<1>3. Path(mq'.next, mq'.head, q) /\ IsChain(mq.head, q)'
  BY <1>2 DEF Chain, Path, IsChain
<1>4. Queued' \in Chains /\ IsChain(mq.head, Queued)'
  BY <1>2, <1>3 DEF Queued
<1> HIDE DEF Queued
<1>5. Queued' \in Seq(Node)
  BY <1>4 DEF Chains
<1>6. Path(mq'.next, mq'.head, Queued')
  <2>1. CASE Queued' = <<>>
    BY <1>4, <1>5, <2>1 DEF IsChain, Path
  <2>2. CASE Queued' # <<>>
    BY <1>4, <1>5, <2>2 DEF IsChain, Path
  <2> QED BY <2>1, <2>2
<1> QED BY <1>3, <1>6, PathUnique

\* What a step does to the messages queued and received.
Keeps          == Contents' = Contents /\ Hands' = Hands
Pushes(m)      == Len(Contents) < MaxMsgs /\ Contents' = Append(Contents, m) /\ Hands' = Hands
PushesFront(m) == Len(Contents) < MaxMsgs /\ Contents' = <<m>> \o Contents /\ Hands' = Hands
Pops(t)        == /\ Contents # <<>> /\ Contents' = Tail(Contents)
                  /\ Hands' = [Hands EXCEPT ![t] = Head(Contents)]
Clears         == Contents' = <<>> /\ Hands' = Hands

LEMMA ContentsAre ==
  ASSUME NEW q, NEW f, Ends(mq, q, f)
  PROVE  Contents = Msgs(mq, q) /\ q \in Seq(Node)
<1>1. Chain(mq.next, mq.head, q) /\ q \in Seq(Node)
  BY EndsFacts
<1>2. Queued = q
  BY <1>1, QueuedIs
<1> QED BY <1>1, <1>2 DEF Contents

LEMMA ContentsNext ==
  ASSUME NEW q, NEW f, Ends(mq', q, f)
  PROVE  Contents' = Msgs(mq', q) /\ q \in Seq(Node)
<1>1. Chain(mq'.next, mq'.head, q) /\ q \in Seq(Node)
  BY EndsFacts
<1>2. Queued' = q
  BY <1>1, QueuedNext
<1>3. Contents' = Msgs(mq', Queued')
  BY DEF Contents, Msgs
<1> QED BY <1>1, <1>2, <1>3

\* t neither has a message in hand nor gets one; the messages in other hands stay.
LEMMA HandsSame ==
  ASSUME NEW t \in Thread, Moves(PC, t), pc[t] # "copy", pc'[t] # "copy", got' = got,
         \A u \in Thread : u # t => node'[u] = node[u],
         \A u \in Thread : u # t /\ pc[u] = "copy" => mq'.data[node[u]] = mq.data[node[u]]
  PROVE  Hands' = Hands
<1>1. \A u \in Thread : (IF pc'[u] = "copy" THEN mq'.data[node'[u]] ELSE got'[u])
                          = (IF pc[u] = "copy" THEN mq.data[node[u]] ELSE got[u])
  BY DEF Moves
<1> QED BY <1>1 DEF Hands

\* Whoever copies a message holds a node of its own.
LEMMA CopyNode ==
  ASSUME Inv, NEW q, NEW f, Owns(node, q, f), NEW u \in Thread, pc[u] = "copy"
  PROVE  /\ node[u] \in Node /\ node[u] \notin Nodes(q) /\ node[u] \notin Nodes(f)
         /\ \A t \in Thread : t # u => node[t] # node[u]
<1>1. pc[u] \in Holding
  BY DEF Holding
<1>2. node[u] \in Node /\ node[u] # NULL /\ node[u] \notin Nodes(q) /\ node[u] \notin Nodes(f)
  BY <1>1, OwnNode
<1> QED BY <1>2 DEF Owns

LEMMA PoolMoves ==
  ASSUME Inv, NEW t, NEW l, At(t, l), NEW m \in PC, Goto(t, m)
  PROVE  t \in Thread /\ Moves(PC, t) /\ pc[t] = l /\ pc'[t] = m
<1>1. k.cur \in Thread /\ pc \in [Thread -> PC] /\ t = k.cur /\ pc[t] = l
  BY QueueLists, CurThread DEF Inv, IpcOK, At
<1> QED BY <1>1, GotoMoves

\* rt_mq_send in its first two sections, rt_mq_recv in its last: the queue and
\* what is in the receivers' hands stay.
LEMMA SendAllocKeeps ==
  ASSUME Inv, NEW t \in Thread, NEW m \in Msg, NEW at, SendAlloc(t, m, at)
  PROVE  Keeps
<1>1. PICK l \in {"fill_tail", "fill_head"} :
        /\ At(t, "run") /\ mq.free # NULL /\ mq' = Alloc(mq) /\ Goto(t, l)
        /\ node' = [node EXCEPT ![t] = mq.free] /\ got' = got
  BY DEF SendAlloc, Enter
<1>2. PICK q \in Seq(Node), f \in Seq(Node) : Ends(mq, q, f) /\ Owns(node, q, f)
  BY DEF Inv, Pool
<1>3. Fields(mq) /\ Locals
  BY DEF Inv, Pool
<1>4. Fields(mq') /\ Ends(mq', q, Tail(f)) /\ TakenOff(mq', mq, f, mq.free)
  BY <1>1, <1>2, <1>3, AllocEnds
<1>5. mq'.data = mq.data
  BY <1>4 DEF TakenOff
<1>6. Contents = Msgs(mq, q) /\ Contents' = Msgs(mq', q)
  BY <1>2, <1>4, ContentsAre, ContentsNext
<1>7. Contents' = Contents
  BY <1>5, <1>6, MsgsSame
<1>8. Moves(PC, t) /\ pc[t] # "copy" /\ pc'[t] # "copy"
  <2>1. l \in PC
    BY DEF PC
  <2> QED BY <1>1, <2>1, PoolMoves
<1>9. \A u \in Thread : u # t => node'[u] = node[u]
  BY <1>1, <1>3 DEF Locals
<1>10. Hands' = Hands
  BY <1>1, <1>5, <1>8, <1>9, HandsSame
<1> QED BY <1>7, <1>10 DEF Keeps

LEMMA SendFillKeeps == ASSUME Inv, NEW t \in Thread, SendFill(t) PROVE Keeps
<1>1. PICK l \in Filling, m \in Linking :
        /\ At(t, l) /\ Goto(t, m) /\ node' = node /\ got' = got
        /\ mq' = FillTail(mq, node[t], msg[t]) \/ mq' = FillHead(mq, node[t], msg[t])
  BY DEF SendFill, Filling, Linking, locals
<1>2. PICK q \in Seq(Node), f \in Seq(Node) : Ends(mq, q, f) /\ Owns(node, q, f)
  BY DEF Inv, Pool
<1>3. Fields(mq) /\ Locals /\ Holds
  BY DEF Inv, Pool
<1>4. Moves(PC, t) /\ pc[t] = l /\ pc'[t] = m
  <2>1. m \in PC
    BY DEF PC, Linking
  <2> QED BY <1>1, <2>1, PoolMoves
<1>5. l \in Holding /\ l # "copy" /\ m # "copy"
  BY DEF Holding, Filling, Linking
<1>6. node[t] \in Node /\ node[t] # NULL /\ node[t] \notin Nodes(q) /\ node[t] \notin Nodes(f)
  BY <1>2, <1>4, <1>5, OwnNode
<1>7. msg[t] \in Msg
  BY <1>3, <1>4 DEF Holds, Held
<1>8. Ends(mq', q, f) /\ \A y \in Node : y # node[t] => mq'.data[y] = mq.data[y]
  <2>1. CASE mq' = FillTail(mq, node[t], msg[t])
    <3>1. /\ Fields(mq') /\ Ends(mq', q, f) /\ Beside(mq', mq, q, f, node[t])
          /\ mq'.next[node[t]] = NULL /\ mq'.data[node[t]] = msg[t]
          /\ (\A y \in Node : y # node[t] => mq'.data[y] = mq.data[y])
          /\ mq'.entry = mq.entry /\ mq'.head = mq.head
      BY <1>2, <1>3, <1>6, <1>7, <2>1, FillTailEnds
    <3> QED BY <3>1
  <2>2. CASE mq' = FillHead(mq, node[t], msg[t])
    <3>1. /\ Fields(mq') /\ Ends(mq', q, f) /\ Beside(mq', mq, q, f, node[t])
          /\ mq'.data[node[t]] = msg[t]
          /\ (\A y \in Node : y # node[t] => mq'.data[y] = mq.data[y])
          /\ mq'.entry = mq.entry /\ mq'.head = mq.head
      BY <1>2, <1>3, <1>6, <1>7, <2>2, FillHeadEnds
    <3> QED BY <3>1
  <2> QED BY <1>1, <2>1, <2>2
<1>9. Contents' = Contents
  <2>1. Contents = Msgs(mq, q) /\ Contents' = Msgs(mq', q)
    BY <1>2, <1>8, ContentsAre, ContentsNext
  <2>2. \A y \in Nodes(q) : mq'.data[y] = mq.data[y]
    <3>1. Nodes(q) \subseteq Node
      BY <1>2, EndsFacts
    <3> QED BY <1>6, <1>8, <3>1
  <2> QED BY <2>1, <2>2, MsgsSame
<1>10. Hands' = Hands
  <2>1. ASSUME NEW u \in Thread, u # t, pc[u] = "copy"
        PROVE  mq'.data[node[u]] = mq.data[node[u]]
    <3>1. node[u] \in Node /\ node[t] # node[u]
      BY <1>2, <2>1, CopyNode
    <3> QED BY <1>8, <3>1
  <2>2. \A u \in Thread : u # t => node'[u] = node[u]
    BY <1>1
  <2> QED BY <1>1, <1>4, <1>5, <2>1, <2>2, HandsSame
<1> QED BY <1>9, <1>10 DEF Keeps

LEMMA RecvCopyKeeps == ASSUME Inv, NEW t \in Thread, RecvCopy(t) PROVE Keeps
<1>1. /\ At(t, "copy") /\ Goto(t, "free") /\ mq' = mq /\ node' = node
      /\ got' = [got EXCEPT ![t] = mq.data[node[t]]]
  BY DEF RecvCopy
<1>2. Moves(PC, t) /\ pc[t] = "copy" /\ pc'[t] = "free"
  <2>1. "free" \in PC
    BY DEF PC
  <2> QED BY <1>1, <2>1, PoolMoves
<1>3. got \in [Thread -> Msg \cup {NoMsg}]
  BY DEF Inv, Locals
<1>4. \A u \in Thread : got'[u] = IF u = t THEN mq.data[node[t]] ELSE got[u]
  BY <1>1, <1>3
<1>5. \A u \in Thread : (IF pc'[u] = "copy" THEN mq'.data[node'[u]] ELSE got'[u])
                          = (IF pc[u] = "copy" THEN mq.data[node[u]] ELSE got[u])
  BY <1>1, <1>2, <1>4 DEF Moves
<1>6. Hands' = Hands
  BY <1>5 DEF Hands
<1>7. Contents' = Contents
  BY <1>1 DEF Contents, Msgs, Queued, IsChain
<1> QED BY <1>6, <1>7 DEF Keeps

LEMMA RecvFreeKeeps == ASSUME Inv, NEW t \in Thread, RecvFree(t) PROVE Keeps
<1>1. /\ At(t, "free") /\ Goto(t, "run") /\ mq' = Release(mq, node[t])
      /\ node' = [node EXCEPT ![t] = NULL] /\ got' = got
  BY QueueLists DEF RecvFree, AfterWake, Inv
<1>2. PICK q \in Seq(Node), f \in Seq(Node) : Ends(mq, q, f) /\ Owns(node, q, f)
  BY DEF Inv, Pool
<1>3. Fields(mq) /\ Locals
  BY DEF Inv, Pool
<1>4. Moves(PC, t) /\ pc[t] = "free" /\ pc'[t] = "run"
  <2>1. "run" \in PC
    BY DEF PC
  <2> QED BY <1>1, <2>1, PoolMoves
<1>5. node[t] \in Node /\ node[t] # NULL /\ node[t] \notin Nodes(q) /\ node[t] \notin Nodes(f)
  <2>1. "free" \in Holding
    BY DEF Holding
  <2> QED BY <1>2, <1>4, <2>1, OwnNode
<1>6. Ends(mq', q, <<node[t]>> \o f) /\ mq'.data = mq.data
  BY <1>1, <1>2, <1>3, <1>5, ReleaseEnds
<1>7. Contents' = Contents
  <2>1. Contents = Msgs(mq, q) /\ Contents' = Msgs(mq', q)
    BY <1>2, <1>6, ContentsAre, ContentsNext
  <2> QED BY <1>6, <2>1, MsgsSame
<1>8. \A u \in Thread : u # t => node'[u] = node[u]
  BY <1>1, <1>3 DEF Locals
<1>9. Hands' = Hands
  BY <1>1, <1>4, <1>6, <1>8, HandsSame
<1> QED BY <1>7, <1>9 DEF Keeps

\* The queue with one message more is no longer than the pool.
LEMMA OneMore ==
  ASSUME NEW q \in Seq(Node), NEW r, NEW f, Ends(mq', r, f), Len(r) = Len(q) + 1
  PROVE  Len(q) < MaxMsgs
<1>1. r \in Seq(Node) /\ Injective(r)
  <2>1. Chain(mq'.next, mq'.head, r)
    BY EndsFacts
  <2> QED BY <2>1 DEF Chain
<1>2. Len(r) <= MaxMsgs
  BY <1>1, ChainLength
<1>3. Len(q) \in Nat /\ MaxMsgs \in Nat
  BY NodeFacts
<1> QED BY <1>2, <1>3

LEMMA SendLinkPushes ==
  ASSUME Inv, NEW t \in Thread, SendLink(t)
  PROVE  msg[t] \in Msg /\ (Pushes(msg[t]) \/ PushesFront(msg[t]))
<1>1. PICK l \in Linking :
        /\ At(t, l)
        /\ \/ l = "link_tail" /\ mq' = LinkTail(mq, node[t])
           \/ l = "link_head" /\ mq' = LinkHead(mq, node[t])
  BY DEF SendLink, Linking
<1>2. PICK m \in {"run", "sched"} : Goto(t, m)
  BY DEF SendLink, AfterWake
<1>3. node' = [node EXCEPT ![t] = NULL] /\ got' = got
  BY DEF SendLink
<1>4. PICK q \in Seq(Node), f \in Seq(Node) : Ends(mq, q, f) /\ Owns(node, q, f)
  BY DEF Inv, Pool
<1>5. Fields(mq) /\ Locals /\ Holds
  BY DEF Inv, Pool
<1>6. Moves(PC, t) /\ pc[t] = l /\ pc'[t] = m /\ l # "copy" /\ m # "copy" /\ l \in Holding
  <2>1. m \in PC /\ l # "copy" /\ m # "copy" /\ l \in Holding
    BY DEF PC, Linking, Holding
  <2> QED BY <1>1, <1>2, <2>1, PoolMoves
<1>7. node[t] \in Node /\ node[t] # NULL /\ node[t] \notin Nodes(q) /\ node[t] \notin Nodes(f)
  BY <1>4, <1>6, OwnNode
<1>8. msg[t] \in Msg /\ mq.data[node[t]] = msg[t]
  BY <1>5, <1>6 DEF Holds, Held
<1>9. Contents = Msgs(mq, q) /\ Len(Contents) = Len(q) /\ Len(q) \in Nat
  BY <1>4, <1>5, ContentsAre, MsgsAt
<1>10. ASSUME mq'.data = mq.data PROVE Hands' = Hands
  <2>1. \A u \in Thread : u # t => node'[u] = node[u]
    BY <1>3, <1>5 DEF Locals
  <2> QED BY <1>3, <1>6, <1>10, <2>1, HandsSame
<1>11. CASE l = "link_tail" /\ mq' = LinkTail(mq, node[t])
  <2> DEFINE r == Append(q, node[t])
  <2>1. mq.next[node[t]] = NULL
    BY <1>5, <1>6, <1>11 DEF Holds, Held
  <2>2. /\ Fields(mq') /\ Ends(mq', r, f) /\ r \in Seq(Node)
        /\ Nodes(r) = Nodes(q) \cup {node[t]}
        /\ Beside(mq', mq, q, f, node[t]) /\ mq'.data = mq.data /\ mq'.entry = mq.entry + 1
    BY <1>4, <1>5, <1>7, <1>11, <2>1, LinkTailEnds
  <2>3. Len(r) = Len(q) + 1
    OBVIOUS
  <2>4. Msgs(mq, r) = Append(Msgs(mq, q), mq.data[node[t]])
    BY <1>5, <1>7, MsgsAppend
  <2> HIDE DEF r
  <2>5. Len(q) < MaxMsgs
    BY <2>2, <2>3, OneMore
  <2>6. Contents' = Msgs(mq', r)
    BY <2>2, ContentsNext
  <2>7. Msgs(mq', r) = Msgs(mq, r)
    BY <2>2, MsgsSame
  <2> QED BY <1>8, <1>9, <1>10, <2>2, <2>4, <2>5, <2>6, <2>7 DEF Pushes
<1>12. CASE l = "link_head" /\ mq' = LinkHead(mq, node[t])
  <2> DEFINE r == <<node[t]>> \o q
  <2>1. Fields(mq) /\ Ends(mq, q, f) /\ mq' = LinkHead(mq, node[t])
    BY <1>4, <1>5, <1>12
  <2>2. /\ Fields(mq') /\ Ends(mq', r, f) /\ r \in Seq(Node)
        /\ Nodes(r) = Nodes(q) \cup {node[t]}
        /\ Beside(mq', mq, q, f, node[t]) /\ mq'.data = mq.data /\ mq'.entry = mq.entry + 1
    BY <1>7, <2>1, LinkHeadEnds
  <2>3. Len(r) = Len(q) + 1
    BY <1>7
  <2>4. Msgs(mq, r) = <<mq.data[node[t]]>> \o Msgs(mq, q)
    BY <1>5, <1>7, MsgsPush
  <2> HIDE DEF r
  <2>5. Len(q) < MaxMsgs
    BY <2>2, <2>3, OneMore
  <2>6. Contents' = Msgs(mq', r)
    BY <2>2, ContentsNext
  <2>7. Msgs(mq', r) = Msgs(mq, r)
    BY <2>2, MsgsSame
  <2> QED BY <1>8, <1>9, <1>10, <2>2, <2>4, <2>5, <2>6, <2>7 DEF PushesFront
<1> QED BY <1>1, <1>8, <1>11, <1>12

LEMMA IsrSendPushes == ASSUME Inv, NEW m \in Msg, IsrSend(m) PROVE Pushes(m)
<1> DEFINE x == mq.free
<1>1. /\ x # NULL /\ pc' = pc /\ node' = node /\ got' = got
      /\ mq' = LinkTail(FillTail(Alloc(mq), x, m), x)
  BY DEF IsrSend, locals
<1>2. PICK q \in Seq(Node), f \in Seq(Node) : Ends(mq, q, f) /\ Owns(node, q, f)
  BY DEF Inv, Pool
<1>3. Fields(mq)
  BY DEF Inv, Pool
<1> DEFINE r == Append(q, x)
           g == Tail(f)
<1>4. /\ Fields(mq') /\ Ends(mq', r, g) /\ mq'.entry = mq.entry + 1
      /\ r \in Seq(Node) /\ g \in Seq(Node) /\ Nodes(r) = Nodes(q) \cup {x}
      /\ Nodes(g) = Nodes(f) \ {x} /\ x \in Nodes(f) /\ Beside(mq', mq, q, f, x)
      /\ mq'.data[x] = m /\ \A y \in Node : y # x => mq'.data[y] = mq.data[y]
  BY <1>1, <1>2, <1>3, IsrPool
<1>5. /\ Len(r) = Len(q) + 1 /\ Nodes(q) \cap Nodes(f) = {} /\ Nodes(q) \subseteq Node
      /\ x \in Node
  <2>1. Nodes(q) \cap Nodes(f) = {} /\ Nodes(q) \subseteq Node /\ Nodes(f) \subseteq Node
    BY <1>2, EndsFacts
  <2> QED BY <1>4, <2>1
<1>6. r = Append(q, x)
  OBVIOUS
<1> HIDE DEF r, g, x
<1>7. Contents = Msgs(mq, q) /\ Len(Contents) = Len(q) /\ Contents' = Msgs(mq', r)
  BY <1>2, <1>3, <1>4, ContentsAre, ContentsNext, MsgsAt
<1>8. Msgs(mq', r) = Append(Msgs(mq', q), mq'.data[x])
  BY <1>4, <1>5, <1>6, MsgsAppend
<1>9. Msgs(mq', q) = Msgs(mq, q)
  <2>1. \A y \in Nodes(q) : mq'.data[y] = mq.data[y]
    BY <1>4, <1>5
  <2> QED BY <2>1, MsgsSame
<1>10. Len(q) < MaxMsgs
  BY <1>4, <1>5, OneMore
<1>11. Hands' = Hands
  <2>1. ASSUME NEW u \in Thread, pc[u] = "copy" PROVE mq'.data[node[u]] = mq.data[node[u]]
    <3>1. node[u] \in Node /\ node[u] \notin Nodes(f)
      BY <1>2, <2>1, CopyNode
    <3> QED BY <1>4, <3>1
  <2>2. \A u \in Thread : (IF pc'[u] = "copy" THEN mq'.data[node'[u]] ELSE got'[u])
                            = (IF pc[u] = "copy" THEN mq.data[node[u]] ELSE got[u])
    BY <1>1, <2>1
  <2> QED BY <2>2 DEF Hands
<1> QED BY <1>4, <1>7, <1>8, <1>9, <1>10, <1>11 DEF Pushes

LEMMA RecvTakePops ==
  ASSUME Inv, NEW t \in Thread, NEW l \in {"run", "woken"}, RecvTake(t, l)
  PROVE  Pops(t)
<1>1. /\ At(t, l) /\ mq.entry > 0 /\ node' = [node EXCEPT ![t] = mq.head]
      /\ mq' = PopHead(mq) /\ Goto(t, "copy") /\ got' = got
  BY DEF RecvTake
<1>2. PICK q \in Seq(Node), f \in Seq(Node) : Ends(mq, q, f) /\ Owns(node, q, f)
  BY DEF Inv, Pool
<1>3. Fields(mq) /\ Locals
  BY DEF Inv, Pool
<1>4. Moves(PC, t) /\ pc[t] = l /\ pc'[t] = "copy" /\ l # "copy"
  <2>1. "copy" \in PC /\ l # "copy"
    BY DEF PC
  <2> QED BY <1>1, <2>1, PoolMoves
<1>5. /\ Fields(mq') /\ Ends(mq', Tail(q), f) /\ TakenOff(mq', mq, q, mq.head)
      /\ mq'.entry = mq.entry - 1
  BY <1>1, <1>2, <1>3, PopEnds
<1>6. q # <<>> /\ mq.head = Head(q) /\ mq'.data = mq.data /\ Tail(q) \in Seq(Node)
  BY <1>5 DEF TakenOff
<1>7. /\ Msgs(mq, q) # <<>> /\ Msgs(mq, Tail(q)) = Tail(Msgs(mq, q))
      /\ mq.data[Head(q)] = Head(Msgs(mq, q))
  BY <1>3, <1>6, MsgsTail
<1>8. Contents = Msgs(mq, q) /\ Contents' = Msgs(mq', Tail(q))
  BY <1>2, <1>5, ContentsAre, ContentsNext
<1>9. Msgs(mq', Tail(q)) = Msgs(mq, Tail(q))
  BY <1>6, MsgsSame
<1>10. Hands' = [Hands EXCEPT ![t] = mq.data[Head(q)]]
  <2>1. \A u \in Thread : node'[u] = IF u = t THEN Head(q) ELSE node[u]
    BY <1>1, <1>3, <1>6 DEF Locals
  <2>2. \A u \in Thread : (IF pc'[u] = "copy" THEN mq'.data[node'[u]] ELSE got'[u])
                            = IF u = t THEN mq.data[Head(q)]
                              ELSE IF pc[u] = "copy" THEN mq.data[node[u]] ELSE got[u]
    BY <1>1, <1>4, <1>6, <2>1 DEF Moves
  <2> QED BY <2>2 DEF Hands
<1> QED BY <1>7, <1>8, <1>9, <1>10 DEF Pops

LEMMA ResetEndClears == ASSUME Inv, NEW t \in Thread, ResetEnd(t) PROVE Clears
<1>1. At(t, "reset") /\ mq' = Emptied(mq, Queued) /\ Goto(t, "sched") /\ node' = node /\ got' = got
  BY DEF ResetEnd, locals
<1>2. PICK q \in Seq(Node), f \in Seq(Node) : Ends(mq, q, f) /\ Owns(node, q, f)
  BY DEF Inv, Pool
<1>3. Fields(mq)
  BY DEF Inv, Pool
<1>4. mq' = Emptied(mq, q)
  <2>1. Queued = q
    BY <1>2, EndsFacts, QueuedIs
  <2> QED BY <1>1, <2>1
<1> DEFINE g == Backwards(q, f)
<1>5. Ends(mq', <<>>, g) /\ mq'.data = mq.data
  <2>1. Fields(mq) /\ Ends(mq, q, f)
    BY <1>2, <1>3
  <2> QED BY <1>4, <2>1, EmptiedEnds
<1> HIDE DEF g
<1>6. Contents' = <<>>
  <2>1. Contents' = Msgs(mq', <<>>)
    BY <1>5, ContentsNext
  <2> QED BY <2>1 DEF Msgs
<1>7. Moves(PC, t) /\ pc[t] = "reset" /\ pc'[t] = "sched"
  <2>1. "sched" \in PC
    BY DEF PC
  <2> QED BY <1>1, <2>1, PoolMoves
<1>8. Hands' = Hands
  BY <1>1, <1>5, <1>7, HandsSame
<1> QED BY <1>6, <1>8 DEF Clears

\* Everything else: no message moves.
LEMMA RestKeeps ==
  ASSUME mq' = mq, node' = node, got' = got,
         \A u \in Thread : pc'[u] = "copy" <=> pc[u] = "copy"
  PROVE  Keeps
<1>1. Contents' = Contents
  BY DEF Contents, Msgs, Queued, IsChain
<1>2. \A u \in Thread : (IF pc'[u] = "copy" THEN mq'.data[node'[u]] ELSE got'[u])
                          = (IF pc[u] = "copy" THEN mq.data[node[u]] ELSE got[u])
  OBVIOUS
<1> QED BY <1>1, <1>2 DEF Keeps, Hands

LEMMA GotoKeeps ==
  ASSUME Inv, NEW t, NEW l, At(t, l), l # "copy", NEW m \in PC, m # "copy", Goto(t, m),
         mq' = mq, node' = node, got' = got
  PROVE  Keeps
<1>1. t \in Thread /\ Moves(PC, t) /\ pc[t] = l /\ pc'[t] = m
  BY PoolMoves
<1>2. \A u \in Thread : pc'[u] = "copy" <=> pc[u] = "copy"
  BY <1>1 DEF Moves
<1> QED BY <1>2, RestKeeps

LEMMA InCallKeeps ==
  ASSUME Inv, NEW t \in Thread,
         \/ \E l \in {"run", "woken"}, tm \in Time : RecvWait(t, l, tm)
         \/ At(t, "woken") /\ \E e : RecvFail(t, e)
         \/ ResetCall(t) \/ DeleteCall(t) \/ DeleteCheck(t) \/ DeleteTurn(t)
         \/ (Schedule(t, "waiting", "woken") \/ Schedule(t, "sched", "run"))
            /\ UNCHANGED <<mq, locals, obj>>
  PROVE  Keeps
<1>1. \E l \in PC \ {"copy"}, m \in PC \ {"copy"} :
         At(t, l) /\ Goto(t, m) /\ mq' = mq /\ node' = node /\ got' = got
  <2>0. {"run", "woken", "waiting", "sched", "reset", "closing", "closing_do", "crashed"}
          \subseteq PC \ {"copy"}
    BY DEF PC
  <2>1. CASE \E l \in {"run", "woken"}, tm \in Time : RecvWait(t, l, tm)
    BY <2>0, <2>1 DEF RecvWait
  <2>2. CASE At(t, "woken") /\ \E e : RecvFail(t, e)
    BY <2>0, <2>2 DEF RecvFail
  <2>3. CASE ResetCall(t) \/ DeleteCall(t)
    BY <2>0, <2>3 DEF ResetCall, DeleteCall, Enter, locals
  <2>4. CASE DeleteCheck(t)
    BY <2>0, <2>4 DEF DeleteCheck, locals
  <2>5. CASE DeleteTurn(t)
    BY <2>0, <2>5 DEF DeleteTurn, ResumeAllTurn, locals
  <2>6. CASE /\ Schedule(t, "waiting", "woken") \/ Schedule(t, "sched", "run")
             /\ UNCHANGED <<mq, locals, obj>>
    BY <2>0, <2>6 DEF Schedule, locals
  <2> QED BY <2>1, <2>2, <2>3, <2>4, <2>5, <2>6
<1> QED BY <1>1, GotoKeeps

LEMMA HandlerKeeps ==
  ASSUME mq' = mq, node' = node, got' = got, pc' = pc
  PROVE  Keeps
  BY RestKeeps

LEMMA StepEffect ==
  ASSUME Inv, Next
  PROVE  \/ \E m \in Msg : Pushes(m) \/ PushesFront(m)
         \/ \E t \in Thread : Pops(t)
         \/ Clears \/ Keeps
<1>0. IsrMsg \subseteq Msg /\ Times \subseteq Time
  BY MsgQueueAssumption
<1>1. ASSUME NEW t \in Thread, SendFull(t) \/ RecvTry(t) \/ ResetThread(t) PROVE Keeps
  BY <1>1, HandlerKeeps DEF SendFull, RecvTry, ResetThread, vars, locals
<1>2. ASSUME NEW t \in Thread, RecvCall(t) PROVE Pops(t) \/ Keeps
  <2>1. CASE RecvTake(t, "run")
    BY <2>1, RecvTakePops
  <2>2. ASSUME NEW tm \in Times, RecvWait(t, "run", tm) PROVE Keeps
    BY <1>0, <2>2, InCallKeeps
  <2> QED BY <1>2, <2>1, <2>2 DEF RecvCall
<1>3. ASSUME NEW t \in Thread, RecvWoken(t) PROVE Pops(t) \/ Keeps
  <2>0. At(t, "woken") /\ time[t] \in Time
    BY <1>3 DEF RecvWoken, Inv, Locals
  <2>1. CASE RecvTake(t, "woken")
    BY <2>1, RecvTakePops
  <2>2. CASE RecvWait(t, "woken", time[t])
    BY <2>0, <2>2, InCallKeeps
  <2>3. ASSUME NEW e, RecvFail(t, e) PROVE Keeps
    BY <2>0, <2>3, InCallKeeps
  <2> QED BY <1>3, <2>1, <2>2, <2>3 DEF RecvWoken
<1>4. ASSUME NEW t \in Thread, ResetCall(t) \/ DeleteCall(t) \/ DeleteCheck(t) \/ DeleteTurn(t)
      PROVE  Keeps
  BY <1>4, InCallKeeps
<1>5. ASSUME NEW t \in Thread, Schedule(t, "waiting", "woken") \/ Schedule(t, "sched", "run"),
             UNCHANGED <<mq, locals, obj>>
      PROVE  Keeps
  BY <1>5, InCallKeeps
<1>6. ASSUME UNCHANGED <<mq, locals, obj>>, TickSlice \/ \E t \in Thread : TickTimeout(t)
      PROVE  Keeps
  BY <1>6, HandlerKeeps DEF TickSlice, TickTimeout, locals
<1>7. ASSUME NEW t \in Thread, SendLink(t)
      PROVE  \E m \in Msg : Pushes(m) \/ PushesFront(m)
  BY <1>7, SendLinkPushes
<1>8. ASSUME NEW t \in Thread, SendFill(t) \/ RecvCopy(t) \/ RecvFree(t) PROVE Keeps
  BY <1>8, SendFillKeeps, RecvCopyKeeps, RecvFreeKeeps
<1>9. ASSUME NEW t \in Thread, ResetEnd(t) PROVE Clears
  BY <1>9, ResetEndClears
<1>10. ASSUME NEW t \in Thread, NEW m \in Msg, NEW at, SendAlloc(t, m, at) PROVE Keeps
  BY <1>10, SendAllocKeeps
<1>11. ASSUME NEW m \in IsrMsg, IsrSend(m) PROVE \E n \in Msg : Pushes(n) \/ PushesFront(n)
  BY <1>0, <1>11, IsrSendPushes
<1> HIDE DEF Pushes, PushesFront, Pops, Clears, Keeps
<1>12. ASSUME NEW t \in Thread, InCall(t)
       PROVE  \/ \E m \in Msg : Pushes(m) \/ PushesFront(m)
              \/ Pops(t) \/ Clears \/ Keeps
  BY <1>1, <1>3, <1>4, <1>5, <1>7, <1>8, <1>9, <1>12 DEF InCall
<1>13. ASSUME NEW t \in Thread, Step(t)
       PROVE  \/ \E m \in Msg : Pushes(m) \/ PushesFront(m)
              \/ Pops(t) \/ Clears \/ Keeps
  BY <1>1, <1>2, <1>4, <1>10, <1>12, <1>13 DEF Step
<1> QED BY <1>6, <1>11, <1>13 DEF Next

LEMMA ChannelIs ==
  /\ Contents = [i \in 1 .. Len(Queued) |-> mq.data[Queued[i]]]
  /\ Contents' = [i \in 1 .. Len(Queued) |-> mq.data[Queued[i]]]'
  /\ Hands = [t \in Thread |-> IF pc[t] = "copy" THEN mq.data[node[t]] ELSE got[t]]
  /\ Hands' = [t \in Thread |-> IF pc[t] = "copy" THEN mq.data[node[t]] ELSE got[t]]'
  BY DEF Contents, Msgs, Hands

LEMMA ChannelInit == Init => C!Init
<1> SUFFICES ASSUME Init PROVE C!Init
  OBVIOUS
<1>1. mq = FreshQueue /\ pc = [t \in Thread |-> "run"] /\ got = [t \in Thread |-> NoMsg]
  BY DEF Init, IpcInit
<1>2. Queued = <<>>
  <2>1. PICK f \in Seq(Node) : Ends(FreshQueue, <<>>, f)
    BY FreshEnds
  <2>2. Chain(mq.next, mq.head, <<>>)
    BY <1>1, <2>1 DEF Ends
  <2> QED BY <2>2, QueuedIs
<1> HIDE DEF Queued
<1> QED BY <1>1, <1>2 DEF C!Init

LEMMA ChannelStep == Inv /\ [Next]_vars => [C!Next]_C!vars
<1> SUFFICES ASSUME Inv, [Next]_vars PROVE [C!Next]_C!vars
  OBVIOUS
<1> USE ChannelIs
<1> HIDE DEF Contents, Hands, Queued
<1>1. ASSUME NEW m \in Msg, Pushes(m) PROVE C!Next
  BY <1>1 DEF Pushes, C!Next, C!Push
<1>2. ASSUME NEW m \in Msg, PushesFront(m) PROVE C!Next
  BY <1>2 DEF PushesFront, C!Next, C!PushFront
<1>3. ASSUME NEW t \in Thread, Pops(t) PROVE C!Next
  BY <1>3 DEF Pops, C!Next, C!Pop
<1>4. CASE Clears
  BY <1>4 DEF Clears, C!Next, C!Clear
<1>5. CASE Keeps
  BY <1>5 DEF Keeps, C!vars
<1>6. CASE UNCHANGED vars
  <2>1. mq' = mq /\ node' = node /\ got' = got /\ pc' = pc
    BY <1>6 DEF vars, locals
  <2> QED BY <1>5, <2>1, HandlerKeeps
<1> QED BY <1>1, <1>2, <1>3, <1>4, <1>5, <1>6, StepEffect

\* No message is lost, repeated, reordered or overwritten: the pool with its two
\* linked lists, filled and copied outside the sections, behaves as a bounded queue.
THEOREM Refinement == Spec => IsChannel
<1>1. Init => C!Init
  BY ChannelInit
<1>2. Inv /\ [Next]_vars => [C!Next]_C!vars
  BY ChannelStep
<1> QED BY <1>1, <1>2, Invariance, PTL DEF Spec, IsChannel, C!Spec
=============================================================================
