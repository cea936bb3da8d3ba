--------------------------- MODULE PyGossipProofs ---------------------------
(***************************************************************************)
(* Propagation and synchronization for any number of nodes, any registry   *)
(* and any bounds: chains only gain work, and nothing that the node still  *)
(* has behind it is broadcast twice.                                       *)
(***************************************************************************)
EXTENDS PyGossip, DataLemmas, TLAPS

Blocks == [by : Nodes, work : Works, txs : SUBSET Transactions]
Paths == Seq(Blocks)
Items == [kind : {"block"}, path : Paths] \cup [kind : {"transaction"}, id : Transactions]

-----------------------------------------------------------------------------
(* The work of a path *)

LEMMA BlockWork == \A b \in Blocks : b.work \in Nat /\ b.work > 0
<1>1. \A b \in Blocks : b.work \in Works
  BY DEF Blocks
<1>2. \A w \in Works : w \in Nat /\ w > 0
  BY PyGossipAssumption
<1> QED BY <1>1, <1>2

(* The work before and after each block of a path, from the recursion of   *)
(* chain_work.                                                             *)
Totals(path) ==
    CHOOSE total : total = [i \in 0..Len(path) |-> IF i = 0 THEN 0 ELSE total[i - 1] + path[i].work]

(* chain_work is a sum: its recursion has a solution. *)
LEMMA TotalsEquation ==
    ASSUME NEW p \in Paths
    PROVE  /\ chain_work(p) = Totals(p)[Len(p)]
           /\ Totals(p)[0] = 0
           /\ \A i \in 1..Len(p) : Totals(p)[i] = Totals(p)[i - 1] + p[i].work
<1> DEFINE N == Len(p)
           Rec(f) == f = [i \in 0..N |-> IF i = 0 THEN 0 ELSE f[i - 1] + p[i].work]
           step == [x \in (1..N) \X Nat |-> x[2] + p[x[1]].work]
<1>0. N \in Nat /\ \A i \in 1..N : p[i] \in Blocks /\ p[i].work \in Nat
  BY BlockWork DEF Paths
<1>1. step \in [(1..N) \X Nat -> Nat]
  BY <1>0
<1>2. PICK f \in [0..N -> Nat] : IsRecursion(f, N, 0, step)
  <2> HIDE DEF step, N
  <2> QED BY <1>0, <1>1, RecursionExists
<1>3. ASSUME NEW i \in 0..N, i # 0 PROVE f[i] = f[i - 1] + p[i].work
  <2>1. i \in 1..N /\ f[i - 1] \in Nat
    BY <1>0, <1>3
  <2>2. f[i] = step[<<i, f[i - 1]>>]
    BY <1>2, <1>3 DEF IsRecursion
  <2>3. <<i, f[i - 1]>> \in (1..N) \X Nat
    BY <2>1
  <2> QED BY <2>2, <2>3
<1>4. f[0] = 0 /\ f = [i \in 0..N |-> f[i]]
  BY <1>0, <1>2 DEF IsRecursion
<1>5. Rec(f)
  BY <1>3, <1>4
<1>6. Rec(Totals(p))
  BY <1>5 DEF Totals
<1>7. chain_work(p) = Totals(p)[N]
  BY DEF chain_work, Totals
<1> DEFINE t == Totals(p)
<1>8. Rec(t)
  BY <1>6
<1> HIDE DEF t, N
<1>9. t[0] = 0 /\ \A i \in 1..N : t[i] = t[i - 1] + p[i].work
  BY <1>0, <1>8
<1> QED BY <1>7, <1>9 DEF t, N

(* A chain with one more block has the work of that block more. *)
LEMMA WorkOfAppend ==
    ASSUME NEW p \in Paths, NEW b \in Blocks
    PROVE  chain_work(p) \in Nat /\ chain_work(Append(p, b)) = chain_work(p) + b.work
<1> DEFINE q == Append(p, b)
           N == Len(p)
           S == {n \in Nat : n <= N => Totals(q)[n] = Totals(p)[n] /\ Totals(p)[n] \in Nat}
<1>1. /\ N \in Nat /\ q \in Paths /\ Len(q) = N + 1 /\ q[N + 1] = b
      /\ \A i \in 1..N : q[i] = p[i] /\ p[i] \in Blocks /\ p[i].work \in Nat
  BY BlockWork DEF Paths
<1> HIDE DEF q, N
<1>2. /\ chain_work(p) = Totals(p)[N] /\ Totals(p)[0] = 0
      /\ \A i \in 1..N : Totals(p)[i] = Totals(p)[i - 1] + p[i].work
  BY TotalsEquation DEF N
<1>3. /\ chain_work(q) = Totals(q)[N + 1] /\ Totals(q)[0] = 0
      /\ \A i \in 1..(N + 1) : Totals(q)[i] = Totals(q)[i - 1] + q[i].work
  BY <1>1, TotalsEquation
<1>4. 0 \in S
  BY <1>1, <1>2, <1>3
<1>5. ASSUME NEW n \in S PROVE n + 1 \in S
  <2> SUFFICES ASSUME n + 1 <= N
               PROVE  Totals(q)[n + 1] = Totals(p)[n + 1] /\ Totals(p)[n + 1] \in Nat
    OBVIOUS
  <2>1. n + 1 \in 1..N /\ n + 1 \in 1..(N + 1) /\ (n + 1) - 1 = n /\ n <= N
    BY <1>1
  <2>2. Totals(p)[n + 1] = Totals(p)[n] + p[n + 1].work /\ Totals(q)[n + 1] = Totals(q)[n] + q[n + 1].work
    BY <1>2, <1>3, <2>1
  <2>3. Totals(q)[n] = Totals(p)[n] /\ Totals(p)[n] \in Nat
    BY <2>1
  <2> QED BY <1>1, <2>1, <2>2, <2>3
<1>6. S = Nat
  <2>1. S \in SUBSET Nat
    OBVIOUS
  <2> HIDE DEF S
  <2> QED BY <1>4, <1>5, <2>1, NatSetInduction
<1>7. Totals(q)[N] = Totals(p)[N] /\ Totals(p)[N] \in Nat
  BY <1>1, <1>6
<1>8. Totals(q)[N + 1] = Totals(q)[N] + b.work
  <2>1. N + 1 \in 1..(N + 1) /\ (N + 1) - 1 = N
    BY <1>1
  <2> QED BY <1>1, <1>3, <2>1
<1> QED BY <1>2, <1>3, <1>7, <1>8 DEF q

LEMMA WorkIsNat ==
    ASSUME NEW p \in Paths
    PROVE  chain_work(p) \in Nat
<1>1. CASE Blocks # {}
  BY <1>1, WorkOfAppend
<1>2. CASE Blocks = {}
  <2>1. Len(p) = 0
    BY <1>2 DEF Paths
  <2> QED BY <2>1, TotalsEquation
<1> QED BY <1>1, <1>2

(* A block that extends a chain: the parent is what Front leaves. *)
LEMMA ExtendsByOne ==
    ASSUME NEW p \in Paths, NEW q \in Paths, Len(q) = Len(p) + 1, Front(q) = p
    PROVE  \E b \in Blocks : q = Append(p, b)
<1> DEFINE N == Len(p)
           b == q[N + 1]
<1>1. N \in Nat /\ Len(q) = N + 1
  BY DEF Paths
<1>2. b \in Blocks
  BY <1>1 DEF Paths
<1>3. \A i \in 1..N : q[i] = p[i]
  <2>1. \A i \in 1..N : q[i] \in Blocks
    BY <1>1 DEF Paths
  <2>2. p = SubSeq(q, 1, N) /\ N \in Int
    BY <1>1 DEF Front
  <2>3. \A i \in 1..(N - 1 + 1) : SubSeq(q, 1, N)[i] = q[1 + i - 1]
    <3> HIDE DEF N
    <3> QED BY <2>1, <2>2, SubSeqProperties
  <2>4. ASSUME NEW i \in 1..N PROVE q[i] = p[i]
    <3>1. i \in 1..(N - 1 + 1) /\ 1 + i - 1 = i
      BY <1>1
    <3> QED BY <2>2, <2>3, <3>1
  <2> QED BY <2>4
<1>4. q = Append(p, b)
  <2> DEFINE r == Append(p, b)
  <2>1. r \in Paths /\ Len(r) = N + 1 /\ r[N + 1] = b /\ \A i \in 1..N : r[i] = p[i]
    BY <1>2 DEF Paths
  <2>2. \A i \in 1..(N + 1) : r[i] = q[i]
    BY <1>1, <1>3, <2>1
  <2> HIDE DEF r
  <2> QED BY <1>1, <2>1, <2>2, SeqEqual DEF Paths
<1> QED BY <1>2, <1>4

(* accepts(n, item) of a block: it has more work than the tip. *)
LEMMA ExtensionIsHeavier ==
    ASSUME NEW p \in Paths, NEW q \in Paths, Len(q) = Len(p) + 1, Front(q) = p
    PROVE  chain_work(q) > chain_work(p)
<1>1. PICK b \in Blocks : q = Append(p, b)
  BY ExtendsByOne
<1> QED BY <1>1, WorkOfAppend, BlockWork

-----------------------------------------------------------------------------
(* The inductive invariant *)

CacheOK(cache) ==
    /\ cache \in [Kinds -> Seq(Items)]
    /\ \A kind \in Kinds : IsInjective(cache[kind]) /\ Len(cache[kind]) <= SEEN_CACHE_SIZE

(* What the variables hold, one part for each, with what TypeOK says of it. *)
TipOK == tip \in [Nodes -> Paths]
PoolOK == mempool \in [Nodes -> SUBSET Transactions]
SeenOK == seen \in [Nodes -> [Kinds -> Seq(Items)]] /\ \A n \in Nodes : CacheOK(seen[n])
BackoffOK == backoff \in [Nodes -> SUBSET Nodes] /\ \A n \in Nodes : backoff[n] \subseteq peers[n]
TasksOK ==
    /\ tasks \in [Nodes -> SUBSET [item : Items, todo : SUBSET Nodes]]
    /\ \A n \in Nodes : \A task \in tasks[n] : task.todo # {} /\ task.todo \subseteq peers[n]
HandlingOK ==
    /\ handling \in [Nodes -> SUBSET [item : Items, from : Nodes, marked : BOOLEAN]]
    /\ \A n \in Nodes : \A request \in handling[n] : n \in Trusted[request.from]
FetchedOK == fetched \in [Nodes -> SUBSET [path : Paths, from : Nodes]]
CountersOK ==
    /\ created \in [Nodes -> Nat] /\ \A n \in Nodes : created[n] \in 0..MaxItems[n]
    /\ restarts \in 0..MaxRestarts

(* Every block that a node has broadcast is behind it: it has at most the  *)
(* work of the tip, although a reorganization may have dropped it.  The    *)
(* transactions that relayed still holds are in the mempool.               *)
RelayedIsBehind ==
    \A n \in Nodes : \A item \in relayed[n] :
        IF is_block(item) THEN chain_work(item.path) <= chain_work(tip[n])
                          ELSE item.id \in mempool[n]

GhostsOK ==
    /\ relayed \in [Nodes -> SUBSET Items] /\ repeated \in [Nodes -> SUBSET Items]
    /\ RelayedIsBehind /\ RelayedOnce

Memory == PoolOK /\ SeenOK /\ BackoffOK /\ TasksOK /\ HandlingOK /\ FetchedOK
Inv == TipOK /\ Memory /\ CountersOK /\ GhostsOK

LEMMA ItemCases ==
    /\ \A item \in Items : item.kind \in Kinds
    /\ \A item \in Items : is_block(item) => item.path \in Paths
    /\ \A item \in Items : ~is_block(item) => item.id \in Transactions
    /\ \A p \in Paths : block(p) \in Items /\ is_block(block(p)) /\ block(p).path = p
    /\ \A tx \in Transactions : transaction(tx) \in Items /\ ~is_block(transaction(tx)) /\ transaction(tx).id = tx
BY DEF Items, Kinds, is_block, block, transaction

-----------------------------------------------------------------------------
(* The seen cache *)

(* BoundedSet.add keeps the cache free of repetitions and within its size. *)
LEMMA AddSeenKeeps ==
    ASSUME NEW cache, CacheOK(cache), NEW item \in Items
    PROVE  CacheOK(add_seen(cache, item))
<1> DEFINE k == item.kind
           s == cache[k]
           rest == RemoveFirst(s, item)
           kept == IF Len(rest) < SEEN_CACHE_SIZE THEN rest ELSE Tail(rest)
           new == Append(kept, item)
<1>1. k \in Kinds /\ s \in Seq(Items) /\ IsInjective(s) /\ Len(s) <= SEEN_CACHE_SIZE
  BY ItemCases DEF CacheOK
<1>2. SEEN_CACHE_SIZE \in Nat /\ SEEN_CACHE_SIZE > 0
  BY PyGossipAssumption
<1> HIDE DEF k, s
<1>3. /\ rest \in Seq(Items) /\ IsInjective(rest) /\ \A i \in 1..Len(rest) : rest[i] # item
      /\ Len(rest) = IF \E i \in 1..Len(s) : s[i] = item THEN Len(s) - 1 ELSE Len(s)
  BY <1>1, RemoveFirstOfInjective
<1> HIDE DEF rest
<1>4. Len(rest) \in Nat /\ Len(s) \in Nat /\ Len(rest) <= Len(s)
  BY <1>1, <1>3
<1>5. /\ kept \in Seq(Items) /\ IsInjective(kept) /\ Len(kept) < SEEN_CACHE_SIZE
      /\ \A i \in 1..Len(kept) : kept[i] # item
  <2>1. CASE Len(rest) < SEEN_CACHE_SIZE
    BY <1>3, <2>1
  <2>2. CASE ~(Len(rest) < SEEN_CACHE_SIZE)
    <3>1. rest # <<>> /\ kept = Tail(rest)
      BY <1>2, <1>4, <2>2
    <3>2. /\ kept \in Seq(Items) /\ IsInjective(kept) /\ Len(kept) = Len(rest) - 1
          /\ \A i \in 1..Len(kept) : kept[i] = rest[i + 1]
      BY <1>3, <3>1, TailOfInjective
    <3> HIDE DEF kept
    <3>3. Len(kept) < SEEN_CACHE_SIZE
      BY <1>1, <1>2, <1>4, <3>2
    <3>4. \A i \in 1..Len(kept) : i + 1 \in 1..Len(rest)
      BY <1>4, <3>2
    <3> QED BY <1>3, <3>2, <3>3, <3>4
  <2> QED BY <2>1, <2>2
<1> HIDE DEF kept
<1>6. new \in Seq(Items) /\ IsInjective(new) /\ Len(new) = Len(kept) + 1
  BY <1>5, AppendToInjective
<1>7. Len(new) <= SEEN_CACHE_SIZE
  <2>1. Len(kept) \in Nat
    BY <1>5
  <2> QED BY <1>2, <1>5, <1>6, <2>1
<1>8. add_seen(cache, item) = [cache EXCEPT ![k] = new]
  BY DEF add_seen, k, s, rest, kept
<1> HIDE DEF new
<1> QED BY <1>1, <1>6, <1>7, <1>8 DEF CacheOK

LEMMA SeenStep ==
    ASSUME SeenOK, NEW n \in Nodes, NEW item \in Items,
           seen' = [seen EXCEPT ![n] = add_seen(@, item)]
    PROVE  SeenOK'
<1> DEFINE new == add_seen(seen[n], item)
<1>1. CacheOK(new)
  BY AddSeenKeeps DEF SeenOK
<1>2. new \in [Kinds -> Seq(Items)]
  BY <1>1 DEF CacheOK
<1>3. seen' = [seen EXCEPT ![n] = new]
  OBVIOUS
<1> HIDE DEF new
<1> QED BY <1>1, <1>2, <1>3 DEF SeenOK

-----------------------------------------------------------------------------
(* What the parts of an action keep *)

LEMMA MarkSeenStep ==
    ASSUME BackoffOK, NEW n \in Nodes, NEW m, mark_seen(n, m)
    PROVE  BackoffOK'
BY DEF BackoffOK, mark_seen

LEMMA MarkFailureStep ==
    ASSUME BackoffOK, NEW n \in Nodes, NEW m \in peers[n], mark_failure(n, m)
    PROVE  BackoffOK'
<1>1. backoff' = [backoff EXCEPT ![n] = @ \cup {m}]
  BY DEF mark_failure
<1>2. m \in Nodes
  BY PyGossipAssumption
<1> QED BY <1>1, <1>2 DEF BackoffOK

LEMMA NextPeerStep ==
    ASSUME TasksOK, NEW n \in Nodes, NEW task \in tasks[n], NEW m \in task.todo, next_peer(n, task, m)
    PROVE  TasksOK'
<1> DEFINE left == [task EXCEPT !.todo = @ \ {m}]
           more == IF task.todo = {m} THEN {} ELSE {left}
<1>1. task \in [item : Items, todo : SUBSET Nodes] /\ task.todo \subseteq peers[n]
  BY DEF TasksOK
<1>2. left \in [item : Items, todo : SUBSET Nodes] /\ left.todo = task.todo \ {m}
  BY <1>1
<1>3. tasks' = [tasks EXCEPT ![n] = (@ \ {task}) \cup more]
  BY DEF next_peer
<1> HIDE DEF left
<1>4. \A t \in more : t \in [item : Items, todo : SUBSET Nodes] /\ t.todo # {} /\ t.todo \subseteq peers[n]
  BY <1>1, <1>2
<1> HIDE DEF more
<1> QED BY <1>3, <1>4 DEF TasksOK

LEMMA ReceiveStep ==
    ASSUME SeenOK, HandlingOK, NEW n \in Nodes, NEW from \in Nodes, n \in Trusted[from],
           NEW item \in Items, receive(n, item, from)
    PROVE  SeenOK' /\ HandlingOK'
<1> DEFINE new == [item |-> item, from |-> from, marked |-> FALSE]
<1>1. new \in [item : Items, from : Nodes, marked : BOOLEAN] /\ new.from = from
  OBVIOUS
<1>2. seen' = seen \/ seen' = [seen EXCEPT ![n] = add_seen(@, item)]
  BY DEF receive
<1>3. handling' = handling \/ handling' = [handling EXCEPT ![n] = @ \cup {new}]
  BY DEF receive
<1>4. SeenOK'
  <2>1. CASE seen' = seen
    BY <2>1 DEF SeenOK
  <2> QED BY <1>2, <2>1, SeenStep
<1> HIDE DEF new
<1>5. HandlingOK'
  BY <1>1, <1>3 DEF HandlingOK
<1> QED BY <1>4, <1>5

LEMMA DropRequestStep ==
    ASSUME HandlingOK, NEW n \in Nodes, NEW request, handling' = [handling EXCEPT ![n] = @ \ {request}]
    PROVE  HandlingOK'
BY DEF HandlingOK

LEMMA CreatedStep ==
    ASSUME CountersOK, NEW n \in Nodes, created[n] < MaxItems[n],
           created' = [created EXCEPT ![n] = @ + 1], restarts' = restarts
    PROVE  CountersOK'
<1>1. created \in [Nodes -> Nat] /\ MaxItems \in [Nodes -> Nat] /\ restarts' \in 0..MaxRestarts
  BY PyGossipAssumption DEF CountersOK
<1>2. created[n] \in Nat /\ MaxItems[n] \in Nat
  BY <1>1
<1>3. created[n] + 1 \in 0..MaxItems[n]
  BY <1>2
<1>4. created' \in [Nodes -> Nat]
  BY <1>1, <1>2
<1>5. \A m \in Nodes : created'[m] = IF m = n THEN created[n] + 1 ELSE created[m]
  BY <1>1
<1>6. \A m \in Nodes : created'[m] \in 0..MaxItems[m]
  BY <1>3, <1>5 DEF CountersOK
<1> QED BY <1>1, <1>4, <1>6 DEF CountersOK

(* A broadcast of an item that is new to the node, and that the step makes *)
(* one of the things behind it.                                            *)
LEMMA BroadcastStep ==
    ASSUME SeenOK, TasksOK, GhostsOK, NEW n \in Nodes, NEW item \in Items, NEW exclude,
           broadcast(n, item, exclude), item \notin relayed[n],
           IF is_block(item) THEN chain_work(item.path) <= chain_work(tip'[n]) ELSE item.id \in mempool'[n],
           \A m \in Nodes : chain_work(tip[m]) \in Int /\ chain_work(tip'[m]) \in Int,
           \A m \in Nodes : chain_work(tip'[m]) >= chain_work(tip[m]) /\ (m # n => mempool[m] = mempool'[m])
    PROVE  SeenOK' /\ TasksOK' /\ GhostsOK'
<1>1. SeenOK'
  BY SeenStep DEF broadcast
<1>2. TasksOK'
  <2> DEFINE new == [item |-> item, todo |-> peers[n] \ exclude]
  <2>1. peers[n] \subseteq Nodes
    BY PyGossipAssumption
  <2>2. new \in [item : Items, todo : SUBSET Nodes] /\ new.todo = peers[n] \ exclude
    BY <2>1
  <2>3. tasks' = tasks \/ (new.todo # {} /\ tasks' = [tasks EXCEPT ![n] = @ \cup {new}])
    BY <2>2 DEF broadcast, TasksOK
  <2> HIDE DEF new
  <2>4. CASE tasks' = tasks
    BY <2>4 DEF TasksOK
  <2>5. CASE new.todo # {} /\ tasks' = [tasks EXCEPT ![n] = @ \cup {new}]
    BY <2>2, <2>5 DEF TasksOK
  <2> QED BY <2>3, <2>4, <2>5
<1>3. GhostsOK'
  <2>1. relayed' = [relayed EXCEPT ![n] = behind(n) \cup {item}] /\ repeated' = repeated
    BY DEF broadcast, GhostsOK
  <2>a. behind(n) \subseteq relayed[n] /\ \A i \in behind(n) : is_block(i) \/ i.id \in mempool'[n]
    BY DEF behind
  <2> HIDE DEF behind
  <2>2. relayed' \in [Nodes -> SUBSET Items] /\ repeated' \in [Nodes -> SUBSET Items]
    BY <2>1, <2>a DEF GhostsOK
  <2>3. RelayedIsBehind'
    <3> SUFFICES ASSUME NEW m \in Nodes, NEW i \in relayed'[m]
                 PROVE  IF is_block(i) THEN chain_work(i.path) <= chain_work(tip'[m]) ELSE i.id \in mempool'[m]
      BY DEF RelayedIsBehind, is_block, chain_work
    <3>1. CASE i \in relayed[m]
      <4>1. IF is_block(i) THEN chain_work(i.path) <= chain_work(tip[m]) ELSE i.id \in mempool[m]
        BY <3>1 DEF GhostsOK, RelayedIsBehind
      <4>2. is_block(i) => chain_work(i.path) \in Int
        <5>1. i \in Items
          BY <2>2
        <5> QED BY <5>1, ItemCases, WorkIsNat
      <4>3. m = n => i = item \/ i \in behind(n)
        BY <2>1 DEF GhostsOK
      <4> QED BY <2>a, <4>1, <4>2, <4>3
    <3>2. CASE i \notin relayed[m]
      BY <2>1, <2>a, <3>2 DEF GhostsOK
    <3> QED BY <3>1, <3>2
  <2>4. RelayedOnce'
    BY <2>1 DEF GhostsOK, RelayedOnce
  <2> QED BY <2>2, <2>3, <2>4 DEF GhostsOK
<1> QED BY <1>1, <1>2, <1>3

(* Without a broadcast, what was relayed stays behind the node as long as  *)
(* its chain does not get lighter and its mempool does not shrink.         *)
LEMMA QuietGhostStep ==
    ASSUME GhostsOK, TipOK, TipOK', UNCHANGED <<relayed, repeated>>,
           \A m \in Nodes : chain_work(tip'[m]) >= chain_work(tip[m]) /\ mempool[m] \subseteq mempool'[m]
    PROVE  GhostsOK'
<1>1. RelayedIsBehind'
  <2> SUFFICES ASSUME NEW m \in Nodes, NEW i \in relayed[m]
               PROVE  IF is_block(i) THEN chain_work(i.path) <= chain_work(tip'[m]) ELSE i.id \in mempool'[m]
    BY DEF RelayedIsBehind, is_block, chain_work
  <2>1. IF is_block(i) THEN chain_work(i.path) <= chain_work(tip[m]) ELSE i.id \in mempool[m]
    BY DEF GhostsOK, RelayedIsBehind
  <2>2. is_block(i) => chain_work(i.path) \in Nat
    <3>1. i \in Items
      BY DEF GhostsOK
    <3> QED BY <3>1, ItemCases, WorkIsNat
  <2>3. chain_work(tip[m]) \in Nat /\ chain_work(tip'[m]) \in Nat
    BY WorkIsNat DEF TipOK
  <2> QED BY <2>1, <2>2, <2>3
<1> QED BY <1>1 DEF GhostsOK, RelayedOnce

(* The mempool of n loses transactions: they are no longer behind it. *)
LEMMA SettleStep ==
    ASSUME GhostsOK, TipOK, TipOK', NEW n \in Nodes,
           relayed' = [relayed EXCEPT ![n] = behind(n)], UNCHANGED repeated,
           \A m \in Nodes : chain_work(tip'[m]) >= chain_work(tip[m]) /\ (m # n => mempool[m] = mempool'[m])
    PROVE  GhostsOK'
<1>1. behind(n) \subseteq relayed[n] /\ \A i \in behind(n) : is_block(i) \/ i.id \in mempool'[n]
  BY DEF behind
<1> HIDE DEF behind
<1>2. relayed' \in [Nodes -> SUBSET Items] /\ repeated' \in [Nodes -> SUBSET Items] /\ RelayedOnce'
  BY <1>1 DEF GhostsOK, RelayedOnce
<1>3. RelayedIsBehind'
  <2> SUFFICES ASSUME NEW m \in Nodes, NEW i \in relayed'[m]
               PROVE  IF is_block(i) THEN chain_work(i.path) <= chain_work(tip'[m]) ELSE i.id \in mempool'[m]
    BY DEF RelayedIsBehind, is_block, chain_work
  <2>1. i \in relayed[m] /\ (m = n => i \in behind(n))
    BY <1>1 DEF GhostsOK
  <2>2. IF is_block(i) THEN chain_work(i.path) <= chain_work(tip[m]) ELSE i.id \in mempool[m]
    BY <2>1 DEF GhostsOK, RelayedIsBehind
  <2>3. is_block(i) => chain_work(i.path) \in Nat
    <3>1. i \in Items
      BY <1>2
    <3> QED BY <3>1, ItemCases, WorkIsNat
  <2>4. chain_work(tip[m]) \in Nat /\ chain_work(tip'[m]) \in Nat
    BY WorkIsNat DEF TipOK
  <2> QED BY <1>1, <2>1, <2>2, <2>3, <2>4
<1> QED BY <1>2, <1>3 DEF GhostsOK

LEMMA TipWork ==
    ASSUME TipOK
    PROVE  \A n \in Nodes : chain_work(tip[n]) \in Nat
BY WorkIsNat DEF TipOK

LEMMA QuietStep ==
    ASSUME TipOK, GhostsOK, UNCHANGED <<tip, mempool, relayed, repeated>>
    PROVE  TipOK' /\ GhostsOK' /\ \A n \in Nodes : chain_work(tip'[n]) >= chain_work(tip[n])
<1>1. TipOK'
  BY DEF TipOK
<1>2. \A n \in Nodes : chain_work(tip'[n]) >= chain_work(tip[n])
  BY TipWork
<1> QED BY <1>1, <1>2, QuietGhostStep

-----------------------------------------------------------------------------
(* The steps *)

Heavier == \A n \in Nodes : chain_work(tip'[n]) >= chain_work(tip[n])

LEMMA MineStep ==
    ASSUME Inv, NEW n \in Nodes, NEW work \in Works, mine(n, work)
    PROVE  Inv' /\ Heavier
<1> DEFINE b == [by |-> n, work |-> work, txs |-> mempool[n]]
           p == Append(tip[n], b)
<1>1. b \in Blocks /\ b.work = work /\ tip[n] \in Paths
  BY DEF Blocks, Inv, Memory, PoolOK, TipOK
<1>2. p \in Paths /\ chain_work(p) = chain_work(tip[n]) + work /\ chain_work(tip[n]) \in Nat
  <2>1. p \in Paths
    BY <1>1 DEF Paths
  <2> HIDE DEF b
  <2> QED BY <1>1, <2>1, WorkOfAppend
<1>3. tip' = [tip EXCEPT ![n] = p]
  BY DEF mine
<1>4. work \in Nat /\ work > 0
  BY PyGossipAssumption
<1> HIDE DEF b, p
<1>5. TipOK' /\ tip'[n] = p
  BY <1>2, <1>3 DEF Inv, TipOK
<1>6. \A m \in Nodes : chain_work(tip[m]) \in Nat /\ chain_work(tip'[m]) \in Nat
  BY <1>5, WorkIsNat DEF Inv, TipOK
<1>7. Heavier
  <2>1. \A m \in Nodes : m # n => tip'[m] = tip[m]
    BY <1>3 DEF Inv, TipOK
  <2> QED BY <1>2, <1>4, <1>5, <1>6, <2>1 DEF Heavier
<1>8. block(p) \in Items /\ is_block(block(p)) /\ block(p).path = p
  BY <1>2, ItemCases
<1>9. block(p) \notin relayed[n]
  <2>1. ASSUME block(p) \in relayed[n] PROVE FALSE
    <3>1. chain_work(p) <= chain_work(tip[n])
      BY <1>8, <2>1 DEF Inv, GhostsOK, RelayedIsBehind
    <3> QED BY <1>2, <1>4, <3>1
  <2> QED BY <2>1
<1>10. /\ broadcast(n, block(p), {}) /\ mempool' = [mempool EXCEPT ![n] = {}]
       /\ UNCHANGED <<backoff, handling, fetched, restarts>>
  BY <1>5 DEF mine
<1>a. PoolOK' /\ \A m \in Nodes : m # n => mempool[m] = mempool'[m]
  BY <1>10 DEF Inv, Memory, PoolOK
<1>11. SeenOK' /\ TasksOK' /\ GhostsOK'
  BY <1>5, <1>6, <1>7, <1>8, <1>9, <1>10, <1>a, BroadcastStep DEF Inv, Memory, Heavier
<1>12. CountersOK'
  BY CreatedStep DEF mine, Inv
<1>13. BackoffOK' /\ HandlingOK' /\ FetchedOK'
  BY <1>10 DEF Inv, Memory, BackoffOK, HandlingOK, FetchedOK
<1> QED BY <1>5, <1>7, <1>a, <1>11, <1>12, <1>13 DEF Inv, Memory

LEMMA SubmitStep ==
    ASSUME Inv, NEW n \in Nodes, NEW tx \in Transactions, submit(n, tx)
    PROVE  Inv' /\ Heavier
<1>1. TipOK' /\ Heavier
  BY TipWork DEF submit, Inv, TipOK, Heavier
<1>2. transaction(tx) \in Items /\ ~is_block(transaction(tx)) /\ transaction(tx).id = tx
  BY ItemCases
<1>3. transaction(tx) \notin relayed[n]
  BY <1>2 DEF submit, Inv, GhostsOK, RelayedIsBehind
<1>4. PoolOK' /\ tx \in mempool'[n] /\ \A m \in Nodes : m # n => mempool[m] = mempool'[m]
  BY DEF submit, Inv, Memory, PoolOK
<1>5. broadcast(n, transaction(tx), {}) /\ UNCHANGED <<tip, backoff, handling, fetched, restarts>>
  BY DEF submit
<1>6. \A m \in Nodes : chain_work(tip[m]) \in Nat /\ chain_work(tip'[m]) \in Nat
  BY <1>1, WorkIsNat DEF Inv, TipOK
<1>7. SeenOK' /\ TasksOK' /\ GhostsOK'
  BY <1>1, <1>2, <1>3, <1>4, <1>5, <1>6, BroadcastStep DEF Inv, Memory, Heavier
<1>8. CountersOK'
  BY CreatedStep DEF submit, Inv
<1>9. BackoffOK' /\ HandlingOK' /\ FetchedOK'
  BY <1>5 DEF Inv, Memory, BackoffOK, HandlingOK, FetchedOK
<1> QED BY <1>1, <1>4, <1>7, <1>8, <1>9 DEF Inv, Memory

LEMMA SendStep ==
    ASSUME Inv, NEW n \in Nodes, NEW task \in tasks[n], NEW m \in task.todo,
           skip_peer(n, task, m) \/ send_answered(n, task, m) \/ send_failed(n, task, m)
    PROVE  Inv' /\ Heavier
<1>1. UNCHANGED <<tip, mempool, fetched, created, restarts, relayed, repeated>> /\ next_peer(n, task, m)
  BY DEF skip_peer, send_answered, send_failed, ghosts
<1>2. TipOK' /\ GhostsOK' /\ Heavier
  BY <1>1, QuietStep DEF Inv, Heavier
<1>3. TasksOK'
  BY <1>1, NextPeerStep DEF Inv, Memory
<1>4. PoolOK' /\ FetchedOK' /\ CountersOK'
  BY <1>1 DEF Inv, Memory, PoolOK, FetchedOK, CountersOK
<1>5. m \in Nodes /\ m \in peers[n] /\ task.item \in Items
  BY DEF Inv, Memory, TasksOK
<1>6. BackoffOK'
  <2>1. UNCHANGED backoff \/ mark_seen(n, m) \/ mark_failure(n, m)
    BY DEF skip_peer, send_answered, send_failed
  <2>2. CASE UNCHANGED backoff
    BY <2>2 DEF Inv, Memory, BackoffOK
  <2> QED BY <1>5, <2>1, <2>2, MarkSeenStep, MarkFailureStep DEF Inv, Memory
<1>7. SeenOK' /\ HandlingOK'
  <2>1. UNCHANGED <<seen, handling>> \/ (receive(m, task.item, n) /\ m \in Trusted[n])
    BY DEF skip_peer, send_answered, send_failed, calls
  <2>2. CASE UNCHANGED <<seen, handling>>
    BY <2>2 DEF Inv, Memory, SeenOK, HandlingOK
  <2> QED BY <1>5, <2>1, <2>2, ReceiveStep DEF Inv, Memory
<1> QED BY <1>2, <1>3, <1>4, <1>6, <1>7 DEF Inv, Memory

LEMMA MarkBlockStep ==
    ASSUME Inv, NEW n \in Nodes, NEW request \in handling[n], mark_block(n, request)
    PROVE  Inv' /\ Heavier
<1>1. UNCHANGED <<tip, mempool, backoff, tasks, fetched, created, restarts, relayed, repeated>>
  BY DEF mark_block, ghosts
<1>2. TipOK' /\ GhostsOK' /\ Heavier
  BY <1>1, QuietStep DEF Inv, Heavier
<1>3. PoolOK' /\ BackoffOK' /\ TasksOK' /\ FetchedOK' /\ CountersOK'
  BY <1>1 DEF Inv, Memory, PoolOK, BackoffOK, TasksOK, FetchedOK, CountersOK
<1>4. /\ request \in [item : Items, from : Nodes, marked : BOOLEAN]
      /\ n \in Trusted[request.from]
  BY DEF Inv, Memory, HandlingOK
<1>5. SeenOK'
  BY <1>4, SeenStep DEF mark_block, Inv, Memory
<1>6. HandlingOK'
  <2> DEFINE new == [request EXCEPT !.marked = TRUE]
  <2>1. new \in [item : Items, from : Nodes, marked : BOOLEAN] /\ new.from = request.from
    BY <1>4
  <2>2. handling' = [handling EXCEPT ![n] = (@ \ {request}) \cup {new}]
    BY DEF mark_block
  <2> HIDE DEF new
  <2> QED BY <1>4, <2>1, <2>2 DEF Inv, Memory, HandlingOK
<1> QED BY <1>2, <1>3, <1>5, <1>6 DEF Inv, Memory

LEMMA AcceptBlockStep ==
    ASSUME Inv, NEW n \in Nodes, NEW request \in handling[n], accept_block(n, request)
    PROVE  Inv' /\ Heavier
<1> DEFINE item == request.item
           p == item.path
<1>1. item \in Items /\ is_block(item) /\ p \in Paths /\ tip[n] \in Paths
  <2>1. item \in Items
    BY DEF Inv, Memory, HandlingOK
  <2> QED BY <2>1, ItemCases DEF accept_block, Inv, TipOK
<1>2. chain_work(p) > chain_work(tip[n]) /\ chain_work(p) \in Nat /\ chain_work(tip[n]) \in Nat
  <2>1. Len(p) = Len(tip[n]) + 1 /\ Front(p) = tip[n]
    BY <1>1 DEF accept_block, accepted, accepts
  <2> HIDE DEF p
  <2> QED BY <1>1, <2>1, ExtensionIsHeavier, WorkIsNat
<1>3. /\ tip' = [tip EXCEPT ![n] = p] /\ broadcast(n, item, {request.from}) /\ mark_seen(n, request.from)
      /\ handling' = [handling EXCEPT ![n] = @ \ {request}]
      /\ mempool' = [mempool EXCEPT ![n] = @ \ Last(p).txs]
      /\ UNCHANGED <<fetched, created, restarts>>
  BY DEF accept_block, accepted
<1>4. item \notin relayed[n]
  <2>1. ASSUME item \in relayed[n] PROVE FALSE
    <3>1. chain_work(p) <= chain_work(tip[n])
      BY <1>1, <2>1 DEF Inv, GhostsOK, RelayedIsBehind
    <3> QED BY <1>2, <3>1
  <2> QED BY <2>1
<1>5. TipOK' /\ tip'[n] = p
  BY <1>1, <1>3 DEF Inv, TipOK
<1>6. \A m \in Nodes : chain_work(tip[m]) \in Nat /\ chain_work(tip'[m]) \in Nat
  BY <1>5, WorkIsNat DEF Inv, TipOK
<1>7. Heavier
  <2>1. \A m \in Nodes : m # n => tip'[m] = tip[m]
    BY <1>3 DEF Inv, TipOK
  <2> QED BY <1>2, <1>5, <1>6, <2>1 DEF Heavier
<1>8. SeenOK' /\ TasksOK' /\ GhostsOK'
  <2>1. chain_work(item.path) <= chain_work(tip'[n])
    BY <1>5, <1>6
  <2>2. \A m \in Nodes : chain_work(tip'[m]) >= chain_work(tip[m]) /\ (m # n => mempool[m] = mempool'[m])
    BY <1>3, <1>7 DEF Heavier, Inv, Memory, PoolOK
  <2> HIDE DEF item, p
  <2> QED BY <1>1, <1>3, <1>4, <1>6, <2>1, <2>2, BroadcastStep DEF Inv, Memory
<1>9. HandlingOK' /\ BackoffOK'
  BY <1>3, DropRequestStep, MarkSeenStep DEF Inv, Memory
<1>10. PoolOK' /\ FetchedOK' /\ CountersOK'
  BY <1>3 DEF Inv, Memory, PoolOK, FetchedOK, CountersOK
<1> QED BY <1>5, <1>7, <1>8, <1>9, <1>10 DEF Inv, Memory

LEMMA AcceptTransactionStep ==
    ASSUME Inv, NEW n \in Nodes, NEW request \in handling[n], accept_transaction(n, request)
    PROVE  Inv' /\ Heavier
<1> DEFINE item == request.item
<1>1. item \in Items /\ ~is_block(item) /\ item.id \in Transactions
  <2>1. item \in Items
    BY DEF Inv, Memory, HandlingOK
  <2> QED BY <2>1, ItemCases DEF accept_transaction
<1>2. /\ mempool' = [mempool EXCEPT ![n] = @ \cup {item.id}] /\ item.id \notin mempool[n]
      /\ broadcast(n, item, {request.from}) /\ mark_seen(n, request.from)
      /\ handling' = [handling EXCEPT ![n] = @ \ {request}]
      /\ UNCHANGED <<tip, fetched, created, restarts>>
  BY <1>1 DEF accept_transaction, accepted, accepts
<1>3. item \notin relayed[n]
  BY <1>1, <1>2 DEF Inv, GhostsOK, RelayedIsBehind
<1> HIDE DEF item
<1>4. TipOK' /\ Heavier
  BY <1>2, TipWork DEF Inv, TipOK, Heavier
<1>5. PoolOK' /\ item.id \in mempool'[n] /\ \A m \in Nodes : m # n => mempool[m] = mempool'[m]
  BY <1>1, <1>2 DEF Inv, Memory, PoolOK
<1>6. \A m \in Nodes : chain_work(tip[m]) \in Nat /\ chain_work(tip'[m]) \in Nat
  BY <1>4, WorkIsNat DEF Inv, TipOK
<1>7. SeenOK' /\ TasksOK' /\ GhostsOK'
  BY <1>1, <1>2, <1>3, <1>4, <1>5, <1>6, BroadcastStep DEF Inv, Memory, Heavier
<1>8. HandlingOK' /\ BackoffOK'
  BY <1>2, DropRequestStep, MarkSeenStep DEF Inv, Memory
<1>9. FetchedOK' /\ CountersOK'
  BY <1>2 DEF Inv, Memory, FetchedOK, CountersOK
<1> QED BY <1>4, <1>5, <1>7, <1>8, <1>9 DEF Inv, Memory

LEMMA RejectStep ==
    ASSUME Inv, NEW n \in Nodes, NEW request \in handling[n], reject(n, request)
    PROVE  Inv' /\ Heavier
<1>1. UNCHANGED <<tip, mempool, backoff, tasks, fetched, created, restarts, relayed, repeated>>
  BY DEF reject, ghosts
<1>2. TipOK' /\ GhostsOK' /\ Heavier
  BY <1>1, QuietStep DEF Inv, Heavier
<1>3. PoolOK' /\ BackoffOK' /\ TasksOK' /\ FetchedOK' /\ CountersOK'
  BY <1>1 DEF Inv, Memory, PoolOK, BackoffOK, TasksOK, FetchedOK, CountersOK
<1>4. SeenOK'
  <2>1. request.item \in Items
    BY DEF Inv, Memory, HandlingOK
  <2>2. seen' = seen \/ seen' = [seen EXCEPT ![n] = add_seen(@, request.item)]
    BY DEF reject
  <2>3. CASE seen' = seen
    BY <2>3 DEF Inv, Memory, SeenOK
  <2> QED BY <2>1, <2>2, <2>3, SeenStep DEF Inv, Memory
<1>5. HandlingOK'
  BY DropRequestStep DEF reject, Inv, Memory
<1> QED BY <1>2, <1>3, <1>4, <1>5 DEF Inv, Memory

LEMMA SyncStep ==
    ASSUME Inv, NEW n \in Nodes, NEW f \in fetched[n], sync_with_peer(n, f)
    PROVE  Inv' /\ Heavier
<1>1. f \in [path : Paths, from : Nodes]
  BY DEF Inv, Memory, FetchedOK
<1>2. /\ relayed' = [relayed EXCEPT ![n] = behind(n)]
      /\ UNCHANGED <<seen, tasks, handling, created, restarts, repeated>>
  BY DEF sync_with_peer
<1>a. PoolOK' /\ \A m \in Nodes : m # n => mempool[m] = mempool'[m]
  <2>1. mempool' = mempool \/ \E out : mempool' = [mempool EXCEPT ![n] = @ \ out]
    BY DEF sync_with_peer
  <2> QED BY <2>1 DEF Inv, Memory, PoolOK
<1>3. SeenOK' /\ TasksOK' /\ HandlingOK' /\ CountersOK'
  BY <1>2 DEF Inv, Memory, SeenOK, TasksOK, HandlingOK, CountersOK
<1>4. FetchedOK'
  BY DEF sync_with_peer, Inv, Memory, FetchedOK
<1>5. TipOK' /\ Heavier /\ BackoffOK'
  <2>1. CASE tip' = [tip EXCEPT ![n] = f.path] /\ mark_seen(n, f.from) /\ chain_work(f.path) > chain_work(tip[n])
    <3>1. TipOK' /\ \A m \in Nodes : tip'[m] = IF m = n THEN f.path ELSE tip[m]
      BY <1>1, <2>1 DEF Inv, TipOK
    <3>2. \A m \in Nodes : chain_work(tip[m]) \in Nat /\ chain_work(tip'[m]) \in Nat
      BY <3>1, WorkIsNat DEF Inv, TipOK
    <3>3. Heavier
      BY <2>1, <3>1, <3>2 DEF Heavier
    <3> QED BY <2>1, <3>1, <3>3, MarkSeenStep DEF Inv, Memory
  <2>2. CASE UNCHANGED <<tip, backoff>>
    BY <2>2, TipWork DEF Inv, Memory, TipOK, BackoffOK, Heavier
  <2> QED BY <2>1, <2>2 DEF sync_with_peer, has_more_work
<1>6. GhostsOK'
  BY <1>2, <1>5, <1>a, SettleStep DEF Inv, Heavier
<1> QED BY <1>a, <1>3, <1>4, <1>5, <1>6 DEF Inv, Memory

LEMMA PeerStep ==
    ASSUME Inv, NEW n \in Nodes, NEW m \in peers[n],
           expire_backoff(n, m) \/ call_failed(n, m) \/ get_chain(n, m)
    PROVE  Inv' /\ Heavier
<1>1. UNCHANGED <<tip, mempool, seen, tasks, handling, created, restarts, relayed, repeated>>
  BY DEF expire_backoff, call_failed, get_chain, ghosts
<1>2. TipOK' /\ GhostsOK' /\ Heavier
  BY <1>1, QuietStep DEF Inv, Heavier
<1>3. PoolOK' /\ SeenOK' /\ TasksOK' /\ HandlingOK' /\ CountersOK'
  BY <1>1 DEF Inv, Memory, PoolOK, SeenOK, TasksOK, HandlingOK, CountersOK
<1>4. BackoffOK'
  <2>1. UNCHANGED backoff \/ mark_seen(n, m) \/ mark_failure(n, m)
    BY DEF expire_backoff, call_failed, get_chain, mark_seen
  <2>2. CASE UNCHANGED backoff
    BY <2>2 DEF Inv, Memory, BackoffOK
  <2> QED BY <2>1, <2>2, MarkSeenStep, MarkFailureStep DEF Inv, Memory
<1>5. FetchedOK'
  <2> DEFINE new == [path |-> tip[m], from |-> m]
  <2>1. new \in [path : Paths, from : Nodes]
    BY PyGossipAssumption DEF Inv, TipOK
  <2>2. UNCHANGED fetched \/ fetched' = [fetched EXCEPT ![n] = @ \cup {new}]
    BY DEF expire_backoff, call_failed, get_chain
  <2> HIDE DEF new
  <2> QED BY <2>1, <2>2 DEF Inv, Memory, FetchedOK
<1> QED BY <1>2, <1>3, <1>4, <1>5 DEF Inv, Memory

LEMMA EmptyCacheOK == CacheOK(empty_cache)
BY PyGossipAssumption DEF CacheOK, empty_cache, Kinds, IsInjective

LEMMA RestartStep ==
    ASSUME Inv, NEW n \in Nodes, Restart(n)
    PROVE  Inv' /\ Heavier
<1>1. TipOK' /\ Heavier
  BY TipWork DEF Restart, Inv, TipOK, Heavier
<1>2. SeenOK'
  <2>1. empty_cache \in [Kinds -> Seq(Items)]
    BY EmptyCacheOK DEF CacheOK
  <2> QED BY <2>1, EmptyCacheOK DEF Restart, Inv, Memory, SeenOK
<1>3. PoolOK' /\ BackoffOK' /\ TasksOK' /\ HandlingOK' /\ FetchedOK'
  BY DEF Restart, Inv, Memory, PoolOK, BackoffOK, TasksOK, HandlingOK, FetchedOK
<1>4. CountersOK'
  BY PyGossipAssumption DEF Restart, Inv, CountersOK
<1>5. GhostsOK'
  <2>1. \A m \in Nodes : m # n => mempool[m] = mempool'[m]
    BY DEF Restart, Inv, Memory, PoolOK
  <2> QED BY <1>1, <2>1, SettleStep DEF Restart, Inv, Heavier
<1> QED BY <1>1, <1>2, <1>3, <1>4, <1>5 DEF Inv, Memory

-----------------------------------------------------------------------------
(* The theorems *)

LEMMA InvInit == Init => Inv
<1> SUFFICES ASSUME Init PROVE Inv
  OBVIOUS
<1>1. TipOK /\ PoolOK /\ BackoffOK /\ TasksOK /\ HandlingOK /\ FetchedOK
  BY DEF Init, TipOK, PoolOK, BackoffOK, TasksOK, HandlingOK, FetchedOK, Paths
<1>2. SeenOK
  <2>1. empty_cache \in [Kinds -> Seq(Items)]
    BY EmptyCacheOK DEF CacheOK
  <2> QED BY <2>1, EmptyCacheOK DEF Init, SeenOK
<1>3. CountersOK
  BY PyGossipAssumption DEF Init, CountersOK
<1>4. GhostsOK
  BY DEF Init, GhostsOK, RelayedIsBehind, RelayedOnce
<1> QED BY <1>1, <1>2, <1>3, <1>4 DEF Inv, Memory

LEMMA InvNext == Inv /\ [Next]_vars => Inv' /\ Heavier
<1> SUFFICES ASSUME Inv, [Next]_vars PROVE Inv' /\ Heavier
  OBVIOUS
<1>1. ASSUME NEW n \in Nodes, NEW w \in Works, mine(n, w) PROVE Inv' /\ Heavier
  BY <1>1, MineStep
<1>2. ASSUME NEW n \in Nodes, NEW tx \in Transactions, submit(n, tx) PROVE Inv' /\ Heavier
  BY <1>2, SubmitStep
<1>3. ASSUME NEW n \in Nodes, NEW task \in tasks[n], NEW m \in task.todo,
             skip_peer(n, task, m) \/ send_answered(n, task, m) \/ send_failed(n, task, m)
      PROVE  Inv' /\ Heavier
  BY <1>3, SendStep
<1>4. ASSUME NEW n \in Nodes, NEW request \in handling[n],
             \/ mark_block(n, request) \/ accept_block(n, request)
             \/ accept_transaction(n, request) \/ reject(n, request)
      PROVE  Inv' /\ Heavier
  BY <1>4, MarkBlockStep, AcceptBlockStep, AcceptTransactionStep, RejectStep
<1>5. ASSUME NEW n \in Nodes, NEW f \in fetched[n], sync_with_peer(n, f) PROVE Inv' /\ Heavier
  BY <1>5, SyncStep
<1>6. ASSUME NEW n \in Nodes, NEW m \in peers[n],
             expire_backoff(n, m) \/ call_failed(n, m) \/ get_chain(n, m)
      PROVE  Inv' /\ Heavier
  BY <1>6, PeerStep
<1>7. ASSUME NEW n \in Nodes, Restart(n) PROVE Inv' /\ Heavier
  BY <1>7, RestartStep
<1>8. CASE UNCHANGED vars
  <2>1. TipOK' /\ GhostsOK' /\ Heavier
    BY <1>8, QuietStep DEF vars, memory, ghosts, Inv, Heavier
  <2>2. PoolOK' /\ SeenOK' /\ BackoffOK' /\ TasksOK' /\ HandlingOK' /\ FetchedOK' /\ CountersOK'
    BY <1>8 DEF vars, memory, Inv, Memory, PoolOK, SeenOK, BackoffOK, TasksOK, HandlingOK, FetchedOK, CountersOK
  <2> QED BY <2>1, <2>2 DEF Inv, Memory
<1> QED BY <1>1, <1>2, <1>3, <1>4, <1>5, <1>6, <1>7, <1>8 DEF Next

LEMMA GossipInvariant == Spec => []Inv
<1>1. Inv /\ [Next]_vars => Inv'
  BY InvNext
<1> QED BY <1>1, InvInit, PTL DEF Spec

(* The registries, caches and requests of every node stay well formed, and *)
(* the seen caches within their size, whatever calls are lost, repeated    *)
(* or late.                                                                *)
THEOREM GossipTypeCorrect == Spec => []TypeOK
<1>1. Inv => TypeOK
  BY DEF Inv, Memory, PoolOK, SeenOK, CacheOK, BackoffOK, TasksOK, HandlingOK, CountersOK, TypeOK
<1> QED BY <1>1, GossipInvariant, PTL

(* No node broadcasts a block twice, nor a transaction that has not left   *)
(* its mempool in between: what a node has relayed has no more work than   *)
(* its tip, or is in its mempool, and receive_block, receive_transaction   *)
(* and submit_transaction accept neither (propagation.py, blockchain.py).  *)
THEOREM NothingRelayedTwice == Spec => []RelayedOnce
<1>1. Inv => RelayedOnce
  BY DEF Inv, GhostsOK
<1> QED BY <1>1, GossipInvariant, PTL

(* No step of any node makes its chain lighter (sync.py compares the work  *)
(* under the lock; a relayed block extends the tip).                       *)
THEOREM ChainsOnlyGainWork == Spec => WorkNeverLost
<1>1. Inv /\ [Next]_vars => [\A n \in Nodes : chain_work(tip'[n]) >= chain_work(tip[n])]_vars
  BY InvNext DEF Heavier
<1> QED BY <1>1, GossipInvariant, PTL DEF Spec, WorkNeverLost
=============================================================================
