----------------------------- MODULE PoolProofs -----------------------------
(***************************************************************************)
(* Proofs about modules PoolClients and Node.  The V2 pool is sound for    *)
(* every capacity, set of transactions and use; and for any number of      *)
(* handlers around the chain, the pool of a node keeps step with it.       *)
(***************************************************************************)
EXTENDS Node, DataLemmas

(* The inductive invariant: PoolSound needs the types, and that a transaction
   in the pool has a sender and a nonce of the table. *)
PoolInv == PoolTypeOK /\ PoolSound

(* NewV2 makes an empty pool, which is sound. *)
LEMMA EmptyPoolSound == PoolInit => PoolInv
<1> SUFFICES ASSUME PoolInit PROVE PoolInv
  OBVIOUS
<1>1. pool.byID = {} /\ pool.byNonce = [s \in Senders |-> [n \in 0..MaxWord |-> None]]
  BY DEF PoolInit, EmptyPool
<1>2. PoolTypeOK
  BY <1>1, FS_EmptySet DEF PoolTypeOK, PoolInit, EmptyPool
<1>3. PoolSound
  <2>1. IndexAgreesIn(pool)
    BY <1>1 DEF IndexAgreesIn
  <2>2. WithinCapacity(pool)
    BY <1>1, FS_EmptySet, PoolAssumption DEF WithinCapacity
  <2> QED BY <2>1, <2>2 DEF PoolSound
<1> QED BY <1>2, <1>3 DEF PoolInv

(* What a successful Add does to the two maps. *)
LEMMA Admitted ==
  ASSUME PoolInv, NEW tx \in Txs, NEW e, NEW b,
         admits(pool, tx, e, b), pool' = Add(pool, tx, e, b)
  PROVE  /\ pool'.byID = pool.byID \cup {tx}
         /\ pool'.byNonce \in [Senders -> [0..MaxWord -> Txs \cup {None}]]
         /\ pool'.byNonce[tx.sender][tx.nonce] = tx
         /\ \A s \in Senders, n \in 0..MaxWord :
               s # tx.sender \/ n # tx.nonce => pool'.byNonce[s][n] = pool.byNonce[s][n]
         /\ pool' = [byID |-> pool'.byID, byNonce |-> pool'.byNonce]
<1>1. tx.sender \in Senders /\ tx.nonce \in 0..MaxWord
  BY PoolAssumption
<1>2. pool' = [byID    |-> pool.byID \cup {tx},
               byNonce |-> [pool.byNonce EXCEPT ![tx.sender][tx.nonce] = tx]]
  BY DEF Add
<1>3. pool.byNonce \in [Senders -> [0..MaxWord -> Txs \cup {None}]]
  BY DEF PoolInv, PoolTypeOK
<1> DEFINE row == [pool.byNonce[tx.sender] EXCEPT ![tx.nonce] = tx]
<1>4. row \in [0..MaxWord -> Txs \cup {None}]
  BY <1>1, <1>3
<1>5. pool'.byNonce = [pool.byNonce EXCEPT ![tx.sender] = row]
  BY <1>2
<1>6. row[tx.nonce] = tx /\ \A n \in 0..MaxWord : n # tx.nonce => row[n] = pool.byNonce[tx.sender][n]
  BY <1>1, <1>3
<1>7. pool'.byNonce[tx.sender] = row /\ \A s \in Senders : s # tx.sender => pool'.byNonce[s] = pool.byNonce[s]
  BY <1>1, <1>3, <1>5
<1>8. pool'.byNonce \in [Senders -> [0..MaxWord -> Txs \cup {None}]]
  BY <1>1, <1>3, <1>4, <1>5
<1>9. pool'.byID = pool.byID \cup {tx} /\ pool' = [byID |-> pool'.byID, byNonce |-> pool'.byNonce]
  BY <1>2
<1> HIDE DEF row
<1> QED BY <1>1, <1>6, <1>7, <1>8, <1>9

(* V2Pool.Add keeps the pool sound, whatever nonce and balance it is given. *)
LEMMA AddKeeps ==
  ASSUME PoolInv, NEW tx \in Txs, NEW e, NEW b,
         pool' = Add(pool, tx, e, b)
  PROVE  PoolInv'
<1>1. CASE ~admits(pool, tx, e, b)
  <2>1. pool' = pool
    BY <1>1 DEF Add
  <2> QED BY <2>1 DEF PoolInv, PoolTypeOK, PoolSound, IndexAgreesIn, WithinCapacity
<1>2. CASE admits(pool, tx, e, b)
  <2>1. /\ pool'.byID = pool.byID \cup {tx}
        /\ pool'.byNonce \in [Senders -> [0..MaxWord -> Txs \cup {None}]]
        /\ pool'.byNonce[tx.sender][tx.nonce] = tx
        /\ \A s \in Senders, n \in 0..MaxWord :
              s # tx.sender \/ n # tx.nonce => pool'.byNonce[s][n] = pool.byNonce[s][n]
        /\ pool' = [byID |-> pool'.byID, byNonce |-> pool'.byNonce]
    BY <1>2, Admitted
  <2>2. /\ tx \notin pool.byID
        /\ Cardinality(pool.byID) < MaxPool
        /\ pool.byNonce[tx.sender][tx.nonce] = None
    BY <1>2 DEF admits
  <2>3. pool.byID \subseteq Txs /\ IsFiniteSet(pool.byID)
    BY DEF PoolInv, PoolTypeOK
  <2>4. PoolTypeOK'
    <3>1. IsFiniteSet(pool.byID \cup {tx})
      BY <2>3, FS_AddElement
    <3> QED BY <2>1, <2>3, <3>1 DEF PoolTypeOK
  <2>5. IndexAgreesIn(pool)'
    <3>1. ASSUME NEW u \in pool'.byID PROVE pool'.byNonce[u.sender][u.nonce] = u
      <4>1. CASE u = tx
        BY <4>1, <2>1
      <4>2. CASE u \in pool.byID
        <5>1. pool.byNonce[u.sender][u.nonce] = u
          BY <4>2 DEF PoolInv, PoolSound, IndexAgreesIn
        <5>2. u.sender \in Senders /\ u.nonce \in 0..MaxWord /\ u # None
          BY <4>2, <2>3, PoolAssumption
        <5>3. u.sender # tx.sender \/ u.nonce # tx.nonce
          BY <5>1, <5>2, <2>2
        <5> QED BY <2>1, <5>1, <5>2, <5>3
      <4> QED BY <2>1, <4>1, <4>2
    <3>2. ASSUME NEW s \in Senders, NEW n \in 0..MaxWord, pool'.byNonce[s][n] # None
          PROVE  /\ pool'.byNonce[s][n] \in pool'.byID
                 /\ pool'.byNonce[s][n].sender = s
                 /\ pool'.byNonce[s][n].nonce = n
      <4>1. CASE s = tx.sender /\ n = tx.nonce
        BY <4>1, <2>1
      <4>2. CASE s # tx.sender \/ n # tx.nonce
        BY <4>2, <3>2, <2>1 DEF PoolInv, PoolSound, IndexAgreesIn
      <4> QED BY <4>1, <4>2
    <3> QED BY <3>1, <3>2 DEF IndexAgreesIn
  <2>6. WithinCapacity(pool)'
    <3>1. Cardinality(pool.byID \cup {tx}) = Cardinality(pool.byID) + 1
      BY <2>2, <2>3, FS_AddElement
    <3>2. Cardinality(pool.byID) \in Nat
      BY <2>3, FS_CardinalityType
    <3> QED BY <3>1, <3>2, <2>1, <2>2, PoolAssumption DEF WithinCapacity
  <2> QED BY <2>4, <2>5, <2>6 DEF PoolInv, PoolSound
<1> QED BY <1>1, <1>2

(* What RemoveIDs does to the two maps. *)
LEMMA Removed ==
  ASSUME PoolInv, NEW ids, pool' = RemoveIDs(pool, ids)
  PROVE  /\ pool'.byID = pool.byID \ ids
         /\ pool'.byNonce \in [Senders -> [0..MaxWord -> Txs \cup {None}]]
         /\ \A s \in Senders, n \in 0..MaxWord :
               pool'.byNonce[s][n] =
                  IF \E tx \in pool.byID \cap ids : tx.sender = s /\ tx.nonce = n
                  THEN None ELSE pool.byNonce[s][n]
         /\ pool' = [byID |-> pool'.byID, byNonce |-> pool'.byNonce]
<1>1. pool' = [byID    |-> pool.byID \ ids,
               byNonce |-> [s \in Senders |-> [n \in 0..MaxWord |->
                     IF \E tx \in pool.byID \cap ids : tx.sender = s /\ tx.nonce = n
                     THEN None ELSE pool.byNonce[s][n]]]]
  BY DEF RemoveIDs
<1>2. pool.byNonce \in [Senders -> [0..MaxWord -> Txs \cup {None}]]
  BY DEF PoolInv, PoolTypeOK
<1> DEFINE left(s, n) == IF \E tx \in pool.byID \cap ids : tx.sender = s /\ tx.nonce = n
                         THEN None ELSE pool.byNonce[s][n]
<1>3. pool'.byNonce = [s \in Senders |-> [n \in 0..MaxWord |-> left(s, n)]]
  BY <1>1
<1>4. \A s \in Senders, n \in 0..MaxWord : left(s, n) \in Txs \cup {None}
  BY <1>2
<1>5. pool'.byID = pool.byID \ ids /\ pool' = [byID |-> pool'.byID, byNonce |-> pool'.byNonce]
  BY <1>1
<1>6. \A s \in Senders, n \in 0..MaxWord : pool'.byNonce[s][n] = left(s, n)
  <2> HIDE DEF left
  <2> QED BY <1>3
<1>7. pool'.byNonce \in [Senders -> [0..MaxWord -> Txs \cup {None}]]
  <2> HIDE DEF left
  <2> QED BY <1>3, <1>4
<1> QED BY <1>5, <1>6, <1>7

(* V2Pool.RemoveIDs keeps the pool sound, whatever ids it is given. *)
LEMMA RemoveKeeps ==
  ASSUME PoolInv, NEW ids, pool' = RemoveIDs(pool, ids)
  PROVE  PoolInv'
<1>1. /\ pool'.byID = pool.byID \ ids
      /\ pool'.byNonce \in [Senders -> [0..MaxWord -> Txs \cup {None}]]
      /\ \A s \in Senders, n \in 0..MaxWord :
            pool'.byNonce[s][n] =
               IF \E tx \in pool.byID \cap ids : tx.sender = s /\ tx.nonce = n
               THEN None ELSE pool.byNonce[s][n]
      /\ pool' = [byID |-> pool'.byID, byNonce |-> pool'.byNonce]
  BY Removed
<1>2. pool.byID \subseteq Txs /\ IsFiniteSet(pool.byID)
  BY DEF PoolInv, PoolTypeOK
<1>3. IsFiniteSet(pool.byID \ ids) /\ Cardinality(pool.byID \ ids) <= Cardinality(pool.byID)
  BY <1>2, FS_Subset
<1>4. \A u \in pool.byID : u.sender \in Senders /\ u.nonce \in 0..MaxWord /\ pool.byNonce[u.sender][u.nonce] = u
  BY <1>2, PoolAssumption DEF PoolInv, PoolSound, IndexAgreesIn
<1>5. PoolTypeOK'
  BY <1>1, <1>2, <1>3 DEF PoolTypeOK
<1>6. IndexAgreesIn(pool)'
  <2>1. ASSUME NEW u \in pool'.byID PROVE pool'.byNonce[u.sender][u.nonce] = u
    <3>1. u \in pool.byID /\ u \notin ids
      BY <1>1
    <3>2. ~ \E tx \in pool.byID \cap ids : tx.sender = u.sender /\ tx.nonce = u.nonce
      BY <3>1, <1>4
    <3> QED BY <3>1, <3>2, <1>1, <1>4
  <2>2. ASSUME NEW s \in Senders, NEW n \in 0..MaxWord, pool'.byNonce[s][n] # None
        PROVE  /\ pool'.byNonce[s][n] \in pool'.byID
               /\ pool'.byNonce[s][n].sender = s
               /\ pool'.byNonce[s][n].nonce = n
    <3>1. /\ ~ \E tx \in pool.byID \cap ids : tx.sender = s /\ tx.nonce = n
          /\ pool'.byNonce[s][n] = pool.byNonce[s][n]
      BY <2>2, <1>1
    <3>2. /\ pool.byNonce[s][n] \in pool.byID
          /\ pool.byNonce[s][n].sender = s
          /\ pool.byNonce[s][n].nonce = n
      BY <2>2, <3>1 DEF PoolInv, PoolSound, IndexAgreesIn
    <3> QED BY <3>1, <3>2, <1>1
  <2> QED BY <2>1, <2>2 DEF IndexAgreesIn
<1>7. WithinCapacity(pool)'
  <2>1. Cardinality(pool.byID) \in Nat /\ Cardinality(pool.byID \ ids) \in Nat
    BY <1>2, <1>3, FS_CardinalityType
  <2>2. Cardinality(pool.byID) <= MaxPool
    BY DEF PoolInv, PoolSound, WithinCapacity
  <2> QED BY <2>1, <2>2, <1>1, <1>3, PoolAssumption DEF WithinCapacity
<1> QED BY <1>5, <1>6, <1>7 DEF PoolInv, PoolSound

LEMMA StepKeeps == PoolInv /\ [PoolNext]_pool => PoolInv'
<1> SUFFICES ASSUME PoolInv, [PoolNext]_pool PROVE PoolInv'
  OBVIOUS
<1>1. CASE AddAny
  BY <1>1, AddKeeps DEF AddAny
<1>2. CASE RemoveAny
  BY <1>2, RemoveKeeps DEF RemoveAny
<1>3. CASE UNCHANGED pool
  BY <1>3 DEF PoolInv, PoolTypeOK, PoolSound, IndexAgreesIn, WithinCapacity
<1> QED BY <1>1, <1>2, <1>3 DEF PoolNext

(* The pool is sound after every sequence of calls of V2Pool.Add and RemoveIDs,
   with values however stale. *)
THEOREM PoolAlwaysSound == PoolSpec => []PoolSound
<1>1. PoolInv => PoolSound
  BY DEF PoolInv
<1> QED BY <1>1, EmptyPoolSound, StepKeeps, PTL DEF PoolSpec

(* V2Pool.Add never replaces the entry of a sender and a nonce. *)
THEOREM EntriesAreNotReplaced == PoolSpec => NoReplacement
<1>1. ASSUME PoolInv, [PoolNext]_pool
      PROVE  [\A s \in Senders, n \in 0..MaxWord :
                 pool.byNonce[s][n] # None => pool'.byNonce[s][n] \in {None, pool.byNonce[s][n]}]_pool
  <2>1. CASE AddAny
    <3>1. PICK tx \in Txs, e \in 0..MaxWord, b \in Nat : pool' = Add(pool, tx, e, b)
      BY <2>1 DEF AddAny
    <3>2. CASE ~admits(pool, tx, e, b)
      BY <3>1, <3>2 DEF Add
    <3>3. CASE admits(pool, tx, e, b)
      <4>1. \A s \in Senders, n \in 0..MaxWord :
               s # tx.sender \/ n # tx.nonce => pool'.byNonce[s][n] = pool.byNonce[s][n]
        BY <1>1, <3>1, <3>3, Admitted
      <4>2. pool.byNonce[tx.sender][tx.nonce] = None
        BY <3>3 DEF admits
      <4> QED BY <4>1, <4>2
    <3> QED BY <3>2, <3>3
  <2>2. CASE RemoveAny
    BY <1>1, <2>2, Removed DEF RemoveAny
  <2> QED BY <1>1, <2>1, <2>2 DEF PoolNext
<1> QED BY <1>1, EmptyPoolSound, StepKeeps, PTL DEF PoolSpec, NoReplacement

-----------------------------------------------------------------------------
(* What the chain's state says of the transactions that it confirms *)

States == [balances : [Senders -> Int], nonces : [Senders -> Nat]]

Genesis == [balances |-> Alloc, nonces |-> [s \in Senders |-> 0]]

LEMMA ApplyTransfer ==
    ASSUME NEW s \in States, NEW tx \in Txs
    PROVE  /\ applyV2(s, tx) \in States
           /\ applyV2(s, tx) # Invalid =>
                  /\ s # Invalid
                  /\ tx.nonce = s.nonces[tx.sender]
                  /\ applyV2(s, tx).nonces = [s.nonces EXCEPT ![tx.sender] = @ + 1]
<1> DEFINE debited == [s.balances EXCEPT ![tx.sender] = @ - tx.amount]
           credited == [debited EXCEPT ![tx.receiver] = @ + tx.amount]
           next == [s.nonces EXCEPT ![tx.sender] = @ + 1]
<1>1. /\ s.balances \in [Senders -> Int] /\ s.nonces \in [Senders -> Nat]
      /\ tx.sender \in Senders /\ tx.amount \in Nat /\ tx.nonce \in Nat
  BY PoolAssumption DEF States
<1>2. debited \in [Senders -> Int] /\ next \in [Senders -> Nat]
  BY <1>1
<1>3. credited \in [Senders -> Int]
  <2> HIDE DEF debited
  <2>1. debited \in [Senders -> Int] /\ tx.amount \in Nat
    BY <1>1, <1>2
  <2>2. CASE tx.receiver \in Senders
    BY <2>1, <2>2
  <2>3. CASE tx.receiver \notin Senders
    <3>1. credited = debited
      BY <2>1, <2>3
    <3> QED BY <2>1, <3>1
  <2> QED BY <2>2, <2>3
<1>4. Invalid \in States
  BY DEF Invalid, States
<1>5. applyV2(s, tx) = Invalid \/ (/\ applyV2(s, tx) = [balances |-> credited, nonces |-> next]
                                   /\ s # Invalid /\ tx.nonce = s.nonces[tx.sender])
  BY DEF applyV2
<1> HIDE DEF credited, next
<1>6. [balances |-> credited, nonces |-> next] \in States
  BY <1>2, <1>3 DEF States
<1>7. CASE applyV2(s, tx) = Invalid
  BY <1>4, <1>7
<1>8. CASE applyV2(s, tx) # Invalid
  <2>1. applyV2(s, tx).nonces = next
    BY <1>5, <1>8
  <2> QED BY <1>5, <1>6, <1>8, <2>1 DEF next
<1> QED BY <1>7, <1>8

(* f[k] is the state after the first k transactions. *)
IsRun(f, s, txs) ==
    /\ f \in [0..Len(txs) -> States]
    /\ f[0] = s
    /\ \A k \in 1..Len(txs) : f[k] = applyV2(f[k - 1], txs[k])

LEMMA BlockRuns ==
    ASSUME NEW s \in States, NEW txs \in Seq(Txs)
    PROVE  \E f : IsRun(f, s, txs) /\ applyBlock(s, txs) = f[Len(txs)]
<1> DEFINE N == Len(txs)
           step == [x \in (1..N) \X States |-> applyV2(x[2], txs[x[1]])]
           body(f) == [k \in 0..N |-> IF k = 0 THEN s ELSE applyV2(f[k - 1], txs[k])]
<1>1. N \in Nat
  OBVIOUS
<1>2. step \in [(1..N) \X States -> States]
  <2>1. ASSUME NEW x \in (1..N) \X States PROVE applyV2(x[2], txs[x[1]]) \in States
    <3>1. x[2] \in States /\ txs[x[1]] \in Txs
      OBVIOUS
    <3> DEFINE u == x[2]
               v == txs[x[1]]
    <3> HIDE DEF u, v
    <3>2. u \in States /\ v \in Txs
      BY <3>1 DEF u, v
    <3>3. applyV2(u, v) \in States
      BY <3>2, ApplyTransfer
    <3> QED BY <3>3 DEF u, v
  <2> QED BY <2>1
<1>3. PICK f \in [0..N -> States] : IsRecursion(f, N, s, step)
  <2> HIDE DEF step, N
  <2> QED BY <1>1, <1>2, RecursionExists
<1>4. ASSUME NEW k \in 0..N PROVE f[k] = IF k = 0 THEN s ELSE applyV2(f[k - 1], txs[k])
  <2>1. f[k] = IF k = 0 THEN s ELSE step[<<k, f[k - 1]>>]
    <3> HIDE DEF step, N
    <3> QED BY <1>1, <1>3 DEF IsRecursion
  <2>2. CASE k # 0
    <3>1. k \in 1..N /\ k - 1 \in 0..N
      BY <1>1, <2>2
    <3>2. <<k, f[k - 1]>> \in (1..N) \X States
      BY <3>1
    <3>3. step[<<k, f[k - 1]>>] = applyV2(f[k - 1], txs[k])
      BY <3>2
    <3> QED BY <2>1, <2>2, <3>3
  <2> QED BY <2>1, <2>2
<1>5. f = body(f)
  <2>1. f = [k \in 0..N |-> f[k]]
    OBVIOUS
  <2>2. [k \in 0..N |-> f[k]] = body(f)
    BY <1>4
  <2> QED BY <2>1, <2>2
<1> DEFINE g == CHOOSE h : h = body(h)
<1>6. g = body(g)
  <2> HIDE DEF body
  <2> QED BY <1>5
<1>7. applyBlock(s, txs) = g[N]
  BY DEF applyBlock
<1>8. g \in [0..N -> States] /\ g[0] = s /\ \A k \in 1..N : g[k] = applyV2(g[k - 1], txs[k])
  <2> DEFINE S == {n \in Nat : n <= N => g[n] \in States}
  <2>0. \A k \in 0..N : g[k] = IF k = 0 THEN s ELSE applyV2(g[k - 1], txs[k])
    BY <1>6
  <2> HIDE DEF g
  <2>1. 0 \in S
    BY <1>1, <2>0
  <2>2. ASSUME NEW n \in S PROVE n + 1 \in S
    <3> DEFINE k == n + 1
    <3>1. SUFFICES ASSUME k <= N PROVE g[k] \in States
      OBVIOUS
    <3>2. n \in Nat /\ k \in 1..N /\ k - 1 = n /\ g[n] \in States
      BY <1>1, <3>1
    <3> HIDE DEF k
    <3>3. g[k] = applyV2(g[n], txs[k])
      BY <2>0, <3>2
    <3> QED BY <3>2, <3>3, ApplyTransfer
  <2>3. S = Nat
    <3>1. S \in SUBSET Nat
      OBVIOUS
    <3> HIDE DEF S
    <3> QED BY <2>1, <2>2, <3>1, NatSetInduction
  <2>4. \A n \in 0..N : g[n] \in States
    BY <1>1, <2>3
  <2>5. g = [k \in 0..N |-> g[k]]
    BY <1>6
  <2>6. [k \in 0..N |-> g[k]] \in [0..N -> States]
    BY <2>4
  <2> QED BY <1>1, <2>0, <2>5, <2>6
<1> HIDE DEF g
<1> QED BY <1>7, <1>8 DEF IsRun

(* Nonces only grow, and those of the block's transactions are used up. *)
LEMMA BlockNonces ==
    ASSUME NEW s \in States, NEW txs \in Seq(Txs)
    PROVE  /\ applyBlock(s, txs) \in States
           /\ applyBlock(s, txs) # Invalid =>
                  /\ \A a \in Senders : s.nonces[a] <= applyBlock(s, txs).nonces[a]
                  /\ \A k \in 1..Len(txs) : txs[k].nonce < applyBlock(s, txs).nonces[txs[k].sender]
<1> DEFINE N == Len(txs)
<1>0. N \in Nat /\ \A k \in 1..N : txs[k] \in Txs
  OBVIOUS
<1>1. PICK f : IsRun(f, s, txs) /\ applyBlock(s, txs) = f[N]
  BY BlockRuns
<1>2. f[0] = s /\ \A k \in 0..N : f[k] \in States
  BY <1>1 DEF IsRun
<1> DEFINE Claim(n) == f[n] # Invalid =>
               /\ \A a \in Senders : s.nonces[a] <= f[n].nonces[a]
               /\ \A k \in 1..n : txs[k].nonce < f[n].nonces[txs[k].sender]
           S == {n \in Nat : n <= N => Claim(n)}
<1>3. 0 \in S
  <2>1. \A a \in Senders : s.nonces[a] <= s.nonces[a]
    BY DEF States
  <2> QED BY <1>2, <2>1
<1>4. ASSUME NEW n \in S PROVE n + 1 \in S
  <2> DEFINE m == n + 1
  <2>1. SUFFICES ASSUME m <= N, f[m] # Invalid
                 PROVE  /\ \A a \in Senders : s.nonces[a] <= f[m].nonces[a]
                        /\ \A k \in 1..m : txs[k].nonce < f[m].nonces[txs[k].sender]
    OBVIOUS
  <2>2. n \in Nat /\ m \in 1..N /\ m - 1 = n /\ n \in 0..N /\ n <= N
    BY <1>0, <2>1
  <2>3. Claim(n)
    BY <2>2
  <2>4. \A k \in 1..m : k \in 1..n \/ k = m
    BY <2>2
  <2> HIDE DEF m
  <2>5. f[m] = applyV2(f[n], txs[m]) /\ txs[m] \in Txs /\ f[n] \in States
    BY <1>0, <1>1, <1>2, <2>2 DEF IsRun
  <2>6. /\ f[n] # Invalid /\ txs[m].nonce = f[n].nonces[txs[m].sender]
        /\ f[m].nonces = [f[n].nonces EXCEPT ![txs[m].sender] = @ + 1]
    <3> DEFINE u == f[n]
               v == txs[m]
    <3> HIDE DEF u, v
    <3>1. u \in States /\ v \in Txs /\ applyV2(u, v) # Invalid /\ f[m] = applyV2(u, v)
      BY <2>1, <2>5 DEF u, v
    <3>2. u # Invalid /\ v.nonce = u.nonces[v.sender] /\ applyV2(u, v).nonces = [u.nonces EXCEPT ![v.sender] = @ + 1]
      BY <3>1, ApplyTransfer
    <3> QED BY <3>1, <3>2 DEF u, v
  <2>7. f[n].nonces \in [Senders -> Nat] /\ s.nonces \in [Senders -> Nat] /\ txs[m].sender \in Senders
    BY <2>5, PoolAssumption DEF States
  <2>8. \A a \in Senders : f[n].nonces[a] <= f[m].nonces[a] /\ f[m].nonces[a] \in Nat
    <3> DEFINE g == f[n].nonces
               h == f[m].nonces
               q == txs[m].sender
    <3>1. g \in [Senders -> Nat] /\ q \in Senders /\ h = [g EXCEPT ![q] = @ + 1]
      BY <2>6, <2>7
    <3> HIDE DEF g, h, q
    <3>2. \A a \in Senders : g[a] <= h[a] /\ h[a] \in Nat
      BY ONLY <3>1
    <3> QED BY <3>2 DEF g, h
  <2>9. f[m].nonces[txs[m].sender] = txs[m].nonce + 1
    BY <2>6, <2>7
  <2>10. \A a \in Senders : s.nonces[a] <= f[m].nonces[a]
    BY <2>3, <2>6, <2>7, <2>8
  <2>11. ASSUME NEW k \in 1..m PROVE txs[k].nonce < f[m].nonces[txs[k].sender]
    <3>1. CASE k = m
      BY <2>6, <2>7, <2>9, <3>1
    <3>2. CASE k \in 1..n
      <4>1. k \in 1..N
        BY <1>0, <2>2, <3>2
      <4>2. txs[k].sender \in Senders /\ txs[k].nonce \in Nat
        BY <1>0, <4>1, PoolAssumption
      <4>3. txs[k].nonce < f[n].nonces[txs[k].sender]
        BY <2>3, <2>6, <3>2
      <4> QED BY <2>7, <2>8, <4>2, <4>3
    <3> QED BY <2>4, <3>1, <3>2
  <2> QED BY <2>10, <2>11
<1>5. S = Nat
  <2>1. S \in SUBSET Nat
    OBVIOUS
  <2> HIDE DEF S
  <2> QED BY <1>3, <1>4, <2>1, NatSetInduction
<1>6. Claim(N)
  BY <1>0, <1>5
<1> QED BY <1>0, <1>1, <1>2, <1>6

(* A path of blocks, each a list of valid transactions. *)
IsPath(p) == IsSequence(p) /\ \A k \in 1..Len(p) : p[k].txs \in Seq(Txs)

(* f[k] is the state after the first k blocks. *)
IsReplay(f, p, N) ==
    /\ f \in [0..N -> States]
    /\ f[0] = Genesis
    /\ \A k \in 1..N : f[k] = applyBlock(f[k - 1], p[k].txs)

LEMMA PathReplays ==
    ASSUME NEW p, IsPath(p)
    PROVE  \E f : IsReplay(f, p, Len(p)) /\ stateOf(p) = f[Len(p)]
<1> DEFINE N == Len(p)
           step == [x \in (1..N) \X States |-> applyBlock(x[2], p[x[1]].txs)]
           body(f) == [k \in 0..N |-> IF k = 0 THEN Genesis ELSE applyBlock(f[k - 1], p[k].txs)]
<1>1. N \in Nat /\ \A k \in 1..N : p[k].txs \in Seq(Txs)
  BY SequenceFacts DEF IsPath
<1>2. Genesis \in States
  BY NodeAssumption DEF Genesis, States
<1>3. step \in [(1..N) \X States -> States]
  BY <1>1, BlockNonces
<1>4. PICK f \in [0..N -> States] : IsRecursion(f, N, Genesis, step)
  <2> HIDE DEF step, N
  <2> QED BY <1>1, <1>2, <1>3, RecursionExists
<1>5. ASSUME NEW k \in 0..N PROVE f[k] = IF k = 0 THEN Genesis ELSE applyBlock(f[k - 1], p[k].txs)
  <2>1. f[k] = IF k = 0 THEN Genesis ELSE step[<<k, f[k - 1]>>]
    <3> HIDE DEF step, N
    <3> QED BY <1>1, <1>4 DEF IsRecursion
  <2>2. CASE k # 0
    <3>1. k \in 1..N /\ k - 1 \in 0..N
      BY <1>1, <2>2
    <3>2. <<k, f[k - 1]>> \in (1..N) \X States
      BY <3>1
    <3>3. step[<<k, f[k - 1]>>] = applyBlock(f[k - 1], p[k].txs)
      BY <3>2
    <3> QED BY <2>1, <2>2, <3>3
  <2> QED BY <2>1, <2>2
<1>6. f = body(f)
  <2>1. f = [k \in 0..N |-> f[k]]
    OBVIOUS
  <2>2. [k \in 0..N |-> f[k]] = body(f)
    BY <1>5
  <2> QED BY <2>1, <2>2
<1> DEFINE g == CHOOSE h : h = body(h)
<1>7. g = body(g)
  <2> HIDE DEF body
  <2> QED BY <1>6
<1>8. stateOf(p) = g[N]
  BY DEF stateOf, Genesis
<1>9. g \in [0..N -> States] /\ g[0] = Genesis /\ \A k \in 1..N : g[k] = applyBlock(g[k - 1], p[k].txs)
  <2> DEFINE S == {n \in Nat : n <= N => g[n] \in States}
  <2>0. \A k \in 0..N : g[k] = IF k = 0 THEN Genesis ELSE applyBlock(g[k - 1], p[k].txs)
    BY <1>7
  <2> HIDE DEF g
  <2>1. 0 \in S
    BY <1>1, <1>2, <2>0
  <2>2. ASSUME NEW n \in S PROVE n + 1 \in S
    <3> DEFINE k == n + 1
    <3>1. SUFFICES ASSUME k <= N PROVE g[k] \in States
      OBVIOUS
    <3>2. n \in Nat /\ k \in 1..N /\ k - 1 = n /\ g[n] \in States
      BY <1>1, <3>1
    <3> HIDE DEF k
    <3>3. g[k] = applyBlock(g[n], p[k].txs)
      BY <2>0, <3>2
    <3> QED BY <1>1, <3>2, <3>3, BlockNonces
  <2>3. S = Nat
    <3>1. S \in SUBSET Nat
      OBVIOUS
    <3> HIDE DEF S
    <3> QED BY <2>1, <2>2, <3>1, NatSetInduction
  <2>4. \A n \in 0..N : g[n] \in States
    BY <1>1, <2>3
  <2>5. g = [k \in 0..N |-> g[k]]
    BY <1>7
  <2>6. [k \in 0..N |-> g[k]] \in [0..N -> States]
    BY <2>4
  <2> QED BY <1>1, <2>0, <2>5, <2>6
<1> HIDE DEF g
<1> QED BY <1>8, <1>9 DEF IsReplay

LEMMA StateOfAppend ==
    ASSUME NEW p, IsPath(p), NEW x, x.txs \in Seq(Txs)
    PROVE  IsPath(Append(p, x)) /\ stateOf(Append(p, x)) = applyBlock(stateOf(p), x.txs)
<1> DEFINE q == Append(p, x)
           N == Len(p)
<1>1. /\ IsSequence(q) /\ Len(q) = N + 1 /\ q[N + 1] = x /\ N \in Nat
      /\ \A i \in 1..N : q[i] = p[i] /\ p[i].txs \in Seq(Txs)
  BY PrefixOfAppend, SequenceFacts DEF IsPath
<1> HIDE DEF q, N
<1>2. IsPath(q)
  <2>1. \A k \in 1..(N + 1) : k \in 1..N \/ k = N + 1
    BY <1>1
  <2> QED BY <1>1, <2>1 DEF IsPath
<1>3. PICK f : IsReplay(f, p, N) /\ stateOf(p) = f[N]
  BY PathReplays DEF N
<1>4. PICK g : IsReplay(g, q, N + 1) /\ stateOf(q) = g[N + 1]
  BY <1>1, <1>2, PathReplays
<1> DEFINE S == {n \in Nat : n <= N => f[n] = g[n]}
<1>5. 0 \in S
  BY <1>3, <1>4 DEF IsReplay
<1>6. ASSUME NEW n \in S PROVE n + 1 \in S
  <2> DEFINE k == n + 1
  <2>1. SUFFICES ASSUME k <= N PROVE f[k] = g[k]
    OBVIOUS
  <2>2. n \in Nat /\ k \in 1..N /\ k \in 1..(N + 1) /\ k - 1 = n /\ f[n] = g[n]
    BY <1>1, <2>1
  <2> HIDE DEF k
  <2>3. f[k] = applyBlock(f[n], p[k].txs) /\ g[k] = applyBlock(g[n], q[k].txs)
    BY <1>3, <1>4, <2>2 DEF IsReplay
  <2> QED BY <1>1, <2>2, <2>3
<1>7. S = Nat
  <2>1. S \in SUBSET Nat
    OBVIOUS
  <2> HIDE DEF S
  <2> QED BY <1>5, <1>6, <2>1, NatSetInduction
<1>8. f[N] = g[N]
  BY <1>1, <1>7
<1>9. g[N + 1] = applyBlock(g[N], q[N + 1].txs)
  <2> DEFINE k == N + 1
  <2>0. N \in Nat
    BY <1>1
  <2>1. k \in 1..(N + 1) /\ k - 1 = N
    BY <2>0
  <2>2. g[k] = applyBlock(g[k - 1], q[k].txs)
    <3> HIDE DEF k
    <3> QED BY <1>4, <2>1 DEF IsReplay
  <2> QED BY <2>1, <2>2
<1> QED BY <1>1, <1>2, <1>3, <1>4, <1>8, <1>9 DEF q

(* A path whose state is known: what it confirms has used nonces. *)
Settled(p) ==
    /\ IsPath(p)
    /\ stateOf(p) \in States
    /\ \A tx \in confirmed(p) : tx \in Txs /\ tx.nonce < stateOf(p).nonces[tx.sender]

LEMMA GenesisSettled == Settled(<<>>)
<1>1. IsPath(<<>>) /\ Len(<<>>) = 0
  BY DEF IsPath, IsSequence
<1>2. confirmed(<<>>) = {}
  BY DEF confirmed
<1>3. PICK f : IsReplay(f, <<>>, 0) /\ stateOf(<<>>) = f[0]
  BY <1>1, PathReplays
<1> QED BY <1>1, <1>2, <1>3 DEF Settled, IsReplay

LEMMA ConfirmedByAppend ==
    ASSUME NEW p, IsPath(p), NEW x, x.txs \in Seq(Txs)
    PROVE  /\ confirmed(Append(p, x)) = confirmed(p) \cup ToSet(x.txs)
           /\ \A tx \in ToSet(x.txs) : \E k \in 1..Len(x.txs) : tx = x.txs[k] /\ tx \in Txs
<1> DEFINE q == Append(p, x)
           N == Len(p)
<1>1. /\ IsSequence(q) /\ Len(q) = N + 1 /\ q[N + 1] = x /\ N \in Nat
      /\ \A i \in 1..N : q[i] = p[i]
      /\ DOMAIN p = 1..N /\ DOMAIN q = 1..(N + 1)
  BY PrefixOfAppend, SequenceFacts DEF IsPath
<1> HIDE DEF q, N
<1>2. \A k \in 1..(N + 1) : k \in 1..N \/ k = N + 1
  BY <1>1
<1>3. 1..N \subseteq 1..(N + 1) /\ N + 1 \in 1..(N + 1)
  BY <1>1
<1>4. confirmed(q) = confirmed(p) \cup ToSet(x.txs)
  BY <1>1, <1>2, <1>3 DEF confirmed
<1>5. \A tx \in ToSet(x.txs) : \E k \in 1..Len(x.txs) : tx = x.txs[k] /\ tx \in Txs
  BY DEF ToSet
<1> QED BY <1>4, <1>5 DEF q

LEMMA SettledExtends ==
    ASSUME NEW p, Settled(p), NEW x, x.txs \in Seq(Txs), stateOf(Append(p, x)) # Invalid
    PROVE  /\ Settled(Append(p, x))
           /\ confirmed(p) \subseteq confirmed(Append(p, x))
           /\ \A a \in Senders : stateOf(p).nonces[a] <= stateOf(Append(p, x)).nonces[a]
<1> DEFINE q == Append(p, x)
           s == stateOf(p)
           t == stateOf(q)
<1>1. IsPath(q) /\ t = applyBlock(s, x.txs) /\ s \in States
  BY StateOfAppend DEF Settled
<1>2. /\ confirmed(q) = confirmed(p) \cup ToSet(x.txs)
      /\ \A tx \in ToSet(x.txs) : \E k \in 1..Len(x.txs) : tx = x.txs[k] /\ tx \in Txs
  BY ConfirmedByAppend DEF Settled
<1> HIDE DEF q, s, t
<1>3. t # Invalid
  BY DEF t, q
<1>4. /\ t \in States
      /\ \A a \in Senders : s.nonces[a] <= t.nonces[a]
      /\ \A k \in 1..Len(x.txs) : x.txs[k].nonce < t.nonces[x.txs[k].sender]
  BY <1>1, <1>3, BlockNonces
<1>5. ASSUME NEW tx \in confirmed(p) PROVE tx \in Txs /\ tx.nonce < t.nonces[tx.sender]
  <2>1. tx \in Txs /\ tx.nonce < s.nonces[tx.sender]
    BY DEF Settled, s
  <2>2. tx.sender \in Senders /\ tx.nonce \in Nat
    BY <2>1, PoolAssumption
  <2>3. s.nonces[tx.sender] \in Nat /\ t.nonces[tx.sender] \in Nat
    BY <1>1, <1>4, <2>2 DEF States
  <2> QED BY <1>4, <2>1, <2>2, <2>3
<1>6. Settled(q)
  BY <1>1, <1>2, <1>4, <1>5 DEF Settled, t
<1> QED BY <1>2, <1>4, <1>6 DEF q, s, t

-----------------------------------------------------------------------------
(* The chain of a node *)

(* Everything the node knows is a valid path, its active chain among it. *)
ChainOK == active \in known /\ reorg \in Seq(Txs) /\ \A b \in known : Settled(b)

(* A peer sends lists of blocks. *)
OffersAreLists ==
    \A k, a : (a \in k /\ \A p \in k : IsPath(p)) => \A b \in Offers(k, a) : IsSequence(b)

LEMMA OfferIsList ==
    ASSUME ChainOK, OffersAreLists, NEW b \in Offers(known, active)
    PROVE  IsSequence(b)
BY DEF ChainOK, OffersAreLists, Settled

LEMMA NewBlock ==
    ASSUME ChainOK, NEW b, IsSequence(b), acceptable(b)
    PROVE  /\ Front(b) \in known /\ Settled(Front(b))
           /\ b = Append(Front(b), Last(b)) /\ Len(b) = Len(Front(b)) + 1 /\ Len(Front(b)) \in Nat
           /\ Last(b).txs \in Seq(Txs) /\ stateOf(b) # Invalid
           /\ Settled(b) /\ confirmed(Front(b)) \subseteq confirmed(b)
<1> DEFINE p == Front(b)
           N == Len(b)
<1>1. b \in Seq(Range(b)) /\ N \in Nat
  BY SequenceFacts
<1>2. N # 0
  BY <1>1 DEF acceptable
<1>3. p \in Seq(Range(b)) /\ Len(p) = N - 1 /\ \A i \in 1..(N - 1) : p[i] = b[i]
  <2>1. 1 \in Nat /\ N - 1 \in Nat /\ 1 >= 1 /\ N - 1 <= Len(b) /\ 1 <= N - 1 + 1 /\ N - 1 + 1 - 1 = N - 1
    BY <1>1, <1>2
  <2>2. p = SubSeq(b, 1, N - 1)
    BY DEF Front
  <2>3. /\ p \in Seq(Range(b)) /\ Len(p) = N - 1 + 1 - 1
        /\ \A i \in 1..(N - 1 + 1 - 1) : p[i] = b[1 + i - 1]
    <3> DEFINE l == N - 1
    <3>1. l \in Nat /\ l <= Len(b) /\ 1 <= l + 1
      BY <2>1
    <3> HIDE DEF l
    <3>2. /\ SubSeq(b, 1, l) \in Seq(Range(b)) /\ Len(SubSeq(b, 1, l)) = l + 1 - 1
          /\ \A i \in 1..(l + 1 - 1) : SubSeq(b, 1, l)[i] = b[1 + i - 1]
      BY <1>1, <2>1, <3>1, SubSeqIs
    <3> QED BY <2>2, <3>2 DEF l
  <2> HIDE DEF p
  <2>4. \A i \in 1..(N - 1) : 1 + i - 1 = i
    BY <2>1
  <2> QED BY <2>1, <2>3, <2>4
<1>4. Append(p, b[N]) = b
  <2> HIDE DEF p
  <2> QED BY <1>1, <1>2, <1>3
<1>5. p \in known /\ Last(b).txs \in Seq(Txs) /\ stateOf(b) # Invalid /\ Last(b) = b[N]
  BY DEF acceptable, Last
<1> HIDE DEF p
<1>6. Settled(p)
  BY <1>5 DEF ChainOK
<1>7. Settled(b) /\ confirmed(p) \subseteq confirmed(b)
  BY <1>4, <1>5, <1>6, SettledExtends
<1> QED BY <1>1, <1>2, <1>3, <1>4, <1>5, <1>6, <1>7 DEF p

(* What a reorganization takes off the chain is confirmed by the new chain *)
(* or handed back.                                                         *)
LEMMA LosingIsKept ==
    ASSUME ChainOK, NEW b, IsSequence(b), acceptable(b)
    PROVE  losing(b) \in Seq(Txs) /\ confirmed(active) \subseteq confirmed(b) \cup ToSet(losing(b))
<1> DEFINE p == Front(b)
           A == Len(active)
           shared == {k \in 0..A : k <= Len(p) /\ SubSeq(active, 1, k) = SubSeq(p, 1, k)}
           fork == Max(shared)
           parts == [k \in 1..(A - fork) |-> active[fork + k].txs]
<1>1. Settled(p) /\ confirmed(p) \subseteq confirmed(b)
  BY NewBlock
<1>2. Settled(active)
  BY DEF ChainOK
<1>3. /\ active \in Seq(Range(active)) /\ A \in Nat /\ DOMAIN active = 1..A
      /\ \A k \in 1..A : active[k].txs \in Seq(Txs)
  BY <1>2, SequenceFacts DEF Settled, IsPath
<1>4. p \in Seq(Range(p)) /\ Len(p) \in Nat /\ DOMAIN p = 1..Len(p)
  BY <1>1, SequenceFacts DEF Settled, IsPath
<1>5. losing(b) = FlattenSeq(parts)
  BY DEF losing
<1>6. 0 \in shared
  <2>1. SubSeq(active, 1, 0) = <<>> /\ SubSeq(p, 1, 0) = <<>>
    <3> HIDE DEF p
    <3> QED BY <1>3, <1>4
  <2> QED BY <1>3, <1>4, <2>1
<1>7. fork \in shared
  <2>1. shared \in SUBSET Nat /\ shared # {} /\ \A y \in shared : y <= A
    BY <1>3, <1>6
  <2> HIDE DEF shared
  <2> QED BY <1>3, <2>1, MaxOfNumbers
<1> HIDE DEF p
<1>8. fork \in 0..A /\ fork <= Len(p) /\ SubSeq(active, 1, fork) = SubSeq(p, 1, fork)
  BY <1>7
<1> HIDE DEF fork
<1>9. \A j \in 1..fork : active[j] = p[j]
  <2>1. ASSUME NEW j \in 1..fork PROVE active[j] = p[j]
    <3>1. SubSeq(active, 1, fork)[j] = active[j]
      BY <1>3, <1>8
    <3>2. SubSeq(p, 1, fork)[j] = p[j]
      BY <1>4, <1>8
    <3> QED BY <1>8, <3>1, <3>2
  <2> QED BY <2>1
<1>10. parts \in Seq(Seq(Txs)) /\ Len(parts) = A - fork
  <2>1. A - fork \in Nat
    BY <1>3, <1>8
  <2>2. \A k \in 1..(A - fork) : active[fork + k].txs \in Seq(Txs)
    BY <1>3, <1>8
  <2> QED BY <2>1, <2>2
<1>11. /\ FlattenSeq(parts) \in Seq(Txs)
       /\ \A i \in 1..Len(parts) : \A k \in 1..Len(parts[i]) :
              \E j \in 1..Len(FlattenSeq(parts)) : FlattenSeq(parts)[j] = parts[i][k]
  <2> HIDE DEF parts
  <2> QED BY <1>10, FlattenKeeps
<1>12. ASSUME NEW tx \in confirmed(active) PROVE tx \in confirmed(b) \cup ToSet(losing(b))
  <2>1. PICK j \in 1..A : tx \in ToSet(active[j].txs)
    BY <1>3 DEF confirmed
  <2>2. PICK l \in 1..Len(active[j].txs) : tx = active[j].txs[l]
    BY <1>3, <2>1 DEF ToSet
  <2>3. CASE j <= fork
    <3>1. j \in 1..fork /\ j \in DOMAIN p
      BY <1>4, <1>8, <2>3
    <3>2. tx \in ToSet(p[j].txs)
      BY <1>9, <2>1, <3>1
    <3>3. tx \in confirmed(p)
      BY <3>1, <3>2 DEF confirmed
    <3> QED BY <1>1, <3>3
  <2>4. CASE ~(j <= fork)
    <3> DEFINE i == j - fork
    <3>1. i \in 1..(A - fork) /\ fork + i = j
      BY <1>3, <1>8, <2>4
    <3> HIDE DEF i
    <3>2. parts[i] = active[j].txs /\ i \in 1..Len(parts)
      BY <1>10, <3>1
    <3>3. PICK m \in 1..Len(FlattenSeq(parts)) : FlattenSeq(parts)[m] = tx
      <4> HIDE DEF parts
      <4> QED BY <1>11, <2>2, <3>2
    <3>4. tx \in ToSet(FlattenSeq(parts))
      <4> HIDE DEF parts
      <4> QED BY <1>11, <3>3 DEF ToSet
    <3> QED BY <1>5, <3>4
  <2> QED BY <1>3, <1>8, <2>3, <2>4
<1> QED BY <1>5, <1>11, <1>12

LEMMA AcceptKeepsChain ==
    ASSUME ChainOK, NEW b, IsSequence(b), acceptable(b), Accept(b)
    PROVE  ChainOK' /\ known \subseteq known'
<1>1. known' = known \cup {b} /\ Settled(b)
  BY NewBlock DEF Accept
<1>2. active' \in {active, b} /\ reorg' \in {reorg, losing(b)}
  BY DEF Accept
<1>3. losing(b) \in Seq(Txs)
  BY LosingIsKept
<1>4. active' \in known' /\ reorg' \in Seq(Txs)
  BY <1>1, <1>2, <1>3 DEF ChainOK
<1>5. \A c \in known' : Settled(c)
  BY <1>1 DEF ChainOK
<1> QED BY <1>1, <1>4, <1>5 DEF ChainOK

-----------------------------------------------------------------------------
(* The workers of a node *)

Local(op, pc, tx, next, bal, ids, cands, txs, tip, run, todo) ==
    [op |-> op, pc |-> pc, tx |-> tx, next |-> next, bal |-> bal, ids |-> ids, cands |-> cands,
     txs |-> txs, tip |-> tip, run |-> run, todo |-> todo]

IsLocal(x) == x = Local(x.op, x.pc, x.tx, x.next, x.bal, x.ids, x.cands, x.txs, x.tip, x.run, x.todo)

LEMMA IdleIs == Idle = Local("none", "idle", None, None, 0, {}, <<>>, <<>>, <<>>, <<>>, <<>>)
BY DEF Idle, Local

LEMMA LocalIs ==
    ASSUME NEW op, NEW pc, NEW tx, NEW next, NEW bal, NEW ids, NEW cands, NEW txs, NEW tip, NEW run, NEW todo,
           NEW x, x = Local(op, pc, tx, next, bal, ids, cands, txs, tip, run, todo)
    PROVE  /\ IsLocal(x)
           /\ x.op = op /\ x.pc = pc /\ x.tx = tx /\ x.next = next /\ x.bal = bal /\ x.ids = ids
           /\ x.cands = cands /\ x.txs = txs /\ x.tip = tip /\ x.run = run /\ x.todo = todo
BY DEF IsLocal, Local

(* The updates that the steps make: each by its name, and field by field. *)
Started(x, op, pc, tx) == [x EXCEPT !.op = op, !.pc = pc, !.tx = tx]
StartedMining(x, op, pc, txs) == [x EXCEPT !.op = op, !.pc = pc, !.txs = txs]
StartedBlock(x, op, pc) == [x EXCEPT !.op = op, !.pc = pc]
SetNext(x, pc, v) == [x EXCEPT !.pc = pc, !.next = v]
SetBal(x, pc, v) == [x EXCEPT !.pc = pc, !.bal = v]
SetIds(x, pc, v) == [x EXCEPT !.pc = pc, !.ids = v]
SetCands(x, pc, v) == [x EXCEPT !.pc = pc, !.cands = v]
SetTxs(x, pc, v) == [x EXCEPT !.pc = pc, !.txs = v]
DropCand(x, v) == [x EXCEPT !.cands = v]
Cleared(x, pc, a, b, c) == [x EXCEPT !.pc = pc, !.tx = a, !.next = b, !.bal = c]
Copied(x, pc, a, b, c) == [x EXCEPT !.pc = pc, !.ids = a, !.tip = b, !.run = c]
TakeCand(x, pc, a, b) == [x EXCEPT !.pc = pc, !.tx = a, !.cands = b]
SetTip(x, pc, a, b) == [x EXCEPT !.pc = pc, !.tip = a, !.todo = b]
Selected(x, a, b) == [x EXCEPT !.todo = a, !.run = b]

LEMMA StartUpdates ==
    ASSUME NEW x, IsLocal(x), NEW op, NEW pc, NEW tx, NEW txs
    PROVE  /\ Started(x, op, pc, tx) = Local(op, pc, tx, x.next, x.bal, x.ids, x.cands, x.txs, x.tip, x.run, x.todo)
           /\ StartedMining(x, op, pc, txs) = Local(op, pc, x.tx, x.next, x.bal, x.ids, x.cands, txs, x.tip, x.run, x.todo)
           /\ StartedBlock(x, op, pc) = Local(op, pc, x.tx, x.next, x.bal, x.ids, x.cands, x.txs, x.tip, x.run, x.todo)
<1> DEFINE y1 == [x EXCEPT !.op = op]
<1>1. y1 = Local(op, x.pc, x.tx, x.next, x.bal, x.ids, x.cands, x.txs, x.tip, x.run, x.todo)
  BY DEF IsLocal, Local
<1> HIDE DEF y1
<1> DEFINE y2 == [y1 EXCEPT !.pc = pc]
<1>2. y2 = Local(op, pc, x.tx, x.next, x.bal, x.ids, x.cands, x.txs, x.tip, x.run, x.todo)
  BY <1>1 DEF Local
<1> HIDE DEF y2
<1>3. Started(x, op, pc, tx) = Local(op, pc, tx, x.next, x.bal, x.ids, x.cands, x.txs, x.tip, x.run, x.todo)
  <2>1. [y2 EXCEPT !.tx = tx] = Local(op, pc, tx, x.next, x.bal, x.ids, x.cands, x.txs, x.tip, x.run, x.todo)
    BY <1>2 DEF Local
  <2> QED BY <2>1, Zenon DEF Started, y1, y2
<1>4. StartedMining(x, op, pc, txs) = Local(op, pc, x.tx, x.next, x.bal, x.ids, x.cands, txs, x.tip, x.run, x.todo)
  <2>1. [y2 EXCEPT !.txs = txs] = Local(op, pc, x.tx, x.next, x.bal, x.ids, x.cands, txs, x.tip, x.run, x.todo)
    BY <1>2 DEF Local
  <2> QED BY <2>1, Zenon DEF StartedMining, y1, y2
<1>5. StartedBlock(x, op, pc) = Local(op, pc, x.tx, x.next, x.bal, x.ids, x.cands, x.txs, x.tip, x.run, x.todo)
  <2>1. [y1 EXCEPT !.pc = pc] = Local(op, pc, x.tx, x.next, x.bal, x.ids, x.cands, x.txs, x.tip, x.run, x.todo)
    BY <1>1 DEF Local
  <2> QED BY <2>1, Zenon DEF StartedBlock, y1
<1> QED BY <1>3, <1>4, <1>5

LEMMA FieldUpdates ==
    ASSUME NEW x, IsLocal(x), NEW pc, NEW v
    PROVE  /\ SetNext(x, pc, v) = Local(x.op, pc, x.tx, v, x.bal, x.ids, x.cands, x.txs, x.tip, x.run, x.todo)
           /\ SetBal(x, pc, v) = Local(x.op, pc, x.tx, x.next, v, x.ids, x.cands, x.txs, x.tip, x.run, x.todo)
           /\ SetIds(x, pc, v) = Local(x.op, pc, x.tx, x.next, x.bal, v, x.cands, x.txs, x.tip, x.run, x.todo)
           /\ SetCands(x, pc, v) = Local(x.op, pc, x.tx, x.next, x.bal, x.ids, v, x.txs, x.tip, x.run, x.todo)
           /\ SetTxs(x, pc, v) = Local(x.op, pc, x.tx, x.next, x.bal, x.ids, x.cands, v, x.tip, x.run, x.todo)
           /\ DropCand(x, v) = Local(x.op, x.pc, x.tx, x.next, x.bal, x.ids, v, x.txs, x.tip, x.run, x.todo)
<1> DEFINE y1 == [x EXCEPT !.pc = pc]
<1>1. y1 = Local(x.op, pc, x.tx, x.next, x.bal, x.ids, x.cands, x.txs, x.tip, x.run, x.todo)
  BY DEF IsLocal, Local
<1> HIDE DEF y1
<1>2. SetNext(x, pc, v) = Local(x.op, pc, x.tx, v, x.bal, x.ids, x.cands, x.txs, x.tip, x.run, x.todo)
  <2>1. [y1 EXCEPT !.next = v] = Local(x.op, pc, x.tx, v, x.bal, x.ids, x.cands, x.txs, x.tip, x.run, x.todo)
    BY <1>1 DEF Local
  <2> QED BY <2>1, Zenon DEF SetNext, y1
<1>3. SetBal(x, pc, v) = Local(x.op, pc, x.tx, x.next, v, x.ids, x.cands, x.txs, x.tip, x.run, x.todo)
  <2>1. [y1 EXCEPT !.bal = v] = Local(x.op, pc, x.tx, x.next, v, x.ids, x.cands, x.txs, x.tip, x.run, x.todo)
    BY <1>1 DEF Local
  <2> QED BY <2>1, Zenon DEF SetBal, y1
<1>4. SetIds(x, pc, v) = Local(x.op, pc, x.tx, x.next, x.bal, v, x.cands, x.txs, x.tip, x.run, x.todo)
  <2>1. [y1 EXCEPT !.ids = v] = Local(x.op, pc, x.tx, x.next, x.bal, v, x.cands, x.txs, x.tip, x.run, x.todo)
    BY <1>1 DEF Local
  <2> QED BY <2>1, Zenon DEF SetIds, y1
<1>5. SetCands(x, pc, v) = Local(x.op, pc, x.tx, x.next, x.bal, x.ids, v, x.txs, x.tip, x.run, x.todo)
  <2>1. [y1 EXCEPT !.cands = v] = Local(x.op, pc, x.tx, x.next, x.bal, x.ids, v, x.txs, x.tip, x.run, x.todo)
    BY <1>1 DEF Local
  <2> QED BY <2>1, Zenon DEF SetCands, y1
<1>6. SetTxs(x, pc, v) = Local(x.op, pc, x.tx, x.next, x.bal, x.ids, x.cands, v, x.tip, x.run, x.todo)
  <2>1. [y1 EXCEPT !.txs = v] = Local(x.op, pc, x.tx, x.next, x.bal, x.ids, x.cands, v, x.tip, x.run, x.todo)
    BY <1>1 DEF Local
  <2> QED BY <2>1, Zenon DEF SetTxs, y1
<1>7. DropCand(x, v) = Local(x.op, x.pc, x.tx, x.next, x.bal, x.ids, v, x.txs, x.tip, x.run, x.todo)
  BY DEF IsLocal, Local, DropCand
<1> QED BY <1>2, <1>3, <1>4, <1>5, <1>6, <1>7

LEMMA PairUpdates ==
    ASSUME NEW x, IsLocal(x), NEW pc, NEW a, NEW b
    PROVE  /\ TakeCand(x, pc, a, b) = Local(x.op, pc, a, x.next, x.bal, x.ids, b, x.txs, x.tip, x.run, x.todo)
           /\ SetTip(x, pc, a, b) = Local(x.op, pc, x.tx, x.next, x.bal, x.ids, x.cands, x.txs, a, x.run, b)
           /\ Selected(x, a, b) = Local(x.op, x.pc, x.tx, x.next, x.bal, x.ids, x.cands, x.txs, x.tip, b, a)
<1> DEFINE y1 == [x EXCEPT !.pc = pc]
<1>1. y1 = Local(x.op, pc, x.tx, x.next, x.bal, x.ids, x.cands, x.txs, x.tip, x.run, x.todo)
  BY DEF IsLocal, Local
<1> HIDE DEF y1
<1> DEFINE y2 == [y1 EXCEPT !.tx = a]
<1>2. y2 = Local(x.op, pc, a, x.next, x.bal, x.ids, x.cands, x.txs, x.tip, x.run, x.todo)
  BY <1>1 DEF Local
<1> HIDE DEF y2
<1> DEFINE y3 == [y1 EXCEPT !.tip = a]
<1>3. y3 = Local(x.op, pc, x.tx, x.next, x.bal, x.ids, x.cands, x.txs, a, x.run, x.todo)
  BY <1>1 DEF Local
<1> HIDE DEF y3
<1> DEFINE y4 == [x EXCEPT !.todo = a]
<1>4. y4 = Local(x.op, x.pc, x.tx, x.next, x.bal, x.ids, x.cands, x.txs, x.tip, x.run, a)
  BY DEF IsLocal, Local
<1> HIDE DEF y4
<1>5. TakeCand(x, pc, a, b) = Local(x.op, pc, a, x.next, x.bal, x.ids, b, x.txs, x.tip, x.run, x.todo)
  <2>1. [y2 EXCEPT !.cands = b] = Local(x.op, pc, a, x.next, x.bal, x.ids, b, x.txs, x.tip, x.run, x.todo)
    BY <1>2 DEF Local
  <2> QED BY <2>1, Zenon DEF TakeCand, y1, y2
<1>6. SetTip(x, pc, a, b) = Local(x.op, pc, x.tx, x.next, x.bal, x.ids, x.cands, x.txs, a, x.run, b)
  <2>1. [y3 EXCEPT !.todo = b] = Local(x.op, pc, x.tx, x.next, x.bal, x.ids, x.cands, x.txs, a, x.run, b)
    BY <1>3 DEF Local
  <2> QED BY <2>1, Zenon DEF SetTip, y1, y3
<1>7. Selected(x, a, b) = Local(x.op, x.pc, x.tx, x.next, x.bal, x.ids, x.cands, x.txs, x.tip, b, a)
  <2>1. [y4 EXCEPT !.run = b] = Local(x.op, x.pc, x.tx, x.next, x.bal, x.ids, x.cands, x.txs, x.tip, b, a)
    BY <1>4 DEF Local
  <2> QED BY <2>1, Zenon DEF Selected, y4
<1> QED BY <1>5, <1>6, <1>7

LEMMA TripleUpdates ==
    ASSUME NEW x, IsLocal(x), NEW pc, NEW a, NEW b, NEW c
    PROVE  /\ Cleared(x, pc, a, b, c) = Local(x.op, pc, a, b, c, x.ids, x.cands, x.txs, x.tip, x.run, x.todo)
           /\ Copied(x, pc, a, b, c) = Local(x.op, pc, x.tx, x.next, x.bal, a, x.cands, x.txs, b, c, x.todo)
<1> DEFINE y1 == [x EXCEPT !.pc = pc]
<1>1. y1 = Local(x.op, pc, x.tx, x.next, x.bal, x.ids, x.cands, x.txs, x.tip, x.run, x.todo)
  BY DEF IsLocal, Local
<1> HIDE DEF y1
<1> DEFINE y2 == [y1 EXCEPT !.tx = a]
<1>2. y2 = Local(x.op, pc, a, x.next, x.bal, x.ids, x.cands, x.txs, x.tip, x.run, x.todo)
  BY <1>1 DEF Local
<1> HIDE DEF y2
<1> DEFINE y3 == [y2 EXCEPT !.next = b]
<1>3. y3 = Local(x.op, pc, a, b, x.bal, x.ids, x.cands, x.txs, x.tip, x.run, x.todo)
  BY <1>2 DEF Local
<1> HIDE DEF y3
<1> DEFINE y4 == [y1 EXCEPT !.ids = a]
<1>4. y4 = Local(x.op, pc, x.tx, x.next, x.bal, a, x.cands, x.txs, x.tip, x.run, x.todo)
  BY <1>1 DEF Local
<1> HIDE DEF y4
<1> DEFINE y5 == [y4 EXCEPT !.tip = b]
<1>5. y5 = Local(x.op, pc, x.tx, x.next, x.bal, a, x.cands, x.txs, b, x.run, x.todo)
  BY <1>4 DEF Local
<1> HIDE DEF y5
<1>6. Cleared(x, pc, a, b, c) = Local(x.op, pc, a, b, c, x.ids, x.cands, x.txs, x.tip, x.run, x.todo)
  <2>1. [y3 EXCEPT !.bal = c] = Local(x.op, pc, a, b, c, x.ids, x.cands, x.txs, x.tip, x.run, x.todo)
    BY <1>3 DEF Local
  <2> QED BY <2>1, Zenon DEF Cleared, y1, y2, y3
<1>7. Copied(x, pc, a, b, c) = Local(x.op, pc, x.tx, x.next, x.bal, a, x.cands, x.txs, b, c, x.todo)
  <2>1. [y5 EXCEPT !.run = c] = Local(x.op, pc, x.tx, x.next, x.bal, a, x.cands, x.txs, b, c, x.todo)
    BY <1>5 DEF Local
  <2> QED BY <2>1, Zenon DEF Copied, y1, y4, y5
<1> QED BY <1>6, <1>7

LEMMA IdleUpdates ==
    ASSUME NEW op, NEW pc, NEW tx, NEW txs
    PROVE  /\ Started(Idle, op, pc, tx) = Local(op, pc, tx, None, 0, {}, <<>>, <<>>, <<>>, <<>>, <<>>)
           /\ StartedMining(Idle, op, pc, txs) = Local(op, pc, None, None, 0, {}, <<>>, txs, <<>>, <<>>, <<>>)
           /\ StartedBlock(Idle, op, pc) = Local(op, pc, None, None, 0, {}, <<>>, <<>>, <<>>, <<>>, <<>>)
<1> DEFINE x == Idle
<1> HIDE DEF x
<1>1. /\ IsLocal(x)
      /\ x.tx = None /\ x.next = None /\ x.bal = 0 /\ x.ids = {} /\ x.cands = <<>>
      /\ x.txs = <<>> /\ x.tip = <<>> /\ x.run = <<>> /\ x.todo = <<>>
  BY IdleIs, LocalIs DEF x
<1>2. /\ Started(x, op, pc, tx) = Local(op, pc, tx, x.next, x.bal, x.ids, x.cands, x.txs, x.tip, x.run, x.todo)
      /\ StartedMining(x, op, pc, txs) = Local(op, pc, x.tx, x.next, x.bal, x.ids, x.cands, txs, x.tip, x.run, x.todo)
      /\ StartedBlock(x, op, pc) = Local(op, pc, x.tx, x.next, x.bal, x.ids, x.cands, x.txs, x.tip, x.run, x.todo)
  BY <1>1, StartUpdates
<1> QED BY <1>1, <1>2 DEF x

(* Worker i goes on with these local values, and no other worker moves. *)
Moves(i, op, pc, tx, next, ids, cands, tip) ==
    /\ w' = [w EXCEPT ![i] = w'[i]]
    /\ IsLocal(w'[i])
    /\ w'[i].op = op /\ w'[i].pc = pc /\ w'[i].tx = tx /\ w'[i].next = next
    /\ w'[i].ids = ids /\ w'[i].cands = cands /\ w'[i].tip = tip

LocalsOK == w = [i \in Workers |-> w[i]] /\ \A i \in Workers : IsLocal(w[i])

LEMMA MovesTo ==
    ASSUME LocalsOK, NEW i \in Workers,
           NEW op, NEW pc, NEW tx, NEW next, NEW bal, NEW ids, NEW cands, NEW txs, NEW tip, NEW run, NEW todo,
           goto(i, Local(op, pc, tx, next, bal, ids, cands, txs, tip, run, todo))
    PROVE  Moves(i, op, pc, tx, next, ids, cands, tip)
<1> DEFINE y == Local(op, pc, tx, next, bal, ids, cands, txs, tip, run, todo)
<1>1. /\ IsLocal(y)
      /\ y.op = op /\ y.pc = pc /\ y.tx = tx /\ y.next = next
      /\ y.ids = ids /\ y.cands = cands /\ y.tip = tip
  BY LocalIs
<1>2. w' = [w EXCEPT ![i] = y]
  BY DEF goto
<1> HIDE DEF y
<1>3. w'[i] = y
  BY <1>2 DEF LocalsOK
<1> QED BY <1>1, <1>2, <1>3 DEF Moves

(* The handler of worker i returns. *)
Ends(i) == Moves(i, "none", "idle", None, None, {}, <<>>, <<>>)

LEMMA IdleEnds ==
    ASSUME LocalsOK, NEW i \in Workers, goto(i, Idle) PROVE Ends(i)
<1>1. goto(i, Local("none", "idle", None, None, 0, {}, <<>>, <<>>, <<>>, <<>>, <<>>))
  BY IdleIs
<1>2. Moves(i, "none", "idle", None, None, {}, <<>>, <<>>)
  BY <1>1, MovesTo
<1> QED BY <1>2 DEF Ends

(* An admission attempt that is over: on to the next candidate, or the end. *)
MovesOn(i) ==
    \/ w[i].op = "block" /\ Moves(i, w[i].op, "cand", None, None, w[i].ids, w[i].cands, w[i].tip)
    \/ w[i].op # "block" /\ Ends(i)

LEMMA MovesAfterAdmission ==
    ASSUME LocalsOK, NEW i \in Workers, goto(i, afterAdmission(i))
    PROVE  MovesOn(i)
<1>1. IsLocal(w[i])
  BY DEF LocalsOK
<1> DEFINE x == w[i]
<1>2. CASE x.op = "block"
  <2>1. afterAdmission(i) = Cleared(x, "cand", None, None, 0)
    BY <1>2 DEF afterAdmission, Cleared
  <2>2. goto(i, Local(x.op, "cand", None, None, 0, x.ids, x.cands, x.txs, x.tip, x.run, x.todo))
    BY <1>1, <2>1, TripleUpdates
  <2>3. Moves(i, x.op, "cand", None, None, x.ids, x.cands, x.tip)
    BY <2>2, MovesTo
  <2> QED BY <1>2, <2>3 DEF MovesOn
<1>3. CASE x.op # "block"
  BY <1>3, IdleEnds DEF afterAdmission, MovesOn
<1> QED BY <1>2, <1>3

LEMMA AdmissionMoves ==
    ASSUME LocalsOK, NEW i \in Workers, NEW t
    PROVE  /\ Submit(i, t) => Moves(i, "submit", "nonce", t, None, {}, <<>>, <<>>)
           /\ ReadNonce(i) =>
                 Moves(i, w[i].op, "expected", w[i].tx, NextNonce(w[i].tx.sender), w[i].ids, w[i].cands, w[i].tip)
           /\ ReadExpectedNonce(i) =>
                 \/ ExpectedNonce(pool, w[i].tx.sender, w[i].next) = None /\ MovesOn(i)
                 \/ LET n == ExpectedNonce(pool, w[i].tx.sender, w[i].next)
                    IN  n # None /\ Moves(i, w[i].op, "balance", w[i].tx, n, w[i].ids, w[i].cands, w[i].tip)
           /\ ReadBalance(i) => Moves(i, w[i].op, "add", w[i].tx, w[i].next, w[i].ids, w[i].cands, w[i].tip)
           /\ AddToPool(i) => MovesOn(i)
<1> DEFINE x == w[i]
<1>0. IsLocal(x)
  BY DEF LocalsOK
<1>1. ASSUME Submit(i, t) PROVE Moves(i, "submit", "nonce", t, None, {}, <<>>, <<>>)
  <2>0. goto(i, Started(Idle, "submit", "nonce", t))
    BY <1>1 DEF Submit, Started
  <2>1. goto(i, Local("submit", "nonce", t, None, 0, {}, <<>>, <<>>, <<>>, <<>>, <<>>))
    BY <2>0, IdleUpdates
  <2> QED BY <2>1, MovesTo
<1>2. ASSUME ReadNonce(i) PROVE Moves(i, x.op, "expected", x.tx, NextNonce(x.tx.sender), x.ids, x.cands, x.tip)
  <2> DEFINE n == NextNonce(x.tx.sender)
  <2>1. goto(i, SetNext(x, "expected", n))
    BY <1>2 DEF ReadNonce, SetNext
  <2> HIDE DEF n
  <2>2. goto(i, Local(x.op, "expected", x.tx, n, x.bal, x.ids, x.cands, x.txs, x.tip, x.run, x.todo))
    BY <1>0, <2>1, FieldUpdates
  <2>3. Moves(i, x.op, "expected", x.tx, n, x.ids, x.cands, x.tip)
    BY <2>2, MovesTo
  <2> QED BY <2>3 DEF n
<1>3. ASSUME ReadExpectedNonce(i)
      PROVE  \/ ExpectedNonce(pool, x.tx.sender, x.next) = None /\ MovesOn(i)
             \/ LET n == ExpectedNonce(pool, x.tx.sender, x.next)
                IN  n # None /\ Moves(i, x.op, "balance", x.tx, n, x.ids, x.cands, x.tip)
  <2> DEFINE n == ExpectedNonce(pool, x.tx.sender, x.next)
  <2>1. \/ n = None /\ goto(i, afterAdmission(i))
        \/ n # None /\ goto(i, SetNext(x, "balance", n))
    BY <1>3 DEF ReadExpectedNonce, SetNext
  <2> HIDE DEF n
  <2>2. CASE n = None
    BY <2>1, <2>2, MovesAfterAdmission DEF n
  <2>3. CASE n # None
    <3>1. goto(i, Local(x.op, "balance", x.tx, n, x.bal, x.ids, x.cands, x.txs, x.tip, x.run, x.todo))
      BY <1>0, <2>1, <2>3, FieldUpdates
    <3>2. Moves(i, x.op, "balance", x.tx, n, x.ids, x.cands, x.tip)
      BY <3>1, MovesTo
    <3> QED BY <2>3, <3>2 DEF n
  <2> QED BY <2>2, <2>3
<1>4. ASSUME ReadBalance(i) PROVE Moves(i, x.op, "add", x.tx, x.next, x.ids, x.cands, x.tip)
  <2> DEFINE v == Balance(x.tx.sender)
  <2>1. goto(i, SetBal(x, "add", v))
    BY <1>4 DEF ReadBalance, SetBal
  <2> HIDE DEF v
  <2>2. goto(i, Local(x.op, "add", x.tx, x.next, v, x.ids, x.cands, x.txs, x.tip, x.run, x.todo))
    BY <1>0, <2>1, FieldUpdates
  <2> QED BY <2>2, MovesTo
<1>5. ASSUME AddToPool(i) PROVE MovesOn(i)
  BY <1>5, MovesAfterAdmission DEF AddToPool
<1> QED BY <1>1, <1>2, <1>3, <1>4, <1>5

LEMMA BlockMoves ==
    ASSUME LocalsOK, NEW i \in Workers, NEW b
    PROVE  /\ AcceptBlock(i, b) =>
                 \/ Len(b) > Len(active) /\ Moves(i, "block", "copy", None, None, {}, <<>>, <<>>)
                 \/ ~(Len(b) > Len(active)) /\ Ends(i)
           /\ CopyChain(i) => Moves(i, w[i].op, "remove", w[i].tx, w[i].next, confirmed(active), w[i].cands, <<>>)
           /\ RemoveConfirmed(i) =>
                 \/ w[i].op = "block" /\ Moves(i, w[i].op, "take", w[i].tx, w[i].next, {}, w[i].cands, w[i].tip)
                 \/ w[i].op # "block" /\ Ends(i)
           /\ TakeReorgCandidates(i) => Moves(i, w[i].op, "cand", w[i].tx, w[i].next, w[i].ids, reorg, w[i].tip)
           /\ NextCandidate(i) =>
                 \/ w[i].cands = <<>> /\ Ends(i)
                 \/ /\ w[i].cands # <<>> /\ Head(w[i].cands) \in confirmed(active)
                    /\ Moves(i, w[i].op, w[i].pc, w[i].tx, w[i].next, w[i].ids, Tail(w[i].cands), w[i].tip)
                 \/ /\ w[i].cands # <<>> /\ Head(w[i].cands) \notin confirmed(active)
                    /\ Moves(i, w[i].op, "nonce", Head(w[i].cands), w[i].next, w[i].ids, Tail(w[i].cands), w[i].tip)
<1> DEFINE x == w[i]
<1>0. IsLocal(x)
  BY DEF LocalsOK
<1>1. ASSUME AcceptBlock(i, b)
      PROVE  \/ Len(b) > Len(active) /\ Moves(i, "block", "copy", None, None, {}, <<>>, <<>>)
             \/ ~(Len(b) > Len(active)) /\ Ends(i)
  <2>1. goto(i, IF Len(b) > Len(active) THEN StartedBlock(Idle, "block", "copy") ELSE Idle)
    BY <1>1 DEF AcceptBlock, StartedBlock
  <2>2. CASE Len(b) > Len(active)
    <3>1. goto(i, Local("block", "copy", None, None, 0, {}, <<>>, <<>>, <<>>, <<>>, <<>>))
      BY <2>1, <2>2, IdleUpdates
    <3> QED BY <2>2, <3>1, MovesTo
  <2>3. CASE ~(Len(b) > Len(active))
    BY <2>1, <2>3, IdleEnds
  <2> QED BY <2>2, <2>3
<1>2. ASSUME CopyChain(i) PROVE Moves(i, x.op, "remove", x.tx, x.next, confirmed(active), x.cands, <<>>)
  <2> DEFINE v == confirmed(active)
  <2>1. goto(i, Copied(x, "remove", v, <<>>, <<>>))
    BY <1>2 DEF CopyChain, activeIDs, Copied
  <2> HIDE DEF v
  <2>2. goto(i, Local(x.op, "remove", x.tx, x.next, x.bal, v, x.cands, x.txs, <<>>, <<>>, x.todo))
    BY <1>0, <2>1, TripleUpdates
  <2>3. Moves(i, x.op, "remove", x.tx, x.next, v, x.cands, <<>>)
    BY <2>2, MovesTo
  <2> QED BY <2>3 DEF v
<1>3. ASSUME RemoveConfirmed(i)
      PROVE  \/ x.op = "block" /\ Moves(i, x.op, "take", x.tx, x.next, {}, x.cands, x.tip)
             \/ x.op # "block" /\ Ends(i)
  <2>1. goto(i, IF x.op = "block" THEN SetIds(x, "take", {}) ELSE Idle)
    BY <1>3 DEF RemoveConfirmed, SetIds
  <2>2. CASE x.op = "block"
    <3>1. goto(i, Local(x.op, "take", x.tx, x.next, x.bal, {}, x.cands, x.txs, x.tip, x.run, x.todo))
      BY <1>0, <2>1, <2>2, FieldUpdates
    <3>2. Moves(i, x.op, "take", x.tx, x.next, {}, x.cands, x.tip)
      BY <3>1, MovesTo
    <3> QED BY <2>2, <3>2
  <2>3. CASE x.op # "block"
    BY <2>1, <2>3, IdleEnds
  <2> QED BY <2>2, <2>3
<1>4. ASSUME TakeReorgCandidates(i) PROVE Moves(i, x.op, "cand", x.tx, x.next, x.ids, reorg, x.tip)
  <2>0. goto(i, SetCands(x, "cand", reorg))
    BY <1>4 DEF TakeReorgCandidates, SetCands
  <2>1. goto(i, Local(x.op, "cand", x.tx, x.next, x.bal, x.ids, reorg, x.txs, x.tip, x.run, x.todo))
    BY <1>0, <2>0, FieldUpdates
  <2> QED BY <2>1, MovesTo
<1>5. ASSUME NextCandidate(i)
      PROVE  \/ x.cands = <<>> /\ Ends(i)
             \/ /\ x.cands # <<>> /\ Head(x.cands) \in confirmed(active)
                /\ Moves(i, x.op, x.pc, x.tx, x.next, x.ids, Tail(x.cands), x.tip)
             \/ /\ x.cands # <<>> /\ Head(x.cands) \notin confirmed(active)
                /\ Moves(i, x.op, "nonce", Head(x.cands), x.next, x.ids, Tail(x.cands), x.tip)
  <2> DEFINE c == x.cands
             head == Head(c)
             tail == Tail(c)
  <2>1. \/ c = <<>> /\ goto(i, Idle)
        \/ c # <<>> /\ head \in confirmed(active) /\ goto(i, DropCand(x, tail))
        \/ c # <<>> /\ head \notin confirmed(active) /\ goto(i, TakeCand(x, "nonce", head, tail))
    BY <1>5 DEF NextCandidate, DropCand, TakeCand
  <2> HIDE DEF head, tail
  <2>2. CASE c = <<>> /\ goto(i, Idle)
    BY <2>2, IdleEnds
  <2>3. CASE c # <<>> /\ head \in confirmed(active) /\ goto(i, DropCand(x, tail))
    <3>1. goto(i, Local(x.op, x.pc, x.tx, x.next, x.bal, x.ids, tail, x.txs, x.tip, x.run, x.todo))
      BY <1>0, <2>3, FieldUpdates
    <3>2. Moves(i, x.op, x.pc, x.tx, x.next, x.ids, tail, x.tip)
      BY <3>1, MovesTo
    <3> QED BY <2>3, <3>2 DEF tail, head
  <2>4. CASE c # <<>> /\ head \notin confirmed(active) /\ goto(i, TakeCand(x, "nonce", head, tail))
    <3>1. goto(i, Local(x.op, "nonce", head, x.next, x.bal, x.ids, tail, x.txs, x.tip, x.run, x.todo))
      BY <1>0, <2>4, PairUpdates
    <3>2. Moves(i, x.op, "nonce", head, x.next, x.ids, tail, x.tip)
      BY <3>1, MovesTo
    <3> QED BY <2>4, <3>2 DEF tail, head
  <2> QED BY <2>1, <2>2, <2>3, <2>4
<1> QED BY <1>1, <1>2, <1>3, <1>4, <1>5

LEMMA MiningMoves ==
    ASSUME LocalsOK, NEW i \in Workers
    PROVE  /\ MineList(i) => Moves(i, "mine", "tip", None, None, {}, <<>>, <<>>)
           /\ MineTip(i) => Moves(i, w[i].op, "select", w[i].tx, w[i].next, w[i].ids, w[i].cands, active)
           /\ MineSelect(i) => Moves(i, w[i].op, w[i].pc, w[i].tx, w[i].next, w[i].ids, w[i].cands, w[i].tip)
           /\ MineAccept(i) =>
                 \/ /\ acceptable(minedBlock(i)) /\ Accept(minedBlock(i))
                    /\ Moves(i, w[i].op, "copy", w[i].tx, w[i].next, w[i].ids, w[i].cands, w[i].tip)
                 \/ UNCHANGED chainVars /\ Ends(i)
<1> DEFINE x == w[i]
<1>0. IsLocal(x)
  BY DEF LocalsOK
<1>1. ASSUME MineList(i) PROVE Moves(i, "mine", "tip", None, None, {}, <<>>, <<>>)
  <2> DEFINE v == listed
  <2>1. goto(i, StartedMining(Idle, "mine", "tip", v))
    BY <1>1 DEF MineList, StartedMining
  <2> HIDE DEF v
  <2>2. goto(i, Local("mine", "tip", None, None, 0, {}, <<>>, v, <<>>, <<>>, <<>>))
    BY <2>1, IdleUpdates
  <2> QED BY <2>2, MovesTo
<1>2. ASSUME MineTip(i) PROVE Moves(i, x.op, "select", x.tx, x.next, x.ids, x.cands, active)
  <2>0. goto(i, SetTip(x, "select", active, SenderOrder))
    BY <1>2 DEF MineTip, SetTip
  <2>1. goto(i, Local(x.op, "select", x.tx, x.next, x.bal, x.ids, x.cands, x.txs, active, x.run, SenderOrder))
    BY <1>0, <2>0, PairUpdates
  <2> QED BY <2>1, MovesTo
<1>3. ASSUME MineSelect(i) PROVE Moves(i, x.op, x.pc, x.tx, x.next, x.ids, x.cands, x.tip)
  <2>1. PICK u, v : goto(i, Selected(x, u, v))
    BY <1>3 DEF MineSelect, Selected
  <2>2. goto(i, Local(x.op, x.pc, x.tx, x.next, x.bal, x.ids, x.cands, x.txs, x.tip, v, u))
    BY <1>0, <2>1, PairUpdates
  <2> QED BY <2>2, MovesTo
<1>4. ASSUME MineAccept(i)
      PROVE  \/ /\ acceptable(minedBlock(i)) /\ Accept(minedBlock(i))
                /\ Moves(i, x.op, "copy", x.tx, x.next, x.ids, x.cands, x.tip)
             \/ UNCHANGED chainVars /\ Ends(i)
  <2> DEFINE b == minedBlock(i)
  <2>1. \/ acceptable(b) /\ Accept(b) /\ goto(i, SetTxs(x, "copy", <<>>))
        \/ UNCHANGED chainVars /\ goto(i, Idle)
    BY <1>4 DEF MineAccept, SetTxs
  <2> HIDE DEF b
  <2>2. CASE UNCHANGED chainVars /\ goto(i, Idle)
    BY <2>2, IdleEnds
  <2>3. CASE acceptable(b) /\ Accept(b) /\ goto(i, SetTxs(x, "copy", <<>>))
    <3>1. goto(i, Local(x.op, "copy", x.tx, x.next, x.bal, x.ids, x.cands, <<>>, x.tip, x.run, x.todo))
      BY <1>0, <2>3, FieldUpdates
    <3>2. Moves(i, x.op, "copy", x.tx, x.next, x.ids, x.cands, x.tip)
      BY <3>1, MovesTo
    <3> QED BY <2>3, <3>2 DEF b
  <2> QED BY <2>1, <2>2, <2>3
<1> QED BY <1>1, <1>2, <1>3, <1>4

-----------------------------------------------------------------------------
(* Any number of workers, any peers: the pool is sound *)

Admitting == {"nonce", "expected", "balance", "add"}

(* What a handler admits is a transaction, and what it mines on a known block. *)
WorkersOK ==
    \A i \in Workers :
       /\ w[i].pc \in Admitting => w[i].tx \in Txs
       /\ w[i].cands \in Seq(Txs)
       /\ w[i].pc = "select" => w[i].tip \in known

NodeInv == LocalsOK /\ WorkersOK /\ PoolInv /\ ChainOK

LEMMA OthersStay ==
    ASSUME LocalsOK, NEW i \in Workers, NEW op, NEW pc, NEW tx, NEW next, NEW ids, NEW cands, NEW tip,
           Moves(i, op, pc, tx, next, ids, cands, tip)
    PROVE  LocalsOK' /\ \A j \in Workers : j # i => w'[j] = w[j]
<1>1. w' = [w EXCEPT ![i] = w'[i]] /\ IsLocal(w'[i])
  BY DEF Moves
<1> DEFINE y == w'[i]
<1> HIDE DEF y
<1>2. w' = [w EXCEPT ![i] = y] /\ IsLocal(y)
  BY <1>1 DEF y
<1>3. w' = [j \in Workers |-> w'[j]] /\ \A j \in Workers : w'[j] = IF j = i THEN y ELSE w[j]
  BY <1>2 DEF LocalsOK
<1>4. \A j \in Workers : IsLocal(w'[j])
  BY <1>2, <1>3 DEF LocalsOK
<1> QED BY <1>3, <1>4 DEF LocalsOK

LEMMA WorkerMoves ==
    ASSUME NodeInv, NEW i \in Workers, NEW op, NEW pc, NEW tx, NEW next, NEW ids, NEW cands, NEW tip,
           Moves(i, op, pc, tx, next, ids, cands, tip),
           pc \in Admitting => tx \in Txs, cands \in Seq(Txs), pc = "select" => tip \in known,
           known \subseteq known'
    PROVE  LocalsOK' /\ WorkersOK'
<1>1. LocalsOK' /\ \A j \in Workers : j # i => w'[j] = w[j]
  BY OthersStay DEF NodeInv
<1>2. w'[i].pc = pc /\ w'[i].tx = tx /\ w'[i].cands = cands /\ w'[i].tip = tip
  BY DEF Moves
<1>3. ASSUME NEW j \in Workers
      PROVE  /\ w'[j].pc \in Admitting => w'[j].tx \in Txs
             /\ w'[j].cands \in Seq(Txs)
             /\ w'[j].pc = "select" => w'[j].tip \in known'
  <2>1. CASE j = i
    BY <1>2, <2>1
  <2>2. CASE j # i
    BY <1>1, <2>2 DEF NodeInv, WorkersOK
  <2> QED BY <2>1, <2>2
<1> QED BY <1>1, <1>3 DEF WorkersOK

LEMMA EndsWell ==
    ASSUME NodeInv, NEW i \in Workers, Ends(i), known \subseteq known' PROVE LocalsOK' /\ WorkersOK'
<1>1. /\ "idle" \in Admitting => None \in Txs
      /\ <<>> \in Seq(Txs)
      /\ "idle" = "select" => <<>> \in known
  BY DEF Admitting
<1>2. Moves(i, "none", "idle", None, None, {}, <<>>, <<>>)
  BY DEF Ends
<1> QED BY <1>1, <1>2, WorkerMoves

LEMMA MovesOnWell ==
    ASSUME NodeInv, NEW i \in Workers, MovesOn(i), known \subseteq known' PROVE LocalsOK' /\ WorkersOK'
<1>1. CASE Ends(i)
  BY <1>1, EndsWell
<1>2. CASE Moves(i, w[i].op, "cand", None, None, w[i].ids, w[i].cands, w[i].tip)
  <2>1. /\ "cand" \in Admitting => None \in Txs
        /\ w[i].cands \in Seq(Txs)
        /\ "cand" = "select" => w[i].tip \in known
    BY DEF Admitting, NodeInv, WorkersOK
  <2> QED BY <1>2, <2>1, WorkerMoves
<1> QED BY <1>1, <1>2 DEF MovesOn

(* A step that reads and writes only the worker's own variables *)
LEMMA QuietStep ==
    ASSUME NodeInv, LocalsOK', WorkersOK', UNCHANGED <<chainVars, pool>> PROVE NodeInv'
<1>1. ChainOK'
  BY DEF chainVars, NodeInv, ChainOK
<1>2. PoolInv'
  BY DEF NodeInv, PoolInv, PoolTypeOK, PoolSound, IndexAgreesIn, WithinCapacity
<1> QED BY <1>1, <1>2 DEF NodeInv

LEMMA NodeInitially == Init => NodeInv
<1> SUFFICES ASSUME Init PROVE NodeInv
  OBVIOUS
<1>1. LocalsOK /\ WorkersOK
  <2>1. /\ IsLocal(Idle) /\ Idle.pc = "idle" /\ Idle.cands = <<>>
    BY IdleIs, LocalIs
  <2>2. w = [i \in Workers |-> Idle]
    BY DEF Init
  <2>3. \A i \in Workers : w[i] = Idle
    BY <2>2
  <2>4. LocalsOK
    BY <2>1, <2>2, <2>3 DEF LocalsOK
  <2>5. WorkersOK
    <3>1. "idle" \notin Admitting /\ <<>> \in Seq(Txs) /\ "idle" # "select"
      BY DEF Admitting
    <3> QED BY <2>1, <2>3, <3>1 DEF WorkersOK
  <2> QED BY <2>4, <2>5
<1>2. PoolInv
  BY EmptyPoolSound DEF Init, PoolInit
<1>3. ChainOK
  BY GenesisSettled DEF Init, ChainOK
<1> QED BY <1>1, <1>2, <1>3 DEF NodeInv

LEMMA AdmissionKeeps ==
    ASSUME NodeInv, NEW i \in Workers, NEW t,
           \/ t \in Submissions /\ Submit(i, t)
           \/ ReadNonce(i) \/ ReadExpectedNonce(i) \/ ReadBalance(i) \/ AddToPool(i)
    PROVE  NodeInv'
<1> DEFINE x == w[i]
<1>0. LocalsOK /\ x.cands \in Seq(Txs) /\ (x.pc \in Admitting => x.tx \in Txs) /\ (t \in Submissions => t \in Txs)
  BY NodeAssumption DEF NodeInv, WorkersOK
<1>1. CASE t \in Submissions /\ Submit(i, t)
  <2>1. Moves(i, "submit", "nonce", t, None, {}, <<>>, <<>>)
    BY <1>0, <1>1, AdmissionMoves
  <2>2. UNCHANGED <<chainVars, pool>> /\ known \subseteq known'
    BY <1>1 DEF Submit, chainVars
  <2>3. <<>> \in Seq(Txs) /\ ("nonce" = "select" => <<>> \in known)
    OBVIOUS
  <2>4. LocalsOK' /\ WorkersOK'
    BY <1>0, <1>1, <2>1, <2>2, <2>3, WorkerMoves
  <2> QED BY <2>2, <2>4, QuietStep
<1>2. CASE ReadNonce(i)
  <2> DEFINE n == NextNonce(x.tx.sender)
  <2>1. Moves(i, x.op, "expected", x.tx, n, x.ids, x.cands, x.tip)
    BY <1>0, <1>2, AdmissionMoves
  <2> HIDE DEF n
  <2>2. UNCHANGED <<chainVars, pool>> /\ known \subseteq known' /\ x.pc = "nonce"
    BY <1>2 DEF ReadNonce, chainVars, at
  <2>3. x.tx \in Txs /\ ("expected" = "select" => x.tip \in known)
    BY <1>0, <2>2 DEF Admitting
  <2>4. LocalsOK' /\ WorkersOK'
    BY <1>0, <2>1, <2>2, <2>3, WorkerMoves
  <2> QED BY <2>2, <2>4, QuietStep
<1>3. CASE ReadExpectedNonce(i)
  <2> DEFINE n == ExpectedNonce(pool, x.tx.sender, x.next)
  <2>1. MovesOn(i) \/ Moves(i, x.op, "balance", x.tx, n, x.ids, x.cands, x.tip)
    BY <1>0, <1>3, AdmissionMoves
  <2> HIDE DEF n
  <2>2. UNCHANGED <<chainVars, pool>> /\ known \subseteq known' /\ x.pc = "expected"
    BY <1>3 DEF ReadExpectedNonce, chainVars, at
  <2>3. x.tx \in Txs /\ ("balance" = "select" => x.tip \in known)
    BY <1>0, <2>2 DEF Admitting
  <2>4. CASE MovesOn(i)
    BY <2>2, <2>4, MovesOnWell, QuietStep
  <2>5. CASE Moves(i, x.op, "balance", x.tx, n, x.ids, x.cands, x.tip)
    <3>1. LocalsOK' /\ WorkersOK'
      BY <1>0, <2>5, <2>2, <2>3, WorkerMoves
    <3> QED BY <2>2, <3>1, QuietStep
  <2> QED BY <2>1, <2>4, <2>5
<1>4. CASE ReadBalance(i)
  <2>1. Moves(i, x.op, "add", x.tx, x.next, x.ids, x.cands, x.tip)
    BY <1>0, <1>4, AdmissionMoves
  <2>2. UNCHANGED <<chainVars, pool>> /\ known \subseteq known' /\ x.pc = "balance"
    BY <1>4 DEF ReadBalance, chainVars, at
  <2>3. x.tx \in Txs /\ ("add" = "select" => x.tip \in known)
    BY <1>0, <2>2 DEF Admitting
  <2>4. LocalsOK' /\ WorkersOK'
    BY <1>0, <2>1, <2>2, <2>3, WorkerMoves
  <2> QED BY <2>2, <2>4, QuietStep
<1>5. CASE AddToPool(i)
  <2>1. UNCHANGED chainVars /\ known \subseteq known' /\ x.pc = "add" /\ pool' = Add(pool, x.tx, x.next, x.bal)
    BY <1>5 DEF AddToPool, chainVars, at
  <2>2. LocalsOK' /\ WorkersOK'
    BY <1>0, <1>5, <2>1, AdmissionMoves, MovesOnWell
  <2>3. PoolInv'
    BY <1>0, <2>1, AddKeeps DEF Admitting, NodeInv
  <2>4. ChainOK'
    BY <2>1 DEF NodeInv, ChainOK, chainVars
  <2> QED BY <2>2, <2>3, <2>4 DEF NodeInv
<1> QED BY <1>1, <1>2, <1>3, <1>4, <1>5

LEMMA ChainStep ==
    ASSUME NodeInv, NEW b, IsSequence(b), acceptable(b), Accept(b), UNCHANGED pool, LocalsOK', WorkersOK'
    PROVE  NodeInv'
<1>1. ChainOK'
  BY AcceptKeepsChain DEF NodeInv
<1>2. PoolInv'
  BY DEF NodeInv, PoolInv, PoolTypeOK, PoolSound, IndexAgreesIn, WithinCapacity
<1> QED BY <1>1, <1>2 DEF NodeInv

LEMMA BlockKeeps ==
    ASSUME NodeInv, NEW i \in Workers, NEW b, IsSequence(b),
           AcceptBlock(i, b) \/ CopyChain(i) \/ RemoveConfirmed(i) \/ TakeReorgCandidates(i) \/ NextCandidate(i)
    PROVE  NodeInv'
<1> DEFINE x == w[i]
<1>0. LocalsOK /\ x.cands \in Seq(Txs) /\ ChainOK /\ reorg \in Seq(Txs)
  BY DEF NodeInv, WorkersOK, ChainOK
<1>1. CASE AcceptBlock(i, b)
  <2>1. Moves(i, "block", "copy", None, None, {}, <<>>, <<>>) \/ Ends(i)
    BY <1>0, <1>1, BlockMoves
  <2>2. acceptable(b) /\ Accept(b) /\ UNCHANGED pool /\ known \subseteq known'
    BY <1>1 DEF AcceptBlock, Accept
  <2>3. LocalsOK' /\ WorkersOK'
    <3>1. CASE Ends(i)
      BY <2>2, <3>1, EndsWell
    <3>2. CASE Moves(i, "block", "copy", None, None, {}, <<>>, <<>>)
      <4>1. <<>> \in Seq(Txs) /\ ("copy" = "select" => <<>> \in known) /\ ("copy" \in Admitting => None \in Txs)
        BY DEF Admitting
      <4> QED BY <2>2, <3>2, <4>1, WorkerMoves
    <3> QED BY <2>1, <3>1, <3>2
  <2> QED BY <2>2, <2>3, ChainStep
<1>2. CASE CopyChain(i)
  <2> DEFINE v == confirmed(active)
  <2>1. Moves(i, x.op, "remove", x.tx, x.next, v, x.cands, <<>>)
    BY <1>0, <1>2, BlockMoves
  <2>2. UNCHANGED <<chainVars, pool>> /\ known \subseteq known'
    BY <1>2 DEF CopyChain, chainVars
  <2>3. ("remove" = "select" => <<>> \in known) /\ ("remove" \in Admitting => x.tx \in Txs)
    BY DEF Admitting
  <2> HIDE DEF v
  <2>4. LocalsOK' /\ WorkersOK'
    BY <1>0, <2>1, <2>2, <2>3, WorkerMoves
  <2> QED BY <2>2, <2>4, QuietStep
<1>3. CASE RemoveConfirmed(i)
  <2>1. Moves(i, x.op, "take", x.tx, x.next, {}, x.cands, x.tip) \/ Ends(i)
    BY <1>0, <1>3, BlockMoves
  <2>2. UNCHANGED chainVars /\ known \subseteq known' /\ pool' = RemoveIDs(pool, x.ids)
    BY <1>3 DEF RemoveConfirmed, chainVars
  <2>3. LocalsOK' /\ WorkersOK'
    <3>1. CASE Ends(i)
      BY <2>2, <3>1, EndsWell
    <3>2. CASE Moves(i, x.op, "take", x.tx, x.next, {}, x.cands, x.tip)
      <4>1. ("take" = "select" => x.tip \in known) /\ ("take" \in Admitting => x.tx \in Txs)
        BY DEF Admitting
      <4> QED BY <1>0, <2>2, <3>2, <4>1, WorkerMoves
    <3> QED BY <2>1, <3>1, <3>2
  <2>4. PoolInv'
    BY <2>2, RemoveKeeps DEF NodeInv
  <2>5. ChainOK'
    BY <1>0, <2>2 DEF ChainOK, chainVars
  <2> QED BY <2>3, <2>4, <2>5 DEF NodeInv
<1>4. CASE TakeReorgCandidates(i)
  <2>1. Moves(i, x.op, "cand", x.tx, x.next, x.ids, reorg, x.tip)
    BY <1>0, <1>4, BlockMoves
  <2>2. UNCHANGED <<known, active, pool>> /\ reorg' = <<>> /\ known \subseteq known'
    BY <1>4 DEF TakeReorgCandidates
  <2>3. ("cand" = "select" => x.tip \in known) /\ ("cand" \in Admitting => x.tx \in Txs)
    BY DEF Admitting
  <2>4. LocalsOK' /\ WorkersOK'
    BY <1>0, <2>1, <2>2, <2>3, WorkerMoves
  <2>5. ChainOK'
    <3>1. reorg' \in Seq(Txs)
      BY <2>2
    <3> QED BY <1>0, <2>2, <3>1 DEF ChainOK
  <2>6. PoolInv'
    BY <2>2 DEF NodeInv, PoolInv, PoolTypeOK, PoolSound, IndexAgreesIn, WithinCapacity
  <2> QED BY <2>4, <2>5, <2>6 DEF NodeInv
<1>5. CASE NextCandidate(i)
  <2> DEFINE head == Head(x.cands)
             tail == Tail(x.cands)
  <2>1. \/ Ends(i)
        \/ x.cands # <<>> /\ Moves(i, x.op, x.pc, x.tx, x.next, x.ids, tail, x.tip)
        \/ x.cands # <<>> /\ Moves(i, x.op, "nonce", head, x.next, x.ids, tail, x.tip)
    BY <1>0, <1>5, BlockMoves
  <2>2. UNCHANGED <<chainVars, pool>> /\ known \subseteq known' /\ x.pc = "cand"
    BY <1>5 DEF NextCandidate, chainVars, at
  <2>3. x.cands # <<>> => head \in Txs /\ tail \in Seq(Txs)
    BY <1>0
  <2> HIDE DEF head, tail
  <2>4. LocalsOK' /\ WorkersOK'
    <3>1. CASE Ends(i)
      BY <2>2, <3>1, EndsWell
    <3>2. CASE x.cands # <<>> /\ Moves(i, x.op, x.pc, x.tx, x.next, x.ids, tail, x.tip)
      <4>1. (x.pc = "select" => x.tip \in known) /\ (x.pc \in Admitting => x.tx \in Txs) /\ tail \in Seq(Txs)
        BY <2>2, <2>3, <3>2 DEF Admitting
      <4> QED BY <2>2, <3>2, <4>1, WorkerMoves
    <3>3. CASE x.cands # <<>> /\ Moves(i, x.op, "nonce", head, x.next, x.ids, tail, x.tip)
      <4>1. ("nonce" = "select" => x.tip \in known) /\ head \in Txs /\ tail \in Seq(Txs)
        BY <2>3, <3>3
      <4> QED BY <2>2, <3>3, <4>1, WorkerMoves
    <3> QED BY <2>1, <3>1, <3>2, <3>3
  <2> QED BY <2>2, <2>4, QuietStep
<1> QED BY <1>1, <1>2, <1>3, <1>4, <1>5

LEMMA MinedIsList ==
    ASSUME NodeInv, NEW i \in Workers, w[i].pc = "select"
    PROVE  IsSequence(minedBlock(i))
<1>1. IsSequence(w[i].tip)
  BY DEF NodeInv, WorkersOK, ChainOK, Settled, IsPath
<1> QED BY <1>1, PrefixOfAppend DEF minedBlock

LEMMA MiningKeeps ==
    ASSUME NodeInv, NEW i \in Workers, MineList(i) \/ MineTip(i) \/ MineSelect(i) \/ MineAccept(i)
    PROVE  NodeInv'
<1> DEFINE x == w[i]
<1>0. LocalsOK /\ x.cands \in Seq(Txs) /\ active \in known /\ (x.pc = "select" => x.tip \in known)
  BY DEF NodeInv, WorkersOK, ChainOK
<1>1. CASE MineList(i)
  <2>1. Moves(i, "mine", "tip", None, None, {}, <<>>, <<>>)
    BY <1>0, <1>1, MiningMoves
  <2>2. UNCHANGED <<chainVars, pool>> /\ known \subseteq known'
    BY <1>1 DEF MineList, chainVars
  <2>3. ("tip" = "select" => <<>> \in known) /\ ("tip" \in Admitting => None \in Txs) /\ <<>> \in Seq(Txs)
    BY DEF Admitting
  <2>4. LocalsOK' /\ WorkersOK'
    BY <2>1, <2>2, <2>3, WorkerMoves
  <2> QED BY <2>2, <2>4, QuietStep
<1>2. CASE MineTip(i)
  <2>1. Moves(i, x.op, "select", x.tx, x.next, x.ids, x.cands, active)
    BY <1>0, <1>2, MiningMoves
  <2>2. UNCHANGED <<chainVars, pool>> /\ known \subseteq known'
    BY <1>2 DEF MineTip, chainVars
  <2>3. "select" \in Admitting => x.tx \in Txs
    BY DEF Admitting
  <2>4. LocalsOK' /\ WorkersOK'
    BY <1>0, <2>1, <2>2, <2>3, WorkerMoves
  <2> QED BY <2>2, <2>4, QuietStep
<1>3. CASE MineSelect(i)
  <2>1. Moves(i, x.op, x.pc, x.tx, x.next, x.ids, x.cands, x.tip)
    BY <1>0, <1>3, MiningMoves
  <2>2. UNCHANGED <<chainVars, pool>> /\ known \subseteq known' /\ x.pc = "select"
    BY <1>3 DEF MineSelect, chainVars, at
  <2>3. x.pc \in Admitting => x.tx \in Txs
    BY <2>2 DEF Admitting
  <2>4. LocalsOK' /\ WorkersOK'
    BY <1>0, <2>1, <2>2, <2>3, WorkerMoves
  <2> QED BY <2>2, <2>4, QuietStep
<1>4. CASE MineAccept(i)
  <2> DEFINE b == minedBlock(i)
  <2>1. \/ acceptable(b) /\ Accept(b) /\ Moves(i, x.op, "copy", x.tx, x.next, x.ids, x.cands, x.tip)
        \/ UNCHANGED chainVars /\ Ends(i)
    BY <1>0, <1>4, MiningMoves
  <2>2. UNCHANGED pool /\ x.pc = "select"
    BY <1>4 DEF MineAccept, at
  <2>3. IsSequence(b)
    BY <2>2, MinedIsList
  <2> HIDE DEF b
  <2>4. CASE UNCHANGED chainVars /\ Ends(i)
    <3>1. UNCHANGED <<chainVars, pool>> /\ known \subseteq known'
      BY <2>2, <2>4 DEF chainVars
    <3> QED BY <2>4, <3>1, EndsWell, QuietStep
  <2>5. CASE acceptable(b) /\ Accept(b) /\ Moves(i, x.op, "copy", x.tx, x.next, x.ids, x.cands, x.tip)
    <3>1. known \subseteq known'
      BY <2>5 DEF Accept
    <3>2. ("copy" = "select" => x.tip \in known) /\ ("copy" \in Admitting => x.tx \in Txs)
      BY DEF Admitting
    <3>3. LocalsOK' /\ WorkersOK'
      BY <1>0, <2>5, <3>1, <3>2, WorkerMoves
    <3> QED BY <2>2, <2>3, <2>5, <3>3, ChainStep
  <2> QED BY <2>1, <2>4, <2>5
<1> QED BY <1>1, <1>2, <1>3, <1>4

LEMMA NodeKeeps ==
    ASSUME OffersAreLists, NodeInv, [Next]_vars PROVE NodeInv'
<1>1. CASE UNCHANGED vars
  <2>1. UNCHANGED <<chainVars, pool>> /\ LocalsOK' /\ WorkersOK'
    BY <1>1 DEF vars, chainVars, NodeInv, LocalsOK, WorkersOK
  <2> QED BY <2>1, QuietStep
<1>2. CASE \E b \in Offers(known, active) : SyncBlock(b)
  <2>1. PICK b \in Offers(known, active) : SyncBlock(b)
    BY <1>2
  <2>2. IsSequence(b)
    BY OfferIsList DEF NodeInv
  <2>3. acceptable(b) /\ Accept(b) /\ UNCHANGED <<pool, w>> /\ known \subseteq known'
    BY <2>1 DEF SyncBlock, Accept
  <2>4. LocalsOK' /\ WorkersOK'
    BY <2>3 DEF NodeInv, LocalsOK, WorkersOK
  <2> QED BY <2>2, <2>3, <2>4, ChainStep
<1>3. ASSUME NEW i \in Workers, NEW t \in Submissions, Submit(i, t) PROVE NodeInv'
  BY <1>3, AdmissionKeeps
<1>4. ASSUME NEW i \in Workers, NEW b \in Offers(known, active), AcceptBlock(i, b) PROVE NodeInv'
  <2>1. IsSequence(b)
    BY OfferIsList DEF NodeInv
  <2> QED BY <1>4, <2>1, BlockKeeps
<1>5. ASSUME NEW i \in Workers, ReadNonce(i) \/ ReadExpectedNonce(i) \/ ReadBalance(i) \/ AddToPool(i) PROVE NodeInv'
  BY <1>5, AdmissionKeeps
<1>6. ASSUME NEW i \in Workers, CopyChain(i) \/ RemoveConfirmed(i) \/ TakeReorgCandidates(i) \/ NextCandidate(i)
      PROVE  NodeInv'
  <2>1. IsSequence(active)
    BY DEF NodeInv, ChainOK, Settled, IsPath
  <2> QED BY <1>6, <2>1, BlockKeeps
<1>7. ASSUME NEW i \in Workers, MineList(i) \/ MineTip(i) \/ MineSelect(i) \/ MineAccept(i) PROVE NodeInv'
  BY <1>7, MiningKeeps
<1> QED BY <1>1, <1>2, <1>3, <1>4, <1>5, <1>6, <1>7 DEF Next

(* Only these two steps touch the pool. *)
LEMMA PoolSteps ==
    ASSUME [Next]_vars, pool' # pool
    PROVE  \E i \in Workers : AddToPool(i) \/ RemoveConfirmed(i)
<1>1. CASE UNCHANGED vars
  BY <1>1 DEF vars
<1>2. CASE \E b \in Offers(known, active) : SyncBlock(b)
  BY <1>2 DEF SyncBlock
<1>3. ASSUME NEW i \in Workers,
             \/ \E t \in Submissions : Submit(i, t)
             \/ ReadNonce(i) \/ ReadExpectedNonce(i) \/ ReadBalance(i)
      PROVE  pool' = pool
  BY <1>3 DEF Submit, ReadNonce, ReadExpectedNonce, ReadBalance
<1>4. ASSUME NEW i \in Workers,
             \/ \E b \in Offers(known, active) : AcceptBlock(i, b)
             \/ CopyChain(i) \/ TakeReorgCandidates(i) \/ NextCandidate(i)
      PROVE  pool' = pool
  BY <1>4 DEF AcceptBlock, CopyChain, TakeReorgCandidates, NextCandidate
<1>5. ASSUME NEW i \in Workers, MineList(i) \/ MineTip(i) \/ MineSelect(i) \/ MineAccept(i)
      PROVE  pool' = pool
  BY <1>5 DEF MineList, MineTip, MineSelect, MineAccept
<1> QED BY <1>1, <1>2, <1>3, <1>4, <1>5 DEF Next

(* In every interleaving of the handlers of a node, with any number of them and
   whatever blocks its peers send, the pool stays sound. *)
THEOREM NodePoolSound ==
    ASSUME OffersAreLists
    PROVE  Spec => []PoolSound
<1>1. NodeInv /\ [Next]_vars => NodeInv'
  BY NodeKeeps
<1>2. NodeInv => PoolSound
  BY DEF NodeInv, PoolInv
<1> QED BY <1>1, <1>2, NodeInitially, PTL DEF Spec

(* And no handler's Add replaces the entry of a sender and a nonce. *)
THEOREM NodeNeverReplaces ==
    ASSUME OffersAreLists
    PROVE  Spec => NoReplacement
<1>1. NodeInv /\ [Next]_vars => NodeInv'
  BY NodeKeeps
<1>2. ASSUME NodeInv, [Next]_vars
      PROVE  [\A s \in Senders, n \in 0..MaxWord :
                 pool.byNonce[s][n] # None => pool'.byNonce[s][n] \in {None, pool.byNonce[s][n]}]_pool
  <2>1. SUFFICES ASSUME pool' # pool
                 PROVE  \A s \in Senders, n \in 0..MaxWord :
                           pool.byNonce[s][n] # None => pool'.byNonce[s][n] \in {None, pool.byNonce[s][n]}
    OBVIOUS
  <2>2. PICK i \in Workers : AddToPool(i) \/ RemoveConfirmed(i)
    BY <1>2, <2>1, PoolSteps
  <2> DEFINE x == w[i]
  <2>3. CASE AddToPool(i)
    <3>1. x.tx \in Txs /\ pool' = Add(pool, x.tx, x.next, x.bal) /\ PoolInv
      BY <1>2, <2>3 DEF AddToPool, at, NodeInv, WorkersOK, Admitting
    <3>2. admits(pool, x.tx, x.next, x.bal)
      BY <2>1, <3>1 DEF Add
    <3>3. \A s \in Senders, n \in 0..MaxWord :
             s # x.tx.sender \/ n # x.tx.nonce => pool'.byNonce[s][n] = pool.byNonce[s][n]
      BY <3>1, <3>2, Admitted
    <3>4. pool.byNonce[x.tx.sender][x.tx.nonce] = None
      BY <3>2 DEF admits
    <3> QED BY <3>3, <3>4
  <2>4. CASE RemoveConfirmed(i)
    <3>1. pool' = RemoveIDs(pool, x.ids) /\ PoolInv
      BY <1>2, <2>4 DEF RemoveConfirmed, NodeInv
    <3> QED BY <3>1, Removed
  <2> QED BY <2>2, <2>3, <2>4
<1> QED BY <1>1, <1>2, NodeInitially, PTL DEF Spec, NoReplacement

-----------------------------------------------------------------------------
(* Until the first reorganization the pool keeps step with a chain that grows. *)

(* No nonce of s below n is free that the chain has not used. *)
Filled(s, n) ==
    n \in 0..MaxWord /\ \A m \in 0..MaxWord : NextNonce(s) <= m /\ m < n => pool.byNonce[s][m] # None

(* What a worker read is stale in one direction only. *)
InStep(i) ==
    /\ w[i].pc = "remove" => w[i].ids \subseteq confirmed(active)
    /\ w[i].pc = "expected" => w[i].next \in Nat /\ w[i].next <= NextNonce(w[i].tx.sender)
    /\ w[i].pc \in {"balance", "add"} => Filled(w[i].tx.sender, w[i].next)

LinearInv == NodeInv /\ noGap /\ \A i \in Workers : InStep(i)

(* What the chain confirms stays confirmed, and the pool gives up no entry
   that is not confirmed. *)
Grows ==
    /\ confirmed(active) \subseteq confirmed(active')
    /\ \A s \in Senders : NextNonce(s) <= NextNonce(s)'
    /\ \A s \in Senders, m \in 0..MaxWord :
          NextNonce(s)' <= m /\ pool.byNonce[s][m] # None => pool'.byNonce[s][m] # None
    /\ Len(active) <= Len(active') /\ (Len(active) = Len(active') => active = active')

LEMMA ActiveFacts ==
    ASSUME NodeInv
    PROVE  /\ Settled(active) /\ Len(active) \in Nat
           /\ \A s \in Senders : NextNonce(s) \in Nat
           /\ \A tx \in confirmed(active) : tx \in Txs /\ tx.nonce < NextNonce(tx.sender)
<1>1. Settled(active)
  BY DEF NodeInv, ChainOK
<1>2. Len(active) \in Nat
  BY <1>1, SequenceFacts DEF Settled, IsPath
<1>3. \A s \in Senders : NextNonce(s) \in Nat
  BY <1>1 DEF Settled, States, NextNonce
<1>4. \A tx \in confirmed(active) : tx \in Txs /\ tx.nonce < NextNonce(tx.sender)
  BY <1>1 DEF Settled, NextNonce
<1> QED BY <1>1, <1>2, <1>3, <1>4

(* Three kinds of step *)
LEMMA StillGrows ==
    ASSUME NodeInv, active' = active, pool' = pool PROVE Grows
<1>1. \A s \in Senders : NextNonce(s)' = NextNonce(s) /\ NextNonce(s) \in Nat
  BY ActiveFacts DEF NextNonce
<1>2. Len(active) \in Nat
  BY ActiveFacts
<1> QED BY <1>1, <1>2 DEF Grows

LEMMA ExtensionGrows ==
    ASSUME NodeInv, NEW b, IsSequence(b), acceptable(b), Accept(b), UNCHANGED pool,
           Len(b) > Len(active) => Front(b) = active
    PROVE  Grows
<1>1. CASE ~(Len(b) > Len(active))
  <2>1. active' = active
    BY <1>1 DEF Accept
  <2> QED BY <2>1, StillGrows
<1>2. CASE Len(b) > Len(active)
  <2>1. active' = b /\ Front(b) = active
    BY <1>2 DEF Accept
  <2>2. /\ b = Append(active, Last(b)) /\ Len(b) = Len(active) + 1 /\ Len(active) \in Nat
        /\ Last(b).txs \in Seq(Txs) /\ stateOf(b) # Invalid /\ Settled(active)
    BY <2>1, NewBlock DEF NodeInv
  <2> DEFINE l == Last(b)
  <2> HIDE DEF l
  <2>3. b = Append(active, l) /\ l.txs \in Seq(Txs)
    BY <2>2 DEF l
  <2>4. stateOf(Append(active, l)) # Invalid
    BY <2>2, <2>3
  <2>5. /\ confirmed(active) \subseteq confirmed(b)
        /\ \A s \in Senders : stateOf(active).nonces[s] <= stateOf(b).nonces[s]
    <3>1. /\ confirmed(active) \subseteq confirmed(Append(active, l))
          /\ \A s \in Senders : stateOf(active).nonces[s] <= stateOf(Append(active, l)).nonces[s]
      BY <2>2, <2>3, <2>4, SettledExtends
    <3> QED BY <2>3, <3>1
  <2>6. \A s \in Senders : NextNonce(s) <= NextNonce(s)'
    BY <2>1, <2>5 DEF NextNonce
  <2> QED BY <2>1, <2>2, <2>5, <2>6 DEF Grows
<1> QED BY <1>1, <1>2

LEMMA AddGrows ==
    ASSUME NodeInv, NEW tx \in Txs, NEW e, NEW v, pool' = Add(pool, tx, e, v), active' = active PROVE Grows
<1>1. CASE ~admits(pool, tx, e, v)
  BY <1>1, StillGrows DEF Add
<1>2. CASE admits(pool, tx, e, v)
  <2>1. /\ pool'.byNonce[tx.sender][tx.nonce] = tx
        /\ \A s \in Senders, n \in 0..MaxWord :
              s # tx.sender \/ n # tx.nonce => pool'.byNonce[s][n] = pool.byNonce[s][n]
    BY <1>2, Admitted DEF NodeInv
  <2>2. \A s \in Senders, n \in 0..MaxWord : pool.byNonce[s][n] # None => pool'.byNonce[s][n] # None
    BY <2>1, PoolAssumption
  <2>3. \A s \in Senders : NextNonce(s)' = NextNonce(s) /\ NextNonce(s) \in Nat
    BY ActiveFacts DEF NextNonce
  <2>4. Len(active) \in Nat
    BY ActiveFacts
  <2> QED BY <2>2, <2>3, <2>4 DEF Grows
<1> QED BY <1>1, <1>2

LEMMA RemovalGrows ==
    ASSUME NodeInv, NEW ids, pool' = RemoveIDs(pool, ids), ids \subseteq confirmed(active), active' = active
    PROVE  Grows
<1>1. \A s \in Senders, n \in 0..MaxWord :
         pool'.byNonce[s][n] =
            IF \E tx \in pool.byID \cap ids : tx.sender = s /\ tx.nonce = n THEN None ELSE pool.byNonce[s][n]
  BY Removed DEF NodeInv
<1>2. \A s \in Senders : NextNonce(s)' = NextNonce(s) /\ NextNonce(s) \in Nat
  BY ActiveFacts DEF NextNonce
<1>3. Len(active) \in Nat
  BY ActiveFacts
<1>4. ASSUME NEW s \in Senders, NEW m \in 0..MaxWord, NextNonce(s)' <= m, pool.byNonce[s][m] # None
      PROVE  pool'.byNonce[s][m] # None
  <2>1. NextNonce(s) <= m /\ m \in Nat /\ NextNonce(s) \in Nat
    BY <1>2, <1>4
  <2>2. ~ \E tx \in pool.byID \cap ids : tx.sender = s /\ tx.nonce = m
    <3>1. ASSUME NEW tx \in pool.byID \cap ids, tx.sender = s, tx.nonce = m PROVE FALSE
      <4>1. tx.nonce < NextNonce(tx.sender)
        BY ActiveFacts
      <4> QED BY <2>1, <3>1, <4>1
    <3> QED BY <3>1
  <2> QED BY <1>1, <1>4, <2>2
<1> QED BY <1>2, <1>3, <1>4 DEF Grows

(* Every step of the chain is one of three. *)
LEMMA ActiveSteps ==
    ASSUME [Next]_vars, active' # active
    PROVE  \/ \E i \in Workers : \E b \in Offers(known, active) : AcceptBlock(i, b)
           \/ \E i \in Workers : MineAccept(i)
           \/ \E b \in Offers(known, active) : SyncBlock(b)
<1>1. CASE UNCHANGED vars
  BY <1>1 DEF vars
<1>2. ASSUME NEW i \in Workers,
             \/ \E t \in Submissions : Submit(i, t)
             \/ ReadNonce(i) \/ ReadExpectedNonce(i) \/ ReadBalance(i) \/ AddToPool(i)
      PROVE  active' = active
  BY <1>2 DEF Submit, ReadNonce, ReadExpectedNonce, ReadBalance, AddToPool, chainVars
<1>3. ASSUME NEW i \in Workers, CopyChain(i) \/ RemoveConfirmed(i) \/ TakeReorgCandidates(i) \/ NextCandidate(i)
      PROVE  active' = active
  BY <1>3 DEF CopyChain, RemoveConfirmed, TakeReorgCandidates, NextCandidate, chainVars
<1>4. ASSUME NEW i \in Workers, MineList(i) \/ MineTip(i) \/ MineSelect(i)
      PROVE  active' = active
  BY <1>4 DEF MineList, MineTip, MineSelect, chainVars
<1> QED BY <1>1, <1>2, <1>3, <1>4 DEF Next

(* A best block that does not reorganize is on top of the active chain. *)
LEMMA AcceptedOnTip ==
    ASSUME NEW b, Accept(b), ~reorged' PROVE Len(b) > Len(active) => Front(b) = active
BY DEF Accept

LEMMA LinearGrows ==
    ASSUME OffersAreLists, LinearInv, [Next]_vars, ~reorged' PROVE Grows
<1>0. NodeInv
  BY DEF LinearInv
<1>1. CASE active' # active
  <2>1. ASSUME NEW b \in Offers(known, active), acceptable(b), Accept(b), UNCHANGED pool PROVE Grows
    <3>1. IsSequence(b)
      BY <1>0, OfferIsList DEF NodeInv
    <3> QED BY <1>0, <2>1, <3>1, AcceptedOnTip, ExtensionGrows
  <2>2. ASSUME NEW i \in Workers, MineAccept(i) PROVE Grows
    <3> DEFINE b == minedBlock(i)
    <3>1. w[i].pc = "select" /\ acceptable(b) /\ Accept(b) /\ UNCHANGED pool
      BY <1>1, <2>2 DEF MineAccept, chainVars, at
    <3>2. IsSequence(b)
      BY <1>0, <3>1, MinedIsList
    <3> HIDE DEF b
    <3> QED BY <1>0, <3>1, <3>2, AcceptedOnTip, ExtensionGrows
  <2> QED BY <1>1, <2>1, <2>2, ActiveSteps DEF AcceptBlock, SyncBlock
<1>2. CASE active' = active /\ pool' # pool
  <2>1. PICK i \in Workers : AddToPool(i) \/ RemoveConfirmed(i)
    BY <1>2, PoolSteps
  <2>2. CASE AddToPool(i)
    <3>1. w[i].tx \in Txs /\ pool' = Add(pool, w[i].tx, w[i].next, w[i].bal)
      BY <1>0, <2>2 DEF AddToPool, at, NodeInv, WorkersOK, Admitting
    <3> QED BY <1>0, <1>2, <3>1, AddGrows
  <2>3. CASE RemoveConfirmed(i)
    <3>1. w[i].ids \subseteq confirmed(active) /\ pool' = RemoveIDs(pool, w[i].ids)
      BY <2>3 DEF RemoveConfirmed, at, LinearInv, InStep
    <3> QED BY <1>0, <1>2, <3>1, RemovalGrows
  <2> QED BY <2>1, <2>2, <2>3
<1>3. CASE active' = active /\ pool' = pool
  BY <1>0, <1>3, StillGrows
<1> QED BY <1>1, <1>2, <1>3

(* A worker that does not move stays in step. *)
LEMMA OthersInStep ==
    ASSUME NodeInv, NodeInv', Grows, NEW j \in Workers, w'[j] = w[j], InStep(j) PROVE InStep(j)'
<1> DEFINE x == w[j]
<1>0. /\ Len(active) \in Nat /\ Len(active') \in Nat
      /\ \A s \in Senders : NextNonce(s) \in Nat /\ NextNonce(s)' \in Nat
  <2>1. Settled(active')
    BY DEF NodeInv, ChainOK
  <2>2. Len(active') \in Nat /\ \A s \in Senders : NextNonce(s)' \in Nat
    BY <2>1, SequenceFacts DEF Settled, IsPath, States, NextNonce
  <2> QED BY <2>2, ActiveFacts
<1>1. x.pc \in Admitting => x.tx.sender \in Senders
  BY PoolAssumption DEF NodeInv, WorkersOK
<1>3. x.pc = "remove" => x.ids \subseteq confirmed(active')
  BY DEF InStep, Grows
<1>4. x.pc = "expected" => x.next \in Nat /\ x.next <= NextNonce(x.tx.sender)'
  <2>1. SUFFICES ASSUME x.pc = "expected" PROVE x.next \in Nat /\ x.next <= NextNonce(x.tx.sender)'
    OBVIOUS
  <2>2. x.tx.sender \in Senders
    BY <1>1, <2>1 DEF Admitting
  <2>3. x.next \in Nat /\ x.next <= NextNonce(x.tx.sender)
    BY <2>1 DEF InStep
  <2> DEFINE s == x.tx.sender
  <2>4. NextNonce(s) <= NextNonce(s)'
    BY <2>2 DEF Grows
  <2> QED BY <1>0, <2>2, <2>3, <2>4
<1>5. x.pc \in {"balance", "add"} =>
         /\ x.next \in 0..MaxWord
         /\ \A m \in 0..MaxWord : NextNonce(x.tx.sender)' <= m /\ m < x.next => pool'.byNonce[x.tx.sender][m] # None
  <2>1. SUFFICES ASSUME x.pc \in {"balance", "add"}, NEW m \in 0..MaxWord
                 PROVE  /\ x.next \in 0..MaxWord
                        /\ NextNonce(x.tx.sender)' <= m /\ m < x.next => pool'.byNonce[x.tx.sender][m] # None
    BY DEF InStep, Filled
  <2>2. x.tx.sender \in Senders
    BY <1>1, <2>1 DEF Admitting
  <2>3. PICK s \in Senders : s = x.tx.sender
    BY <2>2
  <2>4. x.next \in 0..MaxWord /\ (NextNonce(s) <= m /\ m < x.next => pool.byNonce[s][m] # None)
    BY <2>1, <2>3 DEF InStep, Filled
  <2>5. NextNonce(s) <= NextNonce(s)' /\ (NextNonce(s)' <= m /\ pool.byNonce[s][m] # None => pool'.byNonce[s][m] # None)
    BY DEF Grows
  <2>6. NextNonce(s)' <= m /\ m < x.next => pool'.byNonce[s][m] # None
    BY <1>0, <2>4, <2>5
  <2>7. s = x.tx.sender'
    BY <2>3
  <2> QED BY <2>3, <2>4, <2>6, <2>7
<1> QED BY <1>3, <1>4, <1>5 DEF InStep, Filled

LEMMA ExpectedIsFree ==
    ASSUME NEW s \in Senders, NEW c \in Nat, ExpectedNonce(pool, s, c) # None
    PROVE  LET n == ExpectedNonce(pool, s, c)
           IN  n \in 0..MaxWord /\ \A m \in 0..MaxWord : c <= m /\ m < n => pool.byNonce[s][m] # None
<1> DEFINE free == {n \in c..MaxWord : pool.byNonce[s][n] = None}
           n == ExpectedNonce(pool, s, c)
<1>1. free # {} /\ n = Min(free)
  BY DEF ExpectedNonce
<1>2. free \in SUBSET Nat /\ MaxWord \in Nat
  BY PoolAssumption
<1>3. n \in free /\ \A y \in free : n <= y
  <2> HIDE DEF free
  <2> QED BY <1>1, <1>2, MinOfNumbers
<1>4. n \in 0..MaxWord
  BY <1>2, <1>3
<1>5. ASSUME NEW m \in 0..MaxWord, c <= m, m < n PROVE pool.byNonce[s][m] # None
  <2>1. m \in c..MaxWord
    BY <1>5, <1>2
  <2>2. m \notin free
    BY <1>2, <1>3, <1>4, <1>5
  <2> QED BY <2>1, <2>2
<1> QED BY <1>4, <1>5

(* Where nothing was read that the chain or the pool may overtake *)
LEMMA PlainMove ==
    ASSUME NEW i, w'[i].pc \notin {"remove", "expected", "balance", "add"} PROVE InStep(i)'
BY DEF InStep

LEMMA EndsInStep == ASSUME NEW i, Ends(i) PROVE InStep(i)'
<1>1. w'[i].pc = "idle"
  BY DEF Ends, Moves
<1> QED BY <1>1, PlainMove

LEMMA MovesOnInStep == ASSUME NEW i, MovesOn(i) PROVE InStep(i)'
<1>1. w'[i].pc \in {"idle", "cand"}
  BY DEF MovesOn, Ends, Moves
<1> QED BY <1>1, PlainMove

LEMMA AdmissionInStep ==
    ASSUME LinearInv, NEW i \in Workers, NEW t,
           Submit(i, t) \/ ReadNonce(i) \/ ReadExpectedNonce(i) \/ ReadBalance(i) \/ AddToPool(i)
    PROVE  InStep(i)'
<1> DEFINE x == w[i]
<1>0. NodeInv /\ LocalsOK /\ InStep(i) /\ (x.pc \in Admitting => x.tx \in Txs)
  BY DEF LinearInv, NodeInv, WorkersOK
<1>1. CASE Submit(i, t)
  <2>1. w'[i].pc = "nonce"
    BY <1>0, <1>1, AdmissionMoves DEF Moves
  <2> QED BY <2>1, PlainMove
<1>2. CASE ReadNonce(i)
  <2>1. x.pc = "nonce" /\ active' = active
    BY <1>2 DEF ReadNonce, at, chainVars
  <2>2. PICK s \in Senders : s = x.tx.sender
    BY <1>0, <2>1, PoolAssumption DEF Admitting
  <2>3. w'[i].pc = "expected" /\ w'[i].tx = x.tx /\ w'[i].next = NextNonce(s)
    BY <1>0, <1>2, <2>2, AdmissionMoves DEF Moves
  <2>4. NextNonce(s)' = NextNonce(s) /\ NextNonce(s) \in Nat
    BY <1>0, <2>1, ActiveFacts DEF NextNonce
  <2>5. s = w'[i].tx.sender
    BY <2>2, <2>3
  <2> QED BY <2>3, <2>4, <2>5 DEF InStep
<1>3. CASE ReadExpectedNonce(i)
  <2>1. x.pc = "expected" /\ active' = active /\ pool' = pool
    BY <1>3 DEF ReadExpectedNonce, at, chainVars
  <2>2. PICK s \in Senders : s = x.tx.sender
    BY <1>0, <2>1, PoolAssumption DEF Admitting
  <2> DEFINE n == ExpectedNonce(pool, s, x.next)
  <2>3. \/ MovesOn(i)
        \/ n # None /\ w'[i].pc = "balance" /\ w'[i].tx = x.tx /\ w'[i].next = n
    BY <1>0, <1>3, <2>2, AdmissionMoves DEF Moves
  <2>4. CASE MovesOn(i)
    BY <2>4, MovesOnInStep
  <2>5. CASE n # None /\ w'[i].pc = "balance" /\ w'[i].tx = x.tx /\ w'[i].next = n
    <3>1. x.next \in Nat /\ x.next <= NextNonce(s)
      BY <1>0, <2>1, <2>2 DEF InStep
    <3>2. n \in 0..MaxWord /\ \A m \in 0..MaxWord : x.next <= m /\ m < n => pool.byNonce[s][m] # None
      BY <2>5, <3>1, ExpectedIsFree
    <3>3. PICK e : e = n
      OBVIOUS
    <3>4. NextNonce(s)' = NextNonce(s) /\ NextNonce(s) \in Nat
      BY <1>0, <2>1, ActiveFacts DEF NextNonce
    <3> HIDE DEF n
    <3>5. \A m \in 0..MaxWord : NextNonce(s)' <= m /\ m < e => pool'.byNonce[s][m] # None
      BY <2>1, <3>1, <3>2, <3>3, <3>4
    <3>6. s = w'[i].tx.sender /\ e = w'[i].next /\ e \in 0..MaxWord
      BY <2>2, <2>5, <3>2, <3>3
    <3> QED BY <2>5, <3>5, <3>6 DEF InStep, Filled
  <2> QED BY <2>3, <2>4, <2>5
<1>4. CASE ReadBalance(i)
  <2>1. x.pc = "balance" /\ active' = active /\ pool' = pool
    BY <1>4 DEF ReadBalance, at, chainVars
  <2>2. w'[i].pc = "add" /\ w'[i].tx = x.tx /\ w'[i].next = x.next
    BY <1>0, <1>4, AdmissionMoves DEF Moves
  <2>3. PICK s, e : s = x.tx.sender /\ e = x.next
    OBVIOUS
  <2>4. Filled(s, e)
    BY <1>0, <2>1, <2>3 DEF InStep
  <2>5. s = w'[i].tx.sender /\ e = w'[i].next
    BY <2>2, <2>3
  <2> QED BY <2>1, <2>2, <2>4, <2>5 DEF InStep, Filled, NextNonce
<1>5. CASE AddToPool(i)
  BY <1>0, <1>5, AdmissionMoves, MovesOnInStep
<1> QED BY <1>1, <1>2, <1>3, <1>4, <1>5

LEMMA BlockInStep ==
    ASSUME LinearInv, NEW i \in Workers, NEW b,
           AcceptBlock(i, b) \/ CopyChain(i) \/ RemoveConfirmed(i) \/ TakeReorgCandidates(i) \/ NextCandidate(i)
    PROVE  InStep(i)'
<1>0. LocalsOK
  BY DEF LinearInv, NodeInv
<1>1. CASE AcceptBlock(i, b)
  <2>1. w'[i].pc = "copy" \/ Ends(i)
    BY <1>0, <1>1, BlockMoves DEF Moves
  <2> QED BY <2>1, EndsInStep, PlainMove
<1>2. CASE CopyChain(i)
  <2>1. w'[i].pc = "remove" /\ w'[i].ids = confirmed(active) /\ active' = active
    BY <1>0, <1>2, BlockMoves DEF Moves, CopyChain, chainVars
  <2> QED BY <2>1 DEF InStep
<1>3. CASE RemoveConfirmed(i)
  <2>1. w'[i].pc = "take" \/ Ends(i)
    BY <1>0, <1>3, BlockMoves DEF Moves
  <2> QED BY <2>1, EndsInStep, PlainMove
<1>4. CASE TakeReorgCandidates(i)
  <2>1. w'[i].pc = "cand"
    BY <1>0, <1>4, BlockMoves DEF Moves
  <2> QED BY <2>1, PlainMove
<1>5. CASE NextCandidate(i)
  <2>1. w[i].pc = "cand"
    BY <1>5 DEF NextCandidate, at
  <2>2. w'[i].pc \in {"cand", "nonce"} \/ Ends(i)
    BY <1>0, <1>5, <2>1, BlockMoves DEF Moves
  <2> QED BY <2>2, EndsInStep, PlainMove
<1> QED BY <1>1, <1>2, <1>3, <1>4, <1>5

LEMMA MiningInStep ==
    ASSUME LinearInv, NEW i \in Workers, MineList(i) \/ MineTip(i) \/ MineSelect(i) \/ MineAccept(i)
    PROVE  InStep(i)'
<1>0. LocalsOK
  BY DEF LinearInv, NodeInv
<1>1. CASE MineList(i)
  <2>1. w'[i].pc = "tip"
    BY <1>0, <1>1, MiningMoves DEF Moves
  <2> QED BY <2>1, PlainMove
<1>2. CASE MineTip(i)
  <2>1. w'[i].pc = "select"
    BY <1>0, <1>2, MiningMoves DEF Moves
  <2> QED BY <2>1, PlainMove
<1>3. CASE MineSelect(i)
  <2>1. w'[i].pc = "select"
    BY <1>0, <1>3, MiningMoves DEF Moves, MineSelect, at
  <2> QED BY <2>1, PlainMove
<1>4. CASE MineAccept(i)
  <2>1. w'[i].pc = "copy" \/ Ends(i)
    BY <1>0, <1>4, MiningMoves DEF Moves
  <2> QED BY <2>1, EndsInStep, PlainMove
<1> QED BY <1>1, <1>2, <1>3, <1>4

(* Worker i takes a step: one of the admission of a transaction, of the
   handling of a block, or of mining. *)
AdmissionStep(i) ==
    \/ \E t \in Submissions : Submit(i, t)
    \/ ReadNonce(i) \/ ReadExpectedNonce(i) \/ ReadBalance(i) \/ AddToPool(i)

BlockStep(i) ==
    \/ \E b \in Offers(known, active) : AcceptBlock(i, b)
    \/ CopyChain(i) \/ RemoveConfirmed(i) \/ TakeReorgCandidates(i) \/ NextCandidate(i)

MiningStep(i) == MineList(i) \/ MineTip(i) \/ MineSelect(i) \/ MineAccept(i)

LEMMA WhoMoves ==
    ASSUME [Next]_vars
    PROVE  \/ w' = w
           \/ \E i \in Workers : AdmissionStep(i) \/ BlockStep(i) \/ MiningStep(i)
<1>1. CASE UNCHANGED vars
  BY <1>1 DEF vars
<1>2. CASE \E b \in Offers(known, active) : SyncBlock(b)
  BY <1>2 DEF SyncBlock
<1> QED BY <1>1, <1>2 DEF Next, AdmissionStep, BlockStep, MiningStep

LEMMA OthersUnmoved ==
    ASSUME LocalsOK, NEW i \in Workers, AdmissionStep(i) \/ BlockStep(i) \/ MiningStep(i)
    PROVE  \A j \in Workers : j # i => w'[j] = w[j]
<1>1. PICK y : goto(i, y)
  <2>1. CASE AdmissionStep(i)
    BY <2>1 DEF AdmissionStep, Submit, ReadNonce, ReadExpectedNonce, ReadBalance, AddToPool
  <2>2. CASE BlockStep(i)
    BY <2>2 DEF BlockStep, AcceptBlock, CopyChain, RemoveConfirmed, TakeReorgCandidates, NextCandidate
  <2>3. CASE MiningStep(i)
    BY <2>3 DEF MiningStep, MineList, MineTip, MineSelect, MineAccept
  <2> QED BY <2>1, <2>2, <2>3
<1> QED BY <1>1 DEF goto, LocalsOK

LEMMA GapFreeKept ==
    ASSUME LinearInv, NodeInv', Grows, pool'.byID \subseteq pool.byID PROVE noGap'
<1>1. ASSUME NEW t \in pool'.byID, NEW m \in NextNonce(t.sender)'..t.nonce
      PROVE  pool'.byNonce[t.sender][m] # None
  <2>1. t \in pool.byID /\ t \in Txs
    BY DEF LinearInv, NodeInv, PoolInv, PoolTypeOK
  <2>2. t.sender \in Senders /\ t.nonce \in 0..MaxWord /\ MaxWord \in Nat
    BY <2>1, PoolAssumption
  <2>3. NextNonce(t.sender) \in Nat
    BY <2>2, ActiveFacts DEF LinearInv
  <2>4. Settled(active')
    BY DEF NodeInv, ChainOK
  <2>5. NextNonce(t.sender)' \in Nat
    BY <2>2, <2>4 DEF Settled, States, NextNonce
  <2>6. NextNonce(t.sender) <= NextNonce(t.sender)'
    BY <2>2 DEF Grows
  <2>7. m \in NextNonce(t.sender)..t.nonce /\ m \in 0..MaxWord /\ NextNonce(t.sender)' <= m
    BY <1>1, <2>2, <2>3, <2>5, <2>6
  <2>8. pool.byNonce[t.sender][m] # None
    BY <2>1, <2>7 DEF LinearInv, noGap
  <2> QED BY <2>2, <2>7, <2>8 DEF Grows
<1> QED BY <1>1 DEF noGap

LEMMA AddLeavesNoGap ==
    ASSUME LinearInv, NodeInv', Grows, NEW i \in Workers, AddToPool(i) PROVE noGap'
<1> DEFINE x == w[i]
<1>0. x.pc = "add" /\ pool' = Add(pool, x.tx, x.next, x.bal) /\ active' = active /\ PoolInv
  BY DEF AddToPool, at, chainVars, LinearInv, NodeInv
<1>1. x.tx \in Txs /\ Filled(x.tx.sender, x.next)
  BY <1>0 DEF LinearInv, NodeInv, WorkersOK, Admitting, InStep
<1>2. CASE ~admits(pool, x.tx, x.next, x.bal)
  <2>1. pool' = pool
    BY <1>0, <1>2 DEF Add
  <2> QED BY <2>1, GapFreeKept
<1>3. CASE admits(pool, x.tx, x.next, x.bal)
  <2>1. PICK u \in Txs : u = x.tx
    BY <1>1
  <2>2. /\ pool'.byID = pool.byID \cup {u}
        /\ pool'.byNonce[u.sender][u.nonce] = u
        /\ \A s \in Senders, n \in 0..MaxWord :
              s # u.sender \/ n # u.nonce => pool'.byNonce[s][n] = pool.byNonce[s][n]
    BY <1>0, <1>3, <2>1, Admitted
  <2>3. Filled(u.sender, u.nonce) /\ u # None /\ u.sender \in Senders /\ u.nonce \in 0..MaxWord /\ MaxWord \in Nat
    BY <1>1, <1>3, <2>1, PoolAssumption DEF admits
  <2>4. \A s \in Senders : NextNonce(s)' = NextNonce(s) /\ NextNonce(s) \in Nat
    BY <1>0, ActiveFacts DEF NextNonce, LinearInv
  <2>5. ASSUME NEW t \in pool'.byID, NEW m \in NextNonce(t.sender)'..t.nonce
        PROVE  pool'.byNonce[t.sender][m] # None
    <3>1. t \in Txs
      BY <2>2 DEF PoolInv, PoolTypeOK, LinearInv, NodeInv
    <3>2. t.sender \in Senders /\ t.nonce \in 0..MaxWord
      BY <3>1, PoolAssumption
    <3>3. m \in NextNonce(t.sender)..t.nonce /\ m \in 0..MaxWord /\ NextNonce(t.sender) <= m /\ m <= t.nonce
      BY <2>3, <2>4, <2>5, <3>2
    <3>4. pool.byNonce[t.sender][m] # None \/ (t = u /\ m = u.nonce)
      <4>1. CASE t \in pool.byID
        BY <3>3, <4>1 DEF LinearInv, noGap
      <4>2. CASE t = u
        BY <2>3, <3>3, <4>2 DEF Filled
      <4> QED BY <2>2, <4>1, <4>2
    <3> QED BY <2>2, <2>3, <3>2, <3>3, <3>4
  <2> QED BY <2>5 DEF noGap
<1> QED BY <1>2, <1>3

LEMMA LinearInitially == Init => LinearInv
<1> SUFFICES ASSUME Init PROVE LinearInv
  OBVIOUS
<1>1. NodeInv
  BY NodeInitially
<1>2. noGap
  BY DEF Init, EmptyPool, noGap
<1>3. \A i \in Workers : InStep(i)
  <2>1. Idle.pc = "idle"
    BY DEF Idle
  <2>2. \A i \in Workers : w[i].pc = "idle"
    BY <2>1 DEF Init
  <2> QED BY <2>2 DEF InStep
<1> QED BY <1>1, <1>2, <1>3 DEF LinearInv

LEMMA LinearKeeps ==
    ASSUME OffersAreLists, LinearInv, [Next]_vars, ~reorged' PROVE LinearInv'
<1>0. NodeInv /\ LocalsOK
  BY DEF LinearInv, NodeInv
<1>1. NodeInv'
  BY <1>0, NodeKeeps
<1>2. Grows
  BY LinearGrows
<1>3. ASSUME NEW j \in Workers PROVE InStep(j)'
  <2>1. InStep(j)
    BY DEF LinearInv
  <2>2. CASE w' = w
    BY <1>0, <1>1, <1>2, <2>1, <2>2, OthersInStep
  <2>3. ASSUME NEW i \in Workers, AdmissionStep(i) \/ BlockStep(i) \/ MiningStep(i) PROVE InStep(j)'
    <3>1. CASE j = i
      BY <2>3, <3>1, AdmissionInStep, BlockInStep, MiningInStep DEF AdmissionStep, BlockStep, MiningStep
    <3>2. CASE j # i
      <4>1. w'[j] = w[j]
        BY <1>0, <2>3, <3>2, OthersUnmoved
      <4> QED BY <1>0, <1>1, <1>2, <2>1, <4>1, OthersInStep
    <3> QED BY <3>1, <3>2
  <2> QED BY <2>2, <2>3, WhoMoves
<1>4. noGap'
  <2>1. CASE pool' = pool
    BY <1>1, <1>2, <2>1, GapFreeKept
  <2>2. CASE pool' # pool
    <3>1. PICK i \in Workers : AddToPool(i) \/ RemoveConfirmed(i)
      BY <2>2, PoolSteps
    <3>2. CASE AddToPool(i)
      BY <1>1, <1>2, <3>2, AddLeavesNoGap
    <3>3. CASE RemoveConfirmed(i)
      <4>1. pool' = RemoveIDs(pool, w[i].ids)
        BY <3>3 DEF RemoveConfirmed
      <4>2. pool'.byID \subseteq pool.byID
        BY <4>1 DEF RemoveIDs
      <4> QED BY <1>1, <1>2, <4>2, GapFreeKept
    <3> QED BY <3>1, <3>2, <3>3
  <2> QED BY <2>1, <2>2
<1> QED BY <1>1, <1>3, <1>4 DEF LinearInv

(* A reorganization is not forgotten. *)
LEMMA ReorgedStays ==
    ASSUME [Next]_vars, ~reorged' PROVE ~reorged
<1>1. ASSUME NEW i \in Workers, AdmissionStep(i) PROVE ~reorged
  BY <1>1 DEF AdmissionStep, Submit, ReadNonce, ReadExpectedNonce, ReadBalance, AddToPool, chainVars
<1>2. ASSUME NEW i \in Workers, BlockStep(i) PROVE ~reorged
  BY <1>2 DEF BlockStep, AcceptBlock, Accept, CopyChain, RemoveConfirmed, TakeReorgCandidates, NextCandidate, chainVars
<1>3. ASSUME NEW i \in Workers, MiningStep(i) PROVE ~reorged
  BY <1>3 DEF MiningStep, MineList, MineTip, MineSelect, MineAccept, Accept, chainVars
<1>4. CASE \E b \in Offers(known, active) : SyncBlock(b)
  BY <1>4 DEF SyncBlock, Accept
<1>5. CASE UNCHANGED vars
  BY <1>5 DEF vars
<1> QED BY <1>1, <1>2, <1>3, <1>4, <1>5 DEF Next, AdmissionStep, BlockStep, MiningStep

GrowingInv == NodeInv /\ (~reorged => LinearInv)

LEMMA GrowingInitially == Init => GrowingInv
BY NodeInitially, LinearInitially DEF GrowingInv

LEMMA GrowingKeeps ==
    ASSUME OffersAreLists, GrowingInv, [Next]_vars PROVE GrowingInv'
<1>1. NodeInv'
  BY NodeKeeps DEF GrowingInv
<1>2. ASSUME ~reorged' PROVE LinearInv'
  BY <1>2, ReorgedStays, LinearKeeps DEF GrowingInv
<1> QED BY <1>1, <1>2 DEF GrowingInv

(* Until the first reorganization, whatever forks the peers send, the pool of a
   sender has no gap from the confirmed nonce on, however many handlers, miners
   and syncs interleave between the nonce that acceptTx reads and its Add. *)
THEOREM PoolHasNoGaps ==
    ASSUME OffersAreLists
    PROVE  Spec => []Contiguous
<1>1. GrowingInv /\ [Next]_vars => GrowingInv'
  BY GrowingKeeps
<1>2. GrowingInv => Contiguous
  BY DEF GrowingInv, LinearInv, Contiguous
<1> QED BY <1>1, <1>2, GrowingInitially, PTL DEF Spec

(* And what acceptBlock and API.mine take out of the pool until then is confirmed
   by the active chain at that moment, although they copied the chain earlier. *)
THEOREM OnlyConfirmedLeave ==
    ASSUME OffersAreLists
    PROVE  Spec => RemovedAreConfirmed
<1>1. GrowingInv /\ [Next]_vars => GrowingInv'
  BY GrowingKeeps
<1>2. ASSUME GrowingInv, [Next]_vars
      PROVE  [~reorged => pool.byID \ pool'.byID \subseteq confirmed(active)]_vars
  <2>0. SUFFICES ASSUME LinearInv PROVE pool.byID \ pool'.byID \subseteq confirmed(active)
    BY <1>2 DEF GrowingInv
  <2>1. CASE pool' = pool
    BY <2>1
  <2>2. CASE pool' # pool
    <3>1. PICK i \in Workers : AddToPool(i) \/ RemoveConfirmed(i)
      BY <1>2, <2>2, PoolSteps
    <3>2. CASE AddToPool(i)
      <4>1. pool' = Add(pool, w[i].tx, w[i].next, w[i].bal)
        BY <3>2 DEF AddToPool
      <4> QED BY <4>1 DEF Add
    <3>3. CASE RemoveConfirmed(i)
      <4>1. w[i].ids \subseteq confirmed(active) /\ pool' = RemoveIDs(pool, w[i].ids)
        BY <2>0, <3>3 DEF RemoveConfirmed, at, LinearInv, InStep
      <4> QED BY <4>1 DEF RemoveIDs
    <3> QED BY <3>1, <3>2, <3>3
  <2> QED BY <2>1, <2>2
<1> QED BY <1>1, <1>2, GrowingInitially, PTL DEF Spec, RemovedAreConfirmed

-----------------------------------------------------------------------------
(* Any number of handlers and syncs, whatever forks the peers send *)

(* Some handler is going to take t out of the pool. *)
Covered(t) == \E i \in Workers : w[i].pc = "copy" \/ (w[i].pc = "remove" /\ t \in w[i].ids)

StaleInv == \A t \in pool.byID \cap confirmed(active) : t \in stale \/ Covered(t)

(* A handler of a block has no candidates before it has taken them. *)
Empty(i) ==
    /\ w[i].op = "block" /\ w[i].pc \in {"idle", "copy", "remove", "take", "tip", "select"} => w[i].cands = <<>>
    /\ w[i].pc = "take" => w[i].op = "block"

LostInv == LostAreCandidates /\ lost \cap confirmed(active) = {} /\ \A i \in Workers : Empty(i)

HistoryInv == NodeInv /\ StaleInv /\ LostInv

LEMMA OthersCover ==
    ASSUME NEW i \in Workers, NEW t, \A j \in Workers : j # i => w'[j] = w[j], Covered(t),
           w[i].pc \notin {"copy", "remove"}
    PROVE  Covered(t)'
<1>1. PICK j \in Workers : w[j].pc = "copy" \/ (w[j].pc = "remove" /\ t \in w[j].ids)
  BY DEF Covered
<1>2. w'[j] = w[j]
  BY <1>1
<1> QED BY <1>1, <1>2 DEF Covered

(* A step of worker i that leaves the chain alone and drops nothing it carries
   keeps what is lost in sight. *)
LEMMA NothingDropped ==
    ASSUME LostInv, NEW i \in Workers, \A j \in Workers : j # i => w'[j] = w[j],
           active' = active, ToSet(reorg) \subseteq ToSet(reorg'), lost' \subseteq lost,
           \A t \in lost' : carries(i, t) => carries(i, t)'
    PROVE  LostAreCandidates' /\ lost' \cap confirmed(active') = {}
<1>1. lost' \cap confirmed(active') = {}
  BY DEF LostInv
<1>2. ASSUME NEW t \in lost' PROVE t \in ToSet(reorg') \/ \E j \in Workers : carries(j, t)'
  <2>1. t \in ToSet(reorg) \/ \E j \in Workers : carries(j, t)
    BY DEF LostInv, LostAreCandidates
  <2>2. ASSUME NEW j \in Workers, carries(j, t), j # i PROVE carries(j, t)'
    <3>1. w'[j] = w[j]
      BY <2>2
    <3> QED BY <2>2, <3>1 DEF carries
  <2> QED BY <2>1, <2>2
<1>3. LostAreCandidates'
  BY <1>2 DEF LostAreCandidates
<1> QED BY <1>1, <1>3

LEMMA EmptyStays ==
    ASSUME LostInv, NEW i \in Workers, \A j \in Workers : j # i => w'[j] = w[j], Empty(i)'
    PROVE  \A j \in Workers : Empty(j)'
<1>1. ASSUME NEW j \in Workers, j # i PROVE Empty(j)'
  <2>1. w'[j] = w[j] /\ Empty(j)
    BY <1>1 DEF LostInv
  <2> QED BY <2>1 DEF Empty
<1> QED BY <1>1

LEMMA AdmissionHistory ==
    ASSUME HistoryInv, NEW i \in Workers, AdmissionStep(i) PROVE StaleInv' /\ LostInv'
<1> DEFINE x == w[i]
<1>0. LocalsOK /\ LostInv /\ StaleInv
  BY DEF HistoryInv, NodeInv
<1>1. \A j \in Workers : j # i => w'[j] = w[j]
  BY <1>0, OthersUnmoved
<1>2. active' = active /\ reorg' = reorg
  BY DEF AdmissionStep, Submit, ReadNonce, ReadExpectedNonce, ReadBalance, AddToPool, chainVars
<1>3. x.pc \in {"idle", "nonce", "expected", "balance", "add"}
  BY DEF AdmissionStep, Submit, ReadNonce, ReadExpectedNonce, ReadBalance, AddToPool, at
<1>4. ASSUME NEW t, Covered(t) PROVE Covered(t)'
  BY <1>1, <1>3, <1>4, OthersCover
<1>5. StaleInv'
  <2>1. CASE pool' = pool /\ stale' = stale
    BY <1>0, <1>2, <1>4, <2>1 DEF StaleInv
  <2>2. CASE AddToPool(i)
    <3>1. pool' = Add(pool, x.tx, x.next, x.bal) /\ stale' = stale \cup ({x.tx} \cap confirmed(active))
      BY <2>2 DEF AddToPool
    <3>2. pool'.byID \subseteq pool.byID \cup {x.tx}
      BY <3>1 DEF Add
    <3>3. ASSUME NEW t \in pool'.byID \cap confirmed(active') PROVE t \in stale' \/ Covered(t)'
      <4>1. CASE t = x.tx
        BY <1>2, <3>1, <3>3, <4>1
      <4>2. CASE t \in pool.byID
        <5>1. t \in stale \/ Covered(t)
          BY <1>0, <1>2, <3>3, <4>2 DEF StaleInv
        <5> QED BY <1>4, <3>1, <5>1
      <4> QED BY <3>2, <3>3, <4>1, <4>2
    <3> QED BY <3>3 DEF StaleInv
  <2> QED BY <2>1, <2>2 DEF AdmissionStep, Submit, ReadNonce, ReadExpectedNonce, ReadBalance
<1>6. Empty(i)' /\ lost' \subseteq lost /\ \A t \in lost' : carries(i, t) => carries(i, t)'
  <2>1. CASE \E t \in Submissions : Submit(i, t)
    <3>1. PICK t \in Submissions : Submit(i, t)
      BY <2>1
    <3>2. w'[i].pc = "nonce" /\ w'[i].op = "submit" /\ lost' = lost /\ x.pc = "idle"
      BY <1>0, <3>1, AdmissionMoves DEF Moves, Submit, at
    <3>3. x.op = "block" => x.cands = <<>>
      BY <1>0, <3>2 DEF LostInv, Empty
    <3>4. ASSUME NEW u PROVE ~carries(i, u)
      BY <3>2, <3>3 DEF carries, ToSet
    <3>5. Empty(i)'
      BY <3>2 DEF Empty
    <3> QED BY <3>2, <3>4, <3>5
  <2>2. ASSUME lost' = lost, w'[i].op = x.op, w'[i].cands = x.cands, w'[i].tx = x.tx,
               w'[i].pc \in {"expected", "balance", "add"}
        PROVE  Empty(i)' /\ lost' \subseteq lost /\ \A t \in lost' : carries(i, t) => carries(i, t)'
    <3>1. ASSUME NEW t, carries(i, t) PROVE carries(i, t)'
      BY <2>2, <3>1 DEF carries
    <3>2. Empty(i)'
      BY <2>2 DEF Empty
    <3> QED BY <2>2, <3>1, <3>2
  <2>3. ASSUME lost' = lost \ {x.tx}, MovesOn(i)
        PROVE  Empty(i)' /\ lost' \subseteq lost /\ \A t \in lost' : carries(i, t) => carries(i, t)'
    <3>1. \/ x.op = "block" /\ w'[i].op = x.op /\ w'[i].pc = "cand" /\ w'[i].cands = x.cands
          \/ x.op # "block" /\ w'[i].op = "none" /\ w'[i].pc = "idle"
      BY <2>3 DEF MovesOn, Moves, Ends
    <3>2. ASSUME NEW t \in lost', carries(i, t) PROVE carries(i, t)'
      <4>1. t # x.tx /\ x.op = "block"
        BY <2>3, <3>2 DEF carries
      <4> QED BY <3>1, <3>2, <4>1 DEF carries
    <3>3. Empty(i)'
      BY <3>1 DEF Empty
    <3> QED BY <2>3, <3>2, <3>3
  <2>4. CASE ReadNonce(i)
    <3>1. lost' = lost /\ w'[i].op = x.op /\ w'[i].cands = x.cands /\ w'[i].tx = x.tx /\ w'[i].pc = "expected"
      BY <1>0, <2>4, AdmissionMoves DEF Moves, ReadNonce
    <3> QED BY <2>2, <3>1
  <2>5. CASE ReadExpectedNonce(i)
    <3> DEFINE n == ExpectedNonce(pool, x.tx.sender, x.next)
    <3>1. \/ n = None /\ MovesOn(i)
          \/ n # None /\ w'[i].op = x.op /\ w'[i].cands = x.cands /\ w'[i].tx = x.tx /\ w'[i].pc = "balance"
      BY <1>0, <2>5, AdmissionMoves DEF Moves
    <3>2. lost' = IF n = None THEN lost \ {x.tx} ELSE lost
      BY <2>5 DEF ReadExpectedNonce
    <3> HIDE DEF n
    <3> QED BY <2>2, <2>3, <3>1, <3>2
  <2>6. CASE ReadBalance(i)
    <3>1. lost' = lost /\ w'[i].op = x.op /\ w'[i].cands = x.cands /\ w'[i].tx = x.tx /\ w'[i].pc = "add"
      BY <1>0, <2>6, AdmissionMoves DEF Moves, ReadBalance
    <3> QED BY <2>2, <3>1
  <2>7. CASE AddToPool(i)
    <3>1. MovesOn(i) /\ lost' = lost \ {x.tx}
      BY <1>0, <2>7, AdmissionMoves DEF AddToPool
    <3> QED BY <2>3, <3>1
  <2> QED BY <2>1, <2>4, <2>5, <2>6, <2>7 DEF AdmissionStep
<1>7. LostAreCandidates' /\ lost' \cap confirmed(active') = {}
  BY <1>0, <1>1, <1>2, <1>6, NothingDropped
<1>8. \A j \in Workers : Empty(j)'
  BY <1>0, <1>1, <1>6, EmptyStays
<1> QED BY <1>5, <1>7, <1>8 DEF LostInv

(* A block becomes the best, or not, by worker i, which carries nothing. *)
LEMMA AcceptHistory ==
    ASSUME HistoryInv, NEW b, IsSequence(b), acceptable(b), Accept(b), UNCHANGED pool,
           NEW u, staleAfter(b, u),
           NEW S \in SUBSET Workers,
           \A j \in Workers \ S : w'[j] = w[j],
           \A j \in S : w[j].pc \in {"idle", "select"} /\ Empty(j)',
           Len(b) > Len(active) => pool.byID \subseteq u \/ \E j \in S : w'[j].pc = "copy"
    PROVE  StaleInv' /\ LostInv'
<1>0. ChainOK /\ StaleInv /\ LostInv
  BY DEF HistoryInv, NodeInv
<1>1. ASSUME NEW j \in S, NEW t PROVE ~carries(j, t)
  <2>1. w[j].op = "block" => w[j].cands = <<>>
    BY <1>0 DEF LostInv, Empty
  <2> QED BY <2>1 DEF carries, ToSet
<1>2. ASSUME NEW t, NEW j \in Workers, carries(j, t) PROVE carries(j, t)'
  <2>1. w'[j] = w[j]
    BY <1>1, <1>2
  <2> QED BY <1>2, <2>1 DEF carries
<1>3. \A j \in Workers : Empty(j)'
  <2>1. ASSUME NEW j \in Workers \ S PROVE Empty(j)'
    BY <1>0 DEF LostInv, Empty
  <2> QED BY <2>1
<1>4. CASE Len(b) > Len(active)
  <2>1. /\ active' = b /\ reorg' = losing(b)
        /\ lost' = ((lost \ ToSet(reorg)) \cup confirmed(active)) \ confirmed(b)
        /\ stale' = (stale \cup u) \cap confirmed(b)
    BY <1>4 DEF Accept, staleAfter
  <2>2. confirmed(active) \subseteq confirmed(b) \cup ToSet(losing(b))
    BY <1>0, LosingIsKept
  <2>3. ASSUME NEW t \in lost' PROVE t \in ToSet(reorg') \/ \E j \in Workers : carries(j, t)'
    <3>1. CASE t \in confirmed(active)
      BY <2>1, <2>2, <2>3, <3>1
    <3>2. CASE t \in lost \ ToSet(reorg)
      <4>1. PICK j \in Workers : carries(j, t)
        BY <1>0, <3>2 DEF LostInv, LostAreCandidates
      <4> QED BY <1>2, <4>1
    <3> QED BY <2>1, <2>3, <3>1, <3>2
  <2>4. LostAreCandidates' /\ lost' \cap confirmed(active') = {}
    <3>1. LostAreCandidates'
      BY <2>3 DEF LostAreCandidates
    <3> QED BY <2>1, <3>1
  <2>5. StaleInv'
    <3>1. CASE pool.byID \subseteq u
      BY <2>1, <3>1 DEF StaleInv
    <3>2. CASE \E j \in S : w'[j].pc = "copy"
      BY <3>2 DEF StaleInv, Covered
    <3> QED BY <1>4, <3>1, <3>2
  <2> QED BY <1>3, <2>4, <2>5 DEF LostInv
<1>5. CASE ~(Len(b) > Len(active))
  <2>1. active' = active /\ reorg' = reorg /\ lost' = lost /\ stale' = stale
    BY <1>5 DEF Accept, staleAfter
  <2>2. LostAreCandidates' /\ lost' \cap confirmed(active') = {}
    <3>1. ASSUME NEW t \in lost' PROVE t \in ToSet(reorg') \/ \E j \in Workers : carries(j, t)'
      BY <1>0, <1>2, <2>1 DEF LostInv, LostAreCandidates
    <3>2. LostAreCandidates'
      BY <3>1 DEF LostAreCandidates
    <3> QED BY <1>0, <2>1, <3>2 DEF LostInv
  <2>3. ASSUME NEW t, Covered(t) PROVE Covered(t)'
    <3>1. PICK j \in Workers : w[j].pc = "copy" \/ (w[j].pc = "remove" /\ t \in w[j].ids)
      BY <2>3 DEF Covered
    <3>2. w'[j] = w[j]
      BY <3>1
    <3> QED BY <3>1, <3>2 DEF Covered
  <2>4. StaleInv'
    BY <1>0, <2>1, <2>3 DEF StaleInv
  <2> QED BY <1>3, <2>2, <2>4 DEF LostInv
<1> QED BY <1>4, <1>5

LEMMA HeadAndTail ==
    ASSUME NEW c \in Seq(Txs), c # <<>>, NEW t \in ToSet(c) PROVE t = Head(c) \/ t \in ToSet(Tail(c))
<1>1. PICK k \in 1..Len(c) : t = c[k]
  BY DEF ToSet
<1>2. CASE k = 1
  BY <1>1, <1>2
<1>3. CASE k # 1
  <2>1. k - 1 \in 1..Len(Tail(c)) /\ Tail(c)[k - 1] = c[k] /\ DOMAIN Tail(c) = 1..Len(Tail(c))
    BY <1>1, <1>3
  <2> QED BY <1>1, <2>1 DEF ToSet
<1> QED BY <1>2, <1>3

LEMMA BlockHistory ==
    ASSUME OffersAreLists, HistoryInv, NEW i \in Workers, BlockStep(i) PROVE StaleInv' /\ LostInv'
<1> DEFINE x == w[i]
<1>0. NodeInv /\ LocalsOK /\ LostInv /\ StaleInv /\ Empty(i)
  BY DEF HistoryInv, NodeInv, LostInv
<1>1. \A j \in Workers : j # i => w'[j] = w[j]
  BY <1>0, OthersUnmoved
<1>2. ASSUME NEW b \in Offers(known, active), AcceptBlock(i, b) PROVE StaleInv' /\ LostInv'
  <2>1. IsSequence(b) /\ acceptable(b) /\ Accept(b) /\ pool' = pool /\ staleAfter(b, {}) /\ x.pc = "idle"
    BY <1>0, <1>2, OfferIsList DEF AcceptBlock, at, NodeInv
  <2>2. \/ Len(b) > Len(active) /\ w'[i].pc = "copy" /\ w'[i].cands = <<>>
        \/ ~(Len(b) > Len(active)) /\ w'[i].op = "none" /\ w'[i].pc = "idle"
    BY <1>0, <1>2, BlockMoves DEF Moves, Ends
  <2>3. Empty(i)'
    BY <2>2 DEF Empty
  <2> DEFINE S == {i}
  <2>4. /\ S \in SUBSET Workers
        /\ \A j \in Workers \ S : w'[j] = w[j]
        /\ \A j \in S : w[j].pc \in {"idle", "select"} /\ Empty(j)'
        /\ Len(b) > Len(active) => pool.byID \subseteq {} \/ \E j \in S : w'[j].pc = "copy"
    BY <1>1, <2>1, <2>2, <2>3
  <2> HIDE DEF S
  <2> QED BY <2>1, <2>4, AcceptHistory
<1>3. ASSUME active' = active, ToSet(reorg) \subseteq ToSet(reorg'), lost' = lost, Empty(i)',
             \A t \in lost' : carries(i, t) => carries(i, t)'
      PROVE  LostInv'
  <2>1. LostAreCandidates' /\ lost' \cap confirmed(active') = {}
    BY <1>0, <1>1, <1>3, NothingDropped
  <2>2. \A j \in Workers : Empty(j)'
    BY <1>0, <1>1, <1>3, EmptyStays
  <2> QED BY <2>1, <2>2 DEF LostInv
<1>4. CASE CopyChain(i)
  <2>1. x.pc = "copy" /\ active' = active /\ reorg' = reorg /\ lost' = lost /\ stale' = stale /\ pool' = pool
    BY <1>4 DEF CopyChain, at, chainVars
  <2>2. w'[i].pc = "remove" /\ w'[i].ids = confirmed(active) /\ w'[i].op = x.op /\ w'[i].cands = x.cands
    BY <1>0, <1>4, BlockMoves DEF Moves
  <2>3. Empty(i)'
    BY <1>0, <2>1, <2>2 DEF Empty
  <2>4. ASSUME NEW t, carries(i, t) PROVE carries(i, t)'
    BY <2>1, <2>2, <2>4 DEF carries
  <2>5. LostInv'
    BY <1>3, <2>1, <2>3, <2>4
  <2>6. ASSUME NEW t \in confirmed(active') PROVE Covered(t)'
    BY <2>1, <2>2, <2>6 DEF Covered
  <2> QED BY <2>5, <2>6 DEF StaleInv
<1>5. CASE RemoveConfirmed(i)
  <2>1. /\ x.pc = "remove" /\ active' = active /\ reorg' = reorg /\ lost' = lost
        /\ stale' = stale \ x.ids /\ pool' = RemoveIDs(pool, x.ids)
    BY <1>5 DEF RemoveConfirmed, at, chainVars
  <2>2. \/ x.op = "block" /\ w'[i].pc = "take" /\ w'[i].op = x.op /\ w'[i].cands = x.cands
        \/ x.op # "block" /\ w'[i].op = "none" /\ w'[i].pc = "idle"
    BY <1>0, <1>5, BlockMoves DEF Moves, Ends
  <2>3. Empty(i)'
    BY <1>0, <2>1, <2>2 DEF Empty
  <2>4. ASSUME NEW t, carries(i, t) PROVE carries(i, t)'
    BY <2>1, <2>2, <2>4 DEF carries
  <2>5. LostInv'
    BY <1>3, <2>1, <2>3, <2>4
  <2>6. ASSUME NEW t \in pool'.byID \cap confirmed(active') PROVE t \in stale' \/ Covered(t)'
    <3>1. t \in pool.byID /\ t \notin x.ids
      BY <2>1, <2>6 DEF RemoveIDs
    <3>2. CASE t \in stale
      BY <2>1, <3>1, <3>2
    <3>3. CASE Covered(t)
      <4>1. PICK j \in Workers : w[j].pc = "copy" \/ (w[j].pc = "remove" /\ t \in w[j].ids)
        BY <3>3 DEF Covered
      <4>2. w'[j] = w[j]
        BY <1>1, <2>1, <3>1, <4>1
      <4> QED BY <4>1, <4>2 DEF Covered
    <3> QED BY <1>0, <2>1, <2>6, <3>1, <3>2, <3>3 DEF StaleInv
  <2> QED BY <2>5, <2>6 DEF StaleInv
<1>6. ASSUME active' = active, pool' = pool, stale' = stale, x.pc \in {"take", "cand"} PROVE StaleInv'
  <2>1. ASSUME NEW t, Covered(t) PROVE Covered(t)'
    BY <1>1, <1>6, <2>1, OthersCover
  <2> QED BY <1>0, <1>6, <2>1 DEF StaleInv
<1>7. CASE TakeReorgCandidates(i)
  <2>1. /\ x.pc = "take" /\ active' = active /\ reorg' = <<>> /\ lost' = lost /\ stale' = stale /\ pool' = pool
    BY <1>7 DEF TakeReorgCandidates, at
  <2>2. w'[i].pc = "cand" /\ w'[i].op = x.op /\ w'[i].cands = reorg
    BY <1>0, <1>7, BlockMoves DEF Moves
  <2>3. Empty(i)'
    BY <2>2 DEF Empty
  <2>4. \A j \in Workers : Empty(j)'
    BY <1>0, <1>1, <2>3, EmptyStays
  <2>5. x.op = "block"
    BY <1>0, <2>1 DEF Empty
  <2>6. ASSUME NEW t \in lost' PROVE \E j \in Workers : carries(j, t)'
    <3>1. CASE t \in ToSet(reorg)
      BY <2>2, <2>5, <3>1 DEF carries
    <3>2. ASSUME NEW j \in Workers, carries(j, t) PROVE carries(j, t)'
      <4>1. j # i
        BY <1>0, <2>1, <3>2 DEF carries, Empty, ToSet
      <4>2. w'[j] = w[j]
        BY <1>1, <4>1
      <4> QED BY <3>2, <4>2 DEF carries
    <3> QED BY <1>0, <2>1, <2>6, <3>1, <3>2 DEF LostInv, LostAreCandidates
  <2>7. LostInv'
    BY <1>0, <2>1, <2>4, <2>6 DEF LostInv, LostAreCandidates
  <2> QED BY <1>6, <2>1, <2>7
<1>8. CASE NextCandidate(i)
  <2>1. /\ x.pc = "cand" /\ active' = active /\ reorg' = reorg /\ lost' = lost /\ stale' = stale /\ pool' = pool
    BY <1>8 DEF NextCandidate, at, chainVars
  <2>2. x.cands \in Seq(Txs)
    BY <1>0 DEF NodeInv, WorkersOK
  <2>3. CASE x.cands = <<>>
    <3>1. w'[i].op = "none" /\ w'[i].pc = "idle"
      BY <1>0, <1>8, <2>3, BlockMoves DEF Moves, Ends
    <3>2. ASSUME NEW t PROVE ~carries(i, t)
      BY <2>1, <2>3 DEF carries, ToSet
    <3>3. Empty(i)'
      BY <3>1 DEF Empty
    <3>4. LostInv'
      BY <1>3, <2>1, <3>2, <3>3
    <3> QED BY <1>6, <2>1, <3>4
  <2>4. CASE x.cands # <<>>
    <3> DEFINE h == Head(x.cands)
               l == Tail(x.cands)
    <3>1. /\ w'[i].op = x.op /\ w'[i].cands = l
          /\ \/ h \in confirmed(active) /\ w'[i].pc = "cand"
             \/ w'[i].pc = "nonce" /\ w'[i].tx = h
      BY <1>0, <1>8, <2>1, <2>4, BlockMoves DEF Moves
    <3>2. \A t \in ToSet(x.cands) : t = h \/ t \in ToSet(l)
      BY <2>2, <2>4, HeadAndTail
    <3> HIDE DEF h, l
    <3>3. ASSUME NEW t \in lost', carries(i, t) PROVE carries(i, t)'
      <4>1. x.op = "block" /\ t \in ToSet(x.cands) /\ t \notin confirmed(active)
        BY <1>0, <2>1, <3>3 DEF carries, LostInv
      <4> QED BY <3>1, <3>2, <4>1 DEF carries
    <3>4. Empty(i)'
      BY <3>1 DEF Empty
    <3>5. LostInv'
      BY <1>3, <2>1, <3>3, <3>4
    <3> QED BY <1>6, <2>1, <3>5
  <2> QED BY <2>3, <2>4
<1> QED BY <1>2, <1>4, <1>5, <1>7, <1>8 DEF BlockStep

LEMMA MiningHistory ==
    ASSUME HistoryInv, NEW i \in Workers, MiningStep(i) PROVE StaleInv' /\ LostInv'
<1> DEFINE x == w[i]
<1>0. NodeInv /\ LocalsOK /\ LostInv /\ StaleInv /\ Empty(i)
  BY DEF HistoryInv, NodeInv, LostInv
<1>1. \A j \in Workers : j # i => w'[j] = w[j]
  BY <1>0, OthersUnmoved
<1>2. ASSUME UNCHANGED <<chainVars, pool, lost, stale>>, x.pc \in {"idle", "tip", "select"}, Empty(i)'
      PROVE  StaleInv' /\ LostInv'
  <2>1. active' = active /\ reorg' = reorg /\ lost' = lost /\ stale' = stale /\ pool' = pool
    BY <1>2 DEF chainVars
  <2>2. ASSUME NEW t PROVE ~carries(i, t)
    BY <1>0, <1>2 DEF carries, Empty, ToSet
  <2>3. LostAreCandidates' /\ lost' \cap confirmed(active') = {}
    BY <1>0, <1>1, <2>1, <2>2, NothingDropped
  <2>4. \A j \in Workers : Empty(j)'
    BY <1>0, <1>1, <1>2, EmptyStays
  <2>5. ASSUME NEW t, Covered(t) PROVE Covered(t)'
    BY <1>1, <1>2, <2>5, OthersCover
  <2>6. StaleInv'
    BY <1>0, <2>1, <2>5 DEF StaleInv
  <2> QED BY <2>3, <2>4, <2>6 DEF LostInv
<1>3. CASE MineList(i)
  <2>1. w'[i].op = "mine" /\ w'[i].pc = "tip"
    BY <1>0, <1>3, MiningMoves DEF Moves
  <2>2. Empty(i)'
    BY <2>1 DEF Empty
  <2> QED BY <1>2, <1>3, <2>2 DEF MineList, at
<1>4. CASE MineTip(i)
  <2>1. w'[i].op = x.op /\ w'[i].pc = "select" /\ w'[i].cands = x.cands /\ x.pc = "tip"
    BY <1>0, <1>4, MiningMoves DEF Moves, MineTip, at
  <2>2. Empty(i)'
    BY <1>0, <2>1 DEF Empty
  <2> QED BY <1>2, <1>4, <2>1, <2>2 DEF MineTip
<1>5. CASE MineSelect(i)
  <2>1. w'[i].op = x.op /\ w'[i].pc = "select" /\ w'[i].cands = x.cands /\ x.pc = "select"
    BY <1>0, <1>5, MiningMoves DEF Moves, MineSelect, at
  <2>2. Empty(i)'
    BY <1>0, <2>1 DEF Empty
  <2> QED BY <1>2, <1>5, <2>1, <2>2 DEF MineSelect
<1>6. CASE MineAccept(i)
  <2> DEFINE b == minedBlock(i)
  <2>1. x.pc = "select" /\ pool' = pool
    BY <1>6 DEF MineAccept, at
  <2>2. CASE ~acceptable(b)
    <3>1. UNCHANGED <<chainVars, pool, lost, stale>> /\ goto(i, Idle)
      BY <1>6, <2>2 DEF MineAccept
    <3>2. w'[i].op = "none" /\ w'[i].pc = "idle"
      BY <1>0, <3>1, IdleEnds DEF Ends, Moves
    <3>3. Empty(i)'
      BY <3>2 DEF Empty
    <3> QED BY <1>2, <2>1, <3>1, <3>3
  <2>3. CASE acceptable(b)
    <3>1. Accept(b) /\ staleAfter(b, {})
      BY <1>6, <2>3 DEF MineAccept
    <3>2. w'[i].op = x.op /\ w'[i].pc = "copy" /\ w'[i].cands = x.cands
      <4>1. goto(i, SetTxs(x, "copy", <<>>)) /\ IsLocal(x)
        BY <1>0, <1>6, <2>3 DEF MineAccept, SetTxs, LocalsOK
      <4>2. goto(i, Local(x.op, "copy", x.tx, x.next, x.bal, x.ids, x.cands, <<>>, x.tip, x.run, x.todo))
        BY <4>1, FieldUpdates
      <4>3. Moves(i, x.op, "copy", x.tx, x.next, x.ids, x.cands, x.tip)
        BY <1>0, <4>2, MovesTo
      <4> QED BY <4>3 DEF Moves
    <3>3. Empty(i)' /\ IsSequence(b)
      BY <1>0, <2>1, <3>2, MinedIsList DEF Empty
    <3> DEFINE S == {i}
    <3>4. /\ S \in SUBSET Workers
          /\ \A j \in Workers \ S : w'[j] = w[j]
          /\ \A j \in S : w[j].pc \in {"idle", "select"} /\ Empty(j)'
          /\ Len(b) > Len(active) => pool.byID \subseteq {} \/ \E j \in S : w'[j].pc = "copy"
      BY <1>1, <2>1, <3>2, <3>3
    <3> HIDE DEF S, b
    <3> QED BY <2>1, <2>3, <3>1, <3>3, <3>4, AcceptHistory
  <2> QED BY <2>2, <2>3
<1> QED BY <1>3, <1>4, <1>5, <1>6 DEF MiningStep

LEMMA HistoryInitially == Init => HistoryInv
<1> SUFFICES ASSUME Init PROVE HistoryInv
  OBVIOUS
<1>1. \A i \in Workers : w[i].pc = "idle" /\ w[i].op = "none"
  BY DEF Init, Idle
<1>2. pool.byID = {} /\ lost = {}
  BY DEF Init, EmptyPool
<1>3. StaleInv /\ LostInv
  BY <1>1, <1>2 DEF StaleInv, LostInv, LostAreCandidates, Empty
<1> QED BY <1>3, NodeInitially DEF HistoryInv

LEMMA HistoryKeeps ==
    ASSUME OffersAreLists, HistoryInv, [Next]_vars PROVE HistoryInv'
<1>0. NodeInv'
  BY NodeKeeps DEF HistoryInv
<1>1. CASE UNCHANGED vars
  <2>1. StaleInv'
    BY <1>1 DEF vars, HistoryInv, StaleInv, Covered
  <2>2. LostInv'
    BY <1>1 DEF vars, HistoryInv, LostInv, LostAreCandidates, Empty, carries
  <2> QED BY <1>0, <2>1, <2>2 DEF HistoryInv
<1>2. ASSUME NEW b \in Offers(known, active), SyncBlock(b) PROVE StaleInv' /\ LostInv'
  <2>1. /\ IsSequence(b) /\ acceptable(b) /\ Accept(b) /\ pool' = pool
        /\ staleAfter(b, pool.byID) /\ w' = w
    BY <1>2, OfferIsList DEF SyncBlock, HistoryInv, NodeInv
  <2> DEFINE S == {}
             u == pool.byID
  <2>2. /\ S \in SUBSET Workers
        /\ \A j \in Workers \ S : w'[j] = w[j]
        /\ \A j \in S : w[j].pc \in {"idle", "select"} /\ Empty(j)'
        /\ Len(b) > Len(active) => pool.byID \subseteq u \/ \E j \in S : w'[j].pc = "copy"
        /\ staleAfter(b, u)
    BY <2>1
  <2> HIDE DEF S, u
  <2> QED BY <2>1, <2>2, AcceptHistory
<1>3. ASSUME NEW i \in Workers, AdmissionStep(i) \/ BlockStep(i) \/ MiningStep(i) PROVE StaleInv' /\ LostInv'
  BY <1>3, AdmissionHistory, BlockHistory, MiningHistory
<1> QED BY <1>0, <1>1, <1>2, <1>3 DEF Next, AdmissionStep, BlockStep, MiningStep, HistoryInv

(* With any number of handlers and syncs, whatever forks the peers send: what
   reorganizations took off the active chain is among the candidates of the
   chain or in the hands of a handler until its admission is tried, unless a
   best block overwrote it among the candidates or confirms it. *)
THEOREM NothingElseIsLost ==
    ASSUME OffersAreLists
    PROVE  Spec => []LostAreCandidates
<1>1. HistoryInv /\ [Next]_vars => HistoryInv'
  BY HistoryKeeps
<1>2. HistoryInv => LostAreCandidates
  BY DEF HistoryInv, LostInv
<1> QED BY <1>1, <1>2, HistoryInitially, PTL DEF Spec

(* With any number of handlers and syncs, whatever forks the peers send: once
   all handlers have returned, the pool holds no confirmed entry but those
   confirmed between the question and the Add, or by a block of a sync. *)
THEOREM IdlePoolIsUnconfirmed ==
    ASSUME OffersAreLists
    PROVE  Spec => []NoConfirmedEntryWhenIdle
<1>1. HistoryInv /\ [Next]_vars => HistoryInv'
  BY HistoryKeeps
<1>2. ASSUME HistoryInv PROVE NoConfirmedEntryWhenIdle
  <2>1. SUFFICES ASSUME allIdle, NEW t \in pool.byID \cap confirmed(active) PROVE t \in stale
    BY DEF NoConfirmedEntryWhenIdle
  <2>2. ~Covered(t)
    BY <2>1 DEF Covered, allIdle, at
  <2> QED BY <1>2, <2>1, <2>2 DEF HistoryInv, StaleInv
<1> QED BY <1>1, <1>2, HistoryInitially, PTL DEF Spec
=============================================================================
