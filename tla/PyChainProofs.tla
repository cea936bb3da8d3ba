--------------------------- MODULE PyChainProofs ---------------------------
(***************************************************************************)
(* Proofs about modules PyStore, PyChain and PyLedger: the tables for any *)
(* number of processes that share them; the chain in memory and the stored *)
(* one for one process, its restarts and crashes; the retarget and the     *)
(* money of a chain grown under the rules of PyRules.                      *)
(***************************************************************************)
EXTENDS PyChain, PyLedger, DataLemmas, FiniteSetTheorems

(* db is a record of the three tables. *)
IsTables(d) == d = [blocks |-> d.blocks, transactions |-> d.transactions, wallets |-> d.wallets]

(* TablesAgree as a predicate on any value of the tables. *)
Agree(d) ==
    /\ IsTables(d)
    /\ d.transactions = UNION {rows(b) : b \in d.blocks}
    /\ \A r, s \in d.transactions : r.tx = s.tx => r = s
    /\ \A b, c \in d.blocks : b.index = c.index => b = c

(* The rows of a block carry its index. *)
LEMMA RowIndex ==
    ASSUME NEW b, NEW r \in rows(b)
    PROVE  r.block_index = b.index
  BY DEF rows

(* Two rows of one block with the same transaction are the same row. *)
LEMMA RowOfTransaction ==
    ASSUME NEW b, NEW r \in rows(b), NEW s \in rows(b), r.tx = s.tx
    PROVE  r = s
  BY DEF rows

(* An insertion whose primary keys are free keeps the tables in step. *)
LEMMA InsertAgrees ==
    ASSUME NEW d, NEW new, Agree(d), keys_free(d, new)
    PROVE  Agree(insert(d, new))
<1> DEFINE e == insert(d, new)
<1>1. /\ e.blocks = d.blocks \cup new
      /\ e.transactions = d.transactions \cup UNION {rows(b) : b \in new}
      /\ IsTables(e)
  BY DEF IsTables, insert
<1> HIDE DEF e
<1>2. e.transactions = UNION {rows(b) : b \in e.blocks}
  BY <1>1 DEF Agree
<1>3. ASSUME NEW r \in e.transactions, NEW s \in e.transactions, r.tx = s.tx PROVE r = s
  <2>1. CASE r \in d.transactions /\ s \in d.transactions
    BY <1>3, <2>1 DEF Agree
  <2>2. ASSUME NEW b \in new, r \in rows(b), s \in d.transactions PROVE FALSE
    BY <1>3, <2>2 DEF keys_free
  <2>3. ASSUME NEW b \in new, s \in rows(b), r \in d.transactions PROVE FALSE
    BY <1>3, <2>3 DEF keys_free
  <2>4. ASSUME NEW b \in new, NEW c \in new, r \in rows(b), s \in rows(c) PROVE r = s
    <3>1. b = c
      BY <1>3, <2>4 DEF keys_free
    <3> QED BY <1>3, <2>4, <3>1, RowOfTransaction
  <2> QED BY <1>1, <2>1, <2>2, <2>3, <2>4
<1>4. ASSUME NEW b \in e.blocks, NEW c \in e.blocks, b.index = c.index PROVE b = c
  <2>1. CASE b \in d.blocks /\ c \in d.blocks
    BY <1>4, <2>1 DEF Agree
  <2>2. CASE b \in new
    BY <1>1, <1>4, <2>2 DEF keys_free
  <2>3. CASE c \in new
    BY <1>1, <1>4, <2>3 DEF keys_free
  <2> QED BY <1>1, <2>1, <2>2, <2>3
<1> QED BY <1>1, <1>2, <1>3, <1>4 DEF Agree, e

(* Deleting by height deletes the blocks and exactly their transactions. *)
LEMMA BelowAgrees ==
    ASSUME NEW d, NEW k, Agree(d)
    PROVE  Agree(below(d, k))
<1> DEFINE e == below(d, k)
<1>1. /\ e.blocks = {b \in d.blocks : b.index < k}
      /\ e.transactions = {r \in d.transactions : r.block_index < k}
      /\ IsTables(e)
  BY DEF IsTables, below
<1> HIDE DEF e
<1>2. e.transactions = UNION {rows(b) : b \in e.blocks}
  BY <1>1, RowIndex DEF Agree
<1> QED BY <1>1, <1>2 DEF Agree, e

(* The balances are not part of the agreement. *)
LEMMA WalletsFree ==
    ASSUME NEW d, NEW w, Agree(d)
    PROVE  Agree([d EXCEPT !.wallets = w])
<1> DEFINE e == [d EXCEPT !.wallets = w]
<1>1. e.blocks = d.blocks /\ e.transactions = d.transactions /\ IsTables(e)
  BY DEF Agree, IsTables
<1> HIDE DEF e
<1> QED BY <1>1 DEF Agree, e

(* Every step of every process keeps the tables in step. *)
LEMMA AgreeStep == Agree(db) /\ [Next]_vars => Agree(db')
<1> SUFFICES ASSUME Agree(db), [Next]_vars PROVE Agree(db')
  OBVIOUS
<1>1. ASSUME NEW p \in Procs, Open(p) PROVE Agree(db')
  BY <1>1 DEF Open
<1>2. ASSUME NEW p \in Procs, _create_and_persist_genesis_block(p) PROVE Agree(db')
  <2>1. CASE UNCHANGED db
    BY <2>1
  <2>2. CASE /\ can_save(db, genesis)
             /\ db' = [save_block(db, genesis)
                          EXCEPT !.wallets = apply_deltas(@, deltas_for_block(genesis))]
    <3>1. Agree(save_block(db, genesis))
      BY <2>2, InsertAgrees DEF can_save, save_block
    <3> QED BY <2>2, <3>1, WalletsFree
  <2> QED BY <1>2, <2>1, <2>2 DEF _create_and_persist_genesis_block
<1>3. ASSUME NEW p \in Procs, NEW tx \in Submissions, submit_transaction(p, tx) PROVE Agree(db')
  BY <1>3 DEF submit_transaction
<1>4. ASSUME NEW p \in Procs, NEW a \in Miners, start_mining(p, a) PROVE Agree(db')
  BY <1>4 DEF start_mining
<1>5. ASSUME NEW p \in Procs, commit_mined(p) PROVE Agree(db')
  BY <1>5 DEF commit_mined
<1>6. ASSUME NEW p \in Procs, save(p) PROVE Agree(db')
  <2>1. UNCHANGED db \/ (can_save(db, adding[p][1]) /\ db' = save_block(db, adding[p][1]))
    BY <1>6 DEF save
  <2> QED BY <2>1, InsertAgrees DEF can_save, save_block
<1>7. ASSUME NEW p \in Procs, update_balances(p) PROVE Agree(db')
  BY <1>7, WalletsFree DEF update_balances
<1>8. ASSUME NEW p \in Procs, NEW block \in PeerBlocks(chain[p]), append_received(p, block) PROVE Agree(db')
  BY <1>8 DEF append_received
<1>9. ASSUME NEW p \in Procs, NEW candidate \in PeerChains(chain[p]), replace_chain(p, candidate) PROVE Agree(db')
  <2> DEFINE k == _find_fork_index(chain[p], candidate)
             new == SubSeq(candidate, k + 1, Len(candidate))
  <2>1. UNCHANGED db \/ (can_reorganize(db, k, new) /\ db' = reorganize_from(db, k, new))
    BY <1>9 DEF replace_chain
  <2> HIDE DEF k, new
  <2>2. ASSUME can_reorganize(db, k, new) PROVE Agree(insert(below(db, k), Range(new)))
    BY <2>2, BelowAgrees, InsertAgrees DEF can_reorganize
  <2>3. ASSUME can_reorganize(db, k, new) PROVE Agree(reorganize_from(db, k, new))
    BY <2>2, <2>3, WalletsFree DEF reorganize_from
  <2> QED BY <2>1, <2>3
<1>10. ASSUME NEW p \in Procs, Crash(p) PROVE Agree(db')
  BY <1>10 DEF Crash
<1>11. CASE UNCHANGED vars
  BY <1>11 DEF vars
<1> QED BY <1>1, <1>2, <1>3, <1>4, <1>5, <1>6, <1>7, <1>8, <1>9, <1>10, <1>11 DEF Next

(* The tables agree after any steps of any processes: crashes, refused     *)
(* insertions and reorganizations included (storage.py save_block and      *)
(* reorganize_from).                                                       *)
THEOREM TablesStayInStep == Spec => []TablesAgree
<1>1. Init => Agree(db)
  BY DEF Init, EmptyTables, Agree, IsTables
<1>2. Agree(db) => TablesAgree
  BY DEF Agree, TablesAgree
<1>3. Agree(db) /\ [Next]_vars => Agree(db)'
  BY AgreeStep DEF Agree, IsTables
<1> QED BY <1>1, <1>2, <1>3, PTL DEF Spec

-----------------------------------------------------------------------------
(* One process.  What it has stored is always a chain c: the invariant     *)
(* relates the rows and the memory of the process to it.                   *)

(* A peer's answer to a node with a list of blocks is a list, without      *)
(* anything on its content.                                                *)
PeersSendLists == \A c : IsSequence(c) => \A candidate \in PeerChains(c) : IsSequence(candidate)

(* c[i] is the block of height i - 1. *)
Indexed(c) == \A i \in 1..Len(c) : c[i].index = i - 1

LEMMA LowBlocks ==
    ASSUME NEW c, IsSequence(c), Indexed(c), NEW k \in 0..Len(c)
    PROVE  Cardinality({x \in Range(c) : x.index < k}) = k
<1> DEFINE R == Range(c)
           n == Len(c)
           f == [j \in 1..k |-> c[j]]
           T == {x \in R : x.index < k}
<1>0. n \in Nat /\ (\A i \in 1..n : c[i] \in R) /\ (\A b \in R : \E i \in 1..n : b = c[i])
  BY SequenceFacts
<1>1. \A i \in 1..n : c[i].index = i - 1
  BY DEF Indexed
<1> HIDE DEF R
<1>2. \A j \in 1..k : j \in 1..n /\ c[j] \in R /\ c[j].index < k
  BY <1>0, <1>1
<1>3. f \in [1..k -> T]
  BY <1>2
<1>4. \A x \in T : \E j \in 1..k : f[j] = x
  <2> SUFFICES ASSUME NEW x \in R, x.index < k PROVE \E j \in 1..k : f[j] = x
    OBVIOUS
  <2>1. PICK j \in 1..n : x = c[j]
    BY <1>0
  <2>2. j \in 1..k
    BY <1>0, <1>1, <2>1
  <2> QED BY <2>1, <2>2
<1>5. \A i, j \in 1..k : f[i] = f[j] => i = j
  <2> SUFFICES ASSUME NEW i \in 1..k, NEW j \in 1..k, c[i] = c[j] PROVE i = j
    OBVIOUS
  <2>1. i \in 1..n /\ j \in 1..n
    BY <1>2
  <2> QED BY <1>1, <2>1
<1> HIDE DEF f, T
<1>6. f \in Bijection(1..k, T)
  BY <1>3, <1>4, <1>5 DEF Bijection, Injection, Surjection, IsInjective
<1>7. IsFiniteSet(1..k) /\ Cardinality(1..k) = k
  BY <1>0, FS_Interval
<1>8. ExistsBijection(1..k, T)
  BY <1>6 DEF ExistsBijection
<1>9. Cardinality(T) = k
  BY <1>7, <1>8, FS_Bijection
<1> QED BY <1>9 DEF T, R

LEMMA CountBlocks ==
    ASSUME NEW c, IsSequence(c), Indexed(c)
    PROVE  Cardinality(Range(c)) = Len(c)
<1> DEFINE n == Len(c)
           Low == {x \in Range(c) : x.index < n}
<1>1. n \in Nat /\ (\A b \in Range(c) : \E i \in 1..n : b = c[i]) /\ \A i \in 1..n : c[i].index = i - 1
  BY SequenceFacts DEF Indexed
<1> HIDE DEF n
<1>2. Low = Range(c)
  <2>1. ASSUME NEW x \in Range(c) PROVE x.index < n
    <3>1. PICK i \in 1..n : x = c[i]
      BY <1>1
    <3>2. x.index = i - 1
      BY <1>1, <3>1
    <3> QED BY <1>1, <3>2
  <2> QED BY <2>1
<1>3. Cardinality(Low) = n
  <2>1. n \in 0..Len(c)
    BY <1>1 DEF n
  <2> QED BY <2>1, LowBlocks
<1> QED BY <1>2, <1>3 DEF n

(* The rows of an indexed chain are loaded as that chain. *)
LEMMA LoadsChain ==
    ASSUME NEW d, NEW c, IsSequence(c), Indexed(c), d.blocks = Range(c)
    PROVE  load_chain(d) = c
<1> DEFINE R == Range(c)
           n == Len(c)
           Low(k) == {x \in R : x.index < k}
<1>0. c \in Seq(R) /\ n \in Nat /\ (\A i \in 1..n : c[i] \in R) /\ (\A b \in R : \E i \in 1..n : b = c[i])
  BY SequenceFacts
<1>1. \A i \in 1..n : c[i].index = i - 1
  BY DEF Indexed
<1> HIDE DEF R, n
<1>2. ASSUME NEW k \in 0..n PROVE Cardinality(Low(k)) = k
  <2>1. k \in 0..Len(c)
    BY DEF n
  <2> QED BY <2>1, LowBlocks DEF R
<1>3. Cardinality(R) = n
  BY CountBlocks DEF R, n
<1>4. ASSUME NEW i \in 1..n
      PROVE  (CHOOSE b \in R : Cardinality({x \in R : x.index < b.index}) = i - 1) = c[i]
  <2>1. \A j \in 1..n : Cardinality({x \in R : x.index < c[j].index}) = j - 1
    <3> SUFFICES ASSUME NEW j \in 1..n PROVE Cardinality({x \in R : x.index < c[j].index}) = j - 1
      OBVIOUS
    <3>1. c[j].index = j - 1 /\ j - 1 \in 0..n
      BY <1>0, <1>1
    <3>2. Cardinality(Low(j - 1)) = j - 1
      <4> HIDE DEF Low
      <4> QED BY <1>2, <3>1
    <3> QED BY <3>1, <3>2
  <2>2. ASSUME NEW b \in R, Cardinality({x \in R : x.index < b.index}) = i - 1 PROVE b = c[i]
    <3>1. PICK j \in 1..n : b = c[j]
      BY <1>0
    <3>2. j - 1 = i - 1
      BY <2>1, <2>2, <3>1
    <3> QED BY <1>0, <3>1, <3>2
  <2>3. c[i] \in R
    BY <1>0
  <2> QED BY <2>1, <2>2, <2>3
<1>5. load_chain(d) = [i \in 1..n |-> c[i]]
  BY <1>3, <1>4 DEF load_chain, R
<1>6. c = [i \in 1..n |-> c[i]]
  BY <1>0 DEF n
<1> QED BY <1>5, <1>6

-----------------------------------------------------------------------------
(* Work *)

LEMMA Power16Positive ==
    ASSUME NEW d \in Nat
    PROVE  power16(d) \in Nat /\ power16(d) > 0
<1> DEFINE g == CHOOSE power : power = [n \in 0..d |-> IF n = 0 THEN 1 ELSE 16 * power[n - 1]]
<1>1. power16(d) = g[d]
  BY DEF power16
<1>2. \E f : IsPower(f, d, 16)
  BY PowerExists
<1>3. IsPower(g, d, 16)
  BY <1>2 DEF IsPower
<1> HIDE DEF g
<1>4. \A i \in 0..d : g[i] = g[i] /\ g[i] \in Nat /\ g[i] > 0
  BY <1>3, PowersAgree
<1> QED BY <1>1, <1>4

(* Every block names a difficulty. *)
Rated(c) == \A i \in 1..Len(c) : c[i].difficulty \in Nat

BlockWork(c) == [i \in 1..Len(c) |-> power16(Max({c[i].difficulty, 0}))]

Work(c) ==
    CHOOSE work : work = [i \in 0..Len(c) |-> IF i = 0 THEN 0 ELSE work[i - 1] + power16(Max({c[i].difficulty, 0}))]

LEMMA WorkIsSum ==
    ASSUME NEW c, IsSequence(c), Rated(c)
    PROVE  /\ chain_work(c) = Work(c)[Len(c)]
           /\ BlockWork(c) \in [1..Len(c) -> Nat]
           /\ IsSum(Work(c), Len(c), BlockWork(c))
<1> DEFINE N == Len(c)
           P == BlockWork(c)
<1>0. N \in Nat
  BY SequenceFacts
<1>1. \A i \in 1..N : c[i].difficulty \in Nat
  BY DEF Rated
<1>2. chain_work(c) = Work(c)[N]
  BY DEF chain_work, Work
<1>3. P \in [1..N -> Nat]
  <2>1. ASSUME NEW i \in 1..N PROVE power16(Max({c[i].difficulty, 0})) \in Nat
    <3>1. c[i].difficulty \in Nat
      BY <1>1
    <3>2. Max({c[i].difficulty, 0}) = c[i].difficulty
      BY <3>1, MaxOfTwo
    <3> QED BY <3>1, <3>2, Power16Positive
  <2> QED BY <2>1 DEF BlockWork
<1>4. \A i \in 1..N : P[i] = power16(Max({c[i].difficulty, 0}))
  BY DEF BlockWork
<1> HIDE DEF P, N
<1>5. ASSUME NEW f
      PROVE  IsSum(f, N, P) <=> f = [i \in 0..N |-> IF i = 0 THEN 0 ELSE f[i - 1] + power16(Max({c[i].difficulty, 0}))]
  <2>1. \A i \in 0..N : i # 0 => i \in 1..N
    BY <1>0
  <2>2. \A i \in 0..N : (IF i = 0 THEN 0 ELSE f[i - 1] + P[i])
                      = (IF i = 0 THEN 0 ELSE f[i - 1] + power16(Max({c[i].difficulty, 0})))
    BY <1>4, <2>1
  <2>3. [i \in 0..N |-> IF i = 0 THEN 0 ELSE f[i - 1] + P[i]]
      = [i \in 0..N |-> IF i = 0 THEN 0 ELSE f[i - 1] + power16(Max({c[i].difficulty, 0}))]
    BY <2>2
  <2> QED BY <2>3 DEF IsSum
<1>6. \E f : IsSum(f, N, P)
  BY <1>0, <1>3, SumExists
<1>7. Work(c) = [i \in 0..N |-> IF i = 0 THEN 0 ELSE Work(c)[i - 1] + power16(Max({c[i].difficulty, 0}))]
  BY <1>5, <1>6 DEF Work, N
<1>8. IsSum(Work(c), N, P)
  BY <1>5, <1>7
<1> QED BY <1>2, <1>3, <1>8 DEF N, P

LEMMA WorkIsNat ==
    ASSUME NEW c, IsSequence(c), Rated(c)
    PROVE  chain_work(c) \in Nat
<1>1. Len(c) \in Nat /\ Len(c) <= Len(c)
  BY SequenceFacts
<1>2. BlockWork(c) \in [1..Len(c) -> Nat] /\ IsSum(Work(c), Len(c), BlockWork(c)) /\ chain_work(c) = Work(c)[Len(c)]
  BY WorkIsSum
<1> DEFINE N == Len(c)
           P == BlockWork(c)
           w == Work(c)
<1> HIDE DEF N, P, w
<1>3. \A i \in 0..N : w[i] = w[i] /\ w[i] \in Nat
  <2>1. N \in Nat /\ N <= N /\ P \in [1..N -> Nat] /\ IsSum(w, N, P) /\ \A i \in 1..N : P[i] = P[i]
    BY <1>1, <1>2 DEF N, P, w
  <2> QED BY <2>1, SumsAgree
<1>4. w[N] \in Nat
  BY <1>1, <1>3 DEF N
<1> QED BY <1>2, <1>4 DEF N, w

(* One more block adds its work. *)
LEMMA WorkOfAppend ==
    ASSUME NEW c, IsSequence(c), Rated(c), NEW b, IsSequence(Append(c, b)), Rated(Append(c, b))
    PROVE  chain_work(Append(c, b)) >= chain_work(c)
<1> DEFINE q == Append(c, b)
           N == Len(c)
           P == BlockWork(c)
           Q == BlockWork(q)
           w == Work(c)
           v == Work(q)
<1>1. N \in Nat /\ Len(q) = N + 1 /\ \A i \in 1..N : q[i] = c[i]
  BY SequenceFacts
<1>2. P \in [1..N -> Nat] /\ IsSum(w, N, P) /\ chain_work(c) = w[N]
  BY WorkIsSum
<1>3. Q \in [1..(N + 1) -> Nat] /\ IsSum(v, N + 1, Q) /\ chain_work(q) = v[N + 1]
  <2> HIDE DEF q
  <2>1. IsSequence(q) /\ Rated(q)
    BY DEF q
  <2> HIDE DEF N
  <2> QED BY <1>1, <2>1, WorkIsSum
<1>4. \A i \in 1..N : Q[i] = P[i]
  <2>1. \A i \in 1..N : i \in 1..(N + 1)
    BY <1>1
  <2> HIDE DEF q
  <2> QED BY <1>1, <2>1 DEF BlockWork
<1> HIDE DEF P, Q, w, v, q, N
<1>5. \A i \in 0..N : w[i] = v[i] /\ w[i] \in Nat
  <2>1. N \in Nat /\ N + 1 \in Nat /\ N <= N + 1
    BY <1>1
  <2>2. P \in [1..N -> Nat] /\ IsSum(w, N, P) /\ IsSum(v, N + 1, Q)
    BY <1>2, <1>3
  <2> QED BY <1>4, <2>1, <2>2, SumsAgree
<1>6. v[N + 1] = v[N] + Q[N + 1] /\ Q[N + 1] \in Nat
  <2>1. N + 1 \in 0..(N + 1) /\ N + 1 # 0 /\ (N + 1) - 1 = N /\ N + 1 \in 1..(N + 1)
    BY <1>1
  <2> QED BY <1>3, <2>1 DEF IsSum
<1>7. w[N] = v[N] /\ w[N] \in Nat
  BY <1>1, <1>5
<1>8. v[N + 1] >= w[N]
  BY <1>6, <1>7
<1> QED BY <1>2, <1>3, <1>8 DEF q

-----------------------------------------------------------------------------
(* The retarget, as a function of the difficulty it starts from and the    *)
(* two timespans.                                                          *)

Up(base, e, t) ==
    {d \in base..Max({base, max_difficulty}) : ~(d < max_difficulty /\ power16(base) * e >= power16(d) * 4 * t)}

Down(base, e, t) ==
    {d \in 0..base : ~(d > min_difficulty /\ power16(base) * e * 4 <= power16(d) * t)}

Moved(base, e, t) ==
    CASE e > t -> Min(Up(base, e, t))
      [] e < t -> Max(Down(base, e, t))
      [] OTHER -> base

Bounded(d) == Max({min_difficulty, Min({d, max_difficulty})})

LEMMA Difficulties ==
    /\ config_difficulty \in Nat /\ min_difficulty \in Nat /\ max_difficulty \in Nat
    /\ min_difficulty <= max_difficulty
    /\ difficulty_adjustment_interval \in Nat /\ difficulty_adjustment_interval > 0
    /\ target_block_time \in Nat /\ target_block_time > 0
    /\ max_adjustment_factor \in Nat /\ max_adjustment_factor > 0
  BY PyRulesAssumption

LEMMA BoundedIs ==
    ASSUME NEW d \in Nat
    PROVE  Bounded(d) = IF d < min_difficulty THEN min_difficulty ELSE IF d > max_difficulty THEN max_difficulty ELSE d
<1> DEFINE m == Min({d, max_difficulty})
<1>1. m = IF d <= max_difficulty THEN d ELSE max_difficulty
  BY Difficulties, MinOfTwo
<1>2. Bounded(d) = Max({min_difficulty, m})
  BY DEF Bounded
<1> HIDE DEF m
<1>3. m \in Nat
  BY <1>1, Difficulties
<1>4. Bounded(d) = IF min_difficulty >= m THEN min_difficulty ELSE m
  BY <1>2, <1>3, Difficulties, MaxOfTwo
<1> QED BY <1>1, <1>4, Difficulties

LEMMA UpFacts ==
    ASSUME NEW base \in Nat, NEW e, NEW t
    PROVE  /\ Up(base, e, t) \in SUBSET Nat
           /\ Min(Up(base, e, t)) \in Up(base, e, t) /\ Min(Up(base, e, t)) \in Nat
           /\ \A d \in Up(base, e, t) : Min(Up(base, e, t)) <= d
           /\ Min(Up(base, e, t)) >= base
<1> DEFINE top == Max({base, max_difficulty})
           U == Up(base, e, t)
<1>1. top \in Nat /\ top >= base /\ top >= max_difficulty
  BY Difficulties, MaxOfTwo
<1>2. U \in SUBSET Nat /\ top \in U /\ \A d \in U : d >= base
  <2>1. ~(top < max_difficulty)
    BY <1>1, Difficulties
  <2>2. top \in base..top
    BY <1>1
  <2>3. top \in U
    BY <2>1, <2>2 DEF Up
  <2>4. \A d \in U : d \in base..top
    BY DEF Up
  <2> HIDE DEF U, top
  <2> QED BY <2>3, <2>4
<1> HIDE DEF U, top
<1>3. Min(U) \in U /\ \A d \in U : Min(U) <= d
  BY <1>2, MinOfNumbers
<1> QED BY <1>2, <1>3 DEF U

LEMMA DownFacts ==
    ASSUME NEW base \in Nat, NEW e, NEW t
    PROVE  /\ Down(base, e, t) \in SUBSET Nat
           /\ Max(Down(base, e, t)) \in Down(base, e, t) /\ Max(Down(base, e, t)) \in Nat
           /\ \A d \in Down(base, e, t) : d <= Max(Down(base, e, t))
           /\ Max(Down(base, e, t)) <= base
<1> DEFINE D == Down(base, e, t)
<1>1. D \in SUBSET Nat /\ 0 \in D /\ \A d \in D : d <= base
  <2>1. ~(0 > min_difficulty) /\ 0 \in 0..base
    BY Difficulties
  <2>2. 0 \in D
    BY <2>1 DEF Down
  <2>3. \A d \in D : d \in 0..base
    BY DEF Down
  <2> HIDE DEF D
  <2> QED BY <2>2, <2>3
<1> HIDE DEF D
<1>2. Max(D) \in D /\ \A d \in D : d <= Max(D)
  BY <1>1, MaxOfNumbers
<1> QED BY <1>1, <1>2 DEF D

LEMMA NextDifficultyIs ==
    ASSUME NEW w, Last(w).difficulty \in Nat, ~(Len(w) < 2), NEW e, e = (Len(w) - 1) * target_block_time,
           NEW t, t = clamped_timespan(Last(w).timestamp - Head(w).timestamp, e)
    PROVE  next_difficulty(w) = Bounded(Moved(Last(w).difficulty, e, t))
<1> DEFINE base == Last(w).difficulty
<1>1. Max({base, 0}) = base
  BY MaxOfTwo
<1> QED BY <1>1 DEF next_difficulty, Bounded, Moved, Up, Down

LEMMA MovedIsNat ==
    ASSUME NEW base \in Nat, NEW e, NEW t
    PROVE  Moved(base, e, t) \in Nat
  BY UpFacts, DownFacts DEF Moved

(* A longer timespan never moves to a higher difficulty. *)
LEMMA MovedIsAntitone ==
    ASSUME NEW base \in Nat, NEW e \in Nat, NEW t \in Nat, NEW u \in Nat, t <= u
    PROVE  Moved(base, e, u) <= Moved(base, e, t)
<1>1. /\ Min(Up(base, e, t)) \in Up(base, e, t) /\ Min(Up(base, e, t)) \in Nat /\ Min(Up(base, e, t)) >= base
      /\ \A d \in Up(base, e, u) : Min(Up(base, e, u)) <= d
      /\ Min(Up(base, e, u)) \in Nat /\ Min(Up(base, e, u)) >= base
  BY UpFacts
<1>2. /\ Max(Down(base, e, u)) \in Down(base, e, u) /\ Max(Down(base, e, u)) \in Nat /\ Max(Down(base, e, u)) <= base
      /\ \A d \in Down(base, e, t) : d <= Max(Down(base, e, t))
      /\ Max(Down(base, e, t)) \in Nat /\ Max(Down(base, e, t)) <= base
  BY DownFacts
<1>3. \A p \in Nat : p * t <= p * u
  OBVIOUS
<1>4. ASSUME NEW d \in Up(base, e, t) PROVE d \in Up(base, e, u)
  <2>1. d \in base..Max({base, max_difficulty}) /\ ~(d < max_difficulty /\ power16(base) * e >= power16(d) * 4 * t)
    BY <1>4 DEF Up
  <2>2. d \in Nat
    BY <1>4, UpFacts
  <2>3. power16(d) \in Nat /\ power16(base) \in Nat
    BY <2>2, Power16Positive
  <2>4. power16(d) * 4 \in Nat /\ power16(base) * e \in Nat /\ power16(d) * 4 * t \in Nat /\ power16(d) * 4 * u \in Nat
    BY <2>3
  <2>5. power16(d) * 4 * t <= power16(d) * 4 * u
    BY <1>3, <2>4
  <2>6. ~(d < max_difficulty /\ power16(base) * e >= power16(d) * 4 * u)
    BY <2>1, <2>4, <2>5
  <2> QED BY <2>1, <2>6 DEF Up
<1>5. ASSUME NEW d \in Down(base, e, u) PROVE d \in Down(base, e, t)
  <2>1. d \in 0..base /\ ~(d > min_difficulty /\ power16(base) * e * 4 <= power16(d) * u)
    BY <1>5 DEF Down
  <2>2. d \in Nat
    BY <2>1
  <2>3. power16(d) \in Nat /\ power16(base) \in Nat
    BY <2>2, Power16Positive
  <2>4. power16(base) * e * 4 \in Nat /\ power16(d) * t \in Nat /\ power16(d) * u \in Nat
    BY <2>3
  <2>5. power16(d) * t <= power16(d) * u
    BY <1>3, <2>3
  <2>6. ~(d > min_difficulty /\ power16(base) * e * 4 <= power16(d) * t)
    BY <2>1, <2>4, <2>5
  <2> QED BY <2>1, <2>6 DEF Down
<1>6. Min(Up(base, e, u)) <= Min(Up(base, e, t)) /\ Max(Down(base, e, u)) <= Max(Down(base, e, t))
  BY <1>1, <1>2, <1>4, <1>5
<1> QED BY <1>1, <1>2, <1>6 DEF Moved

-----------------------------------------------------------------------------
(* Difficulty and validity *)

(* The retarget gives a number whatever the timestamps of its window are. *)
LEMMA NextDifficultyIsNat ==
    ASSUME NEW w, Last(w).difficulty \in Nat
    PROVE  next_difficulty(w) \in Nat
<1>1. CASE Len(w) < 2
  BY <1>1, Difficulties DEF next_difficulty
<1>2. CASE ~(Len(w) < 2)
  <2>1. PICK e, t : next_difficulty(w) = Bounded(Moved(Last(w).difficulty, e, t))
    BY <1>2, NextDifficultyIs
  <2>2. Moved(Last(w).difficulty, e, t) \in Nat
    BY MovedIsNat
  <2> QED BY <2>1, <2>2, BoundedIs, Difficulties
<1> QED BY <1>1, <1>2

(* The blocks whose timestamps the retarget looks at. *)
LEMMA WindowOf ==
    ASSUME NEW c, IsSequence(c), Len(c) > 0
    PROVE  \E w : /\ expected_difficulty(c) = next_difficulty(w)
                  /\ IsSequence(w)
                  /\ Len(w) = (IF Len(c) >= difficulty_adjustment_interval THEN difficulty_adjustment_interval ELSE Len(c))
                  /\ \A i \in 1..Len(w) : w[i] = c[Len(c) - Len(w) + i]
<1> DEFINE N == Len(c)
           k == difficulty_adjustment_interval
           R == Range(c)
<1>0. N \in Nat /\ N > 0 /\ c \in Seq(R) /\ k \in Nat /\ k > 0
  BY SequenceFacts, Difficulties
<1> HIDE DEF R
<1>1. CASE N >= k
  <2> DEFINE a == N - k + 1
             s == SubSeq(c, a, N)
  <2>1. a \in Nat /\ a >= 1 /\ a <= N + 1 /\ N + 1 - a = k /\ N <= Len(c)
    BY <1>0, <1>1
  <2>2. expected_difficulty(c) = next_difficulty(s)
    BY <1>1 DEF expected_difficulty
  <2>a. a = N - k + 1
    OBVIOUS
  <2> HIDE DEF a
  <2>3. s \in Seq(R) /\ Len(s) = N + 1 - a /\ \A i \in 1..(N + 1 - a) : s[i] = c[a + i - 1]
    BY <1>0, <2>1, SubSeqIs
  <2> HIDE DEF s
  <2>4. Len(s) = k /\ \A i \in 1..k : s[i] = c[a + i - 1]
    BY <2>1, <2>3
  <2>5. \A i \in 1..k : a + i - 1 = N - k + i
    BY <1>0, <2>a
  <2>6. \A i \in 1..Len(s) : s[i] = c[N - Len(s) + i]
    BY <2>4, <2>5
  <2> QED BY <1>1, <2>2, <2>3, <2>4, <2>6 DEF IsSequence
<1>2. CASE ~(N >= k)
  <2>1. expected_difficulty(c) = next_difficulty(c)
    BY <1>2 DEF expected_difficulty
  <2>2. \A i \in 1..Len(c) : c[i] = c[Len(c) - Len(c) + i]
    BY <1>0
  <2> QED BY <1>2, <2>1, <2>2
<1> QED BY <1>1, <1>2

LEMMA WindowEnds ==
    ASSUME NEW c, Len(c) \in Nat, NEW w, IsSequence(w), Len(w) > 0, Len(w) <= Len(c),
           \A i \in 1..Len(w) : w[i] = c[Len(c) - Len(w) + i]
    PROVE  Last(w) = c[Len(c)] /\ Head(w) = c[Len(c) - Len(w) + 1]
<1>1. Len(w) \in Nat /\ Head(w) = w[1]
  BY SequenceFacts
<1>2. 1 \in 1..Len(w) /\ Len(w) \in 1..Len(w) /\ Len(c) - Len(w) + Len(w) = Len(c)
  BY <1>1
<1>3. w[Len(w)] = c[Len(c) - Len(w) + Len(w)] /\ w[1] = c[Len(c) - Len(w) + 1]
  BY <1>2
<1> QED BY <1>1, <1>2, <1>3 DEF Last

LEMMA ExpectedDifficultyIsNat ==
    ASSUME NEW c, IsSequence(c), Len(c) > 0, Rated(c)
    PROVE  expected_difficulty(c) \in Nat
<1>0. Len(c) \in Nat
  BY SequenceFacts
<1>1. PICK w : /\ expected_difficulty(c) = next_difficulty(w)
               /\ IsSequence(w) /\ Len(w) > 0 /\ Len(w) <= Len(c)
               /\ \A i \in 1..Len(w) : w[i] = c[Len(c) - Len(w) + i]
  BY <1>0, WindowOf, Difficulties
<1>2. Last(w) = c[Len(c)]
  BY <1>0, <1>1, WindowEnds
<1>3. Len(c) \in 1..Len(c)
  BY <1>0
<1>4. Last(w).difficulty \in Nat
  BY <1>2, <1>3 DEF Rated
<1> QED BY <1>1, <1>4, NextDifficultyIsNat

(* A chain the process may have in memory or in its tables. *)
Good(c) ==
    /\ IsSequence(c) /\ Len(c) > 0
    /\ validate_chain(c)
    /\ c[1] = genesis
    /\ Indexed(c) /\ Rated(c)

LEMMA GoodAppend ==
    ASSUME NEW c, Good(c), NEW b, validate_block_against_chain(b, c)
    PROVE  Good(Append(c, b)) /\ chain_work(Append(c, b)) >= chain_work(c)
<1> DEFINE q == Append(c, b)
           N == Len(c)
<1>0. N \in Nat /\ N > 0 /\ IsSequence(c) /\ Rated(c)
  BY SequenceFacts DEF Good
<1>1. /\ IsSequence(q) /\ Len(q) = N + 1 /\ q[N + 1] = b /\ (\A i \in 1..N : q[i] = c[i])
      /\ (\A k \in 0..N : SubSeq(q, 1, k) = SubSeq(c, 1, k)) /\ SubSeq(c, 1, N) = c
  BY <1>0, PrefixOfAppend
<1>2. /\ b.index = Last(c).index + 1 /\ b.difficulty = expected_difficulty(c) /\ _state_from_chain(q).ok
  BY DEF validate_block_against_chain
<1> HIDE DEF q
<1>3. q[1] = c[1] /\ q[1] = genesis /\ Head(q) = Head(c) /\ q # <<>>
  <2>1. 1 \in 1..N
    BY <1>0
  <2>2. q[1] = c[1]
    BY <1>1, <2>1
  <2>3. Head(q) = q[1] /\ Head(c) = c[1]
    <3>1. ASSUME NEW s, IsSequence(s), Len(s) > 0 PROVE Head(s) = s[1] /\ s # <<>>
      BY <3>1, SequenceFacts
    <3> QED BY <1>0, <1>1, <3>1
  <2> QED BY <1>0, <1>1, <2>2, <2>3 DEF Good
<1>4. Indexed(q)
  <2>1. c[N].index = N - 1
    <3>1. N \in 1..Len(c)
      BY <1>0
    <3> QED BY <3>1 DEF Good, Indexed
  <2>2. b.index = N
    BY <1>0, <1>2, <2>1 DEF Last
  <2>3. ASSUME NEW i \in 1..(N + 1) PROVE q[i].index = i - 1
    <3>1. CASE i \in 1..N
      BY <1>1, <3>1 DEF Good, Indexed
    <3>2. CASE i = N + 1
      BY <1>0, <1>1, <2>2, <3>2
    <3> QED BY <1>0, <3>1, <3>2
  <2> QED BY <1>1, <2>3 DEF Indexed
<1>5. Rated(q)
  <2>1. b.difficulty \in Nat
    BY <1>0, <1>2, ExpectedDifficultyIsNat
  <2>2. ASSUME NEW i \in 1..(N + 1) PROVE q[i].difficulty \in Nat
    <3>1. CASE i \in 1..N
      BY <1>0, <1>1, <3>1 DEF Rated
    <3>2. CASE i = N + 1
      BY <1>1, <2>1, <3>2
    <3> QED BY <1>0, <3>1, <3>2
  <2> QED BY <1>1, <2>2 DEF Rated
<1>6. validate_chain(q)
  <2>1. validate_block_structure(Head(q), AnyReward)
    BY <1>3 DEF Good, validate_chain
  <2>2. ASSUME NEW i \in 2..(N + 1) PROVE validate_block_against_chain(q[i], SubSeq(q, 1, i - 1))
    <3>1. CASE i \in 2..N
      <4>1. i \in 1..N /\ i - 1 \in 0..N
        BY <1>0, <3>1
      <4>2. validate_block_against_chain(c[i], SubSeq(c, 1, i - 1))
        BY <3>1 DEF Good, validate_chain
      <4> QED BY <1>1, <4>1, <4>2
    <3>2. CASE i = N + 1
      <4>1. N \in 0..N /\ i - 1 = N
        BY <1>0, <3>2
      <4>2. q[i] = b /\ SubSeq(q, 1, i - 1) = c
        BY <1>1, <3>2, <4>1
      <4> QED BY <4>2
    <3> QED BY <1>0, <3>1, <3>2
  <2> QED BY <1>1, <1>2, <1>3, <2>1, <2>2 DEF validate_chain
<1>7. chain_work(q) >= chain_work(c)
  BY <1>0, <1>1, <1>5, WorkOfAppend DEF q
<1> QED BY <1>0, <1>1, <1>3, <1>4, <1>5, <1>6, <1>7 DEF Good, q

LEMMA GoodGenesis == Good(<<genesis>>)
<1> DEFINE c == <<genesis>>
<1>1. c \in Seq({genesis}) /\ Len(c) = 1 /\ c[1] = genesis /\ Head(c) = genesis /\ c # <<>>
  OBVIOUS
<1>2. genesis.index = 0 /\ genesis.intact = TRUE /\ genesis.difficulty = 0
  BY DEF genesis
<1> HIDE DEF c
<1>3. IsSequence(c)
  BY <1>1 DEF IsSequence
<1>4. Indexed(c) /\ Rated(c)
  BY <1>1, <1>2 DEF Indexed, Rated
<1>5. _state_from_chain(c).ok
  <2> DEFINE after == CHOOSE f : f = [i \in 0..Len(c) |-> IF i = 0 THEN EmptyState ELSE replay_block(f[i - 1], c[i])]
             e == [i \in 0..Len(c) |-> EmptyState]
  <2>1. _state_from_chain(c) = after[Len(c)]
    BY DEF _state_from_chain
  <2>2. \A s : replay_block(s, genesis) = s
    BY <1>2 DEF replay_block
  <2>3. e = [i \in 0..Len(c) |-> IF i = 0 THEN EmptyState ELSE replay_block(e[i - 1], c[i])]
    <3>1. \A i \in 0..Len(c) : i # 0 => c[i] = genesis /\ e[i - 1] = EmptyState
      BY <1>1
    <3>2. \A i \in 0..Len(c) : e[i] = (IF i = 0 THEN EmptyState ELSE replay_block(e[i - 1], c[i]))
      BY <2>2, <3>1
    <3> QED BY <3>2
  <2> HIDE DEF e
  <2>4. after = [i \in 0..Len(c) |-> IF i = 0 THEN EmptyState ELSE replay_block(after[i - 1], c[i])]
    BY <2>3
  <2> HIDE DEF after
  <2>5. after[0] = EmptyState /\ after[1] = replay_block(after[0], c[1])
    <3>1. 0 \in 0..Len(c) /\ 1 \in 0..Len(c) /\ 1 - 1 = 0 /\ 1 # 0
      BY <1>1
    <3>2. \A i \in 0..Len(c) : after[i] = (IF i = 0 THEN EmptyState ELSE replay_block(after[i - 1], c[i]))
      BY <2>4
    <3>3. after[1] = replay_block(after[1 - 1], c[1])
      BY <3>1, <3>2
    <3> QED BY <3>1, <3>2, <3>3
  <2>6. after[Len(c)] = EmptyState
    BY <1>1, <2>2, <2>5
  <2> QED BY <2>1, <2>6 DEF EmptyState
<1>6. validate_chain(c)
  <2>1. validate_block_structure(genesis, AnyReward)
    BY <1>2 DEF validate_block_structure
  <2>2. 2..Len(c) = {}
    BY <1>1
  <2> QED BY <1>1, <1>5, <2>1, <2>2 DEF validate_chain
<1> QED BY <1>1, <1>3, <1>4, <1>6 DEF Good, c

(* What a peer's chain is once it has been validated. *)
LEMMA GoodCandidate ==
    ASSUME NEW c, IsSequence(c), validate_chain(c), c[1] = genesis
    PROVE  Good(c)
<1> DEFINE N == Len(c)
           V == Range(c)
<1>0. c \in Seq(V) /\ N \in Nat
  BY SequenceFacts
<1>1. N > 0
  <2>1. c # <<>>
    BY DEF validate_chain
  <2> HIDE DEF V
  <2> QED BY <1>0, <2>1
<1>2. genesis.index = 0 /\ genesis.difficulty = 0
  BY DEF genesis
<1>3. \A i \in 2..N : validate_block_against_chain(c[i], SubSeq(c, 1, i - 1))
  BY DEF validate_chain
<1> HIDE DEF V, N
<1> DEFINE S == {n \in Nat : n + 1 <= N => /\ c[n + 1].index = n
                                           /\ \A j \in 1..(n + 1) : c[j].difficulty \in Nat}
<1>4. 0 \in S
  BY <1>2
<1>5. ASSUME NEW n \in S PROVE n + 1 \in S
  <2> SUFFICES ASSUME n + 2 <= N
               PROVE  c[n + 2].index = n + 1 /\ \A j \in 1..(n + 2) : c[j].difficulty \in Nat
    <3>1. n \in Nat /\ (n + 1) + 1 = n + 2
      OBVIOUS
    <3> QED BY <3>1
  <2> DEFINE p == SubSeq(c, 1, n + 1)
  <2>1. n \in Nat /\ n + 1 \in Nat /\ n + 1 <= Len(c) /\ 1 <= (n + 1) + 1 /\ n + 1 <= N
    BY <1>0 DEF N
  <2>2. c[n + 1].index = n /\ \A j \in 1..(n + 1) : c[j].difficulty \in Nat
    BY <2>1
  <2> HIDE DEF S
  <2>3. p \in Seq(V) /\ Len(p) = (n + 1) + 1 - 1 /\ \A i \in 1..((n + 1) + 1 - 1) : p[i] = c[1 + i - 1]
    BY <1>0, <2>1, SubSeqIs
  <2>4. validate_block_against_chain(c[n + 2], p)
    <3>1. n + 2 \in 2..N /\ (n + 2) - 1 = n + 1
      BY <1>0, <2>1
    <3> QED BY <1>3, <3>1
  <2> HIDE DEF p
  <2>5. Len(p) = n + 1 /\ \A i \in 1..(n + 1) : p[i] = c[i]
    <3>1. (n + 1) + 1 - 1 = n + 1 /\ \A i \in 1..(n + 1) : 1 + i - 1 = i
      BY <2>1
    <3> QED BY <2>3, <3>1
  <2>6. IsSequence(p) /\ Rated(p) /\ Len(p) > 0
    BY <2>1, <2>2, <2>3, <2>5 DEF IsSequence, Rated
  <2>7. Last(p) = c[n + 1]
    BY <2>1, <2>5 DEF Last
  <2>8. c[n + 2].index = n + 1
    BY <2>2, <2>4, <2>7 DEF validate_block_against_chain
  <2>9. c[n + 2].difficulty \in Nat
    <3>1. c[n + 2].difficulty = expected_difficulty(p)
      BY <2>4 DEF validate_block_against_chain
    <3> QED BY <2>6, <3>1, ExpectedDifficultyIsNat
  <2> QED BY <2>1, <2>2, <2>8, <2>9
<1>6. S = Nat
  <2>1. S \in SUBSET Nat
    OBVIOUS
  <2> HIDE DEF S
  <2> QED BY <1>4, <1>5, <2>1, NatSetInduction
<1>7. ASSUME NEW i \in 1..N PROVE c[i].index = i - 1 /\ c[i].difficulty \in Nat
  <2>1. i - 1 \in Nat /\ (i - 1) + 1 = i /\ i <= N
    BY <1>0
  <2>2. i - 1 \in S
    BY <1>6, <2>1
  <2>3. i \in 1..i
    BY <1>0
  <2> QED BY <2>1, <2>2, <2>3
<1> QED BY <1>0, <1>1, <1>7 DEF Good, Indexed, Rated, N

LEMMA SuffixIs ==
    ASSUME NEW V, NEW s \in Seq(V), NEW k \in Nat, k <= Len(s)
    PROVE  /\ SubSeq(s, k + 1, Len(s)) \in Seq(V) /\ Len(SubSeq(s, k + 1, Len(s))) = Len(s) - k
           /\ \A i \in 1..(Len(s) - k) : SubSeq(s, k + 1, Len(s))[i] = s[k + i]
<1> DEFINE a == k + 1
           N == Len(s)
<1>1. a \in Nat /\ a >= 1 /\ N \in Nat /\ N <= Len(s) /\ a <= N + 1 /\ N + 1 - a = N - k
  OBVIOUS
<1>2. \A i \in 1..(N - k) : a + i - 1 = k + i
  BY <1>1
<1> HIDE DEF a
<1>3. /\ SubSeq(s, a, N) \in Seq(V) /\ Len(SubSeq(s, a, N)) = N + 1 - a
      /\ \A i \in 1..(N + 1 - a) : SubSeq(s, a, N)[i] = s[a + i - 1]
  BY <1>1, SubSeqIs
<1> QED BY <1>1, <1>2, <1>3 DEF a

(* What is below the fork belongs to both chains. *)
LEMMA ForkShares ==
    ASSUME NEW c, NEW candidate, Good(c), Good(candidate), NEW k, k = _find_fork_index(c, candidate)
    PROVE  k \in Nat /\ k <= Len(c) /\ k <= Len(candidate) /\ \A i \in 1..k : c[i] = candidate[i]
<1> DEFINE N == Len(candidate)
           M == Len(c)
           shared == Min({M, N})
           T == {i \in 1..shared : hash(c[i]) # hash(candidate[i])} \cup {shared + 1}
<1>1. M \in Nat /\ N \in Nat
  BY SequenceFacts DEF Good
<1>2. shared \in Nat /\ shared <= M /\ shared <= N
  <2> HIDE DEF M, N
  <2>1. M \in Int /\ N \in Int
    BY <1>1
  <2>2. shared = IF M <= N THEN M ELSE N
    BY <2>1, MinOfTwo
  <2> HIDE DEF shared
  <2> QED BY <1>1, <2>2
<1>3. k = Min(T) - 1
  BY DEF _find_fork_index
<1> HIDE DEF shared, M, N
<1>4. Min(T) \in T /\ \A y \in T : Min(T) <= y
  <2>1. T \in SUBSET Nat /\ shared + 1 \in T
    BY <1>2
  <2> HIDE DEF T
  <2> QED BY <2>1, MinOfNumbers
<1>5. k \in 0..shared
  <2>1. \A y \in T : y \in 1..(shared + 1)
    BY <1>2
  <2> HIDE DEF T
  <2> QED BY <1>2, <1>3, <1>4, <2>1
<1>6. ASSUME NEW i \in 1..k PROVE c[i] = candidate[i]
  <2>1. i \in 1..shared /\ i < Min(T) /\ Min(T) \in Nat
    <3>1. Min(T) = k + 1
      <4>1. Min(T) \in Nat
        <5>1. \A y \in T : y \in Nat
          BY <1>2
        <5> HIDE DEF T
        <5> QED BY <1>4, <5>1
      <4> HIDE DEF T
      <4> QED BY <1>3, <4>1
    <3> HIDE DEF T
    <3> QED BY <1>2, <1>5, <3>1
  <2>2. i \notin T
    <3> HIDE DEF T
    <3> QED BY <1>4, <2>1
  <2>3. hash(c[i]) = hash(candidate[i])
    BY <2>1, <2>2
  <2> QED BY <2>3 DEF hash
<1> HIDE DEF T
<1>7. k \in Nat /\ k <= M /\ k <= N
  BY <1>1, <1>2, <1>5
<1> QED BY <1>6, <1>7 DEF M, N

(* With the new blocks it is the candidate. *)
LEMMA ForkSplits ==
    ASSUME NEW c, NEW candidate, Good(c), Good(candidate), NEW k, k = _find_fork_index(c, candidate),
           NEW d, d.blocks = Range(c)
    PROVE  insert(below(d, k), Range(SubSeq(candidate, k + 1, Len(candidate)))).blocks = Range(candidate)
<1> DEFINE N == Len(candidate)
           M == Len(c)
           V == Range(candidate)
           new == SubSeq(candidate, k + 1, N)
<1>0. IsSequence(c) /\ IsSequence(candidate) /\ Indexed(c) /\ Indexed(candidate)
  BY DEF Good
<1>1. /\ M \in Nat /\ (\A b \in Range(c) : \E i \in 1..M : b = c[i]) /\ (\A i \in 1..M : c[i] \in Range(c))
      /\ N \in Nat /\ candidate \in Seq(V) /\ (\A b \in V : \E i \in 1..N : b = candidate[i])
      /\ (\A i \in 1..N : candidate[i] \in V)
  BY <1>0, SequenceFacts
<1>2. (\A i \in 1..M : c[i].index = i - 1) /\ (\A i \in 1..N : candidate[i].index = i - 1)
  BY <1>0 DEF Indexed
<1>3. insert(below(d, k), Range(new)).blocks = {b \in Range(c) : b.index < k} \cup Range(new)
  BY DEF insert, below
<1>4. /\ k \in Nat /\ k <= M /\ k <= N /\ (\A i \in 1..k : c[i] = candidate[i])
      /\ new \in Seq(V) /\ Len(new) = N - k /\ \A i \in 1..Len(new) : new[i] = candidate[k + i]
  <2>1. k \in Nat /\ k <= M /\ k <= N /\ \A i \in 1..k : c[i] = candidate[i]
    BY ForkShares
  <2>2. new \in Seq(V) /\ Len(new) = N - k /\ \A i \in 1..(N - k) : new[i] = candidate[k + i]
    <3>1. candidate \in Seq(V) /\ k \in Nat /\ k <= Len(candidate)
      BY <1>1, <2>1
    <3> HIDE DEF V
    <3> QED BY ONLY <3>1, SuffixIs DEF new, N
  <2> HIDE DEF M, N, V, new
  <2> QED BY <2>1, <2>2
<1> HIDE DEF M, N, V, new
<1>5. ASSUME NEW b \in Range(c), b.index < k PROVE b \in V
  <2>1. PICK i \in 1..M : b = c[i]
    BY <1>1
  <2>2. i \in 1..k /\ i \in 1..N
    BY <1>1, <1>2, <1>4, <1>5, <2>1
  <2> QED BY <1>1, <1>4, <2>1, <2>2
<1>6. ASSUME NEW b \in Range(new) PROVE b \in V
  <2>1. new \in [1..Len(new) -> V]
    BY <1>4
  <2> QED BY <2>1 DEF Range
<1>7. ASSUME NEW b \in V PROVE b \in Range(new) \/ (b \in Range(c) /\ b.index < k)
  <2>1. PICK i \in 1..N : b = candidate[i]
    BY <1>1
  <2>2. CASE i <= k
    <3>1. i \in 1..k /\ i \in 1..M /\ i - 1 < k
      BY <1>1, <1>4, <2>2
    <3>2. b = c[i] /\ c[i].index = i - 1 /\ c[i] \in Range(c)
      BY <1>1, <1>2, <1>4, <2>1, <3>1
    <3> QED BY <3>1, <3>2
  <2>3. CASE i > k
    <3>1. k + (i - k) = i /\ i - k \in 1..Len(new)
      BY <1>1, <1>4, <2>3
    <3>2. new[i - k] = b /\ DOMAIN new = 1..Len(new)
      BY <1>4, <2>1, <3>1
    <3> QED BY <3>1, <3>2 DEF Range
  <2> QED BY <1>1, <1>4, <2>2, <2>3
<1>8. {b \in Range(c) : b.index < k} \cup Range(new) = V
  BY <1>5, <1>6, <1>7
<1> QED BY <1>3, <1>8 DEF new, N, V

-----------------------------------------------------------------------------
(* The invariant *)

IsMap(f) == f = [q \in Procs |-> f[q]]

Maps == IsMap(pc) /\ IsMap(chain) /\ IsMap(adding)

(* The tables of the process hold the chain c, and its memory is what the  *)
(* place of its thread says.                                               *)
Stored(c, p) ==
    /\ c = <<>> \/ Good(c)
    /\ db.blocks = Range(c)
    /\ pc[p] \in {"down", "genesis", "idle", "save", "update"}
    /\ pc[p] = "down" => chain[p] = <<>>
    /\ pc[p] = "genesis" => c = <<>> /\ chain[p] = <<>>
    /\ pc[p] \in {"idle", "update"} => Good(c) /\ chain[p] = c
    /\ pc[p] = "save" => Good(c) /\ \E b : /\ validate_block_against_chain(b, c)
                                           /\ chain[p] = Append(c, b) /\ adding[p] = <<b>>

OneInv(p) ==
    /\ Agree(db)
    /\ refused \in BOOLEAN
    /\ refused \/ (Maps /\ \E c : Stored(c, p))

(* What a step does to the stored chain c: nothing when it has been        *)
(* refused, otherwise it stores a chain with at least its work.            *)
Grown(c, p) ==
    \/ refused' = TRUE /\ db' = db
    \/ Maps' /\ \E new : Stored(new, p)' /\ chain_work(new) >= chain_work(c)

LEMMA ExceptMap ==
    ASSUME NEW f, IsMap(f), NEW p \in Procs, NEW v
    PROVE  IsMap([f EXCEPT ![p] = v]) /\ [f EXCEPT ![p] = v][p] = v
<1> DEFINE g == [f EXCEPT ![p] = v]
<1>1. DOMAIN f = Procs
  BY DEF IsMap
<1>2. g = [q \in Procs |-> IF q = p THEN v ELSE f[q]]
  BY <1>1
<1> HIDE DEF g
<1>3. IsMap(g) /\ g[p] = v
  BY <1>2 DEF IsMap
<1> QED BY <1>3 DEF g

LEMMA EmptyFacts ==
    /\ IsSequence(<<>>) /\ Len(<<>>) = 0 /\ Indexed(<<>>) /\ Rated(<<>>) /\ Range(<<>>) = {}
<1>1. <<>> \in Seq({}) /\ Len(<<>>) = 0
  OBVIOUS
<1>2. IsSequence(<<>>)
  BY <1>1 DEF IsSequence
<1>3. Indexed(<<>>) /\ Rated(<<>>)
  BY <1>1 DEF Indexed, Rated
<1>4. Range(<<>>) = {}
  BY DEF Range
<1> QED BY <1>1, <1>2, <1>3, <1>4

(* What is stored is what a restart loads. *)
LEMMA StoredLoads ==
    ASSUME NEW c, c = <<>> \/ Good(c), NEW d, d.blocks = Range(c)
    PROVE  load_chain(d) = c /\ chain_work(c) \in Nat /\ (d.blocks = {} <=> c = <<>>)
<1>1. IsSequence(c) /\ Indexed(c) /\ Rated(c)
  BY EmptyFacts DEF Good
<1>2. Good(c) => Range(c) # {} /\ c # <<>>
  <2> SUFFICES ASSUME Good(c) PROVE Range(c) # {} /\ c # <<>>
    OBVIOUS
  <2>1. Len(c) \in Nat /\ Len(c) > 0 /\ \A i \in 1..Len(c) : c[i] \in Range(c)
    BY <1>1, SequenceFacts DEF Good
  <2>2. 1 \in 1..Len(c)
    BY <2>1
  <2> QED BY <2>1, <2>2, EmptyFacts
<1> QED BY <1>1, <1>2, EmptyFacts, LoadsChain, WorkIsNat

LEMMA GenesisStep ==
    ASSUME NEW p \in Procs, OneInv(p), Maps, NEW c, Stored(c, p), _create_and_persist_genesis_block(p)
    PROVE  Grown(c, p)
<1>1. pc[p] = "genesis" /\ c = <<>> /\ chain[p] = <<>> /\ db.blocks = {} /\ UNCHANGED adding
  BY EmptyFacts DEF _create_and_persist_genesis_block, Stored
<1>2. CASE /\ can_save(db, genesis)
           /\ db' = [save_block(db, genesis)
                        EXCEPT !.wallets = apply_deltas(@, deltas_for_block(genesis))]
           /\ chain' = [chain EXCEPT ![p] = <<genesis>>]
           /\ pc' = [pc EXCEPT ![p] = "idle"]
  <2>1. db'.blocks = db.blocks \cup {genesis}
    BY <1>2 DEF save_block, insert
  <2>2. db'.blocks = Range(<<genesis>>)
    BY <1>1, <2>1 DEF Range
  <2>3. Maps' /\ chain'[p] = <<genesis>> /\ pc'[p] = "idle"
    BY <1>1, <1>2, ExceptMap DEF Maps
  <2>4. Good(<<genesis>>)
    BY GoodGenesis
  <2>5. Stored(<<genesis>>, p)'
    BY <2>2, <2>3, <2>4 DEF Stored
  <2>6. chain_work(<<genesis>>) >= chain_work(<<>>)
    <3>1. IsSequence(<<genesis>>) /\ Rated(<<genesis>>) /\ IsSequence(<<>>) /\ Rated(<<>>)
      BY <2>4, EmptyFacts DEF Good
    <3>2. <<genesis>> = Append(<<>>, genesis)
      OBVIOUS
    <3> QED BY <3>1, <3>2, WorkOfAppend
  <2> QED BY <1>1, <2>3, <2>5, <2>6 DEF Grown
<1>3. CASE pc' = [pc EXCEPT ![p] = "down"] /\ UNCHANGED <<db, chain>>
  <2>1. Maps' /\ pc'[p] = "down"
    BY <1>1, <1>3, ExceptMap DEF Maps
  <2>2. Stored(c, p)'
    BY <1>1, <1>3, <2>1, EmptyFacts DEF Stored
  <2>3. chain_work(c) >= chain_work(c)
    BY StoredLoads DEF Stored
  <2> QED BY <2>1, <2>2, <2>3 DEF Grown
<1> QED BY <1>2, <1>3 DEF _create_and_persist_genesis_block

LEMMA OpenStep ==
    ASSUME NEW p \in Procs, OneInv(p), Maps, NEW c, Stored(c, p), Open(p)
    PROVE  Grown(c, p)
<1>1. pc[p] = "down" /\ chain[p] = <<>> /\ UNCHANGED <<db, adding>>
  BY DEF Open, Stored
<1>2. load_chain(db) = c /\ chain_work(c) \in Nat /\ (db.blocks = {} <=> c = <<>>)
  BY StoredLoads DEF Stored
<1>3. chain_work(c) >= chain_work(c)
  BY <1>2
<1>4. CASE db.blocks = {} /\ pc' = [pc EXCEPT ![p] = "genesis"] /\ UNCHANGED chain
  <2>1. Maps' /\ pc'[p] = "genesis"
    BY <1>1, <1>4, ExceptMap DEF Maps
  <2>2. Stored(c, p)'
    BY <1>1, <1>2, <1>4, <2>1 DEF Stored
  <2> QED BY <1>3, <2>1, <2>2 DEF Grown
<1>5. CASE db.blocks # {} /\ pc' = [pc EXCEPT ![p] = "idle"] /\ chain' = [chain EXCEPT ![p] = load_chain(db)]
  <2>1. Maps' /\ pc'[p] = "idle" /\ chain'[p] = c
    BY <1>1, <1>2, <1>5, ExceptMap DEF Maps
  <2>2. Stored(c, p)'
    BY <1>1, <1>2, <1>5, <2>1 DEF Stored
  <2> QED BY <1>3, <2>1, <2>2 DEF Grown
<1> QED BY <1>4, <1>5 DEF Open

(* begin_append: the block is in memory and not yet stored. *)
LEMMA AppendStep ==
    ASSUME NEW p \in Procs, Maps, NEW c, Stored(c, p), pc[p] = "idle", NEW b,
           validate_block_against_chain(b, chain[p]), begin_append(p, b), UNCHANGED db
    PROVE  Grown(c, p)
<1>1. chain[p] = c /\ Good(c)
  BY DEF Stored
<1>2. Maps' /\ pc'[p] = "save" /\ chain'[p] = Append(c, b) /\ adding'[p] = <<b>>
  BY <1>1, ExceptMap DEF Maps, begin_append
<1>3. Stored(c, p)'
  BY <1>1, <1>2 DEF Stored
<1>4. chain_work(c) >= chain_work(c)
  BY StoredLoads DEF Stored
<1> QED BY <1>2, <1>3, <1>4 DEF Grown

LEMMA SaveStep ==
    ASSUME NEW p \in Procs, OneInv(p), Maps, NEW c, Stored(c, p), save(p)
    PROVE  Grown(c, p)
<1>1. PICK b : /\ pc[p] = "save" /\ Good(c) /\ validate_block_against_chain(b, c)
               /\ chain[p] = Append(c, b) /\ adding[p] = <<b>> /\ UNCHANGED chain
  BY DEF save, Stored
<1>2. CASE refused' = TRUE /\ db' = db
  BY <1>2 DEF Grown
<1>3. CASE db' = save_block(db, adding[p][1]) /\ pc' = [pc EXCEPT ![p] = "update"] /\ UNCHANGED adding
  <2>1. Good(Append(c, b)) /\ chain_work(Append(c, b)) >= chain_work(c)
    BY <1>1, GoodAppend
  <2>2. db'.blocks = Range(c) \cup {b}
    BY <1>1, <1>3 DEF save_block, insert, Stored
  <2>3. db'.blocks = Range(Append(c, b))
    BY <1>1, <2>2, PrefixOfAppend DEF Good
  <2>4. Maps' /\ pc'[p] = "update" /\ chain'[p] = Append(c, b)
    BY <1>1, <1>3, ExceptMap DEF Maps
  <2>5. Stored(Append(c, b), p)'
    BY <2>1, <2>3, <2>4 DEF Stored
  <2> QED BY <2>1, <2>4, <2>5 DEF Grown
<1> QED BY <1>2, <1>3 DEF save

LEMMA UpdateStep ==
    ASSUME NEW p \in Procs, OneInv(p), Maps, NEW c, Stored(c, p), update_balances(p)
    PROVE  Grown(c, p)
<1>1. pc[p] = "update" /\ Good(c) /\ chain[p] = c /\ UNCHANGED chain
  BY DEF update_balances, Stored
<1>2. db'.blocks = db.blocks
  <2>1. IsTables(db) /\ \E v : db' = [db EXCEPT !.wallets = v]
    BY DEF OneInv, Agree, update_balances
  <2> QED BY <2>1 DEF IsTables
<1>3. Maps' /\ pc'[p] \in {"idle", "update"}
  <2>1. CASE pc' = [pc EXCEPT ![p] = "idle"] /\ adding' = [adding EXCEPT ![p] = <<>>]
    BY <1>1, <2>1, ExceptMap DEF Maps
  <2>2. CASE UNCHANGED <<adding, pc>>
    BY <1>1, <2>2 DEF Maps
  <2> QED BY <2>1, <2>2 DEF update_balances
<1>4. Stored(c, p)'
  BY <1>1, <1>2, <1>3 DEF Stored
<1>5. chain_work(c) >= chain_work(c)
  BY StoredLoads DEF Stored
<1> QED BY <1>3, <1>4, <1>5 DEF Grown

LEMMA ReplaceStep ==
    ASSUME NEW p \in Procs, OneInv(p), Maps, NEW c, Stored(c, p), NEW candidate, IsSequence(candidate),
           replace_chain(p, candidate)
    PROVE  Grown(c, p)
<1>1. /\ pc[p] = "idle" /\ chain[p] = c /\ Good(c) /\ UNCHANGED <<pc, adding>>
      /\ validate_genesis_identity(candidate, Head(c)) /\ chain_work(candidate) > chain_work(c)
      /\ validate_chain(candidate)
  BY DEF replace_chain, heavier, Stored
<1>2. Good(candidate)
  <2>1. candidate # <<>> /\ Head(candidate) = Head(c)
    BY <1>1 DEF validate_genesis_identity, hash
  <2>2. Head(c) = c[1] /\ Head(candidate) = candidate[1]
    BY <1>1, <2>1, SequenceFacts DEF Good
  <2>3. candidate[1] = genesis
    BY <1>1, <2>1, <2>2 DEF Good
  <2> QED BY <1>1, <2>3, GoodCandidate
<1>3. PICK k : k = _find_fork_index(c, candidate)
  OBVIOUS
<1>4. CASE refused' = TRUE /\ db' = db
  BY <1>4 DEF Grown
<1>5. CASE /\ db' = reorganize_from(db, k, SubSeq(candidate, k + 1, Len(candidate)))
           /\ chain' = [chain EXCEPT ![p] = candidate]
  <2>1. insert(below(db, k), Range(SubSeq(candidate, k + 1, Len(candidate)))).blocks = Range(candidate)
    BY <1>1, <1>2, <1>3, ForkSplits DEF Stored
  <2>2. db'.blocks = Range(candidate)
    <3>1. IsTables(insert(below(db, k), Range(SubSeq(candidate, k + 1, Len(candidate)))))
      BY DEF insert, IsTables
    <3>2. ASSUME NEW d, IsTables(d), NEW v PROVE [d EXCEPT !.wallets = v].blocks = d.blocks
      BY <3>2 DEF IsTables
    <3> QED BY <1>5, <2>1, <3>1, <3>2 DEF reorganize_from
  <2>3. Maps' /\ pc'[p] = "idle" /\ chain'[p] = candidate
    BY <1>1, <1>5, ExceptMap DEF Maps
  <2>4. Stored(candidate, p)'
    BY <1>2, <2>2, <2>3 DEF Stored
  <2>5. chain_work(candidate) >= chain_work(c)
    <3>1. chain_work(candidate) \in Nat /\ chain_work(c) \in Nat
      BY <1>1, <1>2, WorkIsNat DEF Good
    <3> QED BY <1>1, <3>1
  <2> QED BY <2>3, <2>4, <2>5 DEF Grown
<1> QED BY <1>1, <1>3, <1>4, <1>5 DEF replace_chain

LEMMA CrashStep ==
    ASSUME NEW p \in Procs, OneInv(p), Maps, NEW c, Stored(c, p), Crash(p)
    PROVE  Grown(c, p)
<1>1. Maps' /\ pc'[p] = "down" /\ chain'[p] = <<>> /\ db' = db
  BY ExceptMap DEF Maps, Crash
<1>2. Stored(c, p)'
  BY <1>1 DEF Stored
<1>3. chain_work(c) >= chain_work(c)
  BY StoredLoads DEF Stored
<1> QED BY <1>1, <1>2, <1>3 DEF Grown

LEMMA OneStep ==
    ASSUME NEW p, Procs = {p}, PeersSendLists, OneInv(p), [Next]_vars, refused = FALSE, NEW c, Maps, Stored(c, p)
    PROVE  Grown(c, p)
<1>0. p \in Procs
  OBVIOUS
<1>1. ASSUME UNCHANGED <<db, pc, chain, adding>> PROVE Grown(c, p)
  <2>1. Maps' /\ Stored(c, p)'
    BY <1>1 DEF Maps, Stored
  <2>2. chain_work(c) >= chain_work(c)
    BY StoredLoads DEF Stored
  <2> QED BY <2>1, <2>2 DEF Grown
<1>2. CASE Open(p)
  BY <1>0, <1>2, OpenStep
<1>3. CASE _create_and_persist_genesis_block(p)
  BY <1>0, <1>3, GenesisStep
<1>4. CASE \E tx \in Submissions : submit_transaction(p, tx)
  BY <1>1, <1>4 DEF submit_transaction
<1>5. CASE \E a \in Miners : start_mining(p, a)
  BY <1>1, <1>5 DEF start_mining
<1>6. CASE commit_mined(p)
  <2>1. CASE UNCHANGED <<pc, chain, adding>>
    BY <1>1, <1>6, <2>1 DEF commit_mined
  <2>2. CASE validate_block_against_chain(mined[p][1], chain[p]) /\ begin_append(p, mined[p][1])
    <3>1. pc[p] = "idle" /\ UNCHANGED db
      BY <1>6 DEF commit_mined
    <3> QED BY <1>0, <2>2, <3>1, AppendStep
  <2> QED BY <1>6, <2>1, <2>2 DEF commit_mined
<1>7. CASE save(p)
  BY <1>0, <1>7, SaveStep
<1>8. CASE update_balances(p)
  BY <1>0, <1>8, UpdateStep
<1>9. CASE \E block \in PeerBlocks(chain[p]) : append_received(p, block)
  <2>1. PICK block : /\ pc[p] = "idle" /\ validate_block_against_chain(block, chain[p])
                     /\ begin_append(p, block) /\ UNCHANGED db
    BY <1>9 DEF append_received
  <2> QED BY <1>0, <2>1, AppendStep
<1>10. CASE \E candidate \in PeerChains(chain[p]) : replace_chain(p, candidate)
  <2>1. PICK candidate \in PeerChains(chain[p]) : replace_chain(p, candidate)
    BY <1>10
  <2>2. IsSequence(chain[p])
    BY <1>0, <2>1 DEF replace_chain, Stored, Good
  <2>3. IsSequence(candidate)
    BY <2>1, <2>2 DEF PeersSendLists
  <2> QED BY <1>0, <2>1, <2>3, ReplaceStep
<1>11. CASE Crash(p)
  BY <1>0, <1>11, CrashStep
<1>12. CASE UNCHANGED vars
  BY <1>1, <1>12 DEF vars, memory
<1> QED BY <1>2, <1>3, <1>4, <1>5, <1>6, <1>7, <1>8, <1>9, <1>10, <1>11, <1>12 DEF Next

LEMMA RefusedStays ==
    ASSUME [Next]_vars, refused \in BOOLEAN
    PROVE  refused' \in BOOLEAN /\ (refused => refused')
<1>1. refused' = TRUE \/ refused' = refused
  <2>1. ASSUME NEW p \in Procs, save(p) PROVE refused' = TRUE \/ refused' = refused
    BY <2>1 DEF save
  <2>2. ASSUME NEW p \in Procs, NEW candidate, replace_chain(p, candidate)
        PROVE  refused' = TRUE \/ refused' = refused
    BY <2>2 DEF replace_chain
  <2>3. ASSUME NEW p \in Procs,
               \/ Open(p) \/ _create_and_persist_genesis_block(p)
               \/ \E tx \in Submissions : submit_transaction(p, tx)
               \/ \E a \in Miners : start_mining(p, a)
               \/ commit_mined(p) \/ update_balances(p)
               \/ \E block \in PeerBlocks(chain[p]) : append_received(p, block)
               \/ Crash(p)
        PROVE  refused' = refused
    BY <2>3 DEF Open, _create_and_persist_genesis_block, submit_transaction, start_mining, commit_mined,
                update_balances, append_received, Crash
  <2>4. CASE UNCHANGED vars
    BY <2>4 DEF vars
  <2> QED BY <2>1, <2>2, <2>3, <2>4 DEF Next
<1> QED BY <1>1

LEMMA OneInit == ASSUME NEW p, Procs = {p} PROVE Init => OneInv(p)
<1> SUFFICES ASSUME Init PROVE OneInv(p)
  OBVIOUS
<1>1. Agree(db) /\ refused = FALSE
  BY DEF Init, EmptyTables, Agree, IsTables
<1>2. Maps /\ pc[p] = "down" /\ chain[p] = <<>>
  BY DEF Init, Maps, IsMap
<1>3. db.blocks = Range(<<>>)
  BY EmptyFacts DEF Init, EmptyTables
<1>4. Stored(<<>>, p)
  BY <1>2, <1>3 DEF Stored
<1> QED BY <1>1, <1>2, <1>4 DEF OneInv

LEMMA OneInductive ==
    ASSUME NEW p, Procs = {p}, PeersSendLists, OneInv(p), [Next]_vars
    PROVE  OneInv(p)' /\ (refused \/ chain_work(load_chain(db')) >= chain_work(load_chain(db)))
<1>1. Agree(db')
  BY AgreeStep DEF OneInv
<1>2. refused' \in BOOLEAN /\ (refused => refused')
  BY RefusedStays DEF OneInv
<1>3. CASE refused
  BY <1>1, <1>2, <1>3 DEF OneInv, Agree, IsTables
<1>4. CASE ~refused
  <2>1. PICK c : Maps /\ Stored(c, p)
    BY <1>4 DEF OneInv
  <2>2. Grown(c, p)
    BY <1>4, <2>1, OneStep DEF OneInv
  <2>3. load_chain(db) = c /\ chain_work(c) \in Nat
    BY <2>1, StoredLoads DEF Stored
  <2>4. CASE refused' = TRUE /\ db' = db
    BY <1>1, <2>3, <2>4 DEF OneInv, Agree, IsTables
  <2>5. CASE Maps' /\ \E new : Stored(new, p)' /\ chain_work(new) >= chain_work(c)
    <3>1. PICK new : Maps' /\ Stored(new, p)' /\ chain_work(new) >= chain_work(c)
      BY <2>5
    <3>2. (new = <<>> \/ Good(new)) /\ db'.blocks = Range(new)
      BY <3>1 DEF Stored
    <3>3. load_chain(db') = new
      BY <3>2, StoredLoads
    <3>4. OneInv(p)'
      BY <1>1, <1>2, <3>1 DEF OneInv, Agree, IsTables
    <3> QED BY <2>3, <3>1, <3>3, <3>4
  <2> QED BY <2>2, <2>4, <2>5 DEF Grown
<1> QED BY <1>3, <1>4

LEMMA OneImplies ==
    ASSUME NEW p, Procs = {p}, OneInv(p)
    PROVE  MemoryIsStored /\ LoadedChainIsValid
<1>1. CASE refused
  BY <1>1 DEF MemoryIsStored, LoadedChainIsValid
<1>2. CASE ~refused
  <2>1. PICK c : Stored(c, p)
    BY <1>2 DEF OneInv
  <2>2. load_chain(db) = c /\ (db.blocks = {} <=> c = <<>>)
    BY <2>1, StoredLoads DEF Stored
  <2>3. LoadedChainIsValid
    BY <2>1, <2>2 DEF LoadedChainIsValid, Stored, Good
  <2>4. ASSUME chain[p] # <<>>
        PROVE  chain[p] = IF pc[p] = "save" THEN load_chain(db) \o adding[p] ELSE load_chain(db)
    <3>1. CASE pc[p] = "save"
      <4>1. PICK b : chain[p] = Append(c, b) /\ adding[p] = <<b>> /\ IsSequence(c)
        BY <2>1, <3>1 DEF Stored, Good
      <4>2. Append(c, b) = c \o <<b>>
        <5>1. PICK S : c \in Seq(S)
          BY <4>1 DEF IsSequence
        <5>2. c \in Seq(S \cup {b}) /\ b \in S \cup {b}
          BY <5>1
        <5> QED BY <5>2, AppendIsConcat
      <4> QED BY <2>2, <3>1, <4>1, <4>2
    <3>2. CASE pc[p] # "save"
      BY <2>1, <2>2, <2>4, <3>2 DEF Stored
    <3> QED BY <3>1, <3>2
  <2>5. MemoryIsStored
    BY <2>4 DEF MemoryIsStored
  <2> QED BY <2>3, <2>5
<1> QED BY <1>1, <1>2

(* One process that alone opens the database has in memory what is stored, *)
(* through crashes at any point, mining outside the lock, received blocks  *)
(* and reorganizations, as long as no insertion was refused                *)
(* (blockchain.py appends to its list first and saves after).              *)
THEOREM MemoryFollowsStorage ==
    ASSUME NEW p, Procs = {p}, PeersSendLists
    PROVE  Spec => []MemoryIsStored
<1>1. Init => OneInv(p)
  BY OneInit
<1>2. OneInv(p) /\ [Next]_vars => OneInv(p)'
  BY OneInductive
<1>3. OneInv(p) => MemoryIsStored
  BY OneImplies
<1> QED BY <1>1, <1>2, <1>3, PTL DEF Spec

(* What that process loads after a restart, which Blockchain.__init__ does *)
(* not validate, is a valid chain.                                         *)
THEOREM RestartLoadsValidChain ==
    ASSUME NEW p, Procs = {p}, PeersSendLists
    PROVE  Spec => []LoadedChainIsValid
<1>1. Init => OneInv(p)
  BY OneInit
<1>2. OneInv(p) /\ [Next]_vars => OneInv(p)'
  BY OneInductive
<1>3. OneInv(p) => LoadedChainIsValid
  BY OneImplies
<1> QED BY <1>1, <1>2, <1>3, PTL DEF Spec

(* No step of that process, a reorganization or a restart included, lowers *)
(* the work of the stored chain.                                           *)
THEOREM WorkOnlyGrows ==
    ASSUME NEW p, Procs = {p}, PeersSendLists
    PROVE  Spec => StoredWorkGrows
<1>1. Init => OneInv(p)
  BY OneInit
<1>2. OneInv(p) /\ [Next]_vars => OneInv(p)'
  BY OneInductive
<1>3. OneInv(p) /\ [Next]_vars => [refused \/ chain_work(load_chain(db')) >= chain_work(load_chain(db))]_vars
  BY OneInductive
<1> QED BY <1>1, <1>2, <1>3, PTL DEF Spec, StoredWorkGrows

-----------------------------------------------------------------------------
(* Module PyLedger: how far one retarget moves *)

LEMMA Power16Next ==
    ASSUME NEW d \in Nat
    PROVE  power16(d + 1) = 16 * power16(d)
<1> DEFINE g(n) == CHOOSE power : power = [i \in 0..n |-> IF i = 0 THEN 1 ELSE 16 * power[i - 1]]
<1>1. \A n \in Nat : power16(n) = g(n)[n]
  BY DEF power16
<1>2. ASSUME NEW n \in Nat PROVE IsPower(g(n), n, 16)
  <2>1. \E f : IsPower(f, n, 16)
    BY PowerExists
  <2> QED BY <2>1 DEF IsPower
<1>3. d + 1 \in Nat /\ d <= d + 1
  OBVIOUS
<1> HIDE DEF g
<1>4. \A i \in 0..d : g(d)[i] = g(d + 1)[i] /\ g(d)[i] \in Nat /\ g(d)[i] > 0
  <2> DEFINE m == d + 1
             f == g(d)
             h == g(m)
  <2>1. m \in Nat /\ d <= m /\ IsPower(f, d, 16) /\ IsPower(h, m, 16)
    BY <1>2, <1>3
  <2> HIDE DEF m, f, h
  <2>2. \A i \in 0..d : f[i] = h[i] /\ f[i] \in Nat /\ f[i] > 0
    BY <2>1, PowersAgree
  <2> QED BY <2>2 DEF m, f, h
<1>5. g(d + 1)[d + 1] = 16 * g(d + 1)[d]
  <2> DEFINE m == d + 1
             h == g(m)
  <2>1. h = [i \in 0..m |-> IF i = 0 THEN 1 ELSE 16 * h[i - 1]]
    BY <1>2, <1>3 DEF IsPower
  <2> HIDE DEF h
  <2>2. m \in 0..m /\ m # 0 /\ m - 1 = d
    OBVIOUS
  <2>3. h[m] = 16 * h[m - 1]
    BY <2>1, <2>2
  <2> QED BY <2>2, <2>3 DEF h
<1>6. d \in 0..d
  OBVIOUS
<1> QED BY <1>1, <1>3, <1>4, <1>5, <1>6

LEMMA UpByOne ==
    ASSUME NEW base \in Nat, base <= max_difficulty, NEW e \in Nat, NEW t \in Nat, e < 64 * t
    PROVE  Min(Up(base, e, t)) <= base + 1
<1>0. max_difficulty \in Nat
  BY Difficulties
<1>1. Max({base, max_difficulty}) = max_difficulty
  <2>1. Max({base, max_difficulty}) = IF base >= max_difficulty THEN base ELSE max_difficulty
    BY <1>0, MaxOfTwo
  <2> QED BY <1>0, <2>1
<1>2. /\ \A d \in Up(base, e, t) : Min(Up(base, e, t)) <= d
      /\ Min(Up(base, e, t)) \in Nat
  BY UpFacts
<1>3. CASE base = max_difficulty
  <2>1. base \in Up(base, e, t)
    BY <1>0, <1>1, <1>3 DEF Up
  <2> QED BY <1>2, <2>1
<1>4. CASE base < max_difficulty
  <2> DEFINE p == power16(base)
  <2>1. p \in Nat /\ p > 0 /\ power16(base + 1) = 16 * p
    BY Power16Positive, Power16Next
  <2> HIDE DEF p
  <2>2. \A n \in Nat : e < n => p * e < p * n
    BY <2>1
  <2>3. p * e < p * (64 * t)
    BY <2>2
  <2>4. (16 * p) * 4 * t = p * (64 * t) /\ p * e \in Nat /\ p * (64 * t) \in Nat
    BY <2>1
  <2>5. ~(p * e >= (16 * p) * 4 * t)
    BY <2>3, <2>4
  <2>6. base + 1 \in base..max_difficulty
    BY <1>0, <1>4
  <2>7. base + 1 \in Up(base, e, t)
    BY <1>1, <2>1, <2>5, <2>6 DEF Up, p
  <2> QED BY <1>2, <2>7
<1> QED BY <1>0, <1>3, <1>4

LEMMA DownByOne ==
    ASSUME NEW base \in Nat, base > 0, NEW e \in Nat, NEW t \in Nat, t < 64 * e
    PROVE  Max(Down(base, e, t)) >= base - 1
<1> DEFINE d == base - 1
           p == power16(d)
<1>1. d \in Nat /\ base = d + 1
  OBVIOUS
<1>2. p \in Nat /\ p > 0 /\ power16(base) = 16 * p
  <2> HIDE DEF d
  <2> QED BY <1>1, Power16Positive, Power16Next
<1> HIDE DEF p
<1>3. \A n \in Nat : t < n => p * t < p * n
  BY <1>2
<1>4. p * t < p * (64 * e)
  BY <1>3
<1>5. (16 * p) * e * 4 = p * (64 * e) /\ p * t \in Nat /\ p * (64 * e) \in Nat
  BY <1>2
<1>6. ~((16 * p) * e * 4 <= p * t)
  BY <1>4, <1>5
<1>7. d \in 0..base
  OBVIOUS
<1>8. d \in Down(base, e, t)
  <2> HIDE DEF d
  <2> QED BY <1>2, <1>6, <1>7 DEF Down, p
<1>9. \A x \in Down(base, e, t) : x <= Max(Down(base, e, t))
  BY DownFacts
<1> QED BY <1>8, <1>9

(* The clamp with its rounding: a factor up to 32 keeps the timespan       *)
(* within 64 times of the expected one.                                    *)
LEMMA ClampFacts ==
    ASSUME NEW actual \in Int, NEW e \in Nat, e > 0, max_adjustment_factor <= 32
    PROVE  /\ clamped_timespan(actual, e) \in Nat /\ clamped_timespan(actual, e) > 0
           /\ e < 64 * clamped_timespan(actual, e) /\ clamped_timespan(actual, e) < 64 * e
<1> DEFINE F == max_adjustment_factor
           q == e \div F
           low == Max({1, q})
           a == Max({actual, 1})
           m == Min({a, e * F})
           t == Max({low, m})
<1>0. F \in Nat /\ F >= 1 /\ F <= 32
  BY Difficulties
<1>t. clamped_timespan(actual, e) = t
  BY DEF clamped_timespan
<1> HIDE DEF F
<1>1. q \in Nat /\ q * F <= e /\ e < (q + 1) * F
  BY <1>0
<1> HIDE DEF q
<1>2. e * F \in Nat /\ e * F >= 1 /\ e * F <= 32 * e /\ e <= e * F
  BY <1>0
<1>3. q <= e
  <2>1. q * 1 <= q * F
    BY <1>0, <1>1
  <2>2. q * F \in Nat
    BY <1>0, <1>1
  <2> QED BY <1>1, <2>1, <2>2
<1>4. low \in Nat /\ low >= 1 /\ low >= q /\ low <= e
  <2>1. low = IF 1 >= q THEN 1 ELSE q
    BY <1>1, MaxOfTwo
  <2> QED BY <1>1, <1>3, <2>1
<1>5. e < 64 * low
  <2>1. (q + 1) * F <= (q + 1) * 32 /\ (q + 1) * F \in Nat
    BY <1>0, <1>1
  <2>2. e < 32 * q + 32
    BY <1>1, <2>1
  <2> HIDE DEF low
  <2> QED BY <1>1, <1>4, <2>2
<1> HIDE DEF low
<1>6. a \in Nat /\ a >= 1
  <2>1. a = IF actual >= 1 THEN actual ELSE 1
    BY MaxOfTwo
  <2> QED BY <2>1
<1> HIDE DEF a
<1>7. m \in Nat /\ m >= 1 /\ m <= 32 * e
  <2> DEFINE z == e * F
  <2>0. z \in Nat /\ z >= 1 /\ z <= 32 * e
    BY <1>2
  <2> HIDE DEF z
  <2>1. Min({a, z}) = IF a <= z THEN a ELSE z
    BY <1>6, <2>0, MinOfTwo
  <2>2. Min({a, z}) \in Nat /\ Min({a, z}) >= 1 /\ Min({a, z}) <= 32 * e
    BY <1>6, <2>0, <2>1
  <2> QED BY <2>2 DEF z
<1> HIDE DEF m
<1>8. t = IF low >= m THEN low ELSE m
  BY <1>4, <1>7, MaxOfTwo
<1> HIDE DEF t
<1>9. t \in Nat /\ t >= low /\ t >= 1 /\ t <= 32 * e
  BY <1>4, <1>7, <1>8
<1>10. e < 64 * t /\ t < 64 * e
  BY <1>4, <1>5, <1>9
<1> QED BY <1>t, <1>9, <1>10

(* One retarget from a difficulty within the bounds. *)
LEMMA MovesByOne ==
    ASSUME NEW base \in min_difficulty..max_difficulty, NEW e \in Nat, NEW t \in Nat, e < 64 * t, t < 64 * e
    PROVE  /\ Bounded(Moved(base, e, t)) \in min_difficulty..max_difficulty
           /\ Bounded(Moved(base, e, t)) - base \in -1..1
<1> DEFINE n == Moved(base, e, t)
<1>0. base \in Nat /\ base <= max_difficulty /\ min_difficulty <= base
  BY Difficulties
<1>1. n \in Nat
  BY <1>0, MovedIsNat
<1>2. n - base \in -1..1
  <2>1. Min(Up(base, e, t)) \in base..(base + 1)
    BY <1>0, UpFacts, UpByOne
  <2>2. Max(Down(base, e, t)) \in Nat /\ Max(Down(base, e, t)) <= base /\ Max(Down(base, e, t)) >= base - 1
    <3>1. Max(Down(base, e, t)) \in Nat /\ Max(Down(base, e, t)) <= base
      BY <1>0, DownFacts
    <3>2. CASE base = 0
      BY <3>1, <3>2
    <3>3. CASE base > 0
      BY <1>0, <3>1, <3>3, DownByOne
    <3> QED BY <1>0, <3>1, <3>2, <3>3
  <2> QED BY <1>0, <2>1, <2>2 DEF Moved
<1> HIDE DEF n
<1>3. Bounded(n) = IF n < min_difficulty THEN min_difficulty ELSE IF n > max_difficulty THEN max_difficulty ELSE n
  BY <1>1, BoundedIs
<1>4. Bounded(n) \in min_difficulty..max_difficulty /\ Bounded(n) - base \in -1..1
  BY <1>0, <1>1, <1>2, <1>3, Difficulties
<1> QED BY <1>4 DEF n

LEMMA ClampMonotone ==
    ASSUME NEW x \in Int, NEW y \in Int, x <= y, NEW e \in Nat
    PROVE  /\ clamped_timespan(x, e) \in Nat /\ clamped_timespan(y, e) \in Nat
           /\ clamped_timespan(x, e) <= clamped_timespan(y, e)
<1> DEFINE low == Max({1, e \div max_adjustment_factor})
           high == e * max_adjustment_factor
           raised(n) == Max({n, 1})
           cut(n) == Min({n, high})
<1>0. e \div max_adjustment_factor \in Nat /\ high \in Nat
  BY Difficulties
<1>1. low \in Nat
  <2> DEFINE q == e \div max_adjustment_factor
  <2> HIDE DEF q
  <2>1. Max({1, q}) = IF 1 >= q THEN 1 ELSE q
    BY <1>0, MaxOfTwo DEF q
  <2>2. Max({1, q}) \in Nat
    BY <1>0, <2>1 DEF q
  <2> QED BY <2>2 DEF q
<1>2. \A n \in Int : clamped_timespan(n, e) = Max({low, cut(raised(n))})
  BY DEF clamped_timespan
<1> HIDE DEF low, high
<1>3. ASSUME NEW n \in Int PROVE raised(n) = IF n >= 1 THEN n ELSE 1
  BY MaxOfTwo
<1>4. ASSUME NEW n \in Int PROVE cut(n) = IF n <= high THEN n ELSE high
  BY <1>0, MinOfTwo
<1> HIDE DEF raised, cut
<1>5. /\ raised(x) \in Nat /\ raised(y) \in Nat /\ raised(x) <= raised(y)
  BY <1>3
<1>6. /\ cut(raised(x)) \in Nat /\ cut(raised(y)) \in Nat /\ cut(raised(x)) <= cut(raised(y))
  BY <1>0, <1>4, <1>5
<1>7. ASSUME NEW n \in Nat PROVE Max({low, n}) = IF low >= n THEN low ELSE n
  BY <1>1, MaxOfTwo
<1>8. /\ Max({low, cut(raised(x))}) \in Nat /\ Max({low, cut(raised(y))}) \in Nat
      /\ Max({low, cut(raised(x))}) <= Max({low, cut(raised(y))})
  BY <1>1, <1>6, <1>7
<1> QED BY <1>2, <1>8

(* What Block.from_dict gives: all fields are there, the timestamp is an   *)
(* integer.                                                                *)
IsBlock(b) ==
    /\ b = [index |-> b.index, previous_hash |-> b.previous_hash, timestamp |-> b.timestamp,
            difficulty |-> b.difficulty, zeros |-> b.zeros, intact |-> b.intact, transactions |-> b.transactions]
    /\ b.timestamp \in Int

IsChain(c) == IsSequence(c) /\ Len(c) > 0 /\ \A i \in 1..Len(c) : IsBlock(c[i]) /\ c[i].difficulty \in Nat

(* What is offered to a chain of blocks are blocks. *)
OffersAreBlocks == \A c : IsChain(c) => \A b \in Offers(c) : IsBlock(b)

WithinBounds ==
    \A i \in 2..Len(ledger) :
        /\ ledger[i].difficulty \in min_difficulty..max_difficulty
        /\ difficulty_adjustment_interval = 1 => ledger[i].difficulty = config_difficulty

ShapeInv ==
    /\ IsSequence(ledger) /\ Len(ledger) > 0
    /\ \A i \in 1..Len(ledger) : IsBlock(ledger[i]) /\ ledger[i].difficulty \in Nat

LEMMA ShapeInit == LedgerInit => ShapeInv
<1> SUFFICES ASSUME LedgerInit PROVE ShapeInv
  OBVIOUS
<1>1. ledger = <<genesis>>
  BY DEF LedgerInit
<1>2. Good(<<genesis>>)
  BY GoodGenesis
<1>3. IsBlock(genesis) /\ genesis.difficulty = 0
  BY DEF IsBlock, genesis
<1>4. IsSequence(ledger) /\ Len(ledger) = 1 /\ ledger[1] = genesis
  BY <1>1, <1>2 DEF Good
<1> QED BY <1>3, <1>4 DEF ShapeInv

LEMMA ShapeStep ==
    ASSUME ShapeInv, OffersAreBlocks, NEW b \in Offers(ledger), AppendBlock(b)
    PROVE  /\ ShapeInv' /\ Len(ledger') = Len(ledger) + 1 /\ Len(ledger) \in Nat
           /\ ledger'[Len(ledger) + 1] = b /\ \A i \in 1..Len(ledger) : ledger'[i] = ledger[i]
           /\ b.difficulty = expected_difficulty(ledger)
<1> DEFINE N == Len(ledger)
<1>0. N \in Nat
  BY SequenceFacts DEF ShapeInv
<1>1. /\ IsSequence(ledger') /\ Len(ledger') = N + 1
      /\ ledger'[N + 1] = b /\ \A i \in 1..N : ledger'[i] = ledger[i]
  BY PrefixOfAppend DEF ShapeInv, AppendBlock
<1>2. b.difficulty = expected_difficulty(ledger)
  BY DEF AppendBlock, validate_block_against_chain
<1>3. b.difficulty \in Nat
  <2>1. Rated(ledger)
    BY DEF ShapeInv, Rated
  <2> QED BY <1>2, <2>1, ExpectedDifficultyIsNat DEF ShapeInv
<1>4. IsBlock(b)
  BY DEF OffersAreBlocks, IsChain, ShapeInv
<1>5. ASSUME NEW i \in 1..(N + 1) PROVE IsBlock(ledger'[i]) /\ ledger'[i].difficulty \in Nat
  <2>1. CASE i \in 1..N
    BY <1>1, <2>1 DEF ShapeInv
  <2>2. CASE i = N + 1
    BY <1>1, <1>3, <1>4, <2>2
  <2> QED BY <1>0, <2>1, <2>2
<1>6. IsSequence(ledger') /\ Len(ledger') > 0 /\ \A i \in 1..Len(ledger') : IsBlock(ledger'[i]) /\ ledger'[i].difficulty \in Nat
  BY <1>0, <1>1, <1>5
<1> QED BY <1>0, <1>1, <1>2, <1>6 DEF ShapeInv, IsBlock, IsSequence

(* The difficulty that the next block must have. *)
LEMMA NextWithinBounds ==
    ASSUME ShapeInv, WithinBounds, max_adjustment_factor <= 32,
           config_difficulty \in min_difficulty..max_difficulty
    PROVE  /\ expected_difficulty(ledger) \in min_difficulty..max_difficulty
           /\ difficulty_adjustment_interval = 1 => expected_difficulty(ledger) = config_difficulty
           /\ Len(ledger) >= 2 => expected_difficulty(ledger) - ledger[Len(ledger)].difficulty \in -1..1
<1> DEFINE N == Len(ledger)
           k == difficulty_adjustment_interval
           base == ledger[N].difficulty
<1>0. N \in Nat /\ N > 0 /\ k \in Nat /\ k > 0 /\ base \in Nat
  <2>1. N \in Nat /\ N > 0 /\ k \in Nat /\ k > 0
    BY SequenceFacts, Difficulties DEF ShapeInv
  <2>2. N \in 1..Len(ledger)
    BY <2>1
  <2> QED BY <2>1, <2>2 DEF ShapeInv
<1>1. PICK w : /\ expected_difficulty(ledger) = next_difficulty(w) /\ IsSequence(w)
               /\ Len(w) = (IF N >= k THEN k ELSE N)
               /\ \A i \in 1..Len(w) : w[i] = ledger[N - Len(w) + i]
  BY WindowOf DEF ShapeInv
<1>2. Len(w) \in Nat /\ Len(w) > 0 /\ Len(w) <= N
  BY <1>0, <1>1
<1>3. N >= 2 => base \in min_difficulty..max_difficulty /\ (k = 1 => base = config_difficulty)
  <2>1. N >= 2 => N \in 2..Len(ledger)
    BY <1>0
  <2> QED BY <2>1 DEF WithinBounds
<1>4. CASE Len(w) < 2
  <2>1. expected_difficulty(ledger) = config_difficulty
    BY <1>1, <1>4 DEF next_difficulty
  <2>2. N = 1 \/ k = 1
    <3>1. Len(w) = (IF N >= k THEN k ELSE N)
      BY <1>1
    <3>2. Len(w) = 1
      <4>1. \A n \in Nat : n > 0 /\ n < 2 => n = 1
        OBVIOUS
      <4>2. Len(w) \in Nat /\ Len(w) > 0 /\ Len(w) < 2
        BY <1>2, <1>4
      <4> QED BY <4>1, <4>2
    <3> HIDE DEF N, k
    <3> QED BY <1>0, <3>1, <3>2
  <2>3. N >= 2 => config_difficulty - base = 0
    BY <1>0, <1>3, <2>2, Difficulties
  <2> HIDE DEF base
  <2> QED BY <2>1, <2>3 DEF base
<1>5. CASE ~(Len(w) < 2)
  <2>1. Last(w) = ledger[N] /\ Head(w) = ledger[N - Len(w) + 1]
    BY <1>0, <1>1, <1>2, WindowEnds
  <2>2. N \in 1..N /\ N - Len(w) + 1 \in 1..N /\ N >= 2 /\ k >= 2
    BY <1>0, <1>1, <1>2, <1>5
  <2>3. Last(w).timestamp \in Int /\ Head(w).timestamp \in Int
    BY <2>1, <2>2 DEF ShapeInv, IsBlock
  <2> DEFINE e == (Len(w) - 1) * target_block_time
             t == clamped_timespan(Last(w).timestamp - Head(w).timestamp, e)
  <2>4. e \in Nat /\ e > 0
    <3>1. \A x, y \in Nat : x > 0 /\ y > 0 => x * y \in Nat /\ x * y > 0
      OBVIOUS
    <3>2. Len(w) - 1 \in Nat /\ Len(w) - 1 > 0
      BY <1>2, <1>5
    <3> QED BY <3>1, <3>2, Difficulties
  <2> HIDE DEF e
  <2>5. t \in Nat /\ e < 64 * t /\ t < 64 * e
    <3>1. Last(w).timestamp - Head(w).timestamp \in Int
      BY <2>3
    <3> QED BY <2>4, <3>1, ClampFacts
  <2>6. next_difficulty(w) = Bounded(Moved(base, e, t))
    <3>1. Last(w).difficulty = base
      BY <2>1
    <3> HIDE DEF base
    <3> QED BY <1>0, <1>5, <3>1, NextDifficultyIs DEF e
  <2> HIDE DEF t, base
  <2>7. base \in min_difficulty..max_difficulty
    BY <1>3, <2>2
  <2>8. /\ Bounded(Moved(base, e, t)) \in min_difficulty..max_difficulty
        /\ Bounded(Moved(base, e, t)) - base \in -1..1
    BY <2>4, <2>5, <2>7, MovesByOne
  <2> QED BY <1>1, <2>2, <2>6, <2>8 DEF base
<1> QED BY <1>4, <1>5

(* Whatever timestamps the accepted blocks have, the required difficulty   *)
(* stays within its configured bounds and moves by at most one level from  *)
(* a block to the next (consensus.py next_difficulty; its                  *)
(* max_adjustment_factor is 4, and the midpoint between two levels is a    *)
(* factor of 4 on either side, so up to 32 one level is enough).           *)
THEOREM DifficultyMovesSlowly ==
    ASSUME OffersAreBlocks, max_adjustment_factor <= 32, config_difficulty \in min_difficulty..max_difficulty
    PROVE  LedgerSpec => []RetargetBounded
<1> DEFINE Inv == ShapeInv /\ WithinBounds /\ RetargetBounded
<1>1. LedgerInit => Inv
  <2> SUFFICES ASSUME LedgerInit PROVE Inv
    OBVIOUS
  <2>1. ShapeInv
    BY ShapeInit
  <2>2. Len(ledger) = 1
    BY DEF LedgerInit
  <2> QED BY <2>1, <2>2 DEF WithinBounds, RetargetBounded
<1>2. Inv /\ [LedgerNext]_ledger => Inv'
  <2> SUFFICES ASSUME Inv, [LedgerNext]_ledger PROVE Inv'
    OBVIOUS
  <2>1. CASE UNCHANGED ledger
    BY <2>1 DEF ShapeInv, WithinBounds, RetargetBounded, IsBlock, IsSequence
  <2>2. ASSUME NEW b \in Offers(ledger), AppendBlock(b) PROVE Inv'
    <3> DEFINE N == Len(ledger)
    <3>1. /\ ShapeInv' /\ Len(ledger') = N + 1 /\ N \in Nat
          /\ ledger'[N + 1] = b /\ \A i \in 1..N : ledger'[i] = ledger[i]
          /\ b.difficulty = expected_difficulty(ledger)
      BY <2>2, ShapeStep
    <3>2. /\ b.difficulty \in min_difficulty..max_difficulty
          /\ difficulty_adjustment_interval = 1 => b.difficulty = config_difficulty
          /\ N >= 2 => b.difficulty - ledger[N].difficulty \in -1..1
      BY <3>1, NextWithinBounds
    <3>3. ASSUME NEW i \in 2..(N + 1)
          PROVE  /\ ledger'[i].difficulty \in min_difficulty..max_difficulty
                 /\ difficulty_adjustment_interval = 1 => ledger'[i].difficulty = config_difficulty
      <4>1. CASE i \in 2..N
        <5>1. i \in 1..N
          BY <3>1, <4>1
        <5> QED BY <3>1, <4>1, <5>1 DEF WithinBounds
      <4>2. CASE i = N + 1
        BY <3>1, <3>2, <4>2
      <4> QED BY <3>1, <4>1, <4>2
    <3>4. ASSUME NEW i \in 3..(N + 1)
          PROVE  /\ ledger'[i].difficulty \in min_difficulty..max_difficulty
                 /\ ledger'[i].difficulty - ledger'[i - 1].difficulty \in -1..1
      <4>1. CASE i \in 3..N
        <5>1. i \in 1..N /\ i - 1 \in 1..N
          BY <3>1, <4>1
        <5>2. ledger'[i] = ledger[i] /\ ledger'[i - 1] = ledger[i - 1]
          BY <3>1, <5>1
        <5> QED BY <4>1, <5>2 DEF RetargetBounded
      <4>2. CASE i = N + 1
        <5>1. N >= 2 /\ N \in 1..N /\ i - 1 = N
          BY <3>1, <4>2
        <5>2. ledger'[i] = b /\ ledger'[i - 1] = ledger[N]
          BY <3>1, <4>2, <5>1
        <5> QED BY <3>2, <5>1, <5>2
      <4> QED BY <3>1, <4>1, <4>2
    <3> QED BY <3>1, <3>3, <3>4 DEF WithinBounds, RetargetBounded
  <2> QED BY <2>1, <2>2 DEF LedgerNext
<1>3. Inv => RetargetBounded
  OBVIOUS
<1> QED BY <1>1, <1>2, <1>3, PTL DEF LedgerSpec

(* The last block is later, everything else is the same. *)
LEMMA LaterLast ==
    ASSUME ShapeInv, NEW later, IsSequence(later), Len(later) = Len(ledger),
           \A i \in 1..Len(ledger) : i # Len(ledger) => later[i] = ledger[i],
           later[Len(ledger)].difficulty = ledger[Len(ledger)].difficulty,
           later[Len(ledger)].timestamp \in Int,
           ledger[Len(ledger)].timestamp <= later[Len(ledger)].timestamp
    PROVE  expected_difficulty(later) <= expected_difficulty(ledger)
<1> DEFINE N == Len(ledger)
           k == difficulty_adjustment_interval
<1>0. N \in Nat /\ N > 0 /\ k \in Nat /\ k > 0
  BY SequenceFacts, Difficulties DEF ShapeInv
<1>1. \A i \in 1..N : ledger[i].timestamp \in Int /\ ledger[i].difficulty \in Nat
  BY DEF ShapeInv, IsBlock
<1>2. N \in 1..N
  BY <1>0
<1>4. PICK w : /\ expected_difficulty(ledger) = next_difficulty(w) /\ IsSequence(w)
               /\ Len(w) = (IF N >= k THEN k ELSE N)
               /\ \A i \in 1..Len(w) : w[i] = ledger[N - Len(w) + i]
  BY WindowOf DEF ShapeInv
<1>5. PICK v : /\ expected_difficulty(later) = next_difficulty(v) /\ IsSequence(v)
               /\ Len(v) = (IF Len(later) >= k THEN k ELSE Len(later))
               /\ \A i \in 1..Len(v) : v[i] = later[Len(later) - Len(v) + i]
  <2>1. Len(later) > 0
    BY <1>0
  <2> QED BY <2>1, WindowOf
<1>6. Len(w) \in Nat /\ Len(w) > 0 /\ Len(w) <= N /\ Len(v) = Len(w)
  <2>1. Len(w) = (IF N >= k THEN k ELSE N)
    BY <1>4
  <2>2. Len(v) = (IF Len(later) >= k THEN k ELSE Len(later))
    BY <1>5
  <2> QED BY <1>0, <2>1, <2>2
<1>7. CASE Len(w) < 2
  <2>1. expected_difficulty(ledger) = config_difficulty /\ expected_difficulty(later) = config_difficulty
    BY <1>4, <1>5, <1>6, <1>7 DEF next_difficulty
  <2> QED BY <2>1, Difficulties
<1>8. CASE ~(Len(w) < 2)
  <2> DEFINE h == N - Len(w) + 1
  <2>1. h \in 1..N /\ h # N
    BY <1>0, <1>6, <1>8
  <2>2. Last(w) = ledger[N] /\ Head(w) = ledger[h]
    BY <1>0, <1>4, <1>6, WindowEnds
  <2>3. Last(v) = later[N] /\ Head(v) = later[h]
    <3>1. /\ Len(later) \in Nat /\ IsSequence(v) /\ Len(v) > 0 /\ Len(v) <= Len(later)
      BY <1>0, <1>5, <1>6
    <3>2. \A i \in 1..Len(v) : v[i] = later[Len(later) - Len(v) + i]
      BY <1>5
    <3>3. Last(v) = later[Len(later)] /\ Head(v) = later[Len(later) - Len(v) + 1]
      BY <3>1, <3>2, WindowEnds
    <3> QED BY <1>6, <3>3
  <2> HIDE DEF h
  <2> DEFINE e == (Len(w) - 1) * target_block_time
             x == Last(w).timestamp - Head(w).timestamp
             y == Last(v).timestamp - Head(v).timestamp
             t == clamped_timespan(x, e)
             u == clamped_timespan(y, e)
             base == ledger[N].difficulty
  <2>4. base \in Nat /\ Last(w).difficulty = base /\ Last(v).difficulty = base
    BY <1>1, <1>2, <2>2, <2>3
  <2>5. e \in Nat
    <3>1. Len(w) - 1 \in Nat
      BY <1>6
    <3> QED BY <3>1, Difficulties
  <2>6. x \in Int /\ y \in Int /\ x <= y
    <3>1. Head(v) = Head(w) /\ Head(w).timestamp \in Int
      BY <1>1, <2>1, <2>2, <2>3
    <3>2. Last(w).timestamp \in Int /\ Last(v).timestamp \in Int /\ Last(w).timestamp <= Last(v).timestamp
      BY <1>1, <1>2, <2>2, <2>3
    <3> QED BY <3>1, <3>2
  <2> HIDE DEF base
  <2>7. next_difficulty(w) = Bounded(Moved(base, e, t))
    BY <1>8, <2>4, NextDifficultyIs
  <2>8. next_difficulty(v) = Bounded(Moved(base, e, u))
    <3>1. e = (Len(v) - 1) * target_block_time
      BY <1>6
    <3>2. ~(Len(v) < 2)
      BY <1>6, <1>8
    <3> HIDE DEF e
    <3> QED BY <2>4, <3>1, <3>2, NextDifficultyIs
  <2> HIDE DEF e, x, y
  <2>9. t \in Nat /\ u \in Nat /\ t <= u
    BY <2>5, <2>6, ClampMonotone
  <2> HIDE DEF t, u
  <2>10. /\ Moved(base, e, u) <= Moved(base, e, t)
         /\ Moved(base, e, u) \in Nat /\ Moved(base, e, t) \in Nat
    BY <2>4, <2>5, <2>9, MovedIsAntitone, MovedIsNat
  <2>11. \A m, n \in Nat : m <= n => Bounded(m) <= Bounded(n)
    BY BoundedIs, Difficulties
  <2>12. Bounded(Moved(base, e, u)) <= Bounded(Moved(base, e, t))
    BY <2>10, <2>11
  <2> QED BY <1>4, <1>5, <2>7, <2>8, <2>12
<1> QED BY <1>7, <1>8

(* The same blocks, of which the last is d later, never require a higher   *)
(* difficulty of the next: the two loops of next_difficulty share their    *)
(* thresholds and do not cancel.                                           *)
THEOREM LaterIsNotHarder ==
    ASSUME OffersAreBlocks
    PROVE  LedgerSpec => []SlowerIsNeverHarder
<1>1. LedgerInit => ShapeInv
  BY ShapeInit
<1>2. ShapeInv /\ [LedgerNext]_ledger => ShapeInv'
  <2>1. CASE UNCHANGED ledger
    BY <2>1 DEF ShapeInv, IsBlock, IsSequence
  <2>2. ASSUME ShapeInv, NEW b \in Offers(ledger), AppendBlock(b) PROVE ShapeInv'
    BY <2>2, ShapeStep
  <2> QED BY <2>1, <2>2 DEF LedgerNext
<1>3. ShapeInv => SlowerIsNeverHarder
  <2> SUFFICES ASSUME ShapeInv,
                      NEW d \in 0..(max_adjustment_factor * difficulty_adjustment_interval * target_block_time),
                      NEW later, later = [ledger EXCEPT ![Len(ledger)].timestamp = @ + d]
               PROVE  expected_difficulty(later) <= expected_difficulty(ledger)
    BY DEF SlowerIsNeverHarder
  <2> DEFINE N == Len(ledger)
             V == Range(ledger)
             b == ledger[N]
             c == [b EXCEPT !.timestamp = @ + d]
  <2>0. N \in Nat /\ N > 0 /\ ledger \in Seq(V) /\ DOMAIN ledger = 1..N /\ d \in Nat
    <3>1. max_adjustment_factor * difficulty_adjustment_interval * target_block_time \in Nat
      BY Difficulties
    <3>2. d \in Nat
      BY <3>1
    <3> QED BY <3>2, SequenceFacts DEF ShapeInv
  <2>1. c.timestamp = b.timestamp + d /\ c.difficulty = b.difficulty /\ b.timestamp \in Int
    <3>1. N \in 1..N
      BY <2>0
    <3>2. IsBlock(b)
      BY <3>1 DEF ShapeInv
    <3> HIDE DEF b
    <3> QED BY <3>2 DEF IsBlock
  <2>2. /\ IsSequence(later) /\ Len(later) = N
        /\ later[N] = c /\ \A i \in 1..N : i # N => later[i] = ledger[i]
    <3>1. later = [i \in 1..N |-> IF i = N THEN c ELSE ledger[i]]
      BY <2>0
    <3> HIDE DEF c, V
    <3>2. later \in [1..N -> V \cup {c}]
      BY <2>0, <3>1
    <3> HIDE DEF N
    <3>3. later \in Seq(V \cup {c}) /\ Len(later) = N
      BY <2>0, <3>2
    <3>4. N \in 1..N
      BY <2>0
    <3> QED BY <3>1, <3>3, <3>4 DEF IsSequence
  <2> HIDE DEF c
  <2>3. later[N].difficulty = b.difficulty /\ later[N].timestamp \in Int /\ b.timestamp <= later[N].timestamp
    BY <2>0, <2>1, <2>2
  <2> QED BY <2>2, <2>3, LaterLast
<1> QED BY <1>1, <1>2, <1>3, PTL DEF LedgerSpec

-----------------------------------------------------------------------------
(* Money.  replay_transactions and _state_from_chain are runs of one step  *)
(* over a list; the lemmas unfold them from the front and at the back.     *)

IsTransfers(f, n, s, txs) ==
    f = [i \in 0..n |-> IF i = 0 THEN s ELSE replay_transaction(f[i - 1], txs[i])]

LEMMA TransfersExist ==
    ASSUME NEW s, NEW txs, NEW N \in Nat
    PROVE  \E f : IsTransfers(f, N, s, txs)
<1> DEFINE S == {n \in Nat : \E f : IsTransfers(f, n, s, txs)}
<1>1. 0 \in S
  <2>1. IsTransfers([i \in 0..0 |-> s], 0, s, txs)
    BY DEF IsTransfers
  <2> QED BY <2>1
<1>2. ASSUME NEW n \in S PROVE n + 1 \in S
  <2>1. PICK f : IsTransfers(f, n, s, txs)
    OBVIOUS
  <2> DEFINE g == [i \in 0..(n + 1) |-> IF i <= n THEN f[i] ELSE replay_transaction(f[n], txs[n + 1])]
  <2>2. n \in Nat
    OBVIOUS
  <2>3. ASSUME NEW i \in 0..(n + 1) PROVE g[i] = IF i = 0 THEN s ELSE replay_transaction(g[i - 1], txs[i])
    <3>1. CASE i <= n
      <4>1. i \in 0..n /\ g[i] = f[i]
        BY <2>2, <3>1
      <4>2. f[i] = IF i = 0 THEN s ELSE replay_transaction(f[i - 1], txs[i])
        BY <2>1, <4>1 DEF IsTransfers
      <4>3. i # 0 => g[i - 1] = f[i - 1]
        BY <2>2, <3>1
      <4> HIDE DEF g
      <4> QED BY <4>1, <4>2, <4>3
    <3>2. CASE i = n + 1
      <4>1. i # 0 /\ i - 1 = n /\ n \in 0..(n + 1) /\ ~(i <= n)
        BY <2>2, <3>2
      <4>2. g[n] = f[n] /\ g[i] = replay_transaction(f[n], txs[n + 1])
        BY <2>2, <4>1
      <4> HIDE DEF g
      <4> QED BY <3>2, <4>1, <4>2
    <3> QED BY <2>2, <3>1, <3>2
  <2>4. g = [i \in 0..(n + 1) |-> g[i]]
    OBVIOUS
  <2> HIDE DEF g
  <2>5. [i \in 0..(n + 1) |-> g[i]] = [i \in 0..(n + 1) |-> IF i = 0 THEN s ELSE replay_transaction(g[i - 1], txs[i])]
    BY <2>3
  <2>6. IsTransfers(g, n + 1, s, txs)
    BY <2>4, <2>5 DEF IsTransfers
  <2> QED BY <2>2, <2>6
<1>3. S = Nat
  <2>1. S \in SUBSET Nat
    OBVIOUS
  <2> HIDE DEF S
  <2> QED BY <1>1, <1>2, <2>1, NatSetInduction
<1>4. N \in S
  BY <1>3
<1> QED BY <1>4

LEMMA TransfersAre ==
    ASSUME NEW s, NEW txs, Len(txs) \in Nat
    PROVE  \E f : /\ replay_transactions(s, txs) = f[Len(txs)]
                  /\ f[0] = s
                  /\ \A i \in 1..Len(txs) : f[i] = replay_transaction(f[i - 1], txs[i])
<1> DEFINE N == Len(txs)
           after == CHOOSE f : IsTransfers(f, N, s, txs)
<1>1. replay_transactions(s, txs) = after[N]
  BY DEF replay_transactions, IsTransfers
<1>2. IsTransfers(after, N, s, txs)
  BY TransfersExist
<1> HIDE DEF after
<1>3. ASSUME NEW i \in 0..N PROVE after[i] = IF i = 0 THEN s ELSE replay_transaction(after[i - 1], txs[i])
  BY <1>2 DEF IsTransfers
<1>4. after[0] = s
  BY <1>3
<1>5. ASSUME NEW i \in 1..N PROVE after[i] = replay_transaction(after[i - 1], txs[i])
  <2>1. i \in 0..N /\ i # 0
    OBVIOUS
  <2> QED BY <1>3, <2>1
<1> QED BY <1>1, <1>4, <1>5

IsReplay(f, n, c) == f = [i \in 0..n |-> IF i = 0 THEN EmptyState ELSE replay_block(f[i - 1], c[i])]

LEMMA ReplayExists ==
    ASSUME NEW c, NEW N \in Nat
    PROVE  \E f : IsReplay(f, N, c)
<1> DEFINE S == {n \in Nat : \E f : IsReplay(f, n, c)}
<1>1. 0 \in S
  <2>1. IsReplay([i \in 0..0 |-> EmptyState], 0, c)
    BY DEF IsReplay
  <2> QED BY <2>1
<1>2. ASSUME NEW n \in S PROVE n + 1 \in S
  <2>1. PICK f : IsReplay(f, n, c)
    OBVIOUS
  <2> DEFINE g == [i \in 0..(n + 1) |-> IF i <= n THEN f[i] ELSE replay_block(f[n], c[n + 1])]
  <2>2. n \in Nat
    OBVIOUS
  <2>3. ASSUME NEW i \in 0..(n + 1) PROVE g[i] = IF i = 0 THEN EmptyState ELSE replay_block(g[i - 1], c[i])
    <3>1. CASE i <= n
      <4>1. i \in 0..n /\ g[i] = f[i]
        BY <2>2, <3>1
      <4>2. f[i] = IF i = 0 THEN EmptyState ELSE replay_block(f[i - 1], c[i])
        BY <2>1, <4>1 DEF IsReplay
      <4>3. i # 0 => g[i - 1] = f[i - 1]
        BY <2>2, <3>1
      <4> HIDE DEF g
      <4> QED BY <4>1, <4>2, <4>3
    <3>2. CASE i = n + 1
      <4>1. i # 0 /\ i - 1 = n /\ n \in 0..(n + 1) /\ ~(i <= n)
        BY <2>2, <3>2
      <4>2. g[n] = f[n] /\ g[i] = replay_block(f[n], c[n + 1])
        BY <2>2, <4>1
      <4> HIDE DEF g
      <4> QED BY <3>2, <4>1, <4>2
    <3> QED BY <2>2, <3>1, <3>2
  <2>4. g = [i \in 0..(n + 1) |-> g[i]]
    OBVIOUS
  <2> HIDE DEF g
  <2>5. [i \in 0..(n + 1) |-> g[i]] = [i \in 0..(n + 1) |-> IF i = 0 THEN EmptyState ELSE replay_block(g[i - 1], c[i])]
    BY <2>3
  <2>6. IsReplay(g, n + 1, c)
    BY <2>4, <2>5 DEF IsReplay
  <2> QED BY <2>2, <2>6
<1>3. S = Nat
  <2>1. S \in SUBSET Nat
    OBVIOUS
  <2> HIDE DEF S
  <2> QED BY <1>1, <1>2, <2>1, NatSetInduction
<1>4. N \in S
  BY <1>3
<1> QED BY <1>4

LEMMA ReplayIs ==
    ASSUME NEW c, Len(c) \in Nat
    PROVE  \E f : /\ _state_from_chain(c) = f[Len(c)]
                  /\ f[0] = EmptyState
                  /\ \A i \in 1..Len(c) : f[i] = replay_block(f[i - 1], c[i])
<1> DEFINE N == Len(c)
           after == CHOOSE f : IsReplay(f, N, c)
<1>1. _state_from_chain(c) = after[N]
  BY DEF _state_from_chain, IsReplay
<1>2. IsReplay(after, N, c)
  BY ReplayExists
<1> HIDE DEF after
<1>3. ASSUME NEW i \in 0..N PROVE after[i] = IF i = 0 THEN EmptyState ELSE replay_block(after[i - 1], c[i])
  BY <1>2 DEF IsReplay
<1>4. after[0] = EmptyState
  BY <1>3
<1>5. ASSUME NEW i \in 1..N PROVE after[i] = replay_block(after[i - 1], c[i])
  <2>1. i \in 0..N /\ i # 0
    OBVIOUS
  <2> QED BY <1>3, <2>1
<1> QED BY <1>1, <1>4, <1>5

(* Replaying one more block goes on from the state of the chain. *)
LEMMA ReplayOfAppend ==
    ASSUME NEW c, IsSequence(c), NEW b
    PROVE  _state_from_chain(Append(c, b)) = replay_block(_state_from_chain(c), b)
<1> DEFINE q == Append(c, b)
           N == Len(c)
<1>0. N \in Nat
  BY SequenceFacts
<1>1. Len(q) = N + 1 /\ q[N + 1] = b /\ \A i \in 1..N : q[i] = c[i]
  BY PrefixOfAppend
<1>2. PICK f : _state_from_chain(c) = f[N] /\ f[0] = EmptyState /\ \A i \in 1..N : f[i] = replay_block(f[i - 1], c[i])
  BY <1>0, ReplayIs
<1> HIDE DEF q
<1>3. PICK g : /\ _state_from_chain(q) = g[N + 1] /\ g[0] = EmptyState
               /\ \A i \in 1..(N + 1) : g[i] = replay_block(g[i - 1], q[i])
  <2>1. Len(q) \in Nat
    BY <1>0, <1>1
  <2> HIDE DEF N
  <2> QED BY <1>1, <2>1, ReplayIs
<1> HIDE DEF N
<1> DEFINE S == {i \in Nat : i <= N => f[i] = g[i]}
<1>4. 0 \in S
  BY <1>2, <1>3
<1>5. ASSUME NEW i \in S PROVE i + 1 \in S
  <2>0. i \in Nat /\ (i <= N => f[i] = g[i])
    OBVIOUS
  <2> HIDE DEF S
  <2> SUFFICES ASSUME i + 1 <= N PROVE f[i + 1] = g[i + 1]
    BY <2>0 DEF S
  <2>1. i + 1 \in 1..N /\ i + 1 \in 1..(N + 1) /\ i + 1 - 1 = i /\ i <= N
    BY <1>0, <2>0
  <2> DEFINE k == i + 1
  <2>2. k \in 1..N /\ k \in 1..(N + 1) /\ k - 1 = i
    BY <1>0, <2>0, <2>1
  <2> HIDE DEF k
  <2>3. f[k] = replay_block(f[k - 1], c[k])
    BY <1>2, <2>2
  <2>4. g[k] = replay_block(g[k - 1], q[k])
    BY <1>3, <2>2
  <2>5. q[k] = c[k] /\ f[k - 1] = g[k - 1]
    BY <1>1, <2>0, <2>1, <2>2
  <2>6. f[k] = g[k]
    BY <2>3, <2>4, <2>5
  <2> QED BY <2>6 DEF k
<1>6. S = Nat
  <2>1. S \in SUBSET Nat
    OBVIOUS
  <2> HIDE DEF S
  <2> QED BY <1>4, <1>5, <2>1, NatSetInduction
<1>7. N \in S
  BY <1>0, <1>6
<1>8. f[N] = g[N]
  BY <1>0, <1>7
<1>9. g[N + 1] = replay_block(g[N], b)
  <2> DEFINE k == N + 1
  <2>1. k \in 1..(N + 1) /\ k - 1 = N /\ q[k] = b
    BY <1>0, <1>1
  <2> HIDE DEF k
  <2>2. g[k] = replay_block(g[k - 1], q[k])
    BY <1>3, <2>1
  <2>3. g[k] = replay_block(g[N], b)
    BY <2>1, <2>2
  <2> QED BY <2>3 DEF k
<1> QED BY <1>2, <1>3, <1>8, <1>9 DEF q

(* A state of the replay that has issued n: unless it has failed, its      *)
(* accounts hold n between them and none is overdrawn.                     *)
Settled(s, n) ==
    /\ s = [balances |-> s.balances, supply |-> s.supply, ok |-> s.ok]
    /\ s.ok \in BOOLEAN
    /\ s.ok => /\ s.balances \in [Accounts -> Nat]
               /\ s.supply = n
               /\ TotalOf(s.balances, Accounts)[Accounts] = n

LEMMA AccountsFinite == ASSUME IsFiniteSet(Addr) PROVE IsFiniteSet(Accounts)
<1>1. IsFiniteSet(Addr \cup {COINBASE_SENDER})
  BY FS_AddElement
<1>2. IsFiniteSet((Addr \cup {COINBASE_SENDER}) \cup {GENESIS_ADDRESS})
  BY <1>1, FS_AddElement
<1>3. Accounts = (Addr \cup {COINBASE_SENDER}) \cup {GENESIS_ADDRESS}
  BY DEF Accounts
<1> QED BY <1>2, <1>3

(* A credit or a debit of one account. *)
LEMMA BalanceChange ==
    ASSUME IsFiniteSet(Addr), NEW f \in [Accounts -> Int], NEW g \in [Accounts -> Int],
           NEW a \in Accounts, NEW d \in Int, g[a] = f[a] + d, \A x \in Accounts : x # a => g[x] = f[x]
    PROVE  /\ TotalOf(f, Accounts)[Accounts] \in Int
           /\ TotalOf(g, Accounts)[Accounts] = TotalOf(f, Accounts)[Accounts] + d
<1> DEFINE A == Accounts
<1>0. IsFiniteSet(A)
  BY AccountsFinite
<1>1. f \in [A -> Int] /\ g \in [A -> Int] /\ a \in A /\ \A x \in A : x # a => g[x] = f[x]
  OBVIOUS
<1> HIDE DEF A
<1>3. \A x \in A : f[x] \in Int /\ g[x] \in Int
  BY <1>1
<1>5. TotalOf(f, A)[A] \in Int /\ TotalOf(g, A)[A] = TotalOf(f, A)[A] + (g[a] - f[a])
  BY <1>0, <1>1, <1>3, TotalUpdate
<1>6. f[a] \in Int /\ g[a] - f[a] = d
  BY <1>1
<1>7. TotalOf(g, A)[A] = TotalOf(f, A)[A] + d
  BY <1>5, <1>6
<1> QED BY <1>5, <1>7 DEF A

LEMMA MoveKeepsTotal ==
    ASSUME IsFiniteSet(Addr), NEW f \in [Accounts -> Nat], NEW tx, tx.amount \in Nat,
           tx.sender \in Accounts, tx.receiver \in Accounts, tx.amount <= f[tx.sender]
    PROVE  /\ move(f, tx) \in [Accounts -> Nat]
           /\ TotalOf(move(f, tx), Accounts)[Accounts] = TotalOf(f, Accounts)[Accounts]
<1> DEFINE n == tx.amount
           a == tx.sender
           b == tx.receiver
           g == [f EXCEPT ![a] = f[a] + (0 - n)]
           h == [g EXCEPT ![b] = g[b] + n]
<1>1. n \in Nat /\ 0 - n \in Int /\ a \in Accounts /\ b \in Accounts /\ n <= f[a] /\ f \in [Accounts -> Int]
  OBVIOUS
<1>2. move(f, tx) = h
  <2>1. f[a] \in Int /\ f[a] - n = f[a] + (0 - n)
    BY <1>1
  <2> QED BY <2>1 DEF move
<1> HIDE DEF n, a, b
<1>3. /\ g \in [Accounts -> Nat] /\ g \in [Accounts -> Int] /\ g[a] = f[a] + (0 - n)
      /\ \A x \in Accounts : x # a => g[x] = f[x]
  BY <1>1
<1> HIDE DEF g
<1>4. /\ h \in [Accounts -> Nat] /\ h \in [Accounts -> Int] /\ h[b] = g[b] + n
      /\ \A x \in Accounts : x # b => h[x] = g[x]
  BY <1>1, <1>3
<1> HIDE DEF h
<1>5. /\ TotalOf(f, Accounts)[Accounts] \in Int
      /\ TotalOf(g, Accounts)[Accounts] = TotalOf(f, Accounts)[Accounts] + (0 - n)
  BY <1>1, <1>3, BalanceChange
<1>6. /\ TotalOf(h, Accounts)[Accounts] = TotalOf(g, Accounts)[Accounts] + n
  BY <1>1, <1>3, <1>4, BalanceChange
<1>7. TotalOf(h, Accounts)[Accounts] = TotalOf(f, Accounts)[Accounts]
  BY <1>1, <1>5, <1>6
<1> QED BY <1>2, <1>4, <1>7

LEMMA NoStateSettled == \A n : Settled(NoState, n)
  BY DEF Settled, NoState

LEMMA TransactionSettles ==
    ASSUME IsFiniteSet(Addr), NEW n, NEW s, Settled(s, n), NEW tx, tx.amount \in Int
    PROVE  Settled(replay_transaction(s, tx), n)
<1>0. /\ s = [balances |-> s.balances, supply |-> s.supply, ok |-> s.ok] /\ s.ok \in BOOLEAN
  BY DEF Settled
<1>1. CASE ~s.ok \/ is_coinbase(tx)
  BY <1>1 DEF replay_transaction
<1>2. CASE s.ok /\ ~is_coinbase(tx) /\ validate_transaction(tx) /\ tx.amount <= s.balances[tx.sender]
  <2> DEFINE r == [s EXCEPT !.balances = move(s.balances, tx)]
  <2>1. replay_transaction(s, tx) = r
    BY <1>2 DEF replay_transaction
  <2>2. /\ s.balances \in [Accounts -> Nat] /\ s.supply = n
        /\ TotalOf(s.balances, Accounts)[Accounts] = n
    BY <1>2 DEF Settled
  <2>3. tx.amount \in Nat /\ tx.sender \in Accounts /\ tx.receiver \in Accounts
    BY <1>2 DEF validate_transaction, verify, validate_base_units, is_valid_address, Accounts
  <2>4. /\ move(s.balances, tx) \in [Accounts -> Nat]
        /\ TotalOf(move(s.balances, tx), Accounts)[Accounts] = n
    BY <1>2, <2>2, <2>3, MoveKeepsTotal
  <2>5. /\ r = [balances |-> r.balances, supply |-> r.supply, ok |-> r.ok]
        /\ r.balances = move(s.balances, tx) /\ r.supply = s.supply /\ r.ok = s.ok
    BY <1>0
  <2> HIDE DEF r
  <2>6. Settled(r, n)
    BY <1>0, <2>2, <2>4, <2>5 DEF Settled
  <2> QED BY <2>1, <2>6
<1>3. CASE s.ok /\ ~is_coinbase(tx) /\ ~(validate_transaction(tx) /\ tx.amount <= s.balances[tx.sender])
  <2>1. replay_transaction(s, tx) = NoState
    BY <1>3 DEF replay_transaction
  <2> QED BY <2>1, NoStateSettled
<1> QED BY <1>1, <1>2, <1>3

(* What Transaction.from_dict gives: amounts are integers. *)
HasPayments(b) ==
    /\ IsSequence(b.transactions)
    /\ \A i \in 1..Len(b.transactions) : b.transactions[i].amount \in Int

OffersHavePayments == \A c : IsChain(c) => \A b \in Offers(c) : HasPayments(b)

LEMMA TransfersSettle ==
    ASSUME IsFiniteSet(Addr), NEW n, NEW s, Settled(s, n), NEW b, HasPayments(b)
    PROVE  Settled(replay_transactions(s, b.transactions), n)
<1> DEFINE txs == b.transactions
           N == Len(txs)
<1>0. N \in Nat /\ \A i \in 1..N : txs[i].amount \in Int
  BY SequenceFacts DEF HasPayments
<1>1. PICK f : /\ replay_transactions(s, txs) = f[N] /\ f[0] = s
               /\ \A i \in 1..N : f[i] = replay_transaction(f[i - 1], txs[i])
  BY <1>0, TransfersAre
<1> HIDE DEF N, txs
<1> DEFINE S == {i \in Nat : i <= N => Settled(f[i], n)}
<1>2. 0 \in S
  BY <1>1
<1>3. ASSUME NEW i \in S PROVE i + 1 \in S
  <2>0. i \in Nat /\ (i <= N => Settled(f[i], n))
    OBVIOUS
  <2> HIDE DEF S
  <2> SUFFICES ASSUME i + 1 <= N PROVE Settled(f[i + 1], n)
    BY <2>0 DEF S
  <2> DEFINE k == i + 1
  <2>1. k \in 1..N /\ k - 1 = i /\ i <= N
    BY <1>0, <2>0
  <2> HIDE DEF k
  <2>2. f[k] = replay_transaction(f[k - 1], txs[k])
    BY <1>1, <2>1
  <2>3. Settled(f[k - 1], n) /\ txs[k].amount \in Int
    BY <1>0, <2>0, <2>1
  <2>4. Settled(f[k], n)
    BY <2>2, <2>3, TransactionSettles
  <2> QED BY <2>4 DEF k
<1>4. S = Nat
  <2>1. S \in SUBSET Nat
    OBVIOUS
  <2> HIDE DEF S
  <2> QED BY <1>2, <1>3, <2>1, NatSetInduction
<1>5. N \in S
  BY <1>0, <1>4
<1>6. Settled(f[N], n)
  BY <1>0, <1>5
<1> QED BY <1>1, <1>6 DEF txs, N

(* The money issued by n blocks. *)
Issued(n) == Min({n * block_reward, MAX_SUPPLY_BASE_UNITS})

LEMMA IssuedNext ==
    ASSUME NEW n \in Nat
    PROVE  /\ Issued(n) \in Nat /\ due_reward(Issued(n)) \in Nat
           /\ Issued(n + 1) = Issued(n) + due_reward(Issued(n))
<1> DEFINE r == block_reward
           m == MAX_SUPPLY_BASE_UNITS
           x == n * r
<1>0. r \in Nat /\ m \in Nat
  BY PyRulesAssumption
<1>1. x \in Nat /\ (n + 1) * r = x + r /\ (n + 1) * r \in Nat
  BY <1>0
<1>2. Issued(n) = IF x <= m THEN x ELSE m
  BY <1>0, <1>1, MinOfTwo DEF Issued
<1>3. Issued(n + 1) = IF x + r <= m THEN x + r ELSE m
  BY <1>0, <1>1, MinOfTwo DEF Issued
<1> HIDE DEF x, r, m
<1>4. Issued(n) \in Nat /\ m - Issued(n) \in Int
  BY <1>0, <1>1, <1>2
<1>5. due_reward(Issued(n)) = IF r <= m - Issued(n) THEN r ELSE m - Issued(n)
  BY <1>0, <1>4, MinOfTwo DEF due_reward, r, m
<1> QED BY <1>0, <1>1, <1>2, <1>3, <1>4, <1>5

LEMMA BlockSettles ==
    ASSUME IsFiniteSet(Addr), NEW n \in Nat, NEW s, Settled(s, n), s.ok, NEW b, HasPayments(b), b.index # 0,
           due_reward(n) \in Nat,
           \A i \in DOMAIN b.transactions : validate_transaction(b.transactions[i]),
           replay_block(s, b).ok
    PROVE  Settled(replay_block(s, b), n + due_reward(n))
<1> DEFINE to == the_coinbase(b).receiver
           due == due_reward(s.supply)
           bal == [s.balances EXCEPT ![to] = @ + due]
           p == pay_reward(s, to)
<1>0. s.balances \in [Accounts -> Nat] /\ s.supply = n /\ TotalOf(s.balances, Accounts)[Accounts] = n
  BY DEF Settled
<1>1. ~NoState.ok
  BY DEF NoState
<1>2. Cardinality(coinbases(b)) = 1 /\ replay_block(s, b) = replay_transactions(p, b.transactions)
  BY <1>1 DEF replay_block
<1>3. to \in Accounts
  <2>1. coinbases(b) # {}
    <3>1. Cardinality({}) = 0
      BY FS_EmptySet
    <3> QED BY <1>2, <3>1
  <2>2. (CHOOSE i \in coinbases(b) : TRUE) \in coinbases(b)
    BY <2>1
  <2>3. PICK i \in DOMAIN b.transactions : the_coinbase(b) = b.transactions[i]
    BY <2>2 DEF the_coinbase, coinbases
  <2>4. validate_transaction(the_coinbase(b))
    BY <2>3
  <2> QED BY <2>4 DEF validate_transaction, verify, is_valid_address, Accounts
<1>4. due \in Nat /\ due = due_reward(n)
  BY <1>0
<1>5. p = [balances |-> bal, supply |-> s.supply + due, ok |-> s.ok]
  BY DEF pay_reward
<1> HIDE DEF due, to
<1>6. /\ bal \in [Accounts -> Nat] /\ bal \in [Accounts -> Int] /\ s.balances \in [Accounts -> Int]
      /\ bal[to] = s.balances[to] + due
      /\ \A x \in Accounts : x # to => bal[x] = s.balances[x]
  BY <1>0, <1>3, <1>4
<1> HIDE DEF bal
<1>7. TotalOf(bal, Accounts)[Accounts] = n + due
  <2> DEFINE f == s.balances
  <2>1. /\ f \in [Accounts -> Int] /\ bal[to] = f[to] + due /\ TotalOf(f, Accounts)[Accounts] = n
        /\ \A x \in Accounts : x # to => bal[x] = f[x]
    BY <1>0, <1>6
  <2>2. bal \in [Accounts -> Int] /\ due \in Int
    BY <1>4, <1>6
  <2> HIDE DEF f
  <2>3. TotalOf(bal, Accounts)[Accounts] = TotalOf(f, Accounts)[Accounts] + due
    BY <1>3, <2>1, <2>2, BalanceChange
  <2> QED BY <2>1, <2>3
<1> HIDE DEF p
<1>8. Settled(p, n + due)
  <2>1. p = [balances |-> p.balances, supply |-> p.supply, ok |-> p.ok]
    BY <1>5
  <2>2. p.balances = bal /\ p.supply = s.supply + due /\ p.ok = s.ok
    BY <1>5
  <2>3. s.ok \in BOOLEAN
    BY DEF Settled
  <2> QED BY <1>0, <1>6, <1>7, <2>1, <2>2, <2>3 DEF Settled
<1>9. Settled(replay_transactions(p, b.transactions), n + due)
  BY <1>8, TransfersSettle
<1> QED BY <1>2, <1>4, <1>9

LEMMA EmptySettled ==
    ASSUME IsFiniteSet(Addr)
    PROVE  Settled(EmptyState, 0) /\ EmptyState.ok /\ Issued(0) = 0 /\ \A a \in Accounts : EmptyState.balances[a] = 0
<1> DEFINE z == [a \in Accounts |-> 0]
<1>1. IsFiniteSet(Accounts)
  BY AccountsFinite
<1>2. z \in [Accounts -> Nat] /\ \A a \in Accounts : z[a] = 0
  OBVIOUS
<1> HIDE DEF z
<1>3. TotalOf(z, Accounts)[Accounts] = 0
  BY <1>1, <1>2, TotalOfZeros
<1>4. EmptyState = [balances |-> z, supply |-> 0, ok |-> TRUE]
  BY DEF EmptyState, z
<1>5. Settled(EmptyState, 0) /\ EmptyState.ok /\ EmptyState.balances = z
  BY <1>2, <1>3, <1>4 DEF Settled
<1>6. block_reward \in Nat /\ MAX_SUPPLY_BASE_UNITS \in Nat
  BY PyRulesAssumption
<1>7. 0 * block_reward = 0 /\ Min({0, MAX_SUPPLY_BASE_UNITS}) = 0
  BY <1>6, MinOfTwo
<1> QED BY <1>2, <1>5, <1>7 DEF Issued

(* The shape of the chain, and the state its replay ends in. *)
MoneyInv ==
    /\ ShapeInv
    /\ Last(ledger).index \in Nat
    /\ _state_from_chain(ledger).ok
    /\ Settled(_state_from_chain(ledger), Issued(Len(ledger) - 1))

LEMMA MoneyInit == ASSUME IsFiniteSet(Addr) PROVE LedgerInit => MoneyInv
<1> SUFFICES ASSUME LedgerInit PROVE MoneyInv
  OBVIOUS
<1>0. ShapeInv
  BY ShapeInit
<1>1. ledger = <<genesis>> /\ Len(ledger) = 1 /\ ledger[1] = genesis /\ Last(ledger) = genesis
  BY DEF LedgerInit, Last
<1>2. genesis.index = 0
  BY DEF genesis
<1>3. _state_from_chain(ledger) = EmptyState
  <2>1. PICK f : /\ _state_from_chain(ledger) = f[Len(ledger)] /\ f[0] = EmptyState
                 /\ \A i \in 1..Len(ledger) : f[i] = replay_block(f[i - 1], ledger[i])
    <3>1. Len(ledger) \in Nat
      BY <1>1
    <3> QED BY <3>1, ReplayIs
  <2>2. 1 \in 1..Len(ledger) /\ 1 - 1 = 0
    BY <1>1
  <2>3. f[1] = replay_block(f[0], genesis)
    <3>1. f[1] = replay_block(f[1 - 1], ledger[1])
      BY <2>1, <2>2
    <3> QED BY <1>1, <2>2, <3>1
  <2>4. replay_block(EmptyState, genesis) = EmptyState
    BY <1>2 DEF replay_block
  <2> QED BY <1>1, <2>1, <2>3, <2>4
<1>4. Issued(Len(ledger) - 1) = 0
  <2>1. Len(ledger) - 1 = 0
    BY <1>1
  <2> QED BY <2>1, EmptySettled
<1>5. Settled(EmptyState, 0) /\ EmptyState.ok
  BY EmptySettled
<1> QED BY <1>0, <1>1, <1>2, <1>3, <1>4, <1>5 DEF MoneyInv

LEMMA MoneyStep ==
    ASSUME IsFiniteSet(Addr), OffersAreBlocks, OffersHavePayments,
           MoneyInv, NEW b \in Offers(ledger), AppendBlock(b)
    PROVE  MoneyInv'
<1> DEFINE N == Len(ledger)
           s == _state_from_chain(ledger)
           t == _state_from_chain(Append(ledger, b))
           n == Issued(N - 1)
<1>0. ShapeInv
  BY DEF MoneyInv
<1>1. ShapeInv' /\ Len(ledger') = N + 1 /\ N \in Nat /\ ledger'[N + 1] = b
  BY <1>0, ShapeStep
<1>2. ledger' = Append(ledger, b) /\ IsSequence(ledger) /\ N > 0
  BY <1>0 DEF AppendBlock, ShapeInv
<1>3. Last(ledger') = b
  BY <1>1 DEF Last
<1>4. /\ b.index = Last(ledger).index + 1 /\ t.ok
      /\ validate_block_structure(b, {due_reward(s.supply)})
  BY DEF AppendBlock, validate_block_against_chain
<1>5. b.index \in Nat /\ b.index # 0
  BY <1>4 DEF MoneyInv
<1>6. \A i \in DOMAIN b.transactions : validate_transaction(b.transactions[i])
  BY <1>4, <1>5 DEF validate_block_structure
<1>7. HasPayments(b)
  BY <1>0 DEF OffersHavePayments, IsChain, ShapeInv
<1>8. t = replay_block(s, b)
  BY <1>2, ReplayOfAppend
<1>9. N - 1 \in Nat /\ N - 1 + 1 = N
  BY <1>1, <1>2
<1>10. n \in Nat /\ due_reward(n) \in Nat /\ Issued(N) = n + due_reward(n)
  <2> DEFINE k == N - 1
  <2>1. k \in Nat /\ k + 1 = N
    BY <1>9
  <2> HIDE DEF k
  <2>2. Issued(k) \in Nat /\ due_reward(Issued(k)) \in Nat /\ Issued(k + 1) = Issued(k) + due_reward(Issued(k))
    BY <2>1, IssuedNext
  <2> QED BY <2>1, <2>2 DEF k
<1>11. Settled(s, n) /\ s.ok
  BY DEF MoneyInv
<1> HIDE DEF s, t, n
<1>12. Settled(t, n + due_reward(n))
  BY <1>4, <1>5, <1>6, <1>7, <1>8, <1>10, <1>11, BlockSettles
<1>13. Settled(t, Issued(N))
  BY <1>10, <1>12
<1>14. _state_from_chain(ledger') = t /\ Len(ledger') - 1 = N
  BY <1>1, <1>2 DEF t
<1>15. Settled(_state_from_chain(ledger'), Issued(Len(ledger') - 1))
  BY <1>13, <1>14
<1>16. Last(ledger').index \in Nat /\ _state_from_chain(ledger').ok
  BY <1>3, <1>4, <1>5, <1>14
<1> QED BY <1>1, <1>15, <1>16 DEF MoneyInv, Settled

LEMMA MoneyInductive ==
    ASSUME IsFiniteSet(Addr), OffersAreBlocks, OffersHavePayments
    PROVE  MoneyInv /\ [LedgerNext]_ledger => MoneyInv'
<1> SUFFICES ASSUME MoneyInv, [LedgerNext]_ledger PROVE MoneyInv'
  OBVIOUS
<1>1. CASE UNCHANGED ledger
  BY <1>1 DEF MoneyInv, ShapeInv, IsBlock, IsSequence, Settled
<1>2. ASSUME NEW b \in Offers(ledger), AppendBlock(b) PROVE MoneyInv'
  BY <1>2, MoneyStep
<1> QED BY <1>1, <1>2 DEF LedgerNext

(* Every chain grown under validate_block_against_chain replays, its       *)
(* accounts hold between them exactly what its blocks have issued, none is *)
(* overdrawn, and issuance is the reward per block up to the cap: for      *)
(* every reward, cap, set of addresses and blocks offered.                 *)
THEOREM MoneyIsConserved ==
    ASSUME IsFiniteSet(Addr), OffersAreBlocks, OffersHavePayments
    PROVE  LedgerSpec => []Conservation
<1>1. LedgerInit => MoneyInv
  BY MoneyInit
<1>2. MoneyInv /\ [LedgerNext]_ledger => MoneyInv'
  BY MoneyInductive
<1>3. MoneyInv => Conservation
  <2> SUFFICES ASSUME MoneyInv PROVE Conservation
    OBVIOUS
  <2> DEFINE s == _state_from_chain(ledger)
             n == Issued(Len(ledger) - 1)
  <2>1. s.ok /\ s.balances \in [Accounts -> Nat] /\ s.supply = n /\ TotalOf(s.balances, Accounts)[Accounts] = n
    BY DEF MoneyInv, Settled
  <2>2. MapThenSumSet(LAMBDA a : s.balances[a], Accounts) = TotalOf(s.balances, Accounts)[Accounts]
    BY SumIsTotal
  <2> HIDE DEF s
  <2>3. \A a \in Accounts : s.balances[a] >= 0
    BY <2>1
  <2> QED BY <2>1, <2>2, <2>3 DEF Conservation, Issued, s
<1> QED BY <1>1, <1>2, <1>3, PTL DEF LedgerSpec

-----------------------------------------------------------------------------
(* The wallet cache.  A delta is an account and an integer. *)

Delta == Accounts \X Int

Terms(changes, a) == [i \in DOMAIN changes |-> IF changes[i][1] = a THEN changes[i][2] ELSE 0]

LEMMA TotalOfTerms ==
    ASSUME NEW ds \in Seq(Delta), NEW a
    PROVE  /\ delta_total(ds, a) = SumFunctionOnSet(Terms(ds, a), 1..Len(ds))
           /\ Len(ds) \in Nat /\ \A i \in 1..Len(ds) : Terms(ds, a)[i] \in Int
           /\ \A i \in 1..Len(ds) : Terms(ds, a)[i] = IF ds[i][1] = a THEN ds[i][2] ELSE 0
           /\ delta_total(ds, a) \in Int
<1>1. DOMAIN ds = 1..Len(ds) /\ Len(ds) \in Nat /\ \A i \in 1..Len(ds) : ds[i] \in Delta
  OBVIOUS
<1>2. DOMAIN Terms(ds, a) = 1..Len(ds)
  BY <1>1 DEF Terms
<1>3. delta_total(ds, a) = SumFunctionOnSet(Terms(ds, a), 1..Len(ds))
  BY <1>2 DEF delta_total, SumFunction, Terms
<1>4. ASSUME NEW i \in 1..Len(ds)
      PROVE  /\ Terms(ds, a)[i] = IF ds[i][1] = a THEN ds[i][2] ELSE 0
             /\ Terms(ds, a)[i] \in Int
  <2>1. ds[i][2] \in Int
    BY <1>1 DEF Delta
  <2> QED BY <1>1, <2>1 DEF Terms
<1>5. Len(ds) \in 0..Len(ds)
  BY <1>1
<1>6. SumFunctionOnSet(Terms(ds, a), 1..Len(ds)) \in Int
  BY <1>1, <1>4, <1>5, SumOfPlaces
<1> QED BY <1>1, <1>3, <1>4, <1>6

LEMMA TotalOfConcat ==
    ASSUME NEW x \in Seq(Delta), NEW y \in Seq(Delta), NEW a
    PROVE  delta_total(x \o y, a) = delta_total(x, a) + delta_total(y, a)
<1> DEFINE z == x \o y
           M == Len(x)
           N == Len(y)
           t == Terms(z, a)
           u == Terms(x, a)
           v == Terms(y, a)
<1>1. /\ z \in Seq(Delta) /\ Len(z) = M + N /\ M \in Nat /\ N \in Nat
      /\ (\A j \in 1..M : j \in 1..Len(z) /\ z[j] = x[j])
      /\ (\A k \in 1..N : M + k \in 1..Len(z) /\ z[M + k] = y[k])
  BY Concatenated
<1> HIDE DEF z
<1>2. /\ delta_total(x, a) = SumFunctionOnSet(u, 1..M) /\ (\A i \in 1..M : u[i] \in Int)
      /\ \A i \in 1..M : u[i] = IF x[i][1] = a THEN x[i][2] ELSE 0
  BY TotalOfTerms
<1>3. /\ delta_total(y, a) = SumFunctionOnSet(v, 1..N) /\ (\A i \in 1..N : v[i] \in Int)
      /\ \A i \in 1..N : v[i] = IF y[i][1] = a THEN y[i][2] ELSE 0
  BY TotalOfTerms
<1>4. /\ delta_total(z, a) = SumFunctionOnSet(t, 1..(M + N)) /\ (\A i \in 1..(M + N) : t[i] \in Int)
      /\ \A i \in 1..(M + N) : t[i] = IF z[i][1] = a THEN z[i][2] ELSE 0
  BY <1>1, TotalOfTerms
<1> HIDE DEF t, u, v, M, N
<1>5. (\A i \in 1..M : t[i] = u[i]) /\ (\A k \in 1..N : t[M + k] = v[k])
  <2>1. ASSUME NEW i \in 1..M PROVE t[i] = u[i]
    <3>1. i \in 1..(M + N) /\ z[i] = x[i]
      BY <1>1
    <3> QED BY <1>2, <1>4, <3>1
  <2>2. ASSUME NEW k \in 1..N PROVE t[M + k] = v[k]
    <3>1. M + k \in 1..(M + N) /\ z[M + k] = y[k]
      BY <1>1
    <3> QED BY <1>3, <1>4, <3>1
  <2> QED BY <2>1, <2>2
<1>6. SumFunctionOnSet(t, 1..M) = SumFunctionOnSet(u, 1..M)
  <2>1. IsFiniteSet(1..M)
    BY <1>1, FS_Interval
  <2> QED BY <1>5, <2>1, SumsEqual
<1>7. /\ SumFunctionOnSet(v, 1..0) = 0
      /\ \A n \in 0..N : SumFunctionOnSet(v, 1..n) \in Int
      /\ \A n \in 1..N : SumFunctionOnSet(v, 1..n) = SumFunctionOnSet(v, 1..(n - 1)) + v[n]
  BY <1>1, <1>3, SumOfPlaces
<1>8. /\ \A n \in 0..(M + N) : SumFunctionOnSet(t, 1..n) \in Int
      /\ \A n \in 1..(M + N) : SumFunctionOnSet(t, 1..n) = SumFunctionOnSet(t, 1..(n - 1)) + t[n]
  <2>1. M + N \in Nat
    BY <1>1
  <2> QED BY <1>4, <2>1, SumOfPlaces
<1> DEFINE A(n) == SumFunctionOnSet(t, 1..(M + n))
           B(n) == SumFunctionOnSet(v, 1..n)
           S == {n \in Nat : n <= N => A(n) = A(0) + B(n)}
<1>9. /\ B(0) = 0 /\ A(0) \in Int
      /\ \A n \in 1..N : B(n) = B(n - 1) + v[n] /\ A(n) = A(n - 1) + v[n] /\ B(n - 1) \in Int /\ v[n] \in Int
  <2>1. M + 0 \in 0..(M + N)
    BY <1>1
  <2>2. ASSUME NEW n \in 1..N
        PROVE  B(n) = B(n - 1) + v[n] /\ A(n) = A(n - 1) + v[n] /\ B(n - 1) \in Int /\ v[n] \in Int
    <3>1. n - 1 \in 0..N /\ M + n \in 1..(M + N) /\ (M + n) - 1 = M + (n - 1)
      BY <1>1
    <3> QED BY <1>3, <1>5, <1>7, <1>8, <3>1
  <2> QED BY <1>7, <1>8, <2>1, <2>2
<1> HIDE DEF A, B
<1>10. 0 \in S
  BY <1>9
<1>11. ASSUME NEW n \in S PROVE n + 1 \in S
  <2>1. n \in Nat /\ n + 1 - 1 = n
    OBVIOUS
  <2>2. ASSUME n + 1 <= N PROVE A(n + 1) = A(0) + B(n + 1)
    <3> DEFINE k == n + 1
    <3>1. k \in 1..N /\ k - 1 = n /\ A(n) = A(0) + B(n)
      BY <1>1, <2>1, <2>2
    <3> HIDE DEF k
    <3>2. B(k) = B(n) + v[k] /\ A(k) = A(n) + v[k] /\ B(n) \in Int /\ v[k] \in Int
      BY <1>9, <3>1
    <3>3. A(k) = A(0) + B(k)
      BY <1>9, <3>1, <3>2
    <3> QED BY <3>3 DEF k
  <2> QED BY <2>1, <2>2
<1>12. S = Nat
  <2>1. S \in SUBSET Nat
    OBVIOUS
  <2> HIDE DEF S
  <2> QED BY <1>10, <1>11, <2>1, NatSetInduction
<1>13. A(N) = A(0) + B(N)
  BY <1>1, <1>12
<1>14. A(0) = SumFunctionOnSet(u, 1..M)
  <2>1. M + 0 = M
    BY <1>1
  <2> QED BY <1>6, <2>1 DEF A
<1> QED BY <1>2, <1>3, <1>4, <1>13, <1>14 DEF A, B, z

LEMMA TotalOfFew ==
    ASSUME NEW a
    PROVE  /\ delta_total(<<>>, a) = 0
           /\ \A d \in Delta : delta_total(<<d>>, a) = IF d[1] = a THEN d[2] ELSE 0
<1>1. delta_total(<<>>, a) = 0
  <2>1. <<>> \in Seq(Delta) /\ Len(<<>>) = 0
    OBVIOUS
  <2>2. 1..0 = {}
    OBVIOUS
  <2>3. delta_total(<<>>, a) = SumFunctionOnSet(Terms(<<>>, a), 1..Len(<<>>))
    BY <2>1, TotalOfTerms
  <2> QED BY <2>1, <2>2, <2>3, SumOfNone
<1>2. ASSUME NEW d \in Delta PROVE delta_total(<<d>>, a) = IF d[1] = a THEN d[2] ELSE 0
  <2> DEFINE s == <<d>>
             f == Terms(s, a)
  <2>1. s \in Seq(Delta) /\ Len(s) = 1 /\ s[1] = d
    OBVIOUS
  <2> HIDE DEF s
  <2>2. delta_total(s, a) = SumFunctionOnSet(f, 1..1) /\ f[1] = (IF d[1] = a THEN d[2] ELSE 0) /\ f[1] \in Int
    <3>1. 1 \in 1..1
      OBVIOUS
    <3> QED BY <2>1, <3>1, TotalOfTerms
  <2> HIDE DEF f
  <2>3. SumFunctionOnSet(f, 1..1) = SumFunctionOnSet(f, 1..0) + f[1] /\ SumFunctionOnSet(f, 1..0) = 0
    <3>1. 1 \in Nat /\ 1 \in 1..1 /\ 1 - 1 = 0 /\ \A i \in 1..1 : f[i] \in Int
      BY <2>2
    <3>2. /\ SumFunctionOnSet(f, 1..0) = 0
          /\ \A n \in 1..1 : SumFunctionOnSet(f, 1..n) = SumFunctionOnSet(f, 1..(n - 1)) + f[n]
      BY <3>1, SumOfPlaces
    <3>3. SumFunctionOnSet(f, 1..1) = SumFunctionOnSet(f, 1..(1 - 1)) + f[1]
      BY <3>1, <3>2
    <3> QED BY <3>1, <3>2, <3>3
  <2> QED BY <2>2, <2>3 DEF s
<1> QED BY <1>1, <1>2

(* The deltas of a list of operations, where F says what a balance is      *)
(* after each of them.                                                     *)
LEMMA TotalOfFlat ==
    ASSUME NEW s \in Seq(Seq(Delta)), NEW a, NEW F, \A i \in 0..Len(s) : F[i] \in Int,
           \A i \in 1..Len(s) : delta_total(s[i], a) = F[i] - F[i - 1]
    PROVE  FlattenSeq(s) \in Seq(Delta) /\ delta_total(FlattenSeq(s), a) = F[Len(s)] - F[0]
<1> DEFINE N == Len(s)
<1>0. N \in Nat /\ \A i \in 1..N : s[i] \in Seq(Delta)
  OBVIOUS
<1>1. PICK h : h[0] = <<>> /\ FlattenSeq(s) = h[N] /\ \A i \in 1..N : h[i] = h[i - 1] \o s[i]
  BY FlattenIs
<1> HIDE DEF N
<1> DEFINE Holds(n) == h[n] \in Seq(Delta) /\ delta_total(h[n], a) = F[n] - F[0]
           S == {n \in Nat : n <= N => Holds(n)}
<1>2. 0 \in S
  <2>1. <<>> \in Seq(Delta) /\ 0 \in 0..N
    BY <1>0
  <2>2. F[0] \in Int
    BY <2>1 DEF N
  <2>3. delta_total(<<>>, a) = F[0] - F[0]
    BY <2>2, TotalOfFew
  <2> QED BY <1>1, <2>1, <2>3
<1>3. ASSUME NEW n \in S PROVE n + 1 \in S
  <2>0. n \in Nat /\ (n <= N => Holds(n))
    OBVIOUS
  <2> DEFINE q == n + 1
  <2> SUFFICES ASSUME q <= N PROVE Holds(q)
    BY <2>0
  <2>1. q \in 1..N /\ q - 1 = n /\ n \in 0..N /\ q \in 0..N /\ 0 \in 0..N
    BY <1>0, <2>0
  <2>2. Holds(n)
    BY <1>0, <2>0, <2>1
  <2> HIDE DEF q, S
  <2>3. h[q] = h[n] \o s[q] /\ s[q] \in Seq(Delta)
    BY <1>0, <1>1, <2>1
  <2>4. delta_total(s[q], a) = F[q] - F[n]
    BY <2>1 DEF N
  <2>5. F[q] \in Int /\ F[n] \in Int /\ F[0] \in Int
    BY <2>1 DEF N
  <2>6. h[q] \in Seq(Delta)
    BY <2>2, <2>3
  <2>7. delta_total(h[n] \o s[q], a) = delta_total(h[n], a) + delta_total(s[q], a)
    BY <2>2, <2>3, TotalOfConcat
  <2> QED BY <2>2, <2>3, <2>4, <2>5, <2>6, <2>7
<1>4. S = Nat
  <2>1. S \in SUBSET Nat
    OBVIOUS
  <2> HIDE DEF S
  <2> QED BY <1>2, <1>3, <2>1, NatSetInduction
<1>5. Holds(N)
  <2>1. N \in S
    BY <1>0, <1>4
  <2> QED BY <1>0, <2>1
<1> QED BY <1>1, <1>5 DEF N

(* Applying deltas adds their total to each balance. *)
LEMMA CachedAfter ==
    ASSUME NEW w, NEW ds \in Seq(Delta), NEW a, cached(w, a) \in Int
    PROVE  cached(apply_deltas(w, ds), a) = cached(w, a) + delta_total(ds, a)
<1> DEFINE D == DOMAIN w \cup {ds[i][1] : i \in DOMAIN ds}
           e == [x \in D |-> cached(w, x) + delta_total(ds, x)]
<1>1. apply_deltas(w, ds) = e
  BY DEF apply_deltas
<1>2. CASE a \in D
  <2>1. a \in DOMAIN e /\ e[a] = cached(w, a) + delta_total(ds, a)
    BY <1>2
  <2> HIDE DEF e
  <2> QED BY <1>1, <2>1 DEF cached
<1>3. CASE a \notin D
  <2>1. a \notin DOMAIN e
    BY <1>3
  <2>2. cached(w, a) = 0
    BY <1>3 DEF cached
  <2>3. delta_total(ds, a) = 0
    <3> DEFINE f == Terms(ds, a)
               I == 1..Len(ds)
    <3>1. IsFiniteSet(I) /\ \A i \in I : f[i] = 0
      <4>1. DOMAIN ds = 1..Len(ds) /\ Len(ds) \in Nat
        OBVIOUS
      <4>2. \A i \in 1..Len(ds) : ds[i][1] # a
        BY <1>3, <4>1
      <4>3. \A i \in 1..Len(ds) : f[i] = IF ds[i][1] = a THEN ds[i][2] ELSE 0
        BY TotalOfTerms
      <4>4. IsFiniteSet(I)
        BY <4>1, FS_Interval
      <4>5. ASSUME NEW i \in 1..Len(ds) PROVE f[i] = 0
        <5> HIDE DEF f
        <5> QED BY <4>2, <4>3
      <4> QED BY <4>4, <4>5
    <3>2. delta_total(ds, a) = SumFunctionOnSet(f, I)
      BY TotalOfTerms
    <3> HIDE DEF f, I
    <3>3. TotalOf(f, I)[I] = 0
      BY <3>1, TotalOfZeros
    <3> QED BY <3>2, <3>3, SumIsTotal
  <2> HIDE DEF e
  <2> QED BY <1>1, <2>1, <2>2, <2>3 DEF cached
<1> QED BY <1>2, <1>3

-----------------------------------------------------------------------------
(* What a transaction and a block change in the balance of an address. *)

IsPayment(tx) == tx.amount \in Int /\ tx.sender \in Accounts /\ tx.receiver \in Accounts

Paying(b) == IsSequence(b.transactions) /\ \A i \in 1..Len(b.transactions) : IsPayment(b.transactions[i])

Effect(tx, a) == (IF tx.receiver = a THEN tx.amount ELSE 0) - (IF tx.sender = a THEN tx.amount ELSE 0)

Effects(b, a) == [i \in DOMAIN b.transactions |-> Effect(b.transactions[i], a)]

Upto(b, a, n) == SumFunctionOnSet(Effects(b, a), 1..n)

LEMMA EffectsAre ==
    ASSUME NEW b, Paying(b), NEW a
    PROVE  /\ Len(b.transactions) \in Nat
           /\ \A i \in 1..Len(b.transactions) :
                  Effect(b.transactions[i], a) \in Int /\ Effects(b, a)[i] = Effect(b.transactions[i], a)
           /\ Upto(b, a, 0) = 0
           /\ \A n \in 0..Len(b.transactions) : Upto(b, a, n) \in Int
           /\ \A n \in 1..Len(b.transactions) : Upto(b, a, n) = Upto(b, a, n - 1) + Effect(b.transactions[n], a)
<1> DEFINE txs == b.transactions
           N == Len(txs)
           E == Effects(b, a)
<1>1. N \in Nat /\ DOMAIN txs = 1..N /\ \A i \in 1..N : IsPayment(txs[i])
  BY SequenceFacts DEF Paying
<1>2. ASSUME NEW i \in 1..N PROVE Effect(txs[i], a) \in Int /\ E[i] = Effect(txs[i], a)
  BY <1>1 DEF Effect, IsPayment, Effects
<1> HIDE DEF E, N, txs
<1>3. \A i \in 1..N : E[i] \in Int
  BY <1>2
<1>4. /\ SumFunctionOnSet(E, 1..0) = 0 /\ (\A n \in 0..N : SumFunctionOnSet(E, 1..n) \in Int)
      /\ \A n \in 1..N : SumFunctionOnSet(E, 1..n) = SumFunctionOnSet(E, 1..(n - 1)) + E[n]
  BY <1>1, <1>3, SumOfPlaces
<1> QED BY <1>1, <1>2, <1>4 DEF Upto, E, N, txs

LEMMA AddrIsAccount == \A a \in Addr : a \in Accounts /\ a # COINBASE_SENDER /\ a # GENESIS_ADDRESS
  BY PyRulesAssumption DEF Accounts

LEMMA TransactionDeltas ==
    ASSUME NEW tx, IsPayment(tx), NEW a \in Addr
    PROVE  transaction_deltas(tx) \in Seq(Delta) /\ delta_total(transaction_deltas(tx), a) = Effect(tx, a)
<1> DEFINE d == <<tx.sender, 0 - tx.amount>>
           e == <<tx.receiver, tx.amount>>
<1>1. d \in Delta /\ e \in Delta /\ tx.amount \in Int
  BY DEF Delta, IsPayment
<1>2. d[1] = tx.sender /\ d[2] = 0 - tx.amount /\ e[1] = tx.receiver /\ e[2] = tx.amount
  OBVIOUS
<1> HIDE DEF d, e
<1>3. delta_total(<<d>>, a) = (IF d[1] = a THEN d[2] ELSE 0) /\ delta_total(<<e>>, a) = (IF e[1] = a THEN e[2] ELSE 0)
  BY <1>1, TotalOfFew
<1>4. <<d>> \in Seq(Delta) /\ <<e>> \in Seq(Delta) /\ <<d, e>> \in Seq(Delta) /\ <<d, e>> = <<d>> \o <<e>>
  <2>1. <<d>> \in Seq(Delta) /\ <<e>> \in Seq(Delta) /\ <<d, e>> \in Seq(Delta)
    BY <1>1
  <2>2. <<d, e>> = <<d>> \o <<e>>
    <3> DEFINE x == <<d>>
               y == <<e>>
               z == <<d, e>>
    <3>1. Len(x) = 1 /\ Len(y) = 1 /\ Len(z) = 2 /\ x[1] = d /\ y[1] = e /\ z[1] = d /\ z[2] = e
      OBVIOUS
    <3>2. x \in Seq(Delta) /\ y \in Seq(Delta) /\ z \in Seq(Delta)
      BY <2>1
    <3> HIDE DEF x, y, z
    <3>3. x \o y \in Seq(Delta) /\ Len(x \o y) = 2 /\ (x \o y)[1] = d /\ (x \o y)[2] = e
      <4>1. /\ x \o y \in Seq(Delta) /\ Len(x \o y) = Len(x) + Len(y)
            /\ \A j \in 1..Len(x) : (x \o y)[j] = x[j]
            /\ \A k \in 1..Len(y) : (x \o y)[Len(x) + k] = y[k]
        BY <3>2, Concatenated
      <4>2. 1 \in 1..1 /\ 1 + 1 = 2
        OBVIOUS
      <4> QED BY <3>1, <4>1, <4>2
    <3>4. ASSUME NEW u \in Seq(Delta), NEW v \in Seq(Delta), Len(u) = 2, Len(v) = 2, u[1] = v[1], u[2] = v[2]
          PROVE  u = v
      BY <3>4
    <3>5. z = x \o y
      BY <3>1, <3>2, <3>3, <3>4
    <3> QED BY <3>5 DEF x, y, z
  <2> QED BY <2>1, <2>2
<1>5. CASE is_coinbase(tx)
  <2>1. transaction_deltas(tx) = <<e>>
    BY <1>5 DEF transaction_deltas, e
  <2>2. tx.sender # a
    BY <1>5, AddrIsAccount DEF is_coinbase
  <2> QED BY <1>1, <1>2, <1>3, <1>4, <2>1, <2>2 DEF Effect
<1>6. CASE ~is_coinbase(tx)
  <2>1. transaction_deltas(tx) = <<d, e>>
    BY <1>6 DEF transaction_deltas, d, e
  <2>2. delta_total(<<d, e>>, a) = delta_total(<<d>>, a) + delta_total(<<e>>, a)
    <3>1. ASSUME NEW x \in Seq(Delta), NEW y \in Seq(Delta)
          PROVE  delta_total(x \o y, a) = delta_total(x, a) + delta_total(y, a)
      BY TotalOfConcat
    <3>2. delta_total(<<d>> \o <<e>>, a) = delta_total(<<d>>, a) + delta_total(<<e>>, a)
      BY <1>4, <3>1
    <3> QED BY <1>4, <3>2
  <2> QED BY <1>1, <1>2, <1>3, <1>4, <2>1, <2>2 DEF Effect
<1> QED BY <1>5, <1>6

LEMMA BlockDeltas ==
    ASSUME NEW b, Paying(b), NEW a \in Addr
    PROVE  /\ deltas_for_block(b) \in Seq(Delta)
           /\ delta_total(deltas_for_block(b), a) = Upto(b, a, Len(b.transactions))
<1> DEFINE txs == b.transactions
           N == Len(txs)
           s == [i \in DOMAIN txs |-> transaction_deltas(txs[i])]
           F == [i \in 0..N |-> Upto(b, a, i)]
<1>1. N \in Nat /\ DOMAIN txs = 1..N /\ \A i \in 1..N : IsPayment(txs[i])
  BY SequenceFacts DEF Paying
<1>2. /\ Upto(b, a, 0) = 0 /\ (\A n \in 0..N : Upto(b, a, n) \in Int)
      /\ (\A n \in 1..N : Upto(b, a, n) = Upto(b, a, n - 1) + Effect(txs[n], a))
      /\ \A n \in 1..N : Effect(txs[n], a) \in Int
  BY EffectsAre
<1> HIDE DEF txs, N
<1>3. \A i \in 1..N : transaction_deltas(txs[i]) \in Seq(Delta) /\ delta_total(transaction_deltas(txs[i]), a) = Effect(txs[i], a)
  BY <1>1, TransactionDeltas
<1>4. s \in Seq(Seq(Delta)) /\ Len(s) = N /\ \A i \in 1..N : s[i] = transaction_deltas(txs[i])
  <2>1. s \in [1..N -> Seq(Delta)]
    BY <1>1, <1>3
  <2> QED BY <1>1, <2>1
<1>5. ASSUME NEW i \in 1..N PROVE delta_total(s[i], a) = F[i] - F[i - 1]
  <2>1. i \in 0..N /\ i - 1 \in 0..N
    BY <1>1
  <2>2. F[i] = Upto(b, a, i) /\ F[i - 1] = Upto(b, a, i - 1)
    BY <2>1
  <2>3. delta_total(s[i], a) = Effect(txs[i], a)
    BY <1>3, <1>4
  <2>4. Upto(b, a, i) = Upto(b, a, i - 1) + Effect(txs[i], a) /\ Upto(b, a, i - 1) \in Int /\ Effect(txs[i], a) \in Int
    BY <1>2, <2>1
  <2> HIDE DEF F, s
  <2> QED BY <2>2, <2>3, <2>4
<1>6. (\A i \in 0..N : F[i] \in Int) /\ F[0] = 0 /\ F[N] = Upto(b, a, N) /\ F[N] \in Int
  BY <1>1, <1>2
<1>7. deltas_for_block(b) = FlattenSeq(s)
  BY DEF deltas_for_block, txs
<1> HIDE DEF F, s
<1>8. FlattenSeq(s) \in Seq(Delta) /\ delta_total(FlattenSeq(s), a) = F[N] - F[0]
  BY <1>4, <1>5, <1>6, TotalOfFlat
<1> QED BY <1>6, <1>7, <1>8 DEF N, txs

LEMMA DeltasNotEmpty ==
    ASSUME NEW b, Paying(b), Len(b.transactions) > 0
    PROVE  deltas_for_block(b) # <<>> /\ deltas_for_block(b) \in Seq(Delta)
<1> DEFINE txs == b.transactions
           N == Len(txs)
           s == [i \in DOMAIN txs |-> transaction_deltas(txs[i])]
<1>1. N \in Nat /\ DOMAIN txs = 1..N /\ \A i \in 1..N : IsPayment(txs[i])
  BY SequenceFacts DEF Paying
<1>2. ASSUME NEW tx, IsPayment(tx) PROVE transaction_deltas(tx) \in Seq(Delta) /\ 1 \in 1..Len(transaction_deltas(tx))
  <2> DEFINE d == <<tx.sender, 0 - tx.amount>>
             e == <<tx.receiver, tx.amount>>
  <2>1. d \in Delta /\ e \in Delta
    BY <1>2 DEF Delta, IsPayment
  <2>2. transaction_deltas(tx) = <<e>> \/ transaction_deltas(tx) = <<d, e>>
    BY DEF transaction_deltas
  <2> HIDE DEF d, e
  <2>3. <<e>> \in Seq(Delta) /\ 1 \in 1..Len(<<e>>) /\ <<d, e>> \in Seq(Delta) /\ 1 \in 1..Len(<<d, e>>)
    BY <2>1
  <2> QED BY <2>2, <2>3
<1> HIDE DEF txs
<1>3. s \in Seq(Seq(Delta)) /\ Len(s) = N /\ \A i \in 1..N : s[i] = transaction_deltas(txs[i])
  <2> HIDE DEF N
  <2>1. s \in [1..N -> Seq(Delta)]
    BY <1>1, <1>2
  <2> QED BY <1>1, <2>1
<1>4. 1 \in 1..Len(s) /\ 1 \in 1..Len(s[1])
  <2>1. 1 \in 1..N
    BY <1>1 DEF txs
  <2>2. 1 \in 1..Len(transaction_deltas(txs[1]))
    BY <1>1, <1>2, <2>1
  <2> HIDE DEF s
  <2> QED BY <1>3, <2>1, <2>2
<1>5. deltas_for_block(b) = FlattenSeq(s)
  BY DEF deltas_for_block, txs
<1> HIDE DEF s
<1>6. FlattenSeq(s) \in Seq(Delta) /\ \E j \in 1..Len(FlattenSeq(s)) : FlattenSeq(s)[j] = s[1][1]
  BY <1>3, <1>4, FlattenKeeps
<1>7. FlattenSeq(s) # <<>>
  BY <1>6
<1> QED BY <1>5, <1>6, <1>7

(* Taking the deltas back. *)
LEMMA ReversedTotal ==
    ASSUME NEW ds \in Seq(Delta), NEW r, r = [i \in DOMAIN ds |-> <<ds[i][1], 0 - ds[i][2]>>], NEW a
    PROVE  r \in Seq(Delta) /\ delta_total(r, a) = 0 - delta_total(ds, a)
<1> DEFINE N == Len(ds)
           f == Terms(ds, a)
           g == Terms(r, a)
<1>1. N \in Nat /\ DOMAIN ds = 1..N /\ \A i \in 1..N : ds[i] \in Delta
  OBVIOUS
<1>2. \A i \in 1..N : r[i][1] = ds[i][1] /\ r[i][2] = 0 - ds[i][2] /\ r[i] \in Delta /\ ds[i][2] \in Int
  BY <1>1 DEF Delta
<1>3. r \in Seq(Delta) /\ Len(r) = N
  <2> HIDE DEF N
  <2>1. r \in [1..N -> Delta]
    BY <1>1, <1>2
  <2> QED BY <1>1, <2>1
<1>4. /\ delta_total(ds, a) = SumFunctionOnSet(f, 1..N) /\ (\A i \in 1..N : f[i] \in Int)
      /\ \A i \in 1..N : f[i] = IF ds[i][1] = a THEN ds[i][2] ELSE 0
  BY TotalOfTerms
<1>5. /\ delta_total(r, a) = SumFunctionOnSet(g, 1..N) /\ (\A i \in 1..N : g[i] \in Int)
      /\ \A i \in 1..N : g[i] = IF r[i][1] = a THEN r[i][2] ELSE 0
  <2>1. ASSUME NEW x \in Seq(Delta)
        PROVE  /\ delta_total(x, a) = SumFunctionOnSet(Terms(x, a), 1..Len(x))
               /\ \A i \in 1..Len(x) : Terms(x, a)[i] \in Int
               /\ \A i \in 1..Len(x) : Terms(x, a)[i] = IF x[i][1] = a THEN x[i][2] ELSE 0
    BY TotalOfTerms
  <2> HIDE DEF N
  <2> QED BY <1>3, <2>1
<1> HIDE DEF N, f, g
<1>6. \A i \in 1..N : g[i] = 0 - f[i]
  <2> SUFFICES ASSUME NEW i \in 1..N PROVE g[i] = 0 - f[i]
    OBVIOUS
  <2>1. r[i][1] = ds[i][1] /\ r[i][2] = 0 - ds[i][2] /\ ds[i][2] \in Int
    BY <1>2
  <2>2. f[i] = (IF ds[i][1] = a THEN ds[i][2] ELSE 0) /\ g[i] = (IF r[i][1] = a THEN r[i][2] ELSE 0)
    BY <1>4, <1>5
  <2> DEFINE x == ds[i][1]
             n == ds[i][2]
  <2>3. f[i] = (IF x = a THEN n ELSE 0) /\ g[i] = (IF x = a THEN 0 - n ELSE 0) /\ n \in Int
    BY <2>1, <2>2
  <2> HIDE DEF x, n
  <2> QED BY <2>3
<1>7. SumFunctionOnSet(g, 1..N) = 0 - SumFunctionOnSet(f, 1..N)
  BY <1>1, <1>4, <1>6, SumNegated
<1> QED BY <1>3, <1>4, <1>5, <1>7

(* Replay: the reward is paid first, and counts at the place of the        *)
(* coinbase.                                                               *)
LEMMA MoveEffect ==
    ASSUME NEW f \in [Accounts -> Int], NEW tx, IsPayment(tx), NEW a \in Accounts
    PROVE  move(f, tx) \in [Accounts -> Int] /\ move(f, tx)[a] = f[a] + Effect(tx, a)
<1> DEFINE n == tx.amount
           x == tx.sender
           y == tx.receiver
           g == [f EXCEPT ![x] = f[x] - n]
           h == [g EXCEPT ![y] = g[y] + n]
<1>1. n \in Int /\ x \in Accounts /\ y \in Accounts
  BY DEF IsPayment
<1>2. move(f, tx) = h
  BY DEF move
<1>3. Effect(tx, a) = (IF y = a THEN n ELSE 0) - (IF x = a THEN n ELSE 0)
  BY DEF Effect
<1> HIDE DEF n, x, y
<1>4. g \in [Accounts -> Int] /\ g[a] = f[a] - (IF x = a THEN n ELSE 0)
  BY <1>1
<1> HIDE DEF g
<1>5. h \in [Accounts -> Int] /\ h[a] = g[a] + (IF y = a THEN n ELSE 0)
  BY <1>1, <1>4
<1> HIDE DEF h
<1>6. f[a] \in Int
  OBVIOUS
<1> QED BY <1>1, <1>2, <1>3, <1>4, <1>5, <1>6

IsState(s) == s = [balances |-> s.balances, supply |-> s.supply, ok |-> s.ok]

LEMMA ReplayAdds ==
    ASSUME NEW s, s.balances \in [Accounts -> Int], s.ok, NEW b, Paying(b), b.index # 0,
           replay_block(s, b).ok, NEW a \in Addr
    PROVE  replay_block(s, b).balances[a] = s.balances[a] + Upto(b, a, Len(b.transactions))
<1> DEFINE txs == b.transactions
           N == Len(txs)
           j == CHOOSE i \in coinbases(b) : TRUE
           due == due_reward(s.supply)
           to == the_coinbase(b).receiver
           p == pay_reward(s, to)
<1>0. N \in Nat /\ DOMAIN txs = 1..N /\ \A i \in 1..N : IsPayment(txs[i])
  BY SequenceFacts DEF Paying
<1>1. ~NoState.ok
  BY DEF NoState
<1>2. /\ Cardinality(coinbases(b)) = 1 /\ the_coinbase(b).amount = due
      /\ replay_block(s, b) = replay_transactions(p, txs)
  BY <1>1 DEF replay_block
<1>3. j \in 1..N /\ is_coinbase(txs[j]) /\ the_coinbase(b) = txs[j] /\ \A i \in 1..N : is_coinbase(txs[i]) => i = j
  <2>1. PICK x : coinbases(b) = {x}
    <3>1. IsFiniteSet(coinbases(b))
      <4>1. coinbases(b) \in SUBSET (1..N) /\ IsFiniteSet(1..N)
        BY <1>0, FS_Interval DEF coinbases
      <4> QED BY <4>1, FS_Subset
    <3> QED BY <1>2, <3>1, FS_Singleton
  <2>2. j = x
    BY <2>1
  <2>3. \A i \in 1..N : is_coinbase(txs[i]) => i \in coinbases(b)
    BY <1>0 DEF coinbases
  <2>4. x \in 1..N /\ is_coinbase(txs[x])
    BY <1>0, <2>1 DEF coinbases
  <2> QED BY <2>1, <2>2, <2>3, <2>4 DEF the_coinbase
<1>4. due \in Int /\ to \in Accounts /\ to = txs[j].receiver /\ txs[j].amount = due /\ txs[j].sender # a
  BY <1>0, <1>2, <1>3, AddrIsAccount DEF IsPayment, is_coinbase
<1>5. a \in Accounts
  BY AddrIsAccount
<1>6. IsState(p) /\ p.ok = s.ok /\ p.balances \in [Accounts -> Int] /\ p.balances[a] = s.balances[a] + (IF to = a THEN due ELSE 0)
  <2> DEFINE f == s.balances
             g == [f EXCEPT ![to] = f[to] + due]
  <2>1. p = [balances |-> g, supply |-> s.supply + due, ok |-> s.ok]
    BY DEF pay_reward
  <2>2. IsState(p) /\ p.ok = s.ok /\ p.balances = g /\ f \in [Accounts -> Int] /\ f = s.balances
    BY <2>1 DEF IsState
  <2> HIDE DEF f, to, due, p
  <2>3. g \in [Accounts -> Int] /\ g[a] = f[a] + (IF to = a THEN due ELSE 0)
    BY <1>4, <1>5, <2>2
  <2> QED BY <2>2, <2>3
<1>7. PICK f : /\ replay_transactions(p, txs) = f[N] /\ f[0] = p
               /\ \A i \in 1..N : f[i] = replay_transaction(f[i - 1], txs[i])
  BY <1>0, TransfersAre
<1>8. /\ Upto(b, a, 0) = 0 /\ (\A n \in 0..N : Upto(b, a, n) \in Int)
      /\ (\A n \in 1..N : Upto(b, a, n) = Upto(b, a, n - 1) + Effect(txs[n], a))
      /\ \A n \in 1..N : Effect(txs[n], a) \in Int
  BY EffectsAre
<1> HIDE DEF txs, N, j, due, to, p
<1> DEFINE early(n) == IF n < j /\ to = a THEN due ELSE 0
           Holds(n) == f[n].ok => /\ IsState(f[n]) /\ f[n].balances \in [Accounts -> Int]
                                  /\ f[n].balances[a] = s.balances[a] + Upto(b, a, n) + early(n)
           S == {n \in Nat : n <= N => Holds(n)}
<1>9. s.balances[a] \in Int
  BY <1>5
<1>10. 0 \in S
  <2>1. early(0) = IF to = a THEN due ELSE 0
    BY <1>3
  <2>2. Holds(0)
    <3> HIDE DEF early
    <3> QED BY <1>4, <1>6, <1>7, <1>8, <1>9, <2>1
  <2> HIDE DEF Holds
  <2> QED BY <2>2
<1>11. ASSUME NEW n \in S PROVE n + 1 \in S
  <2>0. n \in Nat /\ (n <= N => Holds(n))
    OBVIOUS
  <2> DEFINE q == n + 1
             tx == txs[q]
             u == f[n]
             v == f[q]
  <2> SUFFICES ASSUME q <= N PROVE Holds(q)
    BY <2>0
  <2>1. q \in 1..N /\ q - 1 = n /\ n \in 0..N
    <3>1. n \in Nat /\ N \in Nat /\ q <= N
      BY <1>0, <2>0
    <3> QED BY <3>1
  <2>2. Holds(n)
    BY <1>0, <2>0, <2>1
  <2>3. v = replay_transaction(u, tx) /\ Upto(b, a, q) = Upto(b, a, n) + Effect(tx, a) /\ Upto(b, a, n) \in Int
    <3> HIDE DEF q
    <3> QED BY <1>7, <1>8, <2>1
  <2>4. IsPayment(tx) /\ Effect(tx, a) \in Int /\ (is_coinbase(tx) <=> q = j)
    BY <1>0, <1>3, <1>8, <2>1
  <2>5. q = j => (early(n) = (IF to = a THEN due ELSE 0) /\ early(q) = 0 /\ Effect(tx, a) = (IF to = a THEN due ELSE 0))
    <3>1. q = j => tx = txs[j] /\ n < j
      BY <2>0
    <3>2. Effect(txs[j], a) = (IF to = a THEN due ELSE 0)
      BY <1>4 DEF Effect
    <3> QED BY <3>1, <3>2
  <2>6. q # j => early(n) = early(q)
    BY <1>3, <2>0
  <2>7. early(n) \in Int /\ early(q) \in Int
    BY <1>4
  <2> SUFFICES ASSUME v.ok
               PROVE  IsState(v) /\ v.balances \in [Accounts -> Int] /\ v.balances[a] = s.balances[a] + Upto(b, a, q) + early(q)
    OBVIOUS
  <2> HIDE DEF q, tx, v, early
  <2>8. u.ok
    BY <2>3 DEF replay_transaction
  <2>9. IsState(u) /\ u.balances \in [Accounts -> Int] /\ u.balances[a] = s.balances[a] + Upto(b, a, n) + early(n)
    BY <2>2, <2>8
  <2> HIDE DEF u
  <2>10. CASE q = j
    <3>1. v = u
      BY <2>3, <2>4, <2>10 DEF replay_transaction
    <3> QED BY <1>4, <1>9, <2>3, <2>5, <2>9, <2>10, <3>1
  <2>11. CASE q # j
    <3>1. v = [u EXCEPT !.balances = move(u.balances, tx)]
      BY <1>1, <2>3, <2>4, <2>8, <2>11 DEF replay_transaction
    <3>3. v.balances = move(u.balances, tx) /\ IsState(v)
      BY <2>9, <3>1 DEF IsState
    <3>4. move(u.balances, tx) \in [Accounts -> Int] /\ move(u.balances, tx)[a] = u.balances[a] + Effect(tx, a)
      BY <1>5, <2>4, <2>9, MoveEffect
    <3> QED BY <1>9, <2>3, <2>4, <2>6, <2>7, <2>9, <2>11, <3>3, <3>4
  <2> QED BY <2>10, <2>11
<1>12. S = Nat
  <2>1. S \in SUBSET Nat
    OBVIOUS
  <2> HIDE DEF S
  <2> QED BY <1>10, <1>11, <2>1, NatSetInduction
<1>13. Holds(N)
  <2>1. N \in S
    BY <1>0, <1>12
  <2> QED BY <1>0, <2>1
<1>14. early(N) = 0
  BY <1>0, <1>3
<1>15. f[N].balances[a] = s.balances[a] + Upto(b, a, N)
  <2>1. f[N].ok
    BY <1>2, <1>7
  <2>2. Upto(b, a, N) \in Int
    BY <1>0, <1>8
  <2> HIDE DEF early
  <2> QED BY <1>9, <1>13, <1>14, <2>1, <2>2
<1> QED BY <1>2, <1>7, <1>15 DEF N, txs

(* Blocks that pay, and the balances along a chain. *)
LEMMA ValidPays ==
    ASSUME NEW b, HasPayments(b), \A i \in DOMAIN b.transactions : validate_transaction(b.transactions[i])
    PROVE  Paying(b)
<1> SUFFICES ASSUME NEW i \in 1..Len(b.transactions) PROVE IsPayment(b.transactions[i])
  BY DEF Paying, HasPayments
<1> DEFINE tx == b.transactions[i]
<1>1. tx.amount \in Int
  BY DEF HasPayments
<1>2. DOMAIN b.transactions = 1..Len(b.transactions)
  BY SequenceFacts DEF HasPayments
<1>3. validate_transaction(tx)
  BY <1>2
<1>4. tx.receiver \in Addr /\ (tx.sender = COINBASE_SENDER \/ tx.sender \in Addr)
  BY <1>3 DEF validate_transaction, verify, is_valid_address, is_coinbase
<1> QED BY <1>1, <1>4 DEF IsPayment, Accounts

LEMMA GenesisPays ==
    /\ Paying(genesis) /\ Len(genesis.transactions) = 1 /\ IsInjective(genesis.transactions)
    /\ \A a \in Addr : Upto(genesis, a, 1) = 0
<1> DEFINE tx == Transaction(GENESIS_ADDRESS, GENESIS_ADDRESS, 0, 0, "bad")
           txs == genesis.transactions
<1>1. txs = <<tx>>
  BY DEF genesis
<1>2. tx.sender = GENESIS_ADDRESS /\ tx.receiver = GENESIS_ADDRESS /\ tx.amount = 0
  BY DEF Transaction
<1>3. <<tx>> \in Seq({tx}) /\ Len(<<tx>>) = 1 /\ <<tx>>[1] = tx /\ DOMAIN <<tx>> = {1}
  OBVIOUS
<1> HIDE DEF txs, tx
<1>4. txs \in Seq({tx}) /\ Len(txs) = 1 /\ txs[1] = tx /\ DOMAIN txs = {1}
  BY <1>1, <1>3
<1>5. IsPayment(tx)
  BY <1>2 DEF IsPayment, Accounts
<1>6. IsSequence(txs) /\ \A i \in 1..Len(txs) : IsPayment(txs[i])
  BY <1>4, <1>5 DEF IsSequence
<1>7. Paying(genesis)
  BY <1>6 DEF Paying, txs
<1>8. IsInjective(txs)
  BY <1>4 DEF IsInjective
<1>9. ASSUME NEW a \in Addr PROVE Upto(genesis, a, 1) = 0
  <2>1. Effect(tx, a) = 0
    BY <1>2, AddrIsAccount DEF Effect
  <2>2. /\ Upto(genesis, a, 0) = 0
        /\ \A n \in 1..Len(txs) : Upto(genesis, a, n) = Upto(genesis, a, n - 1) + Effect(txs[n], a)
    BY <1>7, EffectsAre DEF txs
  <2>3. 1 \in 1..Len(txs) /\ 1 - 1 = 0
    BY <1>4
  <2>4. Upto(genesis, a, 1) = Upto(genesis, a, 1 - 1) + Effect(txs[1], a)
    BY <2>2, <2>3
  <2> QED BY <1>4, <2>1, <2>2, <2>3, <2>4
<1> QED BY <1>4, <1>7, <1>8, <1>9 DEF txs

Total(b, a) == Upto(b, a, Len(b.transactions))

(* f is the replay of c, block by block. *)
Booked(f, c) ==
    /\ _state_from_chain(c) = f[Len(c)] /\ f[0] = EmptyState
    /\ \A i \in 1..Len(c) : f[i] = replay_block(f[i - 1], c[i])
    /\ \A i \in 0..Len(c) : f[i].ok /\ f[i].balances \in [Accounts -> Nat]
    /\ \A i \in 1..Len(c) : Settled(f[i], Issued(i - 1))
    /\ \A i \in 1..Len(c) : \A a \in Addr : f[i].balances[a] = f[i - 1].balances[a] + Total(c[i], a)

PayingChain(c) == \A i \in 1..Len(c) : HasPayments(c[i]) /\ Paying(c[i])

LEMMA ChainBooks ==
    ASSUME IsFiniteSet(Addr), NEW c, Good(c), PayingChain(c)
    PROVE  \E f : Booked(f, c)
<1> DEFINE N == Len(c)
<1>0. N \in Nat /\ N > 0 /\ IsSequence(c) /\ c[1] = genesis /\ (\A i \in 1..N : c[i].index = i - 1)
  BY SequenceFacts DEF Good, Indexed
<1>1. PICK f : /\ _state_from_chain(c) = f[N] /\ f[0] = EmptyState
               /\ \A i \in 1..N : f[i] = replay_block(f[i - 1], c[i])
  BY <1>0, ReplayIs
<1>2. _state_from_chain(c).ok /\ \A i \in 2..N : validate_block_against_chain(c[i], SubSeq(c, 1, i - 1))
  BY DEF Good, validate_chain
<1>3. \A i \in 1..N : HasPayments(c[i]) /\ Paying(c[i])
  BY DEF PayingChain
<1> HIDE DEF N
<1> DEFINE U == {m \in Nat : m <= N => f[N - m].ok}
<1>4. 0 \in U
  <2>1. N - 0 = N
    BY <1>0
  <2> QED BY <1>1, <1>2, <2>1
<1>5. ASSUME NEW m \in U PROVE m + 1 \in U
  <2>0. m \in Nat /\ (m <= N => f[N - m].ok)
    OBVIOUS
  <2> SUFFICES ASSUME m + 1 <= N PROVE f[N - (m + 1)].ok
    BY <2>0
  <2> DEFINE q == N - m
  <2>1. q \in 1..N /\ q - 1 = N - (m + 1) /\ m <= N
    BY <1>0, <2>0
  <2>2. f[q].ok
    BY <2>0, <2>1
  <2> HIDE DEF q, U
  <2>3. f[q] = replay_block(f[q - 1], c[q])
    BY <1>1, <2>1
  <2>4. f[q - 1].ok
    BY <2>2, <2>3 DEF replay_block
  <2> QED BY <2>1, <2>4
<1>6. U = Nat
  <2>1. U \in SUBSET Nat
    OBVIOUS
  <2> HIDE DEF U
  <2> QED BY <1>4, <1>5, <2>1, NatSetInduction
<1>7. ASSUME NEW i \in 0..N PROVE f[i].ok
  <2>1. N - i \in U /\ N - i <= N /\ N - (N - i) = i
    BY <1>0, <1>6
  <2>2. f[N - (N - i)].ok
    BY <2>1
  <2> QED BY <2>1, <2>2
<1> HIDE DEF U
<1>8. f[1] = EmptyState
  <2>1. 1 \in 1..N /\ 1 - 1 = 0
    BY <1>0
  <2>2. f[1] = replay_block(f[1 - 1], c[1])
    BY <1>1, <2>1
  <2>3. replay_block(f[0], genesis) = f[0]
    BY DEF replay_block, genesis
  <2> QED BY <1>0, <1>1, <2>1, <2>2, <2>3
<1> DEFINE S == {n \in Nat : n + 1 <= N => Settled(f[n + 1], Issued(n))}
<1>9. 0 \in S
  <2>1. Settled(f[0 + 1], Issued(0))
    BY <1>8, EmptySettled
  <2> QED BY <2>1
<1>10. ASSUME NEW n \in S PROVE n + 1 \in S
  <2>0. n \in Nat /\ (n + 1 <= N => Settled(f[n + 1], Issued(n)))
    OBVIOUS
  <2> HIDE DEF S
  <2> DEFINE k == n + 1
             q == k + 1
             b == c[q]
  <2> SUFFICES ASSUME q <= N PROVE Settled(f[q], Issued(k))
    BY <2>0 DEF S
  <2>1. k \in Nat /\ k <= N /\ q \in 1..N /\ q \in 2..N /\ q - 1 = k /\ k \in 0..N /\ q \in 0..N
    BY <1>0, <2>0
  <2>2. Settled(f[k], Issued(n))
    BY <2>0, <2>1
  <2>3. Issued(n) \in Nat /\ due_reward(Issued(n)) \in Nat /\ Issued(k) = Issued(n) + due_reward(Issued(n))
    BY <2>0, IssuedNext
  <2>i. k > 0
    BY <2>0
  <2> HIDE DEF k, q
  <2>4. f[q] = replay_block(f[k], b) /\ f[k].ok /\ f[q].ok
    BY <1>1, <1>7, <2>1
  <2>5. b.index = k /\ HasPayments(b)
    BY <1>0, <1>3, <2>1
  <2>6. \A i \in DOMAIN b.transactions : validate_transaction(b.transactions[i])
    <3>1. PICK d : validate_block_against_chain(b, d)
      BY <1>2, <2>1
    <3>2. PICK rewards : validate_block_structure(b, rewards)
      BY <3>1 DEF validate_block_against_chain
    <3> QED BY <2>1, <2>i, <2>5, <3>2 DEF validate_block_structure
  <2>7. b.index # 0 /\ replay_block(f[k], b).ok
    BY <2>1, <2>i, <2>4, <2>5
  <2> HIDE DEF b
  <2>8. Settled(replay_block(f[k], b), Issued(n) + due_reward(Issued(n)))
    BY <2>2, <2>3, <2>4, <2>5, <2>6, <2>7, BlockSettles
  <2> QED BY <2>3, <2>4, <2>8
<1>11. S = Nat
  <2>1. S \in SUBSET Nat
    OBVIOUS
  <2> HIDE DEF S
  <2> QED BY <1>9, <1>10, <2>1, NatSetInduction
<1>12. ASSUME NEW i \in 1..N PROVE Settled(f[i], Issued(i - 1))
  <2> DEFINE n == i - 1
  <2>1. n \in Nat /\ n + 1 = i /\ n + 1 <= N /\ n \in S
    BY <1>0, <1>11
  <2>2. Settled(f[n + 1], Issued(n))
    BY <2>1
  <2> QED BY <2>1, <2>2
<1> HIDE DEF S
<1>13. ASSUME NEW i \in 0..N PROVE f[i].balances \in [Accounts -> Nat]
  <2>1. CASE i = 0
    BY <1>1, <2>1, EmptySettled DEF Settled
  <2>2. CASE i # 0
    <3>1. i \in 1..N
      BY <1>0, <2>2
    <3> QED BY <1>7, <1>12, <3>1 DEF Settled
  <2> QED BY <2>1, <2>2
<1>14. ASSUME NEW i \in 1..N, NEW a \in Addr PROVE f[i].balances[a] = f[i - 1].balances[a] + Total(c[i], a)
  <2>1. a \in Accounts
    BY AddrIsAccount
  <2>2. CASE i = 1
    <3>1. Total(c[1], a) = 0
      BY <1>0, GenesisPays DEF Total
    <3>2. f[1].balances[a] = 0 /\ f[0].balances[a] = 0 /\ 1 - 1 = 0
      BY <1>1, <1>8, <2>1, EmptySettled
    <3>3. f[1].balances[a] = f[1 - 1].balances[a] + Total(c[1], a)
      BY <3>1, <3>2
    <3> QED BY <2>2, <3>3
  <2>3. CASE i # 1
    <3> DEFINE k == i - 1
               u == f[k]
               b == c[i]
    <3>1. k \in 0..N /\ i \in 0..N /\ k # 0
      BY <1>0, <2>3
    <3>2. u.balances \in [Accounts -> Nat] /\ u.ok /\ Paying(b) /\ b.index # 0
      BY <1>0, <1>3, <1>7, <1>13, <3>1
    <3>3. f[i] = replay_block(u, b) /\ replay_block(u, b).ok
      BY <1>1, <1>7, <3>1
    <3> HIDE DEF u, b
    <3>4. u.balances \in [Accounts -> Int]
      BY <3>2
    <3>5. replay_block(u, b).balances[a] = u.balances[a] + Upto(b, a, Len(b.transactions))
      BY <3>2, <3>3, <3>4, ReplayAdds
    <3> QED BY <3>3, <3>5 DEF Total, u, b
  <2> QED BY <2>2, <2>3
<1>15. Booked(f, c)
  BY <1>1, <1>7, <1>12, <1>13, <1>14 DEF Booked, N
<1> QED BY <1>15

-----------------------------------------------------------------------------
(* What the rows of the transactions table add up to. *)

Credits(T, a) == {s \in T : s.tx.receiver = a}

Debits(T, a) == {s \in T : s.tx.sender = a}

Amounts(T) == [r \in T |-> r.tx.amount]

History(T, a) == SumFunctionOnSet(Amounts(Credits(T, a)), Credits(T, a)) - SumFunctionOnSet(Amounts(Debits(T, a)), Debits(T, a))

IsRows(T) == IsFiniteSet(T) /\ \A r \in T : r.tx.amount \in Int

LEMMA HistoryIs ==
    \A d, a : _compute_balance_from_history(d, a) = History(d.transactions, a)
  BY DEF _compute_balance_from_history, SumFunction, History, Credits, Debits, Amounts

LEMMA AmountsWithRow ==
    ASSUME NEW S, IsRows(S), NEW r, r \notin S, r.tx.amount \in Int
    PROVE  /\ SumFunctionOnSet(Amounts(S), S) \in Int
           /\ SumFunctionOnSet(Amounts(S \cup {r}), S \cup {r}) = r.tx.amount + SumFunctionOnSet(Amounts(S), S)
<1> DEFINE B == S \cup {r}
           f == Amounts(B)
           g == Amounts(S)
<1>1. IsFiniteSet(B) /\ r \in B /\ B \ {r} = S
  BY FS_AddElement DEF IsRows
<1>2. (\A x \in B : f[x] \in Int) /\ f[r] = r.tx.amount /\ \A x \in S : g[x] = f[x]
  BY DEF Amounts, IsRows
<1> HIDE DEF B, f, g
<1>3. \A x \in B \ {r} : g[x] = f[x]
  BY <1>1, <1>2
<1>4. /\ SumFunctionOnSet(f, B) \in Int /\ SumFunctionOnSet(g, B \ {r}) \in Int
      /\ SumFunctionOnSet(f, B) = f[r] + SumFunctionOnSet(g, B \ {r})
  BY <1>1, <1>2, <1>3, SumSplits
<1> QED BY <1>1, <1>2, <1>4 DEF B, f, g

LEMMA HistoryOfNone == \A a : History({}, a) = 0 /\ IsRows({})
<1> SUFFICES ASSUME NEW a PROVE History({}, a) = 0 /\ IsRows({})
  OBVIOUS
<1>1. Credits({}, a) = {} /\ Debits({}, a) = {}
  BY DEF Credits, Debits
<1>2. IsFiniteSet({})
  BY FS_EmptySet
<1> QED BY <1>1, <1>2, SumOfNone DEF History, IsRows

LEMMA HistoryWithRow ==
    ASSUME NEW T, IsRows(T), NEW r, r \notin T, r.tx.amount \in Int, NEW a
    PROVE  /\ IsRows(T \cup {r}) /\ History(T, a) \in Int
           /\ History(T \cup {r}, a) = History(T, a) + Effect(r.tx, a)
<1> DEFINE B == T \cup {r}
           n == r.tx.amount
           C == Credits(T, a)
           D == Debits(T, a)
           in == SumFunctionOnSet(Amounts(C), C)
           out == SumFunctionOnSet(Amounts(D), D)
<1>1. IsRows(B)
  BY FS_AddElement DEF IsRows
<1>2. IsRows(C) /\ IsRows(D) /\ r \notin C /\ r \notin D
  <2>1. C \in SUBSET T /\ D \in SUBSET T
    BY DEF Credits, Debits
  <2> QED BY <2>1, FS_Subset DEF IsRows
<1>3. Credits(B, a) = IF r.tx.receiver = a THEN C \cup {r} ELSE C
  BY DEF Credits
<1>4. Debits(B, a) = IF r.tx.sender = a THEN D \cup {r} ELSE D
  BY DEF Debits
<1>5. in \in Int /\ SumFunctionOnSet(Amounts(C \cup {r}), C \cup {r}) = n + in
  BY <1>2, AmountsWithRow
<1>6. out \in Int /\ SumFunctionOnSet(Amounts(D \cup {r}), D \cup {r}) = n + out
  BY <1>2, AmountsWithRow
<1>7. History(T, a) = in - out
  BY DEF History
<1>8. History(B, a) = (IF r.tx.receiver = a THEN n + in ELSE in) - (IF r.tx.sender = a THEN n + out ELSE out)
  BY <1>3, <1>4, <1>5, <1>6 DEF History
<1>9. Effect(r.tx, a) = (IF r.tx.receiver = a THEN n ELSE 0) - (IF r.tx.sender = a THEN n ELSE 0) /\ n \in Int
  BY DEF Effect
<1> HIDE DEF n, in, out, B, C, D
<1>10. History(B, a) = (in - out) + Effect(r.tx, a) /\ in - out \in Int
  BY <1>5, <1>6, <1>8, <1>9
<1> QED BY <1>1, <1>7, <1>10 DEF B

Row(b, i) == [tx |-> b.transactions[i], block_index |-> b.index]

RowsTo(b, n) == {Row(b, i) : i \in 1..n}

LEMMA HistoryWithBlock ==
    ASSUME NEW T, IsRows(T), NEW b, Paying(b), IsInjective(b.transactions), \A r \in T : r.block_index # b.index, NEW a
    PROVE  /\ IsRows(T \cup rows(b)) /\ History(T, a) \in Int
           /\ History(T \cup rows(b), a) = History(T, a) + Total(b, a)
<1> DEFINE txs == b.transactions
           N == Len(txs)
<1>1. /\ N \in Nat /\ DOMAIN txs = 1..N /\ (\A i \in 1..N : IsPayment(txs[i]))
      /\ Range(txs) = {txs[i] : i \in 1..N}
  BY SequenceFacts DEF Paying, Range
<1>2. rows(b) = RowsTo(b, N)
  BY <1>1 DEF rows, RowsTo, Row
<1>3. \A i, j \in 1..N : txs[i] = txs[j] => i = j
  BY <1>1 DEF IsInjective
<1>4. /\ Upto(b, a, 0) = 0 /\ (\A n \in 0..N : Upto(b, a, n) \in Int)
      /\ (\A n \in 1..N : Upto(b, a, n) = Upto(b, a, n - 1) + Effect(txs[n], a))
      /\ \A n \in 1..N : Effect(txs[n], a) \in Int
  BY EffectsAre
<1>5. \A i \in 1..N : Row(b, i).tx = txs[i] /\ Row(b, i).block_index = b.index
  BY DEF Row
<1>6. History(T, a) \in Int
  <2>1. Row(b, 1) \notin T
    BY DEF Row
  <2>2. PICK r : r \notin T /\ r.tx.amount \in Int
    <3> DEFINE t == [amount |-> 0]
               z == [tx |-> t, block_index |-> b.index]
    <3>1. z \notin T /\ z.tx.amount \in Int
      OBVIOUS
    <3> QED BY <3>1
  <2> QED BY <2>2, HistoryWithRow
<1> HIDE DEF txs, N
<1> DEFINE U(n) == T \cup RowsTo(b, n)
           Holds(n) == IsRows(U(n)) /\ History(U(n), a) = History(T, a) + Upto(b, a, n)
           S == {n \in Nat : n <= N => Holds(n)}
<1>7. 0 \in S
  <2>1. U(0) = T
    BY DEF RowsTo
  <2>2. Holds(0)
    <3> HIDE DEF U
    <3> QED BY <1>4, <1>6, <2>1
  <2> HIDE DEF Holds
  <2> QED BY <2>2
<1>8. ASSUME NEW n \in S PROVE n + 1 \in S
  <2>0. n \in Nat /\ (n <= N => Holds(n))
    OBVIOUS
  <2> DEFINE q == n + 1
             r == Row(b, q)
  <2> SUFFICES ASSUME q <= N PROVE Holds(q)
    BY <2>0
  <2>1. q \in 1..N /\ q - 1 = n /\ n \in 0..N /\ \A i \in 1..n : i \in 1..N /\ i # q
    <3>1. n \in Nat /\ N \in Nat /\ q <= N
      BY <1>1, <2>0
    <3> QED BY <3>1
  <2>2. Holds(n)
    BY <1>1, <2>0, <2>1
  <2>3. U(q) = U(n) \cup {r}
    <3>1. 1..q = (1..n) \cup {q}
      BY <2>0
    <3> HIDE DEF q
    <3> QED BY <3>1 DEF RowsTo
  <2> HIDE DEF q, r, S
  <2>4. r.tx = txs[q] /\ r.block_index = b.index
    BY <1>5, <2>1 DEF r
  <2>5. r \notin U(n)
    <3>1. r \notin T
      BY <2>4
    <3>2. ASSUME r \in RowsTo(b, n) PROVE FALSE
      <4>1. PICK i \in 1..n : r = Row(b, i)
        BY <3>2 DEF RowsTo
      <4>2. i \in 1..N /\ i # q
        BY <2>1
      <4>3. Row(b, i).tx = txs[i]
        BY <1>5, <4>2
      <4> QED BY <1>3, <2>1, <2>4, <4>1, <4>2, <4>3
    <3> QED BY <3>1, <3>2
  <2>6. r.tx.amount \in Int
    BY <1>1, <2>1, <2>4 DEF IsPayment
  <2>7. IsRows(U(n)) /\ History(U(n), a) = History(T, a) + Upto(b, a, n)
    BY <2>2
  <2> HIDE DEF U
  <2>8. IsRows(U(n) \cup {r}) /\ History(U(n) \cup {r}, a) = History(U(n), a) + Effect(r.tx, a)
    BY <2>5, <2>6, <2>7, HistoryWithRow
  <2>9. Upto(b, a, q) = Upto(b, a, n) + Effect(txs[q], a) /\ Upto(b, a, n) \in Int /\ Effect(txs[q], a) \in Int
    BY <1>4, <2>1
  <2> QED BY <1>6, <2>3, <2>4, <2>7, <2>8, <2>9
<1>9. S = Nat
  <2>1. S \in SUBSET Nat
    OBVIOUS
  <2> HIDE DEF S
  <2> QED BY <1>7, <1>8, <2>1, NatSetInduction
<1>10. Holds(N)
  <2>1. N \in S
    BY <1>1, <1>9
  <2> QED BY <1>1, <2>1
<1> QED BY <1>2, <1>6, <1>10 DEF Total, N, txs

(* The rows of every block of a chain. *)
Distinct(c) == \A i \in 1..Len(c) : IsInjective(c[i].transactions)

LEMMA ChainHistory ==
    ASSUME NEW c, Good(c), PayingChain(c), Distinct(c), NEW f, Booked(f, c), NEW a \in Addr,
           NEW T, T = UNION {rows(b) : b \in Range(c)}
    PROVE  IsRows(T) /\ History(T, a) = f[Len(c)].balances[a]
<1> DEFINE N == Len(c)
           U(n) == UNION {rows(c[i]) : i \in 1..n}
           Holds(n) == IsRows(U(n)) /\ History(U(n), a) = f[n].balances[a]
           S == {n \in Nat : n <= N => Holds(n)}
<1>1. N \in Nat /\ DOMAIN c = 1..N /\ (\A i \in 1..N : c[i].index = i - 1) /\ Range(c) = {c[i] : i \in 1..N}
  BY SequenceFacts DEF Good, Indexed, Range
<1>2. T = U(N)
  BY <1>1
<1>3. \A i \in 1..N : Paying(c[i]) /\ IsInjective(c[i].transactions)
  BY DEF PayingChain, Distinct
<1>4. /\ f[0] = EmptyState /\ (\A i \in 0..N : f[i].balances \in [Accounts -> Nat])
      /\ \A i \in 1..N : f[i].balances[a] = f[i - 1].balances[a] + Total(c[i], a)
  BY DEF Booked
<1> HIDE DEF N
<1>5. 0 \in S
  <2>1. U(0) = {}
    OBVIOUS
  <2>2. EmptyState.balances[a] = 0
    BY AddrIsAccount DEF EmptyState
  <2>3. Holds(0)
    <3> HIDE DEF U
    <3> QED BY <1>4, <2>1, <2>2, HistoryOfNone
  <2> HIDE DEF Holds
  <2> QED BY <2>3
<1>6. ASSUME NEW n \in S PROVE n + 1 \in S
  <2>0. n \in Nat /\ (n <= N => Holds(n))
    OBVIOUS
  <2> DEFINE q == n + 1
             b == c[q]
  <2> SUFFICES ASSUME q <= N PROVE Holds(q)
    BY <2>0
  <2>1. q \in 1..N /\ q - 1 = n /\ n \in 0..N /\ \A i \in 1..n : i \in 1..N /\ i - 1 # q - 1
    <3>1. n \in Nat /\ N \in Nat /\ q <= N
      BY <1>1, <2>0
    <3> QED BY <3>1
  <2>2. Holds(n)
    BY <1>1, <2>0, <2>1
  <2>3. U(q) = U(n) \cup rows(b)
    <3>1. 1..q = (1..n) \cup {q}
      BY <2>0
    <3> HIDE DEF q
    <3> QED BY <3>1
  <2>4. \A r \in U(n) : r.block_index # b.index
    <3> HIDE DEF q
    <3> SUFFICES ASSUME NEW i \in 1..n, NEW r \in rows(c[i]) PROVE r.block_index # b.index
      OBVIOUS
    <3>1. r.block_index = c[i].index
      BY RowIndex
    <3> QED BY <1>1, <2>1, <3>1
  <2> HIDE DEF q, S
  <2>5. Paying(b) /\ IsInjective(b.transactions)
    BY <1>3, <2>1
  <2>6. f[q].balances[a] = f[n].balances[a] + Total(b, a)
    BY <1>4, <2>1
  <2>7. IsRows(U(n)) /\ History(U(n), a) = f[n].balances[a]
    BY <2>2
  <2> HIDE DEF U, b
  <2>8. IsRows(U(n) \cup rows(b)) /\ History(U(n) \cup rows(b), a) = History(U(n), a) + Total(b, a)
    BY <2>4, <2>5, <2>7, HistoryWithBlock
  <2> QED BY <2>3, <2>6, <2>7, <2>8
<1>7. S = Nat
  <2>1. S \in SUBSET Nat
    OBVIOUS
  <2> HIDE DEF S
  <2> QED BY <1>5, <1>6, <2>1, NatSetInduction
<1>8. Holds(N)
  <2>1. N \in S
    BY <1>1, <1>7
  <2> QED BY <1>1, <2>1
<1> QED BY <1>2, <1>8 DEF N

-----------------------------------------------------------------------------
(* A reorganization *)

LEMMA BlockTotal == ASSUME NEW b, Paying(b), NEW a PROVE Total(b, a) \in Int
<1>1. Len(b.transactions) \in Nat /\ \A n \in 0..Len(b.transactions) : Upto(b, a, n) \in Int
  BY EffectsAre
<1>2. Len(b.transactions) \in 0..Len(b.transactions)
  BY <1>1
<1> QED BY <1>1, <1>2 DEF Total

LEMMA SameReplay ==
    ASSUME NEW c, NEW e, NEW f, NEW g, Booked(f, c), Booked(g, e), NEW k \in Nat, k <= Len(c), k <= Len(e),
           Len(c) \in Nat, Len(e) \in Nat, \A i \in 1..k : c[i] = e[i]
    PROVE  f[k] = g[k]
<1> DEFINE S == {n \in Nat : n <= k => f[n] = g[n]}
<1>1. 0 \in S
  BY DEF Booked
<1>2. ASSUME NEW n \in S PROVE n + 1 \in S
  <2>0. n \in Nat /\ (n <= k => f[n] = g[n])
    OBVIOUS
  <2> DEFINE q == n + 1
  <2> SUFFICES ASSUME q <= k PROVE f[q] = g[q]
    BY <2>0
  <2>1. q \in 1..Len(c) /\ q \in 1..Len(e) /\ q - 1 = n /\ n <= k /\ q \in 1..k
    BY <2>0
  <2> HIDE DEF q, S
  <2>2. f[q] = replay_block(f[n], c[q]) /\ g[q] = replay_block(g[n], e[q])
    BY <2>1 DEF Booked
  <2> QED BY <2>0, <2>1, <2>2
<1>3. S = Nat
  <2>1. S \in SUBSET Nat
    OBVIOUS
  <2> HIDE DEF S
  <2> QED BY <1>1, <1>2, <2>1, NatSetInduction
<1>4. k \in S /\ k <= k
  BY <1>3
<1> QED BY <1>4

LEMMA ReversedDeltas ==
    ASSUME NEW b, Paying(b), NEW a \in Addr
    PROVE  reversed_deltas(b) \in Seq(Delta) /\ delta_total(reversed_deltas(b), a) = 0 - Total(b, a)
<1>1. deltas_for_block(b) \in Seq(Delta) /\ delta_total(deltas_for_block(b), a) = Total(b, a)
  BY BlockDeltas DEF Total
<1>2. reversed_deltas(b) = [i \in DOMAIN deltas_for_block(b) |-> <<deltas_for_block(b)[i][1], 0 - deltas_for_block(b)[i][2]>>]
  BY DEF reversed_deltas
<1>3. reversed_deltas(b) \in Seq(Delta) /\ delta_total(reversed_deltas(b), a) = 0 - delta_total(deltas_for_block(b), a)
  BY <1>1, <1>2, ReversedTotal
<1> QED BY <1>1, <1>3

Taken(r) == [i \in DOMAIN r |-> deltas_for_block(r[i])]

TakenBack(r) == [i \in DOMAIN r |-> reversed_deltas(r[i])]

LEMMA BranchDeltas ==
    ASSUME NEW c, Good(c), PayingChain(c), NEW f, Booked(f, c), NEW k \in Nat, k <= Len(c),
           NEW r, IsSequence(r), Len(r) = Len(c) - k, \A i \in 1..Len(r) : r[i] = c[k + i], NEW a \in Addr
    PROVE  /\ FlattenSeq(Taken(r)) \in Seq(Delta) /\ FlattenSeq(TakenBack(r)) \in Seq(Delta)
           /\ delta_total(FlattenSeq(Taken(r)), a) = f[Len(c)].balances[a] - f[k].balances[a]
           /\ delta_total(FlattenSeq(TakenBack(r)), a) = f[k].balances[a] - f[Len(c)].balances[a]
<1> DEFINE N == Len(r)
           x == Taken(r)
           y == TakenBack(r)
           B(i) == f[k + i].balances[a]
           F == [i \in 0..N |-> B(i)]
           G == [i \in 0..N |-> 0 - B(i)]
<1>1. Len(c) \in Nat /\ N \in Nat /\ DOMAIN r = 1..N /\ Len(c) = k + N
  <2>1. Len(c) \in Nat /\ N \in Nat /\ DOMAIN r = 1..N
    BY SequenceFacts DEF Good
  <2> QED BY <2>1
<1>2. ASSUME NEW i \in 1..N
      PROVE  /\ Paying(r[i]) /\ B(i) = B(i - 1) + Total(r[i], a)
  <2>1. k + i \in 1..Len(c) /\ (k + i) - 1 = k + (i - 1) /\ r[i] = c[k + i]
    BY <1>1
  <2>2. f[k + i].balances[a] = f[(k + i) - 1].balances[a] + Total(c[k + i], a)
    BY <2>1 DEF Booked
  <2> QED BY <2>1, <2>2 DEF PayingChain
<1>3. ASSUME NEW i \in 0..N PROVE B(i) \in Int
  <2>1. k + i \in 0..Len(c) /\ a \in Accounts
    BY <1>1, AddrIsAccount
  <2>2. f[k + i].balances \in [Accounts -> Nat]
    BY <2>1 DEF Booked
  <2> QED BY <2>1, <2>2
<1>4. B(0) = f[k].balances[a] /\ B(N) = f[Len(c)].balances[a]
  BY <1>1
<1>5. ASSUME NEW i \in 1..N PROVE Total(r[i], a) \in Int
  <2>1. Paying(r[i])
    BY <1>2
  <2> QED BY <2>1, BlockTotal
<1> HIDE DEF B, N
<1>6. ASSUME NEW i \in 1..N
      PROVE  /\ deltas_for_block(r[i]) \in Seq(Delta) /\ delta_total(deltas_for_block(r[i]), a) = Total(r[i], a)
             /\ reversed_deltas(r[i]) \in Seq(Delta) /\ delta_total(reversed_deltas(r[i]), a) = 0 - Total(r[i], a)
  BY <1>2, BlockDeltas, ReversedDeltas DEF Total
<1>7. x \in Seq(Seq(Delta)) /\ Len(x) = N /\ \A i \in 1..N : x[i] = deltas_for_block(r[i])
  <2>1. x \in [1..N -> Seq(Delta)] /\ \A i \in 1..N : x[i] = deltas_for_block(r[i])
    BY <1>1, <1>6 DEF Taken
  <2> HIDE DEF x
  <2> QED BY ONLY <1>1, <2>1
<1>8. y \in Seq(Seq(Delta)) /\ Len(y) = N /\ \A i \in 1..N : y[i] = reversed_deltas(r[i])
  <2>1. y \in [1..N -> Seq(Delta)] /\ \A i \in 1..N : y[i] = reversed_deltas(r[i])
    BY <1>1, <1>6 DEF TakenBack
  <2> HIDE DEF y
  <2> QED BY <1>1, <2>1
<1>9. ASSUME NEW i \in 1..N
      PROVE  delta_total(x[i], a) = F[i] - F[i - 1] /\ delta_total(y[i], a) = G[i] - G[i - 1]
  <2>1. i \in 0..N /\ i - 1 \in 0..N
    BY <1>1
  <2>2. F[i] = B(i) /\ F[i - 1] = B(i - 1) /\ G[i] = 0 - B(i) /\ G[i - 1] = 0 - B(i - 1)
    BY <2>1
  <2>3. delta_total(x[i], a) = Total(r[i], a) /\ delta_total(y[i], a) = 0 - Total(r[i], a)
    BY <1>6, <1>7, <1>8
  <2>4. B(i) = B(i - 1) + Total(r[i], a) /\ B(i - 1) \in Int /\ Total(r[i], a) \in Int
    BY <1>2, <1>3, <1>5, <2>1
  <2> HIDE DEF F, G
  <2> QED BY <2>2, <2>3, <2>4
<1>10. /\ \A i \in 0..N : F[i] \in Int /\ G[i] \in Int
       /\ F[0] = B(0) /\ F[N] = B(N) /\ G[0] = 0 - B(0) /\ G[N] = 0 - B(N) /\ B(0) \in Int /\ B(N) \in Int
  BY <1>1, <1>3
<1> HIDE DEF F, G, x, y
<1>11. FlattenSeq(x) \in Seq(Delta) /\ delta_total(FlattenSeq(x), a) = F[N] - F[0]
  <2>1. x \in Seq(Seq(Delta)) /\ Len(x) = N
    BY <1>7
  <2>2. \A i \in 0..Len(x) : F[i] \in Int
    BY <1>10, <2>1
  <2>3. \A i \in 1..Len(x) : delta_total(x[i], a) = F[i] - F[i - 1]
    BY <1>9, <2>1
  <2>4. FlattenSeq(x) \in Seq(Delta) /\ delta_total(FlattenSeq(x), a) = F[Len(x)] - F[0]
    BY ONLY <2>1, <2>2, <2>3, TotalOfFlat
  <2> QED BY <2>1, <2>4
<1>12. FlattenSeq(y) \in Seq(Delta) /\ delta_total(FlattenSeq(y), a) = G[N] - G[0]
  <2>1. y \in Seq(Seq(Delta)) /\ Len(y) = N
    BY <1>8
  <2>2. \A i \in 0..Len(y) : G[i] \in Int
    BY <1>10, <2>1
  <2>3. \A i \in 1..Len(y) : delta_total(y[i], a) = G[i] - G[i - 1]
    BY <1>9, <2>1
  <2>4. FlattenSeq(y) \in Seq(Delta) /\ delta_total(FlattenSeq(y), a) = G[Len(y)] - G[0]
    BY ONLY <2>1, <2>2, <2>3, TotalOfFlat
  <2> QED BY <2>1, <2>4
<1> QED BY <1>4, <1>10, <1>11, <1>12 DEF x, y

LEMMA Reorganized ==
    ASSUME IsFiniteSet(Addr), NEW c, Good(c), PayingChain(c), NEW candidate, Good(candidate), PayingChain(candidate),
           NEW k, k = _find_fork_index(c, candidate), NEW d, d.blocks = Range(c), NEW a \in Addr,
           cached(d.wallets, a) = _state_from_chain(c).balances[a]
    PROVE  cached(reorganize_from(d, k, SubSeq(candidate, k + 1, Len(candidate))).wallets, a)
           = _state_from_chain(candidate).balances[a]
<1> DEFINE M == Len(c)
           N == Len(candidate)
           kept == below(d, k)
           removed == SubSeq(load_chain(d), Cardinality(kept.blocks) + 1, Cardinality(d.blocks))
           new == SubSeq(candidate, k + 1, N)
           old == SubSeq(c, k + 1, M)
           y == TakenBack(removed)
           x == Taken(new)
           changes == FlattenSeq(y) \o FlattenSeq(x)
<1>1. IsSequence(c) /\ Indexed(c) /\ IsSequence(candidate) /\ M \in Nat /\ N \in Nat
  BY SequenceFacts DEF Good
<1>2. k \in Nat /\ k <= M /\ k <= N /\ \A i \in 1..k : c[i] = candidate[i]
  BY ForkShares
<1>3. removed = old
  <2>1. load_chain(d) = c
    BY <1>1, LoadsChain
  <2>2. Cardinality(d.blocks) = M
    BY <1>1, CountBlocks
  <2>3. kept.blocks = {b \in Range(c) : b.index < k}
    BY DEF below
  <2>4. k \in 0..M
    BY <1>1, <1>2
  <2>5. Cardinality({b \in Range(c) : b.index < k}) = k
    BY <1>1, <2>4, LowBlocks
  <2> QED BY <2>1, <2>2, <2>3, <2>5
<1>4. c \in Seq(Range(c)) /\ candidate \in Seq(Range(candidate))
  BY <1>1, SequenceFacts
<1>5. IsSequence(old) /\ Len(old) = M - k /\ \A i \in 1..Len(old) : old[i] = c[k + i]
  <2>1. old \in Seq(Range(c)) /\ Len(old) = M - k /\ \A i \in 1..(M - k) : old[i] = c[k + i]
    BY <1>2, <1>4, SuffixIs
  <2> HIDE DEF old, M
  <2> QED BY <2>1 DEF IsSequence
<1>6. IsSequence(new) /\ Len(new) = N - k /\ \A i \in 1..Len(new) : new[i] = candidate[k + i]
  <2>1. new \in Seq(Range(candidate)) /\ Len(new) = N - k /\ \A i \in 1..(N - k) : new[i] = candidate[k + i]
    BY <1>2, <1>4, SuffixIs
  <2> HIDE DEF new, N
  <2> QED BY <2>1 DEF IsSequence
<1>7. PICK f : Booked(f, c)
  BY ChainBooks
<1>8. PICK g : Booked(g, candidate)
  BY ChainBooks
<1>9. f[k] = g[k]
  BY <1>1, <1>2, <1>7, <1>8, SameReplay
<1>10. reorganize_from(d, k, new).wallets = apply_deltas(d.wallets, changes)
  <2>1. insert(kept, Range(new)) = [blocks |-> kept.blocks \cup Range(new), wallets |-> d.wallets,
                                   transactions |-> kept.transactions \cup UNION {rows(b) : b \in Range(new)}]
    BY DEF insert, below
  <2>2. reorganize_from(d, k, new) = [insert(kept, Range(new)) EXCEPT !.wallets = apply_deltas(@, changes)]
    BY DEF reorganize_from, Taken, TakenBack
  <2> HIDE DEF kept, changes, new
  <2> QED BY <2>1, <2>2
<1> HIDE DEF M, N, kept, removed, new, old
<1>11. FlattenSeq(y) \in Seq(Delta) /\ delta_total(FlattenSeq(y), a) = f[k].balances[a] - f[M].balances[a]
  <2>1. y = TakenBack(old)
    BY <1>3
  <2> HIDE DEF y
  <2>2. k \in Nat /\ k <= Len(c) /\ Len(old) = Len(c) - k
    BY <1>2, <1>5 DEF M
  <2>3. /\ FlattenSeq(y) \in Seq(Delta)
        /\ delta_total(FlattenSeq(y), a) = f[k].balances[a] - f[Len(c)].balances[a]
    <3>1. Good(c) /\ PayingChain(c) /\ a \in Addr
      OBVIOUS
    <3> QED BY ONLY <1>5, <1>7, <2>1, <2>2, <3>1, BranchDeltas
  <2> QED BY <2>3 DEF M
<1>12. FlattenSeq(x) \in Seq(Delta) /\ delta_total(FlattenSeq(x), a) = g[N].balances[a] - g[k].balances[a]
  <2>1. k \in Nat /\ k <= Len(candidate) /\ Len(new) = Len(candidate) - k
    BY <1>2, <1>6 DEF N
  <2>2. /\ FlattenSeq(x) \in Seq(Delta)
        /\ delta_total(FlattenSeq(x), a) = g[Len(candidate)].balances[a] - g[k].balances[a]
    <3>1. Good(candidate) /\ PayingChain(candidate) /\ a \in Addr
      OBVIOUS
    <3> QED BY ONLY <1>6, <1>8, <2>1, <3>1, BranchDeltas
  <2> QED BY <2>2 DEF N
<1>13. /\ f[M].balances[a] = _state_from_chain(c).balances[a] /\ f[M].balances[a] \in Int
       /\ g[N].balances[a] = _state_from_chain(candidate).balances[a] /\ g[N].balances[a] \in Int
       /\ f[k].balances[a] \in Int
  <2>1. M \in 0..Len(c) /\ N \in 0..Len(candidate) /\ k \in 0..Len(c) /\ a \in Accounts
    BY <1>1, <1>2, AddrIsAccount DEF M, N
  <2>2. f[M].balances \in [Accounts -> Nat] /\ g[N].balances \in [Accounts -> Nat] /\ f[k].balances \in [Accounts -> Nat]
    BY <1>7, <1>8, <2>1 DEF Booked
  <2>3. _state_from_chain(c) = f[M] /\ _state_from_chain(candidate) = g[N]
    BY <1>7, <1>8 DEF Booked, M, N
  <2> QED BY <2>1, <2>2, <2>3
<1> HIDE DEF x, y
<1>14. changes \in Seq(Delta) /\ delta_total(changes, a) = delta_total(FlattenSeq(y), a) + delta_total(FlattenSeq(x), a)
  BY <1>11, <1>12, TotalOfConcat
<1> HIDE DEF changes
<1>15. cached(apply_deltas(d.wallets, changes), a) = cached(d.wallets, a) + delta_total(changes, a)
  BY <1>13, <1>14, CachedAfter
<1> QED BY <1>9, <1>10, <1>11, <1>12, <1>13, <1>14, <1>15 DEF new, N

-----------------------------------------------------------------------------
(* The order of the pool: get_pending is defined, because a finite set of  *)
(* entries with integer timestamps can be put in their order.              *)

IsPool(T) == IsFiniteSet(T) /\ \A tx \in T : tx.amount \in Int /\ tx.timestamp \in Int

Latest(m, T) == m \in T /\ \A y \in T : y.timestamp <= m.timestamp

LEMMA LatestExists ==
    ASSUME NEW pool, IsPool(pool), pool # {}
    PROVE  \E m : Latest(m, pool)
<1> DEFINE f == [tx \in pool |-> tx.timestamp]
<1>1. IsFiniteSet(pool) /\ \A tx \in pool : f[tx] = tx.timestamp /\ f[tx] \in Int
  BY DEF IsPool
<1> HIDE DEF f
<1>2. PICK m \in pool : \A y \in pool : f[y] <= f[m]
  BY <1>1, GreatestOfFinite
<1> QED BY <1>1, <1>2 DEF Latest

InOrder(s) == \A i, j \in DOMAIN s : i < j => s[i].timestamp <= s[j].timestamp

LEMMA OrderExists ==
    ASSUME NEW pool, IsPool(pool)
    PROVE  \E s \in SetToSeqs(pool) : InOrder(s)
<1> DEFINE Ordered(T) == \E s \in SetToSeqs(T) : InOrder(s)
           S == {n \in Nat : \A T \in SUBSET pool : Cardinality(T) = n => Ordered(T)}
<1>0. \A T \in SUBSET pool : IsFiniteSet(T) /\ Cardinality(T) \in Nat /\ IsPool(T)
  BY FS_Subset, FS_CardinalityType DEF IsPool
<1>1. 0 \in S
  <2>1. Ordered({})
    <3> DEFINE s == [i \in 1..0 |-> i]
    <3>1. s \in [1..0 -> {}] /\ Cardinality({}) = 0 /\ DOMAIN s = 1..0
      BY FS_EmptySet
    <3>2. \A i \in 1..0 : FALSE
      OBVIOUS
    <3> HIDE DEF s
    <3>3. s \in SetToSeqs({}) /\ InOrder(s)
      BY <3>1, <3>2 DEF SetToSeqs, InOrder
    <3> QED BY <3>3
  <2> HIDE DEF Ordered
  <2> QED BY <1>0, <2>1, FS_EmptySet
<1>2. ASSUME NEW n \in S PROVE n + 1 \in S
  <2>0. n \in Nat /\ \A T \in SUBSET pool : Cardinality(T) = n => Ordered(T)
    OBVIOUS
  <2> HIDE DEF S
  <2>1. ASSUME NEW T \in SUBSET pool, Cardinality(T) = n + 1 PROVE Ordered(T)
    <3>1. T # {} /\ IsPool(T) /\ IsFiniteSet(T)
      BY <1>0, <2>0, <2>1, FS_EmptySet
    <3>2. PICK m : Latest(m, T)
      BY <3>1, LatestExists
    <3> DEFINE R == T \ {m}
               q == n + 1
    <3>3. R \in SUBSET pool /\ Cardinality(R) = n /\ m \in T
      <4>1. m \in T
        BY <3>2 DEF Latest
      <4>2. Cardinality(R) = Cardinality(T) - 1
        BY <3>1, <4>1, FS_RemoveElement
      <4> QED BY <2>0, <2>1, <4>1, <4>2
    <3>4. PICK s \in SetToSeqs(R) : InOrder(s)
      BY <2>0, <3>3
    <3>5. /\ s \in [1..n -> R] /\ (\A i, j \in 1..n : i # j => s[i] # s[j])
          /\ \A i, j \in 1..n : i < j => s[i].timestamp <= s[j].timestamp
      BY <3>3, <3>4 DEF SetToSeqs, InOrder
    <3> DEFINE t == [i \in 1..q |-> IF i = q THEN m ELSE s[i]]
    <3>6. \A i \in 1..q : i = q \/ (i \in 1..n /\ i < q)
      BY <2>0
    <3>7. \A i \in 1..n : i \in 1..q /\ i # q /\ s[i] \in T /\ s[i] # m /\ s[i].timestamp <= m.timestamp
      BY <2>0, <3>2, <3>5 DEF Latest
    <3>e. q \in 1..q /\ DOMAIN t = 1..q /\ q \in Nat
      BY <2>0
    <3> HIDE DEF q
    <3>8. t \in [1..q -> T] /\ t[q] = m /\ \A i \in 1..n : t[i] = s[i]
      BY <3>3, <3>6, <3>7, <3>e
    <3> HIDE DEF t
    <3>9. ASSUME NEW i \in 1..q, NEW j \in 1..q, i # j PROVE t[i] # t[j]
      BY <3>5, <3>6, <3>7, <3>8, <3>9
    <3>10. ASSUME NEW i \in 1..q, NEW j \in 1..q, i < j PROVE t[i].timestamp <= t[j].timestamp
      <4>1. i # q
        BY <3>e, <3>10
      <4>2. i \in 1..n /\ t[i] = s[i]
        BY <3>6, <3>8, <4>1
      <4>3. CASE j = q
        BY <3>7, <3>8, <4>2, <4>3
      <4>4. CASE j # q
        BY <3>5, <3>6, <3>8, <3>10, <4>2, <4>4
      <4> QED BY <4>3, <4>4
    <3>11. t \in SetToSeqs(T)
      BY <2>1, <3>8, <3>9 DEF SetToSeqs, q
    <3>12. InOrder(t)
      BY <3>10, <3>e DEF InOrder
    <3> QED BY <3>11, <3>12
  <2> HIDE DEF Ordered
  <2>2. n + 1 \in Nat
    BY <2>0
  <2> QED BY <2>1, <2>2 DEF S
<1>3. S = Nat
  <2>1. S \in SUBSET Nat
    OBVIOUS
  <2> HIDE DEF S
  <2> QED BY <1>1, <1>2, <2>1, NatSetInduction
<1>4. Cardinality(pool) \in S /\ pool \in SUBSET pool
  BY <1>0, <1>3
<1> QED BY <1>4

LEMMA PendingIs ==
    ASSUME NEW pool, IsPool(pool), NEW s, s = get_pending(pool)
    PROVE  s \in Seq(pool) /\ Len(s) \in Nat /\ \A i, j \in 1..Len(s) : i # j => s[i] # s[j]
<1> DEFINE C(x) == \A i, j \in DOMAIN x : i < j => x[i].timestamp <= x[j].timestamp
<1>1. \E x \in SetToSeqs(pool) : C(x)
  BY OrderExists DEF InOrder
<1>2. s = CHOOSE x \in SetToSeqs(pool) : C(x)
  BY DEF get_pending
<1> HIDE DEF C
<1>3. s \in SetToSeqs(pool)
  BY <1>1, <1>2
<1> DEFINE N == Cardinality(pool)
<1>4. N \in Nat
  BY FS_CardinalityType DEF IsPool
<1>5. s \in [1..N -> pool] /\ \A i, j \in 1..N : i # j => s[i] # s[j]
  BY <1>3 DEF SetToSeqs
<1> HIDE DEF N
<1>6. s \in Seq(pool) /\ Len(s) = N
  BY ONLY <1>4, <1>5
<1> QED BY ONLY <1>4, <1>5, <1>6

-----------------------------------------------------------------------------
(* The balance that a replay gives. *)

Balance(c, a) == _state_from_chain(c).balances[a]

LEMMA EmptyBalance == \A a \in Addr : Balance(<<>>, a) = 0
<1> SUFFICES ASSUME NEW a \in Addr PROVE Balance(<<>>, a) = 0
  OBVIOUS
<1>1. Len(<<>>) = 0 /\ 0 \in Nat
  OBVIOUS
<1>2. PICK f : _state_from_chain(<<>>) = f[Len(<<>>)] /\ f[0] = EmptyState
  BY <1>1, ReplayIs
<1>3. EmptyState.balances[a] = 0
  BY AddrIsAccount DEF EmptyState
<1> QED BY <1>1, <1>2, <1>3 DEF Balance

LEMMA ReplayFacts ==
    ASSUME IsFiniteSet(Addr), NEW c, Good(c), PayingChain(c), NEW s, s = _state_from_chain(c)
    PROVE  /\ s.ok /\ s.balances \in [Accounts -> Nat] /\ s.supply \in Nat
           /\ due_reward(s.supply) \in Nat
           /\ \A a \in Addr : Balance(c, a) \in Nat
<1> DEFINE N == Len(c)
           k == N - 1
<1>1. PICK f : Booked(f, c)
  BY ChainBooks
<1>2. N \in Nat /\ N > 0
  BY SequenceFacts DEF Good
<1>3. N \in 1..N /\ N \in 0..N /\ k \in Nat
  BY <1>2
<1>4. s = f[N] /\ f[N].ok /\ f[N].balances \in [Accounts -> Nat] /\ Settled(f[N], Issued(k))
  BY <1>1, <1>3 DEF Booked
<1>5. Issued(k) \in Nat /\ due_reward(Issued(k)) \in Nat
  BY <1>3, IssuedNext
<1>6. s.supply = Issued(k)
  BY <1>4 DEF Settled
<1>7. \A a \in Addr : s.balances[a] \in Nat
  BY <1>4, AddrIsAccount
<1> QED BY <1>4, <1>5, <1>6, <1>7 DEF Balance

(* What validation says of a block. *)
LEMMA Validated ==
    ASSUME IsFiniteSet(Addr), NEW c, Good(c), PayingChain(c), NEW b, validate_block_against_chain(b, c)
    PROVE  /\ b.index # 0 /\ Cardinality(coinbases(b)) = 1 /\ the_coinbase(b).amount \in Int
           /\ \A i \in DOMAIN b.transactions : validate_transaction(b.transactions[i])
<1> DEFINE due == due_reward(_state_from_chain(c).supply)
<1>1. due \in Nat
  BY ReplayFacts
<1>2. validate_block_structure(b, {due})
  BY DEF validate_block_against_chain
<1>3. b.index # 0
  <2>1. Good(Append(c, b)) /\ IsSequence(c)
    BY GoodAppend DEF Good
  <2>2. Len(c) \in Nat /\ Len(c) > 0
    BY SequenceFacts DEF Good
  <2>3. Len(Append(c, b)) = Len(c) + 1 /\ Append(c, b)[Len(c) + 1] = b
    BY <2>1, PrefixOfAppend
  <2>4. Len(c) + 1 \in 1..Len(Append(c, b))
    BY <2>2, <2>3
  <2>5. Append(c, b)[Len(c) + 1].index = (Len(c) + 1) - 1
    BY <2>1, <2>4 DEF Good, Indexed
  <2> QED BY <2>2, <2>3, <2>5
<1> HIDE DEF due
<1>4. /\ Cardinality(coinbases(b)) = 1 /\ the_coinbase(b).amount = due
      /\ \A i \in DOMAIN b.transactions : validate_transaction(b.transactions[i])
  BY <1>2, <1>3 DEF validate_block_structure
<1> QED BY <1>1, <1>3, <1>4

LEMMA OneCoinbase ==
    ASSUME NEW b, IsSequence(b.transactions), Cardinality(coinbases(b)) = 1
    PROVE  /\ Len(b.transactions) > 0
           /\ \A i \in 1..Len(b.transactions) :
                  is_coinbase(b.transactions[i]) => b.transactions[i] = the_coinbase(b)
<1> DEFINE txs == b.transactions
           N == Len(txs)
<1>1. N \in Nat /\ DOMAIN txs = 1..N
  BY SequenceFacts
<1>2. IsFiniteSet(coinbases(b))
  <2>1. coinbases(b) \in SUBSET (1..N) /\ IsFiniteSet(1..N)
    BY <1>1, FS_Interval DEF coinbases
  <2> QED BY <2>1, FS_Subset
<1>3. PICK x : coinbases(b) = {x}
  BY <1>2, FS_Singleton
<1>4. x \in 1..N /\ the_coinbase(b) = txs[x]
  BY <1>1, <1>3 DEF coinbases, the_coinbase
<1>5. \A i \in 1..N : is_coinbase(txs[i]) => i = x
  BY <1>1, <1>3 DEF coinbases
<1> QED BY <1>1, <1>4, <1>5

LEMMA BalanceNext ==
    ASSUME IsFiniteSet(Addr), NEW c, Good(c), PayingChain(c), NEW b, validate_block_against_chain(b, c), HasPayments(b)
    PROVE  /\ Paying(b) /\ PayingChain(Append(c, b)) /\ Len(b.transactions) > 0
           /\ \A a \in Addr : Total(b, a) \in Int /\ Balance(Append(c, b), a) = Balance(c, a) + Total(b, a)
<1> DEFINE s == _state_from_chain(c)
<1>1. /\ b.index # 0 /\ Cardinality(coinbases(b)) = 1
      /\ \A i \in DOMAIN b.transactions : validate_transaction(b.transactions[i])
  BY Validated
<1>2. Paying(b)
  BY <1>1, ValidPays
<1>3. Len(b.transactions) > 0
  BY <1>1, OneCoinbase DEF HasPayments
<1>4. /\ IsSequence(c) /\ Len(c) \in Nat /\ Len(Append(c, b)) = Len(c) + 1 /\ Append(c, b)[Len(c) + 1] = b
      /\ \A i \in 1..Len(c) : Append(c, b)[i] = c[i]
  BY SequenceFacts, PrefixOfAppend DEF Good
<1>5. PayingChain(Append(c, b))
  <2> DEFINE e == Append(c, b)
             N == Len(c)
  <2>1. ASSUME NEW i \in 1..(N + 1) PROVE HasPayments(e[i]) /\ Paying(e[i])
    <3>1. i = N + 1 \/ i \in 1..N
      BY <1>4
    <3> QED BY <1>2, <1>4, <3>1 DEF PayingChain
  <2> QED BY <1>4, <2>1 DEF PayingChain
<1>6. s.ok /\ s.balances \in [Accounts -> Int] /\ _state_from_chain(Append(c, b)).ok
  <2>1. s.ok /\ s.balances \in [Accounts -> Nat]
    BY ReplayFacts
  <2>2. _state_from_chain(Append(c, b)).ok
    BY DEF validate_block_against_chain
  <2> QED BY <2>1, <2>2
<1>7. _state_from_chain(Append(c, b)) = replay_block(s, b)
  BY <1>4, ReplayOfAppend
<1> HIDE DEF s
<1>8. ASSUME NEW a \in Addr
      PROVE  Total(b, a) \in Int /\ replay_block(s, b).balances[a] = s.balances[a] + Total(b, a)
  <2>1. Total(b, a) \in Int
    BY <1>2, BlockTotal
  <2>2. replay_block(s, b).balances[a] = s.balances[a] + Upto(b, a, Len(b.transactions))
    BY <1>1, <1>2, <1>6, <1>7, ReplayAdds
  <2> QED BY <2>1, <2>2 DEF Total
<1> QED BY <1>2, <1>3, <1>5, <1>7, <1>8 DEF Balance, s

(* The miner's block: a reward, then entries of the pool. *)
Assembled(b) ==
    /\ IsSequence(b.transactions) /\ Len(b.transactions) > 0
    /\ is_coinbase(b.transactions[1])
    /\ \A i \in 2..Len(b.transactions) : b.transactions[i].amount \in Int

LEMMA MinedPays ==
    ASSUME IsFiniteSet(Addr), NEW c, Good(c), PayingChain(c), NEW b, validate_block_against_chain(b, c), Assembled(b)
    PROVE  HasPayments(b)
<1> DEFINE txs == b.transactions
           N == Len(txs)
<1>1. IsSequence(txs) /\ N \in Nat /\ N > 0
  BY SequenceFacts DEF Assembled
<1>2. Cardinality(coinbases(b)) = 1 /\ the_coinbase(b).amount \in Int
  BY Validated
<1>3. ASSUME NEW i \in 1..N PROVE txs[i].amount \in Int
  <2>1. CASE i = 1
    <3>1. 1 \in 1..N
      BY <1>1
    <3>2. txs[1] = the_coinbase(b)
      BY <1>1, <1>2, <3>1, OneCoinbase DEF Assembled
    <3> QED BY <1>2, <2>1, <3>2
  <2>2. CASE i # 1
    <3>1. i \in 2..N
      BY <1>1, <2>2
    <3> QED BY <3>1 DEF Assembled
  <2> QED BY <2>1, <2>2
<1> QED BY <1>1, <1>3 DEF HasPayments

MadeOf(b, reward, pool) ==
    /\ b.transactions[1] = reward
    /\ \A i \in 2..Len(b.transactions) : b.transactions[i] \in pool
    /\ \A i, j \in 2..Len(b.transactions) : i # j => b.transactions[i] # b.transactions[j]

LEMMA MinedIs ==
    ASSUME NEW index, NEW previous_hash, NEW pool, IsPool(pool), NEW miner, NEW difficulty, NEW reward, NEW timestamp,
           NEW b, b = mine_block(index, previous_hash, get_pending(pool), miner, difficulty, reward, timestamp)
    PROVE  /\ Assembled(b)
           /\ MadeOf(b, Transaction(COINBASE_SENDER, miner, reward, timestamp, "none"), pool)
<1> DEFINE tx == Transaction(COINBASE_SENDER, miner, reward, timestamp, "none")
           s == get_pending(pool)
           h == <<tx>>
           V == pool \cup {tx}
           txs == h \o s
<1>1. b.transactions = txs
  BY DEF mine_block, mine
<1>2. is_coinbase(tx)
  BY DEF is_coinbase, Transaction
<1>3. s \in Seq(pool) /\ Len(s) \in Nat /\ \A i, j \in 1..Len(s) : i # j => s[i] # s[j]
  BY PendingIs
<1> HIDE DEF s
<1>4. h \in Seq(V) /\ Len(h) = 1 /\ h[1] = tx
  OBVIOUS
<1>5. s \in Seq(V)
  BY <1>3
<1> HIDE DEF h, tx, V
<1>6. /\ txs \in Seq(V) /\ Len(txs) = Len(h) + Len(s)
      /\ (\A j \in 1..Len(h) : txs[j] = h[j]) /\ \A k \in 1..Len(s) : txs[Len(h) + k] = s[k]
  <2>1. ASSUME NEW x \in Seq(V), NEW y \in Seq(V)
        PROVE  /\ x \o y \in Seq(V) /\ Len(x \o y) = Len(x) + Len(y)
               /\ (\A j \in 1..Len(x) : (x \o y)[j] = x[j]) /\ \A k \in 1..Len(y) : (x \o y)[Len(x) + k] = y[k]
    BY ONLY <2>1, Concatenated
  <2>2. h \in Seq(V) /\ s \in Seq(V)
    BY <1>4, <1>5
  <2> QED BY ONLY <2>1, <2>2
<1> HIDE DEF txs
<1>7. IsSequence(txs) /\ Len(txs) > 0 /\ txs[1] = tx
  BY <1>3, <1>4, <1>6 DEF IsSequence
<1>8. ASSUME NEW i \in 2..Len(txs) PROVE i - 1 \in 1..Len(s) /\ txs[i] = s[i - 1] /\ txs[i] \in pool
  <2> DEFINE k == i - 1
  <2>1. k \in 1..Len(s) /\ 1 + k = i
    BY <1>3, <1>4, <1>6
  <2>2. txs[1 + k] = s[k] /\ s[k] \in pool
    BY <1>3, <1>4, <1>6, <2>1
  <2> QED BY <2>1, <2>2
<1>9. \A t \in pool : t.amount \in Int
  BY DEF IsPool
<1>10. ASSUME NEW i \in 2..Len(txs), NEW j \in 2..Len(txs), i # j PROVE txs[i] # txs[j]
  <2>1. i - 1 \in 1..Len(s) /\ j - 1 \in 1..Len(s) /\ i - 1 # j - 1
    BY <1>8, <1>10
  <2>2. s[i - 1] # s[j - 1]
    BY <1>3, <2>1
  <2> QED BY <1>8, <2>2
<1> QED BY <1>1, <1>2, <1>7, <1>8, <1>9, <1>10 DEF Assembled, MadeOf, tx

LEMMA MineAssembles ==
    ASSUME NEW index, NEW previous_hash, NEW pool, IsPool(pool), NEW miner, NEW difficulty, NEW reward, NEW timestamp,
           NEW b, b = mine_block(index, previous_hash, get_pending(pool), miner, difficulty, reward, timestamp)
    PROVE  Assembled(b) /\ \A i \in 2..Len(b.transactions) : b.transactions[i] \in pool
  BY MinedIs DEF MadeOf

-----------------------------------------------------------------------------
(* The invariant of the books, for the stored chain c. *)

BookMaps == IsMap(mempool) /\ IsMap(mined) /\ IsMap(deltas) /\ torn \in BOOLEAN

Books(c, p) ==
    /\ PayingChain(c) /\ Distinct(c)
    /\ IsPool(mempool[p])
    /\ mined[p] = <<>> \/ \E b : mined[p] = <<b>> /\ Assembled(b)
    /\ pc[p] = "save" => HasPayments(adding[p][1])
    /\ IF pc[p] = "update" THEN deltas[p] \in Seq(Delta) /\ deltas[p] # <<>> ELSE deltas[p] = <<>>
    /\ torn \/ \A a \in Addr : /\ cached(db.wallets, a) \in Int
                               /\ Balance(c, a) = cached(db.wallets, a) + delta_total(deltas[p], a)

(* What peers and clients send decodes to lists of transactions with       *)
(* integer amounts and timestamps.                                         *)
PeersSendPayments ==
    \A c : IsSequence(c) => /\ \A b \in PeerBlocks(c) : HasPayments(b)
                            /\ \A candidate \in PeerChains(c) : \A i \in 1..Len(candidate) : HasPayments(candidate[i])

ClientsSendPayments == \A tx \in Submissions : tx.amount \in Int /\ tx.timestamp \in Int

(* The chain stored after a step is known by its blocks. *)
LEMMA StoredIs ==
    ASSUME NEW c, c = <<>> \/ Good(c), NEW e, e = <<>> \/ Good(e), NEW d, d.blocks = Range(c), d.blocks = Range(e)
    PROVE  c = e
<1>1. load_chain(d) = c /\ load_chain(d) = e
  BY StoredLoads
<1> QED BY <1>1

LEMMA SameBooks ==
    ASSUME NEW p \in Procs, NEW c, Stored(c, p), NEW new, Stored(new, p)', db'.blocks = db.blocks
    PROVE  new = c
<1>1. (c = <<>> \/ Good(c)) /\ db.blocks = Range(c) /\ (new = <<>> \/ Good(new)) /\ db'.blocks = Range(new)
  BY DEF Stored
<1>2. db.blocks = Range(new)
  BY <1>1
<1> QED BY <1>1, <1>2, StoredIs

LEMMA BooksOpen ==
    ASSUME NEW p \in Procs, Maps, BookMaps, NEW c, Stored(c, p), Books(c, p), Open(p), NEW new, Stored(new, p)'
    PROVE  BookMaps' /\ Books(new, p)'
<1>1. pc[p] = "down" /\ UNCHANGED <<db, mempool, mined, adding, deltas, torn>>
  BY DEF Open
<1>2. pc'[p] \in {"idle", "genesis"}
  BY ExceptMap DEF Open, Maps
<1>3. new = c
  BY <1>1, SameBooks
<1>4. BookMaps'
  BY <1>1 DEF BookMaps
<1>5. Books(c, p)'
  BY <1>1, <1>2 DEF Books
<1> QED BY <1>3, <1>4, <1>5

LEMMA BooksGenesis ==
    ASSUME IsFiniteSet(Addr), NEW p \in Procs, Maps, BookMaps, OneInv(p), NEW c, Stored(c, p), Books(c, p),
           _create_and_persist_genesis_block(p), NEW new, Stored(new, p)'
    PROVE  BookMaps' /\ Books(new, p)'
<1>1. pc[p] = "genesis" /\ c = <<>> /\ UNCHANGED <<mempool, mined, adding, deltas, torn>>
  BY DEF _create_and_persist_genesis_block, Stored
<1>2. BookMaps'
  BY <1>1 DEF BookMaps
<1>3. deltas[p] = <<>> /\ \A a \in Addr : delta_total(<<>>, a) = 0
  BY <1>1, TotalOfFew DEF Books
<1>4. CASE /\ db' = [save_block(db, genesis)
                        EXCEPT !.wallets = apply_deltas(@, deltas_for_block(genesis))]
           /\ pc' = [pc EXCEPT ![p] = "idle"]
  <2> DEFINE e == <<genesis>>
             ds == deltas_for_block(genesis)
  <2>1. db'.blocks = db.blocks \cup {genesis} /\ db'.wallets = apply_deltas(db.wallets, ds)
    BY <1>4 DEF save_block, insert
  <2>2. db'.blocks = Range(e)
    <3>1. db.blocks = {}
      BY <1>1, EmptyFacts DEF Stored
    <3> QED BY <2>1, <3>1 DEF Range
  <2>3. Good(e)
    BY GoodGenesis
  <2>4. new = e
    <3>1. (new = <<>> \/ Good(new)) /\ db'.blocks = Range(new)
      BY DEF Stored
    <3> HIDE DEF e
    <3> QED BY <2>2, <2>3, <3>1, StoredIs
  <2>5. pc'[p] = "idle"
    BY <1>4, ExceptMap DEF Maps
  <2>6. Len(e) = 1 /\ e[1] = genesis
    OBVIOUS
  <2>7. HasPayments(genesis) /\ Paying(genesis) /\ IsInjective(genesis.transactions)
    <3>1. Paying(genesis) /\ IsInjective(genesis.transactions)
      BY GenesisPays
    <3> QED BY <3>1 DEF Paying, IsPayment, HasPayments
  <2> HIDE DEF e
  <2>8. PayingChain(e) /\ Distinct(e)
    <3>1. \A i \in 1..Len(e) : e[i] = genesis
      BY <2>6
    <3> QED BY <2>7, <3>1 DEF PayingChain, Distinct
  <2>9. ASSUME NEW a \in Addr, cached(db.wallets, a) \in Int, Balance(c, a) = cached(db.wallets, a) + delta_total(deltas[p], a)
        PROVE  cached(db'.wallets, a) = 0 /\ Balance(e, a) = 0
    <3>1. cached(db.wallets, a) = 0
      <4>1. Balance(c, a) = 0
        BY <1>1, EmptyBalance
      <4> QED BY <1>3, <2>9, <4>1
    <3>2. ds \in Seq(Delta) /\ delta_total(ds, a) = 0
      BY <2>7, GenesisPays, BlockDeltas
    <3>3. cached(apply_deltas(db.wallets, ds), a) = 0
      <4> HIDE DEF ds
      <4>1. cached(apply_deltas(db.wallets, ds), a) = cached(db.wallets, a) + delta_total(ds, a)
        BY <2>9, <3>2, CachedAfter
      <4> QED BY <3>1, <3>2, <4>1
    <3>4. Balance(e, a) = 0
      <4>1. PICK f : Booked(f, e)
        BY <2>3, <2>8, ChainBooks
      <4>2. _state_from_chain(e) = f[1] /\ f[0] = EmptyState
        BY <2>6, <4>1 DEF Booked
      <4>3. 1 \in 1..Len(e) /\ 1 - 1 = 0
        BY <2>6
      <4>4. f[1].balances[a] = f[1 - 1].balances[a] + Total(e[1], a)
        BY <4>1, <4>3 DEF Booked
      <4>5. Total(genesis, a) = 0 /\ EmptyState.balances[a] = 0
        BY GenesisPays, AddrIsAccount DEF Total, EmptyState
      <4>6. f[1].balances[a] = 0
        BY <2>6, <4>2, <4>3, <4>4, <4>5
      <4> QED BY <4>2, <4>6 DEF Balance
    <3> QED BY <2>1, <3>3, <3>4
  <2>10. torn \/ \A a \in Addr : /\ cached(db'.wallets, a) \in Int
                                 /\ Balance(e, a) = cached(db'.wallets, a) + delta_total(deltas[p], a)
    <3>1. ASSUME ~torn, NEW a \in Addr
          PROVE  cached(db'.wallets, a) \in Int /\ Balance(e, a) = cached(db'.wallets, a) + delta_total(deltas[p], a)
      <4>1. cached(db.wallets, a) \in Int /\ Balance(c, a) = cached(db.wallets, a) + delta_total(deltas[p], a)
        BY <3>1 DEF Books
      <4>2. cached(db'.wallets, a) = 0 /\ Balance(e, a) = 0
        BY <2>9, <4>1
      <4> QED BY <1>3, <4>2
    <3> QED BY <3>1
  <2>11. Books(e, p)'
    BY <1>1, <2>5, <2>8, <2>10 DEF Books
  <2> QED BY <1>2, <2>4, <2>11
<1>5. CASE pc' = [pc EXCEPT ![p] = "down"] /\ UNCHANGED db
  <2>1. pc'[p] = "down"
    BY <1>5, ExceptMap DEF Maps
  <2>2. new = c
    BY <1>5, SameBooks
  <2>3. Books(c, p)'
    BY <1>1, <1>5, <2>1 DEF Books
  <2> QED BY <1>2, <2>2, <2>3
<1> QED BY <1>4, <1>5 DEF _create_and_persist_genesis_block

LEMMA PoolGrows == ASSUME NEW T, IsPool(T), NEW tx, tx.amount \in Int, tx.timestamp \in Int PROVE IsPool(T \cup {tx})
  BY FS_AddElement DEF IsPool

LEMMA PoolShrinks == ASSUME NEW T, IsPool(T), NEW R PROVE IsPool(T \ R)
<1>1. T \ R \in SUBSET T
  OBVIOUS
<1> QED BY <1>1, FS_Subset DEF IsPool

LEMMA BooksSubmit ==
    ASSUME NEW p \in Procs, BookMaps, NEW c, Stored(c, p), Books(c, p), ClientsSendPayments,
           NEW tx \in Submissions, submit_transaction(p, tx), NEW new, Stored(new, p)'
    PROVE  BookMaps' /\ Books(new, p)'
<1>1. /\ UNCHANGED <<db, pc, mined, adding, deltas, torn>>
      /\ mempool' = [mempool EXCEPT ![p] = @ \cup {tx}]
  BY DEF submit_transaction, add_transaction
<1>2. IsMap(mempool)' /\ mempool'[p] = mempool[p] \cup {tx}
  BY <1>1, ExceptMap DEF BookMaps
<1>3. new = c
  BY <1>1, SameBooks
<1>4. BookMaps'
  BY <1>1, <1>2 DEF BookMaps
<1>5. IsPool(mempool'[p])
  BY <1>2, PoolGrows DEF Books, ClientsSendPayments
<1>6. Books(c, p)'
  BY <1>1, <1>5 DEF Books
<1> QED BY <1>3, <1>4, <1>6

LEMMA BooksMining ==
    ASSUME NEW p \in Procs, BookMaps, NEW c, Stored(c, p), Books(c, p), NEW miner,
           start_mining(p, miner), NEW new, Stored(new, p)'
    PROVE  /\ BookMaps' /\ Books(new, p)' /\ new = c
           /\ \E b : mined'[p] = <<b>> /\ \A i \in 2..Len(b.transactions) : b.transactions[i] \in mempool[p]
<1>1. PICK b : /\ \E index, previous_hash, difficulty, reward, timestamp :
                      b = mine_block(index, previous_hash, get_pending(mempool[p]), miner, difficulty, reward, timestamp)
               /\ mined' = [mined EXCEPT ![p] = <<b>>]
  BY DEF start_mining
<1>2. UNCHANGED <<db, pc, mempool, adding, deltas, torn>>
  BY DEF start_mining
<1>3. IsMap(mined)' /\ mined'[p] = <<b>>
  BY <1>1, ExceptMap DEF BookMaps
<1>4. IsPool(mempool[p])
  BY DEF Books
<1>5. Assembled(b) /\ \A i \in 2..Len(b.transactions) : b.transactions[i] \in mempool[p]
  BY <1>1, <1>4, MineAssembles
<1>6. new = c
  BY <1>2, SameBooks
<1>7. BookMaps'
  BY <1>2, <1>3 DEF BookMaps
<1>8. Books(c, p)'
  BY <1>2, <1>3, <1>5 DEF Books
<1> QED BY <1>3, <1>5, <1>6, <1>7, <1>8

LEMMA BooksAppend ==
    ASSUME NEW p \in Procs, Maps, BookMaps, NEW c, Stored(c, p), Books(c, p), pc[p] = "idle",
           NEW b, HasPayments(b), begin_append(p, b), UNCHANGED <<db, mempool, deltas, torn>>,
           IsMap(mined'), mined'[p] = <<>> \/ mined'[p] = mined[p], NEW new, Stored(new, p)'
    PROVE  BookMaps' /\ Books(new, p)'
<1>1. pc'[p] = "save" /\ adding'[p] = <<b>>
  BY ExceptMap DEF Maps, begin_append
<1>2. new = c
  BY SameBooks
<1>3. BookMaps'
  BY DEF BookMaps
<1>4. HasPayments(adding'[p][1])
  BY <1>1
<1>5. Books(c, p)'
  BY <1>1, <1>4 DEF Books
<1> QED BY <1>2, <1>3, <1>5

LEMMA BooksCommit ==
    ASSUME IsFiniteSet(Addr), NEW p \in Procs, Maps, BookMaps, NEW c, Stored(c, p), Books(c, p),
           commit_mined(p), NEW new, Stored(new, p)'
    PROVE  BookMaps' /\ Books(new, p)'
<1>1. /\ pc[p] = "idle" /\ mined[p] # <<>> /\ mined' = [mined EXCEPT ![p] = <<>>]
      /\ UNCHANGED <<db, mempool, deltas, torn>>
  BY DEF commit_mined
<1>2. IsMap(mined') /\ mined'[p] = <<>>
  BY <1>1, ExceptMap DEF BookMaps
<1>3. CASE UNCHANGED <<pc, chain, adding>>
  <2>1. new = c
    BY <1>1, SameBooks
  <2>2. BookMaps'
    BY <1>1, <1>2 DEF BookMaps
  <2>3. Books(c, p)'
    BY <1>1, <1>2, <1>3 DEF Books
  <2> QED BY <2>1, <2>2, <2>3
<1>4. CASE validate_block_against_chain(mined[p][1], chain[p]) /\ begin_append(p, mined[p][1])
  <2>1. PICK b : mined[p] = <<b>> /\ Assembled(b)
    BY <1>1 DEF Books
  <2>2. mined[p][1] = b
    BY <2>1
  <2>3. Good(c) /\ chain[p] = c /\ PayingChain(c)
    BY <1>1 DEF Stored, Books
  <2>4. HasPayments(b)
    BY <1>4, <2>1, <2>2, <2>3, MinedPays
  <2>5. begin_append(p, b)
    BY <1>4, <2>2
  <2> QED BY <1>1, <1>2, <2>4, <2>5, BooksAppend
<1> QED BY <1>3, <1>4 DEF commit_mined

LEMMA BooksReceive ==
    ASSUME NEW p \in Procs, Maps, BookMaps, NEW c, Stored(c, p), Books(c, p), PeersSendPayments,
           NEW b \in PeerBlocks(chain[p]), append_received(p, b), NEW new, Stored(new, p)'
    PROVE  BookMaps' /\ Books(new, p)'
<1>1. pc[p] = "idle" /\ begin_append(p, b) /\ UNCHANGED <<db, mempool, mined, deltas, torn>>
  BY DEF append_received
<1>2. IsSequence(chain[p])
  BY <1>1 DEF Stored, Good
<1>3. HasPayments(b)
  BY <1>2 DEF PeersSendPayments
<1>4. IsMap(mined') /\ mined'[p] = mined[p]
  BY <1>1 DEF BookMaps
<1> QED BY <1>1, <1>3, <1>4, BooksAppend

LEMMA DistinctAppend ==
    ASSUME NEW c, IsSequence(c), Distinct(c), NEW b, IsInjective(b.transactions)
    PROVE  Distinct(Append(c, b))
<1> DEFINE e == Append(c, b)
           N == Len(c)
<1>1. N \in Nat /\ Len(e) = N + 1 /\ e[N + 1] = b /\ \A i \in 1..N : e[i] = c[i]
  BY SequenceFacts, PrefixOfAppend
<1> HIDE DEF e
<1>2. ASSUME NEW i \in 1..(N + 1) PROVE IsInjective(e[i].transactions)
  <2>1. i = N + 1 \/ i \in 1..N
    BY <1>1
  <2> QED BY <1>1, <2>1 DEF Distinct
<1> QED BY <1>1, <1>2 DEF Distinct, e

LEMMA BooksSave ==
    ASSUME IsFiniteSet(Addr), NEW p \in Procs, Maps, BookMaps, NEW c, Stored(c, p), Books(c, p), ~refused', refused \in BOOLEAN,
           save(p), NEW new, Stored(new, p)'
    PROVE  /\ BookMaps' /\ Books(new, p)'
           /\ \E b : /\ validate_block_against_chain(b, c) /\ Good(c) /\ HasPayments(b) /\ adding[p] = <<b>> /\ can_save(db, b)
                     /\ new = Append(c, b) /\ adding' = adding /\ pc'[p] = "update"
                     /\ db'.transactions = db.transactions \cup rows(b)
<1>1. PICK b : /\ pc[p] = "save" /\ Good(c) /\ validate_block_against_chain(b, c) /\ adding[p] = <<b>>
  BY DEF save, Stored
<1>2. adding[p][1] = b
  BY <1>1
<1>3. /\ can_save(db, b) /\ db' = save_block(db, b) /\ pc' = [pc EXCEPT ![p] = "update"]
      /\ deltas' = [deltas EXCEPT ![p] = deltas_for_block(b)] /\ adding' = adding
      /\ UNCHANGED <<mempool, mined, torn>>
  BY <1>2 DEF save
<1>4. pc'[p] = "update" /\ IsMap(deltas') /\ deltas'[p] = deltas_for_block(b)
  BY <1>3, ExceptMap DEF Maps, BookMaps
<1>5. HasPayments(b) /\ PayingChain(c) /\ Distinct(c) /\ deltas[p] = <<>>
  BY <1>1, <1>2 DEF Books
<1>6. /\ Paying(b) /\ PayingChain(Append(c, b)) /\ Len(b.transactions) > 0
      /\ \A a \in Addr : Total(b, a) \in Int /\ Balance(Append(c, b), a) = Balance(c, a) + Total(b, a)
  BY <1>1, <1>5, BalanceNext
<1>7. IsInjective(b.transactions)
  <2>1. keys_free(db, {b})
    BY <1>3 DEF can_save
  <2> QED BY <2>1 DEF keys_free
<1>8. Distinct(Append(c, b))
  BY <1>1, <1>5, <1>7, DistinctAppend DEF Good
<1>9. db'.blocks = db.blocks \cup {b} /\ db'.transactions = db.transactions \cup rows(b) /\ db'.wallets = db.wallets
  <2>1. db' = [blocks |-> db.blocks \cup {b}, transactions |-> db.transactions \cup UNION {rows(x) : x \in {b}},
               wallets |-> db.wallets]
    BY <1>3 DEF save_block, insert
  <2>2. UNION {rows(x) : x \in {b}} = rows(b)
    OBVIOUS
  <2> QED BY <2>1, <2>2
<1>10. new = Append(c, b)
  <2>1. Good(Append(c, b))
    BY <1>1, GoodAppend
  <2>2. db'.blocks = Range(Append(c, b))
    BY <1>1, <1>9, PrefixOfAppend DEF Good, Stored
  <2>3. (new = <<>> \/ Good(new)) /\ db'.blocks = Range(new)
    BY DEF Stored
  <2> QED BY <2>1, <2>2, <2>3, StoredIs
<1>11. deltas'[p] \in Seq(Delta) /\ deltas'[p] # <<>>
  BY <1>4, <1>6, DeltasNotEmpty
<1>12. torn \/ \A a \in Addr : /\ cached(db'.wallets, a) \in Int
                               /\ Balance(Append(c, b), a) = cached(db'.wallets, a) + delta_total(deltas'[p], a)
  <2> SUFFICES ASSUME ~torn, NEW a \in Addr
               PROVE  /\ cached(db'.wallets, a) \in Int
                      /\ Balance(Append(c, b), a) = cached(db'.wallets, a) + delta_total(deltas'[p], a)
    OBVIOUS
  <2>1. cached(db.wallets, a) \in Int /\ Balance(c, a) = cached(db.wallets, a) + delta_total(deltas[p], a)
    BY DEF Books
  <2>2. delta_total(deltas[p], a) = 0
    BY <1>5, TotalOfFew
  <2>3. delta_total(deltas'[p], a) = Total(b, a)
    BY <1>4, <1>6, BlockDeltas DEF Total
  <2> QED BY <1>6, <1>9, <2>1, <2>2, <2>3
<1>13. BookMaps'
  BY <1>3, <1>4 DEF BookMaps
<1>14. Books(Append(c, b), p)'
  <2>1. PayingChain(Append(c, b))' /\ Distinct(Append(c, b))'
    BY <1>6, <1>8
  <2> QED BY <1>3, <1>4, <1>6, <1>8, <1>11, <1>12 DEF Books
<1> QED BY <1>1, <1>3, <1>4, <1>5, <1>9, <1>10, <1>13, <1>14

LEMMA HeadAndTail ==
    ASSUME NEW ds \in Seq(Delta), ds # <<>>, NEW a
    PROVE  /\ <<Head(ds)>> \in Seq(Delta) /\ Tail(ds) \in Seq(Delta) /\ (Tail(ds) = <<>> <=> Len(ds) = 1)
           /\ delta_total(ds, a) = delta_total(<<Head(ds)>>, a) + delta_total(Tail(ds), a)
           /\ delta_total(<<Head(ds)>>, a) \in Int /\ delta_total(Tail(ds), a) \in Int
<1> DEFINE h == <<Head(ds)>>
           t == Tail(ds)
<1>1. h \in Seq(Delta) /\ t \in Seq(Delta) /\ Len(h) = 1 /\ Len(t) = Len(ds) - 1 /\ h[1] = ds[1] /\ Len(ds) \in Nat /\ Len(ds) > 0
  OBVIOUS
<1>2. \A i \in 1..Len(t) : t[i] = ds[i + 1]
  OBVIOUS
<1> HIDE DEF h, t
<1>3. t = <<>> <=> Len(ds) = 1
  <2>1. ASSUME NEW x \in Seq(Delta) PROVE x = <<>> <=> Len(x) = 0
    BY <2>1
  <2> QED BY ONLY <1>1, <2>1
<1>4. ASSUME NEW x \in Seq(Delta), NEW y \in Seq(Delta)
      PROVE  /\ x \o y \in Seq(Delta) /\ Len(x \o y) = Len(x) + Len(y)
             /\ (\A j \in 1..Len(x) : (x \o y)[j] = x[j]) /\ \A k \in 1..Len(y) : (x \o y)[Len(x) + k] = y[k]
             /\ delta_total(x \o y, a) = delta_total(x, a) + delta_total(y, a)
             /\ delta_total(x, a) \in Int /\ delta_total(y, a) \in Int
  <2>1. /\ x \o y \in Seq(Delta) /\ Len(x \o y) = Len(x) + Len(y)
        /\ (\A j \in 1..Len(x) : (x \o y)[j] = x[j]) /\ \A k \in 1..Len(y) : (x \o y)[Len(x) + k] = y[k]
    BY ONLY <1>4, Concatenated
  <2>2. delta_total(x \o y, a) = delta_total(x, a) + delta_total(y, a)
    BY <1>4, TotalOfConcat
  <2>3. delta_total(x, a) \in Int /\ delta_total(y, a) \in Int
    BY <1>4, TotalOfTerms
  <2> QED BY ONLY <2>1, <2>2, <2>3
<1>5. PICK z : z = h \o t
  OBVIOUS
<1>6. /\ z \in Seq(Delta) /\ Len(z) = 1 + Len(t) /\ z[1] = h[1] /\ (\A k \in 1..Len(t) : z[1 + k] = t[k])
      /\ delta_total(z, a) = delta_total(h, a) + delta_total(t, a)
      /\ delta_total(h, a) \in Int /\ delta_total(t, a) \in Int
  <2>1. /\ h \o t \in Seq(Delta) /\ Len(h \o t) = Len(h) + Len(t)
        /\ (\A j \in 1..Len(h) : (h \o t)[j] = h[j]) /\ \A k \in 1..Len(t) : (h \o t)[Len(h) + k] = t[k]
        /\ delta_total(h \o t, a) = delta_total(h, a) + delta_total(t, a)
        /\ delta_total(h, a) \in Int /\ delta_total(t, a) \in Int
    BY ONLY <1>1, <1>4
  <2>2. 1 \in 1..1
    OBVIOUS
  <2> QED BY ONLY <1>1, <1>5, <2>1, <2>2
<1>7. z = ds
  <2>1. Len(z) = Len(ds)
    BY ONLY <1>1, <1>6
  <2>2. ASSUME NEW i \in 1..Len(ds) PROVE z[i] = ds[i]
    <3>1. CASE i = 1
      BY ONLY <1>1, <1>6, <3>1
    <3>2. CASE i # 1
      <4> DEFINE k == i - 1
      <4>1. k \in 1..Len(t) /\ 1 + k = i /\ k + 1 = i
        BY <1>1, <3>2
      <4> HIDE DEF k
      <4> QED BY <1>2, <1>6, <4>1
    <3> QED BY <3>1, <3>2
  <2>3. ASSUME NEW x \in Seq(Delta), NEW y \in Seq(Delta), Len(x) = Len(y), \A i \in 1..Len(y) : x[i] = y[i]
        PROVE  x = y
    BY <2>3
  <2>4. ds \in Seq(Delta)
    OBVIOUS
  <2> QED BY ONLY <1>6, <2>1, <2>2, <2>3, <2>4
<1> QED BY ONLY <1>1, <1>3, <1>6, <1>7 DEF h, t

LEMMA BooksUpdate ==
    ASSUME NEW p \in Procs, OneInv(p), Maps, BookMaps, NEW c, Stored(c, p), Books(c, p), update_balances(p),
           NEW new, Stored(new, p)'
    PROVE  BookMaps' /\ Books(new, p)' /\ new = c
<1> DEFINE ds == deltas[p]
           h == <<Head(ds)>>
           t == Tail(ds)
<1>1. /\ pc[p] = "update" /\ db' = [db EXCEPT !.wallets = apply_deltas(@, h)]
      /\ deltas' = [deltas EXCEPT ![p] = Tail(@)] /\ UNCHANGED <<mined, torn>>
  BY DEF update_balances
<1>2. ds \in Seq(Delta) /\ ds # <<>>
  BY <1>1 DEF Books
<1>3. IsMap(deltas') /\ deltas'[p] = t
  BY <1>1, ExceptMap DEF BookMaps
<1>4. db'.blocks = db.blocks /\ db'.wallets = apply_deltas(db.wallets, h)
  <2>1. IsTables(db)
    BY DEF OneInv, Agree
  <2> QED BY <1>1, <2>1 DEF IsTables
<1>5. new = c
  BY <1>4, SameBooks
<1>6. IF Len(ds) = 1
      THEN mempool' = [mempool EXCEPT ![p] = @ \ Range(adding[p][1].transactions)] /\ pc' = [pc EXCEPT ![p] = "idle"]
      ELSE UNCHANGED <<mempool, pc>>
  BY DEF update_balances, remove_transactions
<1>7. IsMap(mempool') /\ IsPool(mempool'[p]) /\ (pc'[p] = IF Len(ds) = 1 THEN "idle" ELSE "update")
  <2>1. CASE Len(ds) = 1
    <3>1. IsMap(mempool') /\ mempool'[p] = mempool[p] \ Range(adding[p][1].transactions) /\ pc'[p] = "idle"
      BY <1>6, <2>1, ExceptMap DEF Maps, BookMaps
    <3>2. IsPool(mempool'[p])
      BY <3>1, PoolShrinks DEF Books
    <3> QED BY <2>1, <3>1, <3>2
  <2>2. CASE Len(ds) # 1
    BY <1>1, <1>6, <2>2 DEF BookMaps, Books
  <2> QED BY <2>1, <2>2
<1> HIDE DEF ds, h, t
<1>8. /\ h \in Seq(Delta) /\ t \in Seq(Delta) /\ (t = <<>> <=> Len(ds) = 1)
      /\ \A a : /\ delta_total(ds, a) = delta_total(h, a) + delta_total(t, a)
                /\ delta_total(h, a) \in Int /\ delta_total(t, a) \in Int
  BY <1>2, HeadAndTail DEF h, t
<1>9. torn \/ \A a \in Addr : /\ cached(db'.wallets, a) \in Int
                              /\ Balance(c, a) = cached(db'.wallets, a) + delta_total(t, a)
  <2> SUFFICES ASSUME ~torn, NEW a \in Addr
               PROVE  cached(db'.wallets, a) \in Int /\ Balance(c, a) = cached(db'.wallets, a) + delta_total(t, a)
    OBVIOUS
  <2>1. cached(db.wallets, a) \in Int /\ Balance(c, a) = cached(db.wallets, a) + delta_total(ds, a)
    BY DEF Books, ds
  <2>2. cached(apply_deltas(db.wallets, h), a) = cached(db.wallets, a) + delta_total(h, a)
    BY <1>8, <2>1, CachedAfter
  <2>3. delta_total(ds, a) = delta_total(h, a) + delta_total(t, a) /\ delta_total(h, a) \in Int /\ delta_total(t, a) \in Int
    BY <1>8
  <2> QED BY <1>4, <2>1, <2>2, <2>3
<1>10. BookMaps'
  BY <1>1, <1>3, <1>7 DEF BookMaps
<1>11. Books(c, p)'
  <2>1. IF pc'[p] = "update" THEN deltas'[p] \in Seq(Delta) /\ deltas'[p] # <<>> ELSE deltas'[p] = <<>>
    BY <1>3, <1>7, <1>8
  <2>2. pc'[p] # "save"
    BY <1>7
  <2> QED BY <1>1, <1>3, <1>7, <1>9, <2>1, <2>2 DEF Books
<1> QED BY <1>5, <1>10, <1>11

LEMMA BooksCrash ==
    ASSUME NEW p \in Procs, Maps, BookMaps, NEW c, Stored(c, p), Books(c, p), Crash(p), NEW new, Stored(new, p)'
    PROVE  BookMaps' /\ Books(new, p)'
<1>1. db' = db /\ torn' = (torn \/ deltas[p] # <<>>)
  BY DEF Crash
<1>2. /\ pc'[p] = "down" /\ IsMap(mempool') /\ mempool'[p] = {} /\ IsMap(mined') /\ mined'[p] = <<>>
      /\ IsMap(deltas') /\ deltas'[p] = <<>>
  BY ExceptMap DEF Crash, Maps, BookMaps
<1>3. new = c
  BY <1>1, SameBooks
<1>4. BookMaps'
  BY <1>1, <1>2 DEF BookMaps
<1>5. IsPool(mempool'[p])
  BY <1>2, FS_EmptySet DEF IsPool
<1>6. torn' \/ \A a \in Addr : /\ cached(db'.wallets, a) \in Int
                               /\ Balance(c, a) = cached(db'.wallets, a) + delta_total(deltas'[p], a)
  BY <1>1, <1>2 DEF Books
<1>7. Books(c, p)'
  BY <1>2, <1>5, <1>6 DEF Books
<1> QED BY <1>3, <1>4, <1>7

LEMMA CandidatePays ==
    ASSUME NEW c, Good(c), \A i \in 1..Len(c) : HasPayments(c[i])
    PROVE  PayingChain(c)
<1>0. /\ Len(c) \in Nat /\ c[1] = genesis /\ (\A i \in 1..Len(c) : c[i].index = i - 1)
      /\ \A i \in 2..Len(c) : validate_block_against_chain(c[i], SubSeq(c, 1, i - 1))
  BY SequenceFacts DEF Good, Indexed, validate_chain
<1>1. ASSUME NEW i \in 1..Len(c) PROVE Paying(c[i])
  <2>1. CASE i = 1
    BY <1>0, <2>1, GenesisPays
  <2>2. CASE i # 1
    <3>1. i \in 2..Len(c) /\ i - 1 # 0
      BY <1>0, <2>2
    <3>2. PICK rewards : validate_block_structure(c[i], rewards)
      BY <1>0, <3>1 DEF validate_block_against_chain
    <3>3. c[i].index # 0 /\ HasPayments(c[i])
      BY <1>0, <3>1
    <3>4. \A j \in DOMAIN c[i].transactions : validate_transaction(c[i].transactions[j])
      BY <3>2, <3>3 DEF validate_block_structure
    <3> QED BY <3>3, <3>4, ValidPays
  <2> QED BY <2>1, <2>2
<1> QED BY <1>1 DEF PayingChain

LEMMA BooksReplace ==
    ASSUME IsFiniteSet(Addr), NEW p \in Procs, Maps, BookMaps, NEW c, Stored(c, p), Books(c, p), refused \in BOOLEAN, ~refused',
           PeersSendPayments, NEW candidate \in PeerChains(chain[p]), replace_chain(p, candidate),
           NEW new, Stored(new, p)', Maps', new = chain'[p], IsSequence(candidate)
    PROVE  BookMaps' /\ Books(new, p)'
<1> DEFINE k == _find_fork_index(c, candidate)
           blocks == SubSeq(candidate, k + 1, Len(candidate))
<1>1. pc[p] = "idle" /\ chain[p] = c /\ Good(c) /\ UNCHANGED <<pc, mined, adding, deltas, torn>>
  BY DEF replace_chain, Stored
<1>2. /\ can_reorganize(db, k, blocks) /\ db' = reorganize_from(db, k, blocks)
      /\ chain' = [chain EXCEPT ![p] = candidate]
      /\ \E txs : mempool' = [mempool EXCEPT ![p] = @ \ txs]
  BY <1>1 DEF replace_chain, remove_transactions
<1>3. new = candidate
  <2>1. IsMap(chain)
    BY DEF Maps
  <2>2. [chain EXCEPT ![p] = candidate][p] = candidate
    BY <2>1, ExceptMap
  <2> QED BY <1>2, <2>2
<1>4. Good(candidate)
  <2>1. pc'[p] = "idle"
    BY <1>1
  <2> QED BY <1>3, <2>1 DEF Stored
<1>5. PayingChain(candidate)
  <2>1. IsSequence(chain[p])
    BY <1>1 DEF Good
  <2>2. \A i \in 1..Len(candidate) : HasPayments(candidate[i])
    BY <2>1 DEF PeersSendPayments
  <2> QED BY <1>4, <2>2, CandidatePays
<1>6. k \in Nat /\ k <= Len(c) /\ k <= Len(candidate) /\ \A i \in 1..k : c[i] = candidate[i]
  BY <1>1, <1>4, ForkShares
<1>7. Distinct(candidate)
  <2> SUFFICES ASSUME NEW i \in 1..Len(candidate) PROVE IsInjective(candidate[i].transactions)
    BY DEF Distinct
  <2>0. Len(c) \in Nat /\ Len(candidate) \in Nat /\ candidate \in Seq(Range(candidate))
    BY <1>1, <1>4, SequenceFacts DEF Good
  <2>1. CASE i <= k
    <3>1. i \in 1..k /\ i \in 1..Len(c)
      BY <1>6, <2>0, <2>1
    <3>2. candidate[i] = c[i]
      BY <1>6, <3>1
    <3> QED BY <3>1, <3>2 DEF Books, Distinct
  <2>2. CASE ~(i <= k)
    <3> DEFINE j == i - k
    <3>1. j \in 1..(Len(candidate) - k) /\ k + j = i
      BY <1>6, <2>0, <2>2
    <3>2. blocks \in Seq(Range(candidate)) /\ Len(blocks) = Len(candidate) - k /\ blocks[j] = candidate[k + j]
      <4> HIDE DEF k, j
      <4> QED BY <1>6, <2>0, <3>1, SuffixIs
    <3> HIDE DEF blocks, j
    <3>3. candidate[i] \in Range(blocks)
      <4>1. j \in DOMAIN blocks /\ blocks[j] = candidate[i]
        BY <3>1, <3>2
      <4> QED BY <4>1 DEF Range
    <3>4. keys_free(below(db, k), Range(blocks))
      BY <1>2 DEF can_reorganize
    <3> QED BY <3>3, <3>4 DEF keys_free
  <2> QED BY <2>1, <2>2
<1>8. IsMap(mempool') /\ IsPool(mempool'[p])
  <2>1. PICK txs : mempool' = [mempool EXCEPT ![p] = @ \ txs]
    BY <1>2
  <2>2. IsMap(mempool') /\ mempool'[p] = mempool[p] \ txs
    BY <2>1, ExceptMap DEF BookMaps
  <2> QED BY <2>2, PoolShrinks DEF Books
<1>9. deltas[p] = <<>>
  BY <1>1 DEF Books
<1>10. torn \/ \A a \in Addr : /\ cached(db'.wallets, a) \in Int
                               /\ Balance(candidate, a) = cached(db'.wallets, a) + delta_total(deltas[p], a)
  <2> SUFFICES ASSUME ~torn, NEW a \in Addr
               PROVE  /\ cached(db'.wallets, a) \in Int
                      /\ Balance(candidate, a) = cached(db'.wallets, a) + delta_total(deltas[p], a)
    OBVIOUS
  <2>1. cached(db.wallets, a) \in Int /\ Balance(c, a) = cached(db.wallets, a) + delta_total(deltas[p], a)
    BY DEF Books
  <2>2. delta_total(deltas[p], a) = 0
    BY <1>9, TotalOfFew
  <2>3. cached(db.wallets, a) = _state_from_chain(c).balances[a]
    BY <2>1, <2>2 DEF Balance
  <2>4. PayingChain(c) /\ db.blocks = Range(c)
    BY DEF Books, Stored
  <2>5. cached(reorganize_from(db, k, blocks).wallets, a) = _state_from_chain(candidate).balances[a]
    BY <1>1, <1>4, <1>5, <2>3, <2>4, Reorganized
  <2>6. cached(db'.wallets, a) = Balance(candidate, a)
    BY <1>2, <2>5 DEF Balance
  <2>7. Balance(candidate, a) \in Nat
    BY <1>4, <1>5, ReplayFacts
  <2> QED BY <2>2, <2>6, <2>7
<1> HIDE DEF k, blocks
<1>11. BookMaps'
  BY <1>1, <1>8 DEF BookMaps
<1>12. Books(candidate, p)'
  BY <1>1, <1>5, <1>7, <1>8, <1>9, <1>10 DEF Books
<1> QED BY <1>3, <1>11, <1>12

-----------------------------------------------------------------------------

BookInv(p) ==
    /\ OneInv(p)
    /\ refused \/ (Maps /\ BookMaps /\ \E c : Stored(c, p) /\ Books(c, p))

LEMMA BookInit == ASSUME IsFiniteSet(Addr), NEW p, Procs = {p} PROVE Init => BookInv(p)
<1> SUFFICES ASSUME Init PROVE BookInv(p)
  OBVIOUS
<1>1. OneInv(p)
  BY OneInit
<1>2. BookMaps /\ Maps /\ mempool[p] = {} /\ mined[p] = <<>> /\ deltas[p] = <<>> /\ pc[p] = "down" /\ chain[p] = <<>>
  BY DEF Init, BookMaps, Maps, IsMap
<1>3. db.blocks = Range(<<>>) /\ db.wallets = <<>>
  BY EmptyFacts DEF Init, EmptyTables
<1>4. Stored(<<>>, p)
  BY <1>2, <1>3 DEF Stored
<1>5. PayingChain(<<>>) /\ Distinct(<<>>)
  BY EmptyFacts DEF PayingChain, Distinct
<1>6. IsPool(mempool[p])
  BY <1>2, FS_EmptySet DEF IsPool
<1>7. ASSUME NEW a \in Addr
      PROVE  cached(db.wallets, a) \in Int /\ Balance(<<>>, a) = cached(db.wallets, a) + delta_total(deltas[p], a)
  <2>1. a \notin DOMAIN db.wallets
    BY <1>3
  <2>2. cached(db.wallets, a) = 0
    BY <2>1 DEF cached
  <2>3. delta_total(deltas[p], a) = 0 /\ Balance(<<>>, a) = 0
    BY <1>2, TotalOfFew, EmptyBalance
  <2> QED BY <2>2, <2>3
<1>8. Books(<<>>, p)
  BY <1>2, <1>5, <1>6, <1>7 DEF Books
<1> QED BY <1>1, <1>2, <1>4, <1>8 DEF BookInv

LEMMA BookStep ==
    ASSUME IsFiniteSet(Addr), NEW p, Procs = {p}, PeersSendLists, PeersSendPayments, ClientsSendPayments,
           OneInv(p), [Next]_vars, ~refused', refused \in BOOLEAN, Maps, BookMaps, NEW c, Stored(c, p), Books(c, p),
           NEW new, Stored(new, p)', Maps'
    PROVE  BookMaps' /\ Books(new, p)'
<1>0. p \in Procs
  OBVIOUS
<1>2. CASE Open(p)
  BY <1>0, <1>2, BooksOpen
<1>3. CASE _create_and_persist_genesis_block(p)
  BY <1>0, <1>3, BooksGenesis
<1>4. CASE \E tx \in Submissions : submit_transaction(p, tx)
  BY <1>0, <1>4, BooksSubmit
<1>5. CASE \E a \in Miners : start_mining(p, a)
  BY <1>0, <1>5, BooksMining
<1>6. CASE commit_mined(p)
  BY <1>0, <1>6, BooksCommit
<1>7. CASE save(p)
  BY <1>0, <1>7, BooksSave
<1>8. CASE update_balances(p)
  BY <1>0, <1>8, BooksUpdate
<1>9. CASE \E block \in PeerBlocks(chain[p]) : append_received(p, block)
  BY <1>0, <1>9, BooksReceive
<1>10. CASE \E candidate \in PeerChains(chain[p]) : replace_chain(p, candidate)
  <2>1. PICK candidate \in PeerChains(chain[p]) : replace_chain(p, candidate)
    BY <1>10
  <2>2. IsSequence(chain[p]) /\ pc[p] = "idle" /\ pc' = pc
    BY <2>1 DEF replace_chain, Stored, Good
  <2>3. IsSequence(candidate)
    BY <2>1, <2>2 DEF PeersSendLists
  <2>4. new = chain'[p]
    BY <2>2 DEF Stored
  <2> QED BY <1>0, <2>1, <2>3, <2>4, BooksReplace
<1>11. CASE Crash(p)
  BY <1>0, <1>11, BooksCrash
<1>12. CASE UNCHANGED vars
  <2>1. new = c
    BY <1>0, <1>12, SameBooks DEF vars
  <2>2. BookMaps' /\ Books(c, p)'
    BY <1>12 DEF vars, memory, BookMaps, Books
  <2> QED BY <2>1, <2>2
<1> QED BY <1>2, <1>3, <1>4, <1>5, <1>6, <1>7, <1>8, <1>9, <1>10, <1>11, <1>12 DEF Next

LEMMA BookInductive ==
    ASSUME IsFiniteSet(Addr), NEW p, Procs = {p}, PeersSendLists, PeersSendPayments, ClientsSendPayments,
           BookInv(p), [Next]_vars
    PROVE  BookInv(p)'
<1>1. OneInv(p)'
  BY OneInductive DEF BookInv
<1>2. refused \in BOOLEAN /\ refused' \in BOOLEAN /\ (refused => refused')
  BY RefusedStays DEF BookInv, OneInv
<1>3. CASE refused'
  BY <1>1, <1>3 DEF BookInv
<1>4. CASE ~refused'
  <2>1. PICK c : Maps /\ BookMaps /\ Stored(c, p) /\ Books(c, p)
    BY <1>2, <1>4 DEF BookInv
  <2>2. PICK new : Maps' /\ Stored(new, p)'
    BY <1>1, <1>4 DEF OneInv
  <2>3. OneInv(p)
    BY DEF BookInv
  <2>4. BookMaps' /\ Books(new, p)'
    BY <1>2, <1>4, <2>1, <2>2, <2>3, BookStep
  <2> QED BY <1>1, <2>2, <2>4 DEF BookInv
<1> QED BY <1>3, <1>4

LEMMA HistoryIsBalance ==
    ASSUME IsFiniteSet(Addr), NEW p, BookInv(p), ~refused, NEW c, Stored(c, p), Books(c, p), NEW a \in Addr
    PROVE  load_chain(db) = c /\ _compute_balance_from_history(db, a) = Balance(c, a)
<1>1. load_chain(db) = c
  BY StoredLoads DEF Stored
<1>2. db.transactions = UNION {rows(b) : b \in db.blocks} /\ db.blocks = Range(c) /\ (c = <<>> \/ Good(c))
  BY DEF BookInv, OneInv, Agree, Stored
<1>3. _compute_balance_from_history(db, a) = History(db.transactions, a)
  BY HistoryIs
<1>4. CASE c = <<>>
  <2>1. db.transactions = {}
    BY <1>2, <1>4, EmptyFacts
  <2> QED BY <1>1, <1>3, <1>4, <2>1, HistoryOfNone, EmptyBalance
<1>5. CASE Good(c)
  <2>1. PayingChain(c) /\ Distinct(c)
    BY DEF Books
  <2>2. PICK f : Booked(f, c)
    BY <1>5, <2>1, ChainBooks
  <2>3. History(db.transactions, a) = f[Len(c)].balances[a]
    BY <1>2, <1>5, <2>1, <2>2, ChainHistory
  <2>4. _state_from_chain(c) = f[Len(c)]
    BY <2>2 DEF Booked
  <2> QED BY <1>1, <1>3, <2>3, <2>4 DEF Balance
<1> QED BY <1>2, <1>4, <1>5

LEMMA OutstandingIs ==
    ASSUME NEW p, Procs = {p}, NEW a, delta_total(deltas[p], a) \in Int
    PROVE  outstanding(a) = delta_total(deltas[p], a)
<1> DEFINE f == [q \in Procs |-> delta_total(deltas[q], a)]
<1>1. outstanding(a) = SumFunctionOnSet(f, {p}) /\ f[p] = delta_total(deltas[p], a)
  <2>1. DOMAIN f = {p} /\ f[p] = delta_total(deltas[p], a)
    OBVIOUS
  <2> QED BY <2>1 DEF outstanding, SumFunction
<1> HIDE DEF f
<1>2. IsFiniteSet({p}) /\ p \in {p} /\ {p} \ {p} = {}
  BY FS_Singleton
<1>3. (\A x \in {p} : f[x] \in Int) /\ \A x \in {p} \ {p} : f[x] = f[x]
  BY <1>1
<1>4. SumFunctionOnSet(f, {p}) = f[p] + SumFunctionOnSet(f, {p} \ {p})
  BY <1>2, <1>3, SumSplits
<1>5. SumFunctionOnSet(f, {}) = 0
  BY SumOfNone
<1> QED BY <1>1, <1>2, <1>4, <1>5

LEMMA BookImplies ==
    ASSUME IsFiniteSet(Addr), NEW p, Procs = {p}, BookInv(p)
    PROVE  WalletsAreReplay
<1> SUFFICES ASSUME ~refused, NEW a \in Addr
             PROVE  LET balance == _state_from_chain(load_chain(db)).balances[a]
                    IN  /\ balance = _compute_balance_from_history(db, a)
                        /\ torn \/ balance = cached(db.wallets, a) + outstanding(a)
  BY DEF WalletsAreReplay
<1>1. PICK c : Stored(c, p) /\ Books(c, p) /\ torn \in BOOLEAN
  BY DEF BookInv, BookMaps
<1>2. load_chain(db) = c /\ _compute_balance_from_history(db, a) = Balance(c, a)
  BY <1>1, HistoryIsBalance
<1>3. delta_total(deltas[p], a) \in Int
  <2>1. deltas[p] \in Seq(Delta) \/ deltas[p] = <<>>
    BY <1>1 DEF Books
  <2> QED BY <2>1, TotalOfTerms, TotalOfFew
<1>4. outstanding(a) = delta_total(deltas[p], a)
  BY <1>3, OutstandingIs
<1>5. torn \/ Balance(c, a) = cached(db.wallets, a) + delta_total(deltas[p], a)
  BY <1>1 DEF Books
<1> QED BY <1>1, <1>2, <1>4, <1>5 DEF Balance

(* In a node whose database no other process uses, the balance that a     *)
(* replay of the stored chain gives is what the rows of the transactions   *)
(* table add up to, and the cached balance with the deltas still to come:  *)
(* through mining, received blocks, reorganizations that take back any     *)
(* number of blocks, and restarts (storage.py update_balances_for_block,   *)
(* reorganize_from, get_balance).                                          *)
THEOREM WalletsFollowReplay ==
    ASSUME NEW p, Procs = {p}, IsFiniteSet(Addr), PeersSendLists, PeersSendPayments, ClientsSendPayments
    PROVE  Spec => []WalletsAreReplay
<1>1. Init => BookInv(p)
  BY BookInit
<1>2. BookInv(p) /\ [Next]_vars => BookInv(p)'
  BY BookInductive
<1>3. BookInv(p) => WalletsAreReplay
  BY BookImplies
<1> QED BY <1>1, <1>2, <1>3, PTL DEF Spec

-----------------------------------------------------------------------------
(* What waits in the pool *)

Sent(T, a) == {t \in T : t.sender = a}

Prices(T) == [tx \in T |-> tx.amount]

LEMMA SpendIs == \A T, a : pending_spend_for(T, a) = SumFunctionOnSet(Prices(Sent(T, a)), Sent(T, a))
  BY DEF pending_spend_for, SumFunction, Sent, Prices

LEMMA SpendOfNone == \A a : pending_spend_for({}, a) = 0
<1> SUFFICES ASSUME NEW a PROVE pending_spend_for({}, a) = 0
  OBVIOUS
<1>1. Sent({}, a) = {}
  BY DEF Sent
<1> QED BY <1>1, SpendIs, SumOfNone

LEMMA SpendAdds ==
    ASSUME NEW T, IsPool(T), NEW tx, tx \notin T, tx.amount \in Int, NEW a
    PROVE  /\ pending_spend_for(T, a) \in Int
           /\ pending_spend_for(T \cup {tx}, a) = pending_spend_for(T, a) + (IF tx.sender = a THEN tx.amount ELSE 0)
<1> DEFINE R == Sent(T, a)
           B == R \cup {tx}
           f == Prices(B)
           g == Prices(R)
<1>1. IsFiniteSet(R) /\ tx \notin R /\ \A t \in R : t.amount \in Int
  <2>1. R \in SUBSET T
    BY DEF Sent
  <2> QED BY <2>1, FS_Subset DEF IsPool
<1>2. Sent(T \cup {tx}, a) = IF tx.sender = a THEN B ELSE R
  BY DEF Sent
<1>3. IsFiniteSet(B) /\ tx \in B /\ B \ {tx} = R
  BY <1>1, FS_AddElement
<1>4. (\A x \in B : f[x] \in Int) /\ f[tx] = tx.amount /\ \A x \in R : g[x] = f[x]
  BY <1>1 DEF Prices
<1> HIDE DEF B, f, g, R
<1>5. \A x \in B \ {tx} : g[x] = f[x]
  BY <1>3, <1>4
<1>6. /\ SumFunctionOnSet(f, B) \in Int /\ SumFunctionOnSet(g, B \ {tx}) \in Int
      /\ SumFunctionOnSet(f, B) = f[tx] + SumFunctionOnSet(g, B \ {tx})
  BY <1>3, <1>4, <1>5, SumSplits
<1>7. pending_spend_for(T, a) = SumFunctionOnSet(g, R)
  BY SpendIs DEF g, R
<1>8. pending_spend_for(T \cup {tx}, a) = IF tx.sender = a THEN SumFunctionOnSet(f, B) ELSE SumFunctionOnSet(g, R)
  BY <1>2, SpendIs DEF f, g
<1>9. /\ SumFunctionOnSet(g, R) \in Int
      /\ SumFunctionOnSet(f, B) = tx.amount + SumFunctionOnSet(g, R)
  BY ONLY <1>3, <1>4, <1>6
<1>10. tx.amount \in Int
  OBVIOUS
<1> HIDE DEF R, B, f, g
<1>11. CASE tx.sender = a
  BY ONLY <1>7, <1>8, <1>9, <1>10, <1>11
<1>12. CASE tx.sender # a
  BY ONLY <1>7, <1>8, <1>9, <1>10, <1>12
<1> QED BY <1>11, <1>12

LEMMA SpendIsInt == ASSUME NEW T, IsPool(T), NEW a PROVE pending_spend_for(T, a) \in Int
<1>2. CASE T = {}
  BY <1>2, SpendOfNone
<1>3. CASE T # {}
  <2>1. PICK tx : tx \in T
    BY <1>3
  <2> DEFINE R == T \ {tx}
  <2>2. IsPool(R) /\ tx \notin R /\ R \cup {tx} = T /\ tx.amount \in Int
    BY <2>1, PoolShrinks DEF IsPool
  <2> HIDE DEF R
  <2>3. /\ pending_spend_for(R, a) \in Int
        /\ pending_spend_for(R \cup {tx}, a) = pending_spend_for(R, a) + (IF tx.sender = a THEN tx.amount ELSE 0)
    BY <2>2, SpendAdds
  <2> QED BY <2>2, <2>3
<1> QED BY <1>2, <1>3

(* A block of the pool's entries takes from the balance no more than it    *)
(* takes from the pool.                                                    *)
LEMMA BlockSpends ==
    ASSUME NEW T, IsPool(T), NEW b, Paying(b), IsInjective(b.transactions),
           \A i \in 1..Len(b.transactions) : validate_transaction(b.transactions[i]),
           \A i \in 1..Len(b.transactions) : is_coinbase(b.transactions[i]) \/ b.transactions[i] \in T,
           NEW a \in Addr, NEW B \in Int, pending_spend_for(T, a) <= B
    PROVE  pending_spend_for(T \ Range(b.transactions), a) <= B + Total(b, a)
<1> DEFINE txs == b.transactions
           N == Len(txs)
           R(n) == T \ {txs[i] : i \in 1..n}
           Holds(n) == pending_spend_for(R(n), a) <= B + Upto(b, a, n)
           S == {n \in Nat : n <= N => Holds(n)}
<1>1. N \in Nat /\ DOMAIN txs = 1..N /\ (\A i \in 1..N : IsPayment(txs[i])) /\ Range(txs) = {txs[i] : i \in 1..N}
  BY SequenceFacts DEF Paying, Range
<1>2. /\ Upto(b, a, 0) = 0 /\ (\A n \in 0..N : Upto(b, a, n) \in Int)
      /\ (\A n \in 1..N : Upto(b, a, n) = Upto(b, a, n - 1) + Effect(txs[n], a))
  BY EffectsAre
<1>3. \A i, j \in 1..N : txs[i] = txs[j] => i = j
  BY <1>1 DEF IsInjective
<1>4. \A i \in 1..N : validate_transaction(txs[i]) /\ (is_coinbase(txs[i]) \/ txs[i] \in T)
  OBVIOUS
<1> HIDE DEF txs, N
<1>5. 0 \in S
  <2>1. R(0) = T
    OBVIOUS
  <2>2. Holds(0)
    <3> HIDE DEF R
    <3> QED BY <1>2, <2>1
  <2> HIDE DEF Holds
  <2> QED BY <2>2
<1>6. ASSUME NEW n \in S PROVE n + 1 \in S
  <2>0. n \in Nat /\ (n <= N => Holds(n))
    OBVIOUS
  <2> DEFINE q == n + 1
             tx == txs[q]
             P == R(n)
             Q == R(q)
  <2> SUFFICES ASSUME q <= N PROVE Holds(q)
    BY <2>0
  <2>1. q \in 1..N /\ q - 1 = n /\ n \in 0..N /\ \A i \in 1..n : i \in 1..N /\ i # q
    <3>1. n \in Nat /\ N \in Nat /\ q <= N
      BY <1>1, <2>0
    <3> QED BY <3>1
  <2>2. pending_spend_for(P, a) <= B + Upto(b, a, n)
    BY <1>1, <2>0, <2>1
  <2>3. Q = P \ {tx}
    <3>1. 1..q = (1..n) \cup {q}
      BY <2>0
    <3> HIDE DEF q
    <3> QED BY <3>1
  <2>4. tx \in P \/ is_coinbase(tx)
    <3> HIDE DEF q
    <3>1. ASSUME tx \in T PROVE tx \in P
      <4>1. \A i \in 1..n : txs[i] # tx
        BY <1>3, <2>1
      <4> QED BY <3>1, <4>1
    <3> QED BY <1>4, <2>1, <3>1
  <2>5. IsPool(Q) /\ IsPool(P)
    BY PoolShrinks
  <2> HIDE DEF q, P, Q, S
  <2>6. Upto(b, a, q) = Upto(b, a, n) + Effect(tx, a) /\ Upto(b, a, n) \in Int
    BY <1>2, <2>1
  <2>7. tx.amount \in Int /\ tx.amount > 0
    BY <1>1, <1>4, <2>1 DEF IsPayment, validate_transaction, validate_base_units
  <2>8. pending_spend_for(Q, a) \in Int /\ pending_spend_for(P, a) \in Int
    BY <2>5, SpendIsInt
  <2> DEFINE out == IF tx.sender = a THEN tx.amount ELSE 0
             in == IF tx.receiver = a THEN tx.amount ELSE 0
  <2>9. Effect(tx, a) = in - out /\ in \in Int /\ out \in Int /\ in >= 0 /\ out >= 0
    BY <2>7 DEF Effect
  <2>10. pending_spend_for(Q, a) + out <= pending_spend_for(P, a)
    <3>1. CASE tx \in P
      <4>1. P = Q \cup {tx} /\ tx \notin Q
        BY <2>3, <3>1
      <4>2. pending_spend_for(Q \cup {tx}, a) = pending_spend_for(Q, a) + (IF tx.sender = a THEN tx.amount ELSE 0)
        BY <2>5, <2>7, <4>1, SpendAdds
      <4>3. pending_spend_for(P, a) = pending_spend_for(Q, a) + out
        BY <4>1, <4>2
      <4> HIDE DEF out
      <4> QED BY <2>8, <4>3
    <3>2. CASE tx \notin P
      <4>1. P = Q
        BY <2>3, <3>2
      <4>2. out = 0
        BY <2>4, <3>2, AddrIsAccount DEF is_coinbase
      <4> HIDE DEF out
      <4> QED BY <2>8, <4>1, <4>2
    <3> QED BY <3>1, <3>2
  <2> HIDE DEF in, out
  <2>11. pending_spend_for(Q, a) <= B + Upto(b, a, q)
    BY <2>2, <2>6, <2>8, <2>9, <2>10
  <2> QED BY <2>11 DEF Q
<1>7. S = Nat
  <2>1. S \in SUBSET Nat
    OBVIOUS
  <2> HIDE DEF S
  <2> QED BY <1>5, <1>6, <2>1, NatSetInduction
<1>8. Holds(N)
  <2>1. N \in S
    BY <1>1, <1>7
  <2> QED BY <1>1, <2>1
<1> QED BY <1>1, <1>8 DEF Total, N, txs

(* The balance that admission asks for is the one of a replay. *)
LEMMA GetBalanceIs ==
    ASSUME IsFiniteSet(Addr), NEW p, BookInv(p), ~refused, ~torn, NEW c, Stored(c, p), Books(c, p), pc[p] = "idle",
           NEW a \in Addr
    PROVE  get_balance(db, a) = Balance(c, a) /\ Balance(c, a) \in Int
<1>1. _compute_balance_from_history(db, a) = Balance(c, a)
  BY HistoryIsBalance
<1>2. deltas[p] = <<>> /\ cached(db.wallets, a) \in Int /\ Balance(c, a) = cached(db.wallets, a) + delta_total(deltas[p], a)
  BY DEF Books
<1>3. Balance(c, a) = cached(db.wallets, a)
  BY <1>2, TotalOfFew
<1>4. a \in DOMAIN db.wallets => db.wallets[a] = cached(db.wallets, a)
  BY DEF cached
<1> QED BY <1>1, <1>2, <1>3, <1>4 DEF get_balance

-----------------------------------------------------------------------------
(* The invariant of the pool, as long as every block was the node's own.   *)
(* A transaction of a block that is being added or that waits is in the    *)
(* pool or confirmed.                                                      *)

Confirmed == {r.tx : r \in db.transactions}

Known(p) == mempool[p] \cup Confirmed

Covered(T, c) == \A a \in Addr : pending_spend_for(T, a) <= Balance(c, a)

Reserved(c, p) ==
    /\ IF pc[p] = "update"
       THEN /\ Covered(mempool[p] \ Range(adding[p][1].transactions), c)
            /\ Range(adding[p][1].transactions) \subseteq Confirmed
       ELSE Covered(mempool[p], c)
    /\ \A b : mined[p] = <<b>> => \A i \in 2..Len(b.transactions) : b.transactions[i] \in Known(p)
    /\ pc[p] = "save" => /\ Assembled(adding[p][1])
                         /\ \A i \in 2..Len(adding[p][1].transactions) : adding[p][1].transactions[i] \in Known(p)

LEMMA ReservedOpen ==
    ASSUME NEW p \in Procs, Maps, NEW c, Reserved(c, p), Open(p)
    PROVE  Reserved(c, p)'
<1>1. pc[p] = "down" /\ UNCHANGED <<db, mempool, mined, adding>>
  BY DEF Open
<1>2. pc'[p] \in {"idle", "genesis"}
  BY ExceptMap DEF Open, Maps
<1> QED BY <1>1, <1>2 DEF Reserved, Known, Confirmed

LEMMA ReservedGenesis ==
    ASSUME IsFiniteSet(Addr), NEW p \in Procs, Maps, NEW c, Stored(c, p), Books(c, p), Reserved(c, p),
           _create_and_persist_genesis_block(p), NEW new, Stored(new, p)', Books(new, p)'
    PROVE  Reserved(new, p)'
<1>1. pc[p] = "genesis" /\ c = <<>> /\ UNCHANGED <<mempool, mined, adding>>
  BY DEF _create_and_persist_genesis_block, Stored
<1>2. pc'[p] \in {"idle", "down"}
  BY ExceptMap DEF _create_and_persist_genesis_block, Maps
<1>3. db.transactions \subseteq db'.transactions
  BY DEF _create_and_persist_genesis_block, save_block, insert
<1>4. Confirmed \subseteq Confirmed'
  BY <1>3 DEF Confirmed
<1>5. Covered(mempool'[p], new)
  <2> SUFFICES ASSUME NEW a \in Addr PROVE pending_spend_for(mempool'[p], a) <= Balance(new, a)
    BY DEF Covered
  <2>1. pending_spend_for(mempool[p], a) <= Balance(c, a) /\ Balance(c, a) = 0
    BY <1>1, EmptyBalance DEF Reserved, Covered
  <2>2. Balance(new, a) \in Nat
    <3>1. (new = <<>> \/ Good(new)) /\ PayingChain(new)
      BY DEF Stored, Books
    <3> QED BY <3>1, EmptyBalance, ReplayFacts
  <2>3. pending_spend_for(mempool[p], a) \in Int
    BY SpendIsInt DEF Books
  <2> QED BY <1>1, <2>1, <2>2, <2>3
<1>6. Known(p) \subseteq Known(p)'
  BY <1>1, <1>4 DEF Known
<1> QED BY <1>1, <1>2, <1>5, <1>6 DEF Reserved

LEMMA ReservedSubmit ==
    ASSUME IsFiniteSet(Addr), NEW p \in Procs, BookInv(p), BookMaps, ~refused, ~torn, ClientsSendPayments,
           NEW c, Stored(c, p), Books(c, p), Reserved(c, p), NEW tx \in Submissions, submit_transaction(p, tx)
    PROVE  Reserved(c, p)'
<1>1. /\ pc[p] = "idle" /\ UNCHANGED <<db, pc, mined, adding>> /\ tx \notin mempool[p]
      /\ mempool' = [mempool EXCEPT ![p] = @ \cup {tx}]
  BY DEF submit_transaction, add_transaction
<1>2. mempool'[p] = mempool[p] \cup {tx}
  BY <1>1, ExceptMap DEF BookMaps
<1>3. IsPool(mempool[p]) /\ tx.amount \in Int
  BY DEF Books, ClientsSendPayments
<1>4. Covered(mempool[p], c)
  BY <1>1 DEF Reserved
<1>5. Covered(mempool[p] \cup {tx}, c)
  <2> SUFFICES ASSUME NEW a \in Addr PROVE pending_spend_for(mempool[p] \cup {tx}, a) <= Balance(c, a)
    BY DEF Covered
  <2>1. /\ pending_spend_for(mempool[p], a) \in Int
        /\ pending_spend_for(mempool[p] \cup {tx}, a)
           = pending_spend_for(mempool[p], a) + (IF tx.sender = a THEN tx.amount ELSE 0)
    BY <1>1, <1>3, SpendAdds
  <2>2. CASE tx.sender = a
    <3>1. ~is_coinbase(tx)
      BY <2>2, AddrIsAccount DEF is_coinbase
    <3>2. pending_spend_for(mempool[p], a) + tx.amount <= get_balance(db, a)
      BY <2>2, <3>1 DEF submit_transaction
    <3>3. get_balance(db, a) = Balance(c, a)
      BY <1>1, GetBalanceIs
    <3> QED BY <2>1, <2>2, <3>2, <3>3
  <2>3. CASE tx.sender # a
    <3>1. pending_spend_for(mempool[p], a) <= Balance(c, a)
      BY <1>4 DEF Covered
    <3> QED BY <2>1, <2>3, <3>1
  <2> QED BY <2>2, <2>3
<1>6. Known(p) \subseteq Known(p)'
  BY <1>1, <1>2 DEF Known, Confirmed
<1> QED BY <1>1, <1>2, <1>5, <1>6 DEF Reserved

LEMMA ReservedCommit ==
    ASSUME NEW p \in Procs, Maps, BookMaps, NEW c, Books(c, p), Reserved(c, p), commit_mined(p)
    PROVE  Reserved(c, p)'
<1>1. pc[p] = "idle" /\ mined[p] # <<>> /\ mined' = [mined EXCEPT ![p] = <<>>] /\ UNCHANGED <<db, mempool>>
  BY DEF commit_mined
<1>2. mined'[p] = <<>>
  BY <1>1, ExceptMap DEF BookMaps
<1>3. \A b : <<b>> # <<>>
  OBVIOUS
<1>4. Covered(mempool[p], c)
  BY <1>1 DEF Reserved
<1>5. CASE UNCHANGED <<pc, chain, adding>>
  BY <1>1, <1>2, <1>3, <1>4, <1>5 DEF Reserved
<1>6. CASE begin_append(p, mined[p][1])
  <2>1. PICK b : mined[p] = <<b>> /\ Assembled(b)
    BY <1>1 DEF Books
  <2>2. mined[p][1] = b
    BY <2>1
  <2>3. pc'[p] = "save" /\ adding'[p] = <<b>>
    BY <1>6, <2>2, ExceptMap DEF Maps, begin_append
  <2>4. adding'[p][1] = b
    BY <2>3
  <2>5. \A i \in 2..Len(b.transactions) : b.transactions[i] \in Known(p)
    BY <2>1 DEF Reserved
  <2>6. Known(p)' = Known(p)
    BY <1>1 DEF Known, Confirmed
  <2> QED BY <1>1, <1>2, <1>3, <1>4, <2>1, <2>3, <2>4, <2>5, <2>6 DEF Reserved
<1> QED BY <1>5, <1>6 DEF commit_mined

LEMMA ReservedSave ==
    ASSUME IsFiniteSet(Addr), NEW p \in Procs, Maps, BookMaps, NEW c, Stored(c, p), Books(c, p), Reserved(c, p),
           save(p), refused \in BOOLEAN, ~refused', NEW new, Stored(new, p)'
    PROVE  Reserved(new, p)'
<1>1. PICK b : /\ validate_block_against_chain(b, c) /\ Good(c) /\ HasPayments(b) /\ adding[p] = <<b>> /\ can_save(db, b)
               /\ new = Append(c, b) /\ adding' = adding /\ pc'[p] = "update"
               /\ db'.transactions = db.transactions \cup rows(b)
  BY BooksSave
<1>2. adding[p][1] = b /\ adding'[p][1] = b /\ pc[p] = "save" /\ UNCHANGED <<mempool, mined>>
  BY <1>1 DEF save
<1> DEFINE txs == b.transactions
           N == Len(txs)
<1>3. Assembled(b) /\ (\A i \in 2..N : txs[i] \in Known(p)) /\ Covered(mempool[p], c)
  BY <1>2 DEF Reserved
<1>4. keys_free(db, {b})
  BY <1>1 DEF can_save
<1>5. IsInjective(txs) /\ \A r \in rows(b), s \in db.transactions : r.tx # s.tx
  BY <1>4 DEF keys_free
<1>6. PayingChain(c) /\ IsPool(mempool[p])
  BY DEF Books
<1>7. Paying(b) /\ \A a \in Addr : Total(b, a) \in Int /\ Balance(new, a) = Balance(c, a) + Total(b, a)
  BY <1>1, <1>6, BalanceNext
<1>8. N \in Nat /\ DOMAIN txs = 1..N /\ Range(txs) = {txs[i] : i \in 1..N}
  BY <1>7, SequenceFacts DEF Paying, Range
<1>9. \A i \in 1..N : validate_transaction(txs[i])
  BY <1>1, <1>6, <1>8, Validated
<1>10. \A tx \in Range(txs) : \E r \in rows(b) : r.tx = tx
  <2> SUFFICES ASSUME NEW tx \in Range(txs) PROVE \E r \in rows(b) : r.tx = tx
    OBVIOUS
  <2> DEFINE r == [tx |-> tx, block_index |-> b.index]
  <2>1. r \in rows(b) /\ r.tx = tx
    BY DEF rows
  <2> QED BY <2>1
<1>11. ASSUME NEW i \in 1..N PROVE is_coinbase(txs[i]) \/ txs[i] \in mempool[p]
  <2>1. CASE i = 1
    BY <1>3, <2>1 DEF Assembled
  <2>2. CASE i # 1
    <3>1. i \in 2..N /\ txs[i] \in Range(txs)
      BY <1>8, <2>2
    <3>2. txs[i] \notin Confirmed
      BY <1>5, <1>10, <3>1 DEF Confirmed
    <3> QED BY <1>3, <3>1, <3>2 DEF Known
  <2> QED BY <2>1, <2>2
<1>12. Covered(mempool[p] \ Range(txs), new)
  <2> SUFFICES ASSUME NEW a \in Addr PROVE pending_spend_for(mempool[p] \ Range(txs), a) <= Balance(new, a)
    BY DEF Covered
  <2> DEFINE B == Balance(c, a)
             T == mempool[p]
  <2>1. pending_spend_for(T, a) <= B
    BY <1>3 DEF Covered
  <2>2. B \in Int
    <3>1. B \in Nat
      BY <1>1, <1>6, ReplayFacts
    <3> QED BY <3>1
  <2> HIDE DEF B, T
  <2>3. IsPool(T) /\ \A i \in 1..N : is_coinbase(txs[i]) \/ txs[i] \in T
    BY <1>6, <1>11 DEF T
  <2>4. pending_spend_for(T \ Range(txs), a) <= B + Total(b, a)
    BY <1>5, <1>7, <1>9, <2>1, <2>2, <2>3, BlockSpends
  <2> QED BY <1>7, <2>4 DEF B, T
<1>13. Range(txs) \subseteq Confirmed' /\ Confirmed \subseteq Confirmed'
  BY <1>1, <1>10 DEF Confirmed
<1>14. Known(p) \subseteq Known(p)'
  BY <1>2, <1>13 DEF Known
<1>15. Covered(mempool'[p] \ Range(adding'[p][1].transactions), new) /\ Range(adding'[p][1].transactions) \subseteq Confirmed'
  BY <1>2, <1>12, <1>13
<1>16. \A x : mined'[p] = <<x>> => \A i \in 2..Len(x.transactions) : x.transactions[i] \in Known(p)'
  BY <1>2, <1>14 DEF Reserved
<1> QED BY <1>1, <1>15, <1>16 DEF Reserved

LEMMA ReservedUpdate ==
    ASSUME NEW p \in Procs, OneInv(p), Maps, BookMaps, NEW c, Books(c, p), Reserved(c, p), update_balances(p)
    PROVE  Reserved(c, p)'
<1> DEFINE txs == Range(adding[p][1].transactions)
<1>1. pc[p] = "update" /\ UNCHANGED mined
  BY DEF update_balances
<1>2. Covered(mempool[p] \ txs, c) /\ txs \subseteq Confirmed
  BY <1>1 DEF Reserved
<1>3. db'.transactions = db.transactions
  <2>1. IsTables(db) /\ \E v : db' = [db EXCEPT !.wallets = v]
    BY DEF OneInv, Agree, update_balances
  <2> QED BY <2>1 DEF IsTables
<1>4. Confirmed' = Confirmed
  BY <1>3 DEF Confirmed
<1>5. CASE mempool' = [mempool EXCEPT ![p] = @ \ txs] /\ pc' = [pc EXCEPT ![p] = "idle"]
  <2>1. mempool'[p] = mempool[p] \ txs /\ pc'[p] = "idle"
    BY <1>5, ExceptMap DEF Maps, BookMaps
  <2>2. Known(p) \subseteq Known(p)'
    BY <1>2, <1>4, <2>1 DEF Known
  <2>3. Covered(mempool'[p], c)
    BY <1>2, <2>1
  <2> HIDE DEF txs
  <2> QED BY <1>1, <2>1, <2>2, <2>3 DEF Reserved
<1>6. CASE UNCHANGED <<mempool, adding, pc>>
  BY <1>1, <1>4, <1>6 DEF Reserved, Known
<1> QED BY <1>5, <1>6 DEF update_balances, remove_transactions

LEMMA ReservedCrash ==
    ASSUME IsFiniteSet(Addr), NEW p \in Procs, Maps, BookMaps, NEW c, Crash(p), NEW new, Stored(new, p)', Books(new, p)'
    PROVE  Reserved(new, p)'
<1>1. pc'[p] = "down" /\ mempool'[p] = {} /\ mined'[p] = <<>>
  BY ExceptMap DEF Crash, Maps, BookMaps
<1>2. \A b : <<b>> # <<>>
  OBVIOUS
<1>3. Covered({}, new)
  <2> SUFFICES ASSUME NEW a \in Addr PROVE pending_spend_for({}, a) <= Balance(new, a)
    BY DEF Covered
  <2>1. (new = <<>> \/ Good(new)) /\ PayingChain(new)
    BY DEF Stored, Books
  <2>2. Balance(new, a) \in Nat
    BY <2>1, EmptyBalance, ReplayFacts
  <2> QED BY <2>2, SpendOfNone
<1> QED BY <1>1, <1>2, <1>3 DEF Reserved

-----------------------------------------------------------------------------

LEMMA ReservedMining ==
    ASSUME NEW p \in Procs, BookMaps, NEW c, Stored(c, p), Books(c, p), Reserved(c, p), NEW miner,
           start_mining(p, miner), NEW new, Stored(new, p)'
    PROVE  Reserved(new, p)'
<1>1. PICK b : /\ new = c /\ mined'[p] = <<b>>
               /\ \A i \in 2..Len(b.transactions) : b.transactions[i] \in mempool[p]
  BY BooksMining
<1>2. UNCHANGED <<db, pc, mempool, adding>>
  BY DEF start_mining
<1>3. \A x : mined'[p] = <<x>> => x = b
  BY <1>1
<1>4. Known(p)' = Known(p) /\ Confirmed' = Confirmed
  BY <1>2 DEF Known, Confirmed
<1>5. \A x : mined'[p] = <<x>> => \A i \in 2..Len(x.transactions) : x.transactions[i] \in Known(p)'
  BY <1>1, <1>3, <1>4 DEF Known
<1> QED BY <1>1, <1>2, <1>4, <1>5 DEF Reserved

PoolInv(p) ==
    /\ BookInv(p)
    /\ refused \/ torn \/ p \in foreign \/ \A c : Stored(c, p) /\ Books(c, p) => Reserved(c, p)

LEMMA PoolInit == ASSUME IsFiniteSet(Addr), NEW p, Procs = {p} PROVE Init => PoolInv(p)
<1> SUFFICES ASSUME Init PROVE PoolInv(p)
  OBVIOUS
<1>1. mempool[p] = {} /\ mined[p] = <<>> /\ pc[p] = "down"
  BY DEF Init
<1>2. ASSUME NEW c, Stored(c, p), Books(c, p) PROVE Reserved(c, p)
  <2>1. \A b : <<b>> # <<>>
    OBVIOUS
  <2>2. (c = <<>> \/ Good(c)) /\ PayingChain(c)
    BY <1>2 DEF Stored, Books
  <2>3. \A a \in Addr : Balance(c, a) \in Nat
    BY <2>2, EmptyBalance, ReplayFacts
  <2>4. Covered({}, c)
    BY <2>3, SpendOfNone DEF Covered
  <2> QED BY <1>1, <2>1, <2>4 DEF Reserved
<1> QED BY <1>2, BookInit DEF PoolInv

LEMMA ReservedStep ==
    ASSUME IsFiniteSet(Addr), NEW p, Procs = {p}, ClientsSendPayments, BookInv(p), [Next]_vars, Maps, BookMaps,
           ~refused', ~refused, ~torn', p \notin foreign',
           NEW c, Stored(c, p), Books(c, p), torn \/ p \in foreign \/ Reserved(c, p),
           NEW new, Stored(new, p)', Books(new, p)'
    PROVE  Reserved(new, p)'
<1>0. p \in Procs /\ OneInv(p) /\ refused \in BOOLEAN
  BY DEF BookInv, OneInv
<1>1. CASE Crash(p)
  BY <1>0, <1>1, ReservedCrash
<1>2. CASE ~Crash(p)
  <2>1. ~(\E block \in PeerBlocks(chain[p]) : append_received(p, block))
    BY DEF append_received
  <2>2. ~(\E candidate \in PeerChains(chain[p]) : replace_chain(p, candidate))
    BY DEF replace_chain
  <2>3. \/ Open(p) \/ _create_and_persist_genesis_block(p)
        \/ \E tx \in Submissions : submit_transaction(p, tx)
        \/ \E a \in Miners : start_mining(p, a)
        \/ commit_mined(p) \/ save(p) \/ update_balances(p) \/ UNCHANGED vars
    BY <1>2, <2>1, <2>2 DEF Next
  <2>4. torn' = torn /\ foreign' = foreign
    BY <2>3 DEF Open, _create_and_persist_genesis_block, submit_transaction, start_mining, commit_mined, save,
                update_balances, vars
  <2>5. ~torn /\ Reserved(c, p)
    BY <2>4
  <2>6. CASE Open(p)
    <3>1. new = c
      BY <1>0, <2>6, SameBooks DEF Open
    <3> QED BY <1>0, <2>5, <2>6, <3>1, ReservedOpen
  <2>7. CASE _create_and_persist_genesis_block(p)
    BY <1>0, <2>5, <2>7, ReservedGenesis
  <2>8. CASE \E tx \in Submissions : submit_transaction(p, tx)
    <3>1. PICK tx \in Submissions : submit_transaction(p, tx)
      BY <2>8
    <3>2. new = c
      BY <1>0, <3>1, SameBooks DEF submit_transaction
    <3> QED BY <1>0, <2>5, <3>1, <3>2, ReservedSubmit
  <2>9. CASE \E a \in Miners : start_mining(p, a)
    BY <1>0, <2>5, <2>9, ReservedMining
  <2>10. CASE commit_mined(p)
    <3>1. new = c
      BY <1>0, <2>10, SameBooks DEF commit_mined
    <3> QED BY <1>0, <2>5, <2>10, <3>1, ReservedCommit
  <2>11. CASE save(p)
    BY <1>0, <2>5, <2>11, ReservedSave
  <2>12. CASE update_balances(p)
    <3>1. new = c
      BY <1>0, <2>12, BooksUpdate
    <3> QED BY <1>0, <2>5, <2>12, <3>1, ReservedUpdate
  <2>13. CASE UNCHANGED vars
    <3>1. new = c
      BY <1>0, <2>13, SameBooks DEF vars
    <3>2. Reserved(c, p)'
      BY <2>5, <2>13 DEF vars, memory, Reserved, Known, Confirmed
    <3> QED BY <3>1, <3>2
  <2> QED BY <2>3, <2>6, <2>7, <2>8, <2>9, <2>10, <2>11, <2>12, <2>13
<1> QED BY <1>1, <1>2

LEMMA PoolInductive ==
    ASSUME IsFiniteSet(Addr), NEW p, Procs = {p}, PeersSendLists, PeersSendPayments, ClientsSendPayments,
           PoolInv(p), [Next]_vars
    PROVE  PoolInv(p)'
<1>1. BookInv(p) /\ BookInv(p)'
  BY BookInductive DEF PoolInv
<1>2. refused \in BOOLEAN /\ refused' \in BOOLEAN /\ (refused => refused')
  BY <1>1, RefusedStays DEF BookInv, OneInv
<1>3. CASE refused' \/ torn' \/ p \in foreign'
  BY <1>1, <1>3 DEF PoolInv
<1>4. CASE ~refused' /\ ~torn' /\ p \notin foreign'
  <2>1. PICK c : Maps /\ BookMaps /\ Stored(c, p) /\ Books(c, p)
    BY <1>1, <1>2, <1>4 DEF BookInv
  <2>2. ~refused /\ (torn \/ p \in foreign \/ Reserved(c, p))
    BY <1>2, <1>4, <2>1 DEF PoolInv
  <2>3. ASSUME NEW new, Stored(new, p)', Books(new, p)' PROVE Reserved(new, p)'
    BY <1>1, <1>4, <2>1, <2>2, <2>3, ReservedStep
  <2> QED BY <1>1, <2>3 DEF PoolInv
<1> QED BY <1>3, <1>4

LEMMA PoolImplies ==
    ASSUME IsFiniteSet(Addr), NEW p, Procs = {p}, PoolInv(p)
    PROVE  PoolAffordable
<1> SUFFICES ASSUME p \notin foreign, pc[p] = "idle", ~refused, ~torn, NEW a \in Addr
             PROVE  pending_spend_for(mempool[p], a) <= get_balance(db, a)
  BY DEF PoolAffordable
<1>1. BookInv(p)
  BY DEF PoolInv
<1>2. PICK c : Stored(c, p) /\ Books(c, p) /\ Reserved(c, p)
  BY DEF PoolInv, BookInv
<1>3. pending_spend_for(mempool[p], a) <= Balance(c, a)
  BY <1>2 DEF Reserved, Covered
<1>4. get_balance(db, a) = Balance(c, a)
  BY <1>1, <1>2, GetBalanceIs
<1> QED BY <1>3, <1>4

(* In a node whose database no other process uses, what the pool of a      *)
(* sender spends is never more than the confirmed balance, as long as the  *)
(* chain grows by the node's own blocks: whatever is submitted, again and  *)
(* again or while a block is searched for, and whichever block of stale    *)
(* content is committed (blockchain.py submit_transaction, mine_block).    *)
THEOREM PoolStaysAffordable ==
    ASSUME NEW p, Procs = {p}, IsFiniteSet(Addr), PeersSendLists, PeersSendPayments, ClientsSendPayments
    PROVE  Spec => []PoolAffordable
<1>1. Init => PoolInv(p)
  BY PoolInit
<1>2. PoolInv(p) /\ [Next]_vars => PoolInv(p)'
  BY PoolInductive
<1>3. PoolInv(p) => PoolAffordable
  BY PoolImplies
<1> QED BY <1>1, <1>2, <1>3, PTL DEF Spec

-----------------------------------------------------------------------------
(* The block of an admitted pool. *)

(* A wallet sends transfers: only a miner makes a coinbase. *)
WalletsSendTransfers ==
    \A tx \in Transfers : tx.amount \in Int /\ tx.timestamp \in Int /\ ~is_coinbase(tx)

Transfer(tx) == tx.amount \in Int /\ ~is_coinbase(tx) /\ validate_transaction(tx)

LEMMA TransferIs ==
    ASSUME NEW tx, Transfer(tx)
    PROVE  tx.sender \in Addr /\ IsPayment(tx) /\ tx.amount > 0
  BY AddrIsAccount DEF Transfer, IsPayment, validate_transaction, validate_base_units, verify, is_valid_address

LEMMA SpendIsNat ==
    ASSUME NEW T, IsPool(T), \A tx \in T : Transfer(tx), NEW a
    PROVE  pending_spend_for(T, a) \in Nat
<1> DEFINE R == Sent(T, a)
<1>1. R \in SUBSET T /\ IsFiniteSet(T)
  BY DEF Sent, IsPool
<1>2. \A x \in R : Prices(R)[x] \in Nat
  <2>1. \A x \in T : x.amount \in Nat
    BY TransferIs DEF Transfer
  <2> QED BY <1>1, <2>1 DEF Prices
<1>3. IsFiniteSet(R)
  BY <1>1, FS_Subset
<1> HIDE DEF R
<1>4. SumFunctionOnSet(Prices(R), R) \in Nat
  BY <1>2, <1>3, SumIsNat
<1> QED BY <1>4, SpendIs DEF R

(* A state that can pay for everything in T. *)
Solvent(s, T) ==
    /\ IsState(s) /\ s.ok /\ s.balances \in [Accounts -> Int]
    /\ \A a \in Addr : pending_spend_for(T, a) <= s.balances[a]

LEMMA SolventStep ==
    ASSUME NEW T, IsPool(T), \A tx \in T : Transfer(tx), NEW s, Solvent(s, T), NEW tx \in T
    PROVE  Solvent(replay_transaction(s, tx), T \ {tx})
<1> DEFINE R == T \ {tx}
           bal == s.balances
           r == [s EXCEPT !.balances = move(bal, tx)]
<1>1. IsPool(R) /\ tx \notin R /\ R \cup {tx} = T /\ tx.amount \in Int /\ tx.amount > 0 /\ tx.sender \in Addr /\ IsPayment(tx)
  BY PoolShrinks, TransferIs DEF Transfer
<1>2. \A x \in R : Transfer(x)
  OBVIOUS
<1>3. IsState(s) /\ s.ok /\ bal \in [Accounts -> Int] /\ \A a \in Addr : pending_spend_for(T, a) <= bal[a] /\ a \in Accounts
  BY AddrIsAccount DEF Solvent
<1> HIDE DEF R, bal
<1>4. ASSUME NEW a
      PROVE  /\ pending_spend_for(R, a) \in Nat
             /\ pending_spend_for(T, a) = pending_spend_for(R, a) + (IF tx.sender = a THEN tx.amount ELSE 0)
  <2>1. pending_spend_for(R, a) \in Nat
    BY <1>1, <1>2, SpendIsNat
  <2>2. pending_spend_for(R \cup {tx}, a) = pending_spend_for(R, a) + (IF tx.sender = a THEN tx.amount ELSE 0)
    BY <1>1, SpendAdds
  <2> QED BY <1>1, <2>1, <2>2
<1>5. tx.amount <= bal[tx.sender]
  <2> DEFINE x == tx.sender
  <2>1. pending_spend_for(R, x) \in Nat /\ pending_spend_for(T, x) = pending_spend_for(R, x) + tx.amount
    BY <1>4
  <2>2. pending_spend_for(T, x) <= bal[x] /\ bal[x] \in Int
    BY <1>1, <1>3
  <2> QED BY <1>1, <2>1, <2>2
<1>6. replay_transaction(s, tx) = r
  BY <1>3, <1>5 DEF replay_transaction, Transfer, bal
<1>7. r.ok /\ r.balances = move(bal, tx) /\ IsState(r)
  BY <1>3 DEF IsState
<1> HIDE DEF r
<1>8. COINBASE_SENDER \in Accounts
  BY DEF Accounts
<1>9. move(bal, tx) \in [Accounts -> Int]
  BY <1>1, <1>3, <1>8, MoveEffect
<1>10. ASSUME NEW a \in Addr PROVE pending_spend_for(R, a) <= move(bal, tx)[a]
  <2> DEFINE out == IF tx.sender = a THEN tx.amount ELSE 0
             in == IF tx.receiver = a THEN tx.amount ELSE 0
  <2>1. move(bal, tx)[a] = bal[a] + Effect(tx, a) /\ bal[a] \in Int
    BY <1>1, <1>3, MoveEffect
  <2>2. Effect(tx, a) = in - out /\ in \in Int /\ out \in Int /\ in >= 0
    BY <1>1 DEF Effect
  <2>3. pending_spend_for(R, a) \in Nat /\ pending_spend_for(T, a) = pending_spend_for(R, a) + out
    BY <1>4
  <2>4. pending_spend_for(T, a) <= bal[a]
    BY <1>3
  <2> HIDE DEF in, out
  <2> QED BY <2>1, <2>2, <2>3, <2>4
<1> QED BY <1>6, <1>7, <1>9, <1>10 DEF Solvent, R

(* Transfers of a pool that the state can pay for are replayed without a   *)
(* failure, in whichever order they come.                                  *)
LEMMA PoolReplays ==
    ASSUME NEW T, IsPool(T), \A tx \in T : Transfer(tx), NEW s, Solvent(s, T),
           NEW txs, Len(txs) \in Nat, is_coinbase(txs[1]), \A i \in 2..Len(txs) : txs[i] \in T,
           \A i, j \in 2..Len(txs) : i # j => txs[i] # txs[j]
    PROVE  replay_transactions(s, txs).ok
<1> DEFINE N == Len(txs)
           R(n) == T \ {txs[i] : i \in 2..n}
<1>1. PICK f : /\ replay_transactions(s, txs) = f[N] /\ f[0] = s
               /\ \A i \in 1..N : f[i] = replay_transaction(f[i - 1], txs[i])
  BY TransfersAre
<1> DEFINE S == {n \in Nat : n <= N => Solvent(f[n], R(n))}
<1>2. 0 \in S
  <2>1. R(0) = T
    OBVIOUS
  <2> HIDE DEF R
  <2> QED BY <1>1, <2>1
<1>3. ASSUME NEW n \in S PROVE n + 1 \in S
  <2>0. n \in Nat /\ (n <= N => Solvent(f[n], R(n)))
    OBVIOUS
  <2> DEFINE q == n + 1
  <2> HIDE DEF S
  <2> SUFFICES ASSUME q <= N PROVE Solvent(f[q], R(q))
    BY <2>0 DEF S
  <2>1. q \in 1..N /\ q - 1 = n /\ n <= N
    BY <2>0
  <2>2. (q = 1 \/ q \in 2..N) /\ \A i \in 2..n : i \in 2..N /\ i # q
    BY <2>0, <2>1
  <2>3. q = 1 \/ 2..q = (2..n) \cup {q}
    BY <2>0
  <2>4. q = 1 => n = 0
    BY <2>0
  <2> HIDE DEF q
  <2>5. f[q] = replay_transaction(f[n], txs[q]) /\ Solvent(f[n], R(n))
    BY <1>1, <2>0, <2>1
  <2>6. CASE q = 1
    <3>1. R(1) = T /\ R(0) = T
      OBVIOUS
    <3> HIDE DEF R
    <3>2. f[q] = f[n]
      BY <2>5, <2>6 DEF replay_transaction
    <3> QED BY <2>4, <2>5, <2>6, <3>1, <3>2
  <2>7. CASE q \in 2..N /\ q # 1
    <3> DEFINE tx == txs[q]
    <3>1. tx \in R(n)
      <4>1. tx \in T /\ \A i \in 2..n : txs[i] # tx
        BY <2>2, <2>7
      <4> QED BY <4>1
    <3>2. R(q) = R(n) \ {tx}
      BY <2>3, <2>7
    <3>3. IsPool(R(n)) /\ \A x \in R(n) : Transfer(x)
      BY PoolShrinks
    <3> HIDE DEF R, tx
    <3>4. Solvent(replay_transaction(f[n], tx), R(n) \ {tx})
      BY <2>5, <3>1, <3>3, SolventStep
    <3> QED BY <2>5, <3>2, <3>4 DEF tx
  <2> QED BY <2>2, <2>6, <2>7
<1>4. S = Nat
  <2>1. S \in SUBSET Nat
    OBVIOUS
  <2> HIDE DEF S
  <2> QED BY <1>2, <1>3, <2>1, NatSetInduction
<1>5. N \in S
  BY <1>4
<1>6. Solvent(f[N], R(N))
  <2>1. N \in Nat /\ N <= N
    OBVIOUS
  <2> QED BY <1>5, <2>1
<1> QED BY <1>1, <1>6 DEF Solvent

-----------------------------------------------------------------------------

LEMMA RewardIs ==
    ASSUME NEW n \in Nat, due_reward(n) > 0
    PROVE  due_reward(n) \in Nat /\ validate_base_units(due_reward(n))
<1>1. block_reward \in Nat /\ MAX_SUPPLY_BASE_UNITS \in Nat /\ MAX_SUPPLY_BASE_UNITS - n \in Int
  BY PyRulesAssumption
<1>2. due_reward(n) = IF block_reward <= MAX_SUPPLY_BASE_UNITS - n THEN block_reward ELSE MAX_SUPPLY_BASE_UNITS - n
  BY <1>1, MinOfTwo DEF due_reward
<1> QED BY <1>1, <1>2 DEF validate_base_units

(* What was admitted one by one can be paid for together. *)
LEMMA AdmittedIsCovered ==
    ASSUME NEW T, IsPool(T), \A tx \in T : Transfer(tx), NEW bal, bal \in [Accounts -> Nat],
           \A tx \in T : affordable(tx, T \ {tx}, bal[tx.sender]), NEW a \in Addr
    PROVE  pending_spend_for(T, a) <= bal[a]
<1>1. bal[a] \in Nat
  BY AddrIsAccount
<1>2. CASE Sent(T, a) = {}
  <2>1. pending_spend_for(T, a) = 0
    BY <1>2, SpendIs, SumOfNone
  <2> QED BY <1>1, <2>1
<1>3. CASE Sent(T, a) # {}
  <2>1. PICK tx \in T : tx.sender = a
    BY <1>3 DEF Sent
  <2> DEFINE R == T \ {tx}
  <2>2. IsPool(R) /\ tx \notin R /\ R \cup {tx} = T /\ tx.amount \in Int
    BY PoolShrinks DEF IsPool
  <2>3. pending_spend_for(R, a) + tx.amount <= bal[a]
    BY <2>1 DEF affordable, Transfer
  <2> HIDE DEF R
  <2>4. pending_spend_for(R \cup {tx}, a) = pending_spend_for(R, a) + (IF tx.sender = a THEN tx.amount ELSE 0)
    BY <2>2, SpendAdds
  <2> QED BY <2>1, <2>2, <2>3, <2>4
<1> QED BY <1>2, <1>3

LEMMA PoolIsAccepted ==
    ASSUME MoneyInv, WalletsSendTransfers, IsFiniteSet(Transfers),
           NEW s, s = _state_from_chain(ledger), due_reward(s.supply) > 0,
           NEW pool \in SUBSET {tx \in Transfers : validate_transaction(tx)},
           \A tx \in pool : affordable(tx, pool \ {tx}, s.balances[tx.sender]), NEW a \in Addr,
           NEW b, b = mine_block(Last(ledger).index + 1, hash(Last(ledger)), get_pending(pool), a,
                                 expected_difficulty(ledger), due_reward(s.supply), Last(ledger).timestamp + 1)
    PROVE  validate_block_against_chain(b, ledger)
<1> DEFINE top == Last(ledger)
           n == Issued(Len(ledger) - 1)
           due == due_reward(s.supply)
           d == expected_difficulty(ledger)
           txs == b.transactions
           N == Len(txs)
           cb == Transaction(COINBASE_SENDER, a, due, top.timestamp + 1, "none")
<1>1. /\ IsSequence(ledger) /\ Len(ledger) \in Nat /\ Len(ledger) > 0 /\ Rated(ledger)
      /\ top.timestamp \in Int /\ top.index \in Nat
  <2>1. ShapeInv /\ Last(ledger).index \in Nat
    BY DEF MoneyInv
  <2>2. IsSequence(ledger) /\ Len(ledger) > 0 /\ Rated(ledger)
    BY <2>1 DEF ShapeInv, Rated
  <2>3. Len(ledger) \in Nat
    BY <2>2, SequenceFacts
  <2>4. IsBlock(ledger[Len(ledger)])
    BY <2>1, <2>2, <2>3 DEF ShapeInv
  <2> QED BY <2>1, <2>2, <2>3, <2>4 DEF IsBlock, Last
<1>2. s.ok /\ IsState(s) /\ s.balances \in [Accounts -> Nat] /\ s.supply \in Nat
  <2>1. s.ok /\ Settled(s, n)
    BY DEF MoneyInv
  <2>2. n \in Nat
    <3> DEFINE k == Len(ledger) - 1
    <3>1. k \in Nat
      BY <1>1
    <3> HIDE DEF k
    <3> QED BY <3>1, IssuedNext DEF k
  <2> QED BY <2>1, <2>2 DEF Settled, IsState
<1>3. due \in Nat /\ due > 0 /\ validate_base_units(due)
  BY <1>2, RewardIs
<1>4. d \in Nat
  BY <1>1, ExpectedDifficultyIsNat
<1>5. IsPool(pool) /\ \A tx \in pool : Transfer(tx)
  <2>1. IsFiniteSet(pool)
    BY FS_Subset
  <2> QED BY <2>1 DEF IsPool, WalletsSendTransfers, Transfer
<1>6. /\ b.index = top.index + 1 /\ b.previous_hash = hash(top) /\ b.timestamp = top.timestamp + 1
      /\ b.difficulty = d /\ b.zeros = d /\ b.intact
  BY DEF mine_block, mine
<1>7. /\ IsSequence(txs) /\ N > 0 /\ txs[1] = cb /\ (\A i \in 2..N : txs[i] \in pool)
      /\ \A i, j \in 2..N : i # j => txs[i] # txs[j]
  <2> DEFINE i1 == top.index + 1
             h1 == hash(top)
             t1 == top.timestamp + 1
  <2>1. b = mine_block(i1, h1, get_pending(pool), a, d, due, t1)
    OBVIOUS
  <2> HIDE DEF i1, h1, t1, d, due
  <2>2. Assembled(b) /\ MadeOf(b, Transaction(COINBASE_SENDER, a, due, t1, "none"), pool)
    BY ONLY <1>5, <2>1, MinedIs
  <2> QED BY <2>2 DEF Assembled, MadeOf, t1
<1>8. N \in Nat /\ DOMAIN txs = 1..N
  BY <1>7, SequenceFacts
<1>9. /\ is_coinbase(cb) /\ cb.amount = due /\ cb.receiver = a /\ validate_transaction(cb)
  BY <1>3 DEF is_coinbase, Transaction, validate_transaction, verify, is_valid_address
<1> HIDE DEF top, due, d, cb, txs, N
<1>10. \A i \in 1..N : validate_transaction(txs[i]) /\ (is_coinbase(txs[i]) <=> i = 1)
  <2> SUFFICES ASSUME NEW i \in 1..N PROVE validate_transaction(txs[i]) /\ (is_coinbase(txs[i]) <=> i = 1)
    OBVIOUS
  <2>1. CASE i = 1
    BY <1>7, <1>9, <2>1
  <2>2. CASE i # 1
    <3>1. i \in 2..N
      BY <1>8, <2>2
    <3> QED BY <1>5, <1>7, <2>2, <3>1 DEF Transfer
  <2> QED BY <2>1, <2>2
<1>11. coinbases(b) = {1} /\ Cardinality(coinbases(b)) = 1 /\ the_coinbase(b) = cb
  <2>1. 1 \in 1..N
    BY <1>7, <1>8
  <2>2. coinbases(b) = {1}
    BY <1>8, <1>10, <2>1 DEF coinbases, txs
  <2> QED BY <1>7, <2>2, FS_Singleton DEF the_coinbase, txs
<1>12. validate_block_structure(b, {due})
  BY <1>1, <1>3, <1>6, <1>8, <1>9, <1>10, <1>11 DEF validate_block_structure, validate_base_units, txs
<1> DEFINE p == pay_reward(s, a)
<1>13. Solvent(p, pool)
  <2> DEFINE f == s.balances
             g == [f EXCEPT ![a] = f[a] + due]
  <2>1. p = [balances |-> g, supply |-> s.supply + due, ok |-> s.ok]
    BY DEF pay_reward, due
  <2>2. IsState(p) /\ p.ok /\ p.balances = g
    BY <1>2, <2>1 DEF IsState
  <2>3. f \in [Accounts -> Nat] /\ a \in Accounts
    BY <1>2, AddrIsAccount
  <2>4. \A x \in Addr : pending_spend_for(pool, x) <= f[x] /\ pending_spend_for(pool, x) \in Nat /\ f[x] \in Nat /\ x \in Accounts
    BY <1>5, <2>3, AdmittedIsCovered, SpendIsNat, AddrIsAccount
  <2> HIDE DEF f, p
  <2>5. g \in [Accounts -> Int] /\ \A x \in Accounts : g[x] = IF x = a THEN f[x] + due ELSE f[x]
    BY <1>3, <2>3
  <2> HIDE DEF g
  <2>6. ASSUME NEW x \in Addr PROVE pending_spend_for(pool, x) <= g[x]
    BY <1>3, <2>4, <2>5
  <2> QED BY <2>2, <2>5, <2>6 DEF Solvent
<1>14. replay_transactions(p, txs).ok
  <2> HIDE DEF p
  <2> QED BY <1>5, <1>7, <1>8, <1>9, <1>13, PoolReplays
<1>15. replay_block(s, b).ok
  <2>1. b.index # 0
    BY <1>1, <1>6
  <2>2. replay_block(s, b) = replay_transactions(p, txs)
    BY <1>2, <1>3, <1>9, <1>11, <2>1 DEF replay_block, due, txs
  <2> QED BY <1>14, <2>2
<1>16. _state_from_chain(Append(ledger, b)).ok
  BY <1>1, <1>15, ReplayOfAppend
<1>17. validate(b, d) /\ b.timestamp > top.timestamp
  BY <1>1, <1>4, <1>6 DEF validate, meets_difficulty
<1> QED BY <1>2, <1>3, <1>6, <1>12, <1>16, <1>17 DEF validate_block_against_chain, top, due, d

(* Whatever the mempool has admitted one by one, the block that the miner  *)
(* assembles from all of it is one that the node accepts, for every chain  *)
(* grown under the rules, every pool and every miner, as long as a reward  *)
(* is left (blockchain.py submit_transaction, mine_pending_transactions).  *)
THEOREM AdmittedPoolIsMinable ==
    ASSUME IsFiniteSet(Addr), OffersAreBlocks, OffersHavePayments, WalletsSendTransfers, IsFiniteSet(Transfers)
    PROVE  LedgerSpec => []AdmittedPoolMines
<1>1. LedgerInit => MoneyInv
  BY MoneyInit
<1>2. MoneyInv /\ [LedgerNext]_ledger => MoneyInv'
  BY MoneyInductive
<1>3. MoneyInv => AdmittedPoolMines
  <2> SUFFICES ASSUME MoneyInv PROVE AdmittedPoolMines
    OBVIOUS
  <2> DEFINE s == _state_from_chain(ledger)
  <2>1. ASSUME NEW pool \in SUBSET {tx \in Transfers : validate_transaction(tx)}, due_reward(s.supply) > 0,
               \A tx \in pool : affordable(tx, pool \ {tx}, s.balances[tx.sender]), NEW a \in Addr
        PROVE  validate_block_against_chain(
                   mine_block(Last(ledger).index + 1, hash(Last(ledger)), get_pending(pool), a,
                              expected_difficulty(ledger), due_reward(s.supply), Last(ledger).timestamp + 1), ledger)
    BY <2>1, PoolIsAccepted
  <2> QED BY <2>1 DEF AdmittedPoolMines
<1> QED BY <1>1, <1>2, <1>3, PTL DEF LedgerSpec
=============================================================================
