---------------------------- MODULE LedgerProofs ----------------------------
(***************************************************************************)
(* Proofs about modules ChainRules and Ledger: for every protocol version, *)
(* genesis allocation, reward, mining budget and offered block, the        *)
(* incremental and the full rules agree, coins are moved, never made, and  *)
(* the miner's own chain takes the block that the miner builds.  The       *)
(* difficulty rule and proof of work stay opaque: every side asks the same *)
(* question of the same prefix.                                            *)
(***************************************************************************)
EXTENDS Ledger, DataLemmas

(* A snapshot whose books balance. *)
IsState(s) ==
    /\ s = [balances |-> s.balances, nonces |-> s.nonces, genesisSupply |-> s.genesisSupply,
            miningIssued |-> s.miningIssued, supply |-> s.supply]
    /\ s.balances \in [Addresses -> Nat]
    /\ s.nonces \in [Addresses -> Nat]
    /\ s.genesisSupply = genesisSnapshot.genesisSupply
    /\ s.genesisSupply \in Int
    /\ s.miningIssued \in Nat
    /\ s.supply = s.genesisSupply + s.miningIssued
    /\ TotalOf(s.balances, Addresses)[Addresses] = s.supply

(* What a decoded transaction and block are: amounts and nonces are        *)
(* unsigned, receivers are addresses.                                      *)
IsTx(tx) ==
    /\ tx.amount \in Nat /\ tx.nonce \in Nat
    /\ tx.receiver \in Addresses
    /\ isCoinbase(tx) \/ tx.sender \in Addresses

HasTxs(b) == IsSequence(b.txs) /\ \A k \in 1..Len(b.txs) : IsTx(b.txs[k])

AllHaveTxs(c) == IsSequence(c) /\ \A i \in 1..Len(c) : HasTxs(c[i])

(* What is offered to a chain of blocks are blocks. *)
OffersAreBlocks == \A c : AllHaveTxs(c) => \A b \in Offers(c) : HasTxs(b)

(* The error result is not a snapshot. *)
ErrorIsNoState == \A s : IsState(s) => s # Invalid

-----------------------------------------------------------------------------
(* A credit or a debit of one account. *)
LEMMA BalanceChange ==
    ASSUME IsFiniteSet(Addresses), NEW f \in [Addresses -> Int], NEW g \in [Addresses -> Int],
           NEW a \in Addresses, NEW d \in Int, g[a] = f[a] + d, \A x \in Addresses : x # a => g[x] = f[x]
    PROVE  /\ TotalOf(f, Addresses)[Addresses] \in Int
           /\ TotalOf(g, Addresses)[Addresses] = TotalOf(f, Addresses)[Addresses] + d
<1>1. \A x \in Addresses : f[x] \in Int /\ g[x] \in Int
  OBVIOUS
<1>2. /\ TotalOf(f, Addresses)[Addresses] \in Int
      /\ TotalOf(g, Addresses)[Addresses] = TotalOf(f, Addresses)[Addresses] + (g[a] - f[a])
  BY <1>1, TotalUpdate
<1>3. f[a] \in Int /\ g[a] - f[a] = d
  OBVIOUS
<1> QED BY <1>2, <1>3

(* A snapshot with a coinbase booked. *)
Issued(s, tx) ==
    [balances      |-> credit(s.balances, tx.receiver, tx.amount),
     nonces        |-> s.nonces,
     genesisSupply |-> s.genesisSupply,
     miningIssued  |-> s.miningIssued + tx.amount,
     supply        |-> s.supply + tx.amount]

LEMMA IssuedBalances ==
    ASSUME IsFiniteSet(Addresses), NEW s, IsState(s), NEW tx, IsTx(tx)
    PROVE  /\ IsState(Issued(s, tx))
           /\ Issued(s, tx).miningIssued = s.miningIssued + tx.amount
           /\ Issued(s, tx).supply = s.supply + tx.amount
           /\ Issued(s, tx).nonces = s.nonces
<1> DEFINE t == Issued(s, tx)
           f == s.balances
           g == credit(s.balances, tx.receiver, tx.amount)
           n == tx.amount
           a == tx.receiver
<1>1. t = [balances |-> g, nonces |-> s.nonces, genesisSupply |-> s.genesisSupply,
           miningIssued |-> s.miningIssued + n, supply |-> s.supply + n]
  BY DEF Issued
<1>2. n \in Nat /\ a \in Addresses /\ f \in [Addresses -> Nat]
  BY DEF IsTx, IsState
<1>3. g = [f EXCEPT ![a] = f[a] + n]
  BY DEF credit
<1> HIDE DEF t, g, n, a, f
<1>4. /\ g \in [Addresses -> Nat] /\ g \in [Addresses -> Int] /\ f \in [Addresses -> Int]
      /\ g[a] = f[a] + n /\ n \in Int
      /\ \A x \in Addresses : x # a => g[x] = f[x]
  BY <1>2, <1>3
<1>5. TotalOf(g, Addresses)[Addresses] = TotalOf(f, Addresses)[Addresses] + n
  BY <1>2, <1>4, BalanceChange
<1>6. /\ t.balances = g /\ t.nonces = s.nonces /\ t.genesisSupply = s.genesisSupply
      /\ t.miningIssued = s.miningIssued + n /\ t.supply = s.supply + n
  BY <1>1
<1>7. t = [balances |-> t.balances, nonces |-> t.nonces, genesisSupply |-> t.genesisSupply,
           miningIssued |-> t.miningIssued, supply |-> t.supply]
  BY <1>1
<1>8. /\ s.nonces \in [Addresses -> Nat] /\ s.genesisSupply = genesisSnapshot.genesisSupply
      /\ s.genesisSupply \in Int /\ s.miningIssued \in Nat
      /\ s.supply = s.genesisSupply + s.miningIssued /\ TotalOf(f, Addresses)[Addresses] = s.supply
  BY DEF IsState, f
<1>9. t.miningIssued \in Nat /\ t.supply = t.genesisSupply + t.miningIssued
  BY <1>2, <1>6, <1>8
<1>10. IsState(t)
  BY <1>4, <1>5, <1>6, <1>7, <1>8, <1>9 DEF IsState
<1> QED BY <1>6, <1>10 DEF t, n

LEMMA CoinbaseApplies ==
    ASSUME IsFiniteSet(Addresses), NEW s, IsState(s), NEW tx, IsTx(tx), applyCoinbase(s, tx) # Invalid
    PROVE  /\ IsState(applyCoinbase(s, tx))
           /\ applyCoinbase(s, tx).miningIssued = s.miningIssued + tx.amount
           /\ applyCoinbase(s, tx).nonces = s.nonces
<1>1. applyCoinbase(s, tx) = Issued(s, tx)
  BY DEF applyCoinbase, Issued
<1> QED BY <1>1, IssuedBalances

LEMMA TransferApplies ==
    ASSUME IsFiniteSet(Addresses), NEW s, IsState(s), NEW tx, IsTx(tx), ~isCoinbase(tx), applyTransfer(s, tx) # Invalid
    PROVE  /\ IsState(applyTransfer(s, tx))
           /\ applyTransfer(s, tx).miningIssued = s.miningIssued
           /\ nonceValid(s, tx)
           /\ Version >= 2 => applyTransfer(s, tx).nonces = [s.nonces EXCEPT ![tx.sender] = s.nonces[tx.sender] + 1]
<1> DEFINE t == applyTransfer(s, tx)
           f == s.balances
           g == debit(s.balances, tx.sender, tx.amount)
           h == credit(g, tx.receiver, tx.amount)
           m == IF Version < 2 THEN s.nonces ELSE [s.nonces EXCEPT ![tx.sender] = s.nonces[tx.sender] + 1]
           n == tx.amount
           a == tx.sender
           b == tx.receiver
<1>1. nonceValid(s, tx) /\ ~(n > f[a]) /\ t = transferred(s, tx, h)
  BY DEF applyTransfer
<1>2. t = [balances |-> h, nonces |-> m, genesisSupply |-> s.genesisSupply,
           miningIssued |-> s.miningIssued, supply |-> s.supply]
  BY <1>1 DEF transferred
<1>3. n \in Nat /\ a \in Addresses /\ b \in Addresses /\ f \in [Addresses -> Nat] /\ s.nonces \in [Addresses -> Nat]
  BY DEF IsTx, IsState
<1>4. g = [f EXCEPT ![a] = f[a] - n] /\ h = [g EXCEPT ![b] = g[b] + n]
  BY DEF credit, debit
<1>5. m \in [Addresses -> Nat]
  BY <1>3
<1>6. Version >= 2 => m = [s.nonces EXCEPT ![a] = s.nonces[a] + 1]
  BY RulesAssumption
<1> HIDE DEF t, g, h, n, a, b, f, m
<1>7. /\ g \in [Addresses -> Nat] /\ g \in [Addresses -> Int] /\ f \in [Addresses -> Int]
      /\ 0 - n \in Int /\ g[a] = f[a] + (0 - n)
      /\ \A x \in Addresses : x # a => g[x] = f[x]
  BY <1>1, <1>3, <1>4
<1>8. /\ h \in [Addresses -> Nat] /\ h \in [Addresses -> Int] /\ n \in Int
      /\ h[b] = g[b] + n
      /\ \A x \in Addresses : x # b => h[x] = g[x]
  BY <1>3, <1>4, <1>7
<1>9. /\ TotalOf(f, Addresses)[Addresses] \in Int
      /\ TotalOf(g, Addresses)[Addresses] = TotalOf(f, Addresses)[Addresses] + (0 - n)
  BY <1>3, <1>7, BalanceChange
<1>10. TotalOf(h, Addresses)[Addresses] = TotalOf(g, Addresses)[Addresses] + n
  <2>1. g \in [Addresses -> Int] /\ b \in Addresses
    BY <1>3, <1>7
  <2> QED BY <1>8, <2>1, BalanceChange
<1>11. TotalOf(h, Addresses)[Addresses] = TotalOf(f, Addresses)[Addresses]
  BY <1>3, <1>9, <1>10
<1>12. /\ t.balances = h /\ t.nonces = m /\ t.genesisSupply = s.genesisSupply
       /\ t.miningIssued = s.miningIssued /\ t.supply = s.supply
  BY <1>2
<1>13. t = [balances |-> t.balances, nonces |-> t.nonces, genesisSupply |-> t.genesisSupply,
            miningIssued |-> t.miningIssued, supply |-> t.supply]
  BY <1>2
<1>14. /\ s.genesisSupply = genesisSnapshot.genesisSupply
       /\ s.genesisSupply \in Int /\ s.miningIssued \in Nat
       /\ s.supply = s.genesisSupply + s.miningIssued /\ TotalOf(f, Addresses)[Addresses] = s.supply
  BY DEF IsState, f
<1>15. IsState(t)
  BY <1>5, <1>8, <1>11, <1>12, <1>13, <1>14 DEF IsState
<1> QED BY <1>1, <1>6, <1>12, <1>15 DEF t, a

(* The coins that a transaction issues. *)
IssuedBy(tx) == IF isCoinbase(tx) THEN tx.amount ELSE 0

LEMMA TransactionApplies ==
    ASSUME IsFiniteSet(Addresses), NEW s, IsState(s), NEW tx, IsTx(tx), applyTransaction(s, tx) # Invalid
    PROVE  /\ IsState(applyTransaction(s, tx))
           /\ applyTransaction(s, tx).miningIssued = s.miningIssued + IssuedBy(tx)
<1>0. s.miningIssued \in Nat
  BY DEF IsState
<1>1. CASE s = Invalid
  BY <1>1 DEF applyTransaction
<1>2. CASE s # Invalid /\ isCoinbase(tx)
  <2>1. applyTransaction(s, tx) = applyCoinbase(s, tx)
    BY <1>2 DEF applyTransaction
  <2> QED BY <1>2, <2>1, CoinbaseApplies DEF IssuedBy
<1>3. CASE s # Invalid /\ ~isCoinbase(tx)
  <2>1. applyTransaction(s, tx) = applyTransfer(s, tx)
    BY <1>3 DEF applyTransaction
  <2>2. IsState(applyTransfer(s, tx)) /\ applyTransfer(s, tx).miningIssued = s.miningIssued
    BY <1>3, <2>1, TransferApplies
  <2>3. IssuedBy(tx) = 0
    BY <1>3 DEF IssuedBy
  <2> QED BY <1>0, <2>1, <2>2, <2>3
<1> QED BY <1>1, <1>2, <1>3

-----------------------------------------------------------------------------
(* Lists of transactions: the running states and the running issuance.     *)

IsApplied(f, n, s, txs) ==
    f = [k \in 0..n |-> IF k = 0 THEN s ELSE applyTransaction(f[k - 1], txs[k])]

LEMMA AppliedExists ==
    ASSUME NEW s, NEW txs, NEW N \in Nat
    PROVE  \E f : IsApplied(f, N, s, txs)
<1> DEFINE S == {n \in Nat : \E f : IsApplied(f, n, s, txs)}
<1>1. 0 \in S
  <2>1. IsApplied([k \in 0..0 |-> s], 0, s, txs)
    BY DEF IsApplied
  <2> QED BY <2>1
<1>2. ASSUME NEW n \in S PROVE n + 1 \in S
  <2>1. PICK f : IsApplied(f, n, s, txs)
    OBVIOUS
  <2> DEFINE g == [i \in 0..(n + 1) |-> IF i <= n THEN f[i] ELSE applyTransaction(f[n], txs[n + 1])]
  <2>2. n \in Nat
    OBVIOUS
  <2>3. ASSUME NEW i \in 0..(n + 1) PROVE g[i] = IF i = 0 THEN s ELSE applyTransaction(g[i - 1], txs[i])
    <3>1. CASE i <= n
      <4>1. i \in 0..n /\ g[i] = f[i]
        BY <2>2, <3>1
      <4>2. f[i] = IF i = 0 THEN s ELSE applyTransaction(f[i - 1], txs[i])
        BY <2>1, <4>1 DEF IsApplied
      <4>3. i # 0 => g[i - 1] = f[i - 1]
        BY <2>2, <3>1
      <4> HIDE DEF g
      <4> QED BY <4>1, <4>2, <4>3
    <3>2. CASE i = n + 1
      <4>1. i # 0 /\ i - 1 = n /\ n \in 0..(n + 1) /\ ~(i <= n)
        BY <2>2, <3>2
      <4>2. g[n] = f[n] /\ g[i] = applyTransaction(f[n], txs[n + 1])
        BY <2>2, <4>1
      <4> HIDE DEF g
      <4> QED BY <3>2, <4>1, <4>2
    <3> QED BY <2>2, <3>1, <3>2
  <2>4. g = [i \in 0..(n + 1) |-> g[i]]
    OBVIOUS
  <2> HIDE DEF g
  <2>5. [i \in 0..(n + 1) |-> g[i]] = [i \in 0..(n + 1) |-> IF i = 0 THEN s ELSE applyTransaction(g[i - 1], txs[i])]
    BY <2>3
  <2>6. IsApplied(g, n + 1, s, txs)
    BY <2>4, <2>5 DEF IsApplied
  <2> QED BY <2>2, <2>6
<1>3. S = Nat
  <2>1. S \in SUBSET Nat
    OBVIOUS
  <2> HIDE DEF S
  <2> QED BY <1>1, <1>2, <2>1, NatSetInduction
<1>4. N \in S
  BY <1>3
<1> QED BY <1>4

LEMMA AppliedIs ==
    ASSUME NEW s, NEW txs, Len(txs) \in Nat
    PROVE  \E f : /\ applyTransactions(s, txs) = f[Len(txs)]
                  /\ f[0] = s
                  /\ \A k \in 1..Len(txs) : f[k] = applyTransaction(f[k - 1], txs[k])
<1> DEFINE N == Len(txs)
           after == CHOOSE f : IsApplied(f, N, s, txs)
<1>1. applyTransactions(s, txs) = after[N]
  BY DEF applyTransactions, IsApplied
<1>2. IsApplied(after, N, s, txs)
  BY AppliedExists
<1> HIDE DEF after
<1>3. ASSUME NEW k \in 0..N PROVE after[k] = IF k = 0 THEN s ELSE applyTransaction(after[k - 1], txs[k])
  BY <1>2 DEF IsApplied
<1>4. after[0] = s
  BY <1>3
<1>5. ASSUME NEW k \in 1..N PROVE after[k] = applyTransaction(after[k - 1], txs[k])
  <2>1. k \in 0..N /\ k # 0
    OBVIOUS
  <2> QED BY <1>3, <2>1
<1> QED BY <1>1, <1>4, <1>5

(* The running sum of what a block issues. *)
LEMMA IssuedIs ==
    ASSUME NEW b, HasTxs(b)
    PROVE  \E g : /\ issuedIn(b.txs) = g[Len(b.txs)] /\ issuedIn(b.txs) \in Nat
                  /\ g[0] = 0
                  /\ \A k \in 1..Len(b.txs) : g[k] = g[k - 1] + IssuedBy(b.txs[k])
<1> DEFINE txs == b.txs
           N == Len(txs)
           P == [k \in 1..N |-> IssuedBy(txs[k])]
           term(k) == IF isCoinbase(txs[k]) THEN txs[k].amount ELSE 0
           total == CHOOSE f : f = [k \in 0..N |-> IF k = 0 THEN 0 ELSE f[k - 1] + term(k)]
<1>0. N \in Nat
  BY SequenceFacts DEF HasTxs
<1>1. issuedIn(txs) = total[N]
  BY DEF issuedIn
<1>2. P \in [1..N -> Nat]
  BY DEF HasTxs, IsTx, IssuedBy
<1>3. \A k \in 1..N : P[k] = term(k) /\ P[k] = IssuedBy(txs[k])
  BY DEF IssuedBy
<1> HIDE DEF P, N, term
<1>4. ASSUME NEW f PROVE IsSum(f, N, P) <=> f = [k \in 0..N |-> IF k = 0 THEN 0 ELSE f[k - 1] + term(k)]
  <2>1. \A k \in 0..N : k # 0 => k \in 1..N
    BY <1>0
  <2>2. \A k \in 0..N : (IF k = 0 THEN 0 ELSE f[k - 1] + P[k]) = (IF k = 0 THEN 0 ELSE f[k - 1] + term(k))
    BY <1>3, <2>1
  <2>3. [k \in 0..N |-> IF k = 0 THEN 0 ELSE f[k - 1] + P[k]] = [k \in 0..N |-> IF k = 0 THEN 0 ELSE f[k - 1] + term(k)]
    BY <2>2
  <2> QED BY <2>3 DEF IsSum
<1>5. \E f : IsSum(f, N, P)
  BY <1>0, <1>2, SumExists
<1>6. total = [k \in 0..N |-> IF k = 0 THEN 0 ELSE total[k - 1] + term(k)]
  BY <1>4, <1>5
<1> HIDE DEF total
<1>7. IsSum(total, N, P)
  BY <1>4, <1>6
<1>8. \A k \in 0..N : total[k] = total[k] /\ total[k] \in Nat
  <2>1. N <= N /\ \A k \in 1..N : P[k] = P[k]
    BY <1>0
  <2> QED BY <1>0, <1>2, <1>7, <2>1, SumsAgree
<1>9. total[N] \in Nat
  BY <1>0, <1>8
<1>10. total[0] = 0
  BY <1>0, <1>7 DEF IsSum
<1>11. ASSUME NEW k \in 1..N PROVE total[k] = total[k - 1] + IssuedBy(txs[k])
  <2>1. k \in 0..N /\ k # 0
    BY <1>0
  <2>2. total[k] = total[k - 1] + P[k]
    BY <1>7, <2>1 DEF IsSum
  <2> QED BY <1>3, <2>2
<1> QED BY <1>1, <1>9, <1>10, <1>11 DEF N

(* A block that applies leads from a state to a state. *)
LEMMA BlockApplies ==
    ASSUME IsFiniteSet(Addresses), ErrorIsNoState, NEW s, IsState(s), NEW b, HasTxs(b),
           applyTransactions(s, b.txs) # Invalid
    PROVE  /\ IsState(applyTransactions(s, b.txs))
           /\ applyTransactions(s, b.txs).miningIssued = s.miningIssued + issuedIn(b.txs)
<1> DEFINE txs == b.txs
           N == Len(txs)
<1>0. N \in Nat /\ \A k \in 1..N : IsTx(txs[k])
  BY SequenceFacts DEF HasTxs
<1>1. PICK f : /\ applyTransactions(s, txs) = f[N] /\ f[0] = s
               /\ \A k \in 1..N : f[k] = applyTransaction(f[k - 1], txs[k])
  BY <1>0, AppliedIs
<1>2. PICK g : /\ issuedIn(txs) = g[N] /\ g[0] = 0
               /\ \A k \in 1..N : g[k] = g[k - 1] + IssuedBy(txs[k])
  BY IssuedIs
<1> HIDE DEF N, txs
<1> DEFINE S == {k \in Nat : k <= N /\ f[k] # Invalid => /\ IsState(f[k]) /\ g[k] \in Nat
                                                        /\ f[k].miningIssued = s.miningIssued + g[k]}
<1>3. 0 \in S
  <2>1. s.miningIssued \in Nat
    BY DEF IsState
  <2>2. s.miningIssued = s.miningIssued + 0
    BY <2>1
  <2> QED BY <1>1, <1>2, <2>2
<1>4. ASSUME NEW i \in S PROVE i + 1 \in S
  <2>0. /\ i \in Nat
        /\ i <= N /\ f[i] # Invalid => /\ IsState(f[i]) /\ g[i] \in Nat
                                       /\ f[i].miningIssued = s.miningIssued + g[i]
    OBVIOUS
  <2> HIDE DEF S
  <2> DEFINE k == i + 1
  <2> SUFFICES ASSUME k <= N, f[k] # Invalid
               PROVE  /\ IsState(f[k]) /\ g[k] \in Nat /\ f[k].miningIssued = s.miningIssued + g[k]
    BY <2>0 DEF S
  <2>1. k \in 1..N /\ k - 1 = i /\ i <= N
    BY <1>0, <2>0
  <2> HIDE DEF k
  <2>2. f[k] = applyTransaction(f[k - 1], txs[k]) /\ g[k] = g[k - 1] + IssuedBy(txs[k]) /\ IsTx(txs[k])
    BY <1>0, <1>1, <1>2, <2>1
  <2>3. f[i] # Invalid
    <3>1. f[k - 1] # Invalid
      BY <2>2 DEF applyTransaction
    <3> QED BY <2>1, <3>1
  <2>4. IsState(f[k - 1]) /\ g[k - 1] \in Nat /\ f[k - 1].miningIssued = s.miningIssued + g[k - 1]
    BY <2>0, <2>1, <2>3
  <2>5. IsState(f[k]) /\ f[k].miningIssued = f[k - 1].miningIssued + IssuedBy(txs[k])
    BY <2>2, <2>4, TransactionApplies
  <2>6. IssuedBy(txs[k]) \in Nat /\ s.miningIssued \in Nat
    BY <2>2 DEF IssuedBy, IsTx, IsState
  <2>7. g[k] \in Nat /\ f[k].miningIssued = s.miningIssued + g[k]
    BY <2>2, <2>4, <2>5, <2>6
  <2> QED BY <2>5, <2>7
<1>5. S = Nat
  <2>1. S \in SUBSET Nat
    OBVIOUS
  <2> HIDE DEF S
  <2> QED BY <1>3, <1>4, <2>1, NatSetInduction
<1>6. N \in S
  BY <1>0, <1>5
<1>7. f[N] # Invalid => IsState(f[N]) /\ f[N].miningIssued = s.miningIssued + g[N]
  BY <1>0, <1>6
<1> QED BY <1>1, <1>2, <1>7 DEF txs

-----------------------------------------------------------------------------
(* Chains and one block more. *)

Issuances(c) == [i \in 1..Len(c) |-> issuedIn(c[i].txs)]

Total(c) == CHOOSE f : f = [i \in 0..Len(c) |-> IF i = 0 THEN 0 ELSE f[i - 1] + issuedIn(c[i].txs)]

LEMMA TotalIsSum ==
    ASSUME NEW c, AllHaveTxs(c)
    PROVE  /\ miningIssuedFor(c) = Total(c)[Len(c)]
           /\ Issuances(c) \in [1..Len(c) -> Nat]
           /\ IsSum(Total(c), Len(c), Issuances(c))
<1> DEFINE N == Len(c)
           P == Issuances(c)
<1>0. N \in Nat
  BY SequenceFacts DEF AllHaveTxs
<1>1. miningIssuedFor(c) = Total(c)[N]
  BY DEF miningIssuedFor, Total
<1>2. P \in [1..N -> Nat]
  <2>1. ASSUME NEW i \in 1..N PROVE issuedIn(c[i].txs) \in Nat
    <3>1. HasTxs(c[i])
      BY DEF AllHaveTxs
    <3> QED BY <3>1, IssuedIs
  <2> QED BY <2>1 DEF Issuances
<1>3. \A i \in 1..N : P[i] = issuedIn(c[i].txs)
  BY DEF Issuances
<1> HIDE DEF P, N
<1>4. ASSUME NEW f
      PROVE  IsSum(f, N, P) <=> f = [i \in 0..N |-> IF i = 0 THEN 0 ELSE f[i - 1] + issuedIn(c[i].txs)]
  <2>1. \A i \in 0..N : i # 0 => i \in 1..N
    BY <1>0
  <2>2. \A i \in 0..N : (IF i = 0 THEN 0 ELSE f[i - 1] + P[i]) = (IF i = 0 THEN 0 ELSE f[i - 1] + issuedIn(c[i].txs))
    BY <1>3, <2>1
  <2>3. [i \in 0..N |-> IF i = 0 THEN 0 ELSE f[i - 1] + P[i]]
      = [i \in 0..N |-> IF i = 0 THEN 0 ELSE f[i - 1] + issuedIn(c[i].txs)]
    BY <2>2
  <2> QED BY <2>3 DEF IsSum
<1>5. \E f : IsSum(f, N, P)
  BY <1>0, <1>2, SumExists
<1>6. Total(c) = [i \in 0..N |-> IF i = 0 THEN 0 ELSE Total(c)[i - 1] + issuedIn(c[i].txs)]
  BY <1>4, <1>5 DEF Total, N
<1>7. IsSum(Total(c), N, P)
  BY <1>4, <1>6
<1> QED BY <1>1, <1>2, <1>7 DEF N, P

LEMMA IssuedOfAppend ==
    ASSUME NEW c, AllHaveTxs(c), NEW b, HasTxs(b)
    PROVE  /\ AllHaveTxs(Append(c, b))
           /\ miningIssuedFor(Append(c, b)) = miningIssuedFor(c) + issuedIn(b.txs)
<1> DEFINE q == Append(c, b)
           N == Len(c)
<1>0. N \in Nat
  BY SequenceFacts DEF AllHaveTxs
<1>1. IsSequence(q) /\ Len(q) = N + 1 /\ q[N + 1] = b /\ \A i \in 1..N : q[i] = c[i]
  BY PrefixOfAppend DEF AllHaveTxs
<1> HIDE DEF q
<1>2. AllHaveTxs(q)
  <2>1. ASSUME NEW i \in 1..(N + 1) PROVE HasTxs(q[i])
    <3>1. CASE i \in 1..N
      BY <1>1, <3>1 DEF AllHaveTxs
    <3>2. CASE i = N + 1
      BY <1>1, <3>2
    <3> QED BY <1>0, <3>1, <3>2
  <2> QED BY <1>1, <2>1 DEF AllHaveTxs
<1>3. /\ miningIssuedFor(c) = Total(c)[N] /\ Issuances(c) \in [1..N -> Nat]
      /\ IsSum(Total(c), N, Issuances(c))
  BY TotalIsSum
<1>4. /\ miningIssuedFor(q) = Total(q)[N + 1] /\ Issuances(q) \in [1..(N + 1) -> Nat]
      /\ IsSum(Total(q), N + 1, Issuances(q))
  BY <1>1, <1>2, TotalIsSum
<1>5. \A i \in 1..N : Issuances(q)[i] = Issuances(c)[i]
  BY <1>0, <1>1 DEF Issuances
<1>6. Issuances(q)[N + 1] = issuedIn(b.txs)
  BY <1>0, <1>1 DEF Issuances
<1> DEFINE P == Issuances(c)
           Q == Issuances(q)
           f == Total(c)
           g == Total(q)
<1>7. /\ P \in [1..N -> Nat] /\ IsSum(f, N, P) /\ IsSum(g, N + 1, Q)
      /\ \A i \in 1..N : Q[i] = P[i]
  BY <1>3, <1>4, <1>5
<1> HIDE DEF P, Q, f, g, N
<1>8. \A i \in 0..N : f[i] = g[i] /\ f[i] \in Nat
  <2>1. N + 1 \in Nat /\ N <= N + 1
    BY <1>0
  <2> QED BY <1>0, <1>7, <2>1, SumsAgree
<1>9. f[N] = g[N]
  BY <1>0, <1>8
<1>10. g[N + 1] = g[N] + Q[N + 1]
  <2> DEFINE k == N + 1
  <2>1. k \in 0..k /\ k # 0 /\ k - 1 = N /\ IsSum(g, k, Q)
    BY <1>0, <1>7
  <2> HIDE DEF k
  <2>2. g[k] = g[k - 1] + Q[k]
    BY <2>1 DEF IsSum
  <2> QED BY <2>1, <2>2 DEF k
<1>11. miningIssuedFor(q) = miningIssuedFor(c) + issuedIn(b.txs)
  BY <1>3, <1>4, <1>6, <1>9, <1>10 DEF P, Q, f, g
<1> QED BY <1>2, <1>11 DEF q

LEMMA ValidOfAppend ==
    ASSUME NEW c, IsSequence(c), Len(c) > 0, NEW b
    PROVE  validateChain(Append(c, b)) <=> validateChain(c) /\ validateNext(b, c)
<1> DEFINE q == Append(c, b)
           N == Len(c)
<1>0. N \in Nat /\ N > 0
  BY SequenceFacts
<1>1. /\ Len(q) = N + 1 /\ q[N + 1] = b /\ \A i \in 1..N : q[i] = c[i]
      /\ \A k \in 0..N : SubSeq(q, 1, k) = SubSeq(c, 1, k)
      /\ SubSeq(c, 1, N) = c
  BY PrefixOfAppend
<1> HIDE DEF q
<1>2. ASSUME NEW i \in 2..N PROVE q[i] = c[i] /\ SubSeq(q, 1, i - 1) = SubSeq(c, 1, i - 1)
  <2>1. i \in 1..N /\ i - 1 \in 0..N
    BY <1>0
  <2> QED BY <1>1, <2>1
<1>3. validateChain(q) <=> (\A i \in 2..N : validateNext(c[i], SubSeq(c, 1, i - 1))) /\ validateNext(b, c)
  <2> DEFINE k == N + 1
  <2>1. k \in 2..(N + 1) /\ k - 1 = N /\ q[k] = b /\ SubSeq(q, 1, N) = c
    <3>1. N \in 0..N
      BY <1>0
    <3> QED BY <1>0, <1>1, <3>1
  <2>2. \A i \in 2..(N + 1) : i \in 2..N \/ i = k
    BY <1>0
  <2>3. \A i \in 2..N : i \in 2..(N + 1)
    BY <1>0
  <2> HIDE DEF k
  <2>4. SubSeq(q, 1, k - 1) = c
    BY <2>1
  <2>5. validateNext(q[k], SubSeq(q, 1, k - 1)) <=> validateNext(b, c)
    BY <2>1, <2>4
  <2>6. ASSUME NEW i \in 2..N
        PROVE  validateNext(q[i], SubSeq(q, 1, i - 1)) <=> validateNext(c[i], SubSeq(c, 1, i - 1))
    BY <1>2
  <2>7. validateChain(q) <=> \A i \in 2..(N + 1) : validateNext(q[i], SubSeq(q, 1, i - 1))
    BY <1>1 DEF validateChain
  <2>8. ASSUME \A i \in 2..(N + 1) : validateNext(q[i], SubSeq(q, 1, i - 1))
        PROVE  (\A i \in 2..N : validateNext(c[i], SubSeq(c, 1, i - 1))) /\ validateNext(b, c)
    BY <2>1, <2>3, <2>5, <2>6, <2>8
  <2>9. ASSUME \A i \in 2..N : validateNext(c[i], SubSeq(c, 1, i - 1)), validateNext(b, c)
        PROVE  \A i \in 2..(N + 1) : validateNext(q[i], SubSeq(q, 1, i - 1))
    <3> SUFFICES ASSUME NEW i \in 2..(N + 1) PROVE validateNext(q[i], SubSeq(q, 1, i - 1))
      OBVIOUS
    <3>1. CASE i \in 2..N
      BY <2>6, <2>9, <3>1
    <3>2. CASE i = k
      BY <2>5, <2>9, <3>2
    <3> QED BY <2>2, <3>1, <3>2
  <2> QED BY <2>7, <2>8, <2>9
<1> QED BY <1>3 DEF validateChain, q

IsReplay(f, n, c) ==
    f = [i \in 1..n |-> IF i = 1 THEN genesisSnapshot ELSE replayBlock(c, i, f[i - 1])]

LEMMA ReplayExists ==
    ASSUME NEW c, NEW N \in Nat
    PROVE  \E f : IsReplay(f, N, c)
<1> DEFINE S == {n \in Nat : \E f : IsReplay(f, n, c)}
<1>1. 0 \in S
  <2> DEFINE f == [i \in 1..0 |-> genesisSnapshot]
  <2>1. \A i \in 1..0 : FALSE
    OBVIOUS
  <2>2. f = [i \in 1..0 |-> IF i = 1 THEN genesisSnapshot ELSE replayBlock(c, i, f[i - 1])]
    BY <2>1
  <2>3. IsReplay(f, 0, c)
    BY <2>2 DEF IsReplay
  <2> QED BY <2>3
<1>2. ASSUME NEW n \in S PROVE n + 1 \in S
  <2>1. PICK f : IsReplay(f, n, c)
    OBVIOUS
  <2> DEFINE last == IF n = 0 THEN genesisSnapshot ELSE replayBlock(c, n + 1, f[n])
             g == [i \in 1..(n + 1) |-> IF i <= n THEN f[i] ELSE last]
  <2>2. n \in Nat
    OBVIOUS
  <2>3. ASSUME NEW i \in 1..(n + 1) PROVE g[i] = IF i = 1 THEN genesisSnapshot ELSE replayBlock(c, i, g[i - 1])
    <3>1. CASE i <= n
      <4>1. i \in 1..n /\ g[i] = f[i]
        BY <2>2, <3>1
      <4>2. f[i] = IF i = 1 THEN genesisSnapshot ELSE replayBlock(c, i, f[i - 1])
        BY <2>1, <4>1 DEF IsReplay
      <4>3. i # 1 => g[i - 1] = f[i - 1]
        BY <2>2, <3>1
      <4> HIDE DEF g
      <4> QED BY <4>1, <4>2, <4>3
    <3>2. CASE i = n + 1
      <4>1. i - 1 = n /\ (i = 1 <=> n = 0) /\ ~(i <= n)
        BY <2>2, <3>2
      <4>2. g[i] = last
        BY <4>1
      <4>3. n # 0 => g[n] = f[n]
        BY <2>2
      <4> HIDE DEF g
      <4>4. CASE n = 0
        BY <4>1, <4>2, <4>4
      <4>5. CASE n # 0
        <5>1. last = replayBlock(c, n + 1, f[n])
          BY <4>5
        <5>2. g[i - 1] = f[n]
          BY <4>1, <4>3, <4>5
        <5> HIDE DEF last
        <5> QED BY <3>2, <4>1, <4>2, <4>5, <5>1, <5>2
      <4> QED BY <4>4, <4>5
    <3> QED BY <2>2, <3>1, <3>2
  <2>4. g = [i \in 1..(n + 1) |-> g[i]]
    OBVIOUS
  <2> HIDE DEF g
  <2>5. [i \in 1..(n + 1) |-> g[i]] = [i \in 1..(n + 1) |-> IF i = 1 THEN genesisSnapshot ELSE replayBlock(c, i, g[i - 1])]
    BY <2>3
  <2>6. IsReplay(g, n + 1, c)
    BY <2>4, <2>5 DEF IsReplay
  <2> QED BY <2>2, <2>6
<1>3. S = Nat
  <2>1. S \in SUBSET Nat
    OBVIOUS
  <2> HIDE DEF S
  <2> QED BY <1>1, <1>2, <2>1, NatSetInduction
<1>4. N \in S
  BY <1>3
<1> QED BY <1>4

(* replayState ends in s unless that is an error or breaks the plan. *)
Checked(s) == IF s = Invalid \/ ~supplyWithinPlan(s) THEN Invalid ELSE s

LEMMA ReplayIs ==
    ASSUME NEW c, Len(c) \in Nat
    PROVE  \E f : /\ replayState(c) = Checked(f[Len(c)])
                  /\ \A i \in 1..Len(c) : f[i] = IF i = 1 THEN genesisSnapshot ELSE replayBlock(c, i, f[i - 1])
<1> DEFINE N == Len(c)
           step == CHOOSE f : IsReplay(f, N, c)
<1>1. replayState(c) = Checked(step[N])
  BY DEF replayState, IsReplay, Checked
<1>2. IsReplay(step, N, c)
  BY ReplayExists
<1> HIDE DEF step
<1>3. \A i \in 1..N : step[i] = IF i = 1 THEN genesisSnapshot ELSE replayBlock(c, i, step[i - 1])
  BY <1>2 DEF IsReplay
<1> QED BY <1>1, <1>3

(* replayBlock for the block after the chain c. *)
ReplayedOn(c, b, s) ==
    LET r == reward(miningIssuedFor(c), 0)
    IN  IF s = Invalid \/ ~identitiesFresh(c, b) THEN Invalid
        ELSE IF Version >= 2 /\ ~(/\ r # 0
                                  /\ \A k \in coinbases(b.txs) : coinbaseValid(b.txs[k], r)
                                  /\ Cardinality(coinbases(b.txs)) = 1
                                  /\ b.sealed)
             THEN Invalid
             ELSE applyTransactions(s, b.txs)

(* The replay of a chain does not look past the block it is at. *)
LEMMA ReplayBlockOfAppend ==
    ASSUME NEW c, IsSequence(c), NEW b, NEW s
    PROVE  /\ \A i \in 1..Len(c) : replayBlock(Append(c, b), i, s) = replayBlock(c, i, s)
           /\ replayBlock(Append(c, b), Len(c) + 1, s) = ReplayedOn(c, b, s)
<1> DEFINE q == Append(c, b)
           N == Len(c)
<1>0. N \in Nat
  BY SequenceFacts
<1>1. /\ q[N + 1] = b /\ \A i \in 1..N : q[i] = c[i]
      /\ \A k \in 0..N : SubSeq(q, 1, k) = SubSeq(c, 1, k)
      /\ SubSeq(c, 1, N) = c
  BY PrefixOfAppend
<1> HIDE DEF q
<1>2. ASSUME NEW i \in 1..N PROVE replayBlock(q, i, s) = replayBlock(c, i, s)
  <2>1. i - 1 \in 0..N
    BY <1>0
  <2>2. q[i] = c[i] /\ SubSeq(q, 1, i - 1) = SubSeq(c, 1, i - 1)
    BY <1>1, <2>1
  <2> QED BY <2>2 DEF replayBlock
<1>3. replayBlock(q, N + 1, s) = ReplayedOn(c, b, s)
  <2> DEFINE k == N + 1
  <2>1. k - 1 = N /\ N \in 0..N /\ q[k] = b
    BY <1>0, <1>1
  <2> HIDE DEF k
  <2>2. SubSeq(q, 1, k - 1) = c
    BY <1>1, <2>1
  <2>3. replayBlock(q, k, s) = ReplayedOn(c, b, s)
    BY <2>1, <2>2 DEF replayBlock, ReplayedOn
  <2> QED BY <2>3 DEF k
<1> QED BY <1>2, <1>3 DEF q

LEMMA ReplayOfAppend ==
    ASSUME NEW c, IsSequence(c), Len(c) > 0, NEW b, replayState(c) # Invalid
    PROVE  /\ replayState(Append(c, b)) = Checked(ReplayedOn(c, b, replayState(c)))
           /\ supplyWithinPlan(replayState(c))
<1> DEFINE q == Append(c, b)
           N == Len(c)
<1>0. N \in Nat /\ N > 0
  BY SequenceFacts
<1>1. Len(q) = N + 1
  BY PrefixOfAppend
<1>2. PICK f : /\ replayState(c) = Checked(f[N])
               /\ \A i \in 1..N : f[i] = IF i = 1 THEN genesisSnapshot ELSE replayBlock(c, i, f[i - 1])
  BY <1>0, ReplayIs
<1>3. \A s : \A i \in 1..N : replayBlock(q, i, s) = replayBlock(c, i, s)
  BY ReplayBlockOfAppend
<1>4. \A s : replayBlock(q, N + 1, s) = ReplayedOn(c, b, s)
  BY ReplayBlockOfAppend
<1> HIDE DEF q
<1>5. PICK g : /\ replayState(q) = Checked(g[N + 1])
               /\ \A i \in 1..(N + 1) : g[i] = IF i = 1 THEN genesisSnapshot ELSE replayBlock(q, i, g[i - 1])
  <2>1. Len(q) \in Nat
    BY <1>0, <1>1
  <2> HIDE DEF N
  <2> QED BY <1>1, <2>1, ReplayIs
<1> HIDE DEF N
<1> DEFINE S == {n \in Nat : n + 1 <= N => f[n + 1] = g[n + 1]}
<1>6. 0 \in S
  <2>1. 1 \in 1..N /\ 1 \in 1..(N + 1) /\ 0 + 1 = 1
    BY <1>0
  <2>2. f[1] = genesisSnapshot /\ g[1] = genesisSnapshot
    BY <1>2, <1>5, <2>1
  <2> QED BY <2>1, <2>2
<1>7. ASSUME NEW n \in S PROVE n + 1 \in S
  <2>0. n \in Nat /\ (n + 1 <= N => f[n + 1] = g[n + 1])
    OBVIOUS
  <2> HIDE DEF S
  <2> DEFINE i == n + 1 + 1
  <2> SUFFICES ASSUME i <= N PROVE f[i] = g[i]
    BY <2>0 DEF S
  <2>1. i \in 1..N /\ i \in 1..(N + 1) /\ i # 1 /\ i - 1 = n + 1 /\ n + 1 <= N
    BY <1>0, <2>0
  <2> HIDE DEF i
  <2>2. f[i] = replayBlock(c, i, f[i - 1])
    BY <1>2, <2>1
  <2>3. g[i] = replayBlock(q, i, g[i - 1])
    BY <1>5, <2>1
  <2>4. f[i - 1] = g[i - 1]
    BY <2>0, <2>1
  <2>5. replayBlock(q, i, g[i - 1]) = replayBlock(c, i, g[i - 1])
    BY <1>3, <2>1
  <2> QED BY <2>2, <2>3, <2>4, <2>5
<1>8. S = Nat
  <2>1. S \in SUBSET Nat
    OBVIOUS
  <2> HIDE DEF S
  <2> QED BY <1>6, <1>7, <2>1, NatSetInduction
<1>9. f[N] = g[N]
  <2> DEFINE n == N - 1
  <2>1. n \in Nat /\ n + 1 = N /\ n + 1 <= N
    BY <1>0
  <2> HIDE DEF n
  <2>2. n \in S
    BY <1>8, <2>1
  <2>3. f[n + 1] = g[n + 1]
    BY <2>1, <2>2
  <2> QED BY <2>1, <2>3
<1>10. f[N] = replayState(c) /\ supplyWithinPlan(f[N])
  BY <1>2 DEF Checked
<1>11. g[N + 1] = ReplayedOn(c, b, g[N])
  <2> DEFINE k == N + 1
  <2>1. k \in 1..(N + 1) /\ k # 1 /\ k - 1 = N
    BY <1>0
  <2>2. replayBlock(q, k, g[N]) = ReplayedOn(c, b, g[N])
    BY <1>4
  <2> HIDE DEF k
  <2>3. g[k] = replayBlock(q, k, g[k - 1])
    BY <1>5, <2>1
  <2>4. g[k] = ReplayedOn(c, b, g[N])
    BY <2>1, <2>2, <2>3
  <2> QED BY <2>4 DEF k
<1> QED BY <1>5, <1>9, <1>10, <1>11 DEF q

-----------------------------------------------------------------------------
(* The inductive invariant: the snapshot is what the full rules make of    *)
(* the chain, its books balance, and its issuance is the chain's.          *)

LedgerInv ==
    /\ AllHaveTxs(chain) /\ Len(chain) > 0
    /\ validateChain(chain)
    /\ replayState(chain) = snapshot
    /\ IsState(snapshot) /\ supplyWithinPlan(snapshot)
    /\ snapshot.miningIssued = miningIssuedFor(chain)

LEMMA GenesisBooks ==
    ASSUME IsFiniteSet(Addresses)
    PROVE  /\ IsState(genesisSnapshot) /\ supplyWithinPlan(genesisSnapshot)
           /\ genesisSnapshot.miningIssued = 0
           /\ Phase7 => genesisSnapshot.genesisSupply + MiningBudget = MaxSupply
           /\ ~Phase7 => genesisSnapshot.genesisSupply = 0
<1> DEFINE s == genesisSnapshot
           f == s.balances
           total == s.supply
           zeros == [a \in Addresses |-> 0]
<1>1. /\ s = [balances |-> s.balances, nonces |-> s.nonces, genesisSupply |-> s.genesisSupply,
              miningIssued |-> s.miningIssued, supply |-> s.supply]
      /\ s.nonces = zeros
      /\ s.miningIssued = 0 /\ s.genesisSupply = s.supply
  BY DEF genesisSnapshot
<1>2. Phase7 => f = GenesisAlloc /\ total = SumFunction(GenesisAlloc)
  BY DEF genesisSnapshot
<1>3. ~Phase7 => f = zeros /\ total = 0
  BY DEF genesisSnapshot
<1>4. SumFunction(GenesisAlloc) = TotalOf(GenesisAlloc, Addresses)[Addresses]
  <2>1. DOMAIN GenesisAlloc = Addresses
    BY RulesAssumption
  <2>2. SumFunctionOnSet(GenesisAlloc, Addresses) = TotalOf(GenesisAlloc, Addresses)[Addresses]
    BY SumIsTotal
  <2> QED BY <2>1, <2>2 DEF SumFunction
<1>5. TotalOf(GenesisAlloc, Addresses)[Addresses] \in Int
  <2>1. \A a \in Addresses : GenesisAlloc[a] \in Int
    BY RulesAssumption
  <2>2. IsTotal(TotalOf(GenesisAlloc, Addresses), GenesisAlloc, Addresses)
    BY TotalIs
  <2>3. Addresses \in SUBSET Addresses
    OBVIOUS
  <2> QED BY <2>1, <2>2, <2>3, TotalIsInt
<1>6. zeros \in [Addresses -> Nat] /\ \A a \in Addresses : zeros[a] = 0
  OBVIOUS
<1> HIDE DEF zeros
<1>7. TotalOf(zeros, Addresses)[Addresses] = 0
  BY <1>6, TotalOfZeros
<1> HIDE DEF f, total
<1>8. f \in [Addresses -> Nat] /\ total \in Int /\ TotalOf(f, Addresses)[Addresses] = total
  <2>1. CASE Phase7
    BY <1>2, <1>4, <1>5, <2>1, RulesAssumption
  <2>2. CASE ~Phase7
    BY <1>3, <1>6, <1>7, <2>2
  <2> QED BY <2>1, <2>2
<1>9. IsState(s)
  <2>1. s.supply = s.genesisSupply + s.miningIssued
    BY <1>1, <1>8 DEF total
  <2> QED BY <1>1, <1>6, <1>8, <2>1 DEF IsState, f, total
<1>10. Phase7 => s.genesisSupply + MiningBudget = MaxSupply
  BY <1>1, <1>2, RulesAssumption DEF total
<1>11. ~Phase7 => s.genesisSupply = 0
  BY <1>1, <1>3 DEF total
<1>12. supplyWithinPlan(s)
  <2>1. s.supply \in Int /\ MiningBudget \in Nat /\ MaxSupply \in Nat
    BY <1>8, RulesAssumption DEF total
  <2> QED BY <1>1, <1>10, <1>11, <2>1 DEF supplyWithinPlan
<1> QED BY <1>1, <1>9, <1>10, <1>11, <1>12

(* The rewards that the two sides ask for. *)
LEMMA SameReward ==
    ASSUME IsFiniteSet(Addresses), LedgerInv
    PROVE  LET mined == miningIssuedFor(chain)
               r     == reward(snapshot.miningIssued, snapshot.supply)
           IN  reward(mined, mined) = r /\ (Version >= 2 => reward(mined, 0) = r)
<1>1. snapshot.miningIssued = miningIssuedFor(chain) /\ IsState(snapshot)
  BY DEF LedgerInv
<1>2. ~Phase7 => snapshot.supply = snapshot.miningIssued
  <2>1. ~Phase7 => genesisSnapshot.genesisSupply = 0
    BY GenesisBooks
  <2> QED BY <1>1, <2>1 DEF IsState
<1>3. Version >= 2 => Phase7
  BY RulesAssumption
<1> QED BY <1>1, <1>2, <1>3 DEF reward

(* The supply checks of the full V1 rules follow from the plan. *)
LEMMA PlanBoundsSupply ==
    ASSUME NEW s, IsState(s), supplyWithinPlan(s)
    PROVE  s.supply <= MaxSupply
  BY RulesAssumption DEF IsState, supplyWithinPlan

LEMMA RulesAgree ==
    ASSUME IsFiniteSet(Addresses), ErrorIsNoState, LedgerInv, NEW b, HasTxs(b)
    PROVE  validateIncrementalBlock(b, chain, snapshot) = fullState(Append(chain, b))
<1> DEFINE r == reward(snapshot.miningIssued, snapshot.supply)
           next == applyTransactions(snapshot, b.txs)
           q == Append(chain, b)
<1>0. /\ IsSequence(chain) /\ Len(chain) > 0 /\ replayState(chain) = snapshot /\ snapshot # Invalid
      /\ validateChain(chain) /\ IsState(snapshot)
  BY DEF LedgerInv, AllHaveTxs, ErrorIsNoState
<1>1. validateChain(q) <=> validateNext(b, chain)
  BY <1>0, ValidOfAppend
<1>2. replayState(q) = Checked(ReplayedOn(chain, b, snapshot))
  BY <1>0, ReplayOfAppend
<1>3. /\ reward(miningIssuedFor(chain), miningIssuedFor(chain)) = r
      /\ Version >= 2 => reward(miningIssuedFor(chain), 0) = r
  BY SameReward
<1>4. next # Invalid => IsState(next)
  BY <1>0, BlockApplies
<1>5. appliedTo(chain, b) = next
  BY <1>0 DEF appliedTo
<1> HIDE DEF r, next, q
<1>6. CASE ~(headerValid(b, chain) /\ r # 0 /\ transactionsValid(chain, b, r))
  <2>1. validateIncrementalBlock(b, chain, snapshot) = Invalid
    BY <1>6 DEF validateIncrementalBlock, r
  <2>2. ~validateNext(b, chain)
    BY <1>3, <1>6 DEF validateNext, validateV2TransactionsAndState
  <2> QED BY <1>1, <2>1, <2>2 DEF fullState, q
<1>7. CASE headerValid(b, chain) /\ r # 0 /\ transactionsValid(chain, b, r)
  <2>1. /\ identitiesFresh(chain, b) /\ Cardinality(coinbases(b.txs)) = 1 /\ b.sealed
        /\ \A k \in coinbases(b.txs) : coinbaseValid(b.txs[k], r)
    BY <1>7 DEF transactionsValid, coinbases
  <2>2. validateIncrementalBlock(b, chain, snapshot)
        = IF next # Invalid /\ supplyWithinPlan(next) THEN next ELSE Invalid
    BY <1>7, <2>1 DEF validateIncrementalBlock, applyIncrementalBlock, r, next
  <2>3. ReplayedOn(chain, b, snapshot) = next
    BY <1>0, <1>3, <1>7, <2>1 DEF ReplayedOn, next
  <2>4. replayState(q) = IF next # Invalid /\ supplyWithinPlan(next) THEN next ELSE Invalid
    BY <1>2, <2>3 DEF Checked
  <2>5. next # Invalid /\ supplyWithinPlan(next) => validateNext(b, chain)
    <3> SUFFICES ASSUME next # Invalid, supplyWithinPlan(next) PROVE validateNext(b, chain)
      OBVIOUS
    <3>1. CASE Version >= 2
      BY <1>3, <1>5, <1>7, <3>1 DEF validateNext, validateV2TransactionsAndState
    <3>2. CASE ~(Version >= 2)
      <4>1. next.supply <= MaxSupply
        BY <1>4, PlanBoundsSupply
      <4>2. \A k \in coinbases(b.txs) : b.txs[k].amount = r
        BY <2>1 DEF coinbaseValid
      <4>3. stateTransition(chain, b, r)
        BY <1>5, <2>1, <4>1, <4>2 DEF stateTransition
      <4> QED BY <1>3, <1>7, <3>2, <4>3 DEF validateNext
    <3> QED BY <3>1, <3>2
  <2>6. ~(next # Invalid /\ supplyWithinPlan(next)) => fullState(q) = Invalid
    BY <2>4 DEF fullState
  <2>7. next # Invalid /\ supplyWithinPlan(next) => fullState(q) = next
    BY <1>1, <2>4, <2>5 DEF fullState
  <2> QED BY <2>2, <2>6, <2>7 DEF q
<1> QED BY <1>6, <1>7

LEMMA LedgerInit == ASSUME IsFiniteSet(Addresses), ErrorIsNoState PROVE Init => LedgerInv
<1> SUFFICES ASSUME Init PROVE LedgerInv
  OBVIOUS
<1>1. chain = <<genesis>> /\ snapshot = genesisSnapshot
  BY DEF Init
<1>2. chain \in Seq({genesis}) /\ Len(chain) = 1 /\ chain[1] = genesis
  BY <1>1
<1>3. HasTxs(genesis) /\ Len(genesis.txs) = 0
  <2>1. genesis.txs = <<>> /\ <<>> \in Seq({})
    BY DEF genesis
  <2>2. Len(genesis.txs) = 0 /\ IsSequence(genesis.txs)
    BY <2>1 DEF IsSequence
  <2> QED BY <2>2 DEF HasTxs
<1>4. AllHaveTxs(chain)
  BY <1>2, <1>3 DEF AllHaveTxs, IsSequence
<1>5. validateChain(chain)
  BY <1>2 DEF validateChain
<1>6. /\ IsState(genesisSnapshot) /\ supplyWithinPlan(genesisSnapshot)
      /\ genesisSnapshot.miningIssued = 0
  BY GenesisBooks
<1>7. replayState(chain) = genesisSnapshot
  <2>1. Len(chain) \in Nat /\ 1 \in 1..Len(chain)
    BY <1>2
  <2>2. PICK f : /\ replayState(chain) = Checked(f[Len(chain)])
                 /\ \A i \in 1..Len(chain) : f[i] = IF i = 1 THEN genesisSnapshot ELSE replayBlock(chain, i, f[i - 1])
    BY <2>1, ReplayIs
  <2>3. f[1] = genesisSnapshot
    BY <2>1, <2>2
  <2>4. genesisSnapshot # Invalid
    BY <1>6 DEF ErrorIsNoState
  <2> QED BY <1>2, <1>6, <2>2, <2>3, <2>4 DEF Checked
<1>8. miningIssuedFor(chain) = 0
  <2>1. issuedIn(genesis.txs) = 0
    <3>1. PICK g : issuedIn(genesis.txs) = g[Len(genesis.txs)] /\ g[0] = 0
      BY <1>3, IssuedIs
    <3> QED BY <1>3, <3>1
  <2>2. /\ miningIssuedFor(chain) = Total(chain)[1]
        /\ IsSum(Total(chain), 1, Issuances(chain))
    BY <1>2, <1>4, TotalIsSum
  <2>3. Issuances(chain)[1] = 0
    BY <1>2, <2>1 DEF Issuances
  <2> DEFINE t == Total(chain)
             P == Issuances(chain)
  <2>4. IsSum(t, 1, P) /\ P[1] = 0
    BY <2>2, <2>3
  <2> HIDE DEF t, P
  <2>5. t[0] = 0 /\ t[1] = t[0] + P[1]
    BY <2>4 DEF IsSum
  <2> QED BY <2>2, <2>4, <2>5 DEF t
<1> QED BY <1>1, <1>2, <1>4, <1>5, <1>6, <1>7, <1>8 DEF LedgerInv

LEMMA AcceptStep ==
    ASSUME IsFiniteSet(Addresses), ErrorIsNoState, LedgerInv, NEW b, HasTxs(b), Accept(b)
    PROVE  LedgerInv'
<1> DEFINE next == applyTransactions(snapshot, b.txs)
           q == Append(chain, b)
<1>0. IsSequence(chain) /\ AllHaveTxs(chain) /\ IsState(snapshot) /\ snapshot.miningIssued = miningIssuedFor(chain)
  BY DEF LedgerInv, AllHaveTxs
<1>1. /\ chain' = q /\ snapshot' = validateIncrementalBlock(b, chain, snapshot)
      /\ validateIncrementalBlock(b, chain, snapshot) # Invalid
  BY DEF Accept
<1>2. snapshot' = fullState(q) /\ snapshot' # Invalid
  BY <1>1, RulesAgree
<1>3. snapshot' = next /\ next # Invalid /\ supplyWithinPlan(next)
  BY <1>1 DEF validateIncrementalBlock, applyIncrementalBlock
<1>4. IsState(next) /\ next.miningIssued = snapshot.miningIssued + issuedIn(b.txs)
  BY <1>0, <1>3, BlockApplies
<1>5. validateChain(q) /\ replayState(q) = snapshot'
  BY <1>2 DEF fullState
<1>6. AllHaveTxs(q) /\ miningIssuedFor(q) = miningIssuedFor(chain) + issuedIn(b.txs)
  BY <1>0, IssuedOfAppend
<1>7. Len(q) > 0
  <2>1. Len(q) = Len(chain) + 1 /\ Len(chain) \in Nat
    BY <1>0, PrefixOfAppend, SequenceFacts
  <2> QED BY <2>1
<1> HIDE DEF q, next
<1>8. snapshot'.miningIssued = miningIssuedFor(q)
  BY <1>0, <1>3, <1>4, <1>6
<1>9. IsState(snapshot') /\ supplyWithinPlan(snapshot')
  BY <1>3, <1>4
<1> QED BY <1>1, <1>5, <1>6, <1>7, <1>8, <1>9 DEF LedgerInv, AllHaveTxs, HasTxs, IsTx, IsSequence, IsState,
    supplyWithinPlan, isCoinbase

(* The block of the miner is a block. *)
LEMMA MinedHasTxs ==
    ASSUME LedgerInv, NEW to \in Addresses
    PROVE  HasTxs(minedBlock(to, reward(snapshot.miningIssued, snapshot.supply)))
<1> DEFINE r == reward(snapshot.miningIssued, snapshot.supply)
           tx == [id |-> <<to, r, miningTimestamp>>, sender |-> Coinbase, receiver |-> to,
                  amount |-> r, nonce |-> 0, valid |-> TRUE]
           b == minedBlock(to, r)
<1>1. b.txs = <<tx>>
  BY DEF minedBlock
<1> HIDE DEF b
<1>2. r \in Nat
  <2>1. snapshot.supply \in Int /\ BlockReward \in Nat /\ MaxSupply \in Nat
    BY RulesAssumption DEF LedgerInv, IsState
  <2>2. ASSUME snapshot.supply < MaxSupply PROVE Min({BlockReward, MaxSupply - snapshot.supply}) \in Nat
    <3>1. MaxSupply - snapshot.supply \in Nat
      BY <2>1, <2>2
    <3> QED BY <2>1, <3>1, MinOfTwo
  <2>3. ExpectedReward(snapshot.supply) \in Nat
    BY <2>1, <2>2 DEF ExpectedReward
  <2>4. ExpectedMiningReward(snapshot.miningIssued) \in Nat
    BY <2>1 DEF ExpectedMiningReward
  <2> QED BY <2>3, <2>4 DEF reward
<1> HIDE DEF r
<1>3. IsTx(tx)
  BY <1>2 DEF IsTx, isCoinbase
<1> HIDE DEF tx
<1>4. <<tx>> \in Seq({tx}) /\ Len(<<tx>>) = 1 /\ <<tx>>[1] = tx
  OBVIOUS
<1>5. IsSequence(b.txs) /\ Len(b.txs) = 1 /\ b.txs[1] = tx
  BY <1>1, <1>4 DEF IsSequence
<1>6. HasTxs(b)
  BY <1>3, <1>5 DEF HasTxs
<1> QED BY <1>6 DEF b, r

LEMMA LedgerStep ==
    ASSUME IsFiniteSet(Addresses), ErrorIsNoState, OffersAreBlocks
    PROVE  LedgerInv /\ [Next]_vars => LedgerInv'
<1> SUFFICES ASSUME LedgerInv, [Next]_vars PROVE LedgerInv'
  OBVIOUS
<1>1. ASSUME NEW b \in Offers(chain), Accept(b) PROVE LedgerInv'
  <2>1. HasTxs(b)
    BY DEF OffersAreBlocks, LedgerInv
  <2> QED BY <1>1, <2>1, AcceptStep
<1>2. ASSUME NEW to \in Addresses, NEW peer \in Clock \cup {NoPeers}, Mine(to, peer) PROVE LedgerInv'
  <2> DEFINE b == minedBlock(to, reward(snapshot.miningIssued, snapshot.supply))
  <2>1. Accept(b) /\ HasTxs(b)
    BY <1>2, MinedHasTxs DEF Mine
  <2> HIDE DEF b
  <2> QED BY <2>1, AcceptStep
<1>3. ASSUME UNCHANGED <<chain, snapshot>> PROVE LedgerInv'
  BY <1>3 DEF LedgerInv, AllHaveTxs, HasTxs, IsTx, IsSequence, IsState, supplyWithinPlan, isCoinbase,
     validateChain
<1> QED BY <1>1, <1>2, <1>3 DEF Next, ClockMoves, vars

-----------------------------------------------------------------------------
(* For every protocol version and every block offered on an accepted       *)
(* chain, accepted or not, validateIncrementalBlock on the parent snapshot *)
(* and validateChain with replayState over the whole chain give the same   *)
(* verdict and the same snapshot: a node that restarts is where it was.    *)
THEOREM RestartAgrees ==
    ASSUME IsFiniteSet(Addresses), ErrorIsNoState, OffersAreBlocks
    PROVE  Spec => []IncrementalAgreesWithReplay
<1>1. Init => LedgerInv
  BY LedgerInit
<1>2. LedgerInv /\ [Next]_vars => LedgerInv'
  BY LedgerStep
<1>3. LedgerInv => IncrementalAgreesWithReplay
  <2> SUFFICES ASSUME LedgerInv, NEW b \in Offers(chain)
               PROVE  validateIncrementalBlock(b, chain, snapshot) = fullState(Append(chain, b))
    BY DEF IncrementalAgreesWithReplay
  <2>1. HasTxs(b)
    BY DEF OffersAreBlocks, LedgerInv
  <2> QED BY <2>1, RulesAgree
<1> QED BY <1>1, <1>2, <1>3, PTL DEF Spec

(* Coins are moved, never made: for every version, allocation, reward,     *)
(* budget and accepted block, the balances add up to the genesis           *)
(* allocation plus the coinbases of the chain, within the mining budget    *)
(* and the maximum supply, and no account is overdrawn.                    *)
THEOREM CoinsAreConserved ==
    ASSUME IsFiniteSet(Addresses), ErrorIsNoState, OffersAreBlocks
    PROVE  Spec => []Conservation
<1>1. Init => LedgerInv
  BY LedgerInit
<1>2. LedgerInv /\ [Next]_vars => LedgerInv'
  BY LedgerStep
<1>3. LedgerInv => Conservation
  <2> SUFFICES ASSUME LedgerInv PROVE Conservation
    OBVIOUS
  <2>0. IsState(snapshot) /\ supplyWithinPlan(snapshot) /\ snapshot.miningIssued = miningIssuedFor(chain)
    BY DEF LedgerInv
  <2>1. \A a \in Addresses : snapshot.balances[a] >= 0
    BY <2>0 DEF IsState
  <2>2. SumFunction(snapshot.balances) = snapshot.supply
    <3> DEFINE f == snapshot.balances
    <3>1. f \in [Addresses -> Nat] /\ TotalOf(f, Addresses)[Addresses] = snapshot.supply
      BY <2>0 DEF IsState
    <3> HIDE DEF f
    <3>2. DOMAIN f = Addresses
      BY <3>1
    <3>3. SumFunctionOnSet(f, Addresses) = TotalOf(f, Addresses)[Addresses]
      BY SumIsTotal
    <3>4. SumFunction(f) = snapshot.supply
      BY <3>1, <3>2, <3>3 DEF SumFunction
    <3> QED BY <3>4 DEF f
  <2>3. snapshot.supply = snapshot.genesisSupply + miningIssuedFor(chain)
    BY <2>0 DEF IsState
  <2>4. snapshot.supply <= MaxSupply
    BY <2>0, PlanBoundsSupply
  <2>5. Phase7 => snapshot.miningIssued <= MiningBudget
    <3>1. Phase7 => genesisSnapshot.genesisSupply + MiningBudget = MaxSupply
      BY GenesisBooks
    <3>2. MiningBudget \in Nat /\ MaxSupply \in Nat
      BY RulesAssumption
    <3> QED BY <2>0, <2>4, <3>1, <3>2 DEF IsState
  <2> QED BY <2>1, <2>2, <2>3, <2>4, <2>5 DEF Conservation
<1> QED BY <1>1, <1>2, <1>3, PTL DEF Spec

-----------------------------------------------------------------------------
(* Replay protection.  The nonces of the transfers so far, T, are for each *)
(* sender exactly those below its nonce in the snapshot.                   *)

Covers(T, m) ==
    \A a \in Addresses : \A x : (x \in Nat /\ x < m[a]) <=> \E tx \in T : tx.sender = a /\ tx.nonce = x

LEMMA CoverStep ==
    ASSUME IsFiniteSet(Addresses), Version >= 2, NEW s, IsState(s), NEW tx, IsTx(tx), NEW T, Covers(T, s.nonces),
           applyTransaction(s, tx) # Invalid
    PROVE  /\ Covers(T \cup {tx}, applyTransaction(s, tx).nonces)
           /\ ~isCoinbase(tx) => tx.nonce = s.nonces[tx.sender]
<1> DEFINE m == s.nonces
           t == applyTransaction(s, tx)
<1>0. s # Invalid /\ m \in [Addresses -> Nat]
  BY DEF applyTransaction, IsState
<1>1. CASE isCoinbase(tx)
  <2>1. t.nonces = m
    BY <1>0, <1>1, CoinbaseApplies DEF applyTransaction
  <2>2. tx.sender \notin Addresses
    BY <1>1, RulesAssumption DEF isCoinbase
  <2>3. Covers(T \cup {tx}, m)
    BY <2>2 DEF Covers
  <2> QED BY <1>1, <2>1, <2>3
<1>2. CASE ~isCoinbase(tx)
  <2> DEFINE a == tx.sender
             n == tx.nonce
             w == t.nonces
  <2>1. t = applyTransfer(s, tx)
    BY <1>0, <1>2 DEF applyTransaction
  <2>2. nonceValid(s, tx) /\ w = [m EXCEPT ![a] = m[a] + 1]
    BY <1>2, <2>1, TransferApplies
  <2>3. n = m[a]
    BY <2>2 DEF nonceValid
  <2>4. a \in Addresses
    BY <1>2 DEF IsTx
  <2> HIDE DEF t, w, m
  <2>5. \A c \in Addresses : m[c] \in Nat /\ w[c] = IF c = a THEN m[a] + 1 ELSE m[c]
    BY <1>0, <2>2, <2>4
  <2>6. ASSUME NEW c \in Addresses, NEW x
        PROVE  (x \in Nat /\ x < w[c]) <=> \E u \in T \cup {tx} : u.sender = c /\ u.nonce = x
    <3>1. (x \in Nat /\ x < m[c]) <=> \E u \in T : u.sender = c /\ u.nonce = x
      BY DEF Covers, m
    <3>2. CASE c = a
      <4>1. (x \in Nat /\ x < w[c]) <=> (x \in Nat /\ x < m[c]) \/ x = n
        BY <2>3, <2>5, <3>2
      <4>2. (\E u \in T \cup {tx} : u.sender = c /\ u.nonce = x) <=> (\E u \in T : u.sender = c /\ u.nonce = x) \/ x = n
        BY <3>2
      <4> QED BY <3>1, <4>1, <4>2
    <3>3. CASE c # a
      <4>1. (\E u \in T \cup {tx} : u.sender = c /\ u.nonce = x) <=> (\E u \in T : u.sender = c /\ u.nonce = x)
        BY <3>3
      <4>2. w[c] = m[c]
        BY <2>5, <3>3
      <4> QED BY <3>1, <4>1, <4>2
    <3> QED BY <3>2, <3>3
  <2>7. Covers(T \cup {tx}, w)
    BY <2>6 DEF Covers
  <2> QED BY <2>3, <2>7 DEF w, t, m
<1> QED BY <1>1, <1>2

FirstTxs(b, k) == {b.txs[l] : l \in 1..k}

AllTxs(c) == UNION {FirstTxs(c[i], Len(c[i].txs)) : i \in 1..Len(c)}

NonceIsNext(tx, T) ==
    \A x : (x \in Nat /\ x < tx.nonce) <=> \E u \in T : u.sender = tx.sender /\ u.nonce = x

(* Each transfer of an accepted block has the nonce that comes next after  *)
(* those of all transfers before it.                                       *)
LEMMA BlockCovers ==
    ASSUME IsFiniteSet(Addresses), ErrorIsNoState, Version >= 2, NEW s, IsState(s), NEW b, HasTxs(b),
           NEW T, Covers(T, s.nonces), applyTransactions(s, b.txs) # Invalid
    PROVE  /\ Covers(T \cup FirstTxs(b, Len(b.txs)), applyTransactions(s, b.txs).nonces)
           /\ \A k \in 1..Len(b.txs) : ~isCoinbase(b.txs[k]) => NonceIsNext(b.txs[k], T \cup FirstTxs(b, k - 1))
<1> DEFINE txs == b.txs
           N == Len(txs)
<1>0. N \in Nat /\ \A k \in 1..N : IsTx(txs[k])
  BY SequenceFacts DEF HasTxs
<1>1. PICK f : /\ applyTransactions(s, txs) = f[N] /\ f[0] = s
               /\ \A k \in 1..N : f[k] = applyTransaction(f[k - 1], txs[k])
  BY <1>0, AppliedIs
<1>2. \A k \in Nat : k + 1 \in Nat /\ FirstTxs(b, k + 1) = FirstTxs(b, k) \cup {txs[k + 1]}
  <2> SUFFICES ASSUME NEW k \in Nat PROVE k + 1 \in Nat /\ FirstTxs(b, k + 1) = FirstTxs(b, k) \cup {txs[k + 1]}
    OBVIOUS
  <2>1. 1..(k + 1) = (1..k) \cup {k + 1}
    OBVIOUS
  <2> QED BY <2>1 DEF FirstTxs
<1>3. FirstTxs(b, 0) = {}
  BY DEF FirstTxs
<1> HIDE DEF N, txs
(* The states before an accepted end are states. *)
<1> DEFINE D == {d \in Nat : d <= N => f[N - d] # Invalid}
<1>4. 0 \in D
  <2>1. f[N] # Invalid /\ N - 0 = N
    BY <1>0, <1>1 DEF txs
  <2> QED BY <2>1
<1>5. ASSUME NEW d \in D PROVE d + 1 \in D
  <2>0. d \in Nat /\ (d <= N => f[N - d] # Invalid)
    OBVIOUS
  <2> HIDE DEF D
  <2> SUFFICES ASSUME d + 1 <= N PROVE f[N - (d + 1)] # Invalid
    BY <2>0 DEF D
  <2> DEFINE k == N - d
  <2>1. k \in 1..N /\ k - 1 = N - (d + 1) /\ d <= N
    BY <1>0, <2>0
  <2>2. f[k] # Invalid
    BY <2>0, <2>1
  <2> HIDE DEF k
  <2>3. f[k] = applyTransaction(f[k - 1], txs[k])
    BY <1>1, <2>1
  <2>4. f[k - 1] # Invalid
    BY <2>2, <2>3 DEF applyTransaction
  <2> QED BY <2>1, <2>4
<1>6. D = Nat
  <2>1. D \in SUBSET Nat
    OBVIOUS
  <2> HIDE DEF D
  <2> QED BY <1>4, <1>5, <2>1, NatSetInduction
<1>7. ASSUME NEW k \in 0..N PROVE f[k] # Invalid
  <2> DEFINE d == N - k
  <2>1. d \in Nat /\ d <= N /\ N - d = k
    BY <1>0
  <2> HIDE DEF d
  <2>2. d \in D
    BY <1>6, <2>1
  <2> QED BY <2>1, <2>2
<1> DEFINE S == {k \in Nat : k <= N => IsState(f[k]) /\ Covers(T \cup FirstTxs(b, k), f[k].nonces)}
<1>8. 0 \in S
  BY <1>1, <1>3
<1>9. ASSUME NEW i \in S PROVE i + 1 \in S
  <2>0. i \in Nat /\ (i <= N => IsState(f[i]) /\ Covers(T \cup FirstTxs(b, i), f[i].nonces))
    OBVIOUS
  <2> HIDE DEF S
  <2> DEFINE k == i + 1
  <2> SUFFICES ASSUME k <= N PROVE IsState(f[k]) /\ Covers(T \cup FirstTxs(b, k), f[k].nonces)
    BY <2>0 DEF S
  <2>1. k \in 1..N /\ k \in 0..N /\ k - 1 = i /\ i <= N
    BY <1>0, <2>0
  <2>2. FirstTxs(b, k) = FirstTxs(b, i) \cup {txs[k]}
    BY <1>2, <2>0
  <2> HIDE DEF k
  <2>3. f[k] = applyTransaction(f[k - 1], txs[k]) /\ IsTx(txs[k]) /\ f[k] # Invalid
    BY <1>0, <1>1, <1>7, <2>1
  <2>4. f[k] = applyTransaction(f[i], txs[k])
    BY <2>1, <2>3
  <2>5. IsState(f[i]) /\ Covers(T \cup FirstTxs(b, i), f[i].nonces)
    BY <2>0, <2>1
  <2>6. IsState(f[k])
    BY <2>3, <2>4, <2>5, TransactionApplies
  <2> DEFINE U == T \cup FirstTxs(b, i)
  <2>7. Covers(U \cup {txs[k]}, f[k].nonces)
    <3>1. Covers(U, f[i].nonces)
      BY <2>5
    <3> HIDE DEF U
    <3> QED BY <2>3, <2>4, <2>5, <3>1, CoverStep
  <2>8. U \cup {txs[k]} = T \cup FirstTxs(b, k)
    BY <2>2
  <2> HIDE DEF U
  <2> QED BY <2>6, <2>7, <2>8
<1>10. S = Nat
  <2>1. S \in SUBSET Nat
    OBVIOUS
  <2> HIDE DEF S
  <2> QED BY <1>8, <1>9, <2>1, NatSetInduction
<1>11. ASSUME NEW k \in 0..N PROVE IsState(f[k]) /\ Covers(T \cup FirstTxs(b, k), f[k].nonces)
  <2>0. k \in Nat /\ k <= N
    BY <1>0
  <2>1. k \in S
    <3> HIDE DEF S
    <3> QED BY <1>10, <2>0
  <2> QED BY <2>0, <2>1
<1>12. N \in 0..N
  BY <1>0
<1>13. Covers(T \cup FirstTxs(b, N), applyTransactions(s, txs).nonces)
  BY <1>1, <1>11, <1>12
<1>14. ASSUME NEW k \in 1..N, ~isCoinbase(txs[k])
       PROVE  NonceIsNext(txs[k], T \cup FirstTxs(b, k - 1))
  <2> DEFINE i == k - 1
             U == T \cup FirstTxs(b, i)
  <2>1. i \in 0..N /\ k \in 0..N
    BY <1>0
  <2>2. f[k] = applyTransaction(f[i], txs[k]) /\ IsTx(txs[k]) /\ f[k] # Invalid
    BY <1>0, <1>1, <1>7, <2>1
  <2> HIDE DEF i
  <2>3. IsState(f[i]) /\ Covers(U, f[i].nonces)
    BY <1>11, <2>1
  <2> HIDE DEF U
  <2>4. txs[k].nonce = f[i].nonces[txs[k].sender]
    BY <1>14, <2>2, <2>3, CoverStep
  <2>5. txs[k].sender \in Addresses
    BY <1>14, <2>2 DEF IsTx
  <2>6. NonceIsNext(txs[k], U)
    BY <2>3, <2>4, <2>5 DEF Covers, NonceIsNext
  <2> QED BY <2>6 DEF U, i
<1> QED BY <1>13, <1>14 DEF N, txs

(* Every transaction before place (i, k) differs from the one there, and a *)
(* transfer there has the least nonce that its sender has not used.        *)
FreshAt(c, i, k) ==
    LET tx == c[i].txs[k]
    IN  /\ \A j \in 1..Len(c) : \A l \in 1..Len(c[j].txs) :
               (j < i \/ (j = i /\ l < k)) =>
                   /\ c[j].txs[l].id # tx.id
                   /\ Version >= 2 /\ ~isCoinbase(tx) /\ c[j].txs[l].sender = tx.sender => c[j].txs[l].nonce < tx.nonce
        /\ Version >= 2 /\ ~isCoinbase(tx) => \A n \in 0..(tx.nonce - 1) :
               \E j \in 1..Len(c) : \E l \in 1..Len(c[j].txs) :
                   c[j].txs[l].sender = tx.sender /\ c[j].txs[l].nonce = n

AllFresh(c) == \A i \in 1..Len(c) : \A k \in 1..Len(c[i].txs) : FreshAt(c, i, k)

LEMMA FreshStays ==
    ASSUME NEW c, NEW q, NEW N \in Nat, Len(c) = N, Len(q) = N + 1, \A i \in 1..N : q[i] = c[i],
           NEW i \in 1..N, NEW k \in 1..Len(c[i].txs), FreshAt(c, i, k)
    PROVE  FreshAt(q, i, k)
<1> DEFINE tx == c[i].txs[k]
<1>0. q[i] = c[i] /\ q[i].txs[k] = tx
  OBVIOUS
<1>1. ASSUME NEW j \in 1..(N + 1), NEW l \in 1..Len(q[j].txs), j < i \/ (j = i /\ l < k)
      PROVE  /\ q[j].txs[l].id # tx.id
             /\ Version >= 2 /\ ~isCoinbase(tx) /\ q[j].txs[l].sender = tx.sender => q[j].txs[l].nonce < tx.nonce
  <2>1. j \in 1..N
    BY <1>1
  <2>2. q[j] = c[j] /\ l \in 1..Len(c[j].txs)
    BY <2>1
  <2> QED BY <1>1, <2>1, <2>2 DEF FreshAt
<1>2. ASSUME Version >= 2, ~isCoinbase(tx), NEW n \in 0..(tx.nonce - 1)
      PROVE  \E j \in 1..(N + 1) : \E l \in 1..Len(q[j].txs) : q[j].txs[l].sender = tx.sender /\ q[j].txs[l].nonce = n
  <2>1. PICK j \in 1..N : \E l \in 1..Len(c[j].txs) : c[j].txs[l].sender = tx.sender /\ c[j].txs[l].nonce = n
    BY <1>2 DEF FreshAt
  <2>2. j \in 1..(N + 1) /\ q[j] = c[j]
    BY <2>1
  <2> QED BY <2>1, <2>2
<1> HIDE DEF tx
<1> QED BY <1>0, <1>1, <1>2 DEF FreshAt

LEMMA FreshNew ==
    ASSUME NEW c, NEW q, NEW N \in Nat, Len(c) = N, Len(q) = N + 1, \A i \in 1..N : q[i] = c[i],
           NEW b, q[N + 1] = b, HasTxs(b), AllHaveTxs(c), identitiesFresh(c, b),
           NEW k \in 1..Len(b.txs),
           Version >= 2 /\ ~isCoinbase(b.txs[k]) => NonceIsNext(b.txs[k], AllTxs(c) \cup FirstTxs(b, k - 1))
    PROVE  FreshAt(q, N + 1, k)
<1> DEFINE tx == b.txs[k]
           e == N + 1
<1>0. e \in 1..(N + 1) /\ q[e] = b /\ q[e].txs[k] = tx /\ \A j \in 1..(N + 1) : j \in 1..N \/ j = e
  OBVIOUS
<1>a. DOMAIN b.txs = 1..Len(b.txs) /\ Len(b.txs) \in Nat /\ k \in DOMAIN b.txs
  BY SequenceFacts DEF HasTxs
<1>b. DOMAIN c = 1..N /\ \A j \in 1..N : DOMAIN c[j].txs = 1..Len(c[j].txs)
  <2>1. \A j \in 1..N : IsSequence(c[j].txs)
    BY DEF AllHaveTxs, HasTxs
  <2> QED BY <2>1, SequenceFacts DEF AllHaveTxs
<1>c. IsTx(tx)
  BY DEF HasTxs
<1>1. ASSUME NEW j \in 1..(N + 1), NEW l \in 1..Len(q[j].txs), j < e \/ (j = e /\ l < k)
      PROVE  /\ q[j].txs[l].id # tx.id
             /\ q[j].txs[l] \in AllTxs(c) \cup FirstTxs(b, k - 1)
  <2>1. CASE j \in 1..N
    <3>1. q[j] = c[j] /\ l \in 1..Len(c[j].txs)
      BY <2>1
    <3>2. c[j].txs[l] \in AllTxs(c)
      BY <2>1, <3>1 DEF AllTxs, FirstTxs
    <3>3. c[j].txs[l].id \in identities(c)
      BY <1>b, <2>1, <3>1 DEF identities
    <3>4. tx.id \notin identities(c)
      BY <1>a DEF identitiesFresh
    <3> QED BY <3>1, <3>2, <3>3, <3>4
  <2>2. CASE j = e
    <3>1. l \in 1..Len(b.txs) /\ l < k /\ q[j] = b /\ l \in 1..(k - 1)
      BY <1>0, <1>1, <1>a, <2>2
    <3>2. b.txs[l] \in FirstTxs(b, k - 1)
      BY <3>1 DEF FirstTxs
    <3>3. b.txs[l].id # tx.id
      BY <1>a, <3>1 DEF identitiesFresh
    <3> QED BY <3>1, <3>2, <3>3
  <2> QED BY <1>0, <2>1, <2>2
<1>2. ASSUME NEW u \in AllTxs(c) \cup FirstTxs(b, k - 1)
      PROVE  \E j \in 1..(N + 1) : \E l \in 1..Len(q[j].txs) : q[j].txs[l] = u
  <2>1. CASE u \in AllTxs(c)
    <3>1. PICK j \in 1..N : u \in FirstTxs(c[j], Len(c[j].txs))
      BY <2>1 DEF AllTxs
    <3>2. PICK l \in 1..Len(c[j].txs) : u = c[j].txs[l]
      BY <3>1 DEF FirstTxs
    <3>3. j \in 1..(N + 1) /\ q[j] = c[j]
      BY <3>1
    <3> QED BY <3>2, <3>3
  <2>2. CASE u \in FirstTxs(b, k - 1)
    <3>1. PICK l \in 1..(k - 1) : u = b.txs[l]
      BY <2>2 DEF FirstTxs
    <3>2. l \in 1..Len(q[e].txs)
      BY <1>0, <1>a
    <3> QED BY <1>0, <3>1, <3>2
  <2> QED BY <2>1, <2>2
<1> DEFINE T == AllTxs(c) \cup FirstTxs(b, k - 1)
<1>3. Version >= 2 /\ ~isCoinbase(tx) =>
          \A x : (x \in Nat /\ x < tx.nonce) <=> \E u \in T : u.sender = tx.sender /\ u.nonce = x
  BY DEF NonceIsNext
<1>4. \A j \in 1..(N + 1) : \A l \in 1..Len(q[j].txs) :
          (j < e \/ (j = e /\ l < k)) => q[j].txs[l].id # tx.id /\ q[j].txs[l] \in T
  BY <1>1
<1>5. \A u \in T : \E j \in 1..(N + 1) : \E l \in 1..Len(q[j].txs) : q[j].txs[l] = u
  BY <1>2
<1> HIDE DEF T, tx
<1>6. ASSUME NEW j \in 1..(N + 1), NEW l \in 1..Len(q[j].txs), j < e \/ (j = e /\ l < k)
      PROVE  /\ q[j].txs[l].id # tx.id
             /\ Version >= 2 /\ ~isCoinbase(tx) /\ q[j].txs[l].sender = tx.sender => q[j].txs[l].nonce < tx.nonce
  <2>1. q[j].txs[l].id # tx.id /\ q[j].txs[l] \in T
    BY <1>4, <1>6
  <2> DEFINE u == q[j].txs[l]
  <2>2. ASSUME Version >= 2, ~isCoinbase(tx), u.sender = tx.sender PROVE u.nonce < tx.nonce
    <3>1. u \in T
      BY <2>1
    <3> HIDE DEF u
    <3>2. (u.nonce \in Nat /\ u.nonce < tx.nonce) <=> \E v \in T : v.sender = tx.sender /\ v.nonce = u.nonce
      BY <1>3, <2>2
    <3> QED BY <2>2, <3>1, <3>2
  <2> QED BY <2>1, <2>2
<1>7. ASSUME Version >= 2, ~isCoinbase(tx), NEW n \in 0..(tx.nonce - 1)
      PROVE  \E j \in 1..(N + 1) : \E l \in 1..Len(q[j].txs) : q[j].txs[l].sender = tx.sender /\ q[j].txs[l].nonce = n
  <2>1. tx.nonce \in Nat
    BY <1>c DEF IsTx
  <2>2. n \in Nat /\ n < tx.nonce
    BY <2>1
  <2>3. PICK u \in T : u.sender = tx.sender /\ u.nonce = n
    BY <1>3, <1>7, <2>2
  <2>4. PICK j \in 1..(N + 1) : \E l \in 1..Len(q[j].txs) : q[j].txs[l] = u
    BY <1>5, <2>3
  <2> QED BY <2>3, <2>4
<1>8. q[e].txs[k] = tx
  BY <1>0 DEF tx
<1> HIDE DEF e
<1>9. FreshAt(q, e, k)
  BY <1>6, <1>7, <1>8 DEF FreshAt
<1> QED BY <1>9 DEF e

SpentInv ==
    /\ LedgerInv
    /\ AllFresh(chain)
    /\ Version >= 2 => Covers(AllTxs(chain), snapshot.nonces)

LEMMA SpentAccept ==
    ASSUME IsFiniteSet(Addresses), ErrorIsNoState, SpentInv, NEW b, HasTxs(b), Accept(b)
    PROVE  SpentInv'
<1> DEFINE q == Append(chain, b)
           N == Len(chain)
           next == applyTransactions(snapshot, b.txs)
           T == AllTxs(chain)
<1>0. /\ IsSequence(chain) /\ AllHaveTxs(chain) /\ IsState(snapshot) /\ LedgerInv
      /\ N \in Nat /\ AllFresh(chain) /\ (Version >= 2 => Covers(T, snapshot.nonces))
  BY SequenceFacts DEF SpentInv, LedgerInv, AllHaveTxs
<1>1. chain' = q /\ validateIncrementalBlock(b, chain, snapshot) # Invalid
      /\ snapshot' = validateIncrementalBlock(b, chain, snapshot)
  BY DEF Accept
<1>2. snapshot' = next /\ next # Invalid
  BY <1>1 DEF validateIncrementalBlock, applyIncrementalBlock
<1>3. identitiesFresh(chain, b)
  BY <1>1 DEF validateIncrementalBlock, transactionsValid
<1>4. Len(q) = N + 1 /\ q[N + 1] = b /\ \A i \in 1..N : q[i] = chain[i]
  BY <1>0, PrefixOfAppend
<1>5. LedgerInv'
  BY <1>0, AcceptStep
<1>6. /\ Version >= 2 => Covers(T \cup FirstTxs(b, Len(b.txs)), next.nonces)
      /\ Version >= 2 => \A k \in 1..Len(b.txs) :
             ~isCoinbase(b.txs[k]) => NonceIsNext(b.txs[k], T \cup FirstTxs(b, k - 1))
  <2> HIDE DEF T
  <2> QED BY <1>0, <1>2, BlockCovers
<1> HIDE DEF q, next
<1>7. AllTxs(q) = T \cup FirstTxs(b, Len(b.txs))
  <2>1. ASSUME NEW u \in AllTxs(q) PROVE u \in T \cup FirstTxs(b, Len(b.txs))
    <3>1. PICK i \in 1..(N + 1) : u \in FirstTxs(q[i], Len(q[i].txs))
      BY <1>4, <2>1 DEF AllTxs
    <3>2. CASE i \in 1..N
      BY <1>4, <3>1, <3>2 DEF AllTxs
    <3>3. CASE i = N + 1
      BY <1>4, <3>1, <3>3
    <3> QED BY <1>0, <3>2, <3>3
  <2>2. ASSUME NEW u \in T PROVE u \in AllTxs(q)
    <3>1. PICK i \in 1..N : u \in FirstTxs(chain[i], Len(chain[i].txs))
      BY <2>2 DEF AllTxs
    <3>2. i \in 1..(N + 1) /\ q[i] = chain[i]
      BY <1>0, <1>4, <3>1
    <3> QED BY <1>4, <3>1, <3>2 DEF AllTxs
  <2>3. ASSUME NEW u \in FirstTxs(b, Len(b.txs)) PROVE u \in AllTxs(q)
    <3>1. N + 1 \in 1..(N + 1)
      BY <1>0
    <3> QED BY <1>4, <3>1 DEF AllTxs
  <2> HIDE DEF T
  <2> QED BY <2>1, <2>2, <2>3
<1>8. AllFresh(q)
  <2> SUFFICES ASSUME NEW i \in 1..(N + 1), NEW k \in 1..Len(q[i].txs) PROVE FreshAt(q, i, k)
    BY <1>4 DEF AllFresh
  <2>1. CASE i \in 1..N
    <3>1. q[i] = chain[i] /\ k \in 1..Len(chain[i].txs)
      BY <1>4, <2>1
    <3>2. FreshAt(chain, i, k)
      BY <1>0, <2>1, <3>1 DEF AllFresh
    <3> QED BY <1>0, <1>4, <2>1, <3>1, <3>2, FreshStays
  <2>2. CASE i = N + 1
    <3>1. k \in 1..Len(b.txs)
      BY <1>4, <2>2
    <3>2. Version >= 2 /\ ~isCoinbase(b.txs[k]) => NonceIsNext(b.txs[k], AllTxs(chain) \cup FirstTxs(b, k - 1))
      BY <1>6, <3>1
    <3>3. FreshAt(q, N + 1, k)
      <4>1. Len(chain) = N /\ N \in Nat /\ AllHaveTxs(chain)
        BY <1>0
      <4> HIDE DEF N
      <4> QED BY <1>3, <1>4, <3>1, <3>2, <4>1, FreshNew
    <3> QED BY <2>2, <3>3
  <2> QED BY <1>0, <2>1, <2>2
<1>9. Version >= 2 => Covers(AllTxs(q), next.nonces)
  BY <1>6, <1>7
<1>10. AllFresh(chain') /\ (Version >= 2 => Covers(AllTxs(chain'), snapshot'.nonces))
  BY <1>1, <1>2, <1>8, <1>9
<1> QED BY <1>5, <1>10 DEF SpentInv, AllFresh, FreshAt, isCoinbase, Covers, AllTxs, FirstTxs

(* Replay protection, for every version and every sequence of accepted     *)
(* blocks: no identity occurs twice on a chain, and from V2 on the         *)
(* transfers of a sender carry the nonces 0, 1, 2, ... in chain order.     *)
THEOREM NothingSpentTwice ==
    ASSUME IsFiniteSet(Addresses), ErrorIsNoState, OffersAreBlocks
    PROVE  Spec => []SpentOnce
<1>1. Init => SpentInv
  <2> SUFFICES ASSUME Init PROVE SpentInv
    OBVIOUS
  <2>1. LedgerInv
    BY LedgerInit
  <2>2. chain = <<genesis>> /\ snapshot = genesisSnapshot
    BY DEF Init
  <2>3. Len(chain) = 1 /\ chain[1] = genesis
    BY <2>2
  <2>4. Len(chain[1].txs) = 0
    BY <2>3 DEF genesis
  <2>5. \A i \in 1..Len(chain) : 1..Len(chain[i].txs) = {}
    BY <2>3, <2>4
  <2>6. AllFresh(chain)
    BY <2>5 DEF AllFresh
  <2>7. AllTxs(chain) = {}
    BY <2>5 DEF AllTxs, FirstTxs
  <2>8. \A a \in Addresses : snapshot.nonces[a] = 0
    BY <2>2 DEF genesisSnapshot
  <2>9. Covers(AllTxs(chain), snapshot.nonces)
    BY <2>7, <2>8 DEF Covers
  <2> QED BY <2>1, <2>6, <2>9 DEF SpentInv
<1>2. SpentInv /\ [Next]_vars => SpentInv'
  <2> SUFFICES ASSUME SpentInv, [Next]_vars PROVE SpentInv'
    OBVIOUS
  <2>1. ASSUME NEW b \in Offers(chain), Accept(b) PROVE SpentInv'
    <3>1. HasTxs(b)
      BY DEF OffersAreBlocks, SpentInv, LedgerInv
    <3> QED BY <2>1, <3>1, SpentAccept
  <2>2. ASSUME NEW to \in Addresses, NEW peer \in Clock \cup {NoPeers}, Mine(to, peer) PROVE SpentInv'
    <3> DEFINE b == minedBlock(to, reward(snapshot.miningIssued, snapshot.supply))
    <3>1. Accept(b) /\ HasTxs(b)
      BY <2>2, MinedHasTxs DEF Mine, SpentInv
    <3> HIDE DEF b
    <3> QED BY <3>1, SpentAccept
  <2>3. ASSUME UNCHANGED <<chain, snapshot>> PROVE SpentInv'
    <3>1. LedgerInv'
      BY LedgerStep, <2>3 DEF SpentInv
    <3>2. AllFresh(chain') /\ (Version >= 2 => Covers(AllTxs(chain'), snapshot'.nonces))
      BY <2>3 DEF SpentInv
    <3> QED BY <3>1, <3>2 DEF SpentInv, AllFresh, FreshAt, isCoinbase, Covers, AllTxs, FirstTxs
  <2> QED BY <2>1, <2>2, <2>3 DEF Next, ClockMoves, vars
<1>3. SpentInv => SpentOnce
  <2> SUFFICES ASSUME SpentInv PROVE SpentOnce
    OBVIOUS
  <2>1. IsSequence(chain) /\ \A i \in 1..Len(chain) : IsSequence(chain[i].txs)
    BY DEF SpentInv, LedgerInv, AllHaveTxs, HasTxs
  <2>2. DOMAIN chain = 1..Len(chain) /\ \A i \in 1..Len(chain) : DOMAIN chain[i].txs = 1..Len(chain[i].txs)
    BY <2>1, SequenceFacts
  <2>3. \A i \in 1..Len(chain) : \A k \in 1..Len(chain[i].txs) : FreshAt(chain, i, k)
    BY DEF SpentInv, AllFresh
  <2>4. ASSUME NEW i \in DOMAIN chain, NEW k \in DOMAIN chain[i].txs
        PROVE  LET tx == chain[i].txs[k]
               IN  /\ \A j \in DOMAIN chain : \A l \in DOMAIN chain[j].txs :
                          (j < i \/ (j = i /\ l < k)) =>
                              /\ chain[j].txs[l].id # tx.id
                              /\ (Version >= 2 /\ ~isCoinbase(tx)) /\ chain[j].txs[l].sender = tx.sender
                                 => chain[j].txs[l].nonce < tx.nonce
                   /\ (Version >= 2 /\ ~isCoinbase(tx)) => \A n \in 0..(tx.nonce - 1) :
                          \E j \in DOMAIN chain : \E l \in DOMAIN chain[j].txs :
                              chain[j].txs[l].sender = tx.sender /\ chain[j].txs[l].nonce = n
    <3>1. FreshAt(chain, i, k)
      BY <2>2, <2>3
    <3> DEFINE tx == chain[i].txs[k]
    <3>2. ASSUME NEW j \in DOMAIN chain, NEW l \in DOMAIN chain[j].txs, j < i \/ (j = i /\ l < k)
          PROVE  /\ chain[j].txs[l].id # tx.id
                 /\ (Version >= 2 /\ ~isCoinbase(tx)) /\ chain[j].txs[l].sender = tx.sender
                    => chain[j].txs[l].nonce < tx.nonce
      <4>1. j \in 1..Len(chain) /\ l \in 1..Len(chain[j].txs)
        BY <2>2
      <4> QED BY <3>1, <3>2, <4>1 DEF FreshAt
    <3>3. ASSUME Version >= 2, ~isCoinbase(tx), NEW n \in 0..(tx.nonce - 1)
          PROVE  \E j \in DOMAIN chain : \E l \in DOMAIN chain[j].txs :
                     chain[j].txs[l].sender = tx.sender /\ chain[j].txs[l].nonce = n
      <4>1. PICK j \in 1..Len(chain) : \E l \in 1..Len(chain[j].txs) :
                     chain[j].txs[l].sender = tx.sender /\ chain[j].txs[l].nonce = n
        BY <3>1, <3>3 DEF FreshAt
      <4> QED BY <2>2, <4>1
    <3> QED BY <3>2, <3>3
  <2> QED BY <2>4 DEF SpentOnce
<1> QED BY <1>1, <1>2, <1>3, PTL DEF Spec

-----------------------------------------------------------------------------
(* The miner.  The median is one of the timestamps of the chain. *)

Earlier(f, t) == {i \in DOMAIN f : f[i] < t}

Until(f, t) == {i \in DOMAIN f : f[i] <= t}

LEMMA MedianExists ==
    ASSUME NEW M \in Nat \ {0}, NEW f \in [1..M -> Nat], NEW k \in Nat, k < M
    PROVE  \E t \in Range(f) : Cardinality(Earlier(f, t)) <= k /\ Cardinality(Until(f, t)) > k
<1> DEFINE G == {t \in Range(f) : Cardinality(Until(f, t)) > k}
<1>1. /\ DOMAIN f = 1..M /\ Range(f) = {f[i] : i \in 1..M} /\ Range(f) \in SUBSET Nat
      /\ \A i \in 1..M : f[i] \in Nat /\ f[i] \in Int /\ f[i] \in Range(f)
  BY DEF Range
<1>2. IsFiniteSet(1..M) /\ Cardinality(1..M) = M
  BY FS_Interval
<1>3. \A R \in SUBSET (1..M) : IsFiniteSet(R) /\ Cardinality(R) \in Nat
  BY <1>2, FS_Subset, FS_CardinalityType
<1>4. \A t : Earlier(f, t) \in SUBSET (1..M) /\ Until(f, t) \in SUBSET (1..M)
  BY <1>1 DEF Earlier, Until
<1>5. G # {}
  <2>1. 1..M # {}
    OBVIOUS
  <2>2. PICK m \in 1..M : \A y \in 1..M : f[y] <= f[m]
    BY <1>1, <1>2, <2>1, GreatestOfFinite
  <2>3. Until(f, f[m]) = 1..M
    BY <1>1, <2>2 DEF Until
  <2>4. f[m] \in G
    BY <1>1, <1>2, <2>3
  <2> QED BY <2>4
<1>6. PICK t \in G : \A y \in G : t <= y
  <2>1. G \in SUBSET Nat
    BY <1>1
  <2> HIDE DEF G
  <2> QED BY <1>5, <2>1, LeastNumber
<1>7. t \in Range(f) /\ t \in Nat /\ Cardinality(Until(f, t)) > k
  BY <1>1
<1>8. Cardinality(Earlier(f, t)) <= k
  <2>1. CASE Earlier(f, t) = {}
    BY <2>1, FS_EmptySet
  <2>2. CASE Earlier(f, t) # {}
    <3> DEFINE E == Earlier(f, t)
    <3>1. IsFiniteSet(E) /\ E \in SUBSET (1..M) /\ \A x \in E : f[x] \in Int /\ f[x] < t
      BY <1>1, <1>3, <1>4 DEF Earlier
    <3>2. \A x \in 1..M : f[x] < t => x \in E
      BY <1>1 DEF Earlier
    <3> HIDE DEF E
    <3>3. PICK m \in E : \A y \in E : f[y] <= f[m]
      BY <2>2, <3>1, GreatestOfFinite DEF E
    <3>4. Until(f, f[m]) = E
      <4>1. m \in 1..M /\ f[m] \in Nat /\ f[m] < t
        BY <1>1, <3>1
      <4>2. ASSUME NEW x \in 1..M, f[x] <= f[m] PROVE f[x] < t
        <5>1. f[x] \in Nat
          BY <1>1
        <5> QED BY ONLY <1>7, <4>1, <4>2, <5>1
      <4> QED BY <1>1, <3>1, <3>2, <3>3, <4>2 DEF Until
    <3>5. f[m] \in Range(f) /\ f[m] < t /\ f[m] \in Nat
      BY <1>1, <3>1
    <3>6. f[m] \notin G
      BY <1>6, <1>7, <3>5
    <3>7. ~(Cardinality(E) > k) /\ Cardinality(E) \in Nat
      BY <1>3, <3>1, <3>4, <3>5, <3>6
    <3> QED BY <3>7 DEF E
  <2> QED BY <2>1, <2>2
<1> QED BY <1>7, <1>8

LEMMA MedianIs ==
    ASSUME NEW M \in Nat \ {0}, NEW f, f \in [1..M -> Nat], Len(f) = M
    PROVE  median(f) \in Range(f)
<1> DEFINE k == M \div 2
           P(t) == Cardinality(Earlier(f, t)) <= k /\ Cardinality(Until(f, t)) > k
<1>1. k \in Nat /\ k < M
  OBVIOUS
<1> HIDE DEF k
<1>2. \E t \in Range(f) : P(t)
  BY <1>1, MedianExists
<1>3. median(f) = CHOOSE t \in Range(f) : P(t)
  BY DEF median, Earlier, Until, k
<1> HIDE DEF P
<1> QED BY <1>2, <1>3

(* The chain's timestamps, as accepted: none is after the last one. *)
Timed(c) ==
    /\ IsSequence(c) /\ Len(c) > 0
    /\ \A i \in 1..Len(c) : c[i].time \in Nat /\ c[i].time <= c[Len(c)].time

LEMMA MedianTime ==
    ASSUME NEW c, Timed(c)
    PROVE  medianTimePast(c) \in Nat /\ medianTimePast(c) <= c[Len(c)].time
<1> DEFINE N == Len(c)
           a == Max({1, N - MTPWindow + 1})
           w == SubSeq(c, a, N)
           M == N - a + 1
           f == [i \in DOMAIN w |-> w[i].time]
<1>1. N \in Nat /\ N > 0 /\ IsSequence(c) /\ \A i \in 1..N : c[i].time \in Nat /\ c[i].time <= c[N].time
  BY SequenceFacts DEF Timed
<1>2. a \in 1..N
  <2>1. MTPWindow \in Nat /\ MTPWindow > 0
    BY RulesAssumption
  <2>2. N - MTPWindow + 1 \in Int /\ N - MTPWindow + 1 <= N
    BY <1>1, <2>1
  <2>3. a = IF 1 >= N - MTPWindow + 1 THEN 1 ELSE N - MTPWindow + 1
    BY <2>2, MaxOfTwo
  <2> QED BY <1>1, <2>1, <2>2, <2>3
<1> HIDE DEF a
<1>3. M \in Nat \ {0}
  BY <1>1, <1>2
<1>4. Len(w) = M /\ DOMAIN w = 1..M /\ \A i \in 1..M : w[i] = c[a + i - 1]
  <2>1. PICK S : c \in Seq(S)
    BY <1>1 DEF IsSequence
  <2> QED BY <1>1, <1>2, <2>1
<1>5. medianTimePast(c) = median(f)
  BY DEF medianTimePast, a
<1>6. \A i \in 1..M : a + i - 1 \in 1..N
  BY <1>1, <1>2
<1> HIDE DEF w, M
<1>7. f \in [1..M -> Nat] /\ \A i \in 1..M : f[i] <= c[N].time
  BY <1>1, <1>4, <1>6
<1> HIDE DEF f
<1>8. Len(f) = M
  BY <1>3, <1>7
<1>9. median(f) \in Range(f)
  BY <1>3, <1>7, <1>8, MedianIs
<1>10. PICK i \in 1..M : median(f) = f[i]
  BY <1>7, <1>9 DEF Range
<1> HIDE DEF N
<1> QED BY <1>5, <1>7, <1>10 DEF N

(* A coinbase is made for its block: the time in its identity is not after *)
(* the block's.                                                            *)
Dated(b) ==
    /\ b.time \in Int
    /\ \A k \in 1..Len(b.txs) : \A to \in Addresses : \A r, t : b.txs[k].id = <<to, r, t>> => t <= b.time

OffersAreDated == \A c : AllHaveTxs(c) /\ Timed(c) => \A b \in Offers(c) : Dated(b)

TimeInv ==
    /\ LedgerInv /\ now \in Nat
    /\ Timed(chain) /\ \A i \in 1..Len(chain) : Dated(chain[i])

LEMMA TimeInit == ASSUME IsFiniteSet(Addresses), ErrorIsNoState PROVE Init => TimeInv
<1> SUFFICES ASSUME Init PROVE TimeInv
  OBVIOUS
<1>1. LedgerInv /\ chain = <<genesis>> /\ now \in Nat
  BY LedgerInit, LedgerAssumption DEF Init
<1>2. IsSequence(chain) /\ Len(chain) = 1 /\ chain[1] = genesis
  <2>1. chain \in Seq({genesis}) /\ Len(chain) = 1 /\ chain[1] = genesis
    BY <1>1
  <2> QED BY <2>1 DEF IsSequence
<1>3. genesis.time = 0 /\ genesis.txs = <<>>
  BY DEF genesis
<1>4. Dated(genesis)
  BY <1>3 DEF Dated
<1> QED BY <1>1, <1>2, <1>3, <1>4 DEF TimeInv, Timed

LEMMA TimeAccept ==
    ASSUME IsFiniteSet(Addresses), ErrorIsNoState, TimeInv, NEW b, HasTxs(b), Dated(b), Accept(b)
    PROVE  TimeInv'
<1> DEFINE N == Len(chain)
           q == chain'
<1>1. LedgerInv' /\ now' \in Nat
  BY AcceptStep DEF TimeInv, Accept
<1>2. /\ IsSequence(chain) /\ N > 0
      /\ \A i \in 1..N : chain[i].time \in Nat /\ chain[i].time <= chain[N].time /\ Dated(chain[i])
  BY DEF TimeInv, Timed
<1>3. N \in Nat
  BY <1>2, SequenceFacts
<1>4. IsSequence(q) /\ Len(q) = N + 1 /\ q[N + 1] = b /\ \A i \in 1..N : q[i] = chain[i]
  BY <1>2, PrefixOfAppend DEF Accept
<1>5. b.time \in Nat /\ b.time > chain[N].time /\ chain[N].time \in Nat
  <2>1. timestampValid(b.time, chain)
    BY DEF Accept, validateIncrementalBlock, headerValid
  <2>2. b.time >= 0 /\ b.time > chain[N].time /\ b.time \in Int
    BY <2>1 DEF timestampValid, Last, Dated
  <2> QED BY <1>2, <1>3, <2>2
<1>6. ASSUME NEW i \in 1..(N + 1) PROVE q[i].time \in Nat /\ q[i].time <= b.time /\ Dated(q[i])
  <2>1. CASE i = N + 1
    BY <1>4, <1>5, <2>1
  <2>2. CASE i # N + 1
    <3>1. i \in 1..N
      BY <1>3, <2>2
    <3>2. q[i] = chain[i] /\ chain[i].time \in Nat /\ chain[i].time <= chain[N].time /\ Dated(chain[i])
      BY <1>2, <1>4, <3>1
    <3> QED BY <1>5, <3>2
  <2> QED BY <2>1, <2>2
<1>7. \A i \in 1..Len(q) : q[i].time \in Nat /\ q[i].time <= q[Len(q)].time /\ Dated(q[i])
  <2> HIDE DEF N, q
  <2> QED BY <1>4, <1>6
<1>8. Len(q) > 0
  BY <1>3, <1>4
<1> QED BY <1>1, <1>4, <1>7, <1>8 DEF TimeInv, Timed, Dated, IsSequence

LEMMA MiningTime ==
    ASSUME TimeInv
    PROVE  /\ Len(chain) \in Nat /\ Len(chain) > 0 /\ Last(chain) = chain[Len(chain)] /\ Last(chain).time \in Nat
           /\ medianTimePast(chain) \in Nat /\ medianTimePast(chain) <= Last(chain).time
           /\ miningTimestamp \in Nat
           /\ Version >= 3 => miningTimestamp > medianTimePast(chain)
           /\ Version < 3 => miningTimestamp = Last(chain).time + 1
<1> DEFINE m == medianTimePast(chain)
<1>1. Timed(chain) /\ now \in Nat
  BY DEF TimeInv
<1>2. Len(chain) \in Nat /\ Len(chain) > 0 /\ Last(chain) = chain[Len(chain)]
  BY <1>1, SequenceFacts DEF Timed, Last
<1>3. m \in Nat /\ m <= Last(chain).time
  BY <1>1, <1>2, MedianTime
<1>4. Last(chain).time \in Nat
  BY <1>1, <1>2 DEF Timed
<1>5. miningTimestamp = IF Version >= 3 THEN Max({now, m + 1}) ELSE Last(chain).time + 1
  BY DEF miningTimestamp
<1> HIDE DEF m
<1>6. now \in Int /\ m + 1 \in Int
  BY <1>1, <1>3
<1>7. Max({now, m + 1}) = IF now >= m + 1 THEN now ELSE m + 1
  BY <1>6, MaxOfTwo
<1>8. Version \in Int
  BY RulesAssumption
<1> QED BY <1>1, <1>2, <1>3, <1>4, <1>5, <1>7, <1>8 DEF m

(* The block of the miner. *)
(* The two copies of the retarget rule agree on a chain. *)
LEMMA SameDifficulty ==
    ASSUME NEW p, Len(p) \in Nat, Len(p) # 0 PROVE nextDifficulty(p) = requiredNextDifficulty(p)
<1>1. Len(p) > 0 /\ DifficultyInterval \in Nat
  BY RulesAssumption
<1>2. Len(p) >= DifficultyInterval <=> ~(Len(p) < DifficultyInterval)
  BY <1>1
<1> QED BY <1>1, <1>2 DEF nextDifficulty, requiredNextDifficulty

LEMMA MinedIs ==
    ASSUME NEW to \in Addresses, NEW r, NEW b, b = minedBlock(to, r)
    PROVE  /\ b.index = Last(chain).index + 1 /\ b.time = miningTimestamp /\ b.difficulty = nextDifficulty(chain)
           /\ b.pow /\ b.sealed
           /\ Len(b.txs) = 1 /\ DOMAIN b.txs = {1} /\ b.txs[1].id = <<to, r, miningTimestamp>>
           /\ isCoinbase(b.txs[1]) /\ b.txs[1].receiver = to /\ b.txs[1].amount = r /\ b.txs[1].valid
<1> DEFINE tx == [id |-> <<to, r, miningTimestamp>>, sender |-> Coinbase, receiver |-> to,
                  amount |-> r, nonce |-> 0, valid |-> TRUE]
<1>1. b = [index |-> Last(chain).index + 1, time |-> miningTimestamp, difficulty |-> nextDifficulty(chain),
           txs |-> <<tx>>, sealed |-> TRUE, pow |-> TRUE]
  BY DEF minedBlock
<1>2. /\ tx.id = <<to, r, miningTimestamp>> /\ isCoinbase(tx) /\ tx.receiver = to /\ tx.amount = r /\ tx.valid
  BY DEF isCoinbase
<1> HIDE DEF tx
<1>3. b.txs = <<tx>> /\ Len(<<tx>>) = 1 /\ DOMAIN <<tx>> = {1} /\ <<tx>>[1] = tx
  BY <1>1
<1>4. /\ b.index = Last(chain).index + 1 /\ b.time = miningTimestamp /\ b.difficulty = nextDifficulty(chain)
      /\ b.pow /\ b.sealed
  BY <1>1
<1> QED BY ONLY <1>2, <1>3, <1>4

LEMMA MinedIsDated ==
    ASSUME TimeInv, NEW to \in Addresses, NEW r
    PROVE  Dated(minedBlock(to, r))
<1> DEFINE b == minedBlock(to, r)
<1>1. b.time = miningTimestamp /\ Len(b.txs) = 1 /\ b.txs[1].id = <<to, r, miningTimestamp>> /\ miningTimestamp \in Nat
  BY MinedIs, MiningTime
<1> HIDE DEF b
<1>2. ASSUME NEW k \in 1..Len(b.txs), NEW a \in Addresses, NEW n, NEW t, b.txs[k].id = <<a, n, t>> PROVE t <= b.time
  <2>1. k = 1
    BY <1>1
  <2>2. <<a, n, t>> = <<to, r, miningTimestamp>>
    BY <1>1, <1>2, <2>1
  <2>3. t = miningTimestamp
    BY <2>2
  <2> QED BY <1>1, <2>3
<1>3. Dated(b)
  BY <1>1, <1>2 DEF Dated
<1> QED BY <1>3 DEF b

LEMMA TimeStep ==
    ASSUME IsFiniteSet(Addresses), ErrorIsNoState, OffersAreBlocks, OffersAreDated
    PROVE  TimeInv /\ [Next]_vars => TimeInv'
<1> SUFFICES ASSUME TimeInv, [Next]_vars PROVE TimeInv'
  OBVIOUS
<1>0. LedgerInv
  BY DEF TimeInv
<1>1. ASSUME NEW b \in Offers(chain), Accept(b) PROVE TimeInv'
  <2>1. HasTxs(b) /\ Dated(b)
    BY <1>0 DEF OffersAreBlocks, OffersAreDated, LedgerInv, TimeInv
  <2> QED BY <1>1, <2>1, TimeAccept
<1>2. ASSUME NEW to \in Addresses, NEW peer \in Clock \cup {NoPeers}, Mine(to, peer) PROVE TimeInv'
  <2> DEFINE b == minedBlock(to, reward(snapshot.miningIssued, snapshot.supply))
  <2>1. Accept(b) /\ HasTxs(b) /\ Dated(b)
    BY <1>0, <1>2, MinedHasTxs, MinedIsDated DEF Mine
  <2> HIDE DEF b
  <2> QED BY <2>1, TimeAccept
<1>3. ASSUME NEW t \in Clock, ClockMoves(t) PROVE TimeInv'
  <2>1. LedgerInv'
    BY <1>0, <1>3, LedgerStep DEF Next
  <2>2. now' \in Nat /\ chain' = chain
    BY <1>3, LedgerAssumption DEF ClockMoves
  <2> QED BY <2>1, <2>2 DEF TimeInv, Timed, Dated, IsSequence
<1>4. ASSUME UNCHANGED vars PROVE TimeInv'
  <2>1. LedgerInv'
    BY <1>0, <1>4, LedgerStep
  <2>2. now' = now /\ chain' = chain
    BY <1>4 DEF vars
  <2> QED BY <2>1, <2>2 DEF TimeInv, Timed, Dated, IsSequence
<1> QED BY <1>1, <1>2, <1>3, <1>4 DEF Next

(* The reward never takes the supply past its plan. *)
LEMMA RewardFits ==
    ASSUME IsFiniteSet(Addresses), NEW s, IsState(s), supplyWithinPlan(s), NEW r, r = reward(s.miningIssued, s.supply), r # 0
    PROVE  /\ r \in Nat /\ s.supply + r <= MaxSupply /\ s.genesisSupply + (s.miningIssued + r) <= MaxSupply
           /\ Phase7 => s.miningIssued + r <= MiningBudget
<1>1. /\ {MaxSupply, MiningBudget, BlockReward, MaxWord} \subseteq Nat /\ MaxSupply <= MaxWord /\ Phase7 \in BOOLEAN
  BY RulesAssumption
<1>2. /\ s.genesisSupply = genesisSnapshot.genesisSupply /\ s.genesisSupply \in Int /\ s.miningIssued \in Nat
      /\ s.supply = s.genesisSupply + s.miningIssued
  BY DEF IsState
<1>3. /\ Phase7 => s.genesisSupply + MiningBudget = MaxSupply
      /\ ~Phase7 => s.genesisSupply = 0
  BY <1>2, GenesisBooks
<1>4. CASE Phase7
  <2>1. r = ExpectedMiningReward(s.miningIssued)
    BY <1>4 DEF reward
  <2>2. r = BlockReward /\ MiningBudget - s.miningIssued >= BlockReward
    BY <1>1, <1>2, <2>1 DEF ExpectedMiningReward
  <2> QED BY ONLY <1>1, <1>2, <1>3, <1>4, <2>2
<1>5. CASE ~Phase7
  <2>1. r = ExpectedReward(s.supply)
    BY <1>5 DEF reward
  <2>2. s.supply < MaxSupply /\ r = Min({BlockReward, MaxSupply - s.supply})
    BY <1>1, <1>2, <2>1 DEF ExpectedReward
  <2>3. BlockReward \in Int /\ MaxSupply - s.supply \in Int
    BY <1>1, <1>2
  <2>4. Min({BlockReward, MaxSupply - s.supply}) = IF BlockReward <= MaxSupply - s.supply THEN BlockReward ELSE MaxSupply - s.supply
    BY <2>3, MinOfTwo
  <2> QED BY ONLY <1>1, <1>2, <1>3, <1>5, <2>2, <2>4
<1> QED BY <1>4, <1>5

(* No account holds more than the supply. *)
LEMMA BalanceWithinSupply ==
    ASSUME IsFiniteSet(Addresses), NEW s, IsState(s), NEW a \in Addresses
    PROVE  s.balances[a] \in Nat /\ s.balances[a] <= s.supply
<1> DEFINE f == s.balances
<1>1. f \in [Addresses -> Nat] /\ TotalOf(f, Addresses)[Addresses] = s.supply
  BY DEF IsState
<1> HIDE DEF f
<1>2. \A x \in Addresses : f[x] \in Nat /\ f[x] \in Int
  BY <1>1
<1>3. SumFunctionOnSet(f, Addresses) = s.supply
  BY <1>1, SumIsTotal
<1>4. /\ SumFunctionOnSet(f, Addresses \ {a}) \in Int
      /\ SumFunctionOnSet(f, Addresses) = f[a] + SumFunctionOnSet(f, Addresses \ {a})
  BY <1>2, SumSplits
<1>5. SumFunctionOnSet(f, Addresses \ {a}) \in Nat
  <2>1. IsFiniteSet(Addresses \ {a})
    BY FS_Subset
  <2> QED BY <1>2, <2>1, SumIsNat
<1>6. f[a] \in Nat
  BY <1>2
<1> QED BY <1>3, <1>4, <1>5, <1>6 DEF f

(* A coinbase of the reward applies, and the plan still holds. *)
LEMMA RewardApplies ==
    ASSUME IsFiniteSet(Addresses), ErrorIsNoState, NEW s, IsState(s), supplyWithinPlan(s),
           NEW r, r = reward(s.miningIssued, s.supply), r # 0,
           NEW tx, IsTx(tx), tx.amount = r, tx.receiver \in Addresses
    PROVE  applyCoinbase(s, tx) # Invalid /\ supplyWithinPlan(applyCoinbase(s, tx))
<1> DEFINE t == Issued(s, tx)
<1>1. /\ r \in Nat /\ s.supply + r <= MaxSupply /\ s.genesisSupply + (s.miningIssued + r) <= MaxSupply
      /\ Phase7 => s.miningIssued + r <= MiningBudget
  BY RewardFits
<1>2. MaxSupply \in Nat /\ MaxWord \in Nat /\ MaxSupply <= MaxWord /\ (Version >= 2 => Phase7) /\ MiningBudget \in Nat
  BY RulesAssumption
<1>3. s.balances[tx.receiver] \in Nat /\ s.balances[tx.receiver] <= s.supply
  BY BalanceWithinSupply
<1>4. s.genesisSupply \in Int /\ s.miningIssued \in Nat /\ s.supply = s.genesisSupply + s.miningIssued
  BY DEF IsState
<1>5. s.genesisSupply >= 0
  <2>1. s.genesisSupply = genesisSnapshot.genesisSupply /\ genesisSnapshot.miningIssued = 0 /\ IsState(genesisSnapshot)
    BY GenesisBooks DEF IsState
  <2>2. genesisSnapshot.supply = genesisSnapshot.genesisSupply + genesisSnapshot.miningIssued
    BY <2>1 DEF IsState
  <2>3. genesisSnapshot.supply = s.genesisSupply
    BY <1>4, <2>1, <2>2
  <2>4. genesisSnapshot.balances[tx.receiver] \in Nat /\ genesisSnapshot.balances[tx.receiver] <= genesisSnapshot.supply
    BY <2>1, BalanceWithinSupply
  <2> QED BY ONLY <1>4, <2>3, <2>4
<1>6. ~ (s.balances[tx.receiver] + r > MaxWord) /\ ~ (s.miningIssued + r > MaxWord) /\ ~ (s.supply + r > MaxWord)
  BY ONLY <1>1, <1>2, <1>3, <1>4, <1>5
<1>7. applyCoinbase(s, tx) = t
  BY <1>6 DEF applyCoinbase, Issued
<1>8. IsState(t) /\ t.miningIssued = s.miningIssued + r /\ t.supply = s.supply + r
  BY IssuedBalances
<1>9. t.genesisSupply = s.genesisSupply
  BY DEF Issued
<1> HIDE DEF t
<1>10. supplyWithinPlan(t)
  BY <1>1, <1>2, <1>8, <1>9 DEF supplyWithinPlan
<1>11. t # Invalid
  BY <1>8 DEF ErrorIsNoState
<1> QED BY <1>7, <1>10, <1>11

(* The identity of the miner's coinbase holds a time after the parent's. *)
LEMMA MinedIdIsFresh ==
    ASSUME TimeInv, miningTimestamp > Last(chain).time, NEW to \in Addresses, NEW r
    PROVE  <<to, r, miningTimestamp>> \notin identities(chain)
<1> DEFINE N == Len(chain)
           id == <<to, r, miningTimestamp>>
<1>1. /\ N \in Nat /\ Last(chain) = chain[N] /\ chain[N].time \in Nat /\ miningTimestamp \in Nat
  BY MiningTime
<1>2. /\ \A i \in 1..N : chain[i].time \in Nat /\ chain[i].time <= chain[N].time /\ Dated(chain[i]) /\ HasTxs(chain[i])
      /\ IsSequence(chain)
  BY DEF TimeInv, Timed, LedgerInv, AllHaveTxs
<1>3. DOMAIN chain = 1..N
  BY <1>2, SequenceFacts
<1>4. ASSUME NEW i \in 1..N, NEW k \in DOMAIN chain[i].txs PROVE chain[i].txs[k].id # id
  <2>1. Dated(chain[i]) /\ HasTxs(chain[i]) /\ chain[i].time \in Nat /\ chain[i].time <= chain[N].time
    BY <1>2
  <2>2. k \in 1..Len(chain[i].txs)
    BY <2>1, SequenceFacts DEF HasTxs
  <2>3. chain[i].txs[k].id = id => miningTimestamp <= chain[i].time
    BY <2>1, <2>2 DEF Dated
  <2> HIDE DEF id
  <2> QED BY <1>1, <2>1, <2>3
<1> HIDE DEF id, N
<1>5. id \notin identities(chain)
  BY <1>3, <1>4 DEF identities
<1> QED BY <1>5 DEF id

LEMMA MinedHeader ==
    ASSUME TimeInv, miningTimestamp > Last(chain).time, NEW to \in Addresses, NEW r
    PROVE  headerValid(minedBlock(to, r), chain)
<1> DEFINE b == minedBlock(to, r)
<1>0. Len(chain) \in Nat /\ Len(chain) # 0
  BY SequenceFacts DEF TimeInv, Timed
<1>1. b.index = Last(chain).index + 1 /\ b.time = miningTimestamp /\ b.difficulty = requiredNextDifficulty(chain) /\ b.pow
  BY <1>0, MinedIs, SameDifficulty
<1> HIDE DEF b
<1>2. /\ miningTimestamp \in Nat /\ Last(chain).time \in Nat /\ medianTimePast(chain) \in Nat
      /\ medianTimePast(chain) <= Last(chain).time
      /\ Version < 3 => miningTimestamp = Last(chain).time + 1
  BY MiningTime
<1>3. FutureStep \in Nat /\ FutureStep >= 1
  BY RulesAssumption
<1>4. timestampValid(miningTimestamp, chain)
  BY <1>2, <1>3 DEF timestampValid
<1>5. headerValid(b, chain)
  BY <1>1, <1>4 DEF headerValid
<1> QED BY <1>5 DEF b

LEMMA MinedTransactions ==
    ASSUME TimeInv, miningTimestamp > Last(chain).time, NEW to \in Addresses, NEW r, NEW b, b = minedBlock(to, r)
    PROVE  /\ transactionsValid(chain, b, r) /\ Cardinality(coinbases(b.txs)) = 1
           /\ \A k \in coinbases(b.txs) : coinbaseValid(b.txs[k], r)
<1> DEFINE id == <<to, r, miningTimestamp>>
<1>1. /\ b.sealed /\ DOMAIN b.txs = {1} /\ b.txs[1].id = id
      /\ isCoinbase(b.txs[1]) /\ b.txs[1].amount = r /\ b.txs[1].valid
  BY MinedIs
<1>2. id \notin identities(chain)
  BY MinedIdIsFresh
<1> HIDE DEF id
<1>3. coinbases(b.txs) = {1} /\ coinbaseValid(b.txs[1], r)
  BY <1>1 DEF coinbases, coinbaseValid
<1>4. Cardinality(coinbases(b.txs)) = 1
  BY <1>3, FS_Singleton
<1>5. identitiesFresh(chain, b)
  BY <1>1, <1>2 DEF identitiesFresh
<1>6. \A k \in DOMAIN b.txs : IF isCoinbase(b.txs[k]) THEN coinbaseValid(b.txs[k], r) ELSE b.txs[k].valid
  BY <1>1, <1>3
<1>7. transactionsValid(chain, b, r)
  BY <1>1, <1>4, <1>5, <1>6 DEF transactionsValid
<1> QED BY <1>3, <1>4, <1>7

LEMMA MinedApplies ==
    ASSUME IsFiniteSet(Addresses), ErrorIsNoState, TimeInv, NEW to \in Addresses,
           NEW r, r = reward(snapshot.miningIssued, snapshot.supply), r # 0, NEW b, b = minedBlock(to, r)
    PROVE  applyTransactions(snapshot, b.txs) # Invalid /\ supplyWithinPlan(applyTransactions(snapshot, b.txs))
<1> DEFINE tx == b.txs[1]
<1>0. LedgerInv /\ IsState(snapshot) /\ supplyWithinPlan(snapshot) /\ snapshot # Invalid
  BY DEF TimeInv, LedgerInv, ErrorIsNoState
<1>1. Len(b.txs) = 1 /\ isCoinbase(tx) /\ tx.receiver = to /\ tx.amount = r
  BY MinedIs
<1>2. IsTx(tx)
  <2>1. HasTxs(b)
    BY <1>0, MinedHasTxs
  <2> QED BY <1>1, <2>1 DEF HasTxs
<1>3. Len(b.txs) \in Nat
  BY <1>1
<1>4. PICK f : /\ applyTransactions(snapshot, b.txs) = f[Len(b.txs)] /\ f[0] = snapshot
               /\ \A k \in 1..Len(b.txs) : f[k] = applyTransaction(f[k - 1], b.txs[k])
  BY <1>3, AppliedIs
<1>5. applyTransactions(snapshot, b.txs) = applyTransaction(snapshot, tx)
  <2>1. f[1] = applyTransaction(f[1 - 1], b.txs[1]) /\ applyTransactions(snapshot, b.txs) = f[1]
    BY <1>1, <1>4
  <2>2. 1 - 1 = 0
    OBVIOUS
  <2> QED BY <1>4, <2>1, <2>2
<1>6. applyTransaction(snapshot, tx) = applyCoinbase(snapshot, tx)
  BY <1>0, <1>1 DEF applyTransaction
<1> HIDE DEF tx
<1>7. applyCoinbase(snapshot, tx) # Invalid /\ supplyWithinPlan(applyCoinbase(snapshot, tx))
  BY <1>0, <1>1, <1>2, RewardApplies
<1> QED BY <1>5, <1>6, <1>7

(* The miner's own chain takes what the miner builds: for every version,   *)
(* chain, clock and receiver, when mineNextWithClockSafety does not refuse *)
(* and its timestamp is after the parent's, validateIncrementalBlock finds *)
(* nothing wrong with the reward, the difficulty, the timestamp, the       *)
(* identity of the coinbase or the sums.  Assumed of the blocks of others: *)
(* no coinbase is dated after its block, which the rules do not check.     *)
THEOREM MinerBuildsAcceptedBlock ==
    ASSUME IsFiniteSet(Addresses), ErrorIsNoState, OffersAreBlocks, OffersAreDated
    PROVE  Spec => []MinerBuildsValidBlock
<1>1. Init => TimeInv
  BY TimeInit
<1>2. TimeInv /\ [Next]_vars => TimeInv'
  BY TimeStep
<1>3. TimeInv => MinerBuildsValidBlock
  <2> DEFINE r == reward(snapshot.miningIssued, snapshot.supply)
  <2> SUFFICES ASSUME TimeInv, NEW to \in Addresses, r # 0, miningTimestamp > Last(chain).time
               PROVE  validateIncrementalBlock(minedBlock(to, r), chain, snapshot) # Invalid
    BY DEF MinerBuildsValidBlock
  <2> DEFINE b == minedBlock(to, r)
             next == applyTransactions(snapshot, b.txs)
  <2>1. headerValid(b, chain)
    BY MinedHeader
  <2>2. /\ transactionsValid(chain, b, r) /\ Cardinality(coinbases(b.txs)) = 1
        /\ \A k \in coinbases(b.txs) : coinbaseValid(b.txs[k], r)
    BY MinedTransactions
  <2>3. next # Invalid /\ supplyWithinPlan(next)
    BY MinedApplies
  <2> HIDE DEF b
  <2>4. validateIncrementalBlock(b, chain, snapshot) = applyIncrementalBlock(snapshot, b, r)
    BY <2>1, <2>2 DEF validateIncrementalBlock
  <2>5. applyIncrementalBlock(snapshot, b, r) = next
    BY <2>2, <2>3 DEF applyIncrementalBlock
  <2> QED BY <2>3, <2>4, <2>5 DEF b
<1> QED BY <1>1, <1>2, <1>3, PTL DEF Spec
=============================================================================
