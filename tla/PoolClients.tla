---------------------------- MODULE PoolClients -----------------------------
(***************************************************************************)
(* The V2 pool under the most general use: its callers read nonce and      *)
(* balance of a chain that moves on, so by the time of the call they may   *)
(* hold any values, and the ids they remove may be of any past chain.  The *)
(* pool steps of module Node are steps of this specification.              *)
(***************************************************************************)
EXTENDS V2Pool

VARIABLE pool

AddAny == \E tx \in Txs, expectedNonce \in 0..MaxWord, balance \in Nat : pool' = Add(pool, tx, expectedNonce, balance)

RemoveAny == \E ids \in SUBSET Txs : pool' = RemoveIDs(pool, ids)

PoolInit == pool = EmptyPool

PoolNext == AddAny \/ RemoveAny

PoolSpec == PoolInit /\ [][PoolNext]_pool

-----------------------------------------------------------------------------
(* The pool is a finite set of transactions and a table by sender and nonce. *)
PoolTypeOK ==
    /\ pool = [byID |-> pool.byID, byNonce |-> pool.byNonce]
    /\ pool.byID \subseteq Txs /\ IsFiniteSet(pool.byID)
    /\ pool.byNonce \in [Senders -> [0..MaxWord -> Txs \cup {None}]]

(* V2Pool.Add and RemoveIDs keep the maps byID and byNonce one index and the pool
   within its capacity, whatever nonces, balances and ids the callers bring. *)
PoolSound == IndexAgreesIn(pool) /\ WithinCapacity(pool)

(* "no replacement": an entry for a sender and a nonce comes and goes, and no
   call of Add puts another transaction in its place. *)
NoReplacement ==
    [][\A s \in Senders, n \in 0..MaxWord :
          pool.byNonce[s][n] # None => pool'.byNonce[s][n] \in {None, pool.byNonce[s][n]}]_pool
=============================================================================
