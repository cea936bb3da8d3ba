------------------------------- MODULE V2Pool -------------------------------
(***************************************************************************)
(* internal/mempool/v2.go: the pool of unconfirmed V2 transactions.  Every *)
(* method runs under the pool's mutex, so each is one operator on the      *)
(* value of the pool; module Node interleaves their callers.               *)
(*                                                                         *)
(* A transaction id commits to all fields, so a transaction is its id.     *)
(* byNonce[s][n] is None where the Go map has no entry.                    *)
(***************************************************************************)
EXTENDS Integers, Sequences, FiniteSets, FiniteSetsExt

CONSTANTS
    Txs,         \* records [sender, receiver, amount, nonce]
    Senders,
    None,
    MaxPool,     \* V2Pool.max
    MaxWord      \* ^uint64(0)

ASSUME PoolAssumption ==
    /\ MaxPool \in Nat \ {0}
    /\ MaxWord \in Nat
    /\ None \notin Txs
    /\ \A tx \in Txs : tx.sender \in Senders /\ tx.nonce \in 0..MaxWord /\ tx.amount \in Nat

EmptyPool == [byID |-> {}, byNonce |-> [s \in Senders |-> [n \in 0..MaxWord |-> None]]]

pendingSpend(p, s) == MapThenSumSet(LAMBDA tx : tx.amount, {tx \in p.byID : tx.sender = s})

(* Mutants of the admission test: the nonce is not compared with the expected
   one; an entry with the same nonce is replaced. *)
admitAnyNonce(p, tx, expectedNonce, balance) ==
    /\ tx \notin p.byID
    /\ Cardinality(p.byID) < MaxPool
    /\ p.byNonce[tx.sender][tx.nonce] = None

admitReplacing(p, tx, expectedNonce, balance) ==
    /\ tx.nonce = expectedNonce
    /\ tx \notin p.byID
    /\ Cardinality(p.byID) < MaxPool
    /\ pendingSpend(p, tx.sender) + tx.amount <= balance

(* The conditions of Add, in its order.  A pending sum above MaxWord is above
   every balance, so the overflow test refuses nothing more. *)
admits(p, tx, expectedNonce, balance) ==
    /\ tx.nonce = expectedNonce
    /\ tx.nonce # MaxWord
    /\ tx \notin p.byID
    /\ Cardinality(p.byID) < MaxPool
    /\ p.byNonce[tx.sender][tx.nonce] = None
    /\ pendingSpend(p, tx.sender) + tx.amount <= balance

Add(p, tx, expectedNonce, balance) ==
    IF admits(p, tx, expectedNonce, balance)
    THEN [byID    |-> p.byID \cup {tx},
          byNonce |-> [p.byNonce EXCEPT ![tx.sender][tx.nonce] = tx]]
    ELSE p

(* Mutant: the index by nonce keeps the entries. *)
removeFromIDsOnly(p, ids) == [p EXCEPT !.byID = @ \ ids]

RemoveIDs(p, ids) ==
    [byID    |-> p.byID \ ids,
     byNonce |-> [s \in Senders |-> [n \in 0..MaxWord |->
                     IF \E tx \in p.byID \cap ids : tx.sender = s /\ tx.nonce = n
                     THEN None ELSE p.byNonce[s][n]]]]

(* The first free nonce from the confirmed one on; None is the error of a
   sender whose nonces are used up. *)
ExpectedNonce(p, s, confirmedNext) ==
    LET free == {n \in confirmedNext..MaxWord : p.byNonce[s][n] = None}
    IN  IF free = {} THEN None ELSE Min(free)

-----------------------------------------------------------------------------
(* The two maps describe one set of transactions, with at most one of them for
   a sender and a nonce. *)
IndexAgreesIn(p) ==
    /\ \A tx \in p.byID : p.byNonce[tx.sender][tx.nonce] = tx
    /\ \A s \in Senders, n \in 0..MaxWord :
          p.byNonce[s][n] # None =>
             /\ p.byNonce[s][n] \in p.byID
             /\ p.byNonce[s][n].sender = s
             /\ p.byNonce[s][n].nonce = n

WithinCapacity(p) == Cardinality(p.byID) <= MaxPool
=============================================================================
