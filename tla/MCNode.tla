------------------------------- MODULE MCNode -------------------------------
(***************************************************************************)
(* Node with two handlers, synchronization and a spender.  a0 and x0 are   *)
(* two transfers of alice with the same nonce, as two wallets of one key   *)
(* send them: wallets send x0 and a1, peers have blocks with a0 or a1.     *)
(***************************************************************************)
EXTENDS Node, TLC

CONSTANTS alice, bob, h1, h2, MaxBlocks   \* MaxBlocks bounds the blocks that peers send

pay(amount, nonce) == [sender |-> alice, receiver |-> bob, amount |-> amount, nonce |-> nonce]

tx == [a0 |-> pay(2, 0), x0 |-> pay(1, 0), a1 |-> pay(2, 1)]

MCTxs         == {tx[k] : k \in DOMAIN tx}
MCSenders     == {alice, bob}
MCAlloc       == [s \in MCSenders |-> IF s = alice THEN 4 ELSE 0]
MCSubmissions == {tx.x0, tx.a1}
MCOrder       == <<alice, bob>>

peerBlock(p, txs) == Append(p, [miner |-> "peer", txs |-> txs])

(* Peers extend any block that the node knows. *)
MCOffers(blocks, tip) ==
    {peerBlock(p, txs) : p   \in {q \in blocks : Len(q) < MaxHeight},
                         txs \in IF Cardinality(blocks) < MaxBlocks THEN {<<>>, <<tx.a0>>, <<tx.a1>>} ELSE {}}

(* The handlers are alike. *)
Handlers == Permutations(Workers)

(* Handlers that overlap are followed through three blocks and chains of two,
   handlers one after the other through MaxBlocks and MaxHeight. *)
Bound == overlap => Cardinality(known) <= 4 /\ \A p \in known : Len(p) <= 2
=============================================================================
