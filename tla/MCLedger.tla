------------------------------ MODULE MCLedger ------------------------------
(* Ledger with two addresses and a handful of transfers: good ones, a stale
   and a gapped nonce, an overdraft, a self transfer and a bad signature. *)
EXTENDS Ledger

CONSTANTS alice, bob

transfer(from, to, n, nonce, ok) ==
    [id |-> <<from, to, n, nonce>>, sender |-> from, receiver |-> to,
     amount |-> n, nonce |-> nonce, valid |-> ok]

coin(to, n, t) ==
    [id |-> <<to, n, t>>, sender |-> Coinbase, receiver |-> to, amount |-> n, nonce |-> 0, valid |-> TRUE]

MCAlloc == (alice :> 3) @@ (bob :> 0)

Transfers == {
    transfer(alice, bob, 2, 0, TRUE), transfer(alice, alice, 1, 0, TRUE), transfer(alice, bob, 1, 1, TRUE),
    transfer(bob, alice, 3, 0, TRUE), transfer(alice, bob, 1, 0, FALSE)}

(* Transfer lists: none, one, or two (the same one twice included). *)
Payloads == BoundedSeq(Transfers, 1) \cup (Transfers \X Transfers)

MCOffers(ch) ==
    LET p       == Last(ch)
        t       == p.time
        good(d, txs) == [index |-> p.index + 1, time |-> t + d, difficulty |-> requiredNextDifficulty(ch),
                         txs |-> txs, sealed |-> TRUE, pow |-> TRUE]
        pay     == {<<coin(alice, BlockReward, t + 1)>> \o x : x \in Payloads}
        plain   == good(1, <<coin(alice, BlockReward, t + 1)>>)
    IN  {good(1, txs) : txs \in pay}
        \cup {good(d, <<coin(bob, BlockReward, t + d)>>) : d \in {0, 2, FutureStep, FutureStep + 1}}
        \cup {[plain EXCEPT !.txs = <<coin(alice, n, t + 1)>>] : n \in 1..(BlockReward + 1)}
        \cup {[plain EXCEPT !.txs = <<>>],
              [plain EXCEPT !.txs = <<coin(alice, BlockReward, t + 1), coin(bob, BlockReward, t + 1)>>],
              [plain EXCEPT !.index = @ + 1], [plain EXCEPT !.difficulty = @ + 1],
              [plain EXCEPT !.pow = FALSE], [plain EXCEPT !.sealed = FALSE]}
=============================================================================
