----------------------------- MODULE MCPyLedger -----------------------------
(* PyLedger with two addresses: well-made blocks of several ages and       *)
(* payloads, and one variant of each for every rule they can break.        *)
EXTENDS PyLedger, TLC

CONSTANTS alice, bob, MaxHeight

transfer(from, to, n, t) == Transaction(from, to, n, t, "valid")

MCTransfers == {transfer(alice, bob, 2, 1), transfer(bob, alice, 1, 2), transfer(alice, bob, 1, 3),
                transfer(alice, alice, 1, 4), Transaction(alice, bob, 1, 5, "bad")}

Payloads == BoundedSeq(MCTransfers, 1)
            \cup {<<transfer(alice, bob, 2, 1), transfer(bob, alice, 1, 2)>>,
                  <<transfer(bob, alice, 1, 2), transfer(bob, alice, 1, 2)>>,
                  <<transfer(alice, bob, 2, 1), transfer(alice, bob, 1, 3)>>}

MCOffers(ch) ==
    LET p     == Last(ch)
        state == _state_from_chain(ch)
        made(d, txs, reward) ==
            mine_block(p.index + 1, hash(p), txs, alice, expected_difficulty(ch), reward, p.timestamp + d)
        plain == made(4, <<>>, due_reward(state.supply))
    IN  IF Len(ch) > MaxHeight THEN {}
        ELSE {made(d, <<>>, due_reward(state.supply)) : d \in Delays}
             \cup {made(4, txs, due_reward(state.supply)) : txs \in Payloads}
             \cup {made(4, <<>>, n) : n \in 0..(block_reward + 1)}
             \cup {[plain EXCEPT !.index = @ + 1], [plain EXCEPT !.previous_hash = <<>>], [plain EXCEPT !.intact = FALSE],
                   [plain EXCEPT !.difficulty = @ + 1, !.zeros = @ + 1], [plain EXCEPT !.difficulty = @ - 1],
                   [plain EXCEPT !.zeros = @ - 1], [plain EXCEPT !.transactions = <<>>],
                   [plain EXCEPT !.transactions = @ \o @]}
=============================================================================
