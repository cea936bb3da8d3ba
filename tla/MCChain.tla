------------------------------- MODULE MCChain -------------------------------
(***************************************************************************)
(* Chain over a small block tree with the rules of module ChainRules.      *)
(*                                                                         *)
(*   g - a1 - a2*             a2 holds a transfer                          *)
(*     \ b1 - b2 - b3 - b4*   b2 spends the same nonce as a2               *)
(*          \ x3              overdraws: invalid                           *)
(*                                                                         *)
(* The starred blocks come after a fast window and carry a higher          *)
(* difficulty: two blocks of branch a outweigh three of branch b.          *)
(***************************************************************************)
EXTENDS Chain, Sequences, TLC

CONSTANTS alice, bob, Coinbase, MCBlocks

Addresses == {alice, bob}

Rules == INSTANCE ChainRules WITH
    Phase7 <- TRUE, GenesisAlloc <- (alice :> 3) @@ (bob :> 0),
    MaxSupply <- 23, MiningBudget <- 20, BlockReward <- 2, MaxWord <- 40,
    MTPWindow <- 3, FutureStep <- 20, DifficultyInterval <- 2, TargetBlockTime <- 4,
    MaxAdjustment <- 4, MinDifficulty <- 1, MaxDifficulty <- 2, ConfigDifficulty <- 1

coin(to, t) == [id |-> <<to, t>>, sender |-> Coinbase, receiver |-> to, amount |-> 2, nonce |-> 0, valid |-> TRUE]

pay(from, to, n, nonce) ==
    [id |-> <<from, to, n, nonce>>, sender |-> from, receiver |-> to, amount |-> n, nonce |-> nonce, valid |-> TRUE]

rec(i, t, d, txs) == [index |-> i, time |-> t, difficulty |-> d, txs |-> txs, sealed |-> TRUE, pow |-> TRUE]

Rec == [g  |-> rec(0, 0, 0, <<>>),
        a1 |-> rec(1, 1, 1, <<coin(alice, 1)>>),
        a2 |-> rec(2, 3, 2, <<coin(alice, 3), pay(alice, bob, 2, 0)>>),
        b1 |-> rec(1, 2, 1, <<coin(bob, 2)>>),
        b2 |-> rec(2, 4, 1, <<coin(bob, 4), pay(alice, bob, 1, 0)>>),
        b3 |-> rec(3, 5, 1, <<coin(bob, 5)>>),
        b4 |-> rec(4, 8, 2, <<coin(bob, 8), pay(alice, bob, 1, 1)>>),
        x3 |-> rec(3, 6, 1, <<coin(bob, 6), pay(alice, bob, 9, 1)>>)]

Up == [g |-> "g", a1 |-> "g", a2 |-> "a1", b1 |-> "g", b2 |-> "b1",
       b3 |-> "b2", b4 |-> "b3", x3 |-> "b2"]

path[b \in DOMAIN Up] == IF b = "g" THEN <<b>> ELSE Append(path[Up[b]], b)

recordsTo(b) == [i \in DOMAIN path[b] |-> Rec[path[b][i]]]

MCParent == [b \in MCBlocks |-> Up[b]]
MCAnc    == [b \in MCBlocks |-> {path[b][i] : i \in DOMAIN path[b]}]
MCIndex  == [b \in MCBlocks |-> Rec[b].index]
MCTime   == [b \in MCBlocks |-> Rec[b].time]
MCTimeOK == [b \in MCBlocks |-> b = "g" \/ Rules!timestampValid(Rec[b].time, recordsTo(Up[b]))]
MCWork   == [b \in MCBlocks |-> Rules!ChainWork(recordsTo(b))]
MCTxs    == [b \in MCBlocks |-> {Rec[b].txs[i].id : i \in {j \in DOMAIN Rec[b].txs : Rec[b].txs[j].sender # Coinbase}}]
MCFull   == [b \in MCBlocks |-> Rules!fullState(recordsTo(b))]

incr(s, b) == Rules!validateIncrementalBlock(Rec[b], recordsTo(Up[b]), s)

(* the outcomes on the states that blocks lead to, computed once *)
outcomes == [b \in MCBlocks \ {"g"} |-> [s \in {MCFull[x] : x \in MCBlocks} \ {Invalid} |-> incr(s, b)]]

MCIncr(s, b) == IF s \in DOMAIN outcomes[b] THEN outcomes[b][s] ELSE incr(s, b)
=============================================================================
