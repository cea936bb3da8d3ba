----------------------------- MODULE MCPyChain ------------------------------
(* PyChain with two addresses and two transfers.  Peers mine for bob, on   *)
(* the tip or on a branch, with or without one of the transfers.           *)
EXTENDS PyChain

CONSTANTS alice, bob, Payloads

t1 == Transaction(alice, bob, 1, 1, "valid")
t2 == Transaction(alice, bob, 2, 2, "valid")

OneTransfer == {<<>>, <<t1>>}
Spends      == {t1, t2}
Resend      == {t1}

peer_block(ch, txs, delay) ==
    mine_block(Last(ch).index + 1, hash(Last(ch)), txs, bob, expected_difficulty(ch),
               due_reward(total_supply_base_units(ch)), Last(ch).timestamp + delay)

MCPeerBlocks(ch) ==
    IF ch = <<>> \/ Len(ch) > MaxHeight THEN {} ELSE {peer_block(ch, txs, 1) : txs \in Payloads}

extended(chains, payloads, delay) ==
    chains \cup {Append(ch, peer_block(ch, txs, delay)) : ch \in {c \in chains : Len(c) <= MaxHeight}, txs \in payloads}

(* Chains of a peer that left ours at genesis or at the block before the tip, *)
(* and a chain of slow blocks, which are many and carry little work.          *)
MCPeerChains(ch) ==
    IF ch = <<>> THEN {}
    ELSE LET slow(chains) == extended(chains, {<<>>}, target_block_time)
         IN  extended(extended({SubSeq(ch, 1, 1), SubSeq(ch, 1, Max({1, Len(ch) - 1}))}, Payloads, 1), Payloads, 1)
             \cup slow(slow(slow({SubSeq(ch, 1, 1)})))

NoBlocks(ch) == {}
NoChains(ch) == {}
=============================================================================
