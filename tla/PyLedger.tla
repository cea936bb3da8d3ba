------------------------------ MODULE PyLedger ------------------------------
(***************************************************************************)
(* A chain of the Python node grown one offered block at a time under     *)
(* validate_block_against_chain: what the rules of PyRules keep true of   *)
(* money, difficulty and the blocks the node's own miner assembles.        *)
(***************************************************************************)
EXTENDS PyRules

CONSTANTS
    Offers(_),       \* the blocks offered on top of a chain
    Transfers,       \* the transfers a wallet may submit
    Delays           \* time between a block and its parent

VARIABLE ledger   \* the chain

(* The balance test of Blockchain.submit_transaction. *)
affordable(tx, pool, balance) == is_coinbase(tx) \/ pending_spend_for(pool, tx.sender) + tx.amount <= balance

LedgerInit == ledger = <<genesis>>

AppendBlock(block) ==
    /\ validate_block_against_chain(block, ledger)
    /\ ledger' = Append(ledger, block)

LedgerNext == \E block \in Offers(ledger) : AppendBlock(block)

LedgerSpec == LedgerInit /\ [][LedgerNext]_ledger

-----------------------------------------------------------------------------

(* Every accepted chain replays, the money in all accounts is what its     *)
(* blocks have issued, that is the reward per block up to the cap          *)
(* (validators.py _state_from_chain), no account is overdrawn, and no      *)
(* chain issues past the cap.                                              *)
Conservation ==
    LET state  == _state_from_chain(ledger)
        issued == Min({(Len(ledger) - 1) * block_reward, MAX_SUPPLY_BASE_UNITS})
    IN  /\ state.ok
        /\ state.supply = issued
        /\ MapThenSumSet(LAMBDA a : state.balances[a], Accounts) = issued
        /\ \A a \in Accounts : state.balances[a] >= 0

(* The retarget of consensus.py moves by at most one level from a block to *)
(* the next and stays within its configured bounds, whatever the           *)
(* timestamps are: the clamp on the timespan has rounding at both ends.    *)
RetargetBounded ==
    \A i \in 3..Len(ledger) :
        /\ ledger[i].difficulty \in min_difficulty..max_difficulty
        /\ ledger[i].difficulty - ledger[i - 1].difficulty \in -1..1

(* A window that took longer never asks for more work: the loops of        *)
(* next_difficulty share a threshold, where going up and coming down again *)
(* must not cancel.  Delays past the clamp change nothing.                 *)
SlowerIsNeverHarder ==
    \A d \in 0..(max_adjustment_factor * difficulty_adjustment_interval * target_block_time) :
        LET later == [ledger EXCEPT ![Len(ledger)].timestamp = @ + d]
        IN  expected_difficulty(later) <= expected_difficulty(ledger)

(* What the mempool has admitted one by one against confirmed balance less *)
(* pending spend, the miner can put into one block that the node accepts   *)
(* (blockchain.py mine_pending_transactions raises otherwise), as long as  *)
(* any issuance is left.                                                   *)
AdmittedPoolMines ==
    LET state == _state_from_chain(ledger)
    IN  \A pool \in SUBSET {tx \in Transfers : validate_transaction(tx)} :
            (due_reward(state.supply) > 0 /\ \A tx \in pool : affordable(tx, pool \ {tx}, state.balances[tx.sender]))
            => \A a \in Addr : validate_block_against_chain(
                   mine_block(Last(ledger).index + 1, hash(Last(ledger)), get_pending(pool), a,
                              expected_difficulty(ledger), due_reward(state.supply), Last(ledger).timestamp + 1),
                   ledger)

=============================================================================
