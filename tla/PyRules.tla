------------------------------ MODULE PyRules ------------------------------
(***************************************************************************)
(* The consensus rules of the Python reference node: validators.py, the   *)
(* proof of work and the retarget of consensus.py, the block the miner    *)
(* assembles, and the genesis block.                                       *)
(*                                                                         *)
(* A transaction is identified with the fields its tx_hash covers; auth   *)
(* says what its key and signature are worth: "none" (absent), "valid"    *)
(* (the key derives the sender and the signature verifies), "bad".  A     *)
(* block is identified with the fields its hash covers; intact says       *)
(* whether its stored merkle root and hash are the recomputed ones, zeros *)
(* how many leading zeros its hash has.                                    *)
(***************************************************************************)
EXTENDS Integers, Sequences, FiniteSets, SequencesExt, FiniteSetsExt

CONSTANTS
    Addr,                    \* well-formed SYJ addresses
    COINBASE_SENDER,
    GENESIS_ADDRESS,
    MAX_SUPPLY_BASE_UNITS,
    block_reward,
    config_difficulty,
    difficulty_adjustment_interval,
    target_block_time,
    min_difficulty,
    max_difficulty,
    max_adjustment_factor

ASSUME PyRulesAssumption ==
    /\ COINBASE_SENDER \notin Addr /\ GENESIS_ADDRESS \notin Addr /\ COINBASE_SENDER # GENESIS_ADDRESS
    /\ {MAX_SUPPLY_BASE_UNITS, block_reward, difficulty_adjustment_interval, target_block_time,
        max_adjustment_factor} \subseteq Nat \ {0}
    /\ {config_difficulty, min_difficulty, max_difficulty} \subseteq Nat
    /\ min_difficulty <= max_difficulty

Accounts == Addr \cup {COINBASE_SENDER, GENESIS_ADDRESS}

-----------------------------------------------------------------------------
(* Transactions *)

Transaction(sender, receiver, amount, timestamp, auth) ==
    [sender |-> sender, receiver |-> receiver, amount |-> amount, timestamp |-> timestamp, auth |-> auth]

is_coinbase(tx) == tx.sender = COINBASE_SENDER

validate_base_units(value) == value > 0 /\ value <= MAX_SUPPLY_BASE_UNITS

is_valid_address(a) == a \in Addr

(* With derive_address: the key is the sender's and has signed this. *)
verify_signature(tx) == tx.auth = "valid"

verify(tx) ==
    /\ validate_base_units(tx.amount)
    /\ is_valid_address(tx.receiver)
    /\ IF is_coinbase(tx) THEN tx.auth = "none" ELSE is_valid_address(tx.sender) /\ verify_signature(tx)

validate_transaction(tx) ==
    /\ validate_base_units(tx.amount)
    /\ is_coinbase(tx) \/ tx.sender # tx.receiver
    /\ verify(tx)

(* Mempool.get_pending: oldest first. *)
get_pending(pool) ==
    CHOOSE s \in SetToSeqs(pool) : \A i, j \in DOMAIN s : i < j => s[i].timestamp <= s[j].timestamp

(* Mutant: entries that wait do not count. *)
no_pending_spend(pool, address) == 0

pending_spend_for(pool, address) == SumFunction([tx \in {t \in pool : t.sender = address} |-> tx.amount])

-----------------------------------------------------------------------------
(* Blocks.  Only the genesis block has no parent: its previous_hash is the *)
(* configured constant.                                                    *)

hash(block) == <<block>>

genesis == [index |-> 0, previous_hash |-> <<>>, timestamp |-> 0, difficulty |-> 0, zeros |-> 0, intact |-> TRUE,
            transactions |-> <<Transaction(GENESIS_ADDRESS, GENESIS_ADDRESS, 0, 0, "bad")>>]

(* PoWConsensus.mine returns once the hash has the zeros asked for. *)
mine(block, difficulty) == [block EXCEPT !.difficulty = difficulty, !.zeros = difficulty, !.intact = TRUE]

meets_difficulty(block, difficulty) == block.zeros >= difficulty

(* PoWConsensus.validate *)
validate(block, difficulty) ==
    block.intact /\ block.difficulty >= difficulty /\ meets_difficulty(block, block.difficulty)

mine_block(index, previous_hash, selected, miner_address, difficulty, reward, timestamp) ==
    mine([index |-> index, previous_hash |-> previous_hash, timestamp |-> timestamp,
          difficulty |-> 0, zeros |-> 0, intact |-> TRUE,
          transactions |-> <<Transaction(COINBASE_SENDER, miner_address, reward, timestamp, "none")>> \o selected],
         difficulty)

(* 16 ** d *)
power16(d) ==
    LET power[n \in 0..d] == IF n = 0 THEN 1 ELSE 16 * power[n - 1]
    IN  power[d]

chain_work(chain) ==
    LET work[i \in 0..Len(chain)] ==
            IF i = 0 THEN 0 ELSE work[i - 1] + power16(Max({chain[i].difficulty, 0}))
    IN  work[Len(chain)]

-----------------------------------------------------------------------------
(* The retarget.  target_work is the fraction work / timespan; the two     *)
(* loops stop at the first level that fails their condition.               *)

(* Mutant: the measured timespan is used as it is. *)
unclamped_timespan(actual, expected) == Max({actual, 1})

(* Mutant: a timespan above the clamp counts as an outlier. *)
outlier_ignored(actual, expected) ==
    IF actual > expected * max_adjustment_factor THEN expected ELSE Max({actual, 1, expected \div max_adjustment_factor})

clamped_timespan(actual, expected) ==
    Max({Max({1, expected \div max_adjustment_factor}),
         Min({Max({actual, 1}), expected * max_adjustment_factor})})

next_difficulty(previous_blocks) ==
    IF Len(previous_blocks) < 2 THEN config_difficulty
    ELSE LET expected == (Len(previous_blocks) - 1) * target_block_time
             timespan == clamped_timespan(Last(previous_blocks).timestamp - Head(previous_blocks).timestamp, expected)
             base     == Max({Last(previous_blocks).difficulty, 0})
             work     == power16(base) * expected
             rises(d) == d < max_difficulty /\ work >= power16(d) * 4 * timespan
             falls(d) == d > min_difficulty /\ work * 4 <= power16(d) * timespan
             new      == CASE expected > timespan -> Min({d \in base..Max({base, max_difficulty}) : ~rises(d)})
                           [] expected < timespan -> Max({d \in 0..base : ~falls(d)})
                           [] OTHER -> base
         IN  Max({min_difficulty, Min({new, max_difficulty})})

expected_difficulty(chain) ==
    next_difficulty(IF Len(chain) >= difficulty_adjustment_interval
                    THEN SubSeq(chain, Len(chain) - difficulty_adjustment_interval + 1, Len(chain)) ELSE chain)

-----------------------------------------------------------------------------
(* Monetary state: replay of a chain. *)

(* The places of the coinbases among the transactions of a block, and the  *)
(* coinbase where there is exactly one.                                    *)
coinbases(block) == {i \in DOMAIN block.transactions : is_coinbase(block.transactions[i])}

the_coinbase(block) == block.transactions[CHOOSE i \in coinbases(block) : TRUE]

(* Mutant: the last reward is not cut to what is left. *)
uncapped_reward(supply) == IF supply < MAX_SUPPLY_BASE_UNITS THEN block_reward ELSE 0

due_reward(supply) == Min({block_reward, MAX_SUPPLY_BASE_UNITS - supply})

EmptyState == [balances |-> [a \in Accounts |-> 0], supply |-> 0, ok |-> TRUE]

(* After a raise there is no state to go on with. *)
NoState == [balances |-> [a \in Accounts |-> 0], supply |-> 0, ok |-> FALSE]

move(balances, tx) == [[balances EXCEPT ![tx.sender] = @ - tx.amount] EXCEPT ![tx.receiver] = @ + tx.amount]

replay_transaction(state, tx) ==
    IF ~state.ok \/ is_coinbase(tx) THEN state
    ELSE IF validate_transaction(tx) /\ tx.amount <= state.balances[tx.sender]
         THEN [state EXCEPT !.balances = move(@, tx)]
         ELSE NoState

replay_transactions(state, txs) ==
    LET after[i \in 0..Len(txs)] == IF i = 0 THEN state ELSE replay_transaction(after[i - 1], txs[i])
    IN  after[Len(txs)]

pay_reward(state, receiver) ==
    [balances |-> [state.balances EXCEPT ![receiver] = @ + due_reward(state.supply)],
     supply   |-> state.supply + due_reward(state.supply),
     ok       |-> state.ok]

replay_block(state, block) ==
    IF ~state.ok \/ block.index = 0 THEN state
    ELSE IF /\ Cardinality(coinbases(block)) = 1
            /\ due_reward(state.supply) > 0
            /\ the_coinbase(block).amount = due_reward(state.supply)
         THEN replay_transactions(pay_reward(state, the_coinbase(block).receiver), block.transactions)
         ELSE NoState

_state_from_chain(chain) ==
    LET after[i \in 0..Len(chain)] == IF i = 0 THEN EmptyState ELSE replay_block(after[i - 1], chain[i])
    IN  after[Len(chain)]

-----------------------------------------------------------------------------
(* Block and chain validation.  rewards is the set of coinbase amounts     *)
(* that the caller accepts: every one when it names none.                  *)

AnyReward == Int

validate_block_structure(block, rewards) ==
    /\ block.index >= 0
    /\ block.intact
    /\ block.index = 0
       \/ /\ Cardinality(coinbases(block)) = 1
          /\ the_coinbase(block).amount \in rewards
          /\ the_coinbase(block).amount <= MAX_SUPPLY_BASE_UNITS
          /\ \A i \in DOMAIN block.transactions : validate_transaction(block.transactions[i])

(* Mutant: the transfers of the block are not replayed. *)
validate_without_replay(block, chain) ==
    LET previous == Last(chain)
        state    == _state_from_chain(chain)
    IN  /\ block.index = previous.index + 1
        /\ block.previous_hash = hash(previous)
        /\ block.timestamp > previous.timestamp
        /\ block.difficulty = expected_difficulty(chain)
        /\ validate(block, expected_difficulty(chain))
        /\ due_reward(state.supply) > 0
        /\ validate_block_structure(block, {due_reward(state.supply)})

validate_block_against_chain(block, chain) ==
    LET previous == Last(chain)
        state    == _state_from_chain(chain)
    IN  /\ block.index = previous.index + 1
        /\ block.previous_hash = hash(previous)
        /\ block.timestamp > previous.timestamp
        /\ state.ok
        /\ _state_from_chain(Append(chain, block)).ok
        /\ block.difficulty = expected_difficulty(chain)
        /\ validate(block, expected_difficulty(chain))
        /\ due_reward(state.supply) > 0
        /\ validate_block_structure(block, {due_reward(state.supply)})

validate_genesis_identity(candidate, local_genesis) ==
    candidate # <<>> /\ hash(Head(candidate)) = hash(local_genesis)

validate_chain(chain) ==
    /\ chain # <<>>
    /\ validate_block_structure(Head(chain), AnyReward)
    /\ \A i \in 2..Len(chain) : validate_block_against_chain(chain[i], SubSeq(chain, 1, i - 1))
    /\ _state_from_chain(chain).ok
=============================================================================
