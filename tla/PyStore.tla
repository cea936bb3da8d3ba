------------------------------ MODULE PyStore ------------------------------
(***************************************************************************)
(* The chain tables of storage.py as one value db: the rows of blocks (a  *)
(* row is the block), the rows of transactions, and the wallets cache.    *)
(* Each operator is one database transaction: it happens as a whole or,   *)
(* when a primary key is taken (StorageError), not at all.                 *)
(***************************************************************************)
EXTENDS PyRules

EmptyTables == [blocks |-> {}, transactions |-> {}, wallets |-> <<>>]

rows(block) == {[tx |-> tx, block_index |-> block.index] : tx \in Range(block.transactions)}

(* The primary keys of the rows that blocks bring are new and distinct. *)
keys_free(db, new) ==
    /\ \A b \in new : /\ \A c \in db.blocks \cup new : c.index = b.index => c = b
                      /\ b \notin db.blocks
                      /\ IsInjective(b.transactions)
                      /\ \A r \in rows(b), s \in db.transactions : r.tx # s.tx
    /\ \A b, c \in new : \A r \in rows(b), s \in rows(c) : r.tx = s.tx => b = c

insert(db, new) ==
    [blocks |-> db.blocks \cup new, transactions |-> db.transactions \cup UNION {rows(b) : b \in new},
     wallets |-> db.wallets]

can_save(db, block) == keys_free(db, {block})

save_block(db, block) == insert(db, {block})

(* In the order of the index: the i-th block has i - 1 before it. *)
load_chain(db) ==
    [i \in 1..Cardinality(db.blocks) |->
        CHOOSE b \in db.blocks : Cardinality({c \in db.blocks : c.index < b.index}) = i - 1]

-----------------------------------------------------------------------------
(* Wallet cache *)

_compute_balance_from_history(db, address) ==
    SumFunction([r \in {s \in db.transactions : s.tx.receiver = address} |-> r.tx.amount])
    - SumFunction([r \in {s \in db.transactions : s.tx.sender = address} |-> r.tx.amount])

get_balance(db, address) ==
    IF address \in DOMAIN db.wallets THEN db.wallets[address] ELSE _compute_balance_from_history(db, address)

(* A delta is an address and what is added to its balance. *)
delta_total(changes, address) ==
    SumFunction([i \in DOMAIN changes |-> IF changes[i][1] = address THEN changes[i][2] ELSE 0])

cached(wallets, address) == IF address \in DOMAIN wallets THEN wallets[address] ELSE 0

(* _apply_balance_delta_conn for each change: an address that has no row   *)
(* gets one, and the order makes no difference to the sums.                *)
apply_deltas(wallets, changes) ==
    [a \in DOMAIN wallets \cup {changes[i][1] : i \in DOMAIN changes} |-> cached(wallets, a) + delta_total(changes, a)]

transaction_deltas(tx) ==
    IF is_coinbase(tx) THEN << <<tx.receiver, tx.amount>> >>
    ELSE << <<tx.sender, 0 - tx.amount>>, <<tx.receiver, tx.amount>> >>

(* What update_balances_for_block applies, one database transaction each. *)
deltas_for_block(block) ==
    FlattenSeq([i \in DOMAIN block.transactions |-> transaction_deltas(block.transactions[i])])

(* Mutant: only the reward of a removed block is taken back. *)
reversed_reward(block) == LET d == deltas_for_block(block)[1] IN << <<d[1], 0 - d[2]>> >>

(* What reorganize_from applies to take a stored block back. *)
reversed_deltas(block) ==
    [i \in DOMAIN deltas_for_block(block) |-> <<deltas_for_block(block)[i][1], 0 - deltas_for_block(block)[i][2]>>]

-----------------------------------------------------------------------------
(* Reorganization: one transaction for the removed rows, the new rows and  *)
(* the balances of both.                                                   *)

(* Mutant: the rows of removed blocks stay in the transactions table. *)
below_keeping_rows(db, fork_index) ==
    [blocks |-> {b \in db.blocks : b.index < fork_index}, transactions |-> db.transactions, wallets |-> db.wallets]

below(db, fork_index) ==
    [blocks |-> {b \in db.blocks : b.index < fork_index},
     transactions |-> {r \in db.transactions : r.block_index < fork_index}, wallets |-> db.wallets]

can_reorganize(db, fork_index, new_blocks) == keys_free(below(db, fork_index), Range(new_blocks))

reorganize_from(db, fork_index, new_blocks) ==
    LET kept    == below(db, fork_index)
        removed == SubSeq(load_chain(db), Cardinality(kept.blocks) + 1, Cardinality(db.blocks))
        changes == FlattenSeq([i \in DOMAIN removed |-> reversed_deltas(removed[i])])
                   \o FlattenSeq([i \in DOMAIN new_blocks |-> deltas_for_block(new_blocks[i])])
    IN  [insert(kept, Range(new_blocks)) EXCEPT !.wallets = apply_deltas(@, changes)]
=============================================================================
