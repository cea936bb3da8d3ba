------------------------------ MODULE PyChain ------------------------------
(***************************************************************************)
(* Blockchain (blockchain.py) in the processes that open one database: the *)
(* API server, and CLI commands (cli/main.py).  Each process has its own   *)
(* chain, mempool and mutation_lock; the tables of PyStore are shared.     *)
(*                                                                         *)
(* pc[p] is where the thread that holds p's mutation_lock is: "idle" when  *)
(* no thread holds it.  Mining searches for its nonce outside the lock, so *)
(* a block that was assembled from an older tip waits in mined[p].  An     *)
(* append goes chain.append, save_block, one transaction per balance       *)
(* delta, then the removal from the mempool; a crash may fall between any  *)
(* two.                                                                    *)
(***************************************************************************)
EXTENDS PyStore

CONSTANTS
    Procs,           \* the processes that share the database
    Submissions,     \* transactions that clients submit, any number of times
    Miners,          \* addresses passed to mine
    PeerBlocks(_),   \* blocks peers may send to a node with this chain
    PeerChains(_),   \* chains peers may offer it
    MaxHeight,       \* bound: blocks on top of genesis
    MaxCrashes       \* bound

VARIABLES
    db,              \* the shared tables
    pc, chain, mempool, mined, adding, deltas,
    crashes,
    refused,         \* some save_block or reorganize_from has raised StorageError
    torn,            \* a process died with balance deltas of a saved block left
    foreign          \* processes whose chain has changed by a block of another

memory == <<pc, chain, mempool, mined, adding, deltas>>
vars   == <<db, memory, crashes, refused, torn, foreign>>

Init ==
    /\ db = EmptyTables
    /\ pc = [p \in Procs |-> "down"]
    /\ chain = [p \in Procs |-> <<>>] /\ mempool = [p \in Procs |-> {}]
    /\ mined = [p \in Procs |-> <<>>] /\ adding = [p \in Procs |-> <<>>] /\ deltas = [p \in Procs |-> <<>>]
    /\ crashes = 0 /\ refused = FALSE /\ torn = FALSE /\ foreign = {}

-----------------------------------------------------------------------------
(* Blockchain.__init__: the stored chain as it is, or a new genesis. *)

Open(p) ==
    /\ pc[p] = "down"
    /\ IF db.blocks = {} THEN pc' = [pc EXCEPT ![p] = "genesis"] /\ UNCHANGED chain
                         ELSE pc' = [pc EXCEPT ![p] = "idle"] /\ chain' = [chain EXCEPT ![p] = load_chain(db)]
    /\ UNCHANGED <<db, mempool, mined, adding, deltas, crashes, refused, torn, foreign>>

(* Its two balance deltas are zero and are taken with the insertion.  When *)
(* another process was faster, the constructor raises.                     *)
_create_and_persist_genesis_block(p) ==
    /\ pc[p] = "genesis"
    /\ IF can_save(db, genesis)
       THEN /\ db' = [save_block(db, genesis)
                         EXCEPT !.wallets = apply_deltas(@, deltas_for_block(genesis))]
            /\ chain' = [chain EXCEPT ![p] = <<genesis>>]
            /\ pc' = [pc EXCEPT ![p] = "idle"]
       ELSE /\ pc' = [pc EXCEPT ![p] = "down"]
            /\ UNCHANGED <<db, chain>>
    /\ UNCHANGED <<mempool, mined, adding, deltas, crashes, refused, torn, foreign>>

-----------------------------------------------------------------------------
(* Transactions *)

add_transaction(p, tx) ==
    /\ tx \notin mempool[p] /\ verify(tx)
    /\ mempool' = [mempool EXCEPT ![p] = @ \cup {tx}]

(* Mutant: entries that wait reserve nothing. *)
submit_unreserved(p, tx) ==
    /\ pc[p] = "idle"
    /\ validate_transaction(tx)
    /\ is_coinbase(tx) \/ tx.amount <= get_balance(db, tx.sender)
    /\ add_transaction(p, tx)
    /\ UNCHANGED <<db, pc, chain, mined, adding, deltas, crashes, refused, torn, foreign>>

(* Nothing asks whether the transaction is confirmed already. *)
submit_transaction(p, tx) ==
    /\ pc[p] = "idle"
    /\ validate_transaction(tx)
    /\ is_coinbase(tx) \/ pending_spend_for(mempool[p], tx.sender) + tx.amount <= get_balance(db, tx.sender)
    /\ add_transaction(p, tx)
    /\ UNCHANGED <<db, pc, chain, mined, adding, deltas, crashes, refused, torn, foreign>>

-----------------------------------------------------------------------------
(* Mining.  The reads before the search are one step: a chain that changes *)
(* between two of them yields a block that fails validation or one that a  *)
(* single read gives.                                                      *)

total_supply_base_units(blocks) ==
    FoldLeft(LAMBDA sum, block : sum + MapThenSumSet(LAMBDA i : block.transactions[i].amount, coinbases(block)), 0, blocks)

(* The miner's own choice of the window that expected_difficulty takes. *)
current_difficulty(blocks) ==
    next_difficulty(SubSeq(blocks, Max({1, Len(blocks) - difficulty_adjustment_interval + 1}), Len(blocks)))

start_mining(p, miner_address) ==
    /\ pc[p] \in {"idle", "save", "update"} /\ mined[p] = <<>>
    /\ Len(chain[p]) <= MaxHeight
    /\ due_reward(total_supply_base_units(chain[p])) > 0
    /\ mined' = [mined EXCEPT ![p] =
           <<mine_block(Last(chain[p]).index + 1, hash(Last(chain[p])), get_pending(mempool[p]), miner_address,
                        current_difficulty(chain[p]), due_reward(total_supply_base_units(chain[p])),
                        Last(chain[p]).timestamp + 1)>>]
    /\ UNCHANGED <<db, pc, chain, mempool, adding, deltas, crashes, refused, torn, foreign>>

(* chain.append comes first, with the lock held until the mempool is clean. *)
begin_append(p, block) ==
    /\ chain' = [chain EXCEPT ![p] = Append(@, block)]
    /\ adding' = [adding EXCEPT ![p] = <<block>>]
    /\ pc' = [pc EXCEPT ![p] = "save"]

commit_mined(p) ==
    /\ pc[p] = "idle" /\ mined[p] # <<>>
    /\ mined' = [mined EXCEPT ![p] = <<>>]
    /\ IF validate_block_against_chain(mined[p][1], chain[p])
       THEN begin_append(p, mined[p][1])
       ELSE UNCHANGED <<pc, chain, adding>>
    /\ UNCHANGED <<db, mempool, deltas, crashes, refused, torn, foreign>>

(* The tail of propagation.receive_block, under the lock. *)
append_received(p, block) ==
    /\ pc[p] = "idle"
    /\ block.index = Last(chain[p]).index + 1
    /\ validate_block_against_chain(block, chain[p])
    /\ begin_append(p, block)
    /\ foreign' = foreign \cup {p}
    /\ UNCHANGED <<db, mempool, mined, deltas, crashes, refused, torn>>

(* A StorageError leaves the handler; the block stays in the chain list. *)
save(p) ==
    /\ pc[p] = "save"
    /\ \/ /\ can_save(db, adding[p][1])
          /\ db' = save_block(db, adding[p][1])
          /\ pc' = [pc EXCEPT ![p] = "update"]
          /\ deltas' = [deltas EXCEPT ![p] = deltas_for_block(adding[p][1])]
          /\ UNCHANGED <<adding, refused>>
       \/ /\ ~can_save(db, adding[p][1])
          /\ refused' = TRUE
          /\ pc' = [pc EXCEPT ![p] = "idle"]
          /\ adding' = [adding EXCEPT ![p] = <<>>]
          /\ UNCHANGED <<db, deltas>>
    /\ UNCHANGED <<chain, mempool, mined, crashes, torn, foreign>>

remove_transactions(p, txs) == mempool' = [mempool EXCEPT ![p] = @ \ txs]

(* One delta of update_balances_for_block; after the last one the block's  *)
(* transactions leave the mempool and the lock is released.                *)
update_balances(p) ==
    /\ pc[p] = "update"
    /\ db' = [db EXCEPT !.wallets = apply_deltas(@, <<Head(deltas[p])>>)]
    /\ deltas' = [deltas EXCEPT ![p] = Tail(@)]
    /\ IF Len(deltas[p]) = 1
       THEN /\ remove_transactions(p, Range(adding[p][1].transactions))
            /\ adding' = [adding EXCEPT ![p] = <<>>]
            /\ pc' = [pc EXCEPT ![p] = "idle"]
       ELSE UNCHANGED <<mempool, adding, pc>>
    /\ UNCHANGED <<chain, mined, crashes, refused, torn, foreign>>

-----------------------------------------------------------------------------
(* Reorganization *)

(* Mutant: the first block of the new branch is taken for a shared one. *)
after_fork_index(ours, candidate) ==
    LET shared == Min({Len(ours), Len(candidate)})
    IN  Min({i \in 1..shared : hash(ours[i]) # hash(candidate[i])} \cup {shared + 1})

_find_fork_index(ours, candidate) ==
    LET shared == Min({Len(ours), Len(candidate)})
    IN  Min({i \in 1..shared : hash(ours[i]) # hash(candidate[i])} \cup {shared + 1}) - 1

(* Mutant: the longer chain wins. *)
longer(candidate, ours) == Len(candidate) > Len(ours)

heavier(candidate, ours) == chain_work(candidate) > chain_work(ours)

replace_chain(p, candidate) ==
    /\ pc[p] = "idle"
    /\ validate_genesis_identity(candidate, Head(chain[p]))
    /\ heavier(candidate, chain[p])
    /\ validate_chain(candidate)
    /\ LET fork_index == _find_fork_index(chain[p], candidate)
           new_blocks == SubSeq(candidate, fork_index + 1, Len(candidate))
       IN  \/ /\ can_reorganize(db, fork_index, new_blocks)
              /\ db' = reorganize_from(db, fork_index, new_blocks)
              /\ chain' = [chain EXCEPT ![p] = candidate]
              /\ remove_transactions(p, UNION {Range(b.transactions) : b \in Range(new_blocks)})
              /\ foreign' = foreign \cup {p}
              /\ UNCHANGED refused
           \/ /\ ~can_reorganize(db, fork_index, new_blocks)
              /\ refused' = TRUE
              /\ UNCHANGED <<db, chain, mempool, foreign>>
    /\ UNCHANGED <<pc, mined, adding, deltas, crashes, torn>>

-----------------------------------------------------------------------------
(* The end of a process, at any point: a crash, or the exit of a command. *)

Crash(p) ==
    /\ pc[p] # "down" /\ crashes < MaxCrashes
    /\ crashes' = crashes + 1
    /\ torn' = (torn \/ deltas[p] # <<>>)
    /\ pc' = [pc EXCEPT ![p] = "down"]
    /\ chain' = [chain EXCEPT ![p] = <<>>] /\ mempool' = [mempool EXCEPT ![p] = {}]
    /\ mined' = [mined EXCEPT ![p] = <<>>] /\ adding' = [adding EXCEPT ![p] = <<>>]
    /\ deltas' = [deltas EXCEPT ![p] = <<>>] /\ foreign' = foreign \ {p}
    /\ UNCHANGED <<db, refused>>

Next ==
    \E p \in Procs :
        \/ Open(p) \/ _create_and_persist_genesis_block(p)
        \/ \E tx \in Submissions : submit_transaction(p, tx)
        \/ \E a \in Miners : start_mining(p, a)
        \/ commit_mined(p) \/ save(p) \/ update_balances(p)
        \/ \E block \in PeerBlocks(chain[p]) : append_received(p, block)
        \/ \E candidate \in PeerChains(chain[p]) : replace_chain(p, candidate)
        \/ Crash(p)

Spec == Init /\ [][Next]_vars

-----------------------------------------------------------------------------

(* The transactions table is the transactions of the stored blocks, no     *)
(* transaction is stored for two blocks and no two blocks have one index,  *)
(* whatever crashes, reorganizations and refused insertions of whichever   *)
(* processes came before (storage.py save_block and reorganize_from keep   *)
(* two tables in step).                                                    *)
TablesAgree ==
    /\ db.transactions = UNION {rows(b) : b \in db.blocks}
    /\ \A r, s \in db.transactions : r.tx = s.tx => r = s
    /\ \A b, c \in db.blocks : b.index = c.index => b = c

(* As long as no insertion has been refused, what a restart would load is  *)
(* a valid chain: Blockchain.__init__ does not validate what it loads.     *)
LoadedChainIsValid ==
    (~refused /\ db.blocks # {}) => validate_chain(load_chain(db))

(* As long as no insertion has been refused, a process that has finished   *)
(* an operation has in memory what is stored, and one that has not saved   *)
(* its block yet is ahead by exactly that block.                           *)
MemoryIsStored ==
    \A p \in Procs :
        (~refused /\ chain[p] # <<>>)
        => chain[p] = IF pc[p] = "save" THEN load_chain(db) \o adding[p] ELSE load_chain(db)

outstanding(a) == SumFunction([p \in Procs |-> delta_total(deltas[p], a)])

(* As long as no insertion has been refused, the balance that a replay of  *)
(* the stored chain gives is what the transactions table adds up to (the   *)
(* fallback of get_balance), and, as long as no process died inside        *)
(* update_balances_for_block, the cached balance and the deltas still to   *)
(* come, through reorganizations too (reorganize_from takes the deltas of  *)
(* removed blocks back).                                                   *)
WalletsAreReplay ==
    ~refused =>
        \A a \in Addr :
            LET balance == _state_from_chain(load_chain(db)).balances[a]
            IN  /\ balance = _compute_balance_from_history(db, a)
                /\ torn \/ balance = cached(db.wallets, a) + outstanding(a)

(* Pending spend exceeds a confirmed balance only where a block of another *)
(* node has spent it: a node's own blocks take from the balance what they  *)
(* take from the pool (blockchain.py submit_transaction).                  *)
PoolAffordable ==
    \A p \in Procs \ foreign :
        (pc[p] = "idle" /\ ~refused /\ ~torn) => \A a \in Addr : pending_spend_for(mempool[p], a) <= get_balance(db, a)

(* The stored chain never loses work, as long as no insertion has been     *)
(* refused: a reorganization replaces it only by a heavier one.            *)
StoredWorkGrows ==
    [][refused \/ chain_work(load_chain(db')) >= chain_work(load_chain(db))]_vars

-----------------------------------------------------------------------------
(* tests/test_network_concurrency.py:95 says of a node after its threads   *)
(* have mined and received: "Storage must agree with in-memory state (no   *)
(* duplicate rows, no ...".                                                *)
StorageAgreesWithMemory ==
    \A p \in Procs : pc[p] = "idle" => chain[p] = load_chain(db)

(* README.md:430 says of the CLI and the API: they "can operate against    *)
(* the same underlying chain state".  What both store is one valid chain.  *)
SharedChainIsValid ==
    db.blocks # {} => validate_chain(load_chain(db))
=============================================================================
