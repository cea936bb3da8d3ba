------------------------------ MODULE PyGossip ------------------------------
(***************************************************************************)
(* Block and transaction propagation and chain synchronization between    *)
(* Python nodes: propagation.py, sync.py, the registry and backoff of     *)
(* peer.py, the maintenance loop of node.py, and the calls of protocol.py, *)
(* which may be lost, or reach the peer and time out.                      *)
(*                                                                         *)
(* A block is the path of blocks from genesis to it, so a node's chain is  *)
(* its tip; an entry of the path has the node that mined it, the work of   *)
(* its difficulty and its transactions.  Every block is valid on its       *)
(* parent and every transaction is signed (validity is PyRules).           *)
(***************************************************************************)
EXTENDS Integers, Sequences, FiniteSets, SequencesExt, FiniteSetsExt

CONSTANTS
    Nodes,
    peers,             \* peers[n]: the registry of n, see PyPeers for how it grows
    Trusted,           \* Trusted[n]: those of them n holds a trusted credential of
    Transactions,
    Works,             \* work of a block
    SEEN_CACHE_SIZE,
    max_sync_blocks,
    MaxItems,          \* bound: blocks and transactions that clients make at each node
    MaxBackoffs,       \* bound: peers in backoff at one time, over all nodes
    MaxDownloads,      \* bound: synchronizations of a node at one time
    MaxRestarts        \* bound

ASSUME PyGossipAssumption ==
    /\ peers \in [Nodes -> SUBSET Nodes] /\ Trusted \in [Nodes -> SUBSET Nodes]
    /\ \A n \in Nodes : n \notin peers[n] /\ Trusted[n] \subseteq peers[n]
    /\ Works \subseteq Nat \ {0} /\ {SEEN_CACHE_SIZE, max_sync_blocks} \subseteq Nat \ {0}
    /\ MaxItems \in [Nodes -> Nat] /\ {MaxBackoffs, MaxDownloads, MaxRestarts} \subseteq Nat

VARIABLES
    tip, mempool,
    seen,              \* seen_blocks and seen_transactions: two BoundedSets, oldest first
    backoff,           \* the peers in retry backoff
    tasks,             \* broadcasts in progress: the item and the peers still to call
    handling,          \* requests past authentication and the seen cache
    fetched,           \* chains downloaded and not yet compared with ours
    created, restarts,
    relayed,           \* what each node has begun to broadcast, without the transactions
                       \* that have left its mempool since
    repeated           \* those it has begun to broadcast again

memory == <<mempool, seen, backoff, tasks, handling, fetched>>
ghosts == <<relayed, repeated>>
vars == <<tip, memory, created, restarts, ghosts>>

block(path) == [kind |-> "block", path |-> path]
transaction(tx) == [kind |-> "transaction", id |-> tx]
is_block(item) == item.kind = "block"

chain_work(path) ==
    LET total[i \in 0..Len(path)] == IF i = 0 THEN 0 ELSE total[i - 1] + path[i].work
    IN  total[Len(path)]

confirmed(path) == UNION {path[i].txs : i \in DOMAIN path}

Kinds == {"block", "transaction"}
empty_cache == [kind \in Kinds |-> <<>>]

Init ==
    /\ tip = [n \in Nodes |-> <<>>] /\ mempool = [n \in Nodes |-> {}] /\ seen = [n \in Nodes |-> empty_cache]
    /\ backoff = [n \in Nodes |-> {}]
    /\ tasks = [n \in Nodes |-> {}] /\ handling = [n \in Nodes |-> {}]
    /\ fetched = [n \in Nodes |-> {}] /\ created = [n \in Nodes |-> 0] /\ restarts = 0
    /\ relayed = [n \in Nodes |-> {}] /\ repeated = [n \in Nodes |-> {}]

-----------------------------------------------------------------------------
(* utils.BoundedSet: a repeated item becomes the newest. *)

(* Mutant: nothing is evicted. *)
add_unbounded(cache, item) == [cache EXCEPT ![item.kind] = Append(RemoveFirst(@, item), item)]

add_seen(cache, item) ==
    LET rest == RemoveFirst(cache[item.kind], item)
    IN  [cache EXCEPT ![item.kind] = Append(IF Len(rest) < SEEN_CACHE_SIZE THEN rest ELSE Tail(rest), item)]

in_seen(n, item) == Contains(seen[n][item.kind], item)

(* peer.py: the peers that are called have a row already. *)

mark_seen(n, m) == backoff' = [backoff EXCEPT ![n] = @ \ {m}]

mark_failure(n, m) ==
    /\ MapThenSumSet(LAMBDA i : Cardinality(backoff[i]), Nodes) < MaxBackoffs
    /\ backoff' = [backoff EXCEPT ![n] = @ \cup {m}]

is_eligible(n, m) == m \notin backoff[n]

expire_backoff(n, m) ==
    /\ m \in backoff[n]
    /\ backoff' = [backoff EXCEPT ![n] = @ \ {m}]
    /\ UNCHANGED <<tip, mempool, seen, tasks, handling, fetched, created, restarts, ghosts>>

-----------------------------------------------------------------------------
(* Outbound propagation *)

behind(n) == {item \in relayed[n] : is_block(item) \/ item.id \in mempool'[n]}

broadcast(n, item, exclude) ==
    /\ seen' = [seen EXCEPT ![n] = add_seen(@, item)]
    /\ tasks' = [tasks EXCEPT ![n] = IF peers[n] \subseteq exclude THEN @
                                     ELSE @ \cup {[item |-> item, todo |-> peers[n] \ exclude]}]
    /\ relayed' = [relayed EXCEPT ![n] = behind(n) \cup {item}]
    /\ repeated' = [repeated EXCEPT ![n] = IF item \in relayed[n] THEN @ \cup {item} ELSE @]

(* POST /mine: the block takes every pending transaction and is broadcast. *)
(* A block that repeats a transaction of its own chain is appended and     *)
(* then refused by save_block before it is broadcast: that case is left to *)
(* PyChain.                                                                *)
mine(n, work) ==
    /\ created[n] < MaxItems[n] /\ created' = [created EXCEPT ![n] = @ + 1]
    /\ mempool[n] \cap confirmed(tip[n]) = {}
    /\ tip' = [tip EXCEPT ![n] = Append(@, [by |-> n, work |-> work, txs |-> mempool[n]])]
    /\ mempool' = [mempool EXCEPT ![n] = {}]
    /\ broadcast(n, block(tip'[n]), {})
    /\ UNCHANGED <<backoff, handling, fetched, restarts>>

(* POST /transaction/submit: only the mempool is asked, neither the chain  *)
(* nor the seen cache.                                                     *)
submit(n, tx) ==
    /\ created[n] < MaxItems[n] /\ created' = [created EXCEPT ![n] = @ + 1]
    /\ tx \notin mempool[n]
    /\ mempool' = [mempool EXCEPT ![n] = @ \cup {tx}]
    /\ broadcast(n, transaction(tx), {})
    /\ UNCHANGED <<tip, backoff, handling, fetched, restarts>>

-----------------------------------------------------------------------------
(* Inbound propagation, up to the lock.  Handlers run in several threads:  *)
(* what the seen cache and the chain said may be old when the lock is      *)
(* taken.                                                                  *)

authenticate_request(n, from) == from \in Trusted[n]

on_chain(n, path) == Len(path) <= Len(tip[n]) /\ path = SubSeq(tip[n], 1, Len(path))

receive(n, item, from) ==
    LET fresh == authenticate_request(n, from) /\ ~in_seen(n, item)
        known == is_block(item) /\ on_chain(n, item.path)
    IN  /\ seen' = IF fresh /\ known THEN [seen EXCEPT ![n] = add_seen(@, item)] ELSE seen
        /\ handling' = IF fresh /\ ~known THEN [handling EXCEPT ![n] = @ \cup {[item |-> item, from |-> from, marked |-> FALSE]}]
                       ELSE handling

(* One turn of the loop of broadcast_block or broadcast_transaction.  The  *)
(* answer is a failure when the call is lost or when the peer is too slow; *)
(* a peer that rejects the item has answered.                              *)
calls(n, m) == m \in Trusted[n] /\ is_eligible(n, m)

next_peer(n, task, m) ==
    tasks' = [tasks EXCEPT ![n] = (@ \ {task}) \cup
                 (IF task.todo = {m} THEN {} ELSE {[task EXCEPT !.todo = @ \ {m}]})]

skip_peer(n, task, m) ==
    /\ ~calls(n, m)
    /\ next_peer(n, task, m)
    /\ UNCHANGED <<tip, mempool, seen, backoff, handling, fetched, created, restarts, ghosts>>

send_answered(n, task, m) ==
    /\ calls(n, m)
    /\ next_peer(n, task, m) /\ receive(m, task.item, n) /\ mark_seen(n, m)
    /\ UNCHANGED <<tip, mempool, fetched, created, restarts, ghosts>>

send_failed(n, task, m) ==
    /\ calls(n, m)
    /\ next_peer(n, task, m) /\ mark_failure(n, m)
    /\ receive(m, task.item, n) \/ UNCHANGED <<seen, handling>>
    /\ UNCHANGED <<tip, mempool, fetched, created, restarts, ghosts>>

(* receive_block records the block before it asks for the lock,            *)
(* receive_transaction under the lock.                                     *)
mark_block(n, request) ==
    /\ is_block(request.item) /\ ~request.marked
    /\ seen' = [seen EXCEPT ![n] = add_seen(@, request.item)]
    /\ handling' = [handling EXCEPT ![n] = (@ \ {request}) \cup {[request EXCEPT !.marked = TRUE]}]
    /\ UNCHANGED <<tip, mempool, backoff, tasks, fetched, created, restarts, ghosts>>

(* Inbound propagation under the lock *)

has_lock(request) == request.marked \/ ~is_block(request.item)

(* Mutant: the mempool is not asked again under the lock. *)
accepts_any_transaction(n, item) ==
    is_block(item) => Len(item.path) = Len(tip[n]) + 1 /\ Front(item.path) = tip[n]

accepts(n, item) ==
    IF is_block(item) THEN Len(item.path) = Len(tip[n]) + 1 /\ Front(item.path) = tip[n]
                      ELSE item.id \notin mempool[n]

accepted(n, request) ==
    /\ has_lock(request) /\ accepts(n, request.item)
    /\ handling' = [handling EXCEPT ![n] = @ \ {request}]
    /\ broadcast(n, request.item, {request.from})
    /\ mark_seen(n, request.from)
    /\ UNCHANGED <<fetched, created, restarts>>

accept_block(n, request) ==
    /\ is_block(request.item)
    /\ tip' = [tip EXCEPT ![n] = request.item.path]
    /\ mempool' = [mempool EXCEPT ![n] = @ \ Last(request.item.path).txs]
    /\ accepted(n, request)

accept_transaction(n, request) ==
    /\ ~is_block(request.item)
    /\ mempool' = [mempool EXCEPT ![n] = @ \cup {request.item.id}] /\ UNCHANGED tip
    /\ accepted(n, request)

(* A block that does not extend the tip stays recorded as seen, and so     *)
(* does a transaction that is pending or that its sender cannot pay on     *)
(* this node's chain.                                                      *)
reject(n, request) ==
    /\ has_lock(request)
    /\ accepts(n, request.item) => ~is_block(request.item)
    /\ handling' = [handling EXCEPT ![n] = @ \ {request}]
    /\ seen' = IF request.marked THEN seen ELSE [seen EXCEPT ![n] = add_seen(@, request.item)]
    /\ UNCHANGED <<tip, mempool, backoff, tasks, fetched, created, restarts, ghosts>>

-----------------------------------------------------------------------------
(* Synchronization.  _maintenance_loop goes through the registry for       *)
(* discover_peers, then for sync_with_all_peers, again and again; POST     *)
(* /network/sync runs a synchronization beside it at any time, so the      *)
(* calls come in any order.                                                *)

(* get_peers or get_chain returned None. *)
call_failed(n, m) ==
    /\ is_eligible(n, m)
    /\ Cardinality(fetched[n]) < MaxDownloads
    /\ mark_failure(n, m)
    /\ UNCHANGED <<tip, mempool, seen, tasks, handling, fetched, created, restarts, ghosts>>

(* sync_with_peer: the chain is downloaded first and compared afterwards.  *)
get_chain(n, m) ==
    /\ is_eligible(n, m)
    /\ Cardinality(fetched[n]) < MaxDownloads
    /\ fetched' = [fetched EXCEPT ![n] = @ \cup {[path |-> tip[m], from |-> m]}]
    /\ UNCHANGED <<tip, mempool, seen, backoff, tasks, handling, created, restarts, ghosts>>


(* The genesis block counts for max_sync_blocks. *)
_parse_candidate_chain(path) == Len(path) + 1 <= max_sync_blocks

(* Mutant: the work is not compared under the lock. *)
differs(n, path) == path # tip[n]

has_more_work(n, path) == chain_work(path) > chain_work(tip[n])

(* The first blocks that differ and all after them are new. *)
new_blocks(n, path) ==
    {i \in DOMAIN path : i > Len(tip[n]) \/ SubSeq(path, 1, i) # SubSeq(tip[n], 1, i)}

(* replace_chain: the transactions of the blocks that are dropped do not   *)
(* come back to the mempool.                                               *)
sync_with_peer(n, f) ==
    /\ fetched' = [fetched EXCEPT ![n] = @ \ {f}]
    /\ IF _parse_candidate_chain(f.path) /\ has_more_work(n, f.path)
       THEN /\ tip' = [tip EXCEPT ![n] = f.path]
            /\ mempool' = [mempool EXCEPT ![n] = @ \ UNION {f.path[i].txs : i \in new_blocks(n, f.path)}]
            /\ mark_seen(n, f.from)
       ELSE UNCHANGED <<tip, mempool, backoff>>
    /\ relayed' = [relayed EXCEPT ![n] = behind(n)]
    /\ UNCHANGED <<seen, tasks, handling, created, restarts, repeated>>

(* The process ends and starts again: the chain and the registry are in    *)
(* the database, the rest is gone.                                         *)
Restart(n) ==
    /\ restarts < MaxRestarts
    /\ restarts' = restarts + 1
    /\ mempool' = [mempool EXCEPT ![n] = {}] /\ seen' = [seen EXCEPT ![n] = empty_cache]
    /\ backoff' = [backoff EXCEPT ![n] = {}] /\ tasks' = [tasks EXCEPT ![n] = {}]
    /\ handling' = [handling EXCEPT ![n] = {}] /\ fetched' = [fetched EXCEPT ![n] = {}]
    /\ relayed' = [relayed EXCEPT ![n] = behind(n)]
    /\ UNCHANGED <<tip, created, repeated>>

-----------------------------------------------------------------------------

Next ==
    \E n \in Nodes :
        \/ \E w \in Works : mine(n, w)
        \/ \E tx \in Transactions : submit(n, tx)
        \/ \E task \in tasks[n] : \E m \in task.todo :
               skip_peer(n, task, m) \/ send_answered(n, task, m) \/ send_failed(n, task, m)
        \/ \E request \in handling[n] :
               mark_block(n, request) \/ accept_block(n, request) \/ accept_transaction(n, request) \/ reject(n, request)
        \/ \E f \in fetched[n] : sync_with_peer(n, f)
        \/ \E m \in peers[n] : expire_backoff(n, m) \/ call_failed(n, m) \/ get_chain(n, m)
        \/ Restart(n)

Spec == Init /\ [][Next]_vars

(* A download that has ended is compared, a backoff ends, and a call that  *)
(* the maintenance loop makes again and again is answered at some time.    *)
(* Nothing is assumed of broadcasts: every one of them may fail.           *)
Fairness ==
    \A n \in Nodes :
        /\ WF_vars(\E f \in fetched[n] : sync_with_peer(n, f))
        /\ \A m \in peers[n] : WF_vars(expire_backoff(n, m)) /\ SF_vars(get_chain(n, m))

FairSpec == Spec /\ Fairness

-----------------------------------------------------------------------------

TypeOK ==
    /\ \A n \in Nodes :
           /\ mempool[n] \subseteq Transactions
           /\ backoff[n] \subseteq peers[n]
           /\ \A kind \in Kinds :
                  IsInjective(seen[n][kind]) /\ Len(seen[n][kind]) <= SEEN_CACHE_SIZE
           /\ \A task \in tasks[n] : task.todo # {} /\ task.todo \subseteq peers[n]
           /\ \A request \in handling[n] : n \in Trusted[request.from]
    /\ \A n \in Nodes : created[n] \in 0..MaxItems[n]
    /\ restarts \in 0..MaxRestarts

(* No node ever begins a second broadcast of a block, even when the seen   *)
(* cache has forgotten it and a reorganization has dropped it: what comes  *)
(* back no longer extends the tip (propagation.py receive_block checks     *)
(* again under the lock).  A transaction is broadcast again only when it   *)
(* has left the mempool in between, into a block or by a restart: then     *)
(* nothing stops it, neither the chain nor the cache.                      *)
RelayedOnce == \A n \in Nodes : repeated[n] = {}

(* No step of any node makes a chain lighter: neither a relayed block nor  *)
(* a chain that was downloaded before our tip moved (sync.py compares      *)
(* under the lock).                                                        *)
WorkNeverLost == [][\A n \in Nodes : chain_work(tip'[n]) >= chain_work(tip[n])]_vars

(* Once mining stops, all nodes come to chains of the same work and stay   *)
(* there, although every broadcast may be lost and a block that arrives    *)
(* before its parent is recorded as seen and dropped: synchronization      *)
(* alone repairs it, as long as no chain is longer than max_sync_blocks.   *)
Convergence == <>[](\A n, m \in Nodes : chain_work(tip[n]) = chain_work(tip[m]))
=============================================================================
