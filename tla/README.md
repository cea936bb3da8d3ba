# SAYANJALI blockchain: TLA+ models and proofs

This directory holds TLA+ models of the SAYANJALI node, the TLC configurations that check
them on small instances, and TLAPS proofs about the rules, the chain manager, the journal and the V2
pool of the Go node, and about the rules, the stored chain, the gossip and the peer authentication of
the Python node. `PROJECT.json` lists the runs, the source lines behind
every definition, the hazards and the theorems.

## 1. The system

The repository holds two implementations: the Go node (`internal/`, `cmd/`, `pkg/`), the one
meant for production, and the Python node (`blockchain/`, `api/`, `cli/`), which the Go node
took its first rules from. Both are modelled from the rules outwards; modules of the Python node
start with `Py`.

| part | state | operations | hard behaviour |
|---|---|---|---|
| consensus rules (`internal/chain`, `consensus`, `tokenomics`, `state`) | none; functions of a chain and a snapshot | `validateIncrementalBlock`; `validateChain` + `replayState`; retargeting; issuance | the rules exist twice and must agree; boundaries of budget, supply, median time and epochs |
| chain manager (`internal/chain`) | block graph, active chain, snapshots, published ledger, `reorgCandidates` | open, `Accept`, `TakeReorgCandidates` | crash between writes, failing writes, snapshots and checkpoints of other branches, equal work, clock set back |
| journal (`internal/storage`) | `ledger.journal`, maps of blocks, tip, checkpoints | `Open`/`replay`, `truncateTail`, `appendRecord`, `SaveBlock`, `SetTip`, `SaveStateCheckpoint`, `Flush` | torn records, loss of power, errors half way |
| miner (`internal/node`) | none | `mineNextWithClockSafety`, `selectV2Transactions` | clock against median time and parent; several reads of a chain that moves |
| mempool (`internal/mempool`) | `Pool`, `V2Pool` | `Add`, `RemoveIDs`, `ExpectedNonce`, `Snapshot` | decided on nonce and balance read before; capacity |
| node (`internal/node`) | the parts above, lifecycle, local API | `Start`, `Stop`, `SubmitTransaction`, `/mine` | stop against running handlers; partial start |
| network (`internal/p2p`, `internal/p2pnode`) | sessions, peers, pending requests, seen sets | handshake, gossip, request/answer, `syncPeer`, `maintain` | two ends number requests independently; slots and caps; timeouts against late answers |
| limits (`internal/security`) | token buckets, reputation, replay cache | `Allow`, `Violation`, `SeenOrAdd`, ... | eviction, time going back, caps |
| Python rules (`validators.py`, `consensus.py`, `mining.py`) | none; functions of a chain | `validate_block_against_chain`, `validate_chain`, `next_difficulty`, `mine_block` | rounding and shared thresholds in the retarget; the last reward before the cap; what admission allows and validation refuses |
| Python chain (`blockchain.py`, `mempool.py`, `storage.py`) | list of blocks, SQLite tables, mempool, one lock per process | open, `submit_transaction`, `mine_pending_transactions`, `receive_block`, `replace_chain` | memory changed before the database; mining outside the lock; one database transaction per balance delta; two processes on one database |
| Python gossip (`propagation.py`, `sync.py`, `protocol.py`, `node.py`) | chain, seen caches, backoff, broadcasts and downloads in progress | broadcast, receive, `sync_with_peer`, maintenance loop | items recorded as seen before they are checked; lost and late calls; chains compared after the tip has moved |
| Python peers (`peer.py`, `handshake.py`, `network_routes.py`) | registry, challenges, credentials, replay cache | register, challenge, authenticate, authenticated requests | unlocked check-then-act in several threads; two tables for one decision; caps |
| Python limits and lifecycle (`ratelimit.py`, `address_security.py`, `middleware.py`, `lifecycle.py`) | counters per key; status | `allow`, `validate_peer_address`, `start`, `stop` | eviction of keys at their limit |
| Python API, CLI, settings | singletons | request handlers, commands | each CLI command is a process of its own |
| codecs, hashes, signatures, addresses, wire formats | none | conversions | byte-level; verdicts are parameters of the models |

Calls: peers and the local API offer blocks and transactions; the node checks transactions
against chain and pool; the miner reads the chain and the pool; `Chain.Accept` runs under one
mutex, validates with the rules, writes to the journal and publishes; a reorganization hands
transactions back for the pool. In the Python node FastAPI runs handlers in a pool of threads; the
chain list changes only under `mutation_lock`, the peer and challenge stores have no lock; the
maintenance loop discovers peers and synchronizes in a thread of its own; CLI commands open the
same database from another process.

What makes each part correct is stated by the properties of its module (section 3).

## 2. Modules

| module | stands for | state | actions |
|---|---|---|---|
| `ChainRules` | both rule sets of V1, V2, V3 | none | operators named as in the code |
| `Ledger` | one branch growing under the incremental rules; the miner | `chain`, `snapshot`, `now` | `Accept`, `Mine`, `ClockMoves` |
| `Chain` | `internal/chain/chain.go`: opening, `Accept`, fork choice, crashes, failed writes | `disk`, `torn`, `mem`, `snaps`, `active`, `ledger`, ... | `Open*` (`OpenCorrupt` refuses the journal), `AcceptRefused`, `AcceptBegin`, `DeriveStep`, `Validate`, `SaveBlock`, `SaveStateCheckpoint`, `SetTip`, `TakeReorgCandidates`, `Crash` |
| `LedgerProofs` | theorems about `ChainRules` and `Ledger` | | |
| `ChainProofs` | theorems about `Chain` | | |
| `DurableStore` | what the chain expects of its store (abstract) | `log`, `sure`, `view`, `up`, `broken` | `Recover`, `Land`, `Acknowledge`, `Break`, `Swallow`, `Harden`, `Crash` |
| `Journal` | `internal/storage/storage.go` | `file`, `synced`, `store`, `offset`, ... | `Open`, `ReplayRecord`, `TruncateTail`, `ReplayDone`, `SaveBlock`, `SetTip`, `SaveStateCheckpoint`, `WriteCell`, `WriteError`, `Sync`, `SyncError`, `Flush`, `Crash` |
| `JournalProofs` | theorems about `Journal`, its refinement of `DurableStore` included | | |
| `V2Pool` | `internal/mempool/v2.go`, method by method | none | operators named as in the code |
| `PoolClients` | the pool under callers with any values (abstract) | `pool` | `AddAny`, `RemoveAny` |
| `PoolProofs` | theorems about `PoolClients` and `Node` | | |
| `Node` | `SubmitTransaction`, `acceptTx`, `acceptBlock`, `syncPeer`, `API.mine` around chain and pool | `known`, `active`, `reorg`, `pool`, `w` | `Submit`, `ReadNonce`, `ReadExpectedNonce`, `ReadBalance`, `AddToPool`, `AcceptBlock`, `CopyChain`, `RemoveConfirmed`, `TakeReorgCandidates`, `NextCandidate`, `SyncBlock`, `MineList`, `MineTip`, `MineSelect`, `MineAccept` |
| `PyRules` | `validators.py`, `consensus.py`, the miner's block, genesis | none | operators named as in the code |
| `PyLedger` | a Python chain growing under the rules | `ledger` | `AppendBlock` |
| `PyStore` | the chain tables of `storage.py` | none; operators on `db` | `save_block`, `load_chain`, `reorganize_from`, ... |
| `PyChain` | `Blockchain` in every process that opens the database | `db`, `chain`, `mempool`, `mined`, `adding`, `deltas`, `pc` | `Open`, `_create_and_persist_genesis_block`, `submit_transaction`, `start_mining`, `commit_mined`, `append_received`, `save`, `update_balances`, `replace_chain`, `Crash` |
| `PyChainProofs` | theorems about `PyChain` and `PyLedger` | | |
| `PyGossip` | propagation and synchronization between Python nodes | `tip`, `mempool`, `seen`, `backoff`, `tasks`, `handling`, `fetched` | `mine`, `submit`, `send_answered`, `send_failed`, `skip_peer`, `mark_block`, `accept_block`, `accept_transaction`, `reject`, `get_chain`, `call_failed`, `sync_with_peer`, `expire_backoff`, `Restart` |
| `PyGossipProofs` | theorems about `PyGossip` | | |
| `PyPeers` | registration and authentication at one Python node | `challenges`, `order`, `nonces`, `rows`, `credentials`, `job` | `register`, `write_row`, `mark_bootstrap`, `issue_challenge`, `issue`, `grow_old`, `verify`, `consume`, `authenticate_peer`, `verify_handshake_envelope_fails`, `authenticate_request`, `check_and_record`, `Restart` |
| `PyPeersProofs` | theorems about `PyPeers` | | |
| `DataLemmas` | induction, recursive functions, sums, powers and sequences for the proofs | | |
| `MC*` | instances for TLC | | |

Composition: `Chain`'s parameters are the rules of `ChainRules` (in `MCChain`); `Node` drives
`V2Pool`; `PyLedger`, `PyStore` and `PyChain` build on `PyRules`; `PyGossip` takes registry and
trust, whose growth `PyPeers` models, as constants, and validity, which `PyRules` models, as given.

### ChainRules and Ledger
A chain is a sequence of block records. Hash, proof of work, Merkle root and signatures are
the Booleans `pow`, `sealed` and `valid`: the verdict, not the bytes. Everything else is
computed: timestamps against median time past, parent and the V1/V2 step bound, retargeting
(the loops of `NextDifficulty` are the least or greatest level that ends them; the middle entry of the
sorted timestamps is the one with at most half of them before it and more than half not after it), issuance for
both money rules, nonces, overdraft, 64-bit overflow (`MaxWord`), one coinbase, repeated
identities. The incremental and the full rules are separate definitions, because the code has
separate functions; operators they share (`applyTransactions`) stand for loops that the code
repeats literally. Fractional and non-finite timestamps and addresses that do not parse are
refused by both rule sets with the same function and are part of `valid`. `Mine` models an
empty pool; the choice of transactions is in `Node`. The miner has its own copy of the retarget rule
(`nextDifficulty`, beside the validators' `requiredNextDifficulty`), as in the code.

### Chain
A block is its hash. Since a hash commits to its whole past, parent, ancestors, work and the
verdict of the full rules (`Full`) are functions of it. `Incr(s, b)` is
`validateIncrementalBlock`. `MCChain` defines both by instantiating `ChainRules` on real block
records, so in the runs they are the rules of the code; for the proofs they are parameters
under the assumption `RulesAgree`, the property that the ledger runs check.
`Accept` and the opening hold one mutex, so nothing interleaves with them but a crash or a
failed write: they are cut at every journal write and at every block of the two replay loops.
A write that returns an error leaves the old journal, the whole new record (its `Sync` failed) or
half of it, and the process goes on. `torn` is what a half-written record means for the next start:
it is discarded with everything behind it (`tail`), or a later record has filled the length it
announces and its checksum fails (`corrupt`, `OpenCorrupt`). What is written behind it changes the
maps in memory and not `disk`. `result` is the reason string of `Accept`, `acked` (history) the last
block it answered "best" to while the journal had no half-written record.

### Journal and DurableStore
The file is a sequence of cells; `<<r, i>>` is the i-th piece of record `r`. A header is two
cells and a payload a few, so a crash can cut a record in the header, between header and
payload, and in the payload. `synced` cells survive a loss of power; of the others a suffix may
be lost. A write may fail after any number of cells (`WriteError`); the process goes on and appends
behind them. The history variable `torn` says whether the file has such a record and whether
anything follows it, and `safe` is the part of the acknowledged records that was written without
one. `DurableStore` is the promise without bytes: acknowledged records survive, losses are
a suffix, a start sees exactly what survived; a write that fails halfway breaks the log (`Break`),
and what is acknowledged after that only the running process sees (`Swallow`).
`ImplementsDurableStore` is the refinement, with `log` mapped to the whole records in the file,
`sure` to those in its synced part and `broken` to `torn # "no"`.

### V2Pool, PoolClients and Node
Chain and pool have a mutex each, and no handler holds one across two calls. So one step of a
worker is one locked call, and what the worker read stays in its record `w[i]` until it is
used: between two steps other workers, a synchronization or the miner may move the chain and
the pool. `Chain.Accept` is one step here (its inside is module `Chain`); a block is the path of
payloads from genesis to it, all blocks have the same work, and rewards go to addresses that do
not spend. `confirmed`, `NextNonce` and `Balance` are functions of the active path. A mining
worker keeps the tip it read and the run of transactions it selected (`tip`, `run`); its block is
`minedBlock`. A
transaction stands for its id, since the id commits to every field, and only validly signed ones
are in `Txs`. Four variables are history. `reorged`: a best block has left the active branch.
`overlap`: a step was taken while another handler was at work, or a synchronization ran. `lost`: what
reorganizations took off the active chain, until its admission is tried, a block confirms it, or a
best block overwrites it in `reorg`. `stale`: pool entries that were confirmed when they came, or by a
block of a synchronization. `Node` uses the pool only through `Add`, `RemoveIDs`, `ExpectedNonce` and
`List`, so its pool steps are steps of `PoolClients`.

### PyRules, PyLedger
A transaction is the fields its hash covers, with a verdict for key and signature; a block is the
fields its hash covers, with `intact` for merkle root and hash and `zeros` for the proof of work.
`hash` is injective, so a chain of equal hashes is one chain. The fraction of the retarget is kept
exact by cross-multiplication, and each of its two loops is the first level that fails the loop's
condition. `replay_block` is one turn of `_state_from_chain`, with its order of checks: the coinbase
is paid before the transfers of the block.

### PyStore and PyChain
Each operator of `PyStore` is one SQL transaction; a taken primary key makes it impossible
(`can_save`, `can_reorganize`), which is the `StorageError` of the code. `PyChain` cuts an append at
every such transaction: `chain.append`, `save_block`, one step for each delta of `update_balances_for_block`, and
with the last one the removal from the mempool and the release of the lock. `start_mining` needs no
lock and may fall between any of them. `refused`, `torn` and `foreign` are history: an insertion was
refused, a process died with deltas left, the chain changed by somebody else's block. The retarget
window is written twice, once for the miner (`current_difficulty`) and once for the validator
(`expected_difficulty`), as in the code.

### PyGossip
A chain is the path of its blocks. A handler's reads before the lock (`receive`), the record in the
seen cache (`mark_block`) and what it does under the lock (`accept_block`, `accept_transaction`,
`reject`) are separate steps, because other handlers run in between; the answer to the sender and
the handling of the request are independent, so a call that times out may still be applied. A
download (`get_chain`) and its comparison (`sync_with_peer`) are two steps. A block carries the
transactions of its miner's mempool; `mine`, `accept_block` and `sync_with_peer` take confirmed ones
out of the mempool, and a reorganization brings none back. Admission asks the mempool and the
balance, not the chain; balances are the business of `PyChain`, so a node may refuse any transaction
(`reject`). `relayed` and `repeated` are history: what a node has begun to broadcast, without the
transactions that have left its mempool since, and what it has begun to broadcast again. The number of
failures of a peer, which only sets the length of its backoff, is left out: a backoff ends at some
time (`expire_backoff`).

### PyPeers
`job[w]` is what handler thread `w` has read and not yet acted upon. `ChallengeStore.issue` is cut
after its membership test, `verify_and_consume` after its comparison and after its first `pop`, the
registry after its cap test, `authenticate_peer` between its two tables, `check_and_record` between
test and record: these are the places where another thread can change what was read. A challenge is
numbered by the call that issued it; a captured answer may be presented at any later time, and
`uses` (history) counts how often it was accepted. An address has written forms, and
`normalize_address` maps each to one normal form: `credentials` is keyed by the form the peer wrote,
`rows` holds normal forms. `authenticate_request` takes requests that name an address and requests
that name none (`NoAddress`); the latter are asked for a signature and a fresh nonce, and not for a
credential. `named` (history) are the senders of accepted requests of the first kind.
`mark_bootstrap` writes the row of a configured peer without any look at the cap.

## 3. Runs

| run | question | result |
|---|---|---|
| `ledger_v3` | V3 with nonces, a genesis allocation and a clock that jumps: do both rule sets give one verdict and one state for every offered block, are coins conserved and nonces used once, does the chain accept what its miner builds | pass, 1,821 states |
| `chain_crash` | V3, two branches, a reorganization, an invalid block, a clock set back, two crashes anywhere and a failed write that may leave half a record: does every readable journal start, is the published state the replay, is acknowledged work kept, does only more work win, are transactions handed back | pass, 357,784 states |
| `chain_fair` | does the heaviest valid chain win in the end, which needs every `Accept` to return | pass, 308 states |
| `journal_recovery` | torn tails, losses of power, writes and syncs that fail at any cell while the process goes on: when does recovery succeed, which acknowledged records survive, refinement of `DurableStore` | pass, 667,118 states |
| `journal_torn` | is a discarded tail always incomplete, so that no acknowledged record goes with it | violated, see findings |
| `pool_races` | two handlers, synchronization, the miner and reorganizations: is the pool sound, does it replace nothing, has it no gap, does it lose only what is confirmed, does everything come back from a reorganization, and is nothing in an idle pool confirmed | pass, 524,884 states |
| `py_rules` | Python rules on quick and slow chains up to the supply cap: is money conserved, is the retarget bounded and monotone, can every admitted pool be mined | pass, 5,524 states |
| `py_chain` | a Python node with a miner outside the lock, peers' blocks and chains, two crashes: do tables, memory and wallet cache stay one valid chain, does stored work only grow | pass, 17,767 states |
| `py_mine_race` | does storage agree with memory whenever the lock is free | violated, see findings |
| `py_shared_db` | is what two processes store one valid chain | violated, see findings |
| `py_gossip` | two nodes, lost and late calls, backoff, a seen cache of one entry, a restart: is no block and no pending transaction relayed twice, does no chain get lighter, do the nodes agree in the end | pass, 447,802 states |
| `py_peers` | two threads, two remotes behind one address in two written forms, a bootstrap peer: how often is one challenge accepted, is their store bounded, do caps and trust hold, how often and from whom can one request be accepted | pass, 2,049,912 states |

V1 and V2 have no run of their own: the rules of V2 are those of V3 except the timestamp and the
miner, and V1 differs in money and timestamps only; `MCLedger` takes the version as a constant.
What is true only in part is stated with its exception in the property, and the exception is an
observation below: `Contiguous` and `RemovedAreConfirmed` until the first reorganization,
`ContiguousWhenIdle` for handlers that do not overlap, `NoConfirmedEntryWhenIdle` and
`LostAreCandidates` with the entries that the code loses sight of, `RecoveryNeverFatal` and
`AcknowledgedSurvives` with the half-written record, `SingleUse` with the number of threads.

Bounds. Ledger: four blocks above genesis are enough for two retargets (interval 2), a full
median window (3), the last full reward and the refusal after it (budget 7, reward 2), and
nonces 0 and 1; each offered block differs from a good one in one field. Chain: branch `a` is
short and heavy, branch `b` long, so that longer and heavier differ; checkpoints every second
block put checkpoints on both branches; two crashes allow a crash during the recovery from
the first; block times 1 to 8 with the clock at 0 or 10 and a future bound of 4 make the late
blocks of `b` admissible only while the clock is ahead. Node: two transfers of one nonce and
one of the next are the least that compete and leave a gap; peers extend any known block. Handlers
that do not overlap are followed while fewer than six blocks are known, up to height three: enough
for a losing branch of two and a winning one of three. Once handlers have overlapped, or a
synchronization has run, a behaviour is followed through three blocks beyond genesis and chains of
two (constraint `Bound` of `MCNode`): enough for a second block to meet a handler that read before
the first, and for a second best block before `TakeReorgCandidates`. The pool has two places for
three transactions, of which two compete; the handlers are interchangeable (`SYMMETRY`; the run has
no liveness property).
Journal: three records of different lengths, two crashes, any write failing at any cell. A cell
reaches the file whole, so a header is cut between its two cells and not inside them; a header cut
inside its length field may, in the code, also read as an incomplete tail, as a cut payload does.
Python: `py_rules` grows five blocks under a cap of 7 and a reward of 2, so that rewards are whole,
cut and refused, with delays below, at and far above the target around a retarget window of three.
`py_chain` has three blocks above genesis, enough for a fork at genesis and one at the block before
the tip, peers' chains of quick (heavy) and slow (light) blocks, and a crash during the recovery from
a crash. `py_gossip` lets one node make one item (a block or the transaction) and the other two, with a seen cache of one entry
(the second item evicts the first) and a chain limit that the longest possible chain just meets; the
bounds on backoffs and downloads at one time only keep the state space finite. `py_peers` has a
challenge store, a replay cache and a registry of one entry, which two remotes overfill, and two
challenges, so that one can be replaced while an older answer is under way; threads, remotes and
bystanders' addresses are interchangeable (`SYMMETRY`; the run has no liveness property). The parts of
the module meet only in `rows`, `credentials` and `proved`, so the constraint `Apart` of
`MCPyPeers` follows them in part separately: no requests beside rows of bystanders, at most one
accepted request beside a second challenge or after a restart.
`CHECK_DEADLOCK FALSE` except in the chain runs: the bounds on blocks, records, crashes, items and
challenges end the behaviour there.

Fairness. `chain_fair`: weak fairness of `Open` and `Process`: a started
process executes its code. Strong fairness of `AcceptBegin(b)`: gossip and the periodic
`syncPeer` of `maintain` offer a missing block again and again, in whatever moments the node
lets it in. Nothing is assumed of crashes, the clock, or `TakeReorgCandidates`.
`py_gossip`: weak fairness of comparing a download that has ended (the code after the call) and of
the end of a backoff (it is a time); strong fairness of `get_chain`: the maintenance loop calls every
eligible peer again in every round, and some call is answered. Nothing is assumed of broadcasts, so
every one may be lost.

### Findings
* `journal_torn`. `appendRecord` returns the error of a write that failed halfway and leaves the written
  part in the file. The next record is appended, synced and acknowledged behind it. The next start finds
  the end of the file inside the half-written record and `truncateTail` discards both. The comment at
  internal/storage/storage.go:84 says: "It is safe to discard that incomplete tail because no complete
  record follows it." When the records behind it fill the length it announces, the start is refused
  instead ("checksum mismatch"); `RecoveryNeverFatal` names that case.
* `py_mine_race`. A block is in the chain list before its transactions leave the mempool, and
  `mine_pending_transactions` reads both without the lock. A second mining request in between builds
  a block with the same transaction; validation has no rule against it, and `save_block` raises after
  the block was appended. Memory and database then differ until the process ends.
* `py_shared_db`. A process never reads the chain again after its start. A CLI command that mines
  beside a running server makes the server mine from an old tip; its next block is refused by the
  primary key, the one after it is stored on top of a block that is not.

### Observations
Met while modelling; each is reachable in the models when a bound or an exception is lifted.
* Go, V3 mining: `max(now, MTP + 1)` may be at or below the parent's timestamp, which
  `validateTimestampForProtocol` refuses; docs/protocol/V3_DECISIONS.md:17 and :49 know only the
  median rule. `MinerBuildsValidBlock` names the exception.
* Go, stranded block: after a crash (or a failed `SetTip`) between `SaveBlock` and `SetTip` the
  heaviest block is stored, not active, and every later offer of it is a "duplicate"; only a
  child block brings the node over.
* Go, overdrawn entry: nonce and balance are read before `V2Pool.Add` takes its lock. When a block
  confirms and `RemoveIDs` drops the entry that reserved the balance in between, `Add` admits an
  entry that the sender cannot pay; it is never evicted, and every block mined with it is refused.
* Go, lost transactions: every best block empties `reorgCandidates`, taken or not
  (internal/chain/chain.go:1027). A second best block, from another session or from `syncPeer`, before
  `TakeReorgCandidates` drops what the first took off the chain, although internal/chain/chain.go:1172
  says that this call "returns V2 transactions from the losing active branch". `LostAreCandidates`
  has it as the only exception. A full pool leaves a gap too: a candidate that finds no room is
  dropped and those of later nonces with it.
* Go, confirmed entries: `syncPeer` leaves the pool alone, and a block accepted between `acceptTx`'s
  question to the chain and its `Add` confirms an entry before it comes; both stay until a later best
  block is handled (`stale` in `NoConfirmedEntryWhenIdle`). Two handlers that overlap during a
  reorganization leave gaps (`overlap` in `ContiguousWhenIdle`).
* Go: an entry whose nonce another transaction has confirmed stays in the pool, and
  `selectV2Transactions` stops at it instead of passing over it.
* Go, repeated coinbase: the rules do not tie the timestamp of a coinbase to that of its block, and the
  identity of a coinbase is made of receiver, amount and timestamp; a coinbase dated ahead makes a later
  one of the same receiver a repetition (`OffersAreDated` in section 4; the offers of `MCLedger` are dated).
* Python, wallet cache: a crash between two balance deltas leaves cached balances that nothing
  recomputes (`torn` in `WalletsAreReplay`).
* Python, replay: validation does not look for confirmed transactions; a transfer that is submitted
  again is confirmed again as far as the balance goes, and only the primary key of the transactions
  table stops it, after the append in memory (`refused`).
* Python, challenge used twice: `verify_and_consume` compares and removes in two calls without a lock, so
  that threads which have all compared one challenge before the first of them removes it all accept
  it; blockchain/network/handshake.py:318 says "a challenge can only be used once" (also :189).
  `SingleUse` states the bound: once without overlap, at most once per thread with it.
* Python, challenge store: overlapping calls for one node id can leave a challenge without its entry
  in the order list, after which `issue` raises for that id and nothing evicts it, while
  blockchain/network/handshake.py:292 says "no unbounded growth is possible since the underlying store
  has a fixed capacity" (`overlapped` in `StoreBounded`); an expired challenge leaves its entry,
  which later evicts the fresh one; a challenge is consumed before the signature is checked, so that
  a wrong answer costs the right peer its challenge.
* Python, transaction relayed again: nothing in `submit_transaction` (blockchain/blockchain.py:157) asks the
  chain, and the route broadcasts without asking the seen cache (api/routes.py:204). A confirmed
  transaction that is submitted again, or comes from a peer after the cache has forgotten it, is
  accepted and broadcast again as far as the balance goes, while
  blockchain/network/propagation.py:20 says that a node "never reprocesses or rebroadcasts something
  it has already seen". `RelayedOnce` is about what stays true: blocks, and transactions that have
  not left the mempool.
* Python, trailing slash: `validate_peer_address` admits "http://host:1/"
  (blockchain/network/address_security.py:112). The credential of a peer that advertises it is stored
  under that form (api/network_routes.py:286, :310), its row under the normal form without the slash
  (blockchain/network/peer.py:150). Broadcasts ask `is_trusted_peer` with the address of the row and
  find no credential, so this peer authenticates and gets nothing. `TrustedIsKnown` compares normal
  forms.
* Python, request without an address: `from_peer` is optional (api/schemas.py:280, :288), and
  `authenticate_request` asks for a credential only when it is there. A signed request without it is
  accepted from a node that never answered a challenge, while api/network_routes.py:220 says that a
  registered peer "cannot propagate blocks/transactions [...] until it separately completes the
  challenge-response handshake". `AcceptedOncePerThread` says it of requests that name an address.
* Python, bootstrap rows: `_discover_bootstrap_peers` calls `mark_failure` and `mark_seen` whatever
  `register` answered (blockchain/network/node.py:105), and both write the row; the registry may exceed
  its cap by the configured bootstrap peers, which `UntrustedWithinCap` leaves out.
* Python, retarget: src/README.md:587 speaks of "Blocks between retarget evaluations", while
  `expected_difficulty` evaluates at every block over a sliding window.
* Python, untrusted peers: api/network_routes.py:222 says that a registered peer cannot be used as a
  sync target before the handshake; `sync_with_all_peers` and `discover_peers` call every registered
  address, and the adopted chain is validated like any other.
* Python, rate limiter: a new key may evict a peer that is at its limit, which then starts again with
  an empty window; several threads change the counters without a lock (not modelled).
* Python: `receive_block` passes no `max_supply_base_units`, so it uses the module's default whatever
  the settings are; the models have one cap.

## 4. Proofs

Every theorem holds for every value of the constants that satisfies the assumptions of the module
and the hypotheses the theorem states.

| theorem | says | hypotheses |
|---|---|---|
| `LedgerProofs`: `RestartAgrees`, `CoinsAreConserved`, `NothingSpentTwice` | `IncrementalAgreesWithReplay`, `Conservation`, `SpentOnce` of `Ledger`, for V1, V2 and V3 | `IsFiniteSet(Addresses)`, `OffersAreBlocks`, `ErrorIsNoState` |
| `LedgerProofs`: `MinerBuildsAcceptedBlock` | `MinerBuildsValidBlock` of `Ledger`, for V1, V2 and V3 and any clock | the same, and `OffersAreDated` |
| `ChainProofs`: `TypeCorrect`, `RestartSucceeds`, `PublishedState`, `NoRollback`, `ForkChoice`, `ReorgSafe` | `TypeOK`, `OpenNeverFails`, `PublishedStateIsReplay`, `AcknowledgedWorkIsKept`, `ActiveOnlyGainsWork`, `ReorgKeepsTransactions` of `Chain` | assumptions of `Chain` |
| `JournalProofs`: `RecoveryAlwaysSucceeds`, `NothingAcknowledgedIsLost`, `JournalImplementsDurableStore` | `RecoveryNeverFatal`, `AcknowledgedSurvives`, `ImplementsDurableStore`, with writes that fail at any cell | assumptions of `Journal` |
| `PoolProofs`: `PoolAlwaysSound`, `EntriesAreNotReplaced` | `PoolSound`, `NoReplacement` of the pool under any callers | assumption of `V2Pool` |
| `PoolProofs`: `NodePoolSound`, `NodeNeverReplaces` | `PoolSound`, `NoReplacement` of the pool inside the node | `OffersAreLists` |
| `PoolProofs`: `PoolHasNoGaps`, `OnlyConfirmedLeave` | `Contiguous`, `RemovedAreConfirmed`, any number of handlers, with mining and synchronization | `OffersAreLists` |
| `PoolProofs`: `NothingElseIsLost`, `IdlePoolIsUnconfirmed` | `LostAreCandidates`, `NoConfirmedEntryWhenIdle`, any number of handlers, with mining, synchronization and any forks | `OffersAreLists` |
| `PyChainProofs`: `TablesStayInStep` | `TablesAgree`, any number of processes | |
| `PyChainProofs`: `MemoryFollowsStorage`, `RestartLoadsValidChain`, `WorkOnlyGrows` | `MemoryIsStored`, `LoadedChainIsValid`, `StoredWorkGrows` | one process, `PeersSendLists` |
| `PyChainProofs`: `WalletsFollowReplay`, `PoolStaysAffordable` | `WalletsAreReplay`, `PoolAffordable` | one process, `IsFiniteSet(Addr)`, `PeersSendLists`, `PeersSendPayments`, `ClientsSendPayments` |
| `PyChainProofs`: `DifficultyMovesSlowly` | `RetargetBounded` | `OffersAreBlocks`, a factor of at most 32, a configured difficulty within its bounds |
| `PyChainProofs`: `LaterIsNotHarder` | `SlowerIsNeverHarder` | `OffersAreBlocks` |
| `PyChainProofs`: `MoneyIsConserved` | `Conservation` of `PyLedger` | `IsFiniteSet(Addr)`, `OffersAreBlocks`, `OffersHavePayments` |
| `PyChainProofs`: `AdmittedPoolIsMinable` | `AdmittedPoolMines` of `PyLedger`, for every chain, pool and miner | those of `MoneyIsConserved`, `WalletsSendTransfers`, `IsFiniteSet(Transfers)` |
| `PyGossipProofs`: `GossipTypeCorrect`, `NothingRelayedTwice`, `ChainsOnlyGainWork` | `TypeOK`, `RelayedOnce`, `WorkNeverLost` of `PyGossip` | |
| `PyPeersProofs`: `TrustedKnown`, `ChallengeSingleUse`, `UntrustedCapped`, `StoreKeepsCapacity`, `ReplaysAreBounded` | `TrustedIsKnown`, `SingleUse`, `UntrustedWithinCap`, `StoreBounded`, `AcceptedOncePerThread` | |

### Hypotheses and why the code justifies them
* `OffersAreBlocks`, `OffersHavePayments`, `PeersSendPayments`, `ClientsSendPayments`: what is offered
  to a chain of decoded blocks is a decoded block, with integer amounts and timestamps and, in Go,
  unsigned amounts and nonces and addresses that parse; what a client submits has an integer amount
  and timestamp. Both nodes decode before they validate. Nothing is assumed of indexes, hashes, proof
  of work, signatures, rewards, nonces or balances.
* `PeersSendLists`: the answer to `/network/chain` is parsed to a list of blocks; nothing on its content.
* `OffersAreDated`: the time that the identity of a coinbase is made of is not after the time of its
  block. The node's own miner makes them equal; the rules do not check it of others. It is needed: a
  coinbase dated ahead takes the identity of a later coinbase of the same amount to the same receiver,
  and the miner's block at that time is then refused as a repetition.
* `WalletsSendTransfers`: what is submitted to a pool has an integer amount and timestamp and is not a
  coinbase, which only a miner makes. A pool is finite (`IsFiniteSet(Transfers)`).
* `OffersAreLists`: a block that a peer sends of a known tree of blocks is a list, the path to it;
  nothing on its content.
* `IsFiniteSet` of the addresses: the sum of all balances is a sum over a map.
* `ErrorIsNoState`: an error result is not a snapshot.
* One process: with two the statements are false, which `py_shared_db` shows.
* A factor of at most 32: the code's default is 4, and the midpoint between two levels is a factor 4
  on either side, so a clamped timespan cannot cross two of them; `settings.py` allows larger
  factors, and there a step of two levels is possible.

### Arguments
**`ChainProofs`.** Assumptions: `TreeAssumption` (parents and ancestors of blocks form a tree below
genesis), `HeaderAssumption` (types of the parameters) and `RulesAgree`, which is what
`RestartAgrees` proves of the rules. `OpenNeverFails` is not inductive: a start fails if the journal
holds a tip without ancestors, a tip with an invalid chain, or a checkpoint with a wrong state. So
`StoreInv` says of the journal and of the maps in memory that stored blocks are valid and closed under
ancestors, the tip is stored, and checkpoints hold the state of the full rules. To keep it, a write
needs to know that the block at hand was validated on the right parent state (`JobInv`), which in
turn needs that snapshots and checkpoints, whichever branch or process made them, are states of the
full rules (`ActiveInv`). `MemInv` ties memory to the journal: a failed write may leave the journal
ahead of memory, and behind it only when it left half a record (`torn`); then `disk` stands still, which keeps `StoreInv` of it.
`ActiveInv` also carries that the journal's tip has at least the work
of every acknowledged block. One lemma per action shows that it keeps each part.

**`LedgerProofs`.** `LedgerInv`: the chain passes the full rules, their replay of it is the snapshot,
the books of the snapshot balance (`IsState`), and its issuance is what the coinbases of the chain
add up to. Agreement then is one step of the replay: both rule sets ask the same header questions of
the same prefix, and differ in where they take supply and issuance from, which the invariant makes
equal. Conservation follows transfer by transfer (`applyTransfer` debits and credits the same amount,
to oneself too) and coinbase by coinbase. `SpentInv` adds that identities are fresh and that the
nonces a sender has used are exactly those below its next one: without the second part, a used nonce
above the next one would be repeated later. For the miner, `TimeInv` adds that no timestamp of the
chain is after the last one and that no coinbase is dated after its block. The median of the window is
one of its timestamps (`MedianIs`), hence at most the parent's, and the coinbase, dated after the
parent, has an identity that the chain does not hold. The reward fits: no balance exceeds the supply,
and supply and reward together stay within the plan, so within the 64-bit word.

**`JournalProofs`.** `JInv` says that the file is laid out as a log of whole records with at most one
incomplete record behind them (`Layout`, with the function `e` of record ends), where the process is
in it (`Control`: replay stands at a record end with the store that the records before it give; as
long as no write has failed halfway (`Whole`) a write has put down `written` cells of its record and
nothing that is synced is cut; afterwards (`Torn`) the log ends before the end of the file, whatever
is behind it), and that the records in `safe` are embedded in the log below the synced end (`Kept`).
What is behind the incomplete record is arbitrary when `torn` is "inside", so nothing is claimed of
what a start makes of it but that the records in front are read. The refinement maps `log`
to the whole records in the file: a step that completes a record is `Land`, a step that ends a sync
is `Harden`, `Acknowledge` or `Swallow`, the first half-failed write is `Break`, a crash cuts a suffix
off, and all others leave the abstract store alone.

**`PoolProofs`.** The inductive invariant adds the types: a table of transactions by sender and nonce,
and a finite set of ids, without which the cardinality in the capacity bound means nothing.
For the node, `NodeInv` says that what each worker holds has its type (`LocalsOK`, `WorkersOK`), that
the pool is sound, and that every known block is `Settled`: a path the rules accept, whose confirmed
transactions have nonces below the sender's next one. The last part is induction over the blocks and
over the transactions of a block. `GrowingInv` says that `LinearInv` holds until the first
reorganization. `LinearInv` adds, for each worker, what makes its stale reads harmless (`InStep`): the
ids it copied are confirmed, the nonce it read is not above the chain's, and every nonce below the one
it expects is confirmed or pending. All of it is kept by every step that `Grows`: the chain is extended
and the pool gives up only what is confirmed, and both orders of the two reads of `acceptTx` then only
make the expected nonce too small. `HistoryInv` is for forks and overlapping handlers. Its part
`StaleInv`: a confirmed entry of the pool is in `stale`, or some handler is going to remove it, because
it has yet to copy the chain or has copied that id (`Covered`). Its part `LostInv`: what is in `lost`
is not confirmed, and a handler that has not taken the candidates yet carries none. The key lemma is
that a transaction of the old chain is below the fork point, so in the new chain, or among those that
`losing` collects above it.

**`PyChainProofs`.** Tables: `Agree` adds that the tables are a record of three tables and nothing
else. An insertion keeps it because `keys_free` compares the new rows with the stored ones and with
each other; a deletion by height because a row carries the index of its block; balances do not matter.
Memory: `OneInv` says that some valid chain `c` is exactly the stored rows and what memory is at each
place of the thread: `c`, or `c` with the block that is being saved. A mined block was assembled
outside the lock, so nothing is known of it; that the validation under the lock refuses it on any
other chain is what keeps the invariant. A reorganization keeps it because the fork index splits the
candidate into the stored prefix and the rows that are inserted. Retarget: `ShapeInv` (blocks with
natural difficulties); the loops of `next_difficulty` are least and greatest elements of sets of
levels, and both theorems come from the monotonicity of the clamp and of powers of 16. Money:
`MoneyInv`, in which the replay of the chain is `Settled`: balances add up to what was issued.
Wallets: `BookInv` carries `Books` of the stored chain: the balance of each address, as a sum over the
rows of the transactions table, is the cached balance with the deltas still to come. A saved block adds
as many rows as it queues deltas; a delta moves from the queue to the cache; a reorganization takes the
rows above the fork out of the sum and puts the new ones in, which needs that no transaction is stored
twice (`Distinct`, from the primary keys). Pool: `PoolInv` carries `Reserved`: what the pool spends is
covered by the balance of the stored chain, and everything in a block of the node's own, assembled
earlier and perhaps stale, is in the pool or confirmed. Such a block spends only what was reserved.
Mining a pool: a state that is `Solvent` can pay for a set of transfers; one transfer of the set,
whichever the miner's order puts first, leads to a state that is solvent for the rest, so the replay
of the whole block never refuses.

**`PyGossipProofs`.** `RelayedOnce` alone is not inductive: the seen cache forgets. `RelayedIsBehind`
says that every block a node has broadcast has at most the work of the tip, which never falls, even
when a reorganization has dropped the block, and that the transactions in `relayed` are in the
mempool; so the test under the lock refuses both.

**`PyPeersProofs`.** `KnownInv` adds the domain of `job` to `TrustedIsKnown`. `UseInv` has three parts.
`NumbersOK`: every number in the store or in a thread was issued, and for the remote it is used for;
numbers belong to one remote, so a late `pop` removes whatever the remote has in the store, and nothing
puts an old number back. `CountsOK`: a challenge in the store was never accepted, and the acceptances
of a number together with the threads that are comparing it do not exceed the threads. `AloneOK`: as
long as calls have not overlapped, one thread at a time is in the store, and the challenge it has
compared was not accepted before. `CapInv` counts the rows of peers without credential together with
the registrations that have passed the cap test and not written yet: this sum, unlike the number of
rows, does not grow past `max_peers` by more than the other threads; and a handler that is about to
write the row of an authenticated peer, or of a request that named its address, has a credential
behind it (`Credited`). `StoreInv` ties the dictionary to the order list and says
that, without overlap, a remote whose challenge is half consumed has none. `AcceptInv` counts the
acceptances of a nonce together with the threads that have found it new and not yet recorded it, and
says that who holds a credential has answered a challenge (`HoldersProved`).

**`DataLemmas`.** The provers do not instantiate induction theorems that take a predicate. Where
induction over data is needed, the set of numbers for which the claim holds is shown to contain 0 and
to be closed under successor (`NatSetInduction`, from well-foundedness of `<`), so the claims about
recursive functions on `0..n` (replay, chain work, record ends, sums, powers) are proved too.

### Only model-checked
* Liveness (`Convergence` of `chain_fair` and `py_gossip`) and `ENABLED`: out of the prover's reach.
* `ContiguousWhenIdle`: holds under the bounds of `pool_races`, not for every constant: a candidate
  that comes back from a reorganization and is refused for the balance of the new chain, or for want
  of room, leaves those of later nonces that stayed in the pool behind a gap.

## 5. Not modelled

Byte formats, hashes, signatures, addresses, HTTP parsing and presentation: conversions
without state, whose verdicts are parameters. The rate limiter, the address checks and the size
limits of the Python API only refuse calls, and a refused call is a failed call of `PyGossip`; the
limiter's own counters are not checked. Start and stop of the Python node set a status (the rows of
bootstrap discovery are in `PyPeers`). The migration of the legacy monetary schema runs once before the tables
are used. Of the Go node: sessions, connection limits, the V1 pool, `Start` and `Stop`.

## 6. Plan

Done so far: rules, chain manager, journal, V2 pool and node of Go; rules, chain, storage, gossip and
peers of Python. Left, in this order:

1. Go sessions and connections: request tracking with ids chosen by both ends, close against
   answer, handshake slots, peer caps, simultaneous dialling, reputation, token buckets, replay
   cache. Properties: an answer reaches its request, every slot is released, caps hold.
2. Rest of Go mempool and node: the V1 `Pool`, eviction (entries that stay for ever and block the
   miner), `Start` and `Stop` against running handlers.
3. Python rate limiter and lifecycle: counters under eviction, stop against the maintenance loop.
4. Proofs: `ContiguousWhenIdle` under a bound on reorganizations that makes it true, and the modules above.
