-------------------------------- MODULE Node --------------------------------
(***************************************************************************)
(* The goroutines of a node around its chain and its V2 pool: submission   *)
(* and gossip of transactions (Node.SubmitTransaction, Session.acceptTx),  *)
(* gossip of blocks (Session.acceptBlock), synchronization (syncPeer) and  *)
(* mining (API.mine).  Chain and pool each have a mutex, and no handler    *)
(* holds one across two calls: a step of a worker is one locked call, and  *)
(* everything a handler read is in its local state until it uses it.       *)
(*                                                                         *)
(* A block is the path of payloads from genesis to it, so its hash commits *)
(* to its past; genesis is the empty path.  All blocks have the same work, *)
(* and Chain.Accept is atomic (module Chain has what happens inside).      *)
(* Rewards go to addresses that do not spend.                              *)
(* The variable pool is that of PoolClients, with its properties.          *)
(***************************************************************************)
EXTENDS PoolClients, SequencesExt

CONSTANTS
    Workers,          \* goroutines of API requests and sessions
    Alloc,            \* balances at genesis
    Submissions,      \* transactions that wallets and peers send
    Offers(_, _),     \* Offers(known, active): the blocks peers may send
    SenderOrder,      \* the addresses, sorted
    ListLimit,        \* the 500 passed to List
    MaxHeight         \* bound: no mining starts at this height

ASSUME NodeAssumption ==
    /\ Alloc \in [Senders -> Nat]
    /\ Submissions \subseteq Txs
    /\ ToSet(SenderOrder) = Senders
    /\ ListLimit \in Nat /\ MaxHeight \in Nat

VARIABLES
    known,    \* Chain.blocks
    active,   \* Chain.active
    reorg,    \* Chain.reorgCandidates
    w,        \* w[i]: the local variables of worker i
    reorged,  \* history: a best block has left the active branch
    overlap,  \* history: a step was taken while another worker was at work
    lost,     \* history: taken off the active chain, not overwritten in reorg, not yet tried again
    stale     \* history: entries that were confirmed when they came, or by a block of a sync

vars == <<known, active, reorg, pool, w, reorged, overlap, lost, stale>>

-----------------------------------------------------------------------------
(* The chain, as its callers see it *)

Invalid == [balances |-> [s \in Senders |-> -1], nonces |-> [s \in Senders |-> 0]]

applyV2(s, tx) ==
    IF s = Invalid \/ tx.nonce # s.nonces[tx.sender] \/ tx.nonce = MaxWord \/ tx.amount > s.balances[tx.sender]
    THEN Invalid
    ELSE [balances |-> [[s.balances EXCEPT ![tx.sender] = @ - tx.amount] EXCEPT ![tx.receiver] = @ + tx.amount],
          nonces   |-> [s.nonces EXCEPT ![tx.sender] = @ + 1]]

applyBlock(s, txs) ==
    LET after[k \in 0..Len(txs)] == IF k = 0 THEN s ELSE applyV2(after[k - 1], txs[k])
    IN  after[Len(txs)]

stateOf(path) ==
    LET genesis == [balances |-> Alloc, nonces |-> [s \in Senders |-> 0]]
        state[k \in 0..Len(path)] == IF k = 0 THEN genesis ELSE applyBlock(state[k - 1], path[k].txs)
    IN  state[Len(path)]

confirmed(path) == UNION {ToSet(path[k].txs) : k \in DOMAIN path}

NextNonce(s) == stateOf(active).nonces[s]
Balance(s)   == stateOf(active).balances[s]

(* Mutant: only the transactions of the old tip. *)
losingAtTip(b) == IF Front(b) = active THEN <<>> ELSE Last(active).txs

(* Transactions of the active chain above the fork point with b's branch *)
losing(b) ==
    LET p      == Front(b)
        shared == {k \in 0..Len(active) : k <= Len(p) /\ SubSeq(active, 1, k) = SubSeq(p, 1, k)}
        fork   == Max(shared)
    IN  FlattenSeq([k \in 1..(Len(active) - fork) |-> active[fork + k].txs])

(* A new block on a known one, of valid transactions that its sender's nonces
   and balances allow *)
acceptable(b) ==
    /\ b \notin known
    /\ b # <<>> /\ Front(b) \in known
    /\ Last(b).txs \in Seq(Txs)
    /\ stateOf(b) # Invalid

(* Chain.Accept of an acceptable block: "best", or "fork" *)
Accept(b) ==
    /\ known' = known \cup {b}
    /\ IF Len(b) > Len(active)
       THEN /\ active' = b
            /\ reorg' = losing(b)
            /\ reorged' = (reorged \/ Front(b) # active)
            /\ lost' = ((lost \ ToSet(reorg)) \cup confirmed(active)) \ confirmed(b)
       ELSE UNCHANGED <<active, reorg, reorged, lost>>

chainVars == <<known, active, reorg, reorged>>

(* Entries that the chain of b confirms and no handler is going to remove *)
staleAfter(b, new) ==
    stale' = IF Len(b) > Len(active) THEN (stale \cup new) \cap confirmed(b) ELSE stale

-----------------------------------------------------------------------------
(* Worker state *)

Idle == [op |-> "none", pc |-> "idle", tx |-> None, next |-> None, bal |-> 0,
         ids |-> {}, cands |-> <<>>, txs |-> <<>>, tip |-> <<>>, run |-> <<>>, todo |-> <<>>]

at(i, pc) == w[i].pc = pc

goto(i, new) ==
    /\ w' = [w EXCEPT ![i] = new]
    /\ overlap' = (overlap \/ \E j \in Workers \ {i} : ~at(j, "idle"))

(* What follows an admission attempt, successful or not: the handler of a
   transaction returns, that of a block goes on with its next candidate. *)
afterAdmission(i) == IF w[i].op = "block" THEN [w[i] EXCEPT !.pc = "cand", !.tx = None, !.next = None, !.bal = 0] ELSE Idle

-----------------------------------------------------------------------------
(* SubmitTransaction and acceptTx; the candidates of acceptBlock take the same
   steps from ReadNonce on. *)

Submit(i, tx) ==
    /\ at(i, "idle")
    /\ tx \notin confirmed(active)
    /\ goto(i, [Idle EXCEPT !.op = "submit", !.pc = "nonce", !.tx = tx])
    /\ UNCHANGED <<chainVars, pool, lost, stale>>

ReadNonce(i) ==
    /\ at(i, "nonce")
    /\ goto(i, [w[i] EXCEPT !.pc = "expected", !.next = NextNonce(w[i].tx.sender)])
    /\ UNCHANGED <<chainVars, pool, lost, stale>>

ReadExpectedNonce(i) ==
    LET n == ExpectedNonce(pool, w[i].tx.sender, w[i].next)
    IN  /\ at(i, "expected")
        /\ goto(i, IF n = None THEN afterAdmission(i) ELSE [w[i] EXCEPT !.pc = "balance", !.next = n])
        /\ lost' = IF n = None THEN lost \ {w[i].tx} ELSE lost
        /\ UNCHANGED <<chainVars, pool, stale>>

ReadBalance(i) ==
    /\ at(i, "balance")
    /\ goto(i, [w[i] EXCEPT !.pc = "add", !.bal = Balance(w[i].tx.sender)])
    /\ UNCHANGED <<chainVars, pool, lost, stale>>

AddToPool(i) ==
    /\ at(i, "add")
    /\ pool' = Add(pool, w[i].tx, w[i].next, w[i].bal)
    /\ goto(i, afterAdmission(i))
    /\ lost' = lost \ {w[i].tx}
    /\ stale' = stale \cup ({w[i].tx} \cap confirmed(active))
    /\ UNCHANGED chainVars

-----------------------------------------------------------------------------
(* acceptBlock; a block that is not accepted, or only as a fork, leaves the
   pool alone. *)

AcceptBlock(i, b) ==
    /\ at(i, "idle")
    /\ acceptable(b)
    /\ Accept(b)
    /\ staleAfter(b, {})
    /\ goto(i, IF Len(b) > Len(active) THEN [Idle EXCEPT !.op = "block", !.pc = "copy"] ELSE Idle)
    /\ UNCHANGED pool

(* The block that worker i has mined *)
minedBlock(i) == Append(w[i].tip, [miner |-> "self", txs |-> w[i].run])

(* Mutant: the ids of the mined block and its past instead of the active chain's. *)
idsOfBlock(i) == confirmed(minedBlock(i))

activeIDs(i) == confirmed(active)

CopyChain(i) ==
    /\ at(i, "copy")
    /\ goto(i, [w[i] EXCEPT !.pc = "remove", !.ids = activeIDs(i), !.tip = <<>>, !.run = <<>>])
    /\ UNCHANGED <<chainVars, pool, lost, stale>>

RemoveConfirmed(i) ==
    /\ at(i, "remove")
    /\ pool' = RemoveIDs(pool, w[i].ids)
    /\ goto(i, IF w[i].op = "block" THEN [w[i] EXCEPT !.pc = "take", !.ids = {}] ELSE Idle)
    /\ stale' = stale \ w[i].ids
    /\ UNCHANGED <<chainVars, lost>>

TakeReorgCandidates(i) ==
    /\ at(i, "take")
    /\ goto(i, [w[i] EXCEPT !.pc = "cand", !.cands = reorg])
    /\ reorg' = <<>>
    /\ UNCHANGED <<known, active, reorged, pool, lost, stale>>

NextCandidate(i) ==
    LET c == w[i].cands
    IN  /\ at(i, "cand")
        /\ goto(i, IF c = <<>> THEN Idle
                   ELSE IF Head(c) \in confirmed(active) THEN [w[i] EXCEPT !.cands = Tail(c)]
                   ELSE [w[i] EXCEPT !.pc = "nonce", !.tx = Head(c), !.cands = Tail(c)])
        /\ UNCHANGED <<chainVars, pool, lost, stale>>

(* one block of a batch that syncPeer fetched *)
SyncBlock(b) ==
    /\ acceptable(b)
    /\ Accept(b)
    /\ staleAfter(b, pool.byID)
    /\ overlap' = TRUE
    /\ UNCHANGED <<pool, w>>

-----------------------------------------------------------------------------
(* API.mine *)

rank(s) == CHOOSE k \in DOMAIN SenderOrder : SenderOrder[k] = s

listed ==
    LET before(t, u) == rank(t.sender) < rank(u.sender) \/ (t.sender = u.sender /\ t.nonce < u.nonce)
        all == SetToSortSeq(pool.byID, before)
    IN  SubSeq(all, 1, Min({ListLimit, Len(all)}))

MineList(i) ==
    /\ at(i, "idle")
    /\ Len(active) < MaxHeight
    /\ goto(i, [Idle EXCEPT !.op = "mine", !.pc = "tip", !.txs = listed])
    /\ UNCHANGED <<chainVars, pool, lost, stale>>

MineTip(i) ==
    /\ at(i, "tip")
    /\ goto(i, [w[i] EXCEPT !.pc = "select", !.tip = active, !.todo = SenderOrder])
    /\ UNCHANGED <<chainVars, pool, lost, stale>>

(* The run of transactions of s that starts at nonce n, without a gap *)
runFrom(txs, s, n) ==
    LET mine == SelectSeq(txs, LAMBDA tx : tx.sender = s /\ tx.nonce >= n)
    IN  SelectSeq(mine, LAMBDA tx : \A m \in n..tx.nonce : \E u \in ToSet(mine) : u.nonce = m)

(* selectV2Transactions, which reads the confirmed nonce once per sender: an
   entry below it ends the run before it starts. *)
MineSelect(i) ==
    LET s    == Head(w[i].todo)
        mine == SelectSeq(w[i].txs, LAMBDA tx : tx.sender = s)
        n    == NextNonce(s)
        run  == IF mine = <<>> \/ mine[1].nonce # n THEN <<>> ELSE runFrom(w[i].txs, s, n)
    IN  /\ at(i, "select")
        /\ w[i].todo # <<>>
        /\ goto(i, [w[i] EXCEPT !.todo = Tail(w[i].todo), !.run = w[i].run \o run])
        /\ UNCHANGED <<chainVars, pool, lost, stale>>

(* Accept of the mined block; "best" and "fork" both go on. *)
MineAccept(i) ==
    LET b == minedBlock(i)
    IN  /\ at(i, "select")
        /\ w[i].todo = <<>>
        /\ IF acceptable(b)
           THEN Accept(b) /\ staleAfter(b, {}) /\ goto(i, [w[i] EXCEPT !.pc = "copy", !.txs = <<>>])
           ELSE goto(i, Idle) /\ UNCHANGED <<chainVars, lost, stale>>
        /\ UNCHANGED pool

-----------------------------------------------------------------------------
Init ==
    /\ known = {<<>>}
    /\ active = <<>>
    /\ reorg = <<>>
    /\ pool = EmptyPool
    /\ w = [i \in Workers |-> Idle]
    /\ reorged = FALSE
    /\ overlap = FALSE
    /\ lost = {}
    /\ stale = {}

Next ==
    \/ \E i \in Workers :
          \/ \E tx \in Submissions : Submit(i, tx)
          \/ ReadNonce(i) \/ ReadExpectedNonce(i) \/ ReadBalance(i) \/ AddToPool(i)
          \/ \E b \in Offers(known, active) : AcceptBlock(i, b)
          \/ CopyChain(i) \/ RemoveConfirmed(i) \/ TakeReorgCandidates(i) \/ NextCandidate(i)
          \/ MineList(i) \/ MineTip(i) \/ MineSelect(i) \/ MineAccept(i)
    \/ \E b \in Offers(known, active) : SyncBlock(b)

Spec == Init /\ [][Next]_vars

-----------------------------------------------------------------------------
(* The entries of a sender from its confirmed nonce on have no gap: a miner
   could take all of them (selectV2Transactions stops at the first gap). *)
noGap ==
    \A tx \in pool.byID : \A m \in NextNonce(tx.sender)..tx.nonce : pool.byNonce[tx.sender][m] # None

allIdle == \A i \in Workers : at(i, "idle")

(* While the active chain has only grown, the pool has no gap at any moment,
   although handlers, the miner and syncPeer interleave between the nonce that
   acceptTx reads and its Add. *)
Contiguous == ~reorged => noGap

(* After reorganizations of any depth it has none between two handlers, as long
   as they did not overlap: acceptBlock puts the candidates back in the order
   in which later nonces fit.  (Within a handler the reorganization has taken
   effect on the chain and not yet on the pool.) *)
ContiguousWhenIdle == ~overlap /\ allIdle => noGap

(* When all handlers of best blocks have ended, however they overlapped, the
   pool holds no confirmed entry but two kinds that no handler looks for: one
   confirmed between acceptTx's question to the chain and its Add, and one
   confirmed by a block of syncPeer, which leaves the pool alone. *)
NoConfirmedEntryWhenIdle == allIdle => pool.byID \cap confirmed(active) \subseteq stale

(* acceptBlock and API.mine take nothing out of the pool that the active chain
   does not confirm, although they copied the chain some steps earlier, as long
   as that chain has only grown. *)
RemovedAreConfirmed == [][~reorged => pool.byID \ pool'.byID \subseteq confirmed(active)]_vars

(* The handler of a block that worker i runs has taken t with TakeReorgCandidates
   and not yet tried to put it back into the pool. *)
carries(i, t) ==
    /\ w[i].op = "block"
    /\ t \in ToSet(w[i].cands) \/ (t = w[i].tx /\ w[i].pc \in {"nonce", "expected", "balance", "add"})

(* A transaction that reorganizations took off the active chain is among the
   candidates of the chain, or carried by one of the handlers that call
   TakeReorgCandidates, until its admission is tried or a block confirms it
   again; there is one other way out, a best block that overwrites candidates
   nobody has taken (chain.go assigns reorgCandidates for every best block). *)
LostAreCandidates == \A t \in lost : t \in ToSet(reorg) \/ \E i \in Workers : carries(i, t)
=============================================================================
