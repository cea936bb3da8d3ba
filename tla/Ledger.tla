------------------------------- MODULE Ledger -------------------------------
(***************************************************************************)
(* One branch of the block tree, grown block by block the way              *)
(* Chain.Accept grows it: an offered block is taken when the V3 ingress    *)
(* clock check and the incremental rules accept it, and the snapshot moves *)
(* to the state the incremental rules computed.  The miner                 *)
(* (node.mineNextWithClockSafety) builds blocks on the same branch.        *)
(* Storage, forks and crashes are the business of module Chain.            *)
(***************************************************************************)
EXTENDS ChainRules

CONSTANTS
    Offers(_),     \* the blocks that may be offered on top of a chain
    Clock,         \* the values the node's wall clock takes
    FutureBound,   \* protocol.V3FutureTimeBound
    SkewLimit,     \* protocol.V3MiningClockSkewLimit
    Sanity,        \* V3SoloBootstrapClockSanitySeconds
    Bootstrap,     \* V3SoloBootstrapMining
    NoPeers,       \* PeerMedian unavailable
    MaxHeight      \* bound: blocks above genesis

ASSUME LedgerAssumption ==
    /\ Clock \subseteq Nat
    /\ {FutureBound, SkewLimit, Sanity, MaxHeight} \subseteq Nat
    /\ Bootstrap \in BOOLEAN
    /\ NoPeers \notin Clock

VARIABLES
    chain,      \* the branch, genesis first
    snapshot,   \* statecommitment.Snapshot of its last block
    now         \* the wall clock, which may jump either way

vars == <<chain, snapshot, now>>

(* Its one transaction moves nothing and repeats no other's identity. *)
genesis == [index |-> 0, time |-> 0, difficulty |-> 0, txs |-> <<>>, sealed |-> TRUE, pow |-> TRUE]

-----------------------------------------------------------------------------
(* Chain.Accept, up to the point where the block is handed to the store. *)

validateV3IngressTimestamp(b) ==
    Version >= 3 => timestampValid(b.time, chain) /\ b.time <= now + FutureBound

Accept(b) ==
    /\ Len(chain) <= MaxHeight
    /\ validateV3IngressTimestamp(b)
    /\ validateIncrementalBlock(b, chain, snapshot) # Invalid
    /\ chain' = Append(chain, b)
    /\ snapshot' = validateIncrementalBlock(b, chain, snapshot)
    /\ UNCHANGED now

ClockMoves(t) ==
    /\ Version >= 3
    /\ now' = t
    /\ UNCHANGED <<chain, snapshot>>

-----------------------------------------------------------------------------
(* node.mineNextWithClockSafety.  peer is the peer median or NoPeers. *)

miningRefused(peer) ==
    LET mtp == medianTimePast(chain)
    IN  /\ Version >= 3
        /\ IF peer = NoPeers
           THEN ~Bootstrap \/ now < mtp \/ now > mtp + Sanity
           ELSE now - peer > SkewLimit \/ peer - now > SkewLimit

miningTimestamp ==
    IF Version >= 3 THEN Max({now, medianTimePast(chain) + 1}) ELSE Last(chain).time + 1

(* Mutant: no retarget at the start of an epoch. *)
keepDifficulty(prefix) == IF Last(prefix).index > 0 THEN Last(prefix).difficulty ELSE ConfigDifficulty

(* The miner's own copy of the retarget rule: the base and the epoch test are
   written a second time, over the same consensus.NextDifficulty. *)
nextDifficulty(prefix) ==
    LET base   == IF Len(prefix) > 0 /\ Last(prefix).index > 0 THEN Last(prefix).difficulty ELSE ConfigDifficulty
        recent == SubSeq(prefix, Len(prefix) - DifficultyInterval + 1, Len(prefix))
        retarget == Len(prefix) >= DifficultyInterval /\ Len(prefix) % DifficultyInterval = 0
    IN  IF retarget THEN NextDifficulty(recent) ELSE base

minedBlock(receiver, r) ==
    [index      |-> Last(chain).index + 1,
     time       |-> miningTimestamp,
     difficulty |-> nextDifficulty(chain),
     txs        |-> <<[id |-> <<receiver, r, miningTimestamp>>, sender |-> Coinbase, receiver |-> receiver,
                       amount |-> r, nonce |-> 0, valid |-> TRUE]>>,
     sealed     |-> TRUE,
     pow        |-> TRUE]

Mine(receiver, peer) ==
    LET r == reward(snapshot.miningIssued, snapshot.supply)
    IN  /\ ~miningRefused(peer)
        /\ r # 0
        /\ Accept(minedBlock(receiver, r))

-----------------------------------------------------------------------------
Init ==
    /\ chain = <<genesis>>
    /\ snapshot = genesisSnapshot
    /\ now \in Clock

Next ==
    \/ \E b \in Offers(chain) : Accept(b)
    \/ \E receiver \in Addresses, peer \in Clock \cup {NoPeers} : Mine(receiver, peer)
    \/ \E t \in Clock : ClockMoves(t)

Spec == Init /\ [][Next]_vars

-----------------------------------------------------------------------------
(* The two implementations of the rules agree: for every block offered on the
   chain, accepted or not, validateIncrementalBlock on the parent's snapshot
   (chain.go) and validateChain followed by replayState over the whole chain
   (v2.go, chain.go) give the same verdict and the same balances, nonces and
   supply.  Otherwise a node could accept a block that makes its next start
   fail, or start with other balances than it had. *)
IncrementalAgreesWithReplay ==
    \A b \in Offers(chain) :
        validateIncrementalBlock(b, chain, snapshot) = fullState(Append(chain, b))

(* Coins are moved, never made: the balances add up to the supply, the supply
   is the genesis allocation plus what coinbases issued, and issuance stays
   within the mining budget and the maximum supply, and no account is
   overdrawn, whatever transfers (to oneself included) the accepted blocks
   hold. *)
Conservation ==
    /\ \A a \in Addresses : snapshot.balances[a] >= 0
    /\ SumFunction(snapshot.balances) = snapshot.supply
    /\ snapshot.supply = snapshot.genesisSupply + miningIssuedFor(chain)
    /\ snapshot.supply <= MaxSupply
    /\ Phase7 => snapshot.miningIssued <= MiningBudget

(* Replay protection (V2_REPLAY_PROTECTION.md): on an accepted chain no
   transaction identity occurs twice, and under V2 rules the transfers of each
   sender carry the nonces 0, 1, 2, ... in chain order. *)
SpentOnce ==
    LET before(j, l, i, k) == j < i \/ (j = i /\ l < k)
        nonced(tx)         == Version >= 2 /\ ~isCoinbase(tx)
    IN  \A i \in DOMAIN chain : \A k \in DOMAIN chain[i].txs :
            LET tx == chain[i].txs[k]
            IN  /\ \A j \in DOMAIN chain : \A l \in DOMAIN chain[j].txs :
                       before(j, l, i, k) =>
                           /\ chain[j].txs[l].id # tx.id
                           /\ nonced(tx) /\ chain[j].txs[l].sender = tx.sender => chain[j].txs[l].nonce < tx.nonce
                /\ nonced(tx) => \A n \in 0..(tx.nonce - 1) :
                       \E j \in DOMAIN chain : \E l \in DOMAIN chain[j].txs :
                           chain[j].txs[l].sender = tx.sender /\ chain[j].txs[l].nonce = n

(* When the miner does not refuse to mine, the block it builds on the active
   chain passes the validation rules of that same chain: the reward, the
   difficulty and the timestamp that mineNextWithClockSafety picks are what
   validateIncrementalBlock asks for.  The exception named here is a V3 parent
   that is ahead of both the clock and MTP + 1: the miner does not look at the
   parent's timestamp, and its own chain refuses the block.  The identity of the
   coinbase is new as long as offered coinbases are not dated after their block. *)
MinerBuildsValidBlock ==
    \A peer \in Clock \cup {NoPeers}, receiver \in Addresses :
        LET r == reward(snapshot.miningIssued, snapshot.supply)
        IN  ~miningRefused(peer) /\ r # 0 /\ miningTimestamp > Last(chain).time
                => validateIncrementalBlock(minedBlock(receiver, r), chain, snapshot) # Invalid
=============================================================================
