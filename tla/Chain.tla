-------------------------------- MODULE Chain --------------------------------
(***************************************************************************)
(* internal/chain: the block graph of the Go node, its active chain, and   *)
(* the way both survive crashes and failed writes.                         *)
(*                                                                         *)
(* Chain.Accept and the opening of a chain run under one mutex, so no      *)
(* other goroutine sees them half done; a crash or a failed write does.    *)
(* They are therefore split where something can go wrong or is repeated:   *)
(* at every journal write, and at every block of the two replay loops      *)
(* (stateForParent, initializeIncrementalState).                           *)
(*                                                                         *)
(* A block is its hash.  A hash commits to the parent's hash, so parent,   *)
(* ancestors, header fields and the outcome of validating a block's whole  *)
(* chain are functions of the block.  The rules themselves are parameters: *)
(* Full is the outcome of the full rules, Incr one application of the      *)
(* incremental ones (module ChainRules has both in detail).                *)
(***************************************************************************)
EXTENDS Integers, FiniteSets

CONSTANTS
    Blocks, Genesis,
    Parent,        \* b.PreviousHash
    Anc,           \* Anc[b]: b and its ancestors
    Index, Time, Work,
    TimeOK,        \* TimeOK[b]: validateTimestampForProtocol accepts b on its parent
    Txs,           \* Txs[b]: identities of the non-coinbase transactions of b
    Full,          \* Full[b]: state after b by validateChain and replayState, or Invalid
    Incr(_, _),    \* Incr(s, b): validateIncrementalBlock of b on the parent state s
    Invalid, NoTip,
    Interval,      \* stateCheckpointInterval
    Version,       \* protocolVersion
    FutureBound,   \* protocol.V3FutureTimeBound
    Clock,         \* values of the wall clock
    MaxCrashes,    \* bound: crashes
    MaxFaults      \* bound: failed journal writes

ASSUME TreeAssumption ==
    /\ Genesis \in Blocks
    /\ NoTip \notin Blocks
    /\ Parent \in [Blocks -> Blocks]
    /\ Anc \in [Blocks -> SUBSET Blocks]
    /\ Anc[Genesis] = {Genesis}
    /\ \A b \in Blocks \ {Genesis} : Anc[b] = Anc[Parent[b]] \cup {b}
    /\ \A b \in Blocks : Genesis \in Anc[b]

ASSUME HeaderAssumption ==
    /\ Index \in [Blocks -> Nat]
    /\ Time \in [Blocks -> Nat]
    /\ Work \in [Blocks -> Nat]
    /\ TimeOK \in [Blocks -> BOOLEAN]
    /\ Interval \in Nat \ {0}
    /\ Version \in 1..3
    /\ FutureBound \in Nat
    /\ Clock \subseteq Nat /\ Clock # {}
    /\ MaxCrashes \in Nat /\ MaxFaults \in Nat

(* The incremental rules agree with the full ones; run ledger_* checks this
   of the code's two implementations. *)
ASSUME RulesAgree ==
    /\ DOMAIN Full = Blocks
    /\ Full[Genesis] # Invalid
    /\ \A b \in Blocks \ {Genesis} :
          Full[b] = IF Full[Parent[b]] = Invalid THEN Invalid ELSE Incr(Full[Parent[b]], b)

VARIABLES
    (* the journal, as a start of the process reads it *)
    disk,       \* [blocks, tip, ckpt]
    torn,       \* a half-written record: "no", "tail" (a start discards it and what follows), "corrupt" (a start refuses it)
    (* storage.Store: the maps of a running process *)
    mem,        \* [blocks, tip, ckpt]; mem.blocks is also the key set of Chain.blocks
    (* chain.Chain *)
    snaps,      \* stateSnapshots
    active,     \* activeTip; Chain.active is the chain that ends in it
    ledger,     \* balances, nonces, genesisSupply, miningIssued, supply
    root,       \* stateRoot
    confirmed,  \* confirmedTx
    reorg,      \* reorgCandidates
    now,        \* wall clock, which may jump either way
    (* control *)
    pc,
    job,        \* [block, stage, at, state]: the block at hand and the replay loop's position
    result,     \* reason returned by the last Accept
    (* history and bounds *)
    acked,      \* the last block for which Accept returned "best" with no half-written record in the journal
    crashes, faults

vars == <<disk, torn, mem, snaps, active, ledger, root, confirmed, reorg, now,
          pc, job, result, acked, crashes, faults>>

-----------------------------------------------------------------------------
Empty == [x \in {} |-> Invalid]
Put(f, x, v) == [y \in DOMAIN f \cup {x} |-> IF y = x THEN v ELSE f[y]]

NoStore == [blocks |-> {}, tip |-> NoTip, ckpt |-> Empty]
NoJob == [block |-> Genesis, stage |-> "none", at |-> Genesis, state |-> Invalid]

Pcs == {"down", "initBlock", "initTip", "check", "replay", "failed",
        "idle", "derive", "save", "ckpt", "tip"}

Reasons == {"none", "duplicate", "genesis", "unknown_ancestor", "invalid_ingress_time",
            "state", "invalid", "storage", "fork", "best"}

(* buildChain(b) succeeds *)
ancestryKnown(b) == b \in mem.blocks /\ Anc[b] \subseteq mem.blocks

atGenesis == {[at |-> Genesis, state |-> Full[Genesis]]}

deepest(S) == {x \in S : \A y \in S : Index[y] <= Index[x]}

(* Mutants: the checkpointed block is applied again; checkpoints are keyed by
   height instead of hash. *)
replayFromTooEarly(b) ==
    LET known == Anc[b] \cap DOMAIN mem.ckpt
    IN  IF known = {} THEN atGenesis ELSE {[at |-> Parent[x], state |-> mem.ckpt[x]] : x \in deepest(known)}

replayFromHeight(b) ==
    LET known == {x \in DOMAIN mem.ckpt : Index[x] <= Index[b]}
    IN  IF known = {} THEN atGenesis
        ELSE {[at |-> y, state |-> mem.ckpt[x]] : x \in deepest(known), y \in {z \in Anc[b] : \E x \in deepest(known) : Index[z] = Index[x]}}

(* Where the replay loops that lead to b start: at the nearest checkpoint among
   b and its ancestors, or at genesis with genesisSnapshot. *)
replayFrom(b) ==
    LET known == Anc[b] \cap DOMAIN mem.ckpt
    IN  IF known = {} THEN atGenesis ELSE {[at |-> x, state |-> mem.ckpt[x]] : x \in deepest(known)}

(* Mutants: the tip's state instead of the parent's; a tie moves the tip; the
   longer chain wins. *)
cachedStateOfTip(p) == snaps[active]
noLessWork(b) == Work[b] >= Work[active]
longer(b)     == Index[b] > Index[active]

cachedState(p) == snaps[p]
moreWork(b)    == Work[b] > Work[active]

(* Mutant: only the transactions of the old tip are handed back. *)
orphanedAtTip(b) == IF active = Parent[b] THEN {} ELSE Txs[active]

(* Transactions of the active blocks above the fork point with b's branch *)
orphaned(b) == UNION {Txs[x] : x \in Anc[active] \ Anc[Parent[b]]}

(* the replay loop after block x, which led to state s *)
advanced(x, s) == [job EXCEPT !.at = x, !.state = s]

effectiveTip(s) == IF s.tip = NoTip THEN Genesis ELSE s.tip

confirmedBy(b) == UNION {Txs[x] : x \in Anc[b]}

IngressTimeOK(b) == Version >= 3 => TimeOK[b] /\ Time[b] <= now + FutureBound

return(reason) ==
    /\ pc' = "idle"
    /\ job' = NoJob
    /\ result' = reason

-----------------------------------------------------------------------------
(* The journal writes of storage.Store.  A write that returns an error may
   leave no record, a complete one (the final Sync failed) or a part of one,
   and appendRecord does not cut the file back: no start reads what the process
   appends behind a half-written record (module Journal has the bytes). *)

(* Mutant: the first tip record wins. *)
firstTipSet(s, b) == [s EXCEPT !.tip = IF @ = NoTip THEN b ELSE @]

saved(s, b)           == [s EXCEPT !.blocks = @ \cup {b}]
tipSet(s, b)          == [s EXCEPT !.tip = b]
checkpointed(s, b, v) == [s EXCEPT !.ckpt = Put(@, b, v)]

appended(d) ==
    \/ torn = "no" /\ disk' = d /\ UNCHANGED torn
    \/ torn # "no" /\ UNCHANGED disk /\ torn' \in {torn, "corrupt"}

appendedHalf ==
    /\ UNCHANGED disk
    /\ \/ torn = "no" /\ torn' = "tail"
       \/ torn # "no" /\ torn' \in {torn, "corrupt"}

write(d, m) ==
    /\ appended(d)
    /\ mem' = m
    /\ UNCHANGED faults

writeFails(d) ==
    /\ faults < MaxFaults
    /\ faults' = faults + 1
    /\ appended(d) \/ appendedHalf \/ UNCHANGED <<disk, torn>>

(* The process ends; only the journal is left. *)
exit ==
    /\ pc' = "down"
    /\ mem' = NoStore
    /\ snaps' = Empty
    /\ active' = NoTip
    /\ ledger' = Invalid
    /\ root' = Invalid
    /\ confirmed' = {}
    /\ reorg' = {}
    /\ job' = NoJob
    /\ result' = "none"

-----------------------------------------------------------------------------
(* openWithProtocolAndClock *)

(* replay, which truncates an incomplete tail *)
OpenLoad ==
    /\ pc = "down"
    /\ torn # "corrupt"
    /\ torn' = "no"
    /\ mem' = disk
    /\ pc' = IF disk.blocks = {} THEN "initBlock" ELSE "check"
    /\ UNCHANGED <<disk, snaps, active, ledger, root, confirmed, reorg, now, job, result, acked, crashes, faults>>

(* "database corruption at offset" *)
OpenCorrupt ==
    /\ pc = "down"
    /\ torn = "corrupt"
    /\ pc' = "failed"
    /\ UNCHANGED <<disk, torn, mem, snaps, active, ledger, root, confirmed, reorg, now, job, result, acked, crashes, faults>>

OpenInitBlock ==
    /\ pc = "initBlock"
    /\ write(saved(disk, Genesis), saved(mem, Genesis))
    /\ pc' = "initTip"
    /\ UNCHANGED <<snaps, active, ledger, root, confirmed, reorg, now, job, result, acked, crashes>>

OpenInitTip ==
    /\ pc = "initTip"
    /\ write(tipSet(disk, Genesis), tipSet(mem, Genesis))
    /\ pc' = "check"
    /\ UNCHANGED <<snaps, active, ledger, root, confirmed, reorg, now, job, result, acked, crashes>>

(* Mutant: a start applies the ingress clock to the stored tip. *)
startsByClock(tip) ==
    Genesis \in mem.blocks /\ ancestryKnown(tip) /\ Full[tip] # Invalid /\ IngressTimeOK(tip)

(* validateChain and replayState accept the chain that ends in tip *)
starts(tip) == Genesis \in mem.blocks /\ ancestryKnown(tip) /\ Full[tip] # Invalid

OpenCheck ==
    LET tip == effectiveTip(mem)
    IN  /\ pc = "check"
        /\ \/ /\ ~starts(tip)
              /\ pc' = "failed"
              /\ UNCHANGED <<snaps, active, ledger, confirmed, job>>
           \/ /\ starts(tip)
              /\ active' = tip
              /\ ledger' = Full[tip]
              /\ confirmed' = confirmedBy(tip)
              /\ \E from \in replayFrom(tip) :
                    /\ snaps' = IF from.at = Genesis THEN Put(Empty, Genesis, from.state) ELSE Empty
                    /\ job' = [block |-> tip, stage |-> "open", at |-> from.at, state |-> from.state]
              /\ pc' = "replay"
        /\ UNCHANGED <<disk, torn, mem, root, reorg, now, result, acked, crashes, faults>>

(* one iteration of initializeIncrementalState *)
nextReplayed(x) == x \in Anc[active] \ {Genesis} /\ Parent[x] = job.at

OpenReplayStep ==
    /\ pc = "replay"
    /\ job.at # active
    /\ \E x \in Blocks :
          LET s == Incr(job.state, x)
          IN  /\ nextReplayed(x)
              /\ \/ /\ s = Invalid
                    /\ pc' = "failed"
                    /\ UNCHANGED <<disk, torn, mem, faults, job>>
                 \/ /\ s # Invalid
                    /\ IF Index[x] % Interval = 0
                       THEN write(checkpointed(disk, x, s), checkpointed(mem, x, s))
                       ELSE UNCHANGED <<disk, torn, mem, faults>>
                    /\ job' = advanced(x, s)
                    /\ UNCHANGED pc
    /\ UNCHANGED <<snaps, active, ledger, root, confirmed, reorg, now, result, acked, crashes>>

(* A write of the opening fails: Open returns the error and the process ends. *)
OpenWriteFails ==
    /\ \/ pc = "initBlock" /\ writeFails(saved(disk, Genesis))
       \/ pc = "initTip" /\ writeFails(tipSet(disk, Genesis))
       \/ /\ pc = "replay"
          /\ \E x \in Blocks :
                LET s == Incr(job.state, x)
                IN  /\ job.at # active
                    /\ nextReplayed(x)
                    /\ s # Invalid
                    /\ Index[x] % Interval = 0
                    /\ writeFails(checkpointed(disk, x, s))
    /\ exit
    /\ UNCHANGED <<now, acked, crashes>>

OpenDone ==
    /\ pc = "replay"
    /\ job.at = active
    /\ snaps' = Put(snaps, active, job.state)
    /\ root' = job.state
    /\ pc' = "idle"
    /\ job' = NoJob
    /\ UNCHANGED <<disk, torn, mem, active, ledger, confirmed, reorg, now, result, acked, crashes, faults>>

-----------------------------------------------------------------------------
(* Accept *)

(* Early returns that change nothing *)
AcceptRefused(b) ==
    /\ pc = "idle"
    /\ \/ b \in mem.blocks /\ return("duplicate")
       \/ b \notin mem.blocks /\ Index[b] = 0 /\ return("genesis")
       \/ b \notin mem.blocks /\ Index[b] # 0 /\ ~ancestryKnown(Parent[b]) /\ return("unknown_ancestor")
       \/ /\ b \notin mem.blocks
          /\ Index[b] # 0
          /\ ancestryKnown(Parent[b])
          /\ ~IngressTimeOK(b)
          /\ return("invalid_ingress_time")
    /\ UNCHANGED <<disk, torn, mem, snaps, active, ledger, root, confirmed, reorg, now, acked, crashes, faults>>

(* stateForParent: the cached snapshot of the parent, or a replay from the
   nearest checkpoint *)
stateForParent(b, stage) ==
    LET p == Parent[b]
        start(base, s) == job' = [block |-> b, stage |-> stage, at |-> base, state |-> s]
    IN  /\ pc' = "derive"
        /\ IF p \in DOMAIN snaps
           THEN start(p, cachedState(p))
           ELSE \E from \in replayFrom(p) : start(from.at, from.state)

AcceptBegin(b) ==
    /\ pc = "idle"
    /\ b \notin mem.blocks
    /\ Index[b] # 0
    /\ ancestryKnown(Parent[b])
    /\ IngressTimeOK(b)
    /\ stateForParent(b, "validate")
    /\ UNCHANGED <<disk, torn, mem, snaps, active, ledger, root, confirmed, reorg, now, result, acked, crashes, faults>>

(* one iteration of the loop of stateForParent *)
DeriveStep ==
    /\ pc = "derive"
    /\ job.at # Parent[job.block]
    /\ \E x \in Anc[Parent[job.block]] \ {Genesis} :
          /\ Parent[x] = job.at
          /\ LET s == Incr(job.state, x)
             IN  \/ s = Invalid /\ return("state") /\ UNCHANGED snaps
                 \/ /\ s # Invalid
                    /\ snaps' = Put(snaps, x, s)
                    /\ job' = advanced(x, s)
                    /\ UNCHANGED <<pc, result>>
    /\ UNCHANGED <<disk, torn, mem, active, ledger, root, confirmed, reorg, now, acked, crashes, faults>>

(* validateIncrementalBlock on the parent's state: the first time to decide
   whether to keep the block, the second to derive the winning state *)
Validate ==
    LET s == Incr(job.state, job.block)
    IN  /\ pc = "derive"
        /\ job.at = Parent[job.block]
        /\ \/ s = Invalid /\ return(IF job.stage = "validate" THEN "invalid" ELSE "state")
           \/ /\ s # Invalid
              /\ job.stage = "validate"
              /\ pc' = "save"
              /\ UNCHANGED <<job, result>>
           \/ /\ s # Invalid
              /\ job.stage = "win"
              /\ pc' = IF Index[job.block] % Interval = 0 THEN "ckpt" ELSE "tip"
              /\ job' = [job EXCEPT !.state = s]
              /\ UNCHANGED result
        /\ UNCHANGED <<disk, torn, mem, snaps, active, ledger, root, confirmed, reorg, now, acked, crashes, faults>>

SaveBlock ==
    LET b == job.block
    IN  /\ pc = "save"
        /\ \/ /\ write(saved(disk, b), saved(mem, b))
              /\ moreWork(b)
              /\ stateForParent(b, "win")
              /\ UNCHANGED result
           \/ /\ write(saved(disk, b), saved(mem, b))
              /\ ~moreWork(b)
              /\ return("fork")
           \/ writeFails(saved(disk, b)) /\ UNCHANGED mem /\ return("storage")
        /\ UNCHANGED <<snaps, active, ledger, root, confirmed, reorg, now, acked, crashes>>

SaveStateCheckpoint ==
    LET b == job.block
    IN  /\ pc = "ckpt"
        /\ \/ /\ write(checkpointed(disk, b, job.state), checkpointed(mem, b, job.state))
              /\ pc' = "tip"
              /\ UNCHANGED <<job, result>>
           \/ writeFails(checkpointed(disk, b, job.state)) /\ UNCHANGED mem /\ return("storage")
        /\ UNCHANGED <<snaps, active, ledger, root, confirmed, reorg, now, acked, crashes>>

(* SetTip and, once it is durable, the publication of the new active chain *)
SetTip ==
    LET b == job.block
    IN  /\ pc = "tip"
        /\ b \in mem.blocks
        /\ \/ /\ write(tipSet(disk, b), tipSet(mem, b))
              /\ reorg' = IF Version >= 2 THEN orphaned(b) ELSE reorg
              /\ active' = b
              /\ snaps' = Put(snaps, b, job.state)
              /\ root' = job.state
              /\ ledger' = job.state
              /\ confirmed' = confirmedBy(b)
              /\ acked' = IF torn = "no" THEN b ELSE acked
              /\ return("best")
           \/ /\ writeFails(tipSet(disk, b))
              /\ UNCHANGED mem
              /\ return("storage")
              /\ UNCHANGED <<snaps, active, ledger, root, confirmed, reorg, acked>>
        /\ UNCHANGED <<now, crashes>>

TakeReorgCandidates ==
    /\ pc = "idle"
    /\ reorg' = {}
    /\ UNCHANGED <<disk, torn, mem, snaps, active, ledger, root, confirmed, now, pc, job, result, acked, crashes, faults>>

-----------------------------------------------------------------------------
(* Environment *)

ClockMoves(t) ==
    /\ Version >= 3
    /\ now' = t
    /\ UNCHANGED <<disk, torn, mem, snaps, active, ledger, root, confirmed, reorg, pc, job, result, acked, crashes, faults>>

(* A crash, or the end of Node.Stop, between any two of the steps above. *)
Crash ==
    /\ pc # "down"
    /\ crashes < MaxCrashes
    /\ crashes' = crashes + 1
    /\ exit
    /\ UNCHANGED <<disk, torn, now, acked, faults>>

-----------------------------------------------------------------------------
Init ==
    /\ disk = NoStore
    /\ torn = "no"
    /\ mem = NoStore
    /\ snaps = Empty
    /\ active = NoTip
    /\ ledger = Invalid
    /\ root = Invalid
    /\ confirmed = {}
    /\ reorg = {}
    /\ now \in Clock
    /\ pc = "down"
    /\ job = NoJob
    /\ result = "none"
    /\ acked = Genesis
    /\ crashes = 0
    /\ faults = 0

Open == OpenLoad \/ OpenCorrupt \/ OpenInitBlock \/ OpenInitTip \/ OpenCheck \/ OpenReplayStep \/ OpenDone

Process == DeriveStep \/ Validate \/ SaveBlock \/ SaveStateCheckpoint \/ SetTip

Next ==
    \/ Open
    \/ OpenWriteFails
    \/ Process
    \/ \E b \in Blocks : AcceptRefused(b) \/ AcceptBegin(b)
    \/ TakeReorgCandidates
    \/ \E t \in Clock : ClockMoves(t)
    \/ Crash

Spec == Init /\ [][Next]_vars

(* A started process keeps running its code, and peers keep offering every
   block (gossip and the periodic sync of p2pnode re-send what a node lacks). *)
Fairness ==
    /\ WF_vars(Open)
    /\ WF_vars(Process)
    /\ \A b \in Blocks : SF_vars(AcceptBegin(b))

FairSpec == Spec /\ Fairness

-----------------------------------------------------------------------------
(* The inductive invariant behind the theorems of module ChainProofs. *)

running == pc \in {"idle", "derive", "save", "ckpt", "tip"}

(* What every start can rely on, and every write has to keep. *)
StoreInv(s) ==
    /\ \A b \in s.blocks : Anc[b] \subseteq s.blocks /\ Full[b] # Invalid
    /\ s.tip # NoTip => s.tip \in s.blocks
    /\ \A b \in DOMAIN s.ckpt : s.ckpt[b] = Full[b]

MemInv ==
    /\ torn = "no" => mem.blocks \subseteq disk.blocks
    /\ pc \in {"initBlock", "initTip", "check", "replay"} => torn = "no"
    /\ pc \in {"initBlock", "initTip", "check"} => mem = disk
    /\ pc = "initBlock" => mem.blocks = {}
    /\ pc = "initTip" => mem.tip = NoTip
    /\ pc \in {"initTip", "check"} => Genesis \in mem.blocks

ActiveInv ==
    /\ \A b \in DOMAIN snaps : snaps[b] = Full[b]
    /\ running \/ pc = "replay" =>
          /\ active \in mem.blocks
          /\ ledger = Full[active]
          /\ confirmed = confirmedBy(active)
          /\ Work[active] >= Work[acked]
    /\ running => root = Full[active]
    /\ Work[effectiveTip(disk)] >= Work[acked]

(* The block at hand: its ancestors are stored, and the replay loop holds the
   state of the ancestor it stands at. *)
JobInv ==
    /\ pc = "replay" => job.at \in Anc[active] /\ job.state = Full[job.at]
    /\ pc \in {"derive", "save", "ckpt", "tip"} =>
          /\ job.block # Genesis
          /\ Parent[job.block] \in mem.blocks
    /\ pc = "derive" =>
          /\ job.stage \in {"validate", "win"}
          /\ job.at \in Anc[Parent[job.block]]
          /\ job.state = Full[job.at]
          /\ job.stage = "win" => job.block \in mem.blocks /\ Work[job.block] > Work[active]
    /\ pc = "save" => Full[job.block] # Invalid
    /\ pc \in {"ckpt", "tip"} =>
          /\ job.block \in mem.blocks
          /\ job.state = Full[job.block]
          /\ Work[job.block] > Work[active]

-----------------------------------------------------------------------------
(* Properties *)

AllTxs == UNION {Txs[b] : b \in Blocks}

Snapshots == {Full[b] : b \in Blocks} \cup {Invalid}

StoreOK(s) ==
    /\ DOMAIN s = {"blocks", "tip", "ckpt"}
    /\ s.blocks \subseteq Blocks
    /\ s.tip \in Blocks \cup {NoTip}
    /\ DOMAIN s.ckpt \subseteq Blocks
    /\ \A b \in DOMAIN s.ckpt : s.ckpt[b] \in Snapshots

TypeOK ==
    /\ StoreOK(disk)
    /\ torn \in {"no", "tail", "corrupt"}
    /\ StoreOK(mem)
    /\ DOMAIN snaps \subseteq Blocks
    /\ \A b \in DOMAIN snaps : snaps[b] \in Snapshots
    /\ active \in Blocks \cup {NoTip}
    /\ ledger \in Snapshots
    /\ root \in Snapshots
    /\ confirmed \subseteq AllTxs
    /\ reorg \subseteq AllTxs
    /\ now \in Clock
    /\ pc \in Pcs
    /\ job \in [block : Blocks, stage : {"none", "open", "validate", "win"}, at : Blocks, state : Snapshots]
    /\ pc \in {"down", "initBlock", "initTip", "check", "idle"} => job = NoJob
    /\ result \in Reasons
    /\ acked \in Blocks
    /\ crashes \in 0..MaxCrashes
    /\ faults \in 0..MaxFaults

(* Whatever the crash point and whichever writes failed, the next start gets
   through unless a half-written record has made the journal unreadable:
   openWithProtocolAndClock never finds a stored tip without its ancestors, a
   tip whose chain its own full rules refuse, or a block that the incremental
   replay from a checkpoint refuses, not even when the records behind a
   half-written one are discarded. *)
OpenNeverFails == pc = "failed" => torn = "corrupt"

(* What the node publishes (balances, nonces, supply, state root, confirmed
   transactions) is what replaying the active chain from genesis gives,
   although it was computed from cached snapshots and durable checkpoints of
   whatever branches were followed before, in this process or an earlier one. *)
PublishedStateIsReplay ==
    running => /\ Full[active] # Invalid
               /\ ledger = Full[active]
               /\ root = ledger
               /\ confirmed = confirmedBy(active)

(* A chain acknowledged with "best" is never rolled back to less work: after any
   crash, restart and failed write the active chain has at least the work of
   every block Accept ever answered "best" to while the journal held no
   half-written record (run journal_torn shows what one costs). *)
AcknowledgedWorkIsKept == running => Work[active] >= Work[acked]

(* "Only a strictly higher-work valid branch becomes the active tip"
   (docs/phase6/NODE_ARCHITECTURE.md): a running node changes its active chain
   only to a valid one with strictly more work, so a tie keeps the first. *)
OnlyMoreWork == active' # active => Work[active'] > Work[active] /\ Full[active'] # Invalid
ActiveOnlyGainsWork == [][running /\ running' => OnlyMoreWork]_vars

(* Transactions that a reorganization takes off the active chain are handed to
   reorgCandidates by the same step, unless the winning branch confirms them
   too: none silently leaves the confirmed set. *)
ReorgKeepsTransactions ==
    [][running /\ running' /\ Version >= 2 => confirmed \ confirmed' \subseteq reorg']_vars

(* The invariant of the proof, checked here on the small instance. *)
IndInv ==
    /\ TypeOK
    /\ StoreInv(disk)
    /\ StoreInv(mem)
    /\ MemInv
    /\ ActiveInv
    /\ JobInv
    /\ OpenNeverFails

(* Fork choice converges: when peers keep offering every block, the active
   chain finally has the most work of all valid blocks ("active-chain selection
   by accumulated work", docs/phase6/NODE_ARCHITECTURE.md). *)
Convergence ==
    <>[](active # NoTip /\ \A b \in Blocks : Full[b] # Invalid => Work[b] <= Work[active])
=============================================================================
