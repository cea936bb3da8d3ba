----------------------------- MODULE ChainProofs -----------------------------
(***************************************************************************)
(* Proofs about module Chain, for every block tree, checkpoint interval,   *)
(* protocol version and number of crashes and failed writes.               *)
(*                                                                         *)
(* IndInv is shown inductive action by action.  Its core: every stored     *)
(* block has its ancestors stored and a valid chain (StoreInv), every      *)
(* cached or checkpointed state is the one the full rules give, and the    *)
(* replay loops carry the state of the block they stand at (JobInv).       *)
(***************************************************************************)
EXTENDS Chain, TLAPS

-----------------------------------------------------------------------------
(* Lemmas about the block tree and the rules *)

(* The hash links: a block's ancestors are itself and its parent's ancestors. *)
LEMMA Tree ==
    ASSUME NEW b \in Blocks
    PROVE  /\ b \in Anc[b]
           /\ Genesis \in Anc[b]
           /\ Anc[b] \subseteq Blocks
           /\ Parent[b] \in Blocks
           /\ b # Genesis => Anc[b] = Anc[Parent[b]] \cup {b}
           /\ b # NoTip
  BY TreeAssumption

(* One incremental step from the parent's state leads to the block's state. *)
LEMMA Step ==
    ASSUME NEW b \in Blocks, b # Genesis, Full[Parent[b]] # Invalid
    PROVE  Incr(Full[Parent[b]], b) = Full[b]
  BY RulesAgree

LEMMA SnapshotsOK ==
    ASSUME NEW b \in Blocks
    PROVE  Full[b] \in Snapshots /\ Invalid \in Snapshots
  BY DEF Snapshots

LEMMA TxsOK ==
    ASSUME NEW b \in Blocks
    PROVE  confirmedBy(b) \subseteq AllTxs
  BY Tree DEF confirmedBy, AllTxs

LEMMA PutDef ==
    ASSUME NEW f, NEW x, NEW v
    PROVE  /\ DOMAIN Put(f, x, v) = DOMAIN f \cup {x}
           /\ Put(f, x, v)[x] = v
           /\ \A y \in DOMAIN f : y # x => Put(f, x, v)[y] = f[y]
  BY DEF Put

(* The replay loops start at an ancestor of b, with the state of that ancestor. *)
LEMMA ReplayFrom ==
    ASSUME NEW b \in Blocks, NEW from \in replayFrom(b), StoreInv(mem)
    PROVE  from.at \in Anc[b] /\ from.state = Full[from.at]
  <1>1. CASE Anc[b] \cap DOMAIN mem.ckpt = {}
    BY <1>1, Tree DEF replayFrom, atGenesis
  <1>2. CASE Anc[b] \cap DOMAIN mem.ckpt # {}
    BY <1>2 DEF replayFrom, StoreInv, deepest
  <1> QED  BY <1>1, <1>2

-----------------------------------------------------------------------------
(* Lemmas about the journal writes: each keeps a store good under the condition
   that the code establishes before it writes. *)

LEMMA Saved ==
    ASSUME NEW s, StoreOK(s), StoreInv(s),
           NEW b \in Blocks, Anc[b] \subseteq s.blocks \cup {b}, Full[b] # Invalid
    PROVE  /\ StoreOK(saved(s, b)) /\ StoreInv(saved(s, b))
           /\ saved(s, b).blocks = s.blocks \cup {b}
           /\ saved(s, b).tip = s.tip
           /\ saved(s, b).ckpt = s.ckpt
  <1>1. /\ saved(s, b).blocks = s.blocks \cup {b}
        /\ saved(s, b).tip = s.tip
        /\ saved(s, b).ckpt = s.ckpt
        /\ DOMAIN saved(s, b) = DOMAIN s
    BY DEF saved, StoreOK
  <1>2. StoreOK(saved(s, b))
    BY <1>1 DEF StoreOK
  <1>3. StoreInv(saved(s, b))
    BY <1>1 DEF StoreInv, StoreOK
  <1> QED  BY <1>1, <1>2, <1>3

LEMMA TipSet ==
    ASSUME NEW s, StoreOK(s), StoreInv(s), NEW b \in s.blocks
    PROVE  /\ StoreOK(tipSet(s, b)) /\ StoreInv(tipSet(s, b))
           /\ tipSet(s, b).blocks = s.blocks
           /\ tipSet(s, b).tip = b
           /\ tipSet(s, b).ckpt = s.ckpt
  <1>1. /\ tipSet(s, b).blocks = s.blocks
        /\ tipSet(s, b).tip = b
        /\ tipSet(s, b).ckpt = s.ckpt
        /\ DOMAIN tipSet(s, b) = DOMAIN s
    BY DEF tipSet, StoreOK
  <1>2. StoreOK(tipSet(s, b))
    BY <1>1 DEF StoreOK
  <1>3. StoreInv(tipSet(s, b))
    BY <1>1 DEF StoreInv, StoreOK
  <1> QED  BY <1>1, <1>2, <1>3

LEMMA Checkpointed ==
    ASSUME NEW s, StoreOK(s), StoreInv(s), NEW b \in Blocks
    PROVE  /\ StoreOK(checkpointed(s, b, Full[b])) /\ StoreInv(checkpointed(s, b, Full[b]))
           /\ checkpointed(s, b, Full[b]).blocks = s.blocks
           /\ checkpointed(s, b, Full[b]).tip = s.tip
  <1> DEFINE c == checkpointed(s, b, Full[b])
  <1>1. /\ c.blocks = s.blocks
        /\ c.tip = s.tip
        /\ c.ckpt = Put(s.ckpt, b, Full[b])
        /\ DOMAIN c = DOMAIN s
    BY DEF checkpointed, StoreOK
  <1> HIDE DEF c
  <1>2. /\ DOMAIN c.ckpt = DOMAIN s.ckpt \cup {b}
        /\ \A y \in DOMAIN c.ckpt : c.ckpt[y] = Full[y]
    BY <1>1 DEF StoreInv, Put
  <1>3. StoreOK(c)
    BY <1>1, <1>2, SnapshotsOK DEF StoreOK
  <1>4. StoreInv(c)
    BY <1>1, <1>2 DEF StoreInv, StoreOK
  <1> QED  BY <1>1, <1>3, <1>4 DEF c

Torn == {"no", "tail", "corrupt"}

(* What a start reads after a write, and after one that failed. *)
LEMMA Appended ==
    ASSUME NEW d, torn \in Torn, appended(d)
    PROVE  disk' \in {disk, d} /\ torn' \in Torn /\ (torn' = "no" => torn = "no" /\ disk' = d)
  BY DEF appended, Torn

LEMMA WriteFailed ==
    ASSUME NEW d, torn \in Torn, faults \in 0..MaxFaults, writeFails(d)
    PROVE  disk' \in {disk, d} /\ torn' \in Torn /\ (torn' = "no" => torn = "no") /\ faults' \in 0..MaxFaults
  BY HeaderAssumption DEF writeFails, appended, appendedHalf, Torn

-----------------------------------------------------------------------------
(* Initial states, stuttering, and the actions of the opening *)

LEMMA EmptyStore == StoreOK(NoStore) /\ StoreInv(NoStore)
  BY DEF StoreOK, StoreInv, NoStore, Empty

LEMMA JobTypeOK == NoJob \in [block : Blocks, stage : {"none", "open", "validate", "win"}, at : Blocks, state : Snapshots]
  BY TreeAssumption, SnapshotsOK DEF NoJob

LEMMA InitInd == Init => IndInv
  <1> SUFFICES ASSUME Init PROVE IndInv
    OBVIOUS
  <1>1. TypeOK
    BY EmptyStore, JobTypeOK, TreeAssumption, HeaderAssumption, SnapshotsOK DEF Init, TypeOK, Empty, Pcs, Reasons
  <1>2. StoreInv(disk) /\ StoreInv(mem) /\ MemInv /\ JobInv /\ OpenNeverFails
    BY EmptyStore DEF Init, MemInv, JobInv, OpenNeverFails
  <1>3. ActiveInv
    BY TreeAssumption, HeaderAssumption DEF Init, ActiveInv, NoStore, Empty, running, effectiveTip
  <1> QED  BY <1>1, <1>2, <1>3 DEF IndInv

LEMMA StutterInd == IndInv /\ UNCHANGED vars => IndInv'
  BY DEF vars, IndInv, TypeOK, StoreOK, StoreInv, MemInv, ActiveInv, JobInv, OpenNeverFails, running

LEMMA OpenLoadInd == IndInv /\ OpenLoad => IndInv'
  <1> SUFFICES ASSUME IndInv, OpenLoad PROVE IndInv'
    OBVIOUS
  <1> USE DEF IndInv, OpenLoad
  <1>1. TypeOK'
    BY DEF TypeOK, StoreOK, Pcs
  <1>2. StoreInv(disk)' /\ StoreInv(mem)'
    BY DEF StoreInv
  <1>3. MemInv'
    BY Tree DEF MemInv, TypeOK, StoreOK, StoreInv
  <1>4. ActiveInv'
    BY DEF ActiveInv, running, effectiveTip
  <1>5. JobInv' /\ OpenNeverFails'
    BY DEF JobInv, OpenNeverFails
  <1> QED  BY <1>1, <1>2, <1>3, <1>4, <1>5

LEMMA OpenCorruptInd == IndInv /\ OpenCorrupt => IndInv'
  BY DEF OpenCorrupt, IndInv, TypeOK, StoreOK, StoreInv, MemInv, ActiveInv, JobInv, OpenNeverFails, running,
         effectiveTip, Pcs

LEMMA OpenInitBlockInd == IndInv /\ OpenInitBlock => IndInv'
  <1> SUFFICES ASSUME IndInv, OpenInitBlock PROVE IndInv'
    OBVIOUS
  <1> USE DEF IndInv, OpenInitBlock, write, appended
  <1>0. /\ torn = "no" /\ disk = mem /\ Genesis \in Blocks /\ Full[Genesis] # Invalid
        /\ Anc[Genesis] \subseteq disk.blocks \cup {Genesis}
        /\ StoreOK(disk)
    BY TreeAssumption, RulesAgree DEF MemInv, TypeOK
  <1>a. /\ StoreOK(disk') /\ StoreInv(disk') /\ mem' = disk'
        /\ disk'.blocks = disk.blocks \cup {Genesis} /\ disk'.tip = disk.tip
    BY <1>0, Saved
  <1>1. TypeOK'
    BY <1>0, <1>a DEF TypeOK, StoreOK, Pcs
  <1>2. StoreInv(disk)' /\ StoreInv(mem)'
    BY <1>a DEF StoreInv
  <1>3. MemInv'
    BY <1>0, <1>a DEF MemInv, StoreInv
  <1>4. ActiveInv'
    BY <1>a DEF ActiveInv, running, effectiveTip
  <1>5. JobInv' /\ OpenNeverFails'
    BY DEF JobInv, OpenNeverFails
  <1> QED  BY <1>1, <1>2, <1>3, <1>4, <1>5

LEMMA OpenInitTipInd == IndInv /\ OpenInitTip => IndInv'
  <1> SUFFICES ASSUME IndInv, OpenInitTip PROVE IndInv'
    OBVIOUS
  <1> USE DEF IndInv, OpenInitTip, write, appended
  <1>0. torn = "no" /\ disk = mem /\ disk.tip = NoTip /\ Genesis \in disk.blocks /\ StoreOK(disk) /\ Genesis \in Blocks
    BY TreeAssumption DEF MemInv, TypeOK
  <1>a. /\ StoreOK(disk') /\ StoreInv(disk') /\ mem' = disk'
        /\ disk'.blocks = disk.blocks /\ disk'.tip = Genesis
    BY <1>0, TipSet
  <1>1. TypeOK'
    BY <1>0, <1>a DEF TypeOK, StoreOK, Pcs
  <1>2. StoreInv(disk)' /\ StoreInv(mem)'
    BY <1>a DEF StoreInv
  <1>3. MemInv'
    BY <1>0, <1>a DEF MemInv
  <1>4. ActiveInv'
    BY <1>0, <1>a DEF ActiveInv, running, effectiveTip
  <1>5. JobInv' /\ OpenNeverFails'
    BY DEF JobInv, OpenNeverFails
  <1> QED  BY <1>1, <1>2, <1>3, <1>4, <1>5

(* The tip a start finds is stored with its ancestors and has a valid chain. *)
LEMMA StoredTip ==
    ASSUME IndInv, pc = "check"
    PROVE  /\ effectiveTip(mem) \in mem.blocks
           /\ effectiveTip(mem) \in Blocks
           /\ starts(effectiveTip(mem))
           /\ Work[effectiveTip(mem)] >= Work[acked]
  <1>1. effectiveTip(mem) \in mem.blocks /\ Genesis \in mem.blocks
    BY DEF IndInv, MemInv, StoreInv, effectiveTip
  <1>2. effectiveTip(mem) \in Blocks
    BY <1>1 DEF IndInv, TypeOK, StoreOK
  <1>3. starts(effectiveTip(mem))
    BY <1>1 DEF IndInv, StoreInv, starts, ancestryKnown
  <1>4. Work[effectiveTip(mem)] >= Work[acked]
    BY DEF IndInv, MemInv, ActiveInv
  <1> QED  BY <1>1, <1>2, <1>3, <1>4

LEMMA OpenCheckInd == IndInv /\ OpenCheck => IndInv'
  <1> SUFFICES ASSUME IndInv, OpenCheck PROVE IndInv'
    OBVIOUS
  <1> DEFINE tip == effectiveTip(mem)
  <1>0. tip \in mem.blocks /\ tip \in Blocks /\ starts(tip) /\ Work[tip] >= Work[acked]
    BY StoredTip DEF OpenCheck
  <1>a. PICK from \in replayFrom(tip) :
          /\ snaps' = IF from.at = Genesis THEN Put(Empty, Genesis, from.state) ELSE Empty
          /\ job' = [block |-> tip, stage |-> "open", at |-> from.at, state |-> from.state]
    BY <1>0 DEF OpenCheck
  <1>b. /\ active' = tip /\ ledger' = Full[tip] /\ confirmed' = confirmedBy(tip) /\ pc' = "replay"
        /\ UNCHANGED <<disk, torn, mem, root, reorg, now, result, acked, crashes, faults>>
    BY <1>0 DEF OpenCheck
  <1> HIDE DEF tip
  <1>c. from.at \in Anc[tip] /\ from.state = Full[from.at] /\ from.at \in Blocks
    BY <1>0, ReplayFrom, Tree DEF IndInv
  <1>d. \A b \in DOMAIN snaps' : b = Genesis /\ snaps'[b] = Full[b]
    BY <1>a, <1>c DEF Put, Empty
  <1> USE DEF IndInv
  <1>1. TypeOK'
    <2>1. job' \in [block : Blocks, stage : {"none", "open", "validate", "win"}, at : Blocks, state : Snapshots]
      BY <1>0, <1>a, <1>c, SnapshotsOK
    <2> QED  BY <1>0, <1>b, <1>d, <2>1, SnapshotsOK, TxsOK, TreeAssumption DEF TypeOK, StoreOK, Pcs
  <1>2. StoreInv(disk)' /\ StoreInv(mem)'
    BY <1>b DEF StoreInv
  <1>3. MemInv'
    BY <1>b DEF MemInv, OpenCheck
  <1>4. ActiveInv'
    BY <1>0, <1>b, <1>d DEF ActiveInv, running, effectiveTip, confirmedBy
  <1>5. JobInv'
    BY <1>a, <1>b, <1>c DEF JobInv
  <1>6. OpenNeverFails'
    BY <1>b DEF OpenNeverFails
  <1> QED  BY <1>1, <1>2, <1>3, <1>4, <1>5, <1>6

(* The block the opening replays next is stored, and its state is the full one. *)
LEMMA ReplayedBlock ==
    ASSUME IndInv, pc = "replay", NEW x \in Blocks, nextReplayed(x)
    PROVE  x \in Anc[active] /\ Full[x] # Invalid /\ Incr(job.state, x) = Full[x]
  <1>1. active \in mem.blocks /\ job.at \in Anc[active] /\ job.state = Full[job.at]
    BY DEF IndInv, ActiveInv, JobInv
  <1>2. \A y \in Anc[active] : Full[y] # Invalid
    BY <1>1 DEF IndInv, StoreInv
  <1> QED  BY <1>1, <1>2, Step DEF nextReplayed

LEMMA OpenReplayStepInd == IndInv /\ OpenReplayStep => IndInv'
  <1> SUFFICES ASSUME IndInv, OpenReplayStep PROVE IndInv'
    OBVIOUS
  <1> USE DEF IndInv
  <1>0. pc = "replay" /\ torn = "no" /\ StoreOK(disk) /\ StoreOK(mem)
    BY DEF OpenReplayStep, TypeOK, MemInv
  <1>a. PICK x \in Blocks :
          /\ nextReplayed(x)
          /\ job' = [job EXCEPT !.at = x, !.state = Full[x]]
          /\ IF Index[x] % Interval = 0
             THEN disk' = checkpointed(disk, x, Full[x]) /\ mem' = checkpointed(mem, x, Full[x]) /\ UNCHANGED faults
             ELSE UNCHANGED <<disk, torn, mem, faults>>
          /\ pc' = "replay"
    BY <1>0, ReplayedBlock DEF OpenReplayStep, write, appended, advanced
  <1>b. x \in Anc[active] /\ UNCHANGED <<torn, snaps, active, ledger, root, confirmed, reorg, now, result, acked, crashes, faults>>
    BY <1>0, <1>a, ReplayedBlock DEF OpenReplayStep, write, appended
  <1>c. /\ StoreOK(disk') /\ StoreInv(disk') /\ StoreOK(mem') /\ StoreInv(mem')
        /\ disk'.blocks = disk.blocks /\ disk'.tip = disk.tip /\ mem'.blocks = mem.blocks
    BY <1>0, <1>a, Checkpointed
  <1>1. TypeOK'
    <2>1. job' \in [block : Blocks, stage : {"none", "open", "validate", "win"}, at : Blocks, state : Snapshots]
      BY <1>a, SnapshotsOK DEF TypeOK
    <2> QED  BY <1>a, <1>b, <1>c, <2>1 DEF TypeOK, StoreOK, Pcs
  <1>2. StoreInv(disk)' /\ StoreInv(mem)'
    BY <1>c DEF StoreInv
  <1>3. MemInv'
    BY <1>0, <1>a, <1>b, <1>c DEF MemInv
  <1>4. ActiveInv'
    BY <1>0, <1>a, <1>b, <1>c DEF ActiveInv, running, effectiveTip, confirmedBy
  <1>5. JobInv'
    BY <1>a, <1>b DEF JobInv, TypeOK
  <1>6. OpenNeverFails'
    BY <1>a DEF OpenNeverFails
  <1> QED  BY <1>1, <1>2, <1>3, <1>4, <1>5, <1>6

(* A process that ends leaves a good store behind, whatever it was doing. *)
LEMMA ExitInd ==
    ASSUME IndInv, exit, UNCHANGED <<now, acked>>,
           StoreOK(disk'), StoreInv(disk'), Work[effectiveTip(disk)'] >= Work[acked], torn' \in Torn,
           crashes' \in 0..MaxCrashes, faults' \in 0..MaxFaults
    PROVE  IndInv'
  <1> USE DEF IndInv, exit
  <1>1. TypeOK'
    BY EmptyStore, JobTypeOK, TreeAssumption, SnapshotsOK DEF TypeOK, StoreOK, Empty, Pcs, Reasons, Torn
  <1>2. StoreInv(disk)' /\ StoreInv(mem)'
    BY EmptyStore DEF StoreInv
  <1>3. MemInv'
    BY DEF MemInv, NoStore
  <1>4. ActiveInv'
    BY DEF ActiveInv, running, effectiveTip, Empty
  <1>5. JobInv' /\ OpenNeverFails'
    BY DEF JobInv, OpenNeverFails
  <1> QED  BY <1>1, <1>2, <1>3, <1>4, <1>5

LEMMA CrashInd == IndInv /\ Crash => IndInv'
  <1> SUFFICES ASSUME IndInv, Crash PROVE IndInv'
    OBVIOUS
  <1>1. UNCHANGED <<disk, torn, now, acked, faults>> /\ exit
    BY DEF Crash
  <1>2. StoreOK(disk') /\ StoreInv(disk') /\ Work[effectiveTip(disk)'] >= Work[acked] /\ torn' \in Torn
    BY <1>1 DEF IndInv, TypeOK, ActiveInv, effectiveTip, Torn
  <1>3. crashes' \in 0..MaxCrashes /\ faults' \in 0..MaxFaults
    BY <1>1, HeaderAssumption DEF Crash, IndInv, TypeOK
  <1> QED  BY <1>1, <1>2, <1>3, ExitInd

LEMMA OpenWriteFailsInd == IndInv /\ OpenWriteFails => IndInv'
  <1> SUFFICES ASSUME IndInv, OpenWriteFails PROVE IndInv'
    OBVIOUS
  <1> USE DEF IndInv
  <1>1. exit /\ UNCHANGED <<now, acked, crashes>> /\ StoreOK(disk)
    BY DEF OpenWriteFails, TypeOK
  <1>2. faults' \in 0..MaxFaults /\ crashes' \in 0..MaxCrashes /\ torn' \in Torn
    BY <1>1, WriteFailed DEF OpenWriteFails, TypeOK, Torn
  <1>3. Work[effectiveTip(disk)] >= Work[acked]
    BY DEF ActiveInv
  <1>4. \/ disk' = disk
        \/ pc = "initBlock" /\ disk' = saved(disk, Genesis)
        \/ pc = "initTip" /\ disk' = tipSet(disk, Genesis)
        \/ \E x \in Blocks : disk' = checkpointed(disk, x, Full[x])
    BY ReplayedBlock DEF OpenWriteFails, writeFails, appended, appendedHalf
  <1>5. StoreOK(disk') /\ StoreInv(disk') /\ Work[effectiveTip(disk)'] >= Work[acked]
    <2>1. CASE disk' = disk
      BY <1>1, <1>3, <2>1 DEF effectiveTip
    <2>2. CASE pc = "initBlock" /\ disk' = saved(disk, Genesis)
      <3>1. Anc[Genesis] \subseteq disk.blocks \cup {Genesis} /\ Full[Genesis] # Invalid /\ Genesis \in Blocks
        BY TreeAssumption, RulesAgree
      <3>2. StoreOK(disk') /\ StoreInv(disk') /\ disk'.tip = disk.tip
        BY <1>1, <2>2, <3>1, Saved
      <3> QED  BY <1>3, <3>2 DEF effectiveTip
    <2>3. CASE pc = "initTip" /\ disk' = tipSet(disk, Genesis)
      <3>1. disk.tip = NoTip /\ Genesis \in disk.blocks
        BY <2>3 DEF MemInv
      <3>2. StoreOK(disk') /\ StoreInv(disk') /\ disk'.tip = Genesis
        BY <1>1, <2>3, <3>1, TipSet
      <3> QED  BY <1>3, <3>1, <3>2 DEF effectiveTip
    <2>4. CASE \E x \in Blocks : disk' = checkpointed(disk, x, Full[x])
      <3>1. StoreOK(disk') /\ StoreInv(disk') /\ disk'.tip = disk.tip
        BY <1>1, <2>4, Checkpointed
      <3> QED  BY <1>3, <3>1 DEF effectiveTip
    <2> QED  BY <1>4, <2>1, <2>2, <2>3, <2>4
  <1> QED  BY <1>1, <1>2, <1>5, ExitInd

LEMMA OpenDoneInd == IndInv /\ OpenDone => IndInv'
  <1> SUFFICES ASSUME IndInv, OpenDone PROVE IndInv'
    OBVIOUS
  <1> USE DEF IndInv, OpenDone
  <1>0. active \in mem.blocks /\ active \in Blocks /\ job.state = Full[active]
    BY DEF ActiveInv, JobInv, TypeOK, StoreOK
  <1>a. /\ DOMAIN snaps' = DOMAIN snaps \cup {active}
        /\ \A b \in DOMAIN snaps' : snaps'[b] = Full[b]
    BY <1>0 DEF ActiveInv, Put
  <1>1. TypeOK'
    BY <1>0, <1>a, JobTypeOK, SnapshotsOK DEF TypeOK, StoreOK, Pcs
  <1>2. StoreInv(disk)' /\ StoreInv(mem)'
    BY DEF StoreInv
  <1>3. MemInv'
    BY DEF MemInv
  <1>4. ActiveInv'
    BY <1>0, <1>a DEF ActiveInv, running, effectiveTip, confirmedBy
  <1>5. JobInv' /\ OpenNeverFails'
    BY DEF JobInv, OpenNeverFails
  <1> QED  BY <1>1, <1>2, <1>3, <1>4, <1>5

-----------------------------------------------------------------------------
(* Accept *)

(* A step that returns without touching a store or the active chain. *)
LEMMA ReturnInd ==
    ASSUME IndInv, running, NEW reason \in Reasons, return(reason),
           UNCHANGED <<active, ledger, root, confirmed, reorg, now, acked, crashes>>,
           faults' \in 0..MaxFaults, torn' \in Torn,
           DOMAIN snaps' \subseteq Blocks, \A b \in DOMAIN snaps' : snaps'[b] = Full[b],
           StoreOK(disk'), StoreInv(disk'), StoreOK(mem'), StoreInv(mem'),
           torn' = "no" => mem'.blocks \subseteq disk'.blocks, mem.blocks \subseteq mem'.blocks,
           Work[effectiveTip(disk)'] >= Work[acked]
    PROVE  IndInv'
  <1> USE DEF IndInv, return
  <1>1. TypeOK'
    BY JobTypeOK, SnapshotsOK DEF TypeOK, StoreOK, Pcs, Torn
  <1>2. StoreInv(disk)' /\ StoreInv(mem)'
    BY DEF StoreInv
  <1>3. MemInv'
    BY DEF MemInv, running
  <1>4. ActiveInv'
    BY DEF ActiveInv, running, effectiveTip, confirmedBy
  <1>5. JobInv' /\ OpenNeverFails'
    BY DEF JobInv, OpenNeverFails
  <1> QED  BY <1>1, <1>2, <1>3, <1>4, <1>5

(* The case of ReturnInd in which nothing at all was written. *)
LEMMA PlainReturnInd ==
    ASSUME IndInv, running, NEW reason \in Reasons, return(reason),
           UNCHANGED <<disk, torn, mem, snaps, active, ledger, root, confirmed, reorg, now, acked, crashes, faults>>
    PROVE  IndInv'
  <1>1. /\ StoreOK(disk') /\ StoreInv(disk') /\ StoreOK(mem') /\ StoreInv(mem')
        /\ (torn' = "no" => mem'.blocks \subseteq disk'.blocks) /\ mem.blocks \subseteq mem'.blocks /\ torn' \in Torn
    BY DEF IndInv, TypeOK, MemInv, Torn
  <1>2. Work[effectiveTip(disk)'] >= Work[acked] /\ faults' \in 0..MaxFaults
    BY DEF IndInv, ActiveInv, TypeOK, effectiveTip
  <1>3. DOMAIN snaps' \subseteq Blocks /\ \A b \in DOMAIN snaps' : snaps'[b] = Full[b]
    BY DEF IndInv, ActiveInv, TypeOK
  <1> QED  BY <1>1, <1>2, <1>3, ReturnInd

LEMMA AcceptRefusedInd ==
    ASSUME NEW b \in Blocks
    PROVE  IndInv /\ AcceptRefused(b) => IndInv'
  <1> SUFFICES ASSUME IndInv, AcceptRefused(b) PROVE IndInv'
    OBVIOUS
  <1>1. PICK reason \in Reasons : return(reason)
    BY DEF AcceptRefused, Reasons
  <1>2. running
    BY DEF AcceptRefused, running
  <1> QED  BY <1>1, <1>2, PlainReturnInd DEF AcceptRefused

(* stateForParent starts the loop at an ancestor of the parent, with its state. *)
LEMMA ParentState ==
    ASSUME NEW b \in Blocks, NEW stage, stateForParent(b, stage),
           StoreInv(mem), DOMAIN snaps \subseteq Blocks, \A x \in DOMAIN snaps : snaps[x] = Full[x]
    PROVE  /\ pc' = "derive"
           /\ \E at \in Anc[Parent[b]] : job' = [block |-> b, stage |-> stage, at |-> at, state |-> Full[at]]
  <1>0. Parent[b] \in Blocks /\ Parent[b] \in Anc[Parent[b]]
    BY Tree
  <1>1. CASE Parent[b] \in DOMAIN snaps
    BY <1>0, <1>1 DEF stateForParent, cachedState
  <1>2. CASE Parent[b] \notin DOMAIN snaps
    <2>1. PICK from \in replayFrom(Parent[b]) :
            job' = [block |-> b, stage |-> stage, at |-> from.at, state |-> from.state]
      BY <1>2 DEF stateForParent
    <2>2. from.at \in Anc[Parent[b]] /\ from.state = Full[from.at]
      BY <1>0, ReplayFrom
    <2> QED  BY <2>1, <2>2 DEF stateForParent
  <1> QED  BY <1>1, <1>2

LEMMA AcceptBeginInd ==
    ASSUME NEW b \in Blocks
    PROVE  IndInv /\ AcceptBegin(b) => IndInv'
  <1> SUFFICES ASSUME IndInv, AcceptBegin(b) PROVE IndInv'
    OBVIOUS
  <1> USE DEF IndInv
  <1>0. /\ pc = "idle" /\ Parent[b] \in mem.blocks /\ b \notin mem.blocks
        /\ UNCHANGED <<disk, torn, mem, snaps, active, ledger, root, confirmed, reorg, now, result, acked, crashes, faults>>
    BY DEF AcceptBegin, ancestryKnown
  <1>g. b # Genesis
    BY <1>0, TreeAssumption DEF StoreInv
  <1>a. /\ pc' = "derive"
        /\ \E at \in Anc[Parent[b]] : job' = [block |-> b, stage |-> "validate", at |-> at, state |-> Full[at]]
    BY ParentState DEF AcceptBegin, TypeOK, ActiveInv
  <1>1. TypeOK'
    <2>1. job' \in [block : Blocks, stage : {"none", "open", "validate", "win"}, at : Blocks, state : Snapshots]
      BY <1>a, Tree, SnapshotsOK
    <2> QED  BY <1>0, <1>a, <2>1 DEF TypeOK, StoreOK, Pcs
  <1>2. StoreInv(disk)' /\ StoreInv(mem)'
    BY <1>0 DEF StoreInv
  <1>3. MemInv'
    BY <1>0, <1>a DEF MemInv
  <1>4. ActiveInv'
    BY <1>0, <1>a DEF ActiveInv, running, effectiveTip, confirmedBy
  <1>5. JobInv' /\ OpenNeverFails'
    BY <1>0, <1>g, <1>a DEF JobInv, OpenNeverFails
  <1> QED  BY <1>1, <1>2, <1>3, <1>4, <1>5

LEMMA DeriveStepInd == IndInv /\ DeriveStep => IndInv'
  <1> SUFFICES ASSUME IndInv, DeriveStep PROVE IndInv'
    OBVIOUS
  <1> USE DEF IndInv
  <1>0. /\ pc = "derive" /\ Parent[job.block] \in mem.blocks /\ job.at \in Anc[Parent[job.block]]
        /\ job.state = Full[job.at] /\ job.block \in Blocks
        /\ UNCHANGED <<disk, torn, mem, active, ledger, root, confirmed, reorg, now, acked, crashes, faults>>
    BY DEF DeriveStep, JobInv, TypeOK
  <1>a. \A x \in Anc[Parent[job.block]] : x \in Blocks /\ Full[x] # Invalid
    BY <1>0, Tree DEF StoreInv
  <1>b. PICK x \in Anc[Parent[job.block]] \ {Genesis} :
          /\ snaps' = Put(snaps, x, Full[x])
          /\ job' = [job EXCEPT !.at = x, !.state = Full[x]]
          /\ UNCHANGED <<pc, result>>
    BY <1>0, <1>a, Step DEF DeriveStep, advanced
  <1>c. /\ DOMAIN snaps' = DOMAIN snaps \cup {x}
        /\ \A y \in DOMAIN snaps' : snaps'[y] = Full[y]
    BY <1>b DEF ActiveInv, Put
  <1>1. TypeOK'
    <2>1. job' \in [block : Blocks, stage : {"none", "open", "validate", "win"}, at : Blocks, state : Snapshots]
      BY <1>a, <1>b, SnapshotsOK DEF TypeOK
    <2> QED  BY <1>0, <1>a, <1>b, <1>c, <2>1, SnapshotsOK DEF TypeOK, StoreOK, Pcs
  <1>2. StoreInv(disk)' /\ StoreInv(mem)'
    BY <1>0 DEF StoreInv
  <1>3. MemInv'
    BY <1>0, <1>b DEF MemInv
  <1>4. ActiveInv'
    BY <1>0, <1>b, <1>c DEF ActiveInv, running, effectiveTip, confirmedBy
  <1>5. JobInv' /\ OpenNeverFails'
    BY <1>0, <1>b DEF JobInv, OpenNeverFails, TypeOK
  <1> QED  BY <1>1, <1>2, <1>3, <1>4, <1>5

LEMMA ValidateInd == IndInv /\ Validate => IndInv'
  <1> SUFFICES ASSUME IndInv, Validate PROVE IndInv'
    OBVIOUS
  <1> USE DEF IndInv
  <1>0. /\ pc = "derive" /\ Parent[job.block] \in mem.blocks /\ job.at = Parent[job.block]
        /\ job.state = Full[job.at] /\ job.block \in Blocks /\ job.block # Genesis
        /\ UNCHANGED <<disk, torn, mem, snaps, active, ledger, root, confirmed, reorg, now, acked, crashes, faults>>
    BY DEF Validate, JobInv, TypeOK
  <1>a. Incr(job.state, job.block) = Full[job.block]
    BY <1>0, Step DEF StoreInv
  <1>1. CASE \E reason \in Reasons : return(reason)
    BY <1>0, <1>1, PlainReturnInd DEF running
  <1>2. CASE /\ Full[job.block] # Invalid
             /\ pc' = "save"
             /\ UNCHANGED <<job, result>>
    <2>1. TypeOK'
      BY <1>0, <1>2 DEF TypeOK, StoreOK, Pcs
    <2>2. StoreInv(disk)' /\ StoreInv(mem)' /\ MemInv'
      BY <1>0, <1>2 DEF StoreInv, MemInv
    <2>3. ActiveInv'
      BY <1>0, <1>2 DEF ActiveInv, running, effectiveTip, confirmedBy
    <2>4. JobInv' /\ OpenNeverFails'
      BY <1>0, <1>2 DEF JobInv, OpenNeverFails
    <2> QED  BY <2>1, <2>2, <2>3, <2>4
  <1>3. CASE /\ job.stage = "win"
             /\ pc' \in {"ckpt", "tip"}
             /\ job' = [job EXCEPT !.state = Full[job.block]]
             /\ UNCHANGED result
    <2>1. TypeOK'
      <3>1. job' \in [block : Blocks, stage : {"none", "open", "validate", "win"}, at : Blocks, state : Snapshots]
        BY <1>0, <1>3, SnapshotsOK DEF TypeOK
      <3> QED  BY <1>0, <1>3, <3>1 DEF TypeOK, StoreOK, Pcs
    <2>2. StoreInv(disk)' /\ StoreInv(mem)' /\ MemInv'
      BY <1>0, <1>3 DEF StoreInv, MemInv
    <2>3. ActiveInv'
      BY <1>0, <1>3 DEF ActiveInv, running, effectiveTip, confirmedBy
    <2>4. JobInv' /\ OpenNeverFails'
      BY <1>0, <1>3 DEF JobInv, OpenNeverFails, TypeOK
    <2> QED  BY <2>1, <2>2, <2>3, <2>4
  <1> QED  BY <1>0, <1>a, <1>1, <1>2, <1>3 DEF Validate, Reasons

LEMMA SaveBlockInd == IndInv /\ SaveBlock => IndInv'
  <1> SUFFICES ASSUME IndInv, SaveBlock PROVE IndInv'
    OBVIOUS
  <1> USE DEF IndInv
  <1> DEFINE b == job.block
  <1>0. /\ pc = "save" /\ b \in Blocks /\ b # Genesis /\ Parent[b] \in mem.blocks /\ Full[b] # Invalid
        /\ StoreOK(disk) /\ StoreOK(mem) /\ torn \in Torn /\ faults \in 0..MaxFaults
        /\ UNCHANGED <<snaps, active, ledger, root, confirmed, reorg, now, acked, crashes>>
    BY DEF SaveBlock, JobInv, TypeOK, Torn
  <1>1. /\ Anc[b] \subseteq mem.blocks \cup {b}
        /\ torn = "no" => Anc[b] \subseteq disk.blocks \cup {b}
    BY <1>0, Tree DEF StoreInv, MemInv
  <1>a. ASSUME torn = "no"
        PROVE
        /\ StoreOK(saved(disk, b)) /\ StoreInv(saved(disk, b))
        /\ saved(disk, b).blocks = disk.blocks \cup {b} /\ saved(disk, b).tip = disk.tip
    BY <1>0, <1>1, <1>a, Saved
  <1>b. /\ StoreOK(saved(mem, b)) /\ StoreInv(saved(mem, b))
        /\ saved(mem, b).blocks = mem.blocks \cup {b} /\ saved(mem, b).ckpt = mem.ckpt
    BY <1>0, <1>1, Saved
  <1>c. DOMAIN snaps \subseteq Blocks /\ \A x \in DOMAIN snaps : snaps[x] = Full[x]
    BY DEF TypeOK, ActiveInv
  <1>d. (torn = "no" => mem.blocks \subseteq disk.blocks) /\ Work[effectiveTip(disk)] >= Work[acked] /\ running
    BY <1>0 DEF MemInv, ActiveInv, running
  <1>2. CASE write(saved(disk, b), saved(mem, b)) /\ moreWork(b) /\ stateForParent(b, "win") /\ UNCHANGED result
    <2>0. mem' = saved(mem, b) /\ UNCHANGED faults /\ appended(saved(disk, b))
      BY <1>2 DEF write
    <2>d. /\ StoreOK(disk') /\ StoreInv(disk') /\ disk'.tip = disk.tip /\ torn' \in Torn
          /\ torn' = "no" => mem'.blocks \subseteq disk'.blocks
      BY <1>0, <1>a, <1>b, <1>d, <2>0 DEF appended, Torn
    <2>a. /\ pc' = "derive"
          /\ \E at \in Anc[Parent[b]] : job' = [block |-> b, stage |-> "win", at |-> at, state |-> Full[at]]
      BY <1>0, <1>2, <1>c, ParentState
    <2>1. TypeOK'
      <3>1. job' \in [block : Blocks, stage : {"none", "open", "validate", "win"}, at : Blocks, state : Snapshots]
        BY <1>0, <2>a, Tree, SnapshotsOK
      <3> QED  BY <1>0, <1>2, <1>b, <2>0, <2>a, <2>d, <3>1 DEF TypeOK, StoreOK, Pcs, Torn
    <2>2. StoreInv(disk)' /\ StoreInv(mem)' /\ MemInv'
      BY <1>0, <1>b, <2>0, <2>a, <2>d DEF StoreInv, MemInv
    <2>3. ActiveInv'
      BY <1>0, <1>b, <2>0, <2>a, <2>d DEF ActiveInv, running, effectiveTip, confirmedBy
    <2>4. JobInv' /\ OpenNeverFails'
      BY <1>0, <1>2, <1>b, <2>0, <2>a DEF JobInv, OpenNeverFails, moreWork
    <2> QED  BY <2>1, <2>2, <2>3, <2>4
  <1>3. CASE write(saved(disk, b), saved(mem, b)) /\ return("fork")
    <2>1. mem' = saved(mem, b) /\ faults' \in 0..MaxFaults /\ "fork" \in Reasons /\ appended(saved(disk, b))
      BY <1>0, <1>3 DEF write, Reasons
    <2>2. /\ StoreOK(disk') /\ StoreInv(disk') /\ disk'.tip = disk.tip /\ torn' \in Torn
          /\ torn' = "no" => mem'.blocks \subseteq disk'.blocks
      BY <1>0, <1>a, <1>b, <1>d, <2>1 DEF appended, Torn
    <2>3. Work[effectiveTip(disk)'] >= Work[acked]
      BY <1>d, <2>2 DEF effectiveTip
    <2>4. mem.blocks \subseteq mem'.blocks /\ StoreOK(mem') /\ StoreInv(mem')
      BY <1>b, <2>1
    <2> QED  BY <1>0, <1>3, <1>c, <1>d, <2>1, <2>2, <2>3, <2>4, ReturnInd
  <1>4. CASE writeFails(saved(disk, b)) /\ UNCHANGED mem /\ return("storage")
    <2>1. faults' \in 0..MaxFaults /\ "storage" \in Reasons /\ writeFails(saved(disk, b))
      BY <1>0, <1>4, WriteFailed DEF Reasons
    <2>2. /\ StoreOK(disk') /\ StoreInv(disk') /\ disk'.tip = disk.tip /\ torn' \in Torn
          /\ torn' = "no" => mem'.blocks \subseteq disk'.blocks
      BY <1>0, <1>4, <1>a, <1>d, <2>1 DEF writeFails, appended, appendedHalf, Torn
    <2>3. Work[effectiveTip(disk)'] >= Work[acked]
      BY <1>d, <2>2 DEF effectiveTip
    <2>4. mem.blocks \subseteq mem'.blocks /\ StoreOK(mem') /\ StoreInv(mem')
      BY <1>0, <1>4
    <2> QED  BY <1>0, <1>4, <1>c, <1>d, <2>1, <2>2, <2>3, <2>4, ReturnInd
  <1> QED  BY <1>2, <1>3, <1>4 DEF SaveBlock

LEMMA SaveStateCheckpointInd == IndInv /\ SaveStateCheckpoint => IndInv'
  <1> SUFFICES ASSUME IndInv, SaveStateCheckpoint PROVE IndInv'
    OBVIOUS
  <1> USE DEF IndInv
  <1> DEFINE b == job.block
  <1>0. /\ pc = "ckpt" /\ b \in Blocks /\ b \in mem.blocks /\ job.state = Full[b]
        /\ StoreOK(disk) /\ StoreOK(mem) /\ torn \in Torn /\ faults \in 0..MaxFaults
        /\ UNCHANGED <<snaps, active, ledger, root, confirmed, reorg, now, acked, crashes>>
    BY DEF SaveStateCheckpoint, JobInv, TypeOK, Torn
  <1>a. /\ StoreOK(checkpointed(disk, b, Full[b])) /\ StoreInv(checkpointed(disk, b, Full[b]))
        /\ checkpointed(disk, b, Full[b]).blocks = disk.blocks
        /\ checkpointed(disk, b, Full[b]).tip = disk.tip
    BY <1>0, Checkpointed
  <1>b. /\ StoreOK(checkpointed(mem, b, Full[b])) /\ StoreInv(checkpointed(mem, b, Full[b]))
        /\ checkpointed(mem, b, Full[b]).blocks = mem.blocks
    BY <1>0, Checkpointed
  <1>c. DOMAIN snaps \subseteq Blocks /\ \A x \in DOMAIN snaps : snaps[x] = Full[x]
    BY DEF TypeOK, ActiveInv
  <1>d. (torn = "no" => mem.blocks \subseteq disk.blocks) /\ Work[effectiveTip(disk)] >= Work[acked] /\ running
    BY <1>0 DEF MemInv, ActiveInv, running
  <1>1. CASE /\ write(checkpointed(disk, b, Full[b]), checkpointed(mem, b, Full[b]))
             /\ pc' = "tip" /\ UNCHANGED <<job, result>>
    <2>0. mem' = checkpointed(mem, b, Full[b]) /\ UNCHANGED faults /\ appended(checkpointed(disk, b, Full[b]))
      BY <1>1 DEF write
    <2>d. /\ StoreOK(disk') /\ StoreInv(disk') /\ disk'.tip = disk.tip /\ torn' \in Torn
          /\ torn' = "no" => mem'.blocks \subseteq disk'.blocks
      BY <1>0, <1>a, <1>b, <1>d, <2>0 DEF appended, Torn
    <2>1. TypeOK'
      BY <1>0, <1>1, <1>b, <2>0, <2>d DEF TypeOK, StoreOK, Pcs, Torn
    <2>2. StoreInv(disk)' /\ StoreInv(mem)' /\ MemInv'
      BY <1>1, <1>b, <2>0, <2>d DEF StoreInv, MemInv
    <2>3. ActiveInv'
      BY <1>0, <1>1, <1>b, <2>0, <2>d DEF ActiveInv, running, effectiveTip, confirmedBy
    <2>4. JobInv' /\ OpenNeverFails'
      BY <1>0, <1>1, <1>b, <2>0 DEF JobInv, OpenNeverFails
    <2> QED  BY <2>1, <2>2, <2>3, <2>4
  <1>2. CASE writeFails(checkpointed(disk, b, Full[b])) /\ UNCHANGED mem /\ return("storage")
    <2>1. faults' \in 0..MaxFaults /\ "storage" \in Reasons
      BY <1>0, <1>2, WriteFailed DEF Reasons
    <2>2. /\ StoreOK(disk') /\ StoreInv(disk') /\ disk'.tip = disk.tip /\ torn' \in Torn
          /\ torn' = "no" => mem'.blocks \subseteq disk'.blocks
      BY <1>0, <1>2, <1>a, <1>d DEF writeFails, appended, appendedHalf, Torn
    <2>3. Work[effectiveTip(disk)'] >= Work[acked]
      BY <1>d, <2>2 DEF effectiveTip
    <2>4. mem.blocks \subseteq mem'.blocks /\ StoreOK(mem') /\ StoreInv(mem')
      BY <1>0, <1>2
    <2> QED  BY <1>0, <1>2, <1>c, <1>d, <2>1, <2>2, <2>3, <2>4, ReturnInd
  <1> QED  BY <1>0, <1>1, <1>2 DEF SaveStateCheckpoint

LEMMA SetTipInd == IndInv /\ SetTip => IndInv'
  <1> SUFFICES ASSUME IndInv, SetTip PROVE IndInv'
    OBVIOUS
  <1> USE DEF IndInv
  <1> DEFINE b == job.block
  <1>0. /\ pc = "tip" /\ b \in Blocks /\ b \in mem.blocks /\ job.state = Full[b] /\ Work[b] > Work[active]
        /\ StoreOK(disk) /\ StoreOK(mem) /\ torn \in Torn /\ faults \in 0..MaxFaults
        /\ UNCHANGED <<now, crashes>>
    BY DEF SetTip, JobInv, TypeOK, Torn
  <1>c. DOMAIN snaps \subseteq Blocks /\ \A x \in DOMAIN snaps : snaps[x] = Full[x]
    BY DEF TypeOK, ActiveInv
  <1>d. /\ (torn = "no" => mem.blocks \subseteq disk.blocks) /\ Work[effectiveTip(disk)] >= Work[acked] /\ running
        /\ Work[active] >= Work[acked] /\ active \in mem.blocks /\ active \in Blocks /\ acked \in Blocks
    BY <1>0 DEF MemInv, ActiveInv, running, TypeOK, StoreOK
  <1>w. Work[b] >= Work[acked]
    BY <1>0, <1>d, HeaderAssumption
  <1>a. ASSUME torn = "no"
        PROVE
        /\ StoreOK(tipSet(disk, b)) /\ StoreInv(tipSet(disk, b))
        /\ tipSet(disk, b).blocks = disk.blocks /\ tipSet(disk, b).tip = b
    BY <1>0, <1>a, <1>d, TipSet
  <1>b. /\ StoreOK(tipSet(mem, b)) /\ StoreInv(tipSet(mem, b))
        /\ tipSet(mem, b).blocks = mem.blocks
    BY <1>0, TipSet
  <1>1. CASE /\ write(tipSet(disk, b), tipSet(mem, b))
             /\ reorg' = IF Version >= 2 THEN orphaned(b) ELSE reorg
             /\ active' = b
             /\ snaps' = Put(snaps, b, Full[b])
             /\ root' = Full[b]
             /\ ledger' = Full[b]
             /\ confirmed' = confirmedBy(b)
             /\ acked' = IF torn = "no" THEN b ELSE acked
             /\ return("best")
    <2>0. /\ appended(tipSet(disk, b)) /\ mem' = tipSet(mem, b) /\ UNCHANGED faults
          /\ pc' = "idle" /\ job' = NoJob /\ result' = "best"
      BY <1>1 DEF write, return
    <2>d. /\ StoreOK(disk') /\ StoreInv(disk') /\ torn' \in Torn /\ acked' \in Blocks
          /\ torn' = "no" => mem'.blocks \subseteq disk'.blocks
      BY <1>0, <1>1, <1>a, <1>b, <1>d, <2>0 DEF appended, Torn
    <2>w. Work[effectiveTip(disk)'] >= Work[acked'] /\ Work[b] >= Work[acked']
      <3>1. CASE torn = "no"
        BY <1>0, <1>1, <1>a, <2>0, <3>1, Tree, HeaderAssumption DEF appended, effectiveTip
      <3>2. CASE torn # "no"
        BY <1>1, <1>d, <1>w, <2>0, <3>2 DEF appended, effectiveTip
      <3> QED  BY <3>1, <3>2
    <2>s. /\ DOMAIN snaps' = DOMAIN snaps \cup {b}
          /\ \A x \in DOMAIN snaps' : snaps'[x] = Full[x]
      BY <1>1, <1>c DEF Put
    <2>r. reorg' \subseteq AllTxs
      <3>1. orphaned(b) \subseteq AllTxs
        BY <1>d, Tree DEF orphaned, AllTxs
      <3> QED  BY <1>1, <3>1 DEF TypeOK
    <2>1. TypeOK'
      BY <1>0, <1>1, <1>b, <1>c, <2>0, <2>d, <2>s, <2>r, JobTypeOK, SnapshotsOK, TxsOK DEF TypeOK, StoreOK, Pcs, Reasons, Torn
    <2>2. StoreInv(disk)' /\ StoreInv(mem)' /\ MemInv'
      BY <1>b, <2>0, <2>d DEF StoreInv, MemInv
    <2>3. ActiveInv'
      BY <1>0, <1>1, <1>b, <2>0, <2>s, <2>w DEF ActiveInv, running, effectiveTip, confirmedBy
    <2>4. JobInv' /\ OpenNeverFails'
      BY <2>0 DEF JobInv, OpenNeverFails
    <2> QED  BY <2>1, <2>2, <2>3, <2>4
  <1>2. CASE /\ writeFails(tipSet(disk, b))
             /\ UNCHANGED mem
             /\ return("storage")
             /\ UNCHANGED <<snaps, active, ledger, root, confirmed, reorg, acked>>
    <2>1. faults' \in 0..MaxFaults /\ "storage" \in Reasons
      BY <1>0, <1>2, WriteFailed DEF Reasons
    <2>2. /\ StoreOK(disk') /\ StoreInv(disk') /\ torn' \in Torn
          /\ disk' = disk \/ disk'.tip = b
          /\ torn' = "no" => mem'.blocks \subseteq disk'.blocks
      BY <1>0, <1>2, <1>a, <1>d DEF writeFails, appended, appendedHalf, Torn
    <2>3. Work[effectiveTip(disk)'] >= Work[acked]
      BY <1>0, <1>d, <1>w, <2>2, Tree DEF effectiveTip
    <2>4. mem.blocks \subseteq mem'.blocks /\ StoreOK(mem') /\ StoreInv(mem')
      BY <1>0, <1>2
    <2> QED  BY <1>0, <1>2, <1>c, <1>d, <2>1, <2>2, <2>3, <2>4, ReturnInd
  <1> QED  BY <1>0, <1>1, <1>2 DEF SetTip

LEMMA QuietInd ==
    IndInv /\ (TakeReorgCandidates \/ \E t \in Clock : ClockMoves(t)) => IndInv'
  <1> SUFFICES ASSUME IndInv, TakeReorgCandidates \/ \E t \in Clock : ClockMoves(t) PROVE IndInv'
    OBVIOUS
  <1> USE DEF IndInv, TakeReorgCandidates, ClockMoves
  <1>1. TypeOK'
    BY DEF TypeOK, StoreOK
  <1>2. StoreInv(disk)' /\ StoreInv(mem)' /\ MemInv'
    BY DEF StoreInv, MemInv
  <1>3. ActiveInv'
    BY DEF ActiveInv, running, effectiveTip, confirmedBy
  <1>4. JobInv' /\ OpenNeverFails'
    BY DEF JobInv, OpenNeverFails
  <1> QED  BY <1>1, <1>2, <1>3, <1>4

-----------------------------------------------------------------------------
(* Theorems *)

LEMMA NextInd == IndInv /\ [Next]_vars => IndInv'
  BY StutterInd, OpenLoadInd, OpenCorruptInd, OpenInitBlockInd, OpenInitTipInd, OpenCheckInd, OpenReplayStepInd,
     OpenWriteFailsInd, OpenDoneInd, AcceptRefusedInd, AcceptBeginInd, DeriveStepInd, ValidateInd,
     SaveBlockInd, SaveStateCheckpointInd, SetTipInd, QuietInd, CrashInd
     DEF Next, Open, Process

(* IndInv holds in every reachable state. *)
THEOREM Inductive == Spec => []IndInv
  BY InitInd, NextInd, PTL DEF Spec

(* Every variable of the chain keeps its type: in particular each cached,
   checkpointed or published state is one the full rules produce. *)
THEOREM TypeCorrect == Spec => []TypeOK
  <1>1. IndInv => TypeOK
    BY DEF IndInv
  <1> QED  BY <1>1, Inductive, PTL

(* openWithProtocolAndClock succeeds after every crash and every failed write,
   unless a half-written record has made the journal unreadable. *)
THEOREM RestartSucceeds == Spec => []OpenNeverFails
  <1>1. IndInv => OpenNeverFails
    BY DEF IndInv
  <1> QED  BY <1>1, Inductive, PTL

(* Balances, nonces, supply, state root and confirmed transactions are those of
   replaying the active chain from genesis. *)
THEOREM PublishedState == Spec => []PublishedStateIsReplay
  <1>1. IndInv => PublishedStateIsReplay
    BY DEF IndInv, ActiveInv, StoreInv, PublishedStateIsReplay, running
  <1> QED  BY <1>1, Inductive, PTL

(* After any crash the active chain has the work of every tip that was
   acknowledged while the journal held no half-written record. *)
THEOREM NoRollback == Spec => []AcknowledgedWorkIsKept
  <1>1. IndInv => AcknowledgedWorkIsKept
    BY DEF IndInv, ActiveInv, AcknowledgedWorkIsKept
  <1> QED  BY <1>1, Inductive, PTL

(* A step that changes the active chain of a running node is SetTip. *)
LEMMA OnlySetTip ==
    ASSUME IndInv, Next, running, running', active' # active
    PROVE  SetTip /\ active' = job.block
  BY DEF Next, Open, Process, running, OpenLoad, OpenCorrupt, OpenInitBlock, OpenInitTip, OpenCheck, OpenReplayStep,
         OpenWriteFails, exit, OpenDone, AcceptRefused, AcceptBegin, DeriveStep, Validate, SaveBlock,
         SaveStateCheckpoint, SetTip, TakeReorgCandidates, ClockMoves, Crash

(* A running node moves its active chain only to a valid one with strictly more
   work (Accept compares with > 0). *)
THEOREM ForkChoice == Spec => ActiveOnlyGainsWork
  <1>1. IndInv /\ [Next]_vars => [running /\ running' => OnlyMoreWork]_vars
    <2> SUFFICES ASSUME IndInv, Next, running, running', active' # active
                 PROVE  Work[active'] > Work[active] /\ Full[active'] # Invalid
      BY DEF OnlyMoreWork
    <2>1. SetTip /\ active' = job.block
      BY OnlySetTip
    <2> QED  BY <2>1 DEF SetTip, IndInv, JobInv, StoreInv
  <1> QED  BY <1>1, Inductive, PTL DEF Spec, ActiveOnlyGainsWork

(* Transactions that a reorganization takes off the active chain are handed to
   reorgCandidates in the same step, whatever the shape of the two branches. *)
THEOREM ReorgSafe == Spec => ReorgKeepsTransactions
  <1>1. IndInv /\ [Next]_vars
          => [running /\ running' /\ Version >= 2 => confirmed \ confirmed' \subseteq reorg']_vars
    <2> SUFFICES ASSUME IndInv, IndInv', Next, running, running', Version >= 2,
                        NEW tx \in confirmed, tx \notin confirmed'
                 PROVE  tx \in reorg'
      BY NextInd
    <2>1. confirmed = confirmedBy(active) /\ confirmed' = confirmedBy(active')
      BY DEF IndInv, ActiveInv, confirmedBy
    <2>2. SetTip /\ active' = job.block
      BY <2>1, OnlySetTip
    <2>3. reorg' = orphaned(job.block)
      BY <2>1, <2>2 DEF SetTip
    <2>4. Anc[Parent[job.block]] \subseteq Anc[active']
      BY <2>2, Tree DEF SetTip, IndInv, JobInv, TypeOK
    <2> QED  BY <2>1, <2>3, <2>4 DEF confirmedBy, orphaned
  <1> QED  BY <1>1, Inductive, PTL DEF Spec, ReorgKeepsTransactions
=============================================================================
