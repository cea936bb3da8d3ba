------------------------------- MODULE Journal -------------------------------
(***************************************************************************)
(* internal/storage: the append-only journal below the chain, at the level *)
(* at which a crash or a failed write can cut a record in two.             *)
(*                                                                         *)
(* The file is a sequence of cells, a cell being a piece of a record that  *)
(* reaches the file whole: the cell <<r, i>> is the i-th piece of record   *)
(* r.  A header is two cells (magic, version and type; length and CRC), a  *)
(* payload is PayloadLen cells.  What a reader makes of a cell depends on  *)
(* its content only, so a header cell read in place of a payload cell      *)
(* fails the CRC, and a payload cell in place of a header the magic.       *)
(***************************************************************************)
EXTENDS Integers, Sequences, SequencesExt, FiniteSets

CONSTANTS
    Hashes,
    NoHash,             \* the tip of an empty store
    PayloadLen(_),      \* cells of the payload of a record type
    MaxWrites,          \* bound: records offered to the journal
    MaxCrashes          \* bound: crashes

ASSUME JournalAssumption ==
    /\ NoHash \notin Hashes
    /\ MaxWrites \in Nat /\ MaxCrashes \in Nat

Types == {"block", "tip", "checkpoint"}

Records == [type : Types, hash : Hashes]

ASSUME PayloadAssumption == \A t \in Types : PayloadLen(t) \in Nat \ {0}

VARIABLES
    file,      \* the cells of ledger.journal
    synced,    \* how many of them survive a loss of power
    store,     \* Store.blocks, tip and checkpoints
    pc,
    offset,    \* replay's offset
    job,       \* the record being appended
    written,   \* its cells written so far
    (* history and bounds *)
    acked,     \* records whose write returned without an error
    safe,      \* those of them written while torn was "no"
    torn,      \* a half-written record since the last start: none, at the end, or with cells behind it
    writes, crashes

history == <<acked, safe, torn>>

vars == <<file, synced, store, pc, offset, job, written, history, writes, crashes>>

-----------------------------------------------------------------------------
HeaderLen == 2

size(r) == HeaderLen + PayloadLen(r.type)

cells(r) == [i \in 1..size(r) |-> <<r, i>>]

EmptyStore == [blocks |-> {}, tip |-> NoHash, checkpoints |-> {}]

(* What a record adds to the maps of the store *)
apply(s, r) ==
    CASE r.type = "block"      -> [s EXCEPT !.blocks = @ \cup {r.hash}]
      [] r.type = "tip"        -> [s EXCEPT !.tip = r.hash]
      [] r.type = "checkpoint" -> [s EXCEPT !.checkpoints = @ \cup {r.hash}]

NoRecord == [type |-> "none", hash |-> NoHash]

-----------------------------------------------------------------------------
(* replay *)

rest == Len(file) - offset

headerOK == file[offset + 1][2] = 1 /\ file[offset + 2] = <<file[offset + 1][1], 2>>

headerRecord == file[offset + 1][1]

(* Mutant: only a cut payload counts as an incomplete tail. *)
cutPayload == rest >= HeaderLen /\ headerOK /\ rest < size(headerRecord)

(* ReadFull hits the end of the file within a header or within the payload
   that a good header announces. *)
incompleteTail ==
    \/ rest \in 1..(HeaderLen - 1)
    \/ rest >= HeaderLen /\ headerOK /\ rest < size(headerRecord)

crcOK == SubSeq(file, offset + 1, offset + size(headerRecord)) = cells(headerRecord)

Open ==
    /\ pc = "down"
    /\ pc' = "replay"
    /\ offset' = 0
    /\ store' = EmptyStore
    /\ UNCHANGED <<file, synced, job, written, history, writes, crashes>>

ReplayRecord ==
    /\ pc = "replay"
    /\ rest > 0
    /\ ~incompleteTail
    /\ IF rest >= HeaderLen /\ headerOK /\ crcOK
       THEN /\ store' = apply(store, headerRecord)
            /\ offset' = offset + size(headerRecord)
            /\ UNCHANGED pc
       ELSE /\ pc' = "fatal"
            /\ UNCHANGED <<store, offset>>
    /\ UNCHANGED <<file, synced, job, written, history, writes, crashes>>

(* truncateTail, which also syncs *)
TruncateTail ==
    /\ pc = "replay"
    /\ incompleteTail
    /\ file' = SubSeq(file, 1, offset)
    /\ synced' = offset
    /\ pc' = "open"
    /\ torn' = "no"
    /\ UNCHANGED <<store, offset, job, written, acked, safe, writes, crashes>>

ReplayDone ==
    /\ pc = "replay"
    /\ rest = 0
    /\ pc' = "open"
    /\ torn' = "no"
    /\ UNCHANGED <<file, synced, store, offset, job, written, acked, safe, writes, crashes>>

-----------------------------------------------------------------------------
(* SaveBlock, SetTip and SaveStateCheckpoint, which all go through appendRecord *)

endWrite ==
    /\ pc' = "open"
    /\ job' = NoRecord
    /\ written' = 0

appendRecord(type, h) ==
    /\ pc = "open"
    /\ writes < MaxWrites
    /\ writes' = writes + 1
    /\ pc' = "write"
    /\ job' = [type |-> type, hash |-> h]
    /\ UNCHANGED <<file, synced, store, offset, written, history, crashes>>

SaveBlock(h) == appendRecord("block", h)

SaveStateCheckpoint(h) == appendRecord("checkpoint", h)

SetTip(h) == h \in store.blocks /\ appendRecord("tip", h)

WriteCell ==
    /\ pc = "write"
    /\ file' = Append(file, cells(job)[written + 1])
    /\ written' = written + 1
    /\ pc' = IF written + 1 = size(job) THEN "sync" ELSE "write"
    /\ torn' = IF torn = "tail" THEN "inside" ELSE torn
    /\ UNCHANGED <<synced, store, offset, job, acked, safe, writes, crashes>>

(* file.Write returns an error, with any number of cells in the file already.
   The caller gets the error, nobody cuts the file back, the process goes on
   and appends behind what is there. *)
WriteError ==
    /\ pc = "write"
    /\ torn' = IF torn = "no" /\ written > 0 THEN "tail" ELSE torn
    /\ endWrite
    /\ UNCHANGED <<file, synced, store, offset, acked, safe, writes, crashes>>

(* Mutant: the record is acknowledged without a Sync. *)
unsynced == synced

syncedAll == Len(file)

Sync ==
    /\ pc = "sync"
    /\ synced' = syncedAll
    /\ store' = apply(store, job)
    /\ acked' = Append(acked, job)
    /\ safe' = IF torn = "no" THEN Append(safe, job) ELSE safe
    /\ endWrite
    /\ UNCHANGED <<file, offset, torn, writes, crashes>>

SyncError ==
    /\ pc = "sync"
    /\ endWrite
    /\ UNCHANGED <<file, synced, store, offset, history, writes, crashes>>

Flush ==
    /\ pc = "open"
    /\ synced' = Len(file)
    /\ UNCHANGED <<file, store, pc, offset, job, written, history, writes, crashes>>

(* The process ends; after a loss of power, cells that were not synced may be
   gone, the last ones first. *)
Crash ==
    /\ pc \notin {"down", "fatal"}
    /\ crashes < MaxCrashes
    /\ crashes' = crashes + 1
    /\ \E n \in synced..Len(file) : file' = SubSeq(file, 1, n)
    /\ store' = EmptyStore
    /\ pc' = "down"
    /\ offset' = 0
    /\ job' = NoRecord
    /\ written' = 0
    /\ UNCHANGED <<synced, history, writes>>

-----------------------------------------------------------------------------
Init ==
    /\ file = <<>>
    /\ synced = 0
    /\ store = EmptyStore
    /\ pc = "down"
    /\ offset = 0
    /\ job = NoRecord
    /\ written = 0
    /\ acked = <<>>
    /\ safe = <<>>
    /\ torn = "no"
    /\ writes = 0
    /\ crashes = 0

Next ==
    \/ Open \/ ReplayRecord \/ TruncateTail \/ ReplayDone
    \/ \E h \in Hashes : SaveBlock(h) \/ SetTip(h) \/ SaveStateCheckpoint(h)
    \/ WriteCell \/ WriteError \/ Sync \/ SyncError \/ Flush
    \/ Crash

Spec == Init /\ [][Next]_vars

-----------------------------------------------------------------------------
wholeRecordAt(f, o, n) ==
    LET r == f[o + 1][1]
    IN  o + size(r) <= n /\ SubSeq(f, o + 1, o + size(r)) = cells(r)

(* The records that replay finds in the first n cells of f: whole records, up
   to the first position where there is none. *)
recordsIn(f, n) ==
    LET from[o \in 0..n] ==
            IF o < n /\ wholeRecordAt(f, o, n)
            THEN <<f[o + 1][1]>> \o from[o + size(f[o + 1][1])]
            ELSE <<>>
    IN  from[0]

embeds(s, t) ==
    \E at \in [DOMAIN s -> DOMAIN t] :
        \A i, j \in DOMAIN s : s[i] = t[at[i]] /\ (i < j => at[i] < at[j])

serving == pc \in {"open", "write", "sync"}

(* Wherever a crash or a loss of power cuts the file, and whatever a write that
   returned an error left at its end, the next start recovers: replay calls the
   journal corrupted only when the process that met such an error has appended
   another record behind the half-written one. *)
RecoveryNeverFatal == pc = "fatal" => torn = "inside"

(* No acknowledged record is ever lost, truncateTail included: once the store
   is open, everything that SaveBlock, SetTip or SaveStateCheckpoint returned
   success for is in the journal that the next start will read, in order.  The
   exception is what a process acknowledges after one of its own writes failed
   halfway. *)
AcknowledgedSurvives == serving => embeds(safe, recordsIn(file, Len(file)))

(* The comment on truncateTail: discarding the incomplete tail is safe, for no
   complete record follows it.  So once a start has served its first request,
   the journal has every record that was ever acknowledged. *)
DiscardedTailIsIncomplete == serving /\ torn = "no" => embeds(acked, recordsIn(file, Len(file)))

(* The journal implements the abstract store: what a start sees is the log of
   whole records, acknowledged ones are safe, losses are a suffix, and after a
   half-failed write the log stands still until the next start. *)
Abstract == INSTANCE DurableStore WITH
    Nothing <- EmptyStore,
    log     <- recordsIn(file, Len(file)),
    sure    <- Len(recordsIn(file, synced)),
    view    <- IF serving THEN store ELSE EmptyStore,
    up      <- serving,
    broken  <- torn # "no"

ImplementsDurableStore == Abstract!Spec
=============================================================================
