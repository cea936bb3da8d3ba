----------------------------- MODULE ChainRules -----------------------------
(***************************************************************************)
(* The consensus rules of the Go node (internal/chain, internal/consensus, *)
(* internal/tokenomics): which block may follow a chain, and the ledger    *)
(* state it leads to.  The code holds these rules twice:                   *)
(*                                                                         *)
(*  - the FULL rules (validateChain, replayState) go over a whole chain    *)
(*    from genesis and are used when a node starts;                        *)
(*  - the INCREMENTAL rules (validateIncrementalBlock) take the parent's   *)
(*    snapshot and one block and are used for every block after that.      *)
(*                                                                         *)
(* Both are modelled, so that their agreement is a property and not an     *)
(* assumption.  A chain is a sequence of block records, genesis first.     *)
(* Hashes, signatures and Merkle roots are the Booleans "pow", "sealed"    *)
(* and "valid": the verdict of the check, not the bytes it is made on.     *)
(***************************************************************************)
EXTENDS Integers, Sequences, SequencesExt, FiniteSets, FiniteSetsExt, Functions, TLC

CONSTANTS
    Version,            \* protocolVersion, 1..3
    Phase7,             \* genesisState != nil
    Addresses,
    Coinbase,           \* protocol.CoinbaseSender
    GenesisAlloc,       \* [Addresses -> Nat], the GenesisState allocations
    MaxSupply,          \* protocol.MaxSupplyBaseUnits
    MiningBudget,       \* tokenomics.MiningAllocationBaseUnits
    BlockReward,        \* protocol.DefaultBlockRewardUnits
    MaxWord,            \* ^uint64(0)
    MTPWindow,          \* TimestampMTPWindow
    FutureStep,         \* TimestampFutureStepSeconds
    DifficultyInterval,
    TargetBlockTime,
    MaxAdjustment,
    MinDifficulty,
    MaxDifficulty,
    ConfigDifficulty,   \* the 4 passed to NextDifficulty
    Invalid             \* the error result

ASSUME RulesAssumption ==
    /\ Version \in 1..3
    /\ Phase7 \in BOOLEAN
    /\ Version >= 2 => Phase7
    /\ Coinbase \notin Addresses
    /\ GenesisAlloc \in [Addresses -> Nat]
    /\ {MaxSupply, MiningBudget, BlockReward, MaxWord} \subseteq Nat
    /\ MaxSupply <= MaxWord
    /\ Phase7 => SumFunction(GenesisAlloc) + MiningBudget = MaxSupply
    /\ {MTPWindow, FutureStep, DifficultyInterval, TargetBlockTime} \subseteq Nat \ {0}
    /\ MinDifficulty <= MaxDifficulty

-----------------------------------------------------------------------------
(* Header rules *)

work(difficulty) == 16 ^ Max({difficulty, 0})

ChainWork(ch) == FoldLeft(LAMBDA sum, b : sum + work(b.difficulty), 0, ch)

(* The entry in the middle of the sorted list: of two in the middle the later. *)
median(times) ==
    LET half == Len(times) \div 2
    IN  CHOOSE t \in Range(times) :
            /\ Cardinality({i \in DOMAIN times : times[i] < t}) <= half
            /\ Cardinality({i \in DOMAIN times : times[i] <= t}) > half

medianTimePast(prefix) ==
    LET window == SubSeq(prefix, Max({1, Len(prefix) - MTPWindow + 1}), Len(prefix))
    IN  median([i \in DOMAIN window |-> window[i].time])

timestampValid(time, prefix) ==
    LET parent == Last(prefix).time
    IN  /\ time >= 0
        /\ time > medianTimePast(prefix)
        /\ time > parent
        /\ Version < 3 => time <= parent + FutureStep

(* The loops of NextDifficulty stop at the first level that satisfies their
   exit test: the least such level going up, the greatest going down. *)
NextDifficulty(recent) ==
    LET expected == (Len(recent) - 1) * TargetBlockTime
        span     == Last(recent).time - Head(recent).time
        actual   == IF span <= 0 THEN 1 ELSE span
        factor   == Max({MaxAdjustment, 1})
        act      == Min({Max({actual, 1, expected \div factor}), expected * factor})
        base     == Max({Last(recent).difficulty, 0})
        target   == work(base) * expected
        up   == {d \in base..MaxDifficulty :
                    d = MaxDifficulty \/ target < work(d) * 4 * act}
        down == {d \in MinDifficulty..base :
                    d = MinDifficulty \/ target > (work(d) \div 4) * act}
        found == CASE act < expected /\ up # {}   -> Min(up)
                   [] act > expected /\ down # {} -> Max(down)
                   [] OTHER                       -> base
    IN  IF Len(recent) < 2 THEN ConfigDifficulty
        ELSE Max({MinDifficulty, Min({MaxDifficulty, found})})

requiredNextDifficulty(prefix) ==
    LET n    == Len(prefix)
        base == IF Last(prefix).index > 0 THEN Last(prefix).difficulty ELSE ConfigDifficulty
    IN  IF n < DifficultyInterval \/ n % DifficultyInterval # 0
        THEN base
        ELSE NextDifficulty(SubSeq(prefix, n - DifficultyInterval + 1, n))

-----------------------------------------------------------------------------
(* Issuance.  A reward of 0 is the code's ok = false. *)

ExpectedReward(supply) ==
    IF supply >= MaxSupply THEN 0 ELSE Min({BlockReward, MaxSupply - supply})

ExpectedMiningReward(issued) ==
    IF issued >= MiningBudget \/ MiningBudget - issued < BlockReward THEN 0 ELSE BlockReward

reward(issued, supply) ==
    IF Phase7 THEN ExpectedMiningReward(issued) ELSE ExpectedReward(supply)

supplyWithinPlan(s) ==
    IF Version >= 2 \/ ~Phase7
    THEN s.supply <= MaxSupply
    ELSE s.miningIssued <= MiningBudget /\ s.genesisSupply + s.miningIssued <= MaxSupply

-----------------------------------------------------------------------------
(* Ledger state *)

genesisSnapshot ==
    LET total == IF Phase7 THEN SumFunction(GenesisAlloc) ELSE 0
    IN  [balances      |-> IF Phase7 THEN GenesisAlloc ELSE [a \in Addresses |-> 0],
         nonces        |-> [a \in Addresses |-> 0],
         genesisSupply |-> total,
         miningIssued  |-> 0,
         supply        |-> total]

isCoinbase(tx) == tx.sender = Coinbase

(* The positions of the coinbases in a list of transactions. *)
coinbases(txs) == {k \in DOMAIN txs : isCoinbase(txs[k])}

credit(balances, addr, amount) == [balances EXCEPT ![addr] = @ + amount]

debit(balances, addr, amount) == [balances EXCEPT ![addr] = @ - amount]

applyCoinbase(s, tx) ==
    IF \E n \in {s.balances[tx.receiver], s.miningIssued, s.supply} : n + tx.amount > MaxWord
    THEN Invalid
    ELSE [balances      |-> credit(s.balances, tx.receiver, tx.amount),
          nonces        |-> s.nonces,
          genesisSupply |-> s.genesisSupply,
          miningIssued  |-> s.miningIssued + tx.amount,
          supply        |-> s.supply + tx.amount]

(* Mutant: gaps in the nonces are tolerated. *)
nonceNotUsed(s, tx) == tx.nonce >= s.nonces[tx.sender]

nonceValid(s, tx) ==
    Version >= 2 => tx.nonce = s.nonces[tx.sender] /\ tx.nonce # MaxWord

(* What a transfer does once it may: V1 keeps no nonces. *)
transferred(s, tx, balances) ==
    [balances      |-> balances,
     nonces        |-> IF Version < 2 THEN s.nonces ELSE [s.nonces EXCEPT ![tx.sender] = @ + 1],
     genesisSupply |-> s.genesisSupply,
     miningIssued  |-> s.miningIssued,
     supply        |-> s.supply]

(* Mutants: both balances are read before either is written, so a transfer to
   oneself makes coins; the overdraft check is missing. *)
applyFromStaleBalances(s, tx) ==
    IF ~tx.valid \/ ~nonceValid(s, tx) \/ tx.amount > s.balances[tx.sender] THEN Invalid
    ELSE transferred(s, tx, [debit(s.balances, tx.sender, tx.amount)
                             EXCEPT ![tx.receiver] = s.balances[tx.receiver] + tx.amount])

applyOverdraft(s, tx) ==
    IF ~tx.valid \/ ~nonceValid(s, tx) THEN Invalid
    ELSE transferred(s, tx, credit(debit(s.balances, tx.sender, tx.amount), tx.receiver, tx.amount))

applyTransfer(s, tx) ==
    LET debited == debit(s.balances, tx.sender, tx.amount)
    IN  IF \/ ~tx.valid \/ ~nonceValid(s, tx)
           \/ tx.amount > s.balances[tx.sender]
           \/ debited[tx.receiver] + tx.amount > MaxWord
        THEN Invalid
        ELSE transferred(s, tx, credit(debited, tx.receiver, tx.amount))

applyTransaction(s, tx) ==
    IF s = Invalid THEN Invalid
    ELSE IF isCoinbase(tx) THEN applyCoinbase(s, tx) ELSE applyTransfer(s, tx)

applyTransactions(s, txs) ==
    LET after[k \in 0..Len(txs)] == IF k = 0 THEN s ELSE applyTransaction(after[k - 1], txs[k])
    IN  after[Len(txs)]

coinbaseValid(tx, r) == tx.valid /\ tx.amount = r

-----------------------------------------------------------------------------
(* Incremental rules: one block on its parent's snapshot *)

identities(ch) == UNION {{ch[i].txs[k].id : k \in DOMAIN ch[i].txs} : i \in DOMAIN ch}

identitiesFresh(prefix, b) ==
    /\ \A k \in DOMAIN b.txs : b.txs[k].id \notin identities(prefix)
    /\ \A i, j \in DOMAIN b.txs : b.txs[i].id = b.txs[j].id => i = j

transactionsValid(prefix, b, r) ==
    /\ identitiesFresh(prefix, b)
    /\ \A k \in DOMAIN b.txs : IF isCoinbase(b.txs[k]) THEN coinbaseValid(b.txs[k], r) ELSE b.txs[k].valid
    /\ Cardinality(coinbases(b.txs)) = 1
    /\ b.sealed

applyIncrementalBlock(s, b, r) ==
    LET next == applyTransactions(s, b.txs)
    IN  IF /\ next # Invalid
           /\ \A k \in coinbases(b.txs) : coinbaseValid(b.txs[k], r)
           /\ Cardinality(coinbases(b.txs)) = 1
           /\ supplyWithinPlan(next)
        THEN next ELSE Invalid

headerValid(b, prefix) ==
    /\ b.index = Last(prefix).index + 1
    /\ timestampValid(b.time, prefix)
    /\ b.difficulty = requiredNextDifficulty(prefix)
    /\ b.pow

(* Mutant: the genesis allocation counts against the mining budget. *)
validateAgainstSupply(b, prefix, parent) ==
    LET r == reward(parent.supply, parent.supply)
    IN  IF headerValid(b, prefix) /\ r # 0 /\ transactionsValid(prefix, b, r)
        THEN applyIncrementalBlock(parent, b, r)
        ELSE Invalid

validateIncrementalBlock(b, prefix, parent) ==
    LET r == reward(parent.miningIssued, parent.supply)
    IN  IF headerValid(b, prefix) /\ r # 0 /\ transactionsValid(prefix, b, r)
        THEN applyIncrementalBlock(parent, b, r)
        ELSE Invalid

-----------------------------------------------------------------------------
(* Full rules: a whole chain from genesis *)

issuedIn(txs) ==
    LET total[k \in 0..Len(txs)] ==
            IF k = 0 THEN 0 ELSE total[k - 1] + (IF isCoinbase(txs[k]) THEN txs[k].amount ELSE 0)
    IN  total[Len(txs)]

miningIssuedFor(ch) ==
    LET total[i \in 0..Len(ch)] == IF i = 0 THEN 0 ELSE total[i - 1] + issuedIn(ch[i].txs)
    IN  total[Len(ch)]

(* replayV2State re-checks every coinbase against the reward of its height,
   replayBalances (V1) only applies amounts; both refuse a repeated identity. *)
replayBlock(ch, i, s) ==
    LET b == ch[i]
        r == reward(miningIssuedFor(SubSeq(ch, 1, i - 1)), 0)
    IN  IF s = Invalid \/ ~identitiesFresh(SubSeq(ch, 1, i - 1), b) THEN Invalid
        ELSE IF Version >= 2 /\ ~(/\ r # 0
                                  /\ \A k \in coinbases(b.txs) : coinbaseValid(b.txs[k], r)
                                  /\ Cardinality(coinbases(b.txs)) = 1
                                  /\ b.sealed)
             THEN Invalid
             ELSE applyTransactions(s, b.txs)

replayState(ch) ==
    LET step[i \in 1..Len(ch)] == IF i = 1 THEN genesisSnapshot ELSE replayBlock(ch, i, step[i - 1])
        s == step[Len(ch)]
    IN  IF s = Invalid \/ ~supplyWithinPlan(s) THEN Invalid ELSE s

appliedTo(prefix, b) == applyTransactions(replayState(prefix), b.txs)

(* V1: stateTransition, after transactionsValid *)
stateTransition(prefix, b, r) ==
    LET next == appliedTo(prefix, b)
    IN  /\ next # Invalid
        /\ Cardinality(coinbases(b.txs)) = 1
        /\ \A k \in coinbases(b.txs) : b.txs[k].amount = r
        /\ supplyWithinPlan(next)
        /\ next.supply <= MaxSupply

validateV2TransactionsAndState(prefix, b, r) ==
    /\ transactionsValid(prefix, b, r)
    /\ appliedTo(prefix, b) # Invalid

validateNext(b, prefix) ==
    LET mined == miningIssuedFor(prefix)
        r     == reward(mined, mined)
    IN  /\ headerValid(b, prefix)
        /\ r # 0
        /\ IF Version >= 2
           THEN validateV2TransactionsAndState(prefix, b, r)
           ELSE transactionsValid(prefix, b, r) /\ stateTransition(prefix, b, r)

validateChain(ch) == \A i \in 2..Len(ch) : validateNext(ch[i], SubSeq(ch, 1, i - 1))

fullState(ch) == IF validateChain(ch) THEN replayState(ch) ELSE Invalid
=============================================================================
