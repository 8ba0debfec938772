---------------------------- MODULE FeeEstimator ----------------------------
(***************************************************************************)
(* mempool.FeeEstimator of one chain: transactions are observed when the   *)
(* pool accepts them, put in the bin of the number of blocks they took     *)
(* when a block mines them, and taken out again by Rollback.  Save and     *)
(* RestoreFeeEstimator carry the estimator over a fast start.              *)
(*                                                                         *)
(* ef.mtx is held for the whole of every operation, so the steps of the    *)
(* loops of RegisterBlock and Rollback (`step`) exclude the operations of  *)
(* other threads; they are steps because the order of the transactions (a  *)
(* Go map) and the ones that are replaced (math/rand) are arbitrary.       *)
(*                                                                         *)
(* A start without a saved estimator replays the stored chain into a new   *)
(* one (engine.go:144-174), while netsync runs already: a transaction that *)
(* arrives meanwhile is observed at the best height of the stored chain,   *)
(* which the estimator has not reached yet.                                *)
(*                                                                         *)
(* Blocks are those of a valid branch: they extend it by one and mine a    *)
(* transaction once.  That holds of transactions with a nullifier; for the *)
(* others, and for what a second mining does, see MinedOnce and            *)
(* StallNeedsRepeat of Mempool.  A transaction is its hash, a positive     *)
(* number.  Nothing in the node calls Rollback; here any caller may, as    *)
(* its comment offers.                                                     *)
(***************************************************************************)
EXTENDS Integers, Sequences, FiniteSets, SequencesExt, TLC

CONSTANTS
  Tx,               \* hashes of the transactions
  Rate,             \* fee rate of each
  Depth,            \* estimateFeeDepth
  BinSize,          \* estimateFeeBinSize
  MaxReplacements,  \* estimateFeeMaxReplacements
  MaxRollback,      \* DefaultEstimateFeeMaxRollback
  MinRegistered,    \* DefaultEstimateFeeMinRegisteredBlocks
  Stored,           \* best height of the chain that is stored at the start
  MaxHeight,        \* bound: height of the highest block
  MaxRollbacks      \* bound: calls of Rollback

ASSUME FeeEstimatorAssumption ==
  /\ IsFiniteSet(Tx) /\ Tx \subseteq Nat \ {0}
  /\ Rate \in [Tx -> Nat]
  /\ Depth \in Nat /\ Depth > 1
  /\ MaxReplacements \in Nat \ {0}
  /\ BinSize \in Nat /\ BinSize > MaxReplacements
  /\ MaxRollback \in Nat
  /\ MinRegistered \in Nat
  /\ MaxHeight \in Nat /\ MaxHeight > 1
  /\ Stored \in 1..MaxHeight
  /\ MaxRollbacks \in Nat

Unmined == 0     \* UnminedHeight; also: no block seen, not observed
Nil     == <<>>  \* no cached estimates

VARIABLES
  lastKnown,  \* lastKnownHeight
  num,        \* numBlocksRegistered
  observed,   \* height at which a transaction was observed, or Unmined
  mined,      \* height at which an observed transaction was mined
  bin,        \* bin[n]: transactions mined n blocks after they were observed
  dropped,    \* per registered block, the transactions it dropped from bins
  cached,     \* the cached estimates
  step,       \* operation that holds ef.mtx: "idle", "register", "rollback"
  todo,       \* RegisterBlock: observed transactions of the block to go
  count,      \* RegisterBlock: replacementCounts
  cur,        \* RegisterBlock: transactions dropped so far
  undo,       \* Rollback: blocks still to be rolled back
  branch,     \* transactions of the blocks from height 2 on (the chain)
  before,     \* history: contents of the bins before each block of dropped
  rollbacks,  \* calls of Rollback so far
  failed      \* how the estimator broke: "none", "mined", "index", "illegal"

estimator == <<lastKnown, num, observed, mined, bin, dropped, cached>>
loop      == <<step, todo, count, cur, undo>>
env       == <<branch, before, rollbacks, failed>>
vars      == <<estimator, loop, env>>

Bins == 1..Depth
Seen == {tx \in Tx : observed[tx] # Unmined}

TypeOK ==
  /\ lastKnown \in 0..MaxHeight
  /\ num \in 0..MaxHeight
  /\ observed \in [Tx -> 0..MaxHeight]
  /\ mined \in [Tx -> 0..MaxHeight]
  /\ bin \in [Bins -> Seq(Tx)]
  /\ \A n \in Bins : Len(bin[n]) <= BinSize
  /\ dropped \in Seq(Seq(Tx)) /\ Len(dropped) <= MaxRollback
  /\ cached = Nil \/ DOMAIN cached = Bins
  /\ step \in {"idle", "register", "rollback"}
  /\ todo \subseteq Seen
  /\ count \in [Bins -> 0..MaxReplacements]
  /\ cur \in Seq(Tx)
  /\ undo \in 0..MaxRollback
  /\ branch \in Seq(SUBSET Tx)
  /\ before \in Seq([Bins -> SUBSET Tx])
  /\ Len(before) = Len(dropped) + (IF step = "register" THEN 1 ELSE 0)
  /\ rollbacks \in 0..MaxRollbacks
  /\ failed \in {"none", "mined", "index", "illegal"}

Empty == [n \in Bins |-> <<>>]

\* NewFeeEstimator
Init ==
  /\ lastKnown = Unmined
  /\ num = 0
  /\ observed = [tx \in Tx |-> Unmined]
  /\ mined = [tx \in Tx |-> Unmined]
  /\ bin = Empty
  /\ dropped = <<>>
  /\ cached = Nil
  /\ step = "idle" /\ todo = {} /\ cur = <<>> /\ undo = 0
  /\ count = [n \in Bins |-> 0]
  /\ branch = <<>> /\ before = <<>> /\ rollbacks = 0
  /\ failed = "none"

Free  == step = "idle" /\ failed = "none"
Chain == UNION ToSet(branch)

\* The best height: that of the stored chain while it is replayed (nothing is
\* rolled back then); afterwards UpdateChain raises it once it has registered
\* the block.
BestHeights ==
  IF lastKnown <= Stored /\ rollbacks = 0 THEN {Stored} ELSE {lastKnown - 1, lastKnown}

\* ObserveTransaction: the pool has accepted tx at the best height.
ObserveTransaction(tx, height) ==
  /\ Free
  /\ lastKnown # Unmined
  /\ tx \notin Seen \cup Chain
  /\ height > 0
  /\ observed' = [observed EXCEPT ![tx] = height]
  /\ UNCHANGED <<lastKnown, num, mined, bin, dropped, cached, loop, env>>

(***************************************************************************)
(* -------------------------- RegisterBlock ------------------------------ *)
(***************************************************************************)

\* A block that does not follow the last one is refused.
RefuseBlock ==
  /\ Free
  /\ lastKnown # Unmined
  /\ cached' = Nil
  /\ UNCHANGED <<lastKnown, num, observed, mined, bin, dropped, loop, env>>

\* Height of the next block of the branch.
Height == Len(branch) + 2

\* Start on a block; its transactions that were not observed are passed over.
RegisterBlock(block) ==
  /\ Free
  /\ Height <= MaxHeight
  /\ Height = lastKnown + 1 \/ lastKnown = Unmined
  /\ cached' = Nil
  /\ lastKnown' = Height
  /\ num' = num + 1
  /\ step' = "register"
  /\ todo' = block \cap Seen
  /\ count' = [n \in Bins |-> 0]
  /\ cur' = <<>>
  /\ branch' = Append(branch, block)
  /\ before' = Append(before, [n \in Bins |-> ToSet(bin[n])])
  /\ UNCHANGED <<observed, mined, bin, dropped, undo, rollbacks, failed>>

\* blocksToConfirm + 1
ToConfirm(tx) == lastKnown - observed[tx]

Registering(tx) == step = "register" /\ failed = "none" /\ tx \in todo

\* "has already been mined", or an index below zero: RegisterBlock ends.
BreakOn(tx) ==
  /\ Registering(tx)
  /\ mined[tx] = Unmined => ToConfirm(tx) < 1
  /\ failed' = IF mined[tx] # Unmined THEN "mined" ELSE "index"
  /\ UNCHANGED <<estimator, loop, branch, before, rollbacks>>

\* A transaction that took too long, or whose bin has had its replacements.
SkipTx(tx) ==
  /\ Registering(tx)
  /\ mined[tx] = Unmined
  /\ ToConfirm(tx) > 0
  /\ ToConfirm(tx) <= Depth => count[ToConfirm(tx)] = MaxReplacements
  /\ todo' = todo \ {tx}
  /\ UNCHANGED <<estimator, step, count, cur, undo, env>>

\* Mutant of Replaceable: transactions of this block are not spared.
ReplaceableAll(n) == BinSize

\* Leading positions of a full bin that are not of this block: those that
\* follow were filled by it (count[n] is raised before).
Replaceable(n) == BinSize - (count[n] + 1)

\* The transaction goes to its bin, in place of another when that is full.
MineTx(tx) ==
  LET n == ToConfirm(tx)
      l == Replaceable(n)
  IN /\ Registering(tx)
     /\ mined[tx] = Unmined
     /\ n \in Bins
     /\ count[n] # MaxReplacements
     /\ mined' = [mined EXCEPT ![tx] = lastKnown]
     /\ count' = [count EXCEPT ![n] = @ + 1]
     /\ todo' = todo \ {tx}
     /\ \/ /\ Len(bin[n]) < BinSize
           /\ bin' = [bin EXCEPT ![n] = Append(@, tx)]
           /\ cur' = cur
        \/ /\ Len(bin[n]) = BinSize
           /\ \E drop \in 1..l :
                /\ cur' = Append(cur, bin[n][drop])
                /\ bin' = [bin EXCEPT ![n][drop] = bin[n][l], ![n][l] = tx]
     /\ UNCHANGED <<lastKnown, num, observed, dropped, cached, step, undo, env>>

\* Mutant of TooOld: transactions in bins are forgotten too.
TooOldAny(tx) == lastKnown - observed[tx] >= Depth

\* Observed so long ago that it no longer fits a bin.
TooOld(tx) == mined[tx] = Unmined /\ lastKnown - observed[tx] >= Depth

\* Keep the last MaxRollback elements.
Trim(s) == IF Len(s) > MaxRollback THEN Tail(s) ELSE s

\* Forget what is too old and put the block on the stack.
EndRegister ==
  /\ step = "register"
  /\ failed = "none"
  /\ todo = {}
  /\ observed' = [tx \in Tx |-> IF TooOld(tx) THEN Unmined ELSE observed[tx]]
  /\ dropped' = Trim(Append(dropped, cur))
  /\ before' = Trim(before)
  /\ step' = "idle"
  /\ UNCHANGED <<lastKnown, num, mined, bin, cached, todo, count, cur, undo,
                 branch, rollbacks, failed>>

(***************************************************************************)
(* ------------------------------ Rollback ------------------------------- *)
(***************************************************************************)

\* Find the block among the n last ones and roll back to before it.
Rollback(n) ==
  /\ Free
  /\ rollbacks < MaxRollbacks
  /\ n <= Len(dropped)
  /\ step' = "rollback"
  /\ undo' = n
  /\ rollbacks' = rollbacks + 1
  /\ UNCHANGED <<estimator, todo, count, cur, branch, before, failed>>

\* How many numbers of a set are at most k.
Rank(S, k) == Cardinality({j \in S : j <= k})

\* The elements of s at the positions P, in their order.
At(s, P) == [k \in 1..Cardinality(P) |-> s[CHOOSE i \in P : Rank(P, i) = k]]

\* Which bin a mined transaction goes to, or was in.
BinOf(tx) == mined[tx] - observed[tx]

\* Transactions that the last block dropped from bin n.
DroppedFrom(n) ==
  LET d == Last(dropped) IN At(d, {k \in DOMAIN d : BinOf(d[k]) = n})

\* Positions of bin n that the last block filled.
Filled(n) == {k \in DOMAIN bin[n] : mined[bin[n][k]] = lastKnown}

\* Bin n with what the last block dropped, in order, at the first positions
\* that it filled.
Refilled(n) ==
  [k \in DOMAIN bin[n] |->
     IF k \in Filled(n) /\ Rank(Filled(n), k) <= Len(DroppedFrom(n))
     THEN DroppedFrom(n)[Rank(Filled(n), k)] ELSE bin[n][k]]

\* Mutant of Unfilled: transactions that replaced no other stay.
UnfilledPut(n) == Refilled(n)

\* Bin n without the last block: the transactions at the other positions that
\* it filled are removed.
Unfilled(n) ==
  At(Refilled(n), {k \in DOMAIN bin[n] : k \in Filled(n) =>
                     Rank(Filled(n), k) <= Len(DroppedFrom(n))})

\* Mutant of RolledBack: transactions stay mined.
RolledBackMined ==
  /\ mined' = mined
  /\ cached' = Nil

\* Transactions of the last block are no longer mined, nor estimates cached.
RolledBack ==
  /\ mined' = [tx \in Tx |->
                 IF mined[tx] = lastKnown /\ \E n \in Bins : Contains(bin[n], tx)
                 THEN Unmined ELSE mined[tx]]
  /\ cached' = Nil

\* rollback: undo the last block.
RollbackOne ==
  /\ step = "rollback"
  /\ failed = "none"
  /\ undo > 0
  /\ \A n \in Bins : Len(DroppedFrom(n)) <= Cardinality(Filled(n))
  /\ RolledBack
  /\ bin' = [n \in Bins |-> Unfilled(n)]
  /\ dropped' = Front(dropped)
  /\ num' = num - 1
  /\ lastKnown' = lastKnown - 1
  /\ undo' = undo - 1
  /\ branch' = Front(branch)
  /\ before' = Front(before)
  /\ UNCHANGED <<observed, step, todo, count, cur, rollbacks, failed>>

\* End of Rollback, at its last block or in a panic for a dropped transaction
\* that finds no place.
EndRollback ==
  /\ step = "rollback"
  /\ failed = "none"
  /\ undo > 0 => \E n \in Bins : Len(DroppedFrom(n)) > Cardinality(Filled(n))
  /\ failed' = IF undo > 0 THEN "illegal" ELSE "none"
  /\ step' = "idle"
  /\ UNCHANGED <<estimator, todo, count, cur, undo, branch, before, rollbacks>>

(***************************************************************************)
(* ----------------------------- EstimateFee ----------------------------- *)
(***************************************************************************)

\* Less: the order in which rates are sorted.
Dearer(r, s) == r > s

\* newEstimateFeeSet: the rates of all bins, sorted.
FeeRates ==
  LET txs == FlattenSeq(bin)
  IN SortSeq([k \in DOMAIN txs |-> Rate[txs[k]]], Dearer)

\* Transactions in the first n bins.
Upto(n) == Len(FlattenSeq(SubSeq(bin, 1, n)))

\* estimateFee: the median of the part of FeeRates as long as bin n that
\* follows the parts of the bins before it.
Estimate(n) ==
  LET rates == FeeRates
      min == Upto(n - 1)
      max == IF bin[n] = <<>> THEN min ELSE Upto(n) - 1
      feeIndex == (min + max) \div 2
  IN IF rates = <<>> THEN 0
     ELSE rates[1 + IF feeIndex >= Len(rates) THEN Len(rates) - 1 ELSE feeIndex]

\* estimates
Estimates == [n \in Bins |-> Estimate(n)]

\* EstimateFee answers from the cache, which it fills when there is none.
EstimateFee ==
  /\ Free
  /\ num >= MinRegistered
  /\ cached = Nil
  /\ cached' = Estimates
  /\ UNCHANGED <<lastKnown, num, observed, mined, bin, dropped, loop, env>>

(***************************************************************************)
(* ----------------- Save, RestoreFeeEstimator at a start ---------------- *)
(***************************************************************************)

\* Index of a transaction among the saved ones, which are sorted by hash; a
\* transaction that is not observed gets the zero value of a Go map.
SavedIndex(tx) ==
  IF tx \in Seen THEN Cardinality({u \in Seen : u < tx}) ELSE 0

\* The transaction read back for a saved reference.
Restored(tx) == CHOOSE u \in Seen : SavedIndex(u) = SavedIndex(tx)

RestoredSeq(s) == [k \in DOMAIN s |-> Restored(s[k])]

\* The references of the bins can be followed.
Readable == Seen # {} \/ bin = Empty

\* Stop saves the estimator and the next fast start reads it; a reference to
\* nothing makes the start begin with a new estimator.
Restart ==
  /\ Free
  /\ lastKnown' = IF Readable THEN lastKnown ELSE Unmined
  /\ num' = IF Readable THEN num ELSE 0
  /\ bin' = IF Readable THEN [n \in Bins |-> RestoredSeq(bin[n])] ELSE Empty
  /\ dropped' = IF Readable THEN [k \in DOMAIN dropped |-> RestoredSeq(dropped[k])]
                ELSE <<>>
  /\ mined' = [tx \in Tx |-> IF tx \in Seen THEN mined[tx] ELSE Unmined]
  /\ cached' = Nil
  /\ UNCHANGED <<observed, loop, env>>

Next ==
  \/ \E tx \in Tx : \E height \in BestHeights :
       ObserveTransaction(tx, height)
  \/ RefuseBlock
  \/ \E block \in SUBSET (Tx \ Chain) : RegisterBlock(block)
  \/ \E tx \in Tx : BreakOn(tx) \/ SkipTx(tx) \/ MineTx(tx)
  \/ EndRegister
  \/ \E n \in 1..MaxRollback : Rollback(n)
  \/ RollbackOne
  \/ EndRollback
  \/ EstimateFee
  \/ Restart

Spec == Init /\ [][Next]_vars

(***************************************************************************)
(* ----------------------------- Properties ------------------------------ *)
(***************************************************************************)

\* A transaction in a bin was mined as many blocks after it was observed as
\* the bin says and is in no other place of the bins, and what a block still on
\* the stack dropped from them is in none (RegisterBlock, rollback).
BinsSound ==
  /\ \A n \in Bins : \A k \in DOMAIN bin[n] :
       LET tx == bin[n][k]
       IN /\ mined[tx] # Unmined
          /\ mined[tx] - observed[tx] = n
          /\ \A m \in Bins : \A j \in DOMAIN bin[m] :
               bin[m][j] = tx => m = n /\ j = k
  /\ \A b \in ToSet(dropped) : \A tx \in ToSet(b) : \A n \in Bins :
       ~ Contains(bin[n], tx)

\* What RegisterBlock and rollback say shouldn't happen does not: no
\* transaction is met that is mined already, though Rollback may have brought
\* it back to the pool, and no dropped transaction is left without a place.  An
\* index below zero needs an observation above the block: one during the replay
\* of the stored chain, or a Rollback to below it.
NoFailure ==
  failed = "none" \/ (failed = "index" /\ (rollbacks > 0 \/ lastKnown <= Stored))

\* Rolling a block back leaves every bin with the transactions it had before
\* the block was registered, replaced ones included.
RollbackRestores ==
  [][dropped' = Front(dropped) /\ step = "rollback" /\ undo' # undo =>
       \A n \in Bins : ToSet(bin'[n]) = Last(before)[n]]_vars

\* A fast start after a clean stop finds bins and stack as they were: every
\* transaction in them is still among the observed ones that Save writes.
RestoredAsSaved == [][Restart => UNCHANGED <<bin, dropped>>]_vars

(***************************************************************************)
(* The inductive invariant behind these properties.  Layer k of the stack  *)
(* is the block of before[k]; that of the block being registered is on top *)
(* of those of dropped.                                                    *)
(***************************************************************************)
Layers      == 1..Len(before)
HeightOf(k) == lastKnown - Len(before) + k
Held(k, n)  == IF k \in Layers THEN before[k][n] ELSE ToSet(bin[n])
Drop(k)     == IF k <= Len(dropped) THEN dropped[k] ELSE cur

\* The estimator is at the top of the branch, and the stack covers its end.
BranchInv ==
  /\ num = Len(branch) /\ Len(branch) < MaxHeight
  /\ lastKnown = Len(branch) + 1 \/ (lastKnown = Unmined /\ branch = <<>>)
  /\ Len(before) <= Len(branch)
  /\ step = "rollback" => undo <= Len(dropped) /\ rollbacks > 0

\* What is mined is on the branch, where its height says, and still observed.
RecordInv ==
  \A tx \in Tx : mined[tx] # Unmined =>
    /\ observed[tx] # Unmined
    /\ BinOf(tx) \in Bins
    /\ mined[tx] \in 2..lastKnown /\ tx \in branch[mined[tx] - 1]

\* The transactions of a block to go were not mined before, and were observed
\* below its height or by the end of the replay if there was no Rollback.
ObserveInv ==
  /\ step = "register" => \A tx \in todo :
       mined[tx] = Unmined /\ tx \in branch[lastKnown - 1]
  /\ rollbacks = 0 => \A tx \in Tx :
       \/ observed[tx] <= Stored
       \/ observed[tx] <= IF step = "register" THEN lastKnown - 1 ELSE lastKnown

\* Bins hold mined transactions, each once; those of the block that is being
\* registered are at the end of full ones.
BinInv ==
  \A n \in Bins :
    /\ \A k \in DOMAIN bin[n] : mined[bin[n][k]] # Unmined /\ BinOf(bin[n][k]) = n
    /\ IsInjective(bin[n])
    /\ step = "register" => \A k \in DOMAIN bin[n] :
         mined[bin[n][k]] = lastKnown => k >= Len(bin[n]) - count[n]

\* What bin n held before the block of layer k is what it held after it, without
\* what the block put there and with what it dropped, which is only from full
\* bins.
BinLayerInv(k, n) ==
  /\ Cardinality(Held(k, n)) <= BinSize
  /\ \A tx \in Held(k, n) : /\ mined[tx] # Unmined /\ mined[tx] < HeightOf(k)
                             /\ BinOf(tx) = n
  /\ Held(k, n) = {tx \in Held(k + 1, n) : mined[tx] # HeightOf(k)}
                     \cup {tx \in ToSet(Drop(k)) : BinOf(tx) = n}
  /\ (\E tx \in ToSet(Drop(k)) : BinOf(tx) = n) =>
       Cardinality(Held(k + 1, n)) = BinSize

\* What the block mined is in the bins after it, what it dropped is in none from
\* then on, and it dropped nothing twice.
LayerInv(k) ==
  /\ \A n \in Bins : BinLayerInv(k, n)
  /\ \A tx \in Tx : mined[tx] = HeightOf(k) => tx \in Held(k + 1, BinOf(tx))
  /\ IsInjective(Drop(k))
  /\ \A tx \in ToSet(Drop(k)) :
       /\ BinOf(tx) \in Bins
       /\ \A j \in (k + 1)..(Len(before) + 1), n \in Bins : tx \notin Held(j, n)

StackInv == \A k \in Layers : LayerInv(k)

EstimatorInv ==
  BranchInv /\ RecordInv /\ ObserveInv /\ BinInv /\ StackInv /\ NoFailure
=============================================================================
