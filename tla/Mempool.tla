------------------------------ MODULE Mempool -------------------------------
(***************************************************************************)
(* mempool.TxPool between the threads that use it: RPC and netsync offer   *)
(* transactions (MaybeAcceptTransaction), the producer builds blocks from  *)
(* the pool (NewBlockTemplate), UpdateChain connects a block, registers it *)
(* with the fee estimator and removes its transactions, and Engine.Start   *)
(* replays the stored blocks while RPC and netsync are already running.    *)
(*                                                                         *)
(* tp.mtx is held by `acc` for the whole of MaybeAcceptTransaction, whose  *)
(* checks read a database that ConnectBlock writes without that lock.      *)
(*                                                                         *)
(* One chain.  A transaction is the set of its nullifiers (the coins of    *)
(* its Descs), which may be empty: nothing requires a Desc.  Custom-token  *)
(* transactions are refused by ValidateSanityData, whose check of the type *)
(* (mempool.go:214) knows normal and salary ones alone, so none gets into  *)
(* a pool or, after genesis, into a block; being offered one can still     *)
(* bring the process down.  Votes, loans and the other types are refused   *)
(* by CheckTransactionFee.  The other checks depend on nothing that        *)
(* changes.  A start is a full one (FastMode off, see ChainStore), so      *)
(* nullifiers begin empty.                                                 *)
(***************************************************************************)
EXTENDS Naturals, Sequences, FiniteSets

CONSTANTS
  Tx,          \* transactions that may be offered
  Token,       \* those of type TxCustomTokenType; the others are TxNormalType
  Nulls,       \* their nullifiers
  NoTx,        \* no transaction
  Depth,       \* estimateFeeDepth
  MaxInBlock,  \* common.MaxTxsInBlock
  MaxHeight,   \* bound: height of the highest block
  MaxStarts,   \* bound: how often the process is started
  Owns         \* does the node lead the chain: a subset of BOOLEAN

Nullifier == UNION {Nulls[tx] : tx \in Tx}

ASSUME MempoolAssumption ==
  /\ IsFiniteSet(Tx)
  /\ Token \subseteq Tx
  /\ NoTx \notin Tx
  /\ Depth \in Nat \ {0}
  /\ MaxInBlock \in Nat \ {0}
  /\ MaxHeight \in Nat \ {0}
  /\ MaxStarts \in Nat \ {0}
  /\ Owns \subseteq BOOLEAN

Unmined == 0  \* UnminedHeight; also: no block seen, not observed

VARIABLES
  \* the database
  chain,       \* transactions of the blocks from height 2 on
  nullifiers,  \* stored nullifiers
  \* the pool
  pool,            \* tp.pool
  poolNullifiers,  \* transactions with an entry in tp.poolNullifiers
  acc, accStep,    \* the transaction MaybeAcceptTransaction is at, and where
  accHeight,       \* the bestHeight it has read, 1 when there is none
  \* the fee estimator
  lastKnown,   \* lastKnownHeight
  observed,    \* height at which a transaction was observed, or Unmined
  mined,       \* height at which an observed transaction was mined
  \* the thread that brings in blocks: main during the replay, then the
  \* producer or netsync
  up,          \* "boot", "replay", "run"
  step, blk,   \* where it is, with which block
  toRemove,    \* transactions of blk still to be removed from the pool
  \* the environment
  own,         \* this node leads the chain
  starts,      \* starts of the process
  cut,         \* the replay has ended in an error that Start has missed
  early,       \* history: transactions that were checked against a database
               \* without all nullifiers of the chain
  fatal        \* what the process died of: "none", "nil", "cast", "index"

db        == <<chain, nullifiers>>
poolVars  == <<pool, poolNullifiers, acc, accStep, accHeight>>
estimator == <<lastKnown, observed, mined>>
worker    == <<up, step, blk, toRemove>>
env       == <<own, starts, cut, early, fatal>>
vars      == <<db, poolVars, estimator, worker, env>>

Best == Len(chain) + 1

TypeOK ==
  /\ chain \in Seq(SUBSET Tx) /\ Best <= MaxHeight
  /\ nullifiers \subseteq Nullifier
  /\ pool \subseteq Tx
  /\ poolNullifiers \subseteq Tx
  /\ acc \in Tx \cup {NoTx}
  /\ accStep \in {"idle", "chain", "add"}
  /\ accHeight \in 1..MaxHeight
  /\ lastKnown \in 0..MaxHeight
  /\ observed \in [Tx -> 0..MaxHeight]
  /\ mined \in [Tx -> 0..MaxHeight]
  /\ up \in {"boot", "replay", "run"}
  /\ step \in {"idle", "finalize", "connect", "register", "remove"}
  /\ blk \subseteq Tx
  /\ toRemove \subseteq blk
  /\ own \in BOOLEAN
  /\ starts \in 1..MaxStarts
  /\ cut \in BOOLEAN
  /\ early \subseteq Tx
  /\ fatal \in {"none", "nil", "cast", "index"}

Init ==
  /\ chain = <<>>
  /\ nullifiers = {}
  /\ pool = {}
  /\ poolNullifiers = {}
  /\ acc = NoTx /\ accStep = "idle" /\ accHeight = 1
  /\ lastKnown = Unmined
  /\ observed = [tx \in Tx |-> Unmined]
  /\ mined = [tx \in Tx |-> Unmined]
  /\ up = "boot"
  /\ step = "idle" /\ blk = {} /\ toRemove = {}
  /\ own \in Owns
  /\ starts = 1
  /\ cut = FALSE
  /\ early = {}
  /\ fatal = "none"

Alive   == fatal = "none"
MtxFree == acc = NoTx

\* The database has the nullifiers of all blocks before the one at hand.
ViewWhole == up = "run" /\ ~cut

(***************************************************************************)
(* ---------------------- MaybeAcceptTransaction ------------------------- *)
(***************************************************************************)

\* ValidateDoubleSpendTxWithCurrentMempool refuses a transaction unless all its
\* nullifiers are in every entry of poolNullifiers.
CoinsPass(tx) == \A u \in poolNullifiers : Nulls[tx] \subseteq Nulls[u]

\* Lock tp.mtx, read the best height, and check against the pool
\* (ValidateTxWithCurrentMempool).
CheckPool(tx) ==
  /\ Alive
  /\ MtxFree
  /\ CoinsPass(tx)
  /\ tx \in Token => pool = {}
  /\ acc' = tx
  /\ accStep' = "chain"
  /\ accHeight' = Best
  /\ UNCHANGED <<db, pool, poolNullifiers, estimator, worker, env>>

\* ValidateDoubleSpendCustomTokenOnTx asserts that a transaction of the pool is
\* a custom-token one.
CheckPoolPanics(tx) ==
  /\ Alive
  /\ MtxFree
  /\ tx \in Token
  /\ CoinsPass(tx)
  /\ pool # {}
  /\ fatal' = "cast"
  /\ UNCHANGED <<db, poolVars, estimator, worker, own, starts, cut, early>>

\* ValidateDoubleSpend
CoinsFree(tx) == Nulls[tx] \cap nullifiers = {}

\* The checks against the chain, then isTxInPool and ValidateSanityData; a
\* refused transaction unlocks tp.mtx.
CheckChain ==
  /\ Alive
  /\ accStep = "chain"
  /\ IF CoinsFree(acc) /\ acc \notin pool /\ acc \notin Token
     THEN /\ accStep' = "add"
          /\ early' = IF ViewWhole THEN early ELSE early \cup {acc}
          /\ UNCHANGED <<acc, accHeight>>
     ELSE /\ accStep' = "idle"
          /\ acc' = NoTx
          /\ accHeight' = 1
          /\ UNCHANGED early
  /\ UNCHANGED <<db, pool, poolNullifiers, estimator, worker, own, starts, cut,
                 fatal>>

\* Mutant of Observe: the transaction counts as seen in the block to come.
ObserveNext(tx) ==
  IF lastKnown = Unmined \/ observed[tx] # Unmined
  THEN UNCHANGED observed
  ELSE observed' = [observed EXCEPT ![tx] = IF accHeight < MaxHeight
                                            THEN accHeight + 1 ELSE accHeight]

\* FeeEstimator.ObserveTransaction
Observe(tx) ==
  IF lastKnown = Unmined \/ observed[tx] # Unmined
  THEN UNCHANGED observed
  ELSE observed' = [observed EXCEPT ![tx] = accHeight]

\* addTx, and unlock tp.mtx.  Before Engine.Start there is no estimator.
AddTx ==
  /\ Alive
  /\ accStep = "add"
  /\ pool' = pool \cup {acc}
  /\ poolNullifiers' = poolNullifiers \cup {acc}
  /\ Observe(acc)
  /\ fatal' = IF up = "boot" THEN "nil" ELSE "none"
  /\ acc' = NoTx
  /\ accStep' = "idle"
  /\ accHeight' = 1
  /\ UNCHANGED <<db, lastKnown, mined, worker, own, starts, cut, early>>

(***************************************************************************)
(* ------------------------ where blocks come from ----------------------- *)
(***************************************************************************)

\* NewBlockTemplate: up to MaxInBlock transactions of the pool, in the random
\* order of a map.  ValidateTxByItSelf holds for all that were accepted.
Template(S) ==
  /\ Alive
  /\ own
  /\ up = "run"
  /\ step = "idle"
  /\ Best < MaxHeight
  /\ MtxFree
  /\ S \subseteq pool
  /\ Cardinality(S) = MaxInBlock \/ (S = pool /\ Cardinality(S) < MaxInBlock)
  /\ blk' = S
  /\ step' = "finalize"
  /\ UNCHANGED <<db, poolVars, estimator, up, toRemove, env>>

\* Finalize (module Finalize) with or without success.
Finalized ==
  /\ Alive
  /\ step = "finalize"
  /\ step' \in {"idle", "connect"}
  /\ blk' = IF step' = "idle" THEN {} ELSE blk
  /\ UNCHANGED <<db, poolVars, estimator, up, toRemove, env>>

\* OnBlockReceived of a block that passes ValidateTxList.
Receive(S) ==
  /\ Alive
  /\ ~own
  /\ up = "run"
  /\ step = "idle"
  /\ Best < MaxHeight
  /\ S \subseteq Tx \ Token
  /\ Cardinality(S) <= MaxInBlock
  /\ \A tx \in S : CoinsFree(tx)
  /\ blk' = S
  /\ early' = IF ViewWhole THEN early ELSE early \cup S
  /\ step' = "connect"
  /\ UNCHANGED <<db, poolVars, estimator, up, toRemove, own, starts, cut,
                 fatal>>

(***************************************************************************)
(* ----------------------- UpdateChain and replay ------------------------ *)
(***************************************************************************)

\* Nullifiers of the block that are not stored yet.
NewNullifiers ==
  {nf \in Nullifier \ nullifiers : \E tx \in blk : nf \in Nulls[tx]}

\* CreateAndSaveTxViewPoint stores the new nullifiers one after the other.
StoreNullifier(nf) ==
  /\ Alive
  /\ step = "connect"
  /\ nf \in NewNullifiers
  /\ nullifiers' = nullifiers \cup {nf}
  /\ UNCHANGED <<chain, poolVars, estimator, worker, env>>

\* Mutant of Connected: the other nullifiers are left for later.
ConnectedEarly ==
  /\ Alive
  /\ step = "connect"
  /\ step' = "register"
  /\ UNCHANGED <<db, poolVars, estimator, up, blk, toRemove, env>>

\* The end of ConnectBlock, or of the view of a replayed block.
Connected ==
  /\ Alive
  /\ step = "connect"
  /\ NewNullifiers = {}
  /\ step' = "register"
  /\ UNCHANGED <<db, poolVars, estimator, up, blk, toRemove, env>>

\* ConnectBlock fails half-way, and UpdateChain returns.
ConnectFails ==
  /\ Alive
  /\ up = "run"
  /\ step = "connect"
  /\ step' = "idle"
  /\ blk' = {}
  /\ UNCHANGED <<db, poolVars, estimator, up, toRemove, env>>

\* The height of the block: the replay goes up from height 2.
Height ==
  IF up # "replay" THEN Best + 1
  ELSE IF lastKnown = Unmined THEN 2 ELSE lastKnown + 1

\* The observed transactions of the block, and how long each has waited.
Confirmed == {tx \in blk : observed[tx] # Unmined}
BlocksToConfirm(tx) == Height - observed[tx] - 1

\* The block follows the last one that was registered.
InOrder == lastKnown = Unmined \/ Height = lastKnown + 1

Repeated == \E tx \in Confirmed : mined[tx] # Unmined
Negative == \E tx \in Confirmed : observed[tx] >= Height

\* The transactions of S that RegisterBlock puts into bins.
Binned(S) == {tx \in S : mined[tx] = Unmined /\ BlocksToConfirm(tx) < Depth}
MineAll(S) == mined' = [tx \in Tx |-> IF tx \in S THEN Height ELSE mined[tx]]

\* FeeEstimator.RegisterBlock
Register ==
  /\ Alive
  /\ step = "register"
  /\ InOrder
  /\ ~Repeated
  /\ ~Negative
  /\ MineAll(Binned(Confirmed))
  /\ observed' = [tx \in Tx |->
       IF mined'[tx] = Unmined /\ Height >= observed[tx] + Depth
       THEN Unmined ELSE observed[tx]]
  /\ lastKnown' = Height
  /\ step' = IF up = "replay" THEN "idle" ELSE "remove"
  /\ blk' = IF up = "replay" THEN {} ELSE blk
  /\ toRemove' = IF up = "replay" THEN {} ELSE blk
  /\ UNCHANGED <<db, poolVars, up, env>>

\* "intermediate block not recorded": UpdateChain returns.
RegisterOutOfOrder ==
  /\ Alive
  /\ up = "run"
  /\ step = "register"
  /\ ~InOrder
  /\ step' = "idle"
  /\ blk' = {}
  /\ UNCHANGED <<db, poolVars, estimator, up, toRemove, env>>

\* "Transaction has already been mined", after lastKnownHeight was raised and
\* some others were put into bins: UpdateChain returns.
RegisterRepeated ==
  /\ Alive
  /\ up = "run"
  /\ step = "register"
  /\ InOrder
  /\ Repeated
  /\ lastKnown' = Height
  /\ \E S \in SUBSET Confirmed : MineAll(Binned(S))
  /\ step' = "idle"
  /\ blk' = {}
  /\ UNCHANGED <<db, poolVars, observed, up, toRemove, env>>

\* A transaction observed at the block's height or above it has a negative index
\* into the bins: the process dies.
RegisterPanics ==
  /\ Alive
  /\ step = "register"
  /\ InOrder
  /\ Negative
  /\ fatal' = "index"
  /\ UNCHANGED <<db, poolVars, estimator, worker, own, starts, cut, early>>

\* Mutant of RemoveTx: the transaction stays in the pool.
RemoveNothing(tx) ==
  /\ Alive
  /\ step = "remove"
  /\ tx \in toRemove
  /\ MtxFree
  /\ toRemove' = toRemove \ {tx}
  /\ UNCHANGED <<db, poolVars, estimator, up, step, blk, env>>

\* RemoveTx, one transaction at a time; poolNullifiers keeps its entry.
RemoveTx(tx) ==
  /\ Alive
  /\ step = "remove"
  /\ tx \in toRemove
  /\ MtxFree
  /\ pool' = pool \ {tx}
  /\ toRemove' = toRemove \ {tx}
  /\ UNCHANGED <<db, poolNullifiers, acc, accStep, accHeight, estimator, up,
                 step, blk, env>>

\* BestState.Update
UpdateBest ==
  /\ Alive
  /\ step = "remove"
  /\ toRemove = {}
  /\ chain' = Append(chain, blk)
  /\ step' = "idle"
  /\ blk' = {}
  /\ UNCHANGED <<nullifiers, poolVars, estimator, up, toRemove, env>>

(***************************************************************************)
(* ------------------------------ the process ---------------------------- *)
(***************************************************************************)

\* Engine.Start creates the estimators.
StartEngine ==
  /\ Alive
  /\ up = "boot"
  /\ up' = "replay"
  /\ UNCHANGED <<db, poolVars, estimator, step, blk, toRemove, env>>

\* The next block of the replay.
Replay ==
  /\ Alive
  /\ up = "replay"
  /\ step = "idle"
  /\ Height <= Best
  /\ blk' = chain[Height - 1]
  /\ step' = "connect"
  /\ UNCHANGED <<db, poolVars, estimator, up, toRemove, env>>

\* The database fails during the replay.  The report races with Start's select,
\* so the engine may run all the same; otherwise the server is stopped, which is
\* a Restart here.
ReplayFails ==
  /\ Alive
  /\ up = "replay"
  /\ step \in {"idle", "connect"}
  /\ Height <= Best
  /\ up' = "run"
  /\ cut' = TRUE
  /\ step' = "idle"
  /\ blk' = {}
  /\ UNCHANGED <<db, poolVars, estimator, toRemove, own, starts, early,
                 fatal>>

EngineStarted ==
  /\ Alive
  /\ up = "replay"
  /\ step = "idle"
  /\ Height > Best
  /\ up' = "run"
  /\ UNCHANGED <<db, poolVars, estimator, step, blk, toRemove, env>>

\* The process ends, at any moment, and is started again: the pool and the
\* estimator are lost, and NewServer deletes the nullifiers.
Restart ==
  /\ starts < MaxStarts
  /\ starts' = starts + 1
  /\ nullifiers' = {}
  /\ pool' = {} /\ poolNullifiers' = {}
  /\ acc' = NoTx /\ accStep' = "idle" /\ accHeight' = 1
  /\ lastKnown' = Unmined
  /\ observed' = [tx \in Tx |-> Unmined]
  /\ mined' = [tx \in Tx |-> Unmined]
  /\ up' = "boot" /\ step' = "idle" /\ blk' = {} /\ toRemove' = {}
  /\ cut' = FALSE
  /\ fatal' = "none"
  /\ UNCHANGED <<chain, own, early>>

Next ==
  \/ \E tx \in Tx : CheckPool(tx) \/ CheckPoolPanics(tx) \/ RemoveTx(tx)
  \/ CheckChain
  \/ AddTx
  \/ \E S \in SUBSET Tx : Template(S) \/ Receive(S)
  \/ Finalized
  \/ \E nf \in Nullifier : StoreNullifier(nf)
  \/ Connected
  \/ ConnectFails
  \/ Register
  \/ RegisterOutOfOrder
  \/ RegisterRepeated
  \/ RegisterPanics
  \/ UpdateBest
  \/ StartEngine
  \/ Replay
  \/ ReplayFails
  \/ EngineStarted
  \/ Restart

Spec == Init /\ [][Next]_vars

(***************************************************************************)
(* ------------------------------ properties ----------------------------- *)
(***************************************************************************)

\* The blocks of the chain that hold a transaction.
BlocksWith(tx) == {i \in DOMAIN chain : tx \in chain[i]}

\* A transaction that the checks against the database protect from being mined
\* again: it spends a coin, and each time it was accepted the stored nullifiers
\* were those of the chain.
Guarded(tx) == Nulls[tx] # {} /\ tx \notin early

\* A transaction is on the chain once, over restarts too, unless it spends
\* nothing or was accepted before the replay had stored all nullifiers: the
\* checks, made under tp.mtx, miss no block, because UpdateChain stores a
\* transaction before it removes it from the pool.
MinedOnce ==
  \A tx \in Tx : Guarded(tx) => Cardinality(BlocksWith(tx)) <= 1

\* "This shouldn't happen" twice over in RegisterBlock, for a block that follows
\* the last one: no such transaction of it was mined before, and, in a replay
\* apart, no index into the bins is negative.  During a replay the latter does
\* happen (RegisterPanics), when RPC brings a transaction back before the block
\* that holds it.
RegisterSound ==
  step = "register" /\ InOrder =>
    \A tx \in Confirmed : /\ Guarded(tx) => mined[tx] = Unmined
                          /\ observed[tx] < Height \/ up = "replay"

\* Once RegisterBlock has given up on a block, lastKnownHeight is ahead of the
\* chain and every further block is refused (engine.go:430).  It takes a
\* transaction that was mined before and is not protected from it, or a replay
\* that was cut short.
StallNeedsRepeat ==
  up = "run" /\ step = "idle" /\ lastKnown \notin {Unmined, Best} =>
    cut \/ \E tx \in Tx : ~Guarded(tx) /\ mined[tx] # Unmined

\* A transaction leaves the pool of a living process only once its nullifiers
\* are stored.
KeptUntilStored ==
  [][starts' = starts =>
       \A tx \in pool \ pool' : Nulls[tx] \subseteq nullifiers]_vars

\* "check double spend for new tx with all txs in mempool": no two transactions
\* of the pool share a nullifier.
PoolNoDoubleSpend ==
  \A tx, u \in pool : tx # u => Nulls[tx] \cap Nulls[u] = {}

(***************************************************************************)
(* ----------------------- the inductive invariant ----------------------- *)
(***************************************************************************)

Stored(tx)  == Nulls[tx] \subseteq nullifiers
OnChain(tx) == \E i \in DOMAIN chain : tx \in chain[i]
Making      == up = "run" /\ step # "idle"

\* RegisterBlock has given up on a block: lastKnownHeight is ahead for good.
Stuck == up = "run" /\ step # "remove" /\ lastKnown = Best + 1

\* What is on the chain is stored, in a replay as far as it has come, and so is
\* the block at hand once it is connected.
StoredInv ==
  /\ ViewWhole => \A i \in DOMAIN chain : \A tx \in chain[i] : Stored(tx)
  /\ up = "replay" => \A i \in DOMAIN chain : i + 1 < Height =>
                        \A tx \in chain[i] : Stored(tx)
  /\ step \in {"register", "remove"} => \A tx \in blk : Stored(tx)

\* A new block brings guarded transactions that the chain does not have; a
\* replayed one is of the chain.
BlockInv ==
  /\ Making => /\ Best < MaxHeight
               /\ \A tx \in blk : Guarded(tx) => ~OnChain(tx)
  /\ up = "replay" /\ step # "idle" =>
       Height \in 2..Best /\ blk = chain[Height - 1]
  /\ up = "boot" => step = "idle"
  /\ IF step = "remove" THEN up = "run" ELSE toRemove = {}

\* The pool of a node that makes blocks, and the transaction being accepted.
PoolInv ==
  /\ accStep = "idle" <=> acc = NoTx
  /\ own =>
       /\ \A tx \in pool : Guarded(tx) => ~OnChain(tx)
       /\ Making /\ step # "remove" => blk \subseteq pool
       /\ step = "remove" =>
            \A tx \in pool \cap blk : Guarded(tx) => tx \in toRemove
       /\ accStep = "add" /\ Guarded(acc) =>
            /\ ~OnChain(acc)
            /\ Making => acc \notin blk

\* Observations are never ahead of the chain, the replay bins nothing, and the
\* last block that was registered is the best one, the one at hand, or one that
\* RegisterBlock gave up on.
EstimatorInv ==
  /\ accHeight <= Best
  /\ lastKnown <= Best + 1
  /\ \A tx \in Tx :
       /\ observed[tx] <= Best
       /\ mined[tx] # Unmined => OnChain(tx) \/ Stuck \/ (step = "remove" /\ tx \in blk)
  /\ up # "run" =>
       /\ lastKnown <= Best
       /\ accStep # "idle" => accHeight = Best
       /\ \A tx \in Tx : /\ mined[tx] = Unmined
                         /\ observed[tx] \in {Unmined, Best}
  /\ up = "boot" => lastKnown = Unmined
  /\ step = "remove" => lastKnown = Best + 1
  /\ up = "run" /\ step # "remove" /\ lastKnown \notin {Unmined, Best} =>
       cut \/ \E tx \in Tx : ~Guarded(tx) /\ mined[tx] # Unmined

\* What two blocks share is not guarded.
OnceInv ==
  \A i, j \in DOMAIN chain : i # j =>
    \A tx \in chain[i] \cap chain[j] : ~Guarded(tx)

MinedInv == StoredInv /\ BlockInv /\ PoolInv /\ EstimatorInv /\ OnceInv
=============================================================================
