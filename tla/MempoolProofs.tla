--------------------------- MODULE MempoolProofs ----------------------------
(***************************************************************************)
(* Proofs about the transaction pool, for any transactions, block sizes,   *)
(* heights and restarts: a guarded transaction is on the chain once, a     *)
(* block that follows the last one meets none of the cases RegisterBlock's *)
(* comments exclude but in a replay, the estimator falls out of step with  *)
(* the chain only over an unguarded transaction or a replay cut short, and *)
(* the pool keeps a transaction until it is stored.                        *)
(***************************************************************************)
EXTENDS Mempool, FiniteSetTheorems, SequenceTheorems, TLAPS

USE MempoolAssumption DEF MempoolAssumption
USE DEF db, poolVars, estimator, worker, env, Unmined

\* The height of a block in the making, and of a replayed one.
LEMMA HeightFacts ==
  ASSUME TypeOK, BlockInv
  PROVE  /\ Len(chain) \in Nat /\ Best \in 1..MaxHeight
         /\ \A i \in DOMAIN chain : i \in 1..Len(chain) /\ chain[i] \in SUBSET Tx
         /\ step # "idle" => Height \in 2..MaxHeight
         /\ up = "run" => Height = Best + 1
         /\ up = "replay" /\ step # "idle" => Height <= Best
         /\ up = "replay" => Height \in Nat /\ Height >= 2
<1>1. Len(chain) \in Nat /\ Best \in 1..MaxHeight
      /\ \A i \in DOMAIN chain : i \in 1..Len(chain) /\ chain[i] \in SUBSET Tx
  BY DEF TypeOK, Best
<1>2. up = "run" => Height = Best + 1
  BY DEF Height
<1>3. up = "replay" => Height = IF lastKnown = 0 THEN 2 ELSE lastKnown + 1
  BY DEF Height
<1>4. lastKnown \in Nat
  BY DEF TypeOK
<1>5. up = "replay" => Height \in Nat /\ Height >= 2
  BY <1>3, <1>4
<1>6. step # "idle" => up \in {"replay", "run"}
  BY DEF BlockInv, TypeOK
<1> QED
  BY <1>1, <1>2, <1>5, <1>6 DEF BlockInv, Making

\* RegisterBlock bins transactions of the block, at its height, and forgets
\* others; in a replay it bins none.
LEMMA RegisterStep ==
  ASSUME TypeOK, MinedInv, Register \/ RegisterRepeated
  PROVE  /\ step = "register" /\ up \in {"replay", "run"} /\ InOrder
         /\ Height \in 2..MaxHeight /\ lastKnown' = Height
         /\ mined' \in [Tx -> 0..MaxHeight] /\ observed' \in [Tx -> 0..MaxHeight]
         /\ \A tx \in Tx : /\ mined'[tx] # mined[tx] => tx \in blk /\ up = "run"
                           /\ mined[tx] # 0 => mined'[tx] # 0
                           /\ observed'[tx] = 0 \/ observed'[tx] = observed[tx]
<1>1. step = "register" /\ InOrder /\ lastKnown' = Height /\ up \in {"replay", "run"}
  BY DEF Register, RegisterRepeated, MinedInv, BlockInv, TypeOK
<1>2. Height \in 2..MaxHeight
  BY <1>1, HeightFacts DEF MinedInv
<1>3. PICK S \in SUBSET Confirmed : MineAll(Binned(S))
  BY DEF Register, RegisterRepeated
<1> DEFINE at == [tx \in Tx |-> IF tx \in Binned(S) THEN Height ELSE mined[tx]]
           obs == [tx \in Tx |-> IF at[tx] = 0 /\ Height >= observed[tx] + Depth
                                THEN 0 ELSE observed[tx]]
<1>4. mined' = at /\ observed' \in {obs, observed}
  BY <1>3 DEF MineAll, Register, RegisterRepeated
<1>5. /\ at \in [Tx -> 0..MaxHeight]
      /\ \A tx \in Tx : /\ at[tx] # mined[tx] => tx \in Confirmed
                        /\ mined[tx] # 0 => at[tx] # 0
  BY <1>2 DEF TypeOK, Binned
<1>6. /\ obs \in [Tx -> 0..MaxHeight]
      /\ \A tx \in Tx : obs[tx] = 0 \/ obs[tx] = observed[tx]
  <2> HIDE DEF at
  <2> QED BY DEF TypeOK
<1>7. up = "replay" => Confirmed = {}
  <2> SUFFICES ASSUME up = "replay", NEW tx \in Confirmed
               PROVE  FALSE
    OBVIOUS
  <2>1. Height <= Best /\ Best \in Nat
    BY <1>1, HeightFacts DEF MinedInv
  <2>2. tx \in Tx /\ observed[tx] = Best
    BY DEF Confirmed, MinedInv, EstimatorInv, TypeOK
  <2>3. Register
    BY DEF RegisterRepeated
  <2> QED
    BY <1>2, <2>1, <2>2, <2>3 DEF Register, Negative
<1> HIDE DEF at, obs
<1>8. \A tx \in Tx : /\ mined'[tx] # mined[tx] => tx \in blk /\ up = "run"
                     /\ mined[tx] # 0 => mined'[tx] # 0
  BY <1>1, <1>4, <1>5, <1>7 DEF Confirmed
<1>9. /\ observed' \in [Tx -> 0..MaxHeight]
      /\ \A tx \in Tx : observed'[tx] = 0 \/ observed'[tx] = observed[tx]
  BY <1>4, <1>6 DEF TypeOK
<1> QED
  BY <1>1, <1>2, <1>4, <1>5, <1>8, <1>9

\* The types are kept, given that a block in the making is below MaxHeight.
LEMMA TypeKept ==
  ASSUME TypeOK, MinedInv, [Next]_vars
  PROVE  TypeOK'
<1> USE DEF TypeOK, Best
<1>1. ASSUME NEW tx \in Tx, CheckPool(tx) \/ CheckPoolPanics(tx) \/ RemoveTx(tx)
      PROVE  TypeOK'
  <2>1. Best \in 1..MaxHeight
    BY HeightFacts DEF MinedInv
  <2>2. CASE CheckPool(tx)
    BY <2>1, <2>2 DEF CheckPool
  <2>3. CASE CheckPoolPanics(tx)
    BY <2>3 DEF CheckPoolPanics
  <2>4. CASE RemoveTx(tx)
    BY <2>4 DEF RemoveTx
  <2> QED
    BY <1>1, <2>2, <2>3, <2>4
<1>2. CASE CheckChain
  <2>1. acc \in Tx
    BY <1>2 DEF CheckChain, MinedInv, PoolInv
  <2> QED
    BY <1>2, <2>1 DEF CheckChain
<1>3. CASE AddTx
  <2>1. acc \in Tx
    BY <1>3 DEF AddTx, MinedInv, PoolInv
  <2>2. observed' \in [Tx -> 0..MaxHeight]
    BY <1>3 DEF AddTx, Observe
  <2>3. fatal' \in {"none", "nil"}
    BY <1>3 DEF AddTx
  <2> QED
    BY <1>3, <2>1, <2>2, <2>3 DEF AddTx
<1>4. ASSUME NEW S \in SUBSET Tx, Template(S) \/ Receive(S)
      PROVE  TypeOK'
  <2>1. toRemove = {}
    BY <1>4 DEF Template, Receive, MinedInv, BlockInv
  <2> QED
    BY <1>4, <2>1 DEF Template, Receive
<1>5. CASE Finalized \/ ConnectFails \/ RegisterOutOfOrder
  <2>1. toRemove = {}
    BY <1>5 DEF Finalized, ConnectFails, RegisterOutOfOrder, MinedInv, BlockInv
  <2> QED
    BY <1>5, <2>1 DEF Finalized, ConnectFails, RegisterOutOfOrder
<1>6. ASSUME NEW nf \in Nullifier, StoreNullifier(nf)
      PROVE  TypeOK'
  BY <1>6 DEF StoreNullifier
<1>7. CASE Connected \/ RegisterPanics \/ StartEngine \/ EngineStarted
  BY <1>7 DEF Connected, RegisterPanics, StartEngine, EngineStarted
<1>8. CASE Register \/ RegisterRepeated
  <2>1. /\ lastKnown' \in 0..MaxHeight
        /\ mined' \in [Tx -> 0..MaxHeight] /\ observed' \in [Tx -> 0..MaxHeight]
    BY <1>8, RegisterStep
  <2>2. /\ step' \in {"idle", "remove"} /\ toRemove' \subseteq blk' /\ blk' \in {{}, blk}
        /\ UNCHANGED <<db, poolVars, up, env>>
    BY <1>8 DEF Register, RegisterRepeated, MinedInv, BlockInv
  <2> QED
    BY <2>1, <2>2
<1>9. CASE UpdateBest
  <2>1. /\ chain' = Append(chain, blk) /\ step = "remove" /\ toRemove = {}
        /\ UNCHANGED <<nullifiers, poolVars, estimator, up, toRemove, env>>
        /\ step' = "idle" /\ blk' = {}
    BY <1>9 DEF UpdateBest
  <2>2. Len(chain) + 1 < MaxHeight
    BY <2>1 DEF MinedInv, BlockInv, Making
  <2>3. chain' \in Seq(SUBSET Tx) /\ Len(chain') = Len(chain) + 1 /\ Len(chain) \in Nat
    BY <2>1
  <2> QED
    BY <2>1, <2>2, <2>3
<1>10. CASE Replay
  <2>1. Height - 1 \in 1..Len(chain) /\ toRemove = {}
    BY <1>10, HeightFacts DEF Replay, MinedInv, BlockInv
  <2>2. chain[Height - 1] \in SUBSET Tx
    BY <2>1
  <2> QED
    BY <1>10, <2>1, <2>2 DEF Replay
<1>11. CASE ReplayFails
  <2>1. toRemove = {}
    BY <1>11 DEF ReplayFails, MinedInv, BlockInv
  <2> QED
    BY <1>11, <2>1 DEF ReplayFails
<1>12. CASE Restart
  <2>1. starts' \in 1..MaxStarts /\ 1 \in 1..MaxHeight
    BY <1>12 DEF Restart
  <2>2. /\ observed' \in [Tx -> 0..MaxHeight] /\ mined' \in [Tx -> 0..MaxHeight]
        /\ lastKnown' \in 0..MaxHeight
    BY <1>12 DEF Restart
  <2> QED
    BY <1>12, <2>1, <2>2 DEF Restart
<1>13. CASE UNCHANGED vars
  BY <1>13 DEF vars
<1> QED
  BY <1>1, <1>2, <1>3, <1>4, <1>5, <1>6, <1>7, <1>8, <1>9, <1>10, <1>11, <1>12,
     <1>13 DEF Next

(***************************************************************************)
(* What each part of the invariant reads: a step that changes none of it   *)
(* keeps the part.  A transaction can only cease to be guarded.            *)
(***************************************************************************)

LEMMA StoredKept ==
  ASSUME StoredInv, UNCHANGED <<db, lastKnown, up, step, blk, cut>>
  PROVE  StoredInv'
BY DEF StoredInv, Stored, ViewWhole, Height, Best

LEMMA BlockKept ==
  ASSUME BlockInv, early \subseteq early',
         UNCHANGED <<chain, lastKnown, up, step, blk, toRemove>>
  PROVE  BlockInv'
BY DEF BlockInv, Making, Guarded, OnChain, Height, Best

LEMMA PoolKept ==
  ASSUME PoolInv, early \subseteq early',
         UNCHANGED <<chain, pool, acc, accStep, up, step, blk, toRemove, own>>
  PROVE  PoolInv'
BY DEF PoolInv, Making, Guarded, OnChain

LEMMA EstimatorKept ==
  ASSUME TypeOK, EstimatorInv, early \subseteq early', accHeight' <= Best,
         up # "run" /\ accStep' # "idle" => accHeight' = Best, UNCHANGED <<chain, estimator, up, cut>>,
         step' = "remove" <=> step = "remove", step = "remove" => blk' = blk
  PROVE  EstimatorInv'
BY DEF EstimatorInv, Stuck, Guarded, OnChain, Best, TypeOK

LEMMA OnceKept ==
  ASSUME OnceInv, early \subseteq early', UNCHANGED chain
  PROVE  OnceInv'
BY DEF OnceInv, Guarded

\* What the database does not know to be spent is new to the chain.
LEMMA FreeIsNew ==
  ASSUME StoredInv, ViewWhole, NEW tx \in Tx, CoinsFree(tx), Nulls[tx] # {}
  PROVE  ~Stored(tx) /\ ~OnChain(tx)
BY DEF StoredInv, CoinsFree, Stored, OnChain

\* Every step keeps the invariant.  The steps that matter: CheckChain accepts what
\* the database does not have, and the block at hand is still in the pool or
\* already stored; Connected has the block stored; RegisterRepeated leaves the
\* estimator ahead of the chain over a transaction that is not guarded; UpdateBest
\* mines a block whose guarded transactions have left the pool.
LEMMA InvKept ==
  ASSUME TypeOK, TypeOK', MinedInv, [Next]_vars
  PROVE  MinedInv'
<1> USE DEF MinedInv
<1>a. Best \in 1..MaxHeight /\ Len(chain) \in Nat
  BY HeightFacts
<1>1. ASSUME NEW tx \in Tx, CheckPool(tx)
      PROVE  MinedInv'
  <2>1. StoredInv'
    BY <1>1, StoredKept DEF CheckPool
  <2>2. BlockInv'
    BY <1>1, BlockKept DEF CheckPool
  <2>3. PoolInv'
    BY <1>1 DEF CheckPool, MtxFree, PoolInv, Making, Guarded, OnChain
  <2>4. EstimatorInv'
    BY <1>1, <1>a, EstimatorKept DEF CheckPool
  <2>5. OnceInv'
    BY <1>1, OnceKept DEF CheckPool
  <2> QED
    BY <2>1, <2>2, <2>3, <2>4, <2>5
<1>2. ASSUME NEW tx \in Tx, CheckPoolPanics(tx)
      PROVE  MinedInv'
  <2>1. StoredInv'
    BY <1>2, StoredKept DEF CheckPoolPanics
  <2>2. BlockInv'
    BY <1>2, BlockKept DEF CheckPoolPanics
  <2>3. PoolInv'
    BY <1>2, PoolKept DEF CheckPoolPanics
  <2>4. EstimatorInv'
    BY <1>2, EstimatorKept DEF CheckPoolPanics, EstimatorInv
  <2>5. OnceInv'
    BY <1>2, OnceKept DEF CheckPoolPanics
  <2> QED
    BY <2>1, <2>2, <2>3, <2>4, <2>5
<1>3. ASSUME NEW tx \in Tx, RemoveTx(tx)
      PROVE  MinedInv'
  <2>1. StoredInv'
    BY <1>3, StoredKept DEF RemoveTx
  <2>2. BlockInv'
    BY <1>3 DEF RemoveTx, BlockInv, Making, Guarded, OnChain, Height, Best
  <2>3. PoolInv'
    BY <1>3 DEF RemoveTx, MtxFree, PoolInv, Making, Guarded, OnChain
  <2>4. EstimatorInv'
    BY <1>3, EstimatorKept DEF RemoveTx, EstimatorInv
  <2>5. OnceInv'
    BY <1>3, OnceKept DEF RemoveTx
  <2> QED
    BY <2>1, <2>2, <2>3, <2>4, <2>5
<1>4. CASE CheckChain
  <2>0. early \subseteq early' /\ acc \in Tx /\ accHeight' \in {1, accHeight}
        /\ (accStep' # "idle" => accHeight' = accHeight)
    BY <1>4 DEF CheckChain, PoolInv, TypeOK
  <2>1. StoredInv'
    BY <1>4, StoredKept DEF CheckChain
  <2>2. BlockInv'
    BY <1>4, <2>0, BlockKept DEF CheckChain
  <2>3. PoolInv'
    <3>2. CASE accStep' = "add"
      <4>1. CoinsFree(acc) /\ acc \notin pool /\ acc' = acc
            /\ UNCHANGED <<db, pool, estimator, worker, own>>
        BY <1>4, <3>2 DEF CheckChain
      <4>2. Guarded(acc)' => ViewWhole /\ Nulls[acc] # {}
        BY <1>4, <4>1 DEF CheckChain, Guarded
      <4>3. Guarded(acc)' => ~Stored(acc) /\ ~OnChain(acc)
        BY <2>0, <4>1, <4>2, FreeIsNew
      <4>4. own /\ Making /\ Guarded(acc)' => acc \notin blk
        BY <4>1, <4>3 DEF PoolInv, StoredInv, Making
      <4> QED
        BY <2>0, <3>2, <4>1, <4>3, <4>4 DEF PoolInv, Making, OnChain, Guarded
    <3>3. CASE accStep' = "idle" /\ acc' = NoTx
      BY <1>4, <2>0, <3>3 DEF CheckChain, PoolInv, Making, OnChain, Guarded
    <3> QED
      BY <1>4, <3>2, <3>3 DEF CheckChain
  <2>4. EstimatorInv'
    <3>1. accHeight' <= Best /\ (up # "run" /\ accStep' # "idle" => accHeight' = Best)
      BY <1>4, <1>a, <2>0 DEF CheckChain, EstimatorInv, TypeOK
    <3> QED
      BY <1>4, <2>0, <3>1, EstimatorKept DEF CheckChain
  <2>5. OnceInv'
    BY <1>4, <2>0, OnceKept DEF CheckChain
  <2> QED
    BY <2>1, <2>2, <2>3, <2>4, <2>5
<1>5. CASE AddTx
  <2>1. StoredInv'
    BY <1>5, StoredKept DEF AddTx
  <2>2. BlockInv'
    BY <1>5, BlockKept DEF AddTx
  <2>3. PoolInv'
    <3>1. /\ accStep = "add" /\ pool' = pool \cup {acc} /\ acc' = NoTx
          /\ accStep' = "idle"
          /\ UNCHANGED <<chain, step, blk, up, toRemove, own, early>>
      BY <1>5 DEF AddTx
    <3>2. /\ \A tx : (OnChain(tx)' <=> OnChain(tx)) /\ (Guarded(tx)' <=> Guarded(tx))
          /\ Making' <=> Making
      BY <3>1 DEF OnChain, Guarded, Making
    <3>3. own => /\ \A tx \in pool' : Guarded(tx) => ~OnChain(tx)
                 /\ Making /\ step # "remove" => blk \subseteq pool'
      BY <3>1 DEF PoolInv
    <3>4. own /\ step = "remove" =>
            \A tx \in pool' \cap blk : Guarded(tx) => tx \in toRemove
      BY <3>1 DEF PoolInv, BlockInv, Making
    <3> QED
      BY <3>1, <3>2, <3>3, <3>4 DEF PoolInv
  <2>4. EstimatorInv'
    <3>1. /\ acc \in Tx /\ accStep = "add" /\ accStep' = "idle" /\ accHeight' = 1
          /\ UNCHANGED <<chain, step, blk, up, lastKnown, mined, cut, early>>
      BY <1>5 DEF AddTx, PoolInv, TypeOK
    <3>2. \A tx \in Tx : observed'[tx] = observed[tx] \/ observed'[tx] = accHeight
      BY <1>5, <3>1 DEF AddTx, Observe, TypeOK
    <3>3. \A tx \in Tx : /\ observed'[tx] <= Best
                         /\ up # "run" => observed'[tx] \in {0, Best}
      BY <3>1, <3>2 DEF EstimatorInv
    <3>4. /\ \A tx : OnChain(tx)' <=> OnChain(tx)
          /\ \A tx : Guarded(tx)' <=> Guarded(tx)
          /\ Best' = Best /\ (Stuck' <=> Stuck)
      BY <3>1 DEF OnChain, Guarded, Best, Stuck
    <3> QED
      BY <1>a, <3>1, <3>3, <3>4 DEF EstimatorInv
  <2>5. OnceInv'
    BY <1>5, OnceKept DEF AddTx
  <2> QED
    BY <2>1, <2>2, <2>3, <2>4, <2>5
<1>6. ASSUME NEW S \in SUBSET Tx, Template(S)
      PROVE  MinedInv'
  <2>1. StoredInv'
    BY <1>6 DEF Template, StoredInv, Stored, ViewWhole
  <2>2. BlockInv'
    BY <1>6 DEF Template, BlockInv, PoolInv, Making, Guarded, OnChain, Best
  <2>3. PoolInv'
    BY <1>6 DEF Template, MtxFree, PoolInv, Making, Guarded, OnChain
  <2>4. EstimatorInv'
    BY <1>6, EstimatorKept DEF Template, EstimatorInv
  <2>5. OnceInv'
    BY <1>6, OnceKept DEF Template
  <2> QED
    BY <2>1, <2>2, <2>3, <2>4, <2>5
<1>7. ASSUME NEW S \in SUBSET Tx, Receive(S)
      PROVE  MinedInv'
  <2>0. early \subseteq early'
    BY <1>7 DEF Receive
  <2>1. StoredInv'
    BY <1>7 DEF Receive, StoredInv, Stored, ViewWhole
  <2>2. BlockInv'
    <3>1. ASSUME NEW tx \in S, Guarded(tx)'
          PROVE  ~OnChain(tx)
      <4>1. ViewWhole /\ CoinsFree(tx) /\ Nulls[tx] # {} /\ tx \in Tx
        BY <1>7, <3>1 DEF Receive, Guarded
      <4> QED
        BY <4>1, FreeIsNew
    <3> QED
      BY <1>7, <3>1 DEF Receive, BlockInv, Making, OnChain, Best
  <2>3. PoolInv'
    BY <1>7 DEF Receive, PoolInv
  <2>4. EstimatorInv'
    BY <1>7, <2>0, EstimatorKept DEF Receive, EstimatorInv
  <2>5. OnceInv'
    BY <1>7, <2>0, OnceKept DEF Receive
  <2> QED
    BY <2>1, <2>2, <2>3, <2>4, <2>5
<1>8. CASE Finalized
  <2>1. StoredInv'
    BY <1>8 DEF Finalized, StoredInv, Stored, ViewWhole, Height, Best
  <2>2. BlockInv'
    BY <1>8 DEF Finalized, BlockInv, Making, Guarded, OnChain, Height, Best
  <2>3. PoolInv'
    BY <1>8 DEF Finalized, PoolInv, BlockInv, Making, Guarded, OnChain
  <2>4. EstimatorInv'
    BY <1>8, EstimatorKept DEF Finalized, EstimatorInv
  <2>5. OnceInv'
    BY <1>8, OnceKept DEF Finalized
  <2> QED
    BY <2>1, <2>2, <2>3, <2>4, <2>5
<1>9. ASSUME NEW nf \in Nullifier, StoreNullifier(nf)
      PROVE  MinedInv'
  <2>1. StoredInv'
    BY <1>9 DEF StoreNullifier, StoredInv, Stored, ViewWhole, Height, Best
  <2>2. BlockInv'
    BY <1>9, BlockKept DEF StoreNullifier
  <2>3. PoolInv'
    BY <1>9, PoolKept DEF StoreNullifier
  <2>4. EstimatorInv'
    BY <1>9, EstimatorKept DEF StoreNullifier, EstimatorInv
  <2>5. OnceInv'
    BY <1>9, OnceKept DEF StoreNullifier
  <2> QED
    BY <2>1, <2>2, <2>3, <2>4, <2>5
<1>10. CASE Connected
  <2>1. StoredInv'
    <3>1. ASSUME NEW tx \in blk
          PROVE  Stored(tx)
      <4> SUFFICES ASSUME NEW nf \in Nulls[tx]
                   PROVE  nf \in nullifiers
        BY DEF Stored
      <4>1. nf \in Nullifier
        BY DEF Nullifier, TypeOK
      <4>2. nf \notin NewNullifiers
        BY <1>10 DEF Connected
      <4> QED
        BY <4>1, <4>2 DEF NewNullifiers
    <3> QED
      BY <1>10, <3>1 DEF Connected, StoredInv, Stored, ViewWhole, Height, Best
  <2>2. BlockInv'
    BY <1>10 DEF Connected, BlockInv, Making, Guarded, OnChain, Height, Best
  <2>3. PoolInv'
    BY <1>10 DEF Connected, PoolInv, BlockInv, Making, Guarded, OnChain
  <2>4. EstimatorInv'
    BY <1>10, EstimatorKept DEF Connected, EstimatorInv
  <2>5. OnceInv'
    BY <1>10, OnceKept DEF Connected
  <2> QED
    BY <2>1, <2>2, <2>3, <2>4, <2>5
<1>11. CASE ConnectFails
  <2>1. StoredInv'
    BY <1>11 DEF ConnectFails, StoredInv, Stored, ViewWhole, Height, Best
  <2>2. BlockInv'
    BY <1>11 DEF ConnectFails, BlockInv, Making, Guarded, OnChain, Height, Best
  <2>3. PoolInv'
    BY <1>11 DEF ConnectFails, PoolInv, BlockInv, Making, Guarded, OnChain
  <2>4. EstimatorInv'
    BY <1>11, EstimatorKept DEF ConnectFails, EstimatorInv
  <2>5. OnceInv'
    BY <1>11, OnceKept DEF ConnectFails
  <2> QED
    BY <2>1, <2>2, <2>3, <2>4, <2>5
<1>12. CASE Register \/ RegisterRepeated
  <2>0. /\ step = "register" /\ up \in {"replay", "run"} /\ InOrder
        /\ Height \in 2..MaxHeight /\ lastKnown' = Height
        /\ \A tx \in Tx : /\ mined'[tx] # mined[tx] => tx \in blk /\ up = "run"
                          /\ mined[tx] # 0 => mined'[tx] # 0
                          /\ observed'[tx] = 0 \/ observed'[tx] = observed[tx]
    BY <1>12, RegisterStep
  <2>a. /\ UNCHANGED <<db, poolVars, up, env>>
        /\ \/ step' = "remove" /\ up = "run" /\ blk' = blk /\ toRemove' = blk
           \/ step' = "idle" /\ up = "replay" /\ blk' = {} /\ toRemove' = {}
           \/ step' = "idle" /\ up = "run" /\ blk' = {} /\ toRemove' = {} /\ Repeated
    BY <1>12, <2>0 DEF Register, RegisterRepeated, BlockInv
  <2>b. /\ up = "run" => Height = Best + 1
        /\ up = "replay" => /\ Height <= Best /\ blk = chain[Height - 1]
                            /\ Height' = Height + 1
    BY <2>0, <2>a, HeightFacts DEF Height, BlockInv
  <2>c. Best' = Best /\ \A tx : (OnChain(tx)' <=> OnChain(tx)) /\ (Guarded(tx)' <=> Guarded(tx))
    BY <2>a DEF Best, OnChain, Guarded
  <2>1. StoredInv'
    <3>1. \A tx : Stored(tx)' <=> Stored(tx)
      BY <2>a DEF Stored
    <3>2. ASSUME up = "replay", NEW i \in DOMAIN chain, i + 1 < Height', NEW tx \in chain[i]
          PROVE  Stored(tx)
      <4>1. i \in Nat /\ (i + 1 < Height \/ i = Height - 1)
        BY <1>a, <2>0, <2>b, <3>2, HeightFacts
      <4> QED
        BY <2>0, <2>b, <3>2, <4>1 DEF StoredInv
    <3> QED
      BY <2>0, <2>a, <3>1, <3>2 DEF StoredInv, ViewWhole
  <2>2. BlockInv'
    BY <2>0, <2>a, <2>c DEF BlockInv, Making
  <2>3. PoolInv'
    BY <2>0, <2>a, <2>c DEF PoolInv, Making
  <2>4. EstimatorInv'
    <3>1. InOrder /\ up = "run" => lastKnown = 0 \/ lastKnown = Best
      BY <1>a, <2>0, <2>b DEF InOrder, TypeOK
    <3>2. up = "run" => ~Stuck
      BY <1>a, <2>0, <3>1 DEF Stuck
    <3>3. \A tx \in Tx : /\ observed'[tx] <= Best
                         /\ up # "run" => observed'[tx] \in {0, Best} /\ mined'[tx] = 0
      BY <1>a, <2>0 DEF EstimatorInv
    <3>4. ASSUME NEW tx \in Tx, mined'[tx] # 0
          PROVE  OnChain(tx) \/ Stuck' \/ (step' = "remove" /\ tx \in blk')
      <4>1. up = "run"
        BY <2>0, <3>3, <3>4
      <4>2. OnChain(tx) \/ tx \in blk
        BY <2>0, <3>2, <3>4, <4>1 DEF EstimatorInv
      <4>3. step' = "idle" => Stuck'
        BY <2>0, <2>a, <2>b, <2>c, <4>1 DEF Stuck
      <4> QED
        BY <2>a, <4>1, <4>2, <4>3
    <3>5. Repeated /\ up = "run" => \E tx \in Tx : ~Guarded(tx) /\ mined'[tx] # 0
      <4> SUFFICES ASSUME up = "run", NEW tx \in Confirmed, mined[tx] # 0
                   PROVE  ~Guarded(tx) /\ mined'[tx] # 0 /\ tx \in Tx
        BY DEF Repeated
      <4>1. tx \in blk /\ tx \in Tx
        BY DEF Confirmed, TypeOK
      <4>2. OnChain(tx)
        BY <2>0, <3>2, <4>1 DEF EstimatorInv
      <4> QED
        BY <2>0, <4>1, <4>2 DEF BlockInv, Making
    <3>6. step' = "remove" => lastKnown' = Best + 1
      BY <2>0, <2>a, <2>b
    <3>7. /\ lastKnown' <= Best + 1
          /\ up # "run" => lastKnown' <= Best
      BY <1>a, <2>0, <2>b
    <3> QED
      BY <2>a, <2>c, <3>3, <3>4, <3>5, <3>6, <3>7 DEF EstimatorInv
  <2>5. OnceInv'
    BY <2>a, OnceKept
  <2> QED
    BY <2>1, <2>2, <2>3, <2>4, <2>5
<1>13. CASE RegisterOutOfOrder
  <2>1. StoredInv'
    BY <1>13 DEF RegisterOutOfOrder, StoredInv, Stored, ViewWhole, Height, Best
  <2>2. BlockInv'
    BY <1>13 DEF RegisterOutOfOrder, BlockInv, Making, Guarded, OnChain, Height, Best
  <2>3. PoolInv'
    BY <1>13 DEF RegisterOutOfOrder, PoolInv, BlockInv, Making, Guarded, OnChain
  <2>4. EstimatorInv'
    BY <1>13, EstimatorKept DEF RegisterOutOfOrder, EstimatorInv
  <2>5. OnceInv'
    BY <1>13, OnceKept DEF RegisterOutOfOrder
  <2> QED
    BY <2>1, <2>2, <2>3, <2>4, <2>5
<1>14. CASE RegisterPanics
  <2>1. StoredInv'
    BY <1>14, StoredKept DEF RegisterPanics
  <2>2. BlockInv'
    BY <1>14, BlockKept DEF RegisterPanics
  <2>3. PoolInv'
    BY <1>14, PoolKept DEF RegisterPanics
  <2>4. EstimatorInv'
    BY <1>14, EstimatorKept DEF RegisterPanics, EstimatorInv
  <2>5. OnceInv'
    BY <1>14, OnceKept DEF RegisterPanics
  <2> QED
    BY <2>1, <2>2, <2>3, <2>4, <2>5
<1>15. CASE UpdateBest
  <2>0. /\ step = "remove" /\ up = "run" /\ Making /\ toRemove = {} /\ step' = "idle" /\ blk' = {}
        /\ chain' = Append(chain, blk) /\ blk \subseteq Tx
        /\ UNCHANGED <<nullifiers, poolVars, estimator, up, toRemove, env>>
    BY <1>15 DEF UpdateBest, BlockInv, Making, TypeOK
  <2>A. /\ DOMAIN chain = 1..Len(chain)
        /\ Len(chain') = Len(chain) + 1 /\ DOMAIN chain' = 1..(Len(chain) + 1)
        /\ \A i \in DOMAIN chain : chain'[i] = chain[i]
        /\ chain'[Len(chain) + 1] = blk
    BY <1>a, <2>0 DEF TypeOK
  <2>B. \A tx : OnChain(tx)' <=> OnChain(tx) \/ tx \in blk
    BY <1>a, <2>0, <2>A DEF OnChain
  <2>C. \A tx : Guarded(tx)' <=> Guarded(tx)
    BY <2>0 DEF Guarded
  <2>1. StoredInv'
    <3>1. ViewWhole => \A i \in DOMAIN chain' : \A tx \in chain'[i] : Stored(tx)
      BY <1>a, <2>0, <2>A DEF StoredInv
    <3> QED
      BY <2>0, <3>1 DEF StoredInv, Stored, ViewWhole
  <2>2. BlockInv'
    BY <2>0 DEF BlockInv, Making
  <2>3. PoolInv'
    <3>1. own => /\ \A tx \in pool \cap blk : ~Guarded(tx)
                 /\ accStep = "add" /\ Guarded(acc) => acc \notin blk
      BY <2>0 DEF PoolInv
    <3> QED
      BY <2>0, <2>B, <2>C, <3>1 DEF PoolInv, Making
  <2>4. EstimatorInv'
    <3>1. Best' = Best + 1 /\ lastKnown' = Best + 1
      BY <2>0, <2>A DEF EstimatorInv, Best
    <3>2. \A tx \in Tx : mined[tx] # 0 => OnChain(tx)'
      BY <2>0, <2>B DEF EstimatorInv, Stuck
    <3>3. \A tx \in Tx : observed'[tx] <= Best'
      BY <1>a, <2>0, <3>1 DEF EstimatorInv, TypeOK
    <3>4. accHeight' <= Best'
      BY <1>a, <2>0, <3>1 DEF EstimatorInv, TypeOK
    <3> QED
      BY <1>a, <2>0, <3>1, <3>2, <3>3, <3>4 DEF EstimatorInv
  <2>5. OnceInv'
    <3>1. \A i \in DOMAIN chain : \A tx \in chain[i] \cap blk : ~Guarded(tx)
      BY <2>0 DEF BlockInv, OnChain
    <3> QED
      BY <1>a, <2>A, <2>C, <3>1 DEF OnceInv
  <2> QED
    BY <2>1, <2>2, <2>3, <2>4, <2>5
<1>16. CASE StartEngine
  <2>1. StoredInv'
    <3>1. up' = "replay" /\ Height' = 2 /\ UNCHANGED <<db, step, blk>> /\ step = "idle"
      BY <1>16, <1>a DEF StartEngine, BlockInv, StoredInv, EstimatorInv, Height
    <3> QED
      BY <1>16, <3>1 DEF StoredInv, ViewWhole, TypeOK
  <2>2. BlockInv'
    BY <1>16 DEF StartEngine, BlockInv, Making, Guarded, OnChain, Height, Best
  <2>3. PoolInv'
    BY <1>16 DEF StartEngine, PoolInv, BlockInv, Making, Guarded, OnChain
  <2>4. EstimatorInv'
    <3>1. /\ UNCHANGED <<chain, accHeight, accStep, estimator, early, cut, step>>
          /\ up = "boot" /\ up' = "replay" /\ step = "idle" /\ Best' = Best
      BY <1>16 DEF StartEngine, Best, BlockInv
    <3> QED
      BY <3>1 DEF EstimatorInv, Stuck
  <2>5. OnceInv'
    BY <1>16, OnceKept DEF StartEngine
  <2> QED
    BY <2>1, <2>2, <2>3, <2>4, <2>5
<1>17. CASE Replay
  <2>1. StoredInv'
    BY <1>17 DEF Replay, StoredInv, Stored, ViewWhole, Height, Best
  <2>2. BlockInv'
    <3>1. Height \in 2..Best /\ Height' = Height
      BY <1>17, <1>a, HeightFacts DEF Replay, Height
    <3> QED
      BY <1>17, <3>1 DEF Replay, BlockInv, Making, Best
  <2>3. PoolInv'
    BY <1>17 DEF Replay, PoolInv, BlockInv, Making, Guarded, OnChain
  <2>4. EstimatorInv'
    BY <1>17, EstimatorKept DEF Replay, EstimatorInv
  <2>5. OnceInv'
    BY <1>17, OnceKept DEF Replay
  <2> QED
    BY <2>1, <2>2, <2>3, <2>4, <2>5
<1>18. CASE ReplayFails
  <2>1. StoredInv'
    BY <1>18 DEF ReplayFails, StoredInv, ViewWhole
  <2>2. BlockInv'
    BY <1>18 DEF ReplayFails, BlockInv, Making, Guarded, OnChain, Height, Best
  <2>3. PoolInv'
    BY <1>18 DEF ReplayFails, PoolInv, BlockInv, Making, Guarded, OnChain
  <2>4. EstimatorInv'
    <3>1. /\ UNCHANGED <<chain, accHeight, accStep, estimator>> /\ cut' /\ step' = "idle"
          /\ up = "replay" /\ up' = "run" /\ Best' = Best
      BY <1>18 DEF ReplayFails, Best
    <3> QED
      BY <1>a, <3>1 DEF EstimatorInv, BlockInv, TypeOK
  <2>5. OnceInv'
    BY <1>18, OnceKept DEF ReplayFails
  <2> QED
    BY <2>1, <2>2, <2>3, <2>4, <2>5
<1>19. CASE EngineStarted
  <2>1. StoredInv'
    <3>1. \A i \in DOMAIN chain : \A tx \in chain[i] : Stored(tx)
      <4> SUFFICES ASSUME NEW i \in DOMAIN chain, NEW tx \in chain[i]
                   PROVE  Stored(tx)
        OBVIOUS
      <4>1. i + 1 < Height
        BY <1>19, <1>a, HeightFacts DEF EngineStarted, Best
      <4> QED
        BY <1>19, <4>1 DEF EngineStarted, StoredInv
    <3> QED
      BY <1>19, <3>1 DEF EngineStarted, StoredInv, Stored
  <2>2. BlockInv'
    BY <1>19 DEF EngineStarted, BlockInv, Making, Guarded, OnChain, Height, Best
  <2>3. PoolInv'
    BY <1>19 DEF EngineStarted, PoolInv, BlockInv, Making, Guarded, OnChain
  <2>4. EstimatorInv'
    <3>1. /\ UNCHANGED <<chain, accHeight, accStep, estimator, early, cut, step>>
          /\ step = "idle" /\ up = "replay" /\ up' = "run" /\ Best' = Best
      BY <1>19 DEF EngineStarted, Best
    <3>2. lastKnown \in {0, Best} /\ lastKnown <= Best
      BY <1>19, <1>a DEF EngineStarted, Height, EstimatorInv, TypeOK
    <3> QED
      BY <1>a, <3>1, <3>2 DEF EstimatorInv
  <2>5. OnceInv'
    BY <1>19, OnceKept DEF EngineStarted
  <2> QED
    BY <2>1, <2>2, <2>3, <2>4, <2>5
<1>20. CASE Restart
  <2>0. UNCHANGED <<chain, own, early>> /\ Best' = Best
    BY <1>20 DEF Restart, Best
  <2>1. StoredInv' /\ BlockInv'
    BY <1>20 DEF Restart, StoredInv, BlockInv, Making, ViewWhole
  <2>2. PoolInv'
    BY <1>20 DEF Restart, PoolInv, Making
  <2>3. EstimatorInv'
    BY <1>20, <1>a, <2>0 DEF Restart, EstimatorInv
  <2>4. OnceInv'
    BY <2>0, OnceKept
  <2> QED
    BY <2>1, <2>2, <2>3, <2>4
<1>21. CASE UNCHANGED vars
  <2>1. StoredInv'
    BY <1>21, StoredKept DEF vars
  <2>2. BlockInv'
    BY <1>21, BlockKept DEF vars
  <2>3. PoolInv'
    BY <1>21, PoolKept DEF vars
  <2>4. EstimatorInv'
    BY <1>21, EstimatorKept DEF vars, EstimatorInv
  <2>5. OnceInv'
    BY <1>21, OnceKept DEF vars
  <2> QED
    BY <2>1, <2>2, <2>3, <2>4, <2>5
<1> QED
  BY <1>1, <1>2, <1>3, <1>4, <1>5, <1>6, <1>7, <1>8, <1>9, <1>10, <1>11, <1>12,
     <1>13, <1>14, <1>15, <1>16, <1>17, <1>18, <1>19, <1>20, <1>21 DEF Next

\* The inductive invariant holds: what is on the chain is stored once the replay
\* is over, and the guarded transactions of a leader's pool are not on the chain.
THEOREM Inv == Spec => [](TypeOK /\ MinedInv)
<1>1. Init => TypeOK /\ MinedInv
  <2> SUFFICES ASSUME Init PROVE TypeOK /\ MinedInv
    OBVIOUS
  <2> USE DEF Init
  <2>1. TypeOK
    <3>1. observed \in [Tx -> 0..MaxHeight] /\ mined \in [Tx -> 0..MaxHeight]
      OBVIOUS
    <3>2. chain \in Seq(SUBSET Tx) /\ Len(chain) = 0
      OBVIOUS
    <3>3. Best = 1 /\ 1 \in 1..MaxHeight
      BY <3>2 DEF Best
    <3>4. Best <= MaxHeight /\ 1 \in 1..MaxStarts /\ own \in BOOLEAN
      BY <3>3
    <3>5. cut \in BOOLEAN /\ early \subseteq Tx /\ nullifiers \subseteq Nullifier
      OBVIOUS
    <3>6. /\ starts \in 1..MaxStarts /\ accHeight \in 1..MaxHeight
          /\ lastKnown \in 0..MaxHeight
      BY <3>3, <3>4
    <3> QED
      BY <3>1, <3>2, <3>4, <3>5, <3>6 DEF TypeOK
  <2>2. StoredInv /\ BlockInv /\ OnceInv
    BY DEF StoredInv, BlockInv, OnceInv, Making, ViewWhole
  <2>3. PoolInv /\ EstimatorInv
    BY DEF PoolInv, EstimatorInv, Making, Best, OnChain
  <2> QED
    BY <2>1, <2>2, <2>3 DEF MinedInv
<1>2. TypeOK /\ MinedInv /\ [Next]_vars => (TypeOK /\ MinedInv)'
  BY TypeKept, InvKept
<1> QED
  BY <1>1, <1>2, PTL DEF Spec

\* Every variable keeps its type: lastKnownHeight and the heights the estimator
\* keeps stay within the heights that the chain has.
THEOREM TypeCorrect == Spec => []TypeOK
BY Inv, PTL

\* A transaction that spends a coin, and was checked against all nullifiers of
\* the chain each time it was accepted, is on the chain at most once.
THEOREM NeverMinedTwice == Spec => []MinedOnce
<1>1. ASSUME TypeOK, MinedInv, NEW tx \in Tx, Guarded(tx)
      PROVE  Cardinality(BlocksWith(tx)) <= 1
  <2> DEFINE B == BlocksWith(tx)
  <2>1. \A i, j \in B : i = j
    BY <1>1 DEF MinedInv, OnceInv, BlocksWith
  <2>2. CASE B = {}
    <3> HIDE DEF B
    <3>1. Cardinality(B) = 0
      BY <2>2, FS_EmptySet
    <3> QED
      BY <3>1 DEF B
  <2>3. ASSUME NEW i \in B
        PROVE  Cardinality(B) <= 1
    <3>1. B = {i}
      BY <2>1
    <3>2. Cardinality({i}) = 1
      BY FS_Singleton
    <3> QED
      BY <3>1, <3>2
  <2> QED
    BY <2>2, <2>3
<1>2. TypeOK /\ MinedInv => MinedOnce
  BY <1>1 DEF MinedOnce
<1> QED
  BY Inv, <1>2, PTL

\* For a block that follows the last one, RegisterBlock meets no guarded
\* transaction that was mined before and, outside a replay, no negative index.
THEOREM RegisterAlwaysSound == Spec => []RegisterSound
<1>1. ASSUME TypeOK, MinedInv, step = "register", InOrder, NEW tx \in Confirmed
      PROVE  /\ Guarded(tx) => mined[tx] = Unmined
             /\ observed[tx] < Height \/ up = "replay"
  <2>1. /\ tx \in Tx /\ tx \in blk /\ up \in {"replay", "run"}
        /\ observed[tx] \in Nat /\ observed[tx] <= Best
    BY <1>1 DEF Confirmed, MinedInv, BlockInv, EstimatorInv, TypeOK
  <2>2. up = "run" => Height = Best + 1 /\ Best \in Nat
    BY <1>1, HeightFacts DEF MinedInv
  <2>3. up = "run" => ~Stuck
    BY <1>1, <2>2 DEF InOrder, Stuck, TypeOK
  <2>4. Guarded(tx) => mined[tx] = Unmined
    BY <1>1, <2>1, <2>3 DEF MinedInv, EstimatorInv, BlockInv, Making
  <2> QED
    BY <2>1, <2>2, <2>4
<1>2. TypeOK /\ MinedInv => RegisterSound
  BY <1>1 DEF RegisterSound
<1> QED
  BY Inv, <1>2, PTL

\* The estimator falls out of step with the chain, so that every further block is
\* refused, only over an unguarded transaction mined twice or a replay cut short.
THEOREM StallOnlyByRepeat == Spec => []StallNeedsRepeat
<1>1. TypeOK /\ MinedInv => StallNeedsRepeat
  BY DEF MinedInv, EstimatorInv, StallNeedsRepeat
<1> QED
  BY Inv, <1>1, PTL

\* The pool of a living process keeps a transaction until its nullifiers are
\* stored.
THEOREM PoolKeepsUntilStored == Spec => KeptUntilStored
<1>1. ASSUME TypeOK, MinedInv, Next, starts' = starts, NEW tx \in pool \ pool'
      PROVE  Nulls[tx] \subseteq nullifiers
  <2>1. Restart => starts' # starts
    BY <1>1 DEF Restart, TypeOK
  <2>2. \E u \in Tx : RemoveTx(u)
    BY <1>1, <2>1 DEF Next, CheckPool, CheckPoolPanics, CheckChain, AddTx, Template,
         Receive, Finalized, StoreNullifier, Connected, ConnectFails, Register,
         RegisterOutOfOrder, RegisterRepeated, RegisterPanics, UpdateBest,
         StartEngine, Replay, ReplayFails, EngineStarted
  <2>3. step = "remove" /\ tx \in blk
    BY <1>1, <2>2 DEF RemoveTx, TypeOK
  <2> QED
    BY <1>1, <2>3 DEF MinedInv, StoredInv, Stored
<1>2. TypeOK /\ MinedInv /\ [Next]_vars =>
        [starts' = starts => \A tx \in pool \ pool' : Nulls[tx] \subseteq nullifiers]_vars
  BY <1>1
<1> QED
  BY Inv, <1>2, PTL DEF Spec, KeptUntilStored
=============================================================================
