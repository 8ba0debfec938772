----------------------------- MODULE ChainStore -----------------------------
(***************************************************************************)
(* One chain on one node: how Engine.UpdateChain and BlockChain.ConnectBlock *)
(* bring a block into the database and into memory, one write at a time,   *)
(* and how the node starts again from what a crash or a stop left behind.  *)
(*                                                                         *)
(* Three threads write: main (mainMaster: NewServer, then Engine.Start),   *)
(* netsync (OnBlockReceived) and producer (StartProducer's loop, only for  *)
(* the chain this node leads).  chainLock is held over ConnectBlock alone. *)
(*                                                                         *)
(* Abstracted: a block is its height and a branch (two blocks of one       *)
(* height differ in it); its transactions are the block itself in `view`   *)
(* (nullifiers and commitments).  Signature and transaction checks decide  *)
(* nondeterministically.  The light node (StoreBlockHeader) is left out.   *)
(***************************************************************************)
EXTENDS Naturals, FiniteSets

CONSTANTS
  MaxHeight,  \* bound: height of the highest block
  Branch,     \* bound: blocks there may be of one height
  Root,       \* the branch of the genesis block
  Owns,       \* does the node lead this chain: a subset of BOOLEAN
  Modes,      \* ways to start the node: a subset of {"fast", "full"}
  MaxLives,   \* bound: how often the process is started
  MaxFaults   \* bound: errors of the database, for each value of `own`

ASSUME ChainStoreAssumption ==
  /\ MaxHeight \in Nat \ {0}
  /\ Owns \subseteq BOOLEAN
  /\ Modes \subseteq {"fast", "full"}
  /\ MaxLives \in Nat
  /\ MaxFaults \in [BOOLEAN -> Nat]

Heights == 1..MaxHeight
Genesis == [h |-> 1, id |-> Root]
NoBlock == [h |-> 0, id |-> Root]
Block   == {Genesis} \cup [h : 2..MaxHeight, id : Branch]

Height(b) == b.h

NoFee    == MaxHeight + 1  \* no estimator in the database
Unmined  == 0              \* UnminedHeight: the estimator has seen no block

Threads == {"main", "netsync", "producer"}

\* ConnectBlock, under chainLock
Connecting == {"chainKey", "data", "hashIdx", "hashAt", "view", "payout"}
\* the rest of UpdateChain, and of Finalize
Updating   == {"register", "update", "saveBest", "known", "validated", "send"}
Steps      == {"idle", "candidate", "cleanView", "cleanFee", "engine", "replay"}
                \cup Connecting \cup Updating

VARIABLES
  \* the database
  chainKey,   \* blocks with a key c{chain}b-{hash}
  data,       \* blocks whose bytes are stored
  hashIdx,    \* blocks with a key i-{hash}, which gives their height
  hashAt,     \* {height}{chain} -> hash
  view,       \* blocks whose nullifiers and commitments are stored
  savedBest,  \* BestState as stored
  savedFee,   \* FeeEstimator as stored: its lastKnownHeight
  \* the process
  up,         \* "down", "init" (until Engine.Start is done), "run", "stopping"
  mode,       \* cfg.FastMode: "fast" or "full"
  best,       \* BestState[chain].BestBlock
  fee,        \* FeeEstimator[chain].lastKnownHeight
  known,      \* knownChainsHeight[chain]
  validated,  \* validatedChainsHeight[chain]
  pc, cur,    \* each thread's step and block
  faulty,     \* an UpdateChain of this process returned with an error
  \* the environment
  own,        \* this node leads the chain
  created,    \* blocks this node has created
  published,  \* blocks this node has sent
  lives,      \* starts of the process
  faults,     \* errors of the database so far
  panicked    \* the process died of a nil block in HandleMessageGetBlocks

disk    == <<chainKey, data, hashIdx, hashAt, view, savedBest, savedFee>>
memory  == <<best, fee, known, validated>>
env     == <<own, created, published, lives, faults, panicked>>
vars    == <<disk, up, mode, memory, pc, cur, faulty, env>>

TypeOK ==
  /\ chainKey \subseteq Block
  /\ data \subseteq Block
  /\ hashIdx \subseteq Block
  /\ hashAt \in [Heights -> Block \cup {NoBlock}]
  /\ view \subseteq Block
  /\ savedBest \in Block \cup {NoBlock}
  /\ savedFee \in 0..MaxHeight + 1
  /\ up \in {"down", "init", "run", "stopping"}
  /\ mode \in {"fast", "full"}
  /\ best \in Block \cup {NoBlock}
  /\ fee \in 0..MaxHeight
  /\ known \in 0..MaxHeight
  /\ validated \in 0..MaxHeight
  /\ pc \in [Threads -> Steps]
  /\ cur \in [Threads -> Block \cup {NoBlock}]
  /\ faulty \in BOOLEAN
  /\ own \in BOOLEAN
  /\ created \subseteq Block
  /\ published \subseteq Block
  /\ lives \in 0..MaxLives
  /\ faults \in Nat
  /\ panicked \in BOOLEAN

\* An empty database and no process.
Init ==
  /\ chainKey = {}
  /\ data = {}
  /\ hashIdx = {}
  /\ hashAt = [n \in Heights |-> NoBlock]
  /\ view = {}
  /\ savedBest = NoBlock
  /\ savedFee = NoFee
  /\ up = "down"
  /\ mode = "full"
  /\ best = NoBlock
  /\ fee = Unmined
  /\ known = 0
  /\ validated = 0
  /\ pc = [t \in Threads |-> "idle"]
  /\ cur = [t \in Threads |-> NoBlock]
  /\ faulty = FALSE
  /\ own \in Owns
  /\ created = {}
  /\ published = {}
  /\ lives = 0
  /\ faults = 0
  /\ panicked = FALSE

Running == up \in {"run", "stopping"}

Goto(t, step) == pc' = [pc EXCEPT ![t] = step]

\* The process is gone: nothing but the database and the environment stays.
ProcessEnds ==
  /\ up' = "down"
  /\ best' = NoBlock
  /\ fee' = Unmined
  /\ known' = 0
  /\ validated' = 0
  /\ pc' = [t \in Threads |-> "idle"]
  /\ cur' = [t \in Threads |-> NoBlock]
  /\ faulty' = FALSE
  /\ UNCHANGED mode

(***************************************************************************)
(* --------------------------- start of the node ------------------------- *)
(***************************************************************************)

\* BlockChain.Init: without a stored best state, createChainState connects the
\* genesis block; otherwise NewServer goes on to its own data.
Restart(m) ==
  /\ up = "down"
  /\ lives < MaxLives
  /\ lives' = lives + 1
  /\ up' = "init"
  /\ mode' = m
  /\ IF savedBest = NoBlock
     THEN /\ best' = Genesis
          /\ cur' = [cur EXCEPT !["main"] = Genesis]
          /\ Goto("main", "chainKey")
     ELSE /\ best' = savedBest
          /\ Goto("main", "cleanView")
          /\ UNCHANGED cur
  /\ UNCHANGED <<disk, fee, known, validated, faulty, own, created, published,
                 faults, panicked>>

\* Mutant of LoadOrClean: a missing estimator is not noticed.
LoadUnchecked ==
  /\ pc["main"] = "cleanView"
  /\ IF mode = "fast"
     THEN /\ fee' = savedFee
          /\ Goto("main", "engine")
          /\ UNCHANGED view
     ELSE /\ view' = {}
          /\ Goto("main", "cleanFee")
          /\ UNCHANGED fee
  /\ UNCHANGED <<chainKey, data, hashIdx, hashAt, savedBest, savedFee, up, mode,
                 best, known, validated, cur, faulty, env>>

\* Mutant of LoadOrClean: a full start keeps nullifiers and commitments.
LoadWithoutClean ==
  /\ pc["main"] = "cleanView"
  /\ IF mode = "fast"
     THEN /\ fee' = IF savedFee = NoFee THEN Unmined ELSE savedFee
          /\ Goto("main", "engine")
     ELSE /\ Goto("main", "cleanFee")
          /\ UNCHANGED fee
  /\ UNCHANGED <<disk, up, mode, best, known, validated, cur, faulty, env>>

\* NewServer: fast mode loads the estimator, or makes a new one when the saved
\* one cannot be restored.  Full mode deletes commitments and nullifiers, then
\* (CleanFee) the estimator.
LoadOrClean ==
  /\ pc["main"] = "cleanView"
  /\ IF mode = "fast"
     THEN /\ fee' \in IF savedFee = NoFee THEN {Unmined} ELSE {savedFee, Unmined}
          /\ Goto("main", "engine")
          /\ UNCHANGED view
     ELSE /\ view' = {}
          /\ Goto("main", "cleanFee")
          /\ UNCHANGED fee
  /\ UNCHANGED <<chainKey, data, hashIdx, hashAt, savedBest, savedFee, up, mode,
                 best, known, validated, cur, faulty, env>>

CleanFee ==
  /\ pc["main"] = "cleanFee"
  /\ savedFee' = NoFee
  /\ Goto("main", "engine")
  /\ UNCHANGED <<chainKey, data, hashIdx, hashAt, view, savedBest, up, mode,
                 memory, cur, faulty, env>>

\* Mutant of StartEngine: the chain counts as validated without a replay.
StartWithoutReplay ==
  /\ pc["main"] = "engine"
  /\ known' = Height(best)
  /\ validated' = Height(best)
  /\ up' = "run"
  /\ Goto("main", "idle")
  /\ UNCHANGED <<disk, mode, best, fee, cur, faulty, env>>

\* Engine.Start: with an estimator from the database the chain counts as
\* validated; without one it is replayed from height 2.  Start looks at the
\* estimator of chain 0 only and does the same for all chains: the chain of this
\* module is one whose estimator is saved if that of chain 0 is.
StartEngine ==
  /\ pc["main"] = "engine"
  /\ known' = Height(best)
  /\ IF savedFee # NoFee
     THEN /\ validated' = Height(best)
          /\ up' = "run"
          /\ Goto("main", "idle")
     ELSE /\ validated' = 1
          /\ Goto("main", "replay")
          /\ UNCHANGED up
  /\ UNCHANGED <<disk, mode, best, fee, cur, faulty, env>>

\* One round of the replay loop: the stored block of the next height, its
\* nullifiers and commitments, and the estimator.
Replay ==
  LET next == validated + 1
      b    == hashAt[next]
  IN  /\ pc["main"] = "replay"
      /\ validated < known
      /\ b \in data
      /\ fee \in {Unmined, validated}
      /\ view' = view \cup {b}
      /\ fee' = next
      /\ validated' = next
      /\ UNCHANGED <<chainKey, data, hashIdx, hashAt, savedBest, savedFee, up,
                     mode, best, known, pc, cur, faulty, env>>

\* A block that is missing or an error of the database ends the replay.  Its
\* report races with Start's select, so the engine may run all the same;
\* otherwise Start returns the error and the server is stopped.
ReplayFails ==
  /\ pc["main"] = "replay"
  /\ validated < known
  /\ IF hashAt[validated + 1] \in data
     THEN faults < MaxFaults[own] /\ faults' = faults + 1
     ELSE UNCHANGED faults
  /\ up' \in {"run", "stopping"}
  /\ savedFee' = IF up' = "stopping" THEN fee ELSE savedFee
  /\ faulty' = TRUE
  /\ Goto("main", "idle")
  /\ UNCHANGED <<chainKey, data, hashIdx, hashAt, view, savedBest, mode, memory,
                 cur, own, created, published, lives, panicked>>

EngineStarted ==
  /\ pc["main"] = "replay"
  /\ validated = known
  /\ up' = "run"
  /\ Goto("main", "idle")
  /\ UNCHANGED <<disk, mode, memory, cur, faulty, env>>

(***************************************************************************)
(* ----------------------- where new blocks come from -------------------- *)
(***************************************************************************)

\* StartProducer's loop: the chains are in sync, createBlock builds on the best
\* block of the moment, and Finalize (module Finalize) takes its time.
Create(b) ==
  /\ Running
  /\ own
  /\ pc["producer"] = "idle"
  /\ known = validated
  /\ b \notin created
  /\ Height(b) = Height(best) + 1
  /\ created' = created \cup {b}
  /\ cur' = [cur EXCEPT !["producer"] = b]
  /\ Goto("producer", "candidate")
  /\ UNCHANGED <<disk, up, mode, memory, faulty, own, published, lives, faults,
                 panicked>>

\* Mutant of Receive: blocks above the next height are taken too.
ReceiveAnyHeight(b) ==
  /\ Running
  /\ pc["netsync"] = "idle"
  /\ own => b \in published
  /\ Height(best) < Height(b)
  /\ b \notin data
  /\ cur' = [cur EXCEPT !["netsync"] = b]
  /\ Goto("netsync", "candidate")
  /\ UNCHANGED <<disk, up, mode, memory, faulty, env>>

\* Mutant of Receive: any block that is not stored is taken.
ReceiveAnyBlock(b) ==
  /\ Running
  /\ pc["netsync"] = "idle"
  /\ own => b \in published
  /\ b \notin data
  /\ cur' = [cur EXCEPT !["netsync"] = b]
  /\ Goto("netsync", "candidate")
  /\ UNCHANGED <<disk, up, mode, memory, faulty, env>>

\* OnBlockReceived and IsEnoughData: a new block of the next height.  The wait
\* for the other chains and the checks of the block's content follow.
Receive(b) ==
  /\ Running
  /\ pc["netsync"] = "idle"
  /\ own => b \in published
  /\ Height(best) < Height(b)
  /\ b \notin data
  /\ validated = Height(b) - 1
  /\ cur' = [cur EXCEPT !["netsync"] = b]
  /\ Goto("netsync", "candidate")
  /\ UNCHANGED <<disk, up, mode, memory, faulty, env>>

\* Finalize or validateBlockSanity ends with an error.
Drop(t) ==
  /\ pc[t] = "candidate"
  /\ cur' = [cur EXCEPT ![t] = NoBlock]
  /\ Goto(t, "idle")
  /\ UNCHANGED <<disk, up, mode, memory, faulty, env>>

\* OnChainStateReceived: a peer has a longer chain.
LearnHeight(n) ==
  /\ Running
  /\ pc["netsync"] = "idle"
  /\ own => \E b \in published : Height(b) = n
  /\ validated < n
  /\ known' = n
  /\ UNCHANGED <<disk, up, mode, best, fee, validated, pc, cur, faulty, env>>

\* HandleMessageGetBlocks for a peer whose best block is b.  The loop runs to
\* the number of chain keys (none if some block's bytes are missing), and an
\* index without a block is a nil dereference.
Wanted(b) ==
  Height(b) + 1 .. (IF chainKey \subseteq data THEN Cardinality(chainKey) ELSE 0)

Gettable(n) == n \in Heights /\ hashAt[n] \in data

ServeBlocks(b) ==
  /\ Running
  /\ pc["netsync"] = "idle"
  /\ b \in hashIdx
  /\ b # best
  /\ IF \A n \in Wanted(b) : Gettable(n)
     THEN /\ published' = published \cup {hashAt[n] : n \in Wanted(b)}
          /\ UNCHANGED <<up, mode, memory, pc, cur, faulty, panicked>>
     ELSE /\ panicked' = TRUE
          /\ ProcessEnds
          /\ UNCHANGED published
  /\ UNCHANGED <<disk, own, created, lives, faults>>

(***************************************************************************)
(* ---------------------- ConnectBlock and UpdateChain ------------------- *)
(***************************************************************************)

\* UpdateChain returns with an error.  Finalize sends the block all the same;
\* for main it is createChainState that fails and with it NewServer.
ReturnsError(t) ==
  IF t = "main"
  THEN ProcessEnds
  ELSE /\ Goto(t, IF t = "producer" THEN "send" ELSE "idle")
       /\ cur' = [cur EXCEPT ![t] = IF t = "producer" THEN @ ELSE NoBlock]
       /\ faulty' = TRUE
       /\ UNCHANGED <<up, mode, memory>>

\* chainLock.Lock()
Lock(t) ==
  /\ pc[t] = "candidate"
  /\ \A u \in Threads : pc[u] \notin Connecting
  /\ Goto(t, "chainKey")
  /\ UNCHANGED <<disk, up, mode, memory, cur, faulty, env>>

\* db.StoreBlock refuses a block whose chain key exists.
StoreChainKey(t) ==
  /\ pc[t] = "chainKey"
  /\ IF cur[t] \in chainKey
     THEN ReturnsError(t) /\ UNCHANGED chainKey
     ELSE /\ chainKey' = chainKey \cup {cur[t]}
          /\ Goto(t, "data")
          /\ UNCHANGED <<up, mode, memory, cur, faulty>>
  /\ UNCHANGED <<data, hashIdx, hashAt, view, savedBest, savedFee, env>>

StoreData(t) ==
  /\ pc[t] = "data"
  /\ data' = data \cup {cur[t]}
  /\ Goto(t, "hashIdx")
  /\ UNCHANGED <<chainKey, hashIdx, hashAt, view, savedBest, savedFee, up, mode,
                 memory, cur, faulty, env>>

StoreHashIndex(t) ==
  /\ pc[t] = "hashIdx"
  /\ hashIdx' = hashIdx \cup {cur[t]}
  /\ Goto(t, "hashAt")
  /\ UNCHANGED <<chainKey, data, hashAt, view, savedBest, savedFee, up, mode,
                 memory, cur, faulty, env>>

StoreHeightIndex(t) ==
  /\ pc[t] = "hashAt"
  /\ hashAt' = [hashAt EXCEPT ![Height(cur[t])] = cur[t]]
  /\ Goto(t, "view")
  /\ UNCHANGED <<chainKey, data, hashIdx, view, savedBest, savedFee, up, mode,
                 memory, cur, faulty, env>>

\* CreateAndSaveTxViewPoint
SaveView(t) ==
  /\ pc[t] = "view"
  /\ view' = view \cup {cur[t]}
  /\ Goto(t, "payout")
  /\ UNCHANGED <<chainKey, data, hashIdx, hashAt, savedBest, savedFee, up, mode,
                 memory, cur, faulty, env>>

\* Loans, dividends and crowdsales are written, ConnectBlock returns; the
\* genesis block goes straight to the best state.
Payout(t) ==
  /\ pc[t] = "payout"
  /\ Goto(t, IF t = "main" THEN "saveBest" ELSE "register")
  /\ UNCHANGED <<disk, up, mode, memory, cur, faulty, env>>

\* FeeEstimator.RegisterBlock wants the height after its last one.
RegisterBlock(t) ==
  /\ pc[t] = "register"
  /\ IF fee = Unmined \/ Height(cur[t]) = fee + 1
     THEN /\ fee' = Height(cur[t])
          /\ Goto(t, "update")
          /\ UNCHANGED <<up, mode, best, known, validated, cur, faulty>>
     ELSE ReturnsError(t)
  /\ UNCHANGED <<disk, env>>

\* BestState.Update
UpdateBest(t) ==
  /\ pc[t] = "update"
  /\ best' = cur[t]
  /\ Goto(t, "saveBest")
  /\ UNCHANGED <<disk, up, mode, fee, known, validated, cur, faulty, env>>

\* StoreBestState of whatever the best state is by now.
StoreBestState(t) ==
  /\ pc[t] = "saveBest"
  /\ savedBest' = best
  /\ Goto(t, IF t = "main" THEN "cleanView" ELSE "known")
  /\ UNCHANGED <<chainKey, data, hashIdx, hashAt, view, savedFee, up, mode,
                 memory, cur, faulty, env>>

\* knownChainsHeight; a height that was not known is a block to pass on.
SetKnown(t) ==
  /\ pc[t] = "known"
  /\ IF known < Height(cur[t])
     THEN known' = Height(cur[t]) /\ published' = published \cup {cur[t]}
     ELSE UNCHANGED <<known, published>>
  /\ Goto(t, "validated")
  /\ UNCHANGED <<disk, up, mode, best, fee, validated, cur, faulty, own, created,
                 lives, faults, panicked>>

\* validatedChainsHeight, then UpdateChain returns.
SetValidated(t) ==
  /\ pc[t] = "validated"
  /\ validated' = Height(cur[t])
  /\ Goto(t, IF t = "producer" THEN "send" ELSE "idle")
  /\ cur' = [cur EXCEPT ![t] = IF t = "producer" THEN @ ELSE NoBlock]
  /\ UNCHANGED <<disk, up, mode, best, fee, known, faulty, env>>

\* Finalize: sendBlockMsg, whatever UpdateChain did.
Send(t) ==
  /\ pc[t] = "send"
  /\ published' = published \cup {cur[t]}
  /\ cur' = [cur EXCEPT ![t] = NoBlock]
  /\ Goto(t, "idle")
  /\ UNCHANGED <<disk, up, mode, memory, faulty, own, created, lives, faults,
                 panicked>>

\* A write fails, or the merkle tree or the loans of the block cannot be taken
\* over (BestState.Update).
Fault(t) ==
  /\ faults < MaxFaults[own]
  /\ pc[t] \in Connecting \cup {"update"} \/ (t = "main" /\ pc[t] = "saveBest")
  /\ faults' = faults + 1
  /\ ReturnsError(t)
  /\ UNCHANGED <<disk, own, created, published, lives, panicked>>

\* UpdateChain does not look at the result of StoreBestState.
SaveLost(t) ==
  /\ faults < MaxFaults[own]
  /\ t # "main"
  /\ pc[t] = "saveBest"
  /\ faults' = faults + 1
  /\ Goto(t, "known")
  /\ UNCHANGED <<disk, up, mode, memory, cur, faulty, own, created, published,
                 lives, panicked>>

(***************************************************************************)
(* -------------------------- end of the process ------------------------- *)
(***************************************************************************)

\* Server.Stop saves the estimator; the other threads run on until the exit.
Stop ==
  /\ up = "run"
  /\ savedFee' = fee
  /\ up' = "stopping"
  /\ UNCHANGED <<chainKey, data, hashIdx, hashAt, view, savedBest, mode, memory,
                 pc, cur, faulty, env>>

\* The exit after Stop, or a crash at any point.
Crash ==
  /\ up # "down"
  /\ ProcessEnds
  /\ UNCHANGED <<disk, env>>

Startup ==
  \/ \E m \in Modes : Restart(m)
  \/ LoadOrClean
  \/ CleanFee
  \/ StartEngine
  \/ Replay
  \/ ReplayFails
  \/ EngineStarted

Inputs ==
  \/ \E b \in Block : Create(b) \/ Receive(b) \/ ServeBlocks(b)
  \/ \E n \in Heights : LearnHeight(n)

UpdateStep(t) ==
  \/ Lock(t)
  \/ StoreChainKey(t)
  \/ StoreData(t)
  \/ StoreHashIndex(t)
  \/ StoreHeightIndex(t)
  \/ SaveView(t)
  \/ Payout(t)
  \/ RegisterBlock(t)
  \/ UpdateBest(t)
  \/ StoreBestState(t)
  \/ SetKnown(t)
  \/ SetValidated(t)
  \/ Send(t)

Errors(t) == Drop(t) \/ Fault(t) \/ SaveLost(t)

Next ==
  \/ Startup
  \/ Inputs
  \/ \E t \in Threads : UpdateStep(t) \/ Errors(t)
  \/ Stop
  \/ Crash

Spec == Init /\ [][Next]_vars

\* The threads run, and a peer keeps offering the blocks this node lacks.
Fairness ==
  /\ WF_vars(Startup)
  /\ \A t \in Threads : WF_vars(UpdateStep(t))
  /\ \A b \in Block : WF_vars(Receive(b))

FairSpec == Spec /\ Fairness

(***************************************************************************)
(* ------------------------------ properties ----------------------------- *)
(***************************************************************************)

\* The process runs, no UpdateChain is under way and none has failed in it.
Quiet == Running /\ (\A t \in Threads : pc[t] = "idle") /\ ~faulty

\* Whenever the node is started again, every block up to the stored best state
\* can be read by its height: the replay of Engine.Start meets no gap.
RecoverableChain ==
  \A n \in 1..Height(savedBest) : hashAt[n] \in data /\ Height(hashAt[n]) = n

\* The block of the stored best state is the one its height leads to.
StoredTop == savedBest # NoBlock => hashAt[Height(savedBest)] = savedBest

\* Between blocks the heights kept by the blockchain, the consensus engine and,
\* after a full start, the fee estimator are one height.
HeightsAgree ==
  Quiet =>
    /\ validated = Height(best)
    /\ mode = "full" => fee = IF Height(best) = 1 THEN Unmined ELSE Height(best)

\* After a full start the double-spend data are those of the blocks of the best
\* chain (but genesis), and of no block that a crash left behind.
ViewExact ==
  Quiet /\ mode = "full" => view = {hashAt[n] : n \in 2..Height(best)}

\* The chain on disk, as far as the stored best state vouches for it.
Committed == [n \in 1..Height(savedBest) |-> hashAt[n]]

Chain == INSTANCE Ledger WITH ledger <- Committed

\* Over crashes, restarts and failed writes the stored chain only grows.
StoredChainGrows == Chain!LedgerSpec

\* "Load existed chain dependencies instead of rebuild from block data": a fast
\* start finds the estimator where a rebuild would have brought it.
FastStartAsRebuilt ==
  pc["main"] = "engine" /\ savedFee # NoFee =>
    fee = IF Height(best) = 1 THEN Unmined ELSE Height(best)

\* "Insert the block into the database if it's not already there": a node that
\* stays up, is offered the next block again and again and finds no fault in it
\* gets to the top.
CatchesUp ==
  <>[](up = "run") /\ <>[][\A t \in Threads : ~Drop(t)]_vars
    => <>(Height(best) = MaxHeight)

\* "Send Blocks back to requestor": a request for blocks never takes the node
\* down.
RequestsServed == ~panicked
(***************************************************************************)
(* The inductive invariants behind the properties above (ChainStoreProofs). *)
(***************************************************************************)
Busy    == {"candidate"} \cup Connecting \cup Updating
Indexed == {"view", "payout"} \cup (Updating \ {"send"})

\* The heights up to which every block can be read.
ReadableTo ==
  {n \in 0..MaxHeight :
     \A i \in 1..n : hashAt[i] \in data /\ Height(hashAt[i]) = i}

\* Who may run when.
Phases ==
  /\ up # "init" => pc["main"] = "idle"
  /\ ~Running => pc["netsync"] = "idle" /\ pc["producer"] = "idle"
  /\ pc["main"] \notin {"candidate"} \cup (Updating \ {"saveBest"})
  /\ pc["main"] \in Connecting => best = cur["main"]
  /\ pc["main"] = "replay" => known = Height(best)
  /\ up # "down" => best \in Block

\* What each thread has stored of its block, and what lies below it.
StoreInv ==
  /\ Height(savedBest) \in ReadableTo
  /\ up # "down" /\ pc["main"] \notin Connecting => Height(best) \in ReadableTo
  /\ validated \in ReadableTo
  /\ \A t \in Threads :
       /\ pc[t] \in Busy => Height(cur[t]) - 1 \in ReadableTo
       /\ pc[t] \in Indexed => Height(cur[t]) \in ReadableTo
       /\ pc[t] \in {"hashIdx", "hashAt"} => cur[t] \in data

\* The leader of a chain meets no error of the database: then no block of its own
\* comes back to it (two threads would write otherwise).
LeaderFaultFree == own => MaxFaults[own] = 0

\* The thread that brings in blocks, and the one that stays out of it.
Writer    == IF own THEN "producer" ELSE "netsync"
Bystander == IF own THEN "netsync" ELSE "producer"

Ahead   == {"candidate", "register", "update"} \cup Connecting
Adopted == {"saveBest", "known", "validated"}

\* Every block the leader has sent is stored, and each one it has in hand is new.
LeaderInv ==
  own =>
    /\ published \subseteq data
    /\ chainKey \subseteq created \cup {Genesis}
    /\ pc["producer"] \in Busy => cur["producer"] \in created
    /\ pc["producer"] \in {"candidate", "chainKey"} => cur["producer"] \notin chainKey
    /\ pc["producer"] \in Indexed \cup {"hashIdx", "hashAt", "send"}
         => cur["producer"] \in data

\* One thread writes, above the stored chain, and only indexed blocks become best.
WriterInv ==
  /\ pc[Bystander] = "idle"
  /\ up # "down" => Height(savedBest) <= Height(best)
  /\ pc[Writer] \in Ahead => Height(best) < Height(cur[Writer])
  /\ pc[Writer] \in Adopted => best = cur[Writer]
  /\ pc["main"] \in Connecting \cup {"saveBest"} => cur["main"] = Genesis /\ best = Genesis
  /\ pc["main"] \in Connecting => savedBest = NoBlock
  /\ \A t \in Threads : pc[t] \in Indexed => hashAt[Height(cur[t])] = cur[t]
  /\ StoredTop

\* What the estimator and `view` hold of a chain of height n.
FeeOf(n)    == IF n = 1 THEN Unmined ELSE n
BlocksTo(n) == {hashAt[i] : i \in 2..n}

\* The start of the node brings `fee`, `view` and `validated` up to the best state.
StartInv ==
  /\ up \in {"down", "init"} => ~faulty
  /\ up = "down" => fee = Unmined
  /\ up = "init" /\ mode = "full" /\ pc["main"] # "replay" => fee = Unmined
  /\ mode = "full" /\ pc["main"] \in {"cleanFee", "engine"} => view = {}
  /\ mode = "full" /\ pc["main"] = "engine" => savedFee = NoFee
  /\ pc["main"] = "replay" =>
       /\ 1 <= validated /\ validated <= known
       /\ mode = "full" => fee = FeeOf(validated) /\ view = BlocksTo(validated)

\* Two threads may bring in blocks, if one that the leader sent after an error
\* comes back to it.  Estimator and `view` go by the height that RegisterBlock
\* took last: a thread that has entered ConnectBlock with a block no higher than
\* that will be refused there (Doomed).
Updaters == {"netsync", "producer"}
Entered  == Connecting \cup {"register"}
Top      == IF fee = Unmined THEN 1 ELSE fee
Doomed   == \E t \in Updaters : pc[t] \in Entered /\ Height(cur[t]) <= Top

\* The best block is the registered one, but for a thread that is about to make
\* it so, and nobody has a block in hand that is higher than the next one.
TopInv ==
  /\ validated <= Height(best)
  /\ \A t \in Updaters :
       /\ pc[t] \in {"candidate"} \cup Entered => Height(cur[t]) <= Height(best) + 1
       /\ pc[t] = "update" => Height(cur[t]) = Top /\ Height(best) = Top - 1
       /\ pc[t] \in Adopted => Height(cur[t]) <= Height(best)
  /\ (\A t \in Updaters : pc[t] # "update") => Height(best) = Top
  /\ pc["netsync"] = "update" => pc["producer"] # "update"

\* `view` holds the registered blocks and those that wait for it; the index leads
\* to a block that waits, unless another thread has come after it.
Waiting(t) == IF pc[t] \in {"payout", "register"} THEN {cur[t]} ELSE {}
ViewInv ==
  /\ view = BlocksTo(Top) \cup Waiting("netsync") \cup Waiting("producer")
  /\ \A t, u \in Updaters :
       t # u /\ pc[t] \in {"view", "payout", "register"} /\ pc[u] \notin Entered
         => hashAt[Height(cur[t])] = cur[t]

SharedInv ==
  /\ \A t \in Updaters : pc[t] \in Busy => Height(cur[t]) > 1
  /\ Running /\ mode = "full" /\ ~faulty /\ ~Doomed => TopInv /\ ViewInv

\* Until an UpdateChain fails, best state, validated height and estimator of a
\* chain with one writer move on together, one block at a time.
InStepInv ==
  Running /\ ~faulty =>
    /\ pc[Writer] \notin Adopted => validated = Height(best)
    /\ pc[Writer] \in Adopted => 1 < Height(best)
    /\ pc[Writer] \in Ahead => Height(cur[Writer]) = Height(best) + 1
    /\ mode = "full" =>
         fee = IF pc[Writer] \in {"update"} \cup Adopted THEN Height(cur[Writer])
               ELSE FeeOf(Height(best))
=============================================================================
