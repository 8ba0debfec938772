# A TLA+ model of the Constant node

Constant (package `github.com/ninjadotorg/constant`) is a blockchain node written
in Go. A committee of `TotalValidators` (20) members keeps as many chains in
parallel; each member leads one chain, collects signatures of the others for each
of its blocks, and every node stores all chains. This directory models the part of
it that is hard to test: what goroutines, crashes, restarts and the network do to
the consensus engine, the store and the transaction pool.

Line numbers below are those of the repository the modules were written from;
`PROJECT.json` maps every definition to its lines.

## 1. Inventory

| Component | Code | State | Operations | Status |
|---|---|---|---|---|
| Block finalization | `consensus/ppos/engine.go` 310-421, `message.go` 91-98 | channels `cancel`, `allSigReceived`, `cBlockSig`, slots `BlockCommitteeSigs`, `retryTime` | Finalize, its two goroutines, OnBlockSigReceived, Stop | `Finalize` |
| Chain update and store | `engine.go` 102-199, 423-460, `blockchain/process.go`, `blockchain.go`, `database/lvdb/block.go` | LevelDB keys, `BestState`, known and validated heights | Start (replay), UpdateChain, ConnectBlock, getblocks, Stop, crash | `ChainStore` |
| Chains between nodes | `engine.go` 237-307, `message.go` 24-144, `validation.go` 123-222 | heights of all chains on each node, blocks on the way | producing, signing, accepting, learning of longer chains | `ChainSync` |
| Transaction pool | `mempool/mempool.go`, `blockchain/validation.go` | `pool`, `poolNullifiers` | MaybeAcceptTransaction, RemoveTx, template | `Mempool` |
| Fee estimator | `mempool/estimatefee.go` | `observed`, bins, `dropped`, `lastKnownHeight` | ObserveTransaction, RegisterBlock, Rollback, EstimateFee, Save | `FeeEstimator`; its heights in `Mempool` and `ChainStore` |
| Block template | `blockchain/blocktmlp.go` | funds in the header | NewBlockTemplate | the fund in `Treasury`, the choice of transactions in `Mempool` |
| Committee and swap | `consensus/ppos/committee.go`, `swap.go`, `message.go` 146-251 | `CurrentCommittee`, points | StartSwap, OnSwap*, watcher | watcher in `NodeLoop`; swaps never begin (section 8) |
| Netsync | `netsync/netsync.go` | one queue, one goroutine | messageHandler, Queue*, Stop | the goroutine and what holds it up in `NodeLoop`, its handlers in the modules above |
| Peers, connections | `peer/`, `connmanager/` | table of connections, pending peers, streams, retries | processConn, handleConn, handleStream, reader and writer, retries | `PeerConns`, `Handshake` |
| Server | `server.go`, `constant.go` | everything above | NewServer, Start, Stop, handshake | start and stop of the data in `ChainStore`, handshake in `Handshake`, routing in `NodeLoop` |
| Address manager | `addrmanager/` | addresses, peers file | savePeers, loadPeers | not modelled (section 8) |
| Loans, dividends, crowdsale, governance | `blockchain/validation.go`, `blockchain.go` 482-541, `voting/`, `stability/` | loan keys, constitutions | Validate*, Process* | cannot happen at this commit (section 8) |
| RPC server, wallet, tools, boot node, wire encodings | | | | not modelled (section 8) |
| Transactions' cryptography, `privacy-protocol/` | | | | not modelled (section 8) |

How they interact. Peers' messages are each read in a goroutine of their own
(`peerconn.go:69`) and put into one queue, which one goroutine, *netsync*, empties
and hands to the engine (`OnBlockReceived`, `OnRequestSign`, `OnBlockSigReceived`,
`OnChainStateReceived`) or to the pool. The *producer* goroutine of
`StartProducer` creates and finalizes blocks whenever `knownChainsHeight` equals
`validatedChainsHeight`. Both end in `UpdateChain`. *main* builds the server,
replays the chain in `Engine.Start` and waits for a signal. RPC threads submit
transactions to the pool. What is shared: the database; `BestState`; the two arrays
of heights, whose locks are taken by some writers and by no reader; the pool under
`tp.mtx`; the estimators under their own; and `chainLock`, held over
`ConnectBlock` only.

What is hard, and which property stands for it, is the list "hazards" of
`PROJECT.json`. In short: unbuffered channels between four kinds of goroutine;
six separate writes per block with no batch, and a crash between any two of
them; state that exists in memory, in LevelDB and in the estimator and is brought
up to date one after the other; a five-second wait on the only message thread;
recorded heights of other chains as a precondition for accepting a block; checks
of a transaction that are not atomic with the arrival of blocks.

## 2. Plan

Built, in this order: `Finalize` (consensus is decided there), `ChainStore` with the
abstract `Ledger`, `Mempool`, `ChainSync`, `FeeEstimator`; proofs of `Finalize` and
of `ChainStore`'s types and recoverability; then `NodeLoop`, which composes what the
first modules have apart (netsync held up by a signature, the producer's gate, the
peers), with proofs of its safety, `PeerConns` and `Handshake` below it, and
`Treasury`.

Then the proofs of the remaining safety properties, those of `FeeEstimator` last: every
invariant and every action property of a passing run is a theorem (section 7).

Left:

1. `ChainStore`: netsync during the replay (section 4.2); nullifiers and commitments
   as separate writes.
2. The order in which the goroutines of a shutdown end (`Server.Stop`,
   `peerHandler`, `ConnManager.Stop`).

## 3. Modules

| Module | What it is |
|---|---|
| `Finalize` | goroutines and channels of `Engine.Finalize` |
| `FinalizeProofs` | its theorems |
| `Ledger` | abstract specification: a chain of blocks of consecutive heights that only grows |
| `ChainStore` | one chain on one node: store, restart, crash |
| `ChainStoreProofs` | its theorems |
| `Mempool` | pool, double-spend checks, estimator's heights |
| `MempoolProofs` | its theorems |
| `ChainSync` | several nodes, several chains |
| `ChainSyncProofs` | its theorems |
| `FeeEstimator` | bins, rollback, estimates and the saved state of the fee estimator |
| `FeeEstimatorProofs` | its theorems |
| `NodeLoop` | the goroutines of one producing node and what they wait for |
| `PeerConns` | table, streams and retries of one listener's connections |
| `PeerConnsProofs` | its theorems |
| `Handshake` | version, verack, getaddr and addr over one connection |
| `ServerProofs` | theorems of `NodeLoop` and `Handshake` |
| `Treasury` | the salary fund from block to block |
| `TreasuryProofs` | its theorems |
| `MCChainStore`, `MCMempool`, `MCChainSync`, `MCFeeEstimator`, `MCNodeLoop`, `MCPeerConns` | constants for TLC (the others need none) |

A definition whose comment begins "Mutant of" is the form a plausible mistake would
give the definition after it; no specification uses it. Each property of a passing
run has one that violates it, listed in `PROJECT.json`.

### Conventions

Actions carry the names of the functions they model. An action is one step that
other threads can observe: a write to the database, a section under a lock, a send
on an unbuffered channel together with its receive. Bounds are CONSTANTS named in
guards (`MaxCalls`, `MaxHeight`, `MaxLives`, `MaxStarts`, `MaxFaults`,
`MaxRollbacks`, `MaxSigs`, `MaxStarting`, `MaxInFlight`, `MaxTxs`, the sets `Conn`,
`Fees` and `Fallible`); `MaxRetry`, `MaxInBlock`, `Depth`, `BinSize`,
`MaxReplacements`, `MaxRollback`, `MinRegistered`, `Quorum`, `MaxOutbound`,
`MaxInbound`, `MaxRetryConn` and `RefundPeriod` are constants of the code.
`CHECK_DEADLOCK` is off in every configuration but that of `peers`, because a bound
ends the run or because the node may stop; a listener always has something to do.

Signatures are modelled by their contract: one verifies over the hash it was made
over and over no other. (`cashec.ValidateDataB58`, `cashec/keysetprivacy.go:98`,
copies the decoded key into a slice of length zero, so at this commit verification
works on an empty key; the models are of the engine around it.)

## 4. The modules and the code

### 4.1 Finalize

State: the goroutines as program counters (`main`, `coll`, `req` per attempt), the
channels `cancel` and `allSigReceived` of each call (open or `closed`), the signature
netsync is blocked on (`netMsg`), the slots of each block (`sigs`) with the hash each
signature was made over, and `replies`, the signatures still to arrive. An attempt
is `<<call, retryTime>>`. `oneNode` chooses between the two builds that the comment
at `engine.go:370` describes: the repository as it stands signals `allSigReceived`
without waiting for anyone.

A rendezvous on an unbuffered channel is one action (`AllSigReceived`, `Retry`,
`GiveUp`, `Collect`). Goroutines of a call that has returned go on: `Collect` may
still take a signature for it, because Go's `select` picks any ready case. Closing a
channel under a blocked sender and sending on a closed channel end in `panicked`.
The validators' side is `Request`: any subset answers, over the hash of the attempt.
A failing `signData` before the first attempt returns at once and is left out.

In the one-node build the request goroutine releases `Finalize` before it asks anybody to
sign (`engine.go:371`), so that the collector of the call is still there when the producer
signs the header (412), and may fill empty slots of it afterwards (352).

### 4.2 ChainStore and Ledger

State: the six kinds of key that one block writes (`chainKey`, `data`, `hashIdx`,
`hashAt`, `view`, `savedBest`), the stored estimator (`savedFee`, its height), the
four places that hold a height in memory, and a program counter per thread. Every
`put` is an action; `Crash` may come between any two, and keeps the database only.
`Restart` chooses fast or full mode each time. A block is a height and a branch;
blocks of two branches of one height compete. Content checks of a block
(`validateBlockSanity`) pass or fail nondeterministically (`Drop`); nothing in them
looks at `PrevBlockHash`.

For a node that follows the chain (`own = FALSE`) netsync is the only writer after
the start. For its leader the producer writes, and netsync sees only blocks that
were published. `Fault` is an error of the database or of the merkle tree inside
`ConnectBlock` or `BestState.Update`; `SaveLost` the ignored error of
`StoreBestState`.

Refinement: `Committed`, the function from the heights up to the stored best state
to the blocks that the height index leads to, is the `ledger` of `Ledger`, which
may only be extended at its end (by several blocks when `StoreBestState` had failed for
the ones before) or stay as it is.
`StoredChainGrows` is `Ledger`'s specification under that mapping.

Simplifications. `view` is one write although nullifiers and commitments
are several. The transaction index is not modelled. netsync and RPC are started a
moment before the replay; here netsync acts once `Engine.Start` is done, which
leaves out the instant in which the last replayed block counts as validated.
A genesis block's commitments are removed by the first full start and not replayed,
so `ViewExact` begins at height 2.

A fast start takes over the saved estimator, or a new one if `RestoreFeeEstimator` fails
(`server.go:155-161`). `Engine.Start` decides by the estimator of chain 0 whether to replay
all chains (`engine.go:124`); the chain of this module is one whose estimator is saved if
chain 0's is. Of a chain whose estimator was not saved while that of chain 0 was, the
estimator stays nil, and the next `RegisterBlock` ends the process.

### 4.3 Mempool

State: the chain as a sequence of sets of transactions, the stored nullifiers, `pool` and
`poolNullifiers`, the transaction that holds `tp.mtx` (`acc`, between its checks), the
estimator's `observed` and `mined` heights, and the thread that brings in blocks. A
transaction is the set of its nullifiers, which may be empty: nothing requires a
transaction to have a Desc (`mempool.go:227-295`). The conditions are the code's:
`CoinsPass` accepts a transaction only if all its nullifiers are in every entry of
`poolNullifiers` (`mempool.go:374`), and `RemoveTx` keeps the entry in `poolNullifiers`.
The nullifiers of a block are stored one by one, which may fail half-way
(`ConnectFails`); `RegisterBlock` may refuse the block (`RegisterOutOfOrder`,
`RegisterRepeated`), and `UpdateChain` then returns; the replay may end in an error that
`Start` misses (`ReplayFails`, `cut`). `early` collects the transactions that were checked
against a database without all nullifiers of the chain.

Three ways to die are part of the model: a transaction accepted before the estimators
exist (`nil`), the type assertion of `ValidateDoubleSpendCustomTokenOnTx` on a normal
transaction of the pool (`cast`), and a negative bin index in `RegisterBlock`
(`index`); a killed process is `Restart`. Only full starts are modelled here.

Custom-token transactions are offered and refused: `validateSanityCustomTokenTxData`
calls `validateSanityNormalTxData` (`mempool.go:299`), which knows the types of normal and
salary transactions alone (214). None gets into a pool or, after genesis, into a block, so
the token checks and the token index that `CreateAndSaveTxViewPoint` would write
(`blockchain.go:567-601`) have no part in what follows. Other types are refused by
`ValidateTxWithCurrentMempool` or by the fee check.

### 4.4 ChainSync

State: `known` and `validated` heights of every node for every chain, the producer of
each chain with its candidate and signatures, the blocks sent so far, and what each
netsync is waiting for. A published block may reach any node at any time and any
number of times; a chain-state message may carry any heights its sender has had.
`Complete` and `NextOfChain` are `IsEnoughData`; a block that fails `Complete`
occupies the node's netsync until `WaitEnds`.

`Finalize` and `UpdateChain` are single steps here, except that the leader's block is
out before its `validatedChainsHeight` counts it. `FinalizeFails`: `UpdateChain` ends in
an error, which `Finalize` does not learn of (`engine.go:418`), and the block goes out all
the same; `forked` remembers the chain. `UpdateChain` of a received block may fail as
well, which is the last case of `Decide`.

A block is taken over only with `Accepting` (10) signatures that verify (`Verified`,
`validation.go:46-79`). At this commit none verifies, because the hash covers
`BlockProducerSig` (`block.go:168`), and blocks of the one-node build have one: `verifies`
is FALSE for the code as it stands, and no node takes over a block of another. TRUE is the
code with the hash put right. Builds are pairs of `oneNode` and `verifies`; the properties
are checked and proved for all of them.

### 4.5 FeeEstimator

State: the fields of the struct, with `observed` and `mined` as heights per
transaction (0 stands for `UnminedHeight`, which is no height of the chain) and bins
numbered from 1. The first `Stored` blocks are those that `Engine.Start` replays; a
transaction that the pool accepts meanwhile is observed at the height of the stored chain
(`BestHeights`), above the blocks still to be registered. `ef.mtx` covers whole operations, so `step` says which one holds it;
`RegisterBlock` is a step per transaction because the code ranges over a map, and
`MineTx` chooses any transaction that `rand.Intn` may choose. `Rollback` is a step per
block. `branch` is the chain the blocks come from, and `before` remembers the bins
before each block on the stack, for `RollbackRestores` alone.

`Refilled` and `Unfilled` give what the two loops of `rollback` do to a bin: the dropped
transactions take the first positions filled by the block (`Filled`), in order, and the
transactions at its other positions are cut out. `Rank` numbers the positions in the
order in which the loops come to them. `Save` writes bins and stack as
indexes into the sorted list of observed transactions and zero for a transaction that
is not among them; `Restart` reads them back. `Rollback` has no caller in the node and
is modelled as its comment offers it, for any block on the stack. Two errors that no
valid branch leads to (`mined`, `illegal`) end the run of the model, as the panic of a
negative index does.

### 4.6 NodeLoop

State: for each goroutine of a producing node what it waits for. `netsync` is idle, or
held up in `cBlockSig <-` (`sig`), in a send to a peer (`push`), or in a send to a peer
whose writer has ended (`lost`: `QueueMessageWithEncoding` tests `IsConnected` and then
sends on an unbuffered queue). `producer` is the loop of `StartProducer`; a collector
is there during `Finalize` (`collector`) and for a moment after it (`oldCollector`, at
least one). `flag`, `starting` and `quitClosed` are the committee watcher: the flag
`cmWatcherStarted`, goroutines that are to start the watcher, and its channel, which
`StartProducer` makes once. `sigs`, `blocks` and `states` are the goroutines of
messages that wait at netsync's unbuffered `cMessage`.

It composes, in place of the details of other modules, what they show to the outside:
a block of the next height that passes `validateBlockSanity` is stored in one step
(`ChainStore`), a Finalize of the one-node build returns and its signatures arrive
afterwards (`Finalize`), a block that is not the next of its chain or does not pass is
dropped (`ChainSync`). `Outcomes` is what the check may say: FALSE alone for the blocks
of this build, whose one signature is not enough (`validation.go:75`), both in the run
`node`. Chains other than the node's own
have heights; the node's own chain never closes the gate. The peers produce, report any
heights they have had, serve `getblocks`, and sign.

### 4.7 PeerConns

State: the connections that a goroutine still refers to (`conn`), the table `PeerConns`,
the pending peers, the waiting `PushConn` calls and the dial that `processConn` waits
for. `life` of a connection orders what its goroutines do: the reader sets and clears
`IsConnected`, the writer ends by `cWrite`, `handleDisconnected` runs in a goroutine
of its own, in two steps where it reads and then deletes the table's entry. A retry is a
timer, a request and a dial, with `RetryCount` as the code counts it: once when the
timer fires and once more when the answer is nil. `conn` has no entry for a connection
with no goroutine left; `Conn` bounds how many there are at a time. A give-up clears the
count of its connection, which nothing reads any more; it is three steps (`RetryGivesUp`,
`RetryRenews`, `RetryPends`, `peer.go:616-618`). Accesses to the Go maps are atomic
here; the program uses them without their lock, so that Go may also end it with
"concurrent map" errors. Two ends that dial each other at the same time are two
listeners, each of which sees a dial and a stream.

### 4.8 Handshake

State: per end whether its reader runs, the verack it has received, the key it has
learned, and the messages under way by kind; `answering` counts the handlers between
the verack they have sent and the version that may follow (`server.go:654-662`). A
message is handled in any order, and one queued at an end that is not `IsConnected` is
dropped, as `QueueMessageWithEncoding` does. Both nodes are producers. The content of
addr is left out: `OnAddr` only logs it.

### 4.9 Treasury

State: of each block of a chain its fund, how many of its transactions may be refunded,
the fees it took, what its salary and refunds put into circulation, and the refunds that
were left out. The operators are the lines of `NewBlockTemplate`, `buildRefundTxs` and
`calculateAmountOfRefundTxs` in their order, every sum and difference a residue of
`Modulus`. Nothing bounds a fee (`policy.go:59-68` asks for a minimum), so that `totalFee`
and `Income` may wrap around as `remainingFund` may. Transactions of a block are their
number, fee and how many of them are small and without privacy, each free. A refund whose
`CreateTxSalary` fails is left out (`blocktmlp.go:610-613`), and the fund has paid for it.
Parameters are constants, since no constitution follows that of the genesis block.

## 5. Runs

| Run | Bounds | Distinct states | Result |
|---|---|---|---|
| `finalize` | 2 validators, quorum 2 of them, 1 retry, 2 calls, both builds | 172,981 | holds |
| `chainstore` | heights 1-3, 2 branches, 3 lives, leader and follower, both modes, 1 fault for a follower | 2,038,246 | holds |
| `mempool` | 4 transactions, 2 per block, heights 1-4, 2 lives, leader and follower | 5,052,946 | holds |
| `chainsync` | 3 nodes, 2 chains, quorum 2, heights 1-3, the one-node build and the committee build with and without signatures that verify, one leader whose `UpdateChain` may fail | 553,519 | holds |
| `feeestimator` | 4 transactions of 2 rates, 2 bins of 3, 2 replacements, heights 2-5, the first 3 of them stored, 1 call of `Rollback` for up to 2 blocks | 700,654 | holds |
| `node` | 1 chain of another validator, heights 1-3, 1 signature, 2 watchers to be started, streams that end, any number of restarts | 153,215 | holds |
| `peers` | 2 peers, 2 connections, 1 outbound, 1 inbound, give up after 2 | 597,056 | holds |
| `handshake` | 3 messages of a kind under way to an end, equal and different versions | 10,584 | holds |
| `treasury` | heights 1-5, 3 transactions of fee 0, 1, 3 or 31 per block, refunds after 1 block, numbers modulo 32 | 390,889 | holds |
| `chainstore_catchup` | 1 branch | small | violated |
| `node_deadlock` | as `node`, blocks of this build, streams that last | 43,001 | violated |
| `treasury_refund` | heights 1-6, 1 transaction of fee 0 or 3 per block, refunds after 2 blocks, numbers modulo 128 | 37 | violated |

Why the bounds are enough for the cases of interest: two calls and one retry give
every pair of an old and a new attempt of the same and of another block, and late
signatures between them; three lives give a crash, a start that crashes in the
middle of its recovery, and a start after that; height 3 has a block below, at and
above the interrupted one; four transactions hold two that spend one coin, of which one
spends another besides, one that spends nothing and a token transfer; three
nodes and two chains give a node that leads nothing and leaders that depend on each
other; four transactions and bins of three let one block fill a bin and then replace in
it, and four blocks let an observed transaction grow too old. Heights to 3
in `node` let a node fall behind twice and blocks arrive in the wrong order, and one
signature is enough to hold netsync up. In `peers`, two peers compete for one outbound
and one inbound connection, and two connections let a lost one be retried while the
same peer opens another; a third would be needed for a second `Close` (below). In
`treasury` the refund looks back from height 2 on, so that three blocks are made with
one, the fund of 4 against salaries of 1 to 7 lets `remainingFund` wrap around, and fees
of 31 let `totalFee` do so.

### What holds

* **finalize.** `QuorumBacked`: a block past the select carries signatures of `Quorum`
  distinct validators, all over this block. `OneCollector`: the rendezvous on `cancel`
  ends the old collector before a new one starts. `SignedHeaderStable`: in the committee
  build no slot changes after the producer has signed; in the one-node build a late
  signature may still fill an empty slot, and no filled one changes. `NoPanic`: only the
  one-node segment or `Engine.Stop` can lead to a send on a closed channel. `OneNodeReturns` (liveness): in the one-node
  build a call returns.
* **chainstore.** `RecoverableChain`: the replay of any later start meets no gap.
  `StoredTop`, `HeightsAgree`, `ViewExact` relate the places that describe one chain.
  `StoredChainGrows`: refinement of `Ledger`.
* **mempool.** `MinedOnce`: over restarts, a transaction is mined once, unless it spends
  nothing or was accepted before a replay had stored all nullifiers. `RegisterSound`: for
  all other transactions what `RegisterBlock` calls "shouldn't happen" does not, except for the
  negative index during a replay. `StallNeedsRepeat`: the estimator gets ahead of the chain,
  after which every block is refused, only by a transaction of the two excepted kinds that
  is mined again, or by a replay that was cut short. `KeptUntilStored`: a transaction leaves
  the pool only after its nullifiers are stored.
* **chainsync.** `CausallyClosed`: who has a block has all that its header records.
  `KnownExists`: nobody waits for a block that was never made. `NoCircularWait`: a node
  that lacks a block has all that one of those it lacks records. `NoFork`: one block per
  height and chain, over any number of attempts that were given up, as long as no
  `UpdateChain` of the leader has failed. `PrefixReplicated`: below a published block of the
  committee build, a quorum has the chain.
* **feeestimator.** `RollbackRestores`: a rollback leaves every bin with the transactions it
  had, replaced ones included. `NoFailure`: after it they can be mined again, no dropped
  transaction is left without a place, and no index is below zero except during the replay
  of the stored chain or after a `Rollback`. `BinsSound`: bins hold what their number
  says. `RestoredAsSaved`: every saved reference can be followed.
* **node.** `ProcessedUnlessHeldUp` (liveness): a block that waits at netsync is taken over
  or dropped, unless the node is in its deadlock, a stream ended under an answer to its
  peer, or the process ends.
  `DeadlockIsPermanent`: the deadlock of netsync and producer has no way out but a
  restart. `PanicNeedsTwoTurns`: closing the watcher's channel a second time, which ends
  the process, takes two turns, in whatever order the goroutines run.
* **peers.** `NeverReplaced`, `LimitsKept`: though the table is read before a dial and
  written after it, no entry is replaced and no limit passed, because `processConn`
  waits for each dial. `WrongByGivingUp`: the table misses a live connection only after a
  retry gave up. `ClosedIfWrong`: `Close` is called only then. `RetriesEnd` (liveness)
  and `LostPeerKept`: tries end, with a connection or a pending peer.
* **handshake.** `OneVersion`: one version is under way or due at a time. `VersionsStop`
  and `BegunIsDone` (liveness): the ends stop answering each other, and not before both
  have the other's key and verack.
* **treasury.** `FundExact`: a block that passes the check mints no more than fund and fees
  give, though fees, their sum with the fund and `remainingFund` may have wrapped around
  before; if the fees fit and each refund was made it is all of it, up to the remainder of
  the refund's division.

### What does not hold

Three runs check what a comment says and find it violated; `PROJECT.json` ("findings")
quotes the line and describes the behaviour:

1. `chainstore_catchup`: a block half stored by a crash is refused from then on.
2. `node_deadlock`: a block handed to netsync is never processed, because netsync waits
   for a collector and the producer, which would start one, for netsync.
3. `treasury_refund`: the refund that `constants.go:7` promises never comes. Where the block
   looked back to has nothing to refund and the fund is not empty, the template divides by
   zero, and after each restart again. The genesis block is such a block, so a chain whose
   genesis block has money in its fund does not grow past height `RefundPeriod` + 1 (1001):
   `genesis.go:307` has a refund of zero, which is not "no refund" to `buildRefundTxs`. The
   run has a refund above zero.

### Seen in the models, not runs

TLC finds these by checking the definition named against the specification of a passing
run, or by the passing runs' own exceptions.

* `Finalize.TimeoutRetries`: a timeout at the moment the last signature is counted blocks
  the producer for ever (`engine.go:407` against 361), where the comment at line 399
  has it retry.
* `Finalize.PeersAcceptSigs`: committee signatures of a published block do not verify,
  because the hash covers `BlockProducerSig` (`block.go:168`). Peers ask for ten
  (`validation.go:75`, 179), so no node takes over a block of another; `ChainSync` has this
  as `verifies` = FALSE, and its properties hold with it and without.
* `ChainStore.FastStartAsRebuilt`: after a crash a fast start, the default, uses an
  estimator that is behind the chain, and no block is adopted any more.
* `ChainStore.RequestsServed`: `getblocks` during a `ConnectBlock` dereferences nil
  (`netsync.go:258`).
* `Mempool.PoolNoDoubleSpend`: the pool's coin check is inverted (`mempool.go:374`).
* The committee watcher's panic (`committee.go:101`) is reached by a node that falls
  behind twice, or once while a watcher starts late.
* A version pushed before the reader of the connection runs is dropped, and nothing
  pushes another (`server.go:327`, `peerconn.go:240`): the handshake does not begin.
* A retry counts twice, so a peer is given up after 7 attempts rather than the 15 of
  `MaxRetryConn`. The give-up takes a live connection of the peer off the table
  (`peer.go:291`). With three connections of one peer, two of them lost from the table
  that way, `Close` is called twice and panics. A pending peer is asked for again only
  when some retry gives up.
* With database errors on the leader, `StoredTop` and `HeightsAgree` fail:
  `Finalize` publishes the block although `UpdateChain` failed (`engine.go:418`), the
  block comes back through netsync, and two threads write one chain. The `chainstore`
  run therefore gives faults to followers only (`MCFaults`). `RecoverableChain` and
  `ViewExact` hold even then, which is proved (section 7) and was checked for a leader with
  one fault and the other bounds of the run (4,059,224 states): both threads may store a
  block of one height, but the estimator takes each height once, so that only the first
  becomes the best block and the `UpdateChain` of the other ends with an error. Between
  nodes this is `ChainSync.FinalizeFails`: the leader makes another block of the height.
* After a fast start `view` may hold nullifiers of a block that was never adopted; after
  a full start interrupted between `CleanNullifiers` and `CleanFeeEstimator`, a fast
  start runs with no nullifiers at all.
* During the replay a transaction that is on the chain can be accepted and mined again,
  because its nullifiers have been deleted (`early` in `Mempool`); observed at the stored
  height, it also gives `RegisterBlock` a negative index when its own block is replayed.
  `MinedOnce` and `RegisterSound` except it.
* A transaction without Descs is accepted and mined any number of times. While the estimator
  has it as mined, the next block with it stops the chain: `lastKnownHeight` is raised before
  the error (`estimatefee.go:206`, 245), and every later block is refused (`engine.go:430`).
* Being offered a custom-token transaction while a normal one is in the pool ends the process
  (`CheckPoolPanics`, `blockchain/validation.go:489-501`).
* A `Rollback` to below the height at which a transaction was observed, followed by a
  block at that height with the transaction, gives `RegisterBlock` the index -1
  (`estimatefee.go:257`); the check before it is for the upper bound only. Nothing calls
  `Rollback` at this commit, and `NoFailure` excepts this case.

## 6. Fairness

* `Finalize`: weak fairness of every goroutine and of the timer. Go's scheduler runs
  every runnable goroutine, and an armed timer fires. Nothing is assumed of the network:
  `replies` may stay empty.
* `ChainStore` (`chainstore_catchup` only): weak fairness of the threads and of `Receive`:
  peers answer the `getblocks` that a node sends again and again. `CatchesUp` supposes
  that from some time on the process stays up and blocks pass their checks.
* `ChainSync`: none; it has no liveness property. At this commit no node takes over another's
  block, so there is nothing to wait for.
* `NodeLoop`: weak fairness of the goroutines that can run and of the peers' answers to
  `getblocks`. Strong fairness of handing over a block that waits: senders on a channel
  are served in order of arrival. Strong fairness of `Finalize`: `createBlock` does not fail
  for ever. Strong fairness of taking a signature: a collector that finds both a signature
  and `cancel` chooses at random. Nothing is assumed of chain states, signatures, restarts
  or new blocks.
* `PeerConns`: weak fairness of the end of a dial, of the callbacks and of the timers;
  strong fairness of a retry's turn at `processConn`, which serves its channels in order
  and chooses between them at random. Nothing is assumed of streams.
* `Handshake`: weak fairness of every goroutine. Nothing is assumed of the stream.
* `Treasury` (`treasury_refund` only): the leader goes on making blocks and is started again
  after a panic.

## 7. Proofs

The theorems hold for all values of the constants that satisfy the assumption of the
module (`FinalizeAssumption`, `ChainStoreAssumption`, ...); TLC evaluates each on the runs'
values. They are about `Spec` (`HandshakeSpec`), without fairness. The assumptions give the constants their
types, and three say more: a node leads at most one chain (`ChainSyncAssumption`; the
members of a committee are distinct), a bin has room for more transactions than a block may
replace in it (`FeeEstimatorAssumption`; 100 and 10), and the salary and refunds of one full
block stay below 2^64 (`TreasuryAssumption`; they are parameters of the genesis block).
Nothing is assumed of fees or of a transaction's nullifiers.

The inductive invariants stand at the end of the modules they are about. Each was checked
with TLC on the run of its module, with that run's bounds, before it was proved
(`SharedInv` also for a leader with a fault).

**FinalizeProofs.** `TypeCorrect`, then the inductive invariant `FinalizeInv`, from which
`SingleCollector`, `FinalizedIsBacked`, `NoSendOnClosed` and `SignedIsStable` follow.
`QuorumBacked` alone is not inductive: it must be known that the counter of a live
collector equals the number of filled slots (`CountsSlots`), which rests on there being
one collector (`OneCollector`), on slots holding signatures over this block only
(`SlotsOfThisBlock`), on calls that have not begun having no collectors
(`NotYetStarted`), and, for the panics and the signed header, on no collector being
left once a call of the committee build is past its select (`CollectorsGone`,
`SignedOrder`). `SignedIsStable` is about both builds: where the collector lives on, it
rests on `SlotsOfThisBlock` and on a filled slot being kept. `StepKeepsInv` has
one case per action; the cases that start, end or feed a collector rest on the lemmas
`StartKeepsInv`, `NoWriteKeeps`, `CollectKeeps`, `CloseKeeps` and `LastCollector`.
Cardinalities come from `FiniteSetTheorems`.

**ChainStoreProofs.** `TypeCorrect`, then `Phases` (which thread may run when) and
`StoreInv`, which imply `RecoverableChain` (`AlwaysRecoverable`). The idea is
`ReadableTo`, the set of heights up to which every block can be read: no step
shrinks it (`ReadableStays`: a height index is overwritten only by a block whose
bytes are stored), and every height that some part of the node relies on, the
stored best state, the best state in memory, the validated height and each thread's
block at its step, lies in it. Nothing is assumed of how often the process crashes, nor
of there being one writer.

`ViewAlwaysExact` does not need one writer either. `SharedInv` goes by the height that the
estimator has registered last (`Top`) instead of by who writes: as long as no `UpdateChain`
has failed, the best block has that height or is about to get it (`TopInv`), and `view` holds
the blocks up to it and those that wait for `RegisterBlock` (`ViewInv`). A thread that is
in `ConnectBlock` with a block no higher than `Top` may have overwritten the index and added
to `view`, but it cannot come to rest without an error (`Doomed`, `DoomedStays`), and
`ViewExact` speaks of processes without one. `StartInv`, which follows the start of the
node through cleaning and replay, gives the state in which the threads begin.

The other three properties do need one writer. `LeaderFaultFree`, a hypothesis of
`StoredTopHolds`, `ImplementsLedger` and `HeightsAlwaysAgree`, says that a leader meets no
error of the database; of a follower it says nothing. It is the condition of the run
(`MCFaults`), and without it `StoredTop` and `HeightsAgree` are false (section 5). `LeaderInv` draws the consequence: every block that the leader has sent is
stored, and one that it has in hand is new, so that netsync never takes one back and
`UpdateChain` never fails before the bytes are written. `WriterInv` then holds of leader
and follower alike, with `Writer` for the one thread that brings in blocks: until it
adopts a block, that block is higher than the best one and so than the stored one; what it
has indexed is what the index leads to. Hence no write goes to a height of the stored
chain and the stored best state never moves down (`StoredPrefixStays`), from which
`ImplementsLedger` follows: each step maps to an `Extend` of `Ledger` or to a stutter.
`InStepInv` says what estimator and validated height are at each step of an `UpdateChain`,
as long as none has failed; at rest this is `HeightsAgree`.

**MempoolProofs.** `MinedInv`: what is on the chain is stored, in a replay as far as it has
come, and so is the block at hand once it is connected (`StoredInv`); a new block brings
`Guarded` transactions that the chain does not have (`BlockInv`); the same goes for the pool
of a node that makes blocks and for the transaction under `tp.mtx` (`PoolInv`); observations
are not ahead of the chain, and the last registered block is the best one, the one at hand or
one that `RegisterBlock` gave up on (`EstimatorInv`); what two blocks share is not guarded
(`OnceInv`). The hard case is a block that is stored, nullifier by nullifier, while its
transactions are still in the pool and another transaction is between its checks: `PoolInv`
says which of the two checks has caught the conflict at each step. `NeverMinedTwice`,
`RegisterAlwaysSound`, `StallOnlyByRepeat` and the action property `PoolKeepsUntilStored`
follow.

**ChainSyncProofs.** `SyncInv`: the block in the making records what its leader has validated,
and who has signed it has its predecessor (`CandidateInv`); the published blocks rest on
published blocks (`PublishedInv`); the leader of a chain that is not forked is at its top
(`UnforkedInv`); a node is at least as far as the block it waits with asks for (`WaitInv`);
with `NoFork`, `CausallyClosed` and `KnownExists` themselves. Causality is inductive in the
form of `Covered`: every height has a published block that records no more than the heights
reached, whichever of two blocks of a height a node has taken over (`CoveredByNext`,
`CoveredByMore`). `NeverWaitInACircle` rests on it: of the published blocks that come
next for a node take one that records the fewest published blocks (`LeastOf`); a chain it
waits for would offer one that records fewer. `AlwaysReplicated` counts signers with
`FiniteSetTheorems`.

**PeerConnsProofs.** `ConnInv`: entries of the table are connections of their peer that
have not left (`EntryInv`), only those that have left are retried (`RetryInv`), there is
one dial at most and its peer is not in the table (`DialInv`), and a limit has room for the
dial (`RoomInv`). `processConn` takes no stream while it waits for a dial, so that neither
the peer's place nor the room can be taken meanwhile; `EntriesNeverReplaced` and
`LimitsAlwaysKept` rest on that. The steps are sorted into those that leave the table alone, that add a
connection and that drop one (`Kinds`), and the action properties are shown for each sort.

**TreasuryProofs.** `FundExact` is inductive together with the types. `BlockFacts` goes through
the cases of the sums that wrap: the check compares residues, and when it passes, what is
paid is no more than the residue of fund and fees, which is no more than fund and fees.

**ServerProofs.** Of `NodeLoop`: `TypeCorrect`; `PanicTakesTwoTurns` from the inductive
invariant `WatcherInv`: after one turn there is at most one of a goroutine that is to start
the watcher, the raised flag and the closed channel, since each comes from the one before,
and the panic needs the last two at a time. `DeadlockLasts` needs no invariant: every
action that could end the deadlock waits for something that the deadlock denies it.
Of `Handshake`: `OneVersion` is inductive together with the types (`HandshakeInv`,
`OneVersionAtATime`), as each step moves versions between "under way", "to be answered"
and "to be greeted" without adding one (`Balanced`). That is why the bound `MaxInFlight`
does not restrict versions.

**FeeEstimatorProofs.** `RollbackRestores` is about the last block only, and must be known of
all blocks on the stack, since the next `rollback` undoes the one below. `EstimatorInv`
therefore describes the bins in layers, one for each block on the stack and one for the
block being registered: layer k is the block of height `HeightOf(k)`, `before[k]` is what
the bins held before it and layer k + 1 what they held after it (`Held`), and `Drop(k)` is
what it dropped.

* `BinLayerInv`: what a bin held before the block is what it held after it, without what
  the block mined and with what it dropped; it dropped only from a bin that was full
  afterwards. A rollback finds a place for each dropped transaction by counting, from the
  second part: a full bin from which d were dropped has at least d that the block filled,
  or it would have held more than `BinSize` before (`NeverFails`).
* `LayerInv`: what the block mined is in the bins after it, and what it dropped is in none
  from then on. So `rollback`, which goes through the bins only, resets `mined` of all that
  the block mined, and a dropped transaction is not there twice when it comes back.
* `BinInv`: each transaction is in a bin once, and those of the block being registered are
  at the end, where `Replaceable` does not reach; this is why a block does not drop its
  own transactions.
* `RecordInv`: a mined transaction is observed still, and on the branch at its height. A
  branch has it once, so that `RegisterBlock` does not meet it again; and everything in bins
  and stack has an index of its own in what `Save` writes (`RestartSame`).

Most steps leave the layers below the top alone, which `LayerKept` says once for all
actions. A registration changes the top layer only (`MineTxKeeps`); its end may cut the
lowest one off (`TrimFacts`). In `RollbackOneKeeps` the sequence `Unfilled` is
related to the sets of the layers by its positions: `AtFacts` has that selecting
positions by rank gives each selected element once and no other, `FillFacts` that the
dropped transactions land on the first positions filled. `TypeCorrect`, `NeverFails`,
`BinsAlwaysSound` and the action properties `RollbackAlwaysRestores` and
`RestoredAlwaysAsSaved` follow.

**With TLC only.** Liveness (`OneNodeReturns`, `ProcessedUnlessHeldUp`, `RetriesEnd`,
 `BegunIsDone`, `VersionsStop`): fairness and ENABLED are beyond the prover.
The numbers that `EstimateFee` gives have no property at all: `FeeRates` and `Upto` sort
and flatten sequences, and what these compute for sequences of any length needs induction
over data, which the prover does not have.

## 8. Not modelled

* The light node (`cfg.Light`): headers only, and a cache of the wallet's coins.
* Zero-knowledge proofs, keys, merkle trees of commitments, encodings: computations
  with no protocol state; the models use their results.
* RPC server, wallet, command line tools, boot node: request handling and files.
* `privacy-protocol/client/crypto`: a copy of Go's own crypto packages (TLS, X.509,
  elliptic curves), which is most of the lines of the repository and none of its logic.
* Committee swaps: nothing sends on `cSwapChain` at this commit, so no swap is requested
  and no signature for one is given. Committee points are written and never read for a
  decision.
* Loans, bonds, buy-backs, dividends, crowdsales, votes: the pool refuses these
  transactions (`mempool.go:424`), `processDividend` has a constant false condition
  (`blocktmlp.go:410`), and the constitutions of the genesis block are never due.
* The address manager: a crash while `savePeers` writes the truncated file loses the
  known addresses, and there is no more to it.
* The order in which a shutdown ends goroutines. `ConnManager.Stop` has a value receiver,
  so that its counter does not keep a second call from closing channels again.
* `PrevBlockHash`, timestamps and salary fields: no check on a received block reads
  them.
* Races on shared slices inside `database/lvdb` (key prefixes extended with `append`,
  `block.go` 21, 115, 123) and on unlocked maps (`TxPool.Count`, `ListTxs`).
* The error channel of `Engine.Start`: whether an error of the replay reaches the
  `select` is a race, which `ReplayFails` models by its two outcomes.
