----------------------------- MODULE NodeLoop -------------------------------
(***************************************************************************)
(* The goroutines of one producing node and the channels between them: the *)
(* single netsync goroutine that handles every message, the producer loop  *)
(* with its gate, the collectors that Finalize starts, the committee       *)
(* watcher that the loop starts and stops, and the peers that send blocks, *)
(* chain states, signatures and requests.  It puts together what Finalize, *)
(* ChainSync and PeerConns have apart, to ask whether the node can stop    *)
(* working although each of its parts goes on.                             *)
(*                                                                         *)
(* The build is the one of the sources, in which Finalize is released by   *)
(* its own request goroutine before that goroutine asks anybody to sign    *)
(* (engine.go:371): signatures arrive when the block is already out.  They *)
(* are too few for a quorum here (module Finalize has the quorum).  No     *)
(* block asks for more of a third chain (module ChainSync); storing a      *)
(* block is one step (module ChainStore).  The node's own chain has no     *)
(* height: UpdateChain leaves it known and validated alike, and a node     *)
(* produces without end.                                                   *)
(*                                                                         *)
(* validateBlockSanity refuses every block of this build, which carries    *)
(* its leader's signature alone: Outcomes is {FALSE} for this code.  With  *)
(* TRUE in it some blocks have their ten signatures and are taken over.    *)
(***************************************************************************)
EXTENDS Integers

CONSTANTS
  Chain,        \* the chains that other validators lead
  Outcomes,     \* what validateBlockSanity may say of a block that is next
  MaxHeight,    \* bound: height of the highest block of such a chain
  MaxSigs,      \* bound: signatures in flight or waiting at the node
  MaxStarting,  \* bound: StartCommitteeWatcher goroutines that wait to run
  StreamsEnd    \* streams end between IsConnected and the send (or never do)

ASSUME NodeLoopAssumption ==
  /\ Outcomes \subseteq BOOLEAN
  /\ MaxHeight \in Nat \ {0}
  /\ MaxSigs \in Nat
  /\ MaxStarting \in Nat \ {0}
  /\ StreamsEnd \in BOOLEAN

Heights == 1..MaxHeight
Block   == Chain \X (2..MaxHeight)

VARIABLES
  up,          \* the process runs; it ends by a panic or by being killed
  validated,   \* validatedChainsHeight (and the best block) of each chain
  known,       \* knownChainsHeight of each chain
  netsync,     \* "idle", or what messageHandler's goroutine is held up in:
               \* "sig" on cBlockSig, "push" in PushMessageToPeer to a peer
               \* whose writer runs, "lost" to one whose writer has ended
  producer,    \* "gate", "create" (createBlock), "wait" (Finalize)
  collector,   \* the collector of the running Finalize is there
  oldCollector,\* one of a finished Finalize has not seen cancel closed yet
  flag,        \* committee.cmWatcherStarted
  starting,    \* StartCommitteeWatcher goroutines that have not run yet
  quitClosed,  \* cQuitCommitteeWatcher is closed
  replies,     \* signatures that validators are about to send
  sigs,        \* OnBlockSig callbacks that wait to hand over a signature
  blocks,      \* OnBlock callbacks that wait to hand over a block
  states,      \* OnChainState callbacks, by the heights reported
  asked,       \* getblocks under way for a chain: the height after which
  top,         \* height of each chain among the peers
  panicked,    \* the process ended by a panic
  turns        \* history: turns since the start of the process, 2 for more

engine  == <<producer, collector, oldCollector, replies>>
watcher == <<flag, starting, quitClosed>>
process == <<up, panicked>>
queues  == <<sigs, blocks, states>>
peers   == <<asked, top>>
vars == <<process, validated, known, netsync, engine, watcher, queues, peers,
          turns>>

TypeOK ==
  /\ up \in BOOLEAN
  /\ validated \in [Chain -> Heights]
  /\ known \in [Chain -> Heights]
  /\ netsync \in {"idle", "sig", "push", "lost"}
  /\ producer \in {"gate", "create", "wait"}
  /\ collector \in BOOLEAN /\ oldCollector \in BOOLEAN
  /\ flag \in BOOLEAN /\ quitClosed \in BOOLEAN
  /\ starting \in 0..MaxStarting
  /\ replies \in 0..MaxSigs /\ sigs \in 0..MaxSigs
  /\ blocks \subseteq Block
  /\ states \subseteq [Chain -> Heights]
  /\ asked \in [Chain -> {0} \cup Heights]
  /\ top \in [Chain -> Heights]
  /\ panicked \in BOOLEAN
  /\ turns \in 0..2

\* What Engine.Start, StartProducer and netSync.Start set up.
Fresh ==
  /\ netsync' = "idle"
  /\ producer' = "gate" /\ collector' = FALSE /\ oldCollector' = FALSE
  /\ flag' = FALSE /\ starting' = 0 /\ quitClosed' = FALSE
  /\ replies' = 0 /\ sigs' = 0 /\ blocks' = {} /\ states' = {}
  /\ asked' = [c \in Chain |-> 0]
  /\ panicked' = FALSE /\ turns' = 0

Init ==
  /\ up = TRUE
  /\ validated = [c \in Chain |-> 1]
  /\ known = [c \in Chain |-> 1]
  /\ netsync = "idle"
  /\ producer = "gate" /\ collector = FALSE /\ oldCollector = FALSE
  /\ flag = FALSE /\ starting = 0 /\ quitClosed = FALSE
  /\ replies = 0 /\ sigs = 0 /\ blocks = {} /\ states = {}
  /\ asked = [c \in Chain |-> 0]
  /\ top = [c \in Chain |-> 1]
  /\ panicked = FALSE /\ turns = 0

(***************************************************************************)
(* ------------------------- the producer loop --------------------------- *)
(***************************************************************************)

\* The loop's test: no chain is known to be longer than this node has it.
GateOpen == known = validated

\* "It's my turn": a goroutine for the watcher, then createBlock.
Turn ==
  /\ up /\ producer = "gate" /\ GateOpen
  /\ starting < MaxStarting
  /\ starting' = starting + 1
  /\ producer' = "create"
  /\ turns' = IF turns < 2 THEN turns + 1 ELSE 2
  /\ UNCHANGED <<process, validated, known, netsync, collector, oldCollector,
                 replies, flag, quitClosed, queues, peers>>

\* createBlock fails (the template has no fund to pay from, say).
CreateFails ==
  /\ up /\ producer = "create"
  /\ producer' = "gate"
  /\ UNCHANGED <<process, validated, known, netsync, collector, oldCollector,
                 replies, watcher, queues, peers, turns>>

\* Finalize starts its collector and waits for allSigReceived.
Finalize ==
  /\ up /\ producer = "create"
  /\ producer' = "wait"
  /\ collector' = TRUE
  /\ UNCHANGED <<process, validated, known, netsync, oldCollector, replies,
                 watcher, queues, peers, turns>>

\* The request goroutine releases Finalize, which updates the chain, sends
\* the block and returns, closing cancel; the goroutine goes on and asks the
\* validators, some of which will answer.
Finalized ==
  /\ up /\ producer = "wait"
  /\ producer' = "gate"
  /\ collector' = FALSE
  /\ oldCollector' = TRUE
  /\ replies' \in replies..MaxSigs
  /\ UNCHANGED <<process, validated, known, netsync, watcher, queues, peers,
                 turns>>

\* A collector whose Finalize is over finds cancel closed.
OldCollectorEnds ==
  /\ up /\ oldCollector
  /\ oldCollector' = FALSE
  /\ UNCHANGED <<process, validated, known, netsync, producer, collector,
                 replies, watcher, queues, peers, turns>>

(***************************************************************************)
(* ------------------------ the committee watcher ------------------------ *)
(***************************************************************************)

\* StartCommitteeWatcher: nothing if the flag is up.  A watcher that starts on
\* the closed channel ends at once and leaves the flag up.
StartCommitteeWatcher ==
  /\ up /\ starting > 0
  /\ starting' = starting - 1
  /\ flag' = TRUE
  /\ UNCHANGED <<process, validated, known, netsync, engine, quitClosed,
                 queues, peers, turns>>

\* Mutant of ClearedFlag: the watcher's flag stays up when it is stopped.
KeptFlag == flag

\* StopCommitteeWatcher takes the flag down.
ClearedFlag == FALSE

\* LastBlockHash of a getblocks: the best block of the chain.
AskedFrom(c) == validated[c]

\* The gate is closed: StopCommitteeWatcher, which panics when it closes
\* cQuitCommitteeWatcher a second time, and getblocks to all for each chain
\* that is behind.
AskForBlocks ==
  /\ up /\ producer = "gate" /\ ~GateOpen
  /\ IF flag /\ quitClosed
     THEN /\ up' = FALSE /\ panicked' = TRUE
          /\ UNCHANGED <<flag, quitClosed, asked>>
     ELSE /\ flag' = IF flag THEN ClearedFlag ELSE flag
          /\ quitClosed' = (quitClosed \/ flag)
          /\ asked' = [c \in Chain |-> IF known[c] > validated[c]
                                       THEN AskedFrom(c) ELSE asked[c]]
          /\ UNCHANGED <<up, panicked>>
  /\ UNCHANGED <<validated, known, netsync, engine, starting,
                 queues, top, turns>>

(***************************************************************************)
(* ------------------- netsync: one message at a time -------------------- *)
(***************************************************************************)

\* Mutant of FreeToHandle: messages of other kinds do not wait for the
\* goroutine that hands over a signature.
FreeUnlessPushing == netsync \in {"idle", "sig"}

\* messageHandler is back at its select.
FreeToHandle == netsync = "idle"

\* UpdateChain: the block is stored, and counted as known and validated.
UpdateChain(c, h) ==
  /\ validated' = [validated EXCEPT ![c] = h]
  /\ known' = [known EXCEPT ![c] = IF @ < h THEN h ELSE @]

\* Mutant of HandleBlock: a block that is not the next is put off, not dropped.
HandleBlockPutOff(c, h) ==
  /\ up /\ FreeToHandle
  /\ <<c, h>> \in blocks
  /\ h = validated[c] + 1
  /\ blocks' = blocks \ {<<c, h>>}
  /\ \E sane \in Outcomes :
       IF sane THEN UpdateChain(c, h) ELSE UNCHANGED <<validated, known>>
  /\ UNCHANGED <<process, netsync, engine, watcher, sigs, states, peers,
                 turns>>

\* OnBlockReceived: a block that validateBlockSanity approves of is taken over,
\* any other dropped, as is one that is not the next of its chain
\* (IsEnoughData).
HandleBlock(c, h) ==
  /\ up /\ FreeToHandle
  /\ <<c, h>> \in blocks
  /\ blocks' = blocks \ {<<c, h>>}
  /\ \E sane \in Outcomes :
       IF sane /\ h = validated[c] + 1
       THEN UpdateChain(c, h) ELSE UNCHANGED <<validated, known>>
  /\ UNCHANGED <<process, netsync, engine, watcher, sigs, states, peers,
                 turns>>

\* OnChainStateReceived: what is reported above validatedChainsHeight becomes
\* known, also when more was known, and the sender is asked for blocks.
HandleChainState(s) ==
  /\ up /\ FreeToHandle
  /\ s \in states
  /\ states' = states \ {s}
  /\ LET longer == {c \in Chain : validated[c] < s[c]}
     IN  /\ known' = [c \in Chain |-> IF c \in longer THEN s[c] ELSE known[c]]
         /\ asked' = [c \in Chain |-> IF c \in longer THEN AskedFrom(c)
                                      ELSE asked[c]]
         /\ netsync' = IF longer = {} THEN netsync ELSE "push"
  /\ UNCHANGED <<process, validated, engine, watcher, sigs, blocks, top,
                 turns>>

\* OnBlockSigReceived: the goroutine sends on the unbuffered cBlockSig.
HandleBlockSig ==
  /\ up /\ netsync = "idle" /\ sigs > 0
  /\ sigs' = sigs - 1
  /\ netsync' = "sig"
  /\ UNCHANGED <<process, validated, known, engine, watcher, blocks, states,
                 peers, turns>>

\* A collector takes it; one whose Finalize is over may still do so.
CollectSig ==
  /\ up /\ netsync = "sig"
  /\ collector \/ oldCollector
  /\ netsync' = "idle"
  /\ UNCHANGED <<process, validated, known, engine, watcher, queues, peers,
                 turns>>

\* A request of a peer (getblocks, getchainstate, a block to sign): the
\* handler answers with PushMessageToPeer.
HandleRequest ==
  /\ up /\ FreeToHandle
  /\ netsync' = "push"
  /\ UNCHANGED <<process, validated, known, engine, watcher, queues, peers,
                 turns>>

\* The peer's OutMessageHandler takes the message from its queue.
Pushed ==
  /\ up /\ netsync = "push"
  /\ netsync' = "idle"
  /\ UNCHANGED <<process, validated, known, engine, watcher, queues, peers,
                 turns>>

\* The stream ended after the test of IsConnected, and OutMessageHandler with
\* it: nobody takes the message any more.
StreamLost ==
  /\ up /\ netsync = "push" /\ StreamsEnd
  /\ netsync' = "lost"
  /\ UNCHANGED <<process, validated, known, engine, watcher, queues, peers,
                 turns>>

(***************************************************************************)
(* ---------------------- the peers and the process ---------------------- *)
(***************************************************************************)

\* Another validator's chain grows; its block is sent to all, and may be lost.
PeerProduces(c) ==
  /\ top[c] < MaxHeight
  /\ top' = [top EXCEPT ![c] = @ + 1]
  /\ blocks' \in {blocks} \cup (IF up THEN {blocks \cup {<<c, top[c] + 1>>}}
                                ELSE {})
  /\ UNCHANGED <<process, validated, known, netsync, engine, watcher, sigs,
                 states, asked, turns>>

\* A peer answers getchainstate with what it has; one answer at a time waits.
PeerReports ==
  /\ up /\ states = {}
  /\ \E s \in [Chain -> Heights] :
       /\ \A c \in Chain : s[c] <= top[c]
       /\ states' = {s}
  /\ UNCHANGED <<process, validated, known, netsync, engine, watcher, sigs,
                 blocks, peers, turns>>

\* A peer answers getblocks with the blocks that follow; each is a message
\* with a goroutine of its own, so that they may be handled in any order.
PeerServes(c) ==
  /\ up /\ asked[c] > 0
  /\ blocks' = blocks \cup ({c} \X (asked[c] + 1 .. top[c]))
  /\ asked' = [asked EXCEPT ![c] = 0]
  /\ UNCHANGED <<process, validated, known, netsync, engine, watcher, sigs,
                 states, top, turns>>

\* A validator's signature reaches the node.
PeerSigns ==
  /\ up /\ replies > 0 /\ sigs < MaxSigs
  /\ replies' = replies - 1
  /\ sigs' = sigs + 1
  /\ UNCHANGED <<process, validated, known, netsync, producer, collector,
                 oldCollector, watcher, blocks, states, peers, turns>>

\* The process is killed, and what it had in memory is gone.
Kill ==
  /\ up
  /\ up' = FALSE
  /\ known' = validated
  /\ Fresh
  /\ UNCHANGED <<validated, top>>

\* It is started again, on the stored chains.
Restart ==
  /\ ~up
  /\ up' = TRUE
  /\ known' = validated
  /\ Fresh
  /\ UNCHANGED <<validated, top>>

ProducerNext == Turn \/ CreateFails \/ Finalize \/ Finalized \/ AskForBlocks
WatcherNext  == StartCommitteeWatcher
NetsyncNext  ==
  \/ \E c \in Chain, h \in 2..MaxHeight : HandleBlock(c, h)
  \/ \E s \in states : HandleChainState(s)
  \/ HandleBlockSig
  \/ CollectSig
  \/ HandleRequest
  \/ Pushed
  \/ StreamLost
PeersNext ==
  \/ \E c \in Chain : PeerProduces(c) \/ PeerServes(c)
  \/ PeerReports
  \/ PeerSigns

Next ==
  \/ ProducerNext
  \/ OldCollectorEnds
  \/ WatcherNext
  \/ NetsyncNext
  \/ PeersNext
  \/ Kill
  \/ Restart

Spec == Init /\ [][Next]_vars

(***************************************************************************)
(* Fairness.  A goroutine that can run does.  Callbacks wait in the queue  *)
(* of the channel cMessage, which Go serves in order of arrival, so a      *)
(* block that waits is handed over if netsync returns to its select again  *)
(* and again (strong fairness).  createBlock does not fail for ever.  A    *)
(* collector that is offered a signature takes it, or finds cancel closed  *)
(* as well and chooses at random: it is taken if that happens again and    *)
(* again.  Peers answer getblocks.                                         *)
(***************************************************************************)
Fairness ==
  /\ WF_vars(Turn) /\ SF_vars(Finalize) /\ WF_vars(Finalized)
  /\ WF_vars(AskForBlocks)
  /\ WF_vars(OldCollectorEnds)
  /\ WF_vars(WatcherNext)
  /\ SF_vars(CollectSig) /\ WF_vars(Pushed)
  /\ \A c \in Chain : WF_vars(PeerServes(c))
  /\ \A c \in Chain, h \in 2..MaxHeight : SF_vars(HandleBlock(c, h))

FairSpec == Spec /\ Fairness

(***************************************************************************)
(* ----------------------------- properties ------------------------------ *)
(***************************************************************************)

Num(b) == IF b THEN 1 ELSE 0

\* The inductive form of PanicNeedsTwoTurns: with one turn, one of its goroutine,
\* the flag and the closed channel is there at most, each of which comes from
\* the one before.
WatcherInv ==
  /\ turns = 0 => starting = 0 /\ ~flag /\ ~quitClosed
  /\ turns = 1 => starting + Num(flag) + Num(quitClosed) <= 1
  /\ panicked => turns = 2

\* The committee watcher's channel is made once, by StartProducer, and closed
\* when the node falls behind after a turn: the second close ends the process.
\* It takes two turns, whatever the delay of the goroutines that start the
\* watcher and however often the loop finds the gate closed.  (It need not
\* take two falls: a watcher that starts late is enough.)
PanicNeedsTwoTurns == panicked => turns = 2

\* netsync waits for a collector to take a late signature, the producer waits
\* for netsync to bring the blocks that open its gate, and only the producer
\* starts collectors.
Deadlocked ==
  /\ netsync = "sig"
  /\ ~collector /\ ~oldCollector
  /\ producer = "gate" /\ ~GateOpen

\* No message, timer or goroutine gets a node out of that deadlock: it lasts
\* as long as the process.
DeadlockIsPermanent == [][Deadlocked /\ up /\ up' => Deadlocked']_vars

\* And nothing else holds netsync up: a block that a callback hands over is
\* processed (taken over or dropped), whatever else arrives, unless the node is
\* in that deadlock, or the stream of a peer ended under an answer to it, or the
\* process ends.
ProcessedUnlessHeldUp ==
  \A b \in Block :
    b \in blocks ~> \/ b \notin blocks \/ ~up
                    \/ Deadlocked
                    \/ netsync = "lost"

\* server.go:557 of OnBlock: "It blocks until the coin block has been fully
\* processed."  So a block that a callback hands over is processed at some
\* time (stored or dropped), unless the process ends.
BlocksProcessed ==
  \A b \in Block : b \in blocks ~> (b \notin blocks \/ ~up)
=============================================================================
