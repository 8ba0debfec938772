----------------------------- MODULE ChainSync ------------------------------
(***************************************************************************)
(* The parallel chains between the nodes: how leaders create blocks that   *)
(* record the heights of all chains (Header.ChainsHeight), how validators  *)
(* decide that they know enough to sign or to accept one (IsEnoughData),   *)
(* and how a node that is behind learns of it and catches up.              *)
(*                                                                         *)
(* Each node handles messages on one netsync goroutine, which the five     *)
(* seconds of IsEnoughData keep busy; a leader has a producer goroutine as *)
(* well.  Finalize is one step here (module Finalize has it in full), and  *)
(* so is UpdateChain, except that a leader sends its block before it       *)
(* counts it as validated (module ChainStore has every write).  Finalize   *)
(* ignores that UpdateChain has failed and sends the block all the same.   *)
(*                                                                         *)
(* A published block may reach any node at any time and any number of      *)
(* times: it is sent by its leader, passed on by every node that accepts   *)
(* it and sent again in answer to getblocks.  A chain-state message may be *)
(* old.  Nodes do not crash here (module ChainStore).                      *)
(*                                                                         *)
(* At this commit no node takes over another's block.  Block.Hash covers   *)
(* BlockProducerSig, which Finalize fills in once the committee has signed *)
(* the hash, so the signatures that ValidateCommitteeSigs counts are over  *)
(* another hash than the one it computes.  `verifies' is FALSE for this    *)
(* code; TRUE is the code with that put right, for which the rest of the   *)
(* synchronisation is written.  What is claimed holds for both.            *)
(***************************************************************************)
EXTENDS Integers, FiniteSets

CONSTANTS
  Node,       \* the members of the committee
  Chain,      \* the chains that grow
  Leader,     \* the node that leads each chain
  Quorum,     \* common.MinBlockSigs, the leader's signature included
  Accepting,  \* the signatures ValidateCommitteeSigs asks for (10)
  MaxHeight,  \* bound: height of the highest block of a chain
  None,       \* no block
  Builds,     \* the builds looked at: pairs of oneNode and verifies
  Fallible    \* bound: the chains whose leader's UpdateChain may fail

ASSUME ChainSyncAssumption ==
  /\ IsFiniteSet(Node)
  /\ Leader \in [Chain -> Node]
  /\ \A c, d \in Chain : Leader[c] = Leader[d] => c = d
  /\ Quorum \in Nat \ {0}
  /\ Accepting \in Nat
  /\ MaxHeight \in Nat \ {0}
  /\ Builds \subseteq BOOLEAN \X BOOLEAN
  /\ Fallible \subseteq Chain

Heights == 1..MaxHeight
Block   == [c : Chain, h : 2..MaxHeight, deps : [Chain -> Heights]]

VARIABLES
  oneNode,    \* the one-node segment of Finalize is compiled in
  verifies,   \* signatures verify where a block arrives
  validated,  \* each node's validatedChainsHeight
  known,      \* each node's knownChainsHeight
  prod,       \* producer of each chain: "loop", "template", "collect", "sent"
  cand,       \* the block it is at
  sigs,       \* the other nodes whose signature it has collected
  published,  \* the blocks that were sent
  endorsed,   \* those that carry the signatures a receiver asks for
  forked,     \* history: the chains whose leader sent a block that its own
              \* UpdateChain had failed on
  wait        \* what each node's netsync sits out the five seconds with

build == <<oneNode, verifies>>
sent  == <<published, endorsed, forked>>
vars  == <<build, validated, known, prod, cand, sigs, sent, wait>>

TypeOK ==
  /\ oneNode \in BOOLEAN /\ verifies \in BOOLEAN
  /\ validated \in [Node -> [Chain -> Heights]]
  /\ known \in [Node -> [Chain -> Heights]]
  /\ prod \in [Chain -> {"loop", "template", "collect", "sent"}]
  /\ cand \in [Chain -> Block \cup {None}]
  /\ sigs \in [Chain -> SUBSET Node]
  /\ published \subseteq Block
  /\ endorsed \subseteq published
  /\ forked \subseteq Chain
  /\ wait \in [Node -> [b : Block, sign : BOOLEAN] \cup {None}]

\* Every node has the genesis block of every chain.
Init ==
  /\ \E b \in Builds : oneNode = b[1] /\ verifies = b[2]
  /\ validated = [n \in Node |-> [c \in Chain |-> 1]]
  /\ known = [n \in Node |-> [c \in Chain |-> 1]]
  /\ prod = [c \in Chain |-> "loop"]
  /\ cand = [c \in Chain |-> None]
  /\ sigs = [c \in Chain |-> {}]
  /\ published = {} /\ endorsed = {} /\ forked = {}
  /\ wait = [n \in Node |-> None]

(***************************************************************************)
(* --------------------------- the producer ------------------------------ *)
(***************************************************************************)

\* StartProducer's test: no chain is known to be longer than this node has it.
InSync(c) == known[Leader[c]] = validated[Leader[c]]

\* It is this node's turn; NewBlockTemplate takes its time.
Turn(c) ==
  /\ prod[c] = "loop"
  /\ InSync(c)
  /\ validated[Leader[c]][c] < MaxHeight
  /\ prod' = [prod EXCEPT ![c] = "template"]
  /\ UNCHANGED <<build, validated, known, cand, sigs, sent, wait>>

\* Mutant of ChainsHeight: the blocks in the making are counted in.
ChainsHeightNext(c) == [d \in Chain |-> validated[Leader[c]][d] + 1]

\* createBlock copies validatedChainsHeight once the template is there.
ChainsHeight(c) == validated[Leader[c]]

\* createBlock returns the block, and Finalize asks for signatures.
CreateBlock(c) ==
  /\ prod[c] = "template"
  /\ validated[Leader[c]][c] < MaxHeight
  /\ cand' = [cand EXCEPT ![c] = [c |-> c, h |-> validated[Leader[c]][c] + 1,
                                  deps |-> ChainsHeight(c)]]
  /\ sigs' = [sigs EXCEPT ![c] = {}]
  /\ prod' = [prod EXCEPT ![c] = "collect"]
  /\ UNCHANGED <<build, validated, known, sent, wait>>

\* Finalize sends the block with the signatures it has by now.
Send(c) ==
  /\ oneNode \/ Cardinality(sigs[c]) + 1 >= Quorum
  /\ published' = published \cup {cand[c]}
  /\ endorsed' = IF Cardinality(sigs[c]) + 1 >= Accepting
                 THEN endorsed \cup {cand[c]} ELSE endorsed

\* Enough signatures: UpdateChain up to knownChainsHeight, and the block goes
\* out.  RegisterBlock takes the next block only, which it no longer is if
\* netsync has brought back one that the leader had failed on.
Finalize(c) ==
  /\ prod[c] = "collect"
  /\ validated[Leader[c]][c] = cand[c].h - 1
  /\ Send(c)
  /\ known' = [known EXCEPT ![Leader[c]][c] = IF @ < cand[c].h THEN cand[c].h ELSE @]
  /\ prod' = [prod EXCEPT ![c] = "sent"]
  /\ UNCHANGED <<build, validated, cand, sigs, forked, wait>>

\* The producer is done with its block.
BackToLoop(c) ==
  /\ prod' = [prod EXCEPT ![c] = "loop"]
  /\ cand' = [cand EXCEPT ![c] = None]
  /\ sigs' = [sigs EXCEPT ![c] = {}]

\* UpdateChain returns early on an error of ConnectBlock, RegisterBlock or
\* BestState.Update, and the block goes out all the same.
FinalizeFails(c) ==
  /\ c \in Fallible
  /\ prod[c] = "collect"
  /\ Send(c)
  /\ forked' = forked \cup {c}
  /\ BackToLoop(c)
  /\ UNCHANGED <<build, validated, known, wait>>

\* Mutant of GiveUp: the block goes out without the signatures.
GiveUpSends(c) ==
  /\ prod[c] = "collect"
  /\ published' = published \cup {cand[c]}
  /\ BackToLoop(c)
  /\ UNCHANGED <<build, validated, known, endorsed, forked, wait>>

\* Finalize returns an error after its last retry.
GiveUp(c) ==
  /\ prod[c] = "collect"
  /\ BackToLoop(c)
  /\ UNCHANGED <<build, validated, known, sent, wait>>

\* The end of the leader's UpdateChain: validatedChainsHeight.
SetValidated(c) ==
  /\ prod[c] = "sent"
  /\ validated' = [validated EXCEPT ![Leader[c]][c] = cand[c].h]
  /\ BackToLoop(c)
  /\ UNCHANGED <<build, known, sent, wait>>

(***************************************************************************)
(* ------------------------------ netsync -------------------------------- *)
(***************************************************************************)

\* Mutant of NextOfChain: any later block will do.
NextOfChainLater(n, b) == validated[n][b.c] < b.h

\* IsEnoughData, first part: the block before this one is the last of its chain.
NextOfChain(n, b) == validated[n][b.c] = b.h - 1

\* Mutant of Complete: the other chains are not looked at.
CompleteAlways(n, b) == TRUE

\* IsEnoughData, second part: the other chains have the heights recorded in it.
Complete(n, b) == \A d \in Chain \ {b.c} : b.deps[d] <= validated[n][d]

\* BestState of a leader is ahead of validatedChainsHeight once the block is
\* out.
Best(n, c) ==
  IF n = Leader[c] /\ prod[c] = "sent" THEN cand[c].h ELSE validated[n][c]

\* The rest of OnRequestSign: the signature goes to the leader, where the
\* collector drops it unless it is over the block at hand.
SendSig(n, b) ==
  /\ sigs' = [sigs EXCEPT ![b.c] = IF cand[b.c] = b THEN @ \cup {n} ELSE @]
  /\ UNCHANGED <<validated, known>>

\* ValidateCommitteeSigs
Verified(b) == verifies /\ b \in endorsed

\* UpdateChain of a received block, which passes the block on if its height was
\* not known.  RegisterBlock takes none but the next block.
UpdateChain(n, b) ==
  /\ Best(n, b.c) = b.h - 1
  /\ validated' = [validated EXCEPT ![n][b.c] = b.h]
  /\ known' = [known EXCEPT ![n][b.c] = IF @ < b.h THEN b.h ELSE @]
  /\ UNCHANGED sigs

\* What follows IsEnoughData.  The last case: another check of the block, or one
\* of UpdateChain's steps, has failed.
Decide(n, b, sign) ==
  \/ sign /\ SendSig(n, b)
  \/ ~sign /\ Verified(b) /\ UpdateChain(n, b)
  \/ UNCHANGED <<validated, known, sigs>>

\* A request or a block is taken off the queue.  One that is not the next of
\* its chain is refused; one that lacks other chains waits.
Handle(n, b, sign) ==
  /\ wait[n] = None
  /\ NextOfChain(n, b)
  /\ IF Complete(n, b)
     THEN Decide(n, b, sign) /\ UNCHANGED wait
     ELSE /\ wait' = [wait EXCEPT ![n] = [b |-> b, sign |-> sign]]
          /\ UNCHANGED <<validated, known, sigs>>
  /\ UNCHANGED <<build, prod, cand, sent>>

\* OnRequestSign for the block chain c's leader is collecting signatures for.
OnRequestSign(n, c) ==
  /\ prod[c] = "collect"
  /\ n # Leader[c]
  /\ n \notin sigs[c]
  /\ Handle(n, cand[c], TRUE)

\* OnBlockReceived
OnBlockReceived(n, b) ==
  /\ b \in published
  /\ Best(n, b.c) < b.h
  /\ Handle(n, b, FALSE)

\* The five seconds are over, and the heights are compared once more.
WaitEnds(n) ==
  /\ wait[n] # None
  /\ wait' = [wait EXCEPT ![n] = None]
  /\ IF Complete(n, wait[n].b)
     THEN Decide(n, wait[n].b, wait[n].sign)
     ELSE UNCHANGED <<validated, known, sigs>>
  /\ UNCHANGED <<build, prod, cand, sent>>

\* Mutant of OnChainStateReceived: the heights are taken over as they come.
OnChainStateReceivedAny(n, m) ==
  /\ wait[n] = None
  /\ m # n
  /\ \E v \in [Chain -> Heights] :
       /\ \A c \in Chain : v[c] <= validated[m][c]
       /\ known' = [known EXCEPT ![n] = v]
  /\ UNCHANGED <<build, validated, prod, cand, sigs, sent, wait>>

\* OnChainStateReceived: heights that node m had at some time.  What is higher
\* than this node's becomes known, be it lower than what was known.
OnChainStateReceived(n, m) ==
  /\ wait[n] = None
  /\ m # n
  /\ \E c \in Chain : validated[n][c] < validated[m][c]
  /\ \E v \in [Chain -> Heights] :
       /\ \A c \in Chain : v[c] <= validated[m][c]
       /\ known' = [known EXCEPT ![n] = [c \in Chain |->
                      IF validated[n][c] < v[c] THEN v[c] ELSE @[c]]]
  /\ UNCHANGED <<build, validated, prod, cand, sigs, sent, wait>>

Producing(c) ==
  \/ Turn(c) \/ CreateBlock(c) \/ GiveUp(c)
  \/ Finalize(c) \/ FinalizeFails(c) \/ SetValidated(c)

Next ==
  \/ \E c \in Chain : Producing(c)
  \/ \E n \in Node, c \in Chain : OnRequestSign(n, c)
  \/ \E n \in Node : \E b \in published : OnBlockReceived(n, b)
  \/ \E n \in Node : WaitEnds(n)
  \/ \E n, m \in Node : OnChainStateReceived(n, m)

Spec == Init /\ [][Next]_vars

(***************************************************************************)
(* ------------------------------ properties ----------------------------- *)
(***************************************************************************)

\* Up to heights v every height has a block of P that records no more than v.
Covered(P, v) ==
  \A c \in Chain : \A h \in 2..v[c] : \E b \in P :
    b.c = c /\ b.h = h /\ \A d \in Chain : b.deps[d] <= v[d]

\* A node that has validated a block has validated all that the block's leader
\* had when it made it: the heights recorded in its header.
CausallyClosed == \A n \in Node : Covered(published, validated[n])

\* Nobody waits for a block that was never made: knownChainsHeight, which holds
\* the producers up, is a height that a leader has sent a block of.
KnownExists ==
  \A n \in Node, c \in Chain :
    /\ validated[n][c] <= known[n][c]
    /\ known[n][c] = 1 \/ \E b \in published : b.c = c /\ b.h = known[n][c]

\* The chains never wait for each other in a circle: a node that lacks a block
\* lacks one whose recorded heights it has reached.
NoCircularWait ==
  \A n \in Node :
    (\E b \in published : validated[n][b.c] < b.h) =>
      \E b \in published : NextOfChain(n, b) /\ Complete(n, b)

\* A leader sends two blocks for a height only after its own UpdateChain has
\* failed on a block, which Finalize ignores; giving up, starting again and late
\* signatures never lead to it.
NoFork ==
  \A a, b \in published : a.c = b.c /\ a.h = b.h => a = b \/ a.c \in forked

\* A block that is out rests on a chain that a quorum of the nodes has.
PrefixReplicated ==
  ~oneNode => \A b \in published :
    Cardinality({n \in Node : validated[n][b.c] >= b.h - 1}) >= Quorum

(***************************************************************************)
(* The inductive invariant behind the five safety properties.              *)
(***************************************************************************)
Making(c) == prod[c] \in {"collect", "sent"}
BestOf(c) == Best(Leader[c], c)

\* The block in the making: of what its leader has validated, and signed by
\* nodes that have its predecessor.
CandidateInv ==
  \A c \in Chain :
    /\ Making(c) =>
         /\ cand[c] \in Block /\ cand[c].c = c
         /\ cand[c].h <= validated[Leader[c]][c] + 1
         /\ cand[c].deps[c] = cand[c].h - 1
         /\ \A d \in Chain : cand[c].deps[d] <= validated[Leader[c]][d]
         /\ Covered(published, cand[c].deps)
         /\ Leader[c] \notin sigs[c]
         /\ \A n \in sigs[c] : cand[c].h - 1 <= validated[n][c]
    /\ prod[c] = "sent" =>
         /\ cand[c] \in published
         /\ cand[c].h = validated[Leader[c]][c] + 1
         /\ cand[c].h <= known[Leader[c]][c]

\* The blocks that are out are of what was out before them.
PublishedInv ==
  /\ IsFiniteSet(published)
  /\ \A b \in published : b.deps[b.c] = b.h - 1 /\ Covered(published, b.deps)

\* The leader of a chain that is not forked is at its top.
UnforkedInv ==
  \A c \in Chain \ forked :
    /\ Making(c) => cand[c].h = validated[Leader[c]][c] + 1
    /\ \A b \in published : b.c = c => b.h <= BestOf(c)

\* The chain is still as far as the block that netsync waits with asks for.
WaitInv ==
  \A n \in Node : wait[n] # None =>
    /\ wait[n].b.h - 1 <= validated[n][wait[n].b.c]
    /\ IF wait[n].sign THEN n # Leader[wait[n].b.c] ELSE wait[n].b \in published

SyncInv ==
  /\ CandidateInv /\ PublishedInv /\ UnforkedInv /\ WaitInv
  /\ NoFork /\ CausallyClosed /\ KnownExists
=============================================================================
