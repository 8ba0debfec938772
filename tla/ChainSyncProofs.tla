-------------------------- MODULE ChainSyncProofs ---------------------------
(***************************************************************************)
(* Proofs about the parallel chains, for any number of nodes, of chains,   *)
(* of blocks and of failures of UpdateChain: the recorded heights are      *)
(* causally closed, no height is believed in that no leader has reached, a *)
(* leader forks its chain only over a failed UpdateChain, a published      *)
(* block rests on a replicated chain, and the chains never wait for each   *)
(* other in a circle.                                                      *)
(***************************************************************************)
EXTENDS ChainSync, FiniteSetTheorems, WellFoundedInduction, TLAPS

USE ChainSyncAssumption DEF ChainSyncAssumption
USE DEF build, sent

\* What netsync of node n does with blocks and requests for signatures.
Netsync(n) ==
  \/ \E c \in Chain : OnRequestSign(n, c)
  \/ \E b \in published : OnBlockReceived(n, b)
  \/ WaitEnds(n)

\* What netsync may wait with.
MayWait(n, w) ==
  /\ w.b.h - 1 <= validated[n][w.b.c]
  /\ IF w.sign THEN n # Leader[w.b.c] ELSE w.b \in published

\* It begins or gives up waiting ...
WaitsOn(n) ==
  /\ \E w \in [b : Block, sign : BOOLEAN] \cup {None} :
       /\ wait' = [wait EXCEPT ![n] = w]
       /\ w # None => MayWait(n, w)
  /\ UNCHANGED <<validated, known, sigs>>

\* ... or signs another leader's block ...
SignsFor(n, b) ==
  /\ b.h - 1 <= validated[n][b.c] /\ n # Leader[b.c]
  /\ wait' = [wait EXCEPT ![n] = None]
  /\ SendSig(n, b)

\* ... or takes over a block that is out.
TakesOver(n, b) ==
  /\ b.h - 1 <= validated[n][b.c] /\ b \in published /\ Complete(n, b)
  /\ wait' = [wait EXCEPT ![n] = None]
  /\ UpdateChain(n, b)

LEMMA BlockFacts ==
  ASSUME NEW b \in Block
  PROVE  /\ b.c \in Chain /\ b.h \in 2..MaxHeight /\ b.h \in Heights /\ b.h \in Nat
         /\ b.deps \in [Chain -> Heights]
         /\ \A d \in Chain : b.deps[d] \in Heights /\ b.deps[d] \in Nat
BY DEF Block, Heights

\* The types, at the level of single heights.
LEMMA HeightFacts ==
  ASSUME TypeOK, CandidateInv
  PROVE  /\ \A n \in Node, c \in Chain : validated[n][c] \in Nat /\ known[n][c] \in Nat
         /\ \A n \in Node, c \in Chain : validated[n][c] >= 1
         /\ \A c \in Chain : Leader[c] \in Node /\ BestOf(c) \in Nat
         /\ \A b \in published : /\ b \in Block /\ b.c \in Chain /\ b.h \in Nat
                                /\ \A d \in Chain : b.deps[d] \in Nat
         /\ \A c \in Chain : Making(c) =>
              /\ cand[c].h \in Nat /\ \A d \in Chain : cand[c].deps[d] \in Nat
<1>1. \A b \in Block : /\ b.c \in Chain /\ b.h \in Nat /\ b.h \in Heights
                       /\ \A d \in Chain : b.deps[d] \in Nat
  BY BlockFacts DEF Heights
<1>2. \A n \in Node, c \in Chain :
        validated[n][c] \in Heights /\ known[n][c] \in Heights
  BY DEF TypeOK
<1>3. \A c \in Chain : Making(c) => cand[c] \in Block
  BY DEF CandidateInv
<1>4. \A c \in Chain : Leader[c] \in Node /\ BestOf(c) \in Heights
  BY <1>1, <1>2, <1>3 DEF BestOf, Best, Making
<1> QED
  BY <1>1, <1>2, <1>3, <1>4 DEF TypeOK, Heights

LEMMA NetsyncCases ==
  ASSUME TypeOK, SyncInv, NEW n \in Node, Netsync(n)
  PROVE  /\ UNCHANGED <<build, prod, cand, sent>>
         /\ WaitsOn(n) \/ \E b \in Block : SignsFor(n, b) \/ TakesOver(n, b)
<1> USE DEF SyncInv
<1>0. /\ validated \in [Node -> [Chain -> Heights]] /\ published \subseteq Block
      /\ wait \in [Node -> [b : Block, sign : BOOLEAN] \cup {None}]
  BY DEF TypeOK
<1>d. ASSUME NEW b \in Block, NEW sign \in BOOLEAN, Complete(n, b), Decide(n, b, sign),
             wait' = [wait EXCEPT ![n] = None], b.h - 1 <= validated[n][b.c],
             IF sign THEN n # Leader[b.c] ELSE b \in published
      PROVE  WaitsOn(n) \/ SignsFor(n, b) \/ TakesOver(n, b)
  <2>1. CASE sign /\ SendSig(n, b)
    BY <1>d, <2>1 DEF SignsFor
  <2>2. CASE ~sign /\ UpdateChain(n, b)
    BY <1>d, <2>2 DEF TakesOver
  <2>3. CASE UNCHANGED <<validated, known, sigs>>
    BY <1>d, <2>3 DEF WaitsOn
  <2> QED
    BY <1>d, <2>1, <2>2, <2>3 DEF Decide
<1>h. ASSUME NEW b \in Block, NEW sign \in BOOLEAN, Handle(n, b, sign),
             IF sign THEN n # Leader[b.c] ELSE b \in published
      PROVE  /\ UNCHANGED <<build, prod, cand, sent>>
             /\ WaitsOn(n) \/ SignsFor(n, b) \/ TakesOver(n, b)
  <2>1. /\ validated[n][b.c] = b.h - 1 /\ wait[n] = None
        /\ UNCHANGED <<build, prod, cand, sent>>
    BY <1>h DEF Handle, NextOfChain
  <2>a. b.h - 1 <= validated[n][b.c]
    BY <2>1, BlockFacts
  <2>2. CASE Complete(n, b)
    <3>1. wait' = [wait EXCEPT ![n] = None]
      BY <1>h, <2>1, <2>2, <1>0 DEF Handle
    <3>2. Decide(n, b, sign)
      BY <1>h, <2>2 DEF Handle
    <3> QED
      BY <1>h, <1>d, <2>1, <2>a, <2>2, <3>1, <3>2
  <2>3. CASE ~Complete(n, b)
    <3>1. /\ wait' = [wait EXCEPT ![n] = [b |-> b, sign |-> sign]]
          /\ UNCHANGED <<validated, known, sigs>>
      BY <1>h, <2>3, Zenon DEF Handle
    <3> DEFINE w == [b |-> b, sign |-> sign]
    <3>2. w \in [b : Block, sign : BOOLEAN] /\ w.b = b /\ w.sign = sign
      OBVIOUS
    <3>3. MayWait(n, w)
      BY <1>h, <2>a, <3>2 DEF MayWait
    <3> HIDE DEF w
    <3>4. wait' = [wait EXCEPT ![n] = w]
      BY <3>1 DEF w
    <3> QED
      BY <2>1, <3>1, <3>2, <3>3, <3>4 DEF WaitsOn
  <2> QED
    BY <2>2, <2>3
<1>1. ASSUME NEW c \in Chain, OnRequestSign(n, c)
      PROVE  cand[c] \in Block /\ n # Leader[cand[c].c] /\ Handle(n, cand[c], TRUE)
  BY <1>1 DEF OnRequestSign, CandidateInv, Making
<1>2. ASSUME NEW b \in published, OnBlockReceived(n, b)
      PROVE  b \in Block /\ Handle(n, b, FALSE)
  BY <1>2, <1>0 DEF OnBlockReceived
<1>3. CASE WaitEnds(n)
  <2> DEFINE b == wait[n].b
  <2>1. /\ wait[n] # None /\ wait[n] \in [b : Block, sign : BOOLEAN]
        /\ wait' = [wait EXCEPT ![n] = None]
        /\ UNCHANGED <<build, prod, cand, sent>>
    BY <1>3, <1>0 DEF WaitEnds
  <2>2. /\ b \in Block /\ wait[n].sign \in BOOLEAN /\ b.h - 1 <= validated[n][b.c]
        /\ IF wait[n].sign THEN n # Leader[b.c] ELSE b \in published
    BY <2>1 DEF WaitInv
  <2>3. \/ UNCHANGED <<validated, known, sigs>>
        \/ Complete(n, b) /\ Decide(n, b, wait[n].sign)
    BY <1>3 DEF WaitEnds
  <2> HIDE DEF b
  <2>4. UNCHANGED <<validated, known, sigs>> => WaitsOn(n)
    BY <2>1 DEF WaitsOn
  <2> QED
    BY <1>d, <2>1, <2>2, <2>3, <2>4
<1> QED
  BY <1>1, <1>2, <1>3, <1>h DEF Netsync

LEMMA TypeKept ==
  ASSUME TypeOK, SyncInv, [Next]_vars
  PROVE  TypeOK'
<1> USE DEF SyncInv
<1>1. ASSUME NEW c \in Chain, \/ Turn(c) \/ Finalize(c) \/ FinalizeFails(c) \/ GiveUp(c)
                              \/ SetValidated(c)
      PROVE  TypeOK'
  <2>1. Making(c) => cand[c] \in Block /\ cand[c].h \in Heights
    BY BlockFacts DEF CandidateInv
  <2>2. CASE Turn(c)
    BY <2>2 DEF Turn, TypeOK
  <2>3. CASE Finalize(c) \/ FinalizeFails(c)
    <3>1. /\ prod[c] = "collect" /\ Send(c) /\ UNCHANGED <<build, validated, wait>>
          /\ forked' \in {forked, forked \cup {c}}
      BY <2>3 DEF Finalize, FinalizeFails
    <3>2. published' \subseteq Block /\ endorsed' \subseteq published'
      BY <2>1, <3>1 DEF Send, Making, TypeOK
    <3>3. known' \in [Node -> [Chain -> Heights]]
      <4>1. CASE Finalize(c)
        <5>1. cand[c].h \in Heights /\ Leader[c] \in Node
          BY <2>1, <3>1 DEF Making
        <5>2. known' = [known EXCEPT ![Leader[c]][c] = IF @ < cand[c].h THEN cand[c].h ELSE @]
          BY <4>1 DEF Finalize
        <5> QED
          BY <5>1, <5>2 DEF TypeOK
      <4>2. CASE FinalizeFails(c)
        BY <4>2 DEF FinalizeFails, TypeOK
      <4> QED
        BY <2>3, <4>1, <4>2
    <3>4. /\ prod' \in [Chain -> {"loop", "template", "collect", "sent"}]
          /\ cand' \in [Chain -> Block \cup {None}]
          /\ sigs' \in [Chain -> SUBSET Node]
      BY <2>3 DEF Finalize, FinalizeFails, BackToLoop, TypeOK
    <3> QED
      BY <3>1, <3>2, <3>3, <3>4 DEF TypeOK
  <2>4. CASE SetValidated(c) \/ GiveUp(c)
    <3>1. validated' \in [Node -> [Chain -> Heights]]
      <4>1. CASE SetValidated(c)
        <5>1. cand[c].h \in Heights /\ Leader[c] \in Node
          BY <2>1, <4>1 DEF SetValidated, Making
        <5>2. validated' = [validated EXCEPT ![Leader[c]][c] = cand[c].h]
          BY <4>1 DEF SetValidated
        <5> QED
          BY <5>1, <5>2 DEF TypeOK
      <4>2. CASE GiveUp(c)
        BY <4>2 DEF GiveUp, TypeOK
      <4> QED
        BY <2>4, <4>1, <4>2
    <3>2. BackToLoop(c) /\ UNCHANGED <<build, known, sent, wait>>
      BY <2>4 DEF SetValidated, GiveUp
    <3>3. /\ prod' \in [Chain -> {"loop", "template", "collect", "sent"}]
          /\ cand' \in [Chain -> Block \cup {None}]
          /\ sigs' \in [Chain -> SUBSET Node]
      BY <3>2 DEF BackToLoop, TypeOK
    <3> QED
      BY <3>1, <3>2, <3>3 DEF TypeOK
  <2> QED
    BY <1>1, <2>2, <2>3, <2>4
<1>2. ASSUME NEW c \in Chain, CreateBlock(c)
      PROVE  TypeOK'
  <2> DEFINE b == [c |-> c, h |-> validated[Leader[c]][c] + 1, deps |-> ChainsHeight(c)]
  <2>1. /\ validated[Leader[c]] \in [Chain -> Heights]
        /\ validated[Leader[c]][c] + 1 \in 2..MaxHeight
    <3>1. validated[Leader[c]][c] < MaxHeight
      BY <1>2 DEF CreateBlock
    <3>2. validated[Leader[c]] \in [Chain -> Heights]
      BY DEF TypeOK
    <3> QED
      BY <3>1, <3>2 DEF Heights
  <2>2. b \in Block
    BY <2>1 DEF Block, ChainsHeight
  <2>3. cand' = [cand EXCEPT ![c] = b]
    BY <1>2 DEF CreateBlock
  <2> HIDE DEF b
  <2>4. cand' \in [Chain -> Block \cup {None}]
    BY <2>2, <2>3 DEF TypeOK
  <2>5. /\ sigs' = [sigs EXCEPT ![c] = {}] /\ prod' = [prod EXCEPT ![c] = "collect"]
        /\ UNCHANGED <<build, validated, known, sent, wait>>
    BY <1>2 DEF CreateBlock
  <2> QED
    BY <2>4, <2>5 DEF TypeOK
<1>3. ASSUME NEW n \in Node, NEW b \in Block, SendSig(n, b) \/ UpdateChain(n, b)
      PROVE  /\ validated' \in [Node -> [Chain -> Heights]]
             /\ known' \in [Node -> [Chain -> Heights]]
             /\ sigs' \in [Chain -> SUBSET Node]
  <2>1. b.c \in Chain /\ b.h \in Heights
    BY BlockFacts
  <2>2. CASE SendSig(n, b)
    BY <2>1, <2>2 DEF SendSig, TypeOK
  <2>3. CASE UpdateChain(n, b)
    BY <2>1, <2>3 DEF UpdateChain, TypeOK
  <2> QED
    BY <1>3, <2>2, <2>3
<1>4. ASSUME NEW n \in Node, Netsync(n)
      PROVE  TypeOK'
  <2>1. /\ validated' \in [Node -> [Chain -> Heights]]
        /\ known' \in [Node -> [Chain -> Heights]]
        /\ sigs' \in [Chain -> SUBSET Node]
    BY <1>3, <1>4, NetsyncCases DEF TypeOK, WaitsOn, SignsFor, TakesOver
  <2>2. /\ UNCHANGED <<build, prod, cand, sent>>
        /\ \E w \in [b : Block, sign : BOOLEAN] \cup {None} :
             wait' = [wait EXCEPT ![n] = w]
    BY <1>4, NetsyncCases DEF WaitsOn, SignsFor, TakesOver
  <2> QED
    BY <2>1, <2>2 DEF TypeOK
<1>5. ASSUME NEW n \in Node, NEW m \in Node, OnChainStateReceived(n, m)
      PROVE  TypeOK'
  <2>1. known' \in [Node -> [Chain -> Heights]]
    BY <1>5 DEF OnChainStateReceived, TypeOK
  <2> QED
    BY <1>5, <2>1 DEF OnChainStateReceived, TypeOK
<1>6. CASE UNCHANGED vars
  BY <1>6 DEF vars, TypeOK
<1> QED
  BY <1>1, <1>2, <1>4, <1>5, <1>6 DEF Next, Producing, Netsync

\* More blocks cover what fewer did.
LEMMA CoveredByMore ==
  ASSUME NEW P, NEW Q, P \subseteq Q, NEW v, Covered(P, v)
  PROVE  Covered(Q, v)
BY DEF Covered

\* The next block of a chain, with all that it records, extends what is covered.
LEMMA CoveredByNext ==
  ASSUME NEW P \in SUBSET Block, NEW v \in [Chain -> Heights], NEW w \in [Chain -> Heights],
         Covered(P, v), NEW b \in P, w[b.c] = b.h, b.h = v[b.c] + 1,
         \A d \in Chain : d # b.c => w[d] = v[d],
         \A d \in Chain : b.deps[d] <= v[d]
  PROVE  Covered(P, w)
<1>f. /\ \A a \in P : a.c \in Chain /\ a.h \in Nat /\ \A d \in Chain : a.deps[d] \in Nat
      /\ \A d \in Chain : v[d] \in Nat /\ w[d] \in Nat
  BY BlockFacts DEF Heights
<1>1. \A d \in Chain : v[d] <= w[d]
  BY <1>f
<1> SUFFICES ASSUME NEW c \in Chain, NEW h \in 2..w[c]
             PROVE  \E a \in P : a.c = c /\ a.h = h /\ \A d \in Chain : a.deps[d] <= w[d]
  BY DEF Covered
<1>2. CASE h \in 2..v[c]
  <2>1. PICK a \in P : a.c = c /\ a.h = h /\ \A d \in Chain : a.deps[d] <= v[d]
    BY <1>2 DEF Covered
  <2>2. \A d \in Chain : a.deps[d] <= w[d]
    BY <1>1, <1>f, <2>1
  <2> QED
    BY <2>1, <2>2
<1>3. CASE h \notin 2..v[c]
  <2>1. c = b.c /\ h = b.h
    BY <1>f, <1>3
  <2>2. \A d \in Chain : b.deps[d] <= w[d]
    BY <1>1, <1>f
  <2> QED
    BY <2>1, <2>2
<1> QED
  BY <1>2, <1>3

\* Netsync has taken block b over: the next of its chain, with all that it
\* records.
LEMMA AdoptKeeps ==
  ASSUME TypeOK, TypeOK', SyncInv, NEW n \in Node, NEW b \in published, TakesOver(n, b),
         UNCHANGED <<build, prod, cand, sent>>
  PROVE  SyncInv'
<1> USE DEF SyncInv
<1>t. /\ validated \in [Node -> [Chain -> Heights]] /\ known \in [Node -> [Chain -> Heights]]
      /\ validated' \in [Node -> [Chain -> Heights]]
      /\ wait \in [Node -> [b : Block, sign : BOOLEAN] \cup {None}]
      /\ sigs \in [Chain -> SUBSET Node] /\ published \subseteq Block
  BY DEF TypeOK
<1>f. /\ \A m \in Node, c \in Chain : validated[m][c] \in Nat /\ known[m][c] \in Nat
      /\ \A c \in Chain : Leader[c] \in Node /\ BestOf(c) \in Nat
      /\ \A a \in published : /\ a.c \in Chain /\ a.h \in Nat
                             /\ \A d \in Chain : a.deps[d] \in Nat
      /\ \A c \in Chain : Making(c) =>
              /\ cand[c].h \in Nat /\ \A d \in Chain : cand[c].deps[d] \in Nat
  BY HeightFacts
<1>v. /\ \A m \in Node, d \in Chain :
           validated'[m][d] = IF m = n /\ d = b.c THEN b.h ELSE validated[m][d]
      /\ \A m \in Node, d \in Chain :
           known'[m][d] = IF m = n /\ d = b.c /\ known[m][d] < b.h THEN b.h ELSE known[m][d]
      /\ sigs' = sigs /\ wait' = [wait EXCEPT ![n] = None] /\ Best(n, b.c) = b.h - 1
  BY <1>t, <1>f DEF TakesOver, UpdateChain
\* A leader that has sent its block does not take over another at that height.
<1>n. validated[n][b.c] = b.h - 1 /\ ~(n = Leader[b.c] /\ prod[b.c] = "sent")
  <2>1. b.h - 1 <= validated[n][b.c] /\ b.c \in Chain
    BY <1>f DEF TakesOver
  <2>2. CASE n = Leader[b.c] /\ prod[b.c] = "sent"
    <3>1. cand[b.c].h = b.h - 1 /\ cand[b.c].h = validated[n][b.c] + 1
      BY <1>v, <2>1, <2>2 DEF Best, CandidateInv
    <3> QED
      BY <1>f, <2>1, <3>1
  <2> QED
    BY <1>v, <2>2 DEF Best
<1>g. \A m \in Node, d \in Chain : validated'[m][d] \in Nat /\ validated[m][d] <= validated'[m][d]
  BY <1>v, <1>n, <1>f
<1>1. CandidateInv'
  <2> SUFFICES ASSUME NEW c \in Chain
               PROVE  /\ Making(c) =>
                           /\ cand[c].h <= validated'[Leader[c]][c] + 1
                           /\ \A d \in Chain : cand[c].deps[d] <= validated'[Leader[c]][d]
                           /\ \A m \in sigs[c] : cand[c].h - 1 <= validated'[m][c]
                      /\ prod[c] = "sent" =>
                           /\ cand[c].h = validated'[Leader[c]][c] + 1
                           /\ cand[c].h <= known'[Leader[c]][c]
    BY <1>v DEF CandidateInv, Making
  <2>1. ASSUME Making(c)
        PROVE  /\ cand[c].h <= validated'[Leader[c]][c] + 1
               /\ \A d \in Chain : cand[c].deps[d] <= validated'[Leader[c]][d]
    <3>1. /\ cand[c].h <= validated[Leader[c]][c] + 1
          /\ \A d \in Chain : cand[c].deps[d] <= validated[Leader[c]][d]
      BY <2>1 DEF CandidateInv
    <3> QED
      BY <2>1, <3>1, <1>g, <1>f
  <2>2. ASSUME Making(c), NEW m \in sigs[c]
        PROVE  cand[c].h - 1 <= validated'[m][c]
    <3>1. m \in Node /\ cand[c].h - 1 <= validated[m][c]
      BY <2>2, <1>t DEF CandidateInv
    <3> QED
      BY <2>2, <3>1, <1>g, <1>f
  <2>3. ASSUME prod[c] = "sent"
        PROVE  /\ cand[c].h = validated'[Leader[c]][c] + 1
               /\ cand[c].h <= known'[Leader[c]][c]
    <3>1. validated'[Leader[c]][c] = validated[Leader[c]][c]
          /\ known'[Leader[c]][c] = known[Leader[c]][c]
      BY <2>3, <1>v, <1>n, <1>f
    <3> QED
      BY <2>3, <3>1 DEF CandidateInv
  <2> QED
    BY <2>1, <2>2, <2>3
<1>2. PublishedInv' /\ NoFork'
  BY DEF PublishedInv, NoFork
<1>3. UnforkedInv'
  <2>1. b.c \in forked \/ n # Leader[b.c]
    <3> SUFFICES ASSUME b.c \notin forked, n = Leader[b.c] PROVE FALSE
      OBVIOUS
    <3>1. b.h <= BestOf(b.c) /\ BestOf(b.c) = b.h - 1
      BY <1>f, <1>v DEF UnforkedInv, BestOf
    <3> QED
      BY <3>1, <1>f
  <2>2. ASSUME NEW c \in Chain \ forked
        PROVE  validated'[Leader[c]][c] = validated[Leader[c]][c]
    BY <2>1, <1>v, <1>f
  <2>3. ASSUME NEW c \in Chain \ forked
        PROVE  BestOf(c)' = BestOf(c)
    BY <2>2 DEF BestOf, Best
  <2> QED
    BY <2>2, <2>3 DEF UnforkedInv, Making
<1>4. WaitInv'
  <2> SUFFICES ASSUME NEW m \in Node, wait'[m] # None
               PROVE  wait'[m] = wait[m] /\ wait[m].b.h - 1 <= validated'[m][wait[m].b.c]
    BY DEF WaitInv
  <2>1. m # n /\ wait'[m] = wait[m] /\ wait[m] \in [b : Block, sign : BOOLEAN]
    BY <1>t, <1>v
  <2>2. wait[m].b.c \in Chain
    BY <2>1, BlockFacts
  <2> QED
    BY <1>v, <2>1, <2>2 DEF WaitInv
<1>5. CausallyClosed'
  <2> SUFFICES ASSUME NEW m \in Node
               PROVE  Covered(published, validated'[m])
    BY DEF CausallyClosed
  <2>1. CASE m # n
    <3>1. validated'[m] = validated[m]
      BY <2>1, <1>t DEF TakesOver, UpdateChain
    <3> QED
      BY <3>1 DEF CausallyClosed
  <2>2. CASE m = n
    <3>1. \A d \in Chain : b.deps[d] <= validated[n][d]
      BY <1>n, <1>f DEF TakesOver, Complete, PublishedInv
    <3>2. Covered(published, validated[n])
      BY DEF CausallyClosed
    <3>3. /\ validated[n] \in [Chain -> Heights] /\ validated'[n] \in [Chain -> Heights]
          /\ validated'[n][b.c] = b.h /\ b.h = validated[n][b.c] + 1
          /\ \A d \in Chain : d # b.c => validated'[n][d] = validated[n][d]
      BY <1>t, <1>v, <1>n, <1>f
    <3>4. published \in SUBSET Block
      BY <1>t
    <3>5. Covered(published, validated'[n])
      BY <3>1, <3>2, <3>3, <3>4, CoveredByNext
    <3> QED
      BY <2>2, <3>5
  <2> QED
    BY <2>1, <2>2
<1>6. KnownExists'
  BY <1>v, <1>n, <1>f DEF KnownExists
<1> QED
  BY <1>1, <1>2, <1>3, <1>4, <1>5, <1>6

\* A signature reaches the leader, or netsync begins or gives up waiting.
LEMMA NoAdoptKeeps ==
  ASSUME TypeOK, TypeOK', SyncInv, NEW n \in Node,
         NEW w \in [b : Block, sign : BOOLEAN] \cup {None},
         wait' = [wait EXCEPT ![n] = w], w # None => MayWait(n, w),
         UNCHANGED <<build, prod, cand, sent, validated, known>>,
         \/ sigs' = sigs
         \/ \E b \in Block : SignsFor(n, b)
  PROVE  SyncInv'
<1> USE DEF SyncInv
<1>t. /\ wait \in [Node -> [b : Block, sign : BOOLEAN] \cup {None}]
      /\ sigs \in [Chain -> SUBSET Node]
  BY DEF TypeOK
<1>1. CandidateInv'
  <2> SUFFICES ASSUME NEW c \in Chain, Making(c)
               PROVE  /\ Leader[c] \notin sigs'[c]
                      /\ \A m \in sigs'[c] : cand[c].h - 1 <= validated[m][c]
    BY DEF CandidateInv, Making
  <2>1. CASE sigs' = sigs
    BY <2>1 DEF CandidateInv
  <2>2. ASSUME NEW b \in Block, SignsFor(n, b)
        PROVE  /\ Leader[c] \notin sigs'[c]
               /\ \A m \in sigs'[c] : cand[c].h - 1 <= validated[m][c]
    <3>1. /\ b.c \in Chain /\ b.h - 1 <= validated[n][b.c] /\ n # Leader[b.c]
          /\ SendSig(n, b)
      BY <2>2, BlockFacts DEF SignsFor
    <3>2. CASE c = b.c /\ cand[b.c] = b
      <4>1. sigs'[c] = sigs[c] \cup {n}
        BY <3>1, <3>2, <1>t DEF SendSig
      <4> QED
        BY <3>1, <3>2, <4>1 DEF CandidateInv
    <3>3. CASE ~(c = b.c /\ cand[b.c] = b)
      <4>1. sigs'[c] = sigs[c]
        BY <3>1, <3>3, <1>t DEF SendSig
      <4> QED
        BY <4>1 DEF CandidateInv
    <3> QED
      BY <3>2, <3>3
  <2> QED
    BY <2>1, <2>2
<1>2. PublishedInv' /\ UnforkedInv'
  BY DEF PublishedInv, UnforkedInv, Making, BestOf, Best
<1>3. WaitInv'
  <2> SUFFICES ASSUME NEW m \in Node, wait'[m] # None
               PROVE  MayWait(m, wait'[m])
    BY DEF WaitInv, MayWait
  <2>1. CASE m = n
    BY <2>1, <1>t
  <2>2. CASE m # n
    BY <2>2, <1>t DEF WaitInv, MayWait
  <2> QED
    BY <2>1, <2>2
<1>4. CausallyClosed' /\ NoFork' /\ KnownExists'
  BY DEF CausallyClosed, NoFork, KnownExists
<1> QED
  BY <1>1, <1>2, <1>3, <1>4

\* A chain state raises what is known to a height that another node has.
LEMMA LearnKeeps ==
  ASSUME TypeOK, TypeOK', SyncInv, NEW n \in Node, NEW m \in Node,
         OnChainStateReceived(n, m)
  PROVE  SyncInv'
<1> USE DEF SyncInv
<1>0. UNCHANGED <<build, validated, prod, cand, sigs, sent, wait>>
  BY DEF OnChainStateReceived
<1>f. /\ \A k \in Node, c \in Chain :
           validated[k][c] \in Nat /\ validated[k][c] >= 1 /\ known[k][c] \in Nat
      /\ \A c \in Chain : Leader[c] \in Node
      /\ \A c \in Chain : Making(c) => cand[c].h \in Nat
  BY HeightFacts
<1>1. \A k \in Node, c \in Chain :
        \/ known'[k][c] = known[k][c]
        \/ /\ known'[k][c] \in Nat /\ validated[k][c] < known'[k][c]
           /\ known'[k][c] <= validated[m][c]
  <2>1. PICK v \in [Chain -> Heights] :
          /\ \A c \in Chain : v[c] <= validated[m][c]
          /\ known' = [known EXCEPT ![n] = [c \in Chain |->
                          IF validated[n][c] < v[c] THEN v[c] ELSE @[c]]]
    BY DEF OnChainStateReceived
  <2> QED
    BY <2>1 DEF TypeOK, Heights
<1>2. KnownExists'
  <2> SUFFICES ASSUME NEW k \in Node, NEW c \in Chain
               PROVE  /\ validated[k][c] <= known'[k][c]
                      /\ known'[k][c] = 1 \/ \E b \in published : b.c = c /\ b.h = known'[k][c]
    BY <1>0 DEF KnownExists
  <2>1. CASE known'[k][c] = known[k][c]
    BY <2>1 DEF KnownExists
  <2>2. CASE /\ known'[k][c] \in Nat /\ validated[k][c] < known'[k][c]
             /\ known'[k][c] <= validated[m][c]
    <3>1. known'[k][c] \in 2..validated[m][c]
      BY <2>2, <1>f
    <3>2. Covered(published, validated[m])
      BY DEF CausallyClosed
    <3>3. \E b \in published : b.c = c /\ b.h = known'[k][c]
      BY <3>1, <3>2 DEF Covered
    <3> QED
      BY <2>2, <3>3, <1>f
  <2> QED
    BY <1>1, <2>1, <2>2
<1>3. \A c \in Chain : prod[c] = "sent" => cand[c].h <= known'[Leader[c]][c]
  <2> SUFFICES ASSUME NEW c \in Chain, prod[c] = "sent"
               PROVE  cand[c].h <= known'[Leader[c]][c]
    OBVIOUS
  <2>1. /\ cand[c].h <= known[Leader[c]][c] /\ cand[c].h = validated[Leader[c]][c] + 1
        /\ Leader[c] \in Node /\ cand[c].h \in Nat
    BY <1>f DEF CandidateInv, Making
  <2> QED
    BY <1>1, <2>1, <1>f
<1>4. CandidateInv'
  BY <1>0, <1>3 DEF CandidateInv, Making
<1>5. PublishedInv' /\ UnforkedInv'
  BY <1>0 DEF PublishedInv, UnforkedInv, Making, BestOf, Best
<1>6. WaitInv' /\ CausallyClosed' /\ NoFork'
  BY <1>0 DEF WaitInv, CausallyClosed, NoFork
<1> QED
  BY <1>2, <1>4, <1>5, <1>6

\* The steps of a producer other than publishing.
LEMMA ProducerKeeps ==
  ASSUME TypeOK, TypeOK', SyncInv, NEW c \in Chain,
         Turn(c) \/ CreateBlock(c) \/ GiveUp(c)
  PROVE  SyncInv'
<1> USE DEF SyncInv
<1>0. UNCHANGED <<build, validated, known, sent, wait>>
  BY DEF Turn, CreateBlock, GiveUp
<1>f. /\ \A k \in Node, d \in Chain : validated[k][d] \in Nat
      /\ \A d \in Chain : Leader[d] \in Node
  BY HeightFacts
<1>o. /\ \A d \in Chain : d # c => prod'[d] = prod[d] /\ cand'[d] = cand[d] /\ sigs'[d] = sigs[d]
      /\ prod[c] # "sent" /\ prod'[c] # "sent"
  BY DEF Turn, CreateBlock, GiveUp, BackToLoop, TypeOK
<1>b. \A d \in Chain : BestOf(d)' = BestOf(d)
  BY <1>0, <1>o DEF BestOf, Best
<1>c. ASSUME CreateBlock(c)
      PROVE  /\ cand'[c] \in Block /\ cand'[c].c = c
             /\ cand'[c].h = validated[Leader[c]][c] + 1
             /\ cand'[c].deps = validated[Leader[c]]
             /\ sigs'[c] = {}
  <2>1. /\ cand'[c] = [c |-> c, h |-> validated[Leader[c]][c] + 1,
                       deps |-> validated[Leader[c]]]
        /\ sigs'[c] = {} /\ validated[Leader[c]][c] < MaxHeight
    BY <1>c DEF CreateBlock, ChainsHeight, TypeOK
  <2>2. /\ validated[Leader[c]] \in [Chain -> Heights]
        /\ validated[Leader[c]][c] + 1 \in 2..MaxHeight
    BY <2>1 DEF TypeOK, Heights
  <2> QED
    BY <2>1, <2>2 DEF Block
<1>m. ~CreateBlock(c) => prod'[c] \in {"loop", "template"}
  BY DEF Turn, GiveUp, BackToLoop, TypeOK
<1>1. CandidateInv'
  <2> SUFFICES ASSUME NEW d \in Chain, Making(d)'
               PROVE  /\ cand'[d] \in Block /\ cand'[d].c = d
                      /\ cand'[d].h <= validated[Leader[d]][d] + 1
                      /\ cand'[d].deps[d] = cand'[d].h - 1
                      /\ \A e \in Chain : cand'[d].deps[e] <= validated[Leader[d]][e]
                      /\ Covered(published, cand'[d].deps)
                      /\ Leader[d] \notin sigs'[d]
                      /\ \A n \in sigs'[d] : cand'[d].h - 1 <= validated[n][d]
                      /\ prod'[d] = "sent" => /\ cand'[d] \in published
                                              /\ cand'[d].h = validated[Leader[d]][d] + 1
                                              /\ cand'[d].h <= known[Leader[d]][d]
    BY <1>0 DEF CandidateInv, Making
  <2>1. CASE d # c
    BY <2>1, <1>o DEF CandidateInv, Making
  <2>2. CASE d = c
    <3>1. CreateBlock(c)
      BY <2>2, <1>m DEF Making
    <3>2. Covered(published, validated[Leader[c]])
      BY <1>f DEF CausallyClosed
    <3> QED
      BY <2>2, <3>1, <3>2, <1>c, <1>f, <1>o
  <2> QED
    BY <2>1, <2>2
<1>2. UnforkedInv'
  <2> SUFFICES ASSUME NEW d \in Chain \ forked
               PROVE  /\ Making(d)' => cand'[d].h = validated[Leader[d]][d] + 1
                      /\ \A b \in published : b.c = d => b.h <= BestOf(d)
    BY <1>0, <1>b DEF UnforkedInv
  <2>1. CASE d # c
    BY <2>1, <1>o DEF UnforkedInv, Making
  <2>2. CASE d = c
    BY <2>2, <1>m, <1>c DEF UnforkedInv, Making
  <2> QED
    BY <2>1, <2>2
<1>3. PublishedInv' /\ WaitInv' /\ CausallyClosed' /\ NoFork' /\ KnownExists'
  BY <1>0 DEF PublishedInv, WaitInv, CausallyClosed, NoFork, KnownExists
<1> QED
  BY <1>1, <1>2, <1>3

\* The leader publishes, whether its own UpdateChain has succeeded or not.
LEMMA FinalizeKeeps ==
  ASSUME TypeOK, TypeOK', SyncInv, NEW c \in Chain, Finalize(c) \/ FinalizeFails(c)
  PROVE  SyncInv'
<1> USE DEF SyncInv
<1> DEFINE b == cand[c]
           L == Leader[c]
<1>0. /\ UNCHANGED <<build, validated, wait>> /\ prod[c] = "collect"
      /\ published' = published \cup {b} /\ forked \subseteq forked'
  BY DEF Finalize, FinalizeFails, Send
<1>f. /\ \A k \in Node, d \in Chain : validated[k][d] \in Nat /\ known[k][d] \in Nat
      /\ \A d \in Chain : Leader[d] \in Node /\ BestOf(d) \in Nat
      /\ \A a \in published : a.c \in Chain /\ a.h \in Nat
  BY HeightFacts
<1>c. /\ b \in Block /\ b.c = c /\ b.h \in Nat /\ b.deps[c] = b.h - 1
      /\ Covered(published, b.deps)
  BY <1>0, HeightFacts DEF CandidateInv, Making
<1>m. \A v : Covered(published, v) => Covered(published', v)
  BY <1>0, CoveredByMore
<1>o. \A d \in Chain : d # c => prod'[d] = prod[d] /\ cand'[d] = cand[d] /\ sigs'[d] = sigs[d]
  BY DEF Finalize, FinalizeFails, BackToLoop, TypeOK
\* Both cases.
<1>s. CASE Finalize(c)
  <2>1. /\ prod'[c] = "sent" /\ cand'[c] = b /\ sigs'[c] = sigs[c] /\ forked' = forked
        /\ validated[L][c] = b.h - 1
    BY <1>s DEF Finalize, TypeOK
  <2>2. /\ known'[L][c] = IF known[L][c] < b.h THEN b.h ELSE known[L][c]
        /\ \A k \in Node, d \in Chain : ~(k = L /\ d = c) => known'[k][d] = known[k][d]
    BY <1>s, <1>f DEF Finalize, TypeOK
  <2>b. BestOf(c)' = b.h /\ BestOf(c) = b.h - 1 /\ \A d \in Chain : d # c => BestOf(d)' = BestOf(d)
    BY <1>0, <1>o, <2>1 DEF BestOf, Best
  <2> HIDE DEF b, L
  <2>3. CandidateInv'
    <3> SUFFICES ASSUME NEW d \in Chain, Making(d)'
                 PROVE  /\ cand'[d] \in Block /\ cand'[d].c = d
                        /\ cand'[d].h <= validated[Leader[d]][d] + 1
                        /\ cand'[d].deps[d] = cand'[d].h - 1
                        /\ \A e \in Chain : cand'[d].deps[e] <= validated[Leader[d]][e]
                        /\ Covered(published', cand'[d].deps)
                        /\ Leader[d] \notin sigs'[d]
                        /\ \A n \in sigs'[d] : cand'[d].h - 1 <= validated[n][d]
                        /\ prod'[d] = "sent" => /\ cand'[d] \in published'
                                                /\ cand'[d].h = validated[Leader[d]][d] + 1
                                                /\ cand'[d].h <= known'[Leader[d]][d]
      BY <1>0 DEF CandidateInv, Making
    <3>0. Making(d) /\ cand'[d] = cand[d] /\ sigs'[d] = sigs[d]
      BY <1>0, <1>o, <2>1 DEF Making, b
    <3>m. Covered(published', cand'[d].deps)
      BY <3>0, <1>m DEF CandidateInv
    <3>1. CASE d = c
      <4>1. prod'[d] = "sent" => /\ cand'[d] \in published'
                                 /\ cand'[d].h = validated[Leader[d]][d] + 1
                                 /\ cand'[d].h <= known'[Leader[d]][d]
        BY <3>1, <1>0, <1>c, <1>f, <2>1, <2>2 DEF L
      <4> QED
        BY <3>0, <3>m, <4>1 DEF CandidateInv
    <3>2. CASE d # c
      <4>1. known'[Leader[d]][d] = known[Leader[d]][d] /\ prod'[d] = prod[d]
        BY <3>2, <1>o, <1>f, <2>2
      <4> QED
        BY <3>0, <3>m, <4>1, <1>0 DEF CandidateInv
    <3> QED
      BY <3>1, <3>2
  <2>4. UnforkedInv'
    <3> SUFFICES ASSUME NEW d \in Chain \ forked
                 PROVE  /\ Making(d)' => cand'[d].h = validated[Leader[d]][d] + 1
                        /\ \A a \in published' : a.c = d => a.h <= BestOf(d)'
      BY <1>0, <2>1 DEF UnforkedInv
    <3>1. CASE d = c
      <4>1. \A a \in published : a.c = c => a.h <= BestOf(c)
        BY <3>1 DEF UnforkedInv
      <4> QED
        BY <3>1, <4>1, <1>0, <1>c, <1>f, <2>1, <2>b DEF L
    <3>2. CASE d # c
      <4>1. \A a \in published' : a.c = d => a \in published
        BY <3>2, <1>0, <1>c
      <4> QED
        BY <3>2, <4>1, <1>o, <2>b DEF UnforkedInv, Making
    <3> QED
      BY <3>1, <3>2
  <2>5. NoFork'
    <3>1. c \notin forked => \A a \in published : a.c = c => a.h # b.h
      BY <1>c, <1>f, <2>b DEF UnforkedInv
    <3> QED
      BY <1>0, <1>c, <2>1, <3>1 DEF NoFork
  <2>6. KnownExists'
    <3> SUFFICES ASSUME NEW k \in Node, NEW d \in Chain
                 PROVE  /\ validated[k][d] <= known'[k][d]
                        /\ \/ known'[k][d] = 1
                           \/ \E a \in published' : a.c = d /\ a.h = known'[k][d]
      BY <1>0 DEF KnownExists
    <3>1. CASE known'[k][d] = known[k][d]
      BY <3>1, <1>0 DEF KnownExists
    <3>2. CASE k = L /\ d = c /\ known'[k][d] = b.h
      BY <3>2, <1>0, <1>c, <1>f, <2>1
    <3> QED
      BY <2>2, <3>1, <3>2
  <2> QED
    BY <1>0, <1>c, <1>m, <2>3, <2>4, <2>5, <2>6, FS_AddElement
       DEF PublishedInv, WaitInv, CausallyClosed
<1>u. CASE FinalizeFails(c)
  <2>1. prod'[c] = "loop" /\ forked' = forked \cup {c} /\ known' = known
    BY <1>u DEF FinalizeFails, BackToLoop, TypeOK
  <2>b. \A d \in Chain : d # c => BestOf(d)' = BestOf(d)
    BY <1>0, <1>o DEF BestOf, Best
  <2> HIDE DEF b, L
  <2>3. CandidateInv'
    <3> SUFFICES ASSUME NEW d \in Chain, Making(d)'
                 PROVE  /\ cand'[d] \in Block /\ cand'[d].c = d
                        /\ cand'[d].h <= validated[Leader[d]][d] + 1
                        /\ cand'[d].deps[d] = cand'[d].h - 1
                        /\ \A e \in Chain : cand'[d].deps[e] <= validated[Leader[d]][e]
                        /\ Covered(published', cand'[d].deps)
                        /\ Leader[d] \notin sigs'[d]
                        /\ \A n \in sigs'[d] : cand'[d].h - 1 <= validated[n][d]
                        /\ prod'[d] = "sent" => /\ cand'[d] \in published'
                                                /\ cand'[d].h = validated[Leader[d]][d] + 1
                                                /\ cand'[d].h <= known'[Leader[d]][d]
      BY <1>0 DEF CandidateInv, Making
    <3>0. /\ Making(d) /\ cand'[d] = cand[d] /\ sigs'[d] = sigs[d]
          /\ prod'[d] = prod[d]
      BY <1>o, <2>1 DEF Making
    <3>m. Covered(published', cand'[d].deps)
      BY <3>0, <1>m DEF CandidateInv
    <3> QED
      BY <3>0, <3>m, <1>0, <2>1 DEF CandidateInv
  <2>4. UnforkedInv'
    <3> SUFFICES ASSUME NEW d \in Chain \ forked', d # c
                 PROVE  /\ Making(d)' => cand'[d].h = validated[Leader[d]][d] + 1
                        /\ \A a \in published' : a.c = d => a.h <= BestOf(d)'
      BY <1>0, <2>1 DEF UnforkedInv
    <3>1. \A a \in published' : a.c = d => a \in published
      BY <1>0, <1>c
    <3> QED
      BY <3>1, <1>0, <1>o, <2>b DEF UnforkedInv, Making
  <2>5. NoFork' /\ KnownExists'
    BY <1>0, <1>c, <2>1 DEF NoFork, KnownExists
  <2> QED
    BY <1>0, <1>c, <1>m, <2>3, <2>4, <2>5, FS_AddElement
       DEF PublishedInv, WaitInv, CausallyClosed
<1> QED
  BY <1>s, <1>u

\* The leader counts its block as validated; its best height was there already.
LEMMA SetValidatedKeeps ==
  ASSUME TypeOK, TypeOK', SyncInv, NEW c \in Chain, SetValidated(c)
  PROVE  SyncInv'
<1> USE DEF SyncInv
<1> DEFINE b == cand[c]
           L == Leader[c]
<1>0. UNCHANGED <<build, known, sent, wait>> /\ prod[c] = "sent"
  BY DEF SetValidated
<1>f. /\ \A k \in Node, d \in Chain : validated[k][d] \in Nat /\ known[k][d] \in Nat
      /\ \A d \in Chain : Leader[d] \in Node /\ BestOf(d) \in Nat
      /\ \A a \in published : /\ a \in Block /\ a.c \in Chain /\ a.h \in Nat
                             /\ \A d \in Chain : a.deps[d] \in Nat
  BY HeightFacts
<1>c. /\ b \in published /\ b.c = c /\ b.h = validated[L][c] + 1
      /\ b.h <= known[L][c] /\ \A d \in Chain : b.deps[d] <= validated[L][d]
  BY <1>0 DEF CandidateInv, Making
<1>p. /\ prod'[c] = "loop"
      /\ \A d \in Chain : d # c => prod'[d] = prod[d] /\ cand'[d] = cand[d] /\ sigs'[d] = sigs[d]
      /\ \A k \in Node, d \in Chain :
           validated'[k][d] = IF k = L /\ d = c THEN b.h ELSE validated[k][d]
      /\ \A k \in Node : k # L => validated'[k] = validated[k]
  BY <1>f DEF SetValidated, BackToLoop, TypeOK
<1>b. \A d \in Chain : BestOf(d)' = BestOf(d)
  BY <1>0, <1>p, <1>f DEF BestOf, Best
<1>g. \A k \in Node, d \in Chain :
        validated'[k][d] \in Nat /\ validated[k][d] <= validated'[k][d]
  BY <1>p, <1>c, <1>f
<1> HIDE DEF b, L
<1>1. CandidateInv'
  <2> SUFFICES ASSUME NEW d \in Chain, d # c
               PROVE  /\ prod'[d] = prod[d] /\ cand'[d] = cand[d] /\ sigs'[d] = sigs[d]
                      /\ validated'[Leader[d]][d] = validated[Leader[d]][d]
                      /\ Making(d) =>
                           /\ \A e \in Chain : cand[d].deps[e] <= validated'[Leader[d]][e]
                           /\ \A n \in sigs[d] : cand[d].h - 1 <= validated'[n][d]
    BY <1>0, <1>p DEF CandidateInv, Making
  <2>1. ASSUME Making(d), NEW e \in Chain
        PROVE  cand[d].deps[e] <= validated'[Leader[d]][e]
    <3>1. cand[d].deps[e] \in Nat /\ cand[d].deps[e] <= validated[Leader[d]][e]
      BY <2>1, HeightFacts DEF CandidateInv
    <3> QED
      BY <3>1, <1>g, <1>f
  <2>2. ASSUME Making(d), NEW n \in sigs[d]
        PROVE  cand[d].h - 1 <= validated'[n][d]
    <3>1. n \in Node /\ cand[d].h \in Nat /\ cand[d].h - 1 <= validated[n][d]
      BY <2>2, HeightFacts DEF CandidateInv, TypeOK
    <3> QED
      BY <3>1, <1>g, <1>f
  <2> QED
    BY <2>1, <2>2, <1>p, <1>f
<1>2. UnforkedInv'
  <2> SUFFICES ASSUME NEW d \in Chain \ forked, Making(d)'
               PROVE  cand'[d].h = validated'[Leader[d]][d] + 1
    BY <1>0, <1>b DEF UnforkedInv
  <2>1. d # c
    BY <1>p DEF Making
  <2> QED
    BY <2>1, <1>p, <1>f DEF UnforkedInv, Making
<1>3. PublishedInv' /\ NoFork'
  BY <1>0 DEF PublishedInv, NoFork
<1>4. WaitInv'
  <2> SUFFICES ASSUME NEW n \in Node, wait[n] # None
               PROVE  wait[n].b.h - 1 <= validated'[n][wait[n].b.c]
    BY <1>0 DEF WaitInv
  <2>1. wait[n].b \in Block /\ wait[n].b.c \in Chain /\ wait[n].b.h \in Nat
    BY BlockFacts DEF TypeOK
  <2>2. wait[n].b.h - 1 <= validated[n][wait[n].b.c]
    BY DEF WaitInv
  <2> QED
    BY <2>1, <2>2, <1>g, <1>f
<1>5. CausallyClosed'
  <2> SUFFICES ASSUME NEW n \in Node
               PROVE  Covered(published, validated'[n])
    BY <1>0 DEF CausallyClosed
  <2>0. Covered(published, validated[n])
    BY DEF CausallyClosed
  <2>1. CASE n # L
    BY <2>0, <2>1, <1>p
  <2>2. CASE n = L
    <3>1. /\ validated[n] \in [Chain -> Heights] /\ validated'[n] \in [Chain -> Heights]
          /\ published \in SUBSET Block
      BY DEF TypeOK
    <3>2. /\ validated'[n][b.c] = b.h /\ b.h = validated[n][b.c] + 1
          /\ \A d \in Chain : d # b.c => validated'[n][d] = validated[n][d]
          /\ \A d \in Chain : b.deps[d] <= validated[n][d]
      BY <2>2, <1>p, <1>c
    <3> QED
      BY <1>c, <2>0, <3>1, <3>2, CoveredByNext
  <2> QED
    BY <2>1, <2>2
<1>6. KnownExists'
  BY <1>0, <1>p, <1>c, <1>f DEF KnownExists
<1> QED
  BY <1>1, <1>2, <1>3, <1>4, <1>5, <1>6

LEMMA SyncInvHolds == Spec => [](TypeOK /\ SyncInv)
<1>1. Init => TypeOK /\ SyncInv
  <2> SUFFICES ASSUME Init PROVE TypeOK /\ SyncInv
    OBVIOUS
  <2>1. /\ [n \in Node |-> [c \in Chain |-> 1]] \in [Node -> [Chain -> Heights]]
        /\ oneNode \in BOOLEAN /\ verifies \in BOOLEAN
    BY DEF Init, Heights
  <2>2. TypeOK
    BY <2>1 DEF Init, TypeOK
  <2>3. CandidateInv /\ PublishedInv /\ UnforkedInv /\ WaitInv /\ NoFork
    BY FS_EmptySet
       DEF Init, CandidateInv, Making, PublishedInv, UnforkedInv, WaitInv, NoFork
  <2>4. CausallyClosed /\ KnownExists
    BY DEF Init, CausallyClosed, Covered, KnownExists
  <2> QED
    BY <2>2, <2>3, <2>4 DEF SyncInv
<1>2. TypeOK /\ SyncInv /\ [Next]_vars => TypeOK' /\ SyncInv'
  <2> SUFFICES ASSUME TypeOK, SyncInv, [Next]_vars PROVE SyncInv'
    BY TypeKept
  <2>0. TypeOK'
    BY TypeKept
  <2>1. ASSUME NEW c \in Chain, Producing(c) PROVE SyncInv'
    BY <2>0, <2>1, ProducerKeeps, FinalizeKeeps, SetValidatedKeeps DEF Producing
  <2>2. ASSUME NEW n \in Node, Netsync(n)
        PROVE  SyncInv'
    <3>1. /\ UNCHANGED <<build, prod, cand, sent>>
          /\ WaitsOn(n) \/ \E b \in Block : SignsFor(n, b) \/ TakesOver(n, b)
      BY <2>2, NetsyncCases
    <3>2. CASE WaitsOn(n)
      BY <3>1, <3>2, <2>0, NoAdoptKeeps DEF WaitsOn
    <3>3. ASSUME NEW b \in Block, SignsFor(n, b) PROVE SyncInv'
      <4>1. UNCHANGED <<validated, known>> /\ wait' = [wait EXCEPT ![n] = None]
        BY <3>3 DEF SignsFor, SendSig
      <4> QED
        BY <3>1, <3>3, <4>1, <2>0, NoAdoptKeeps
    <3>4. ASSUME NEW b \in Block, TakesOver(n, b) PROVE SyncInv'
      <4>1. b \in published
        BY <3>4 DEF TakesOver
      <4> QED
        BY <3>1, <3>4, <4>1, <2>0, AdoptKeeps
    <3> QED
      BY <3>1, <3>2, <3>3, <3>4
  <2>3. ASSUME NEW n \in Node, NEW m \in Node, OnChainStateReceived(n, m)
        PROVE  SyncInv'
    BY <2>0, <2>3, LearnKeeps
  <2>4. CASE UNCHANGED vars
    BY <2>4 DEF vars, SyncInv, CandidateInv, Making, PublishedInv, UnforkedInv, BestOf,
       Best, WaitInv, NoFork, CausallyClosed, KnownExists
  <2> QED
    BY <2>1, <2>2, <2>3, <2>4 DEF Next, Netsync
<1> QED
  BY <1>1, <1>2, PTL DEF Spec

LEMMA LeastOf ==
  ASSUME NEW S \in SUBSET Nat, S # {}
  PROVE  \E x \in S : \A y \in S : x <= y
<1> DEFINE R == {ss \in Nat \X Nat : ss[1] < ss[2]}
<1>1. IsWellFoundedOn(R, Nat)
  BY NatLessThanWellFounded DEF OpToRel
<1> HIDE DEF R
<1>2. PICK x \in S : \A y \in S : ~(<<y, x>> \in R)
  BY <1>1, WFMin
<1>3. \A y \in S : ~(y < x)
  BY <1>2 DEF R
<1> QED
  BY <1>3
-----------------------------------------------------------------------------
\* Type correctness: heights stay in range however blocks, requests and old
\* chain states arrive.
THEOREM TypeCorrect == Spec => []TypeOK
BY SyncInvHolds, PTL

\* IsEnoughData keeps every node causally closed: who has validated a block has
\* validated all that its leader had when createBlock recorded the heights.
THEOREM AlwaysCausallyClosed == Spec => []CausallyClosed
<1>1. SyncInv => CausallyClosed
  BY DEF SyncInv
<1> QED
  BY <1>1, SyncInvHolds, PTL

\* A leader whose UpdateChain has never failed on a block that Finalize sent has
\* published one block for a height, however often Finalize gave up and
\* createBlock started again.
THEOREM ForksOnlyByFailure == Spec => []NoFork
<1>1. SyncInv => NoFork
  BY DEF SyncInv
<1> QED
  BY <1>1, SyncInvHolds, PTL

\* knownChainsHeight, which holds up the producers, is at least what the node has
\* and is the height of a block that is out.
THEOREM KnownIsPublished == Spec => []KnownExists
<1>1. SyncInv => KnownExists
  BY DEF SyncInv
<1> QED
  BY <1>1, SyncInvHolds, PTL

\* Below every published block a quorum of the nodes has the chain: the leader
\* and those whose signatures Finalize has collected.
THEOREM AlwaysReplicated == Spec => []PrefixReplicated
<1>1. Init => PrefixReplicated
  BY DEF Init, PrefixReplicated
<1>2. TypeOK /\ TypeOK' /\ SyncInv /\ SyncInv' /\ PrefixReplicated /\ [Next]_vars
        => PrefixReplicated'
  <2> SUFFICES ASSUME TypeOK, TypeOK', SyncInv, SyncInv', PrefixReplicated, [Next]_vars,
                      ~oneNode', NEW b \in published'
               PROVE  Cardinality({n \in Node : validated'[n][b.c] >= b.h - 1}) >= Quorum
    BY DEF PrefixReplicated
  <2> DEFINE Has(x)  == {n \in Node : validated[n][x.c] >= x.h - 1}
             HasN(x) == {n \in Node : validated'[n][x.c] >= x.h - 1}
  <2>g. \A n \in Node, c \in Chain :
          /\ validated[n][c] \in Nat /\ validated'[n][c] \in Nat
          /\ validated[n][c] <= validated'[n][c]
    <3>1. \A n \in Node, c \in Chain : validated[n][c] \in Nat /\ validated'[n][c] \in Nat
      BY DEF TypeOK, Heights
    <3>2. ASSUME NEW n \in Node, NEW a \in Block, TakesOver(n, a)
          PROVE  \A m \in Node, c \in Chain : validated[m][c] <= validated'[m][c]
      <4>1. a.c \in Chain /\ a.h \in Nat /\ Best(n, a.c) = a.h - 1
        BY <3>2, BlockFacts DEF TakesOver, UpdateChain
      <4>2. \A m \in Node, c \in Chain :
              validated'[m][c] = IF m = n /\ c = a.c THEN a.h ELSE validated[m][c]
        BY <3>2, <4>1 DEF TakesOver, UpdateChain, TypeOK
      <4>3. validated[n][a.c] <= Best(n, a.c)
        BY <3>1, <4>1 DEF Best, SyncInv, CandidateInv
      <4> QED
        BY <3>1, <4>1, <4>2, <4>3
    <3>3. ASSUME NEW c \in Chain, SetValidated(c)
          PROVE  \A m \in Node, d \in Chain : validated[m][d] <= validated'[m][d]
      <4>1. cand[c].h = validated[Leader[c]][c] + 1
        BY <3>3 DEF SetValidated, SyncInv, CandidateInv, Making
      <4>2. \A m \in Node, d \in Chain :
              validated'[m][d] = IF m = Leader[c] /\ d = c THEN cand[c].h ELSE validated[m][d]
        BY <3>3 DEF SetValidated, TypeOK
      <4> QED
        BY <3>1, <4>1, <4>2
    <3>4. ASSUME NEW n \in Node, Netsync(n)
          PROVE  \/ validated' = validated
                 \/ \E a \in Block : TakesOver(n, a)
      BY <3>4, NetsyncCases DEF WaitsOn, SignsFor, SendSig
    <3>5. \/ validated' = validated
          \/ \E c \in Chain : SetValidated(c)
          \/ \E n \in Node, a \in Block : TakesOver(n, a)
      BY <3>4 DEF Next, Netsync, Producing, Turn, CreateBlock, Finalize, FinalizeFails, GiveUp,
         OnChainStateReceived, vars
    <3> QED
      BY <3>1, <3>2, <3>3, <3>5
  <2>o. oneNode' = oneNode
    BY NetsyncCases DEF Next, Netsync, Producing, Turn, CreateBlock, Finalize, FinalizeFails,
       GiveUp, SetValidated, OnChainStateReceived, vars
  <2>b. b.c \in Chain /\ b.h \in Nat
    BY BlockFacts DEF TypeOK, Heights
  <2>s. ASSUME NEW S \in SUBSET HasN(b), Cardinality(S) >= Quorum
        PROVE  Cardinality(HasN(b)) >= Quorum
    <3>1. IsFiniteSet(HasN(b)) /\ HasN(b) \in SUBSET Node
      BY FS_Subset
    <3>2. Cardinality(S) <= Cardinality(HasN(b)) /\ IsFiniteSet(S)
      BY <3>1, FS_Subset
    <3> QED
      BY <2>s, <3>1, <3>2, FS_CardinalityType
  <2>1. CASE b \in published
    <3>1. Has(b) \in SUBSET HasN(b)
      BY <2>g, <2>b
    <3>2. Cardinality(Has(b)) >= Quorum
      BY <2>1, <2>o DEF PrefixReplicated
    <3> QED
      BY <2>s, <3>1, <3>2
  <2>2. CASE b \notin published
    <3>1. PICK c \in Chain : prod[c] = "collect" /\ Send(c) /\ b = cand[c]
      BY <2>2, NetsyncCases DEF Next, Netsync, Producing, Turn, CreateBlock, Finalize,
         FinalizeFails, Send, GiveUp, SetValidated, OnChainStateReceived, vars
    <3>2. /\ Leader[c] \in Node /\ Leader[c] \notin sigs[c] /\ sigs[c] \in SUBSET Node
          /\ b.c = c /\ b.h <= validated[Leader[c]][c] + 1
          /\ \A n \in sigs[c] : b.h - 1 <= validated[n][c]
          /\ Cardinality(sigs[c]) + 1 >= Quorum
      BY <3>1, <2>o DEF Send, SyncInv, CandidateInv, Making, TypeOK
    <3>3. sigs[c] \cup {Leader[c]} \in SUBSET HasN(b)
      BY <3>2, <2>g, <2>b
    <3>4. Cardinality(sigs[c] \cup {Leader[c]}) = Cardinality(sigs[c]) + 1
      BY <3>2, FS_Subset, FS_AddElement
    <3> QED
      BY <2>s, <3>2, <3>3, <3>4
  <2> QED
    BY <2>1, <2>2
<1> QED
  BY <1>1, <1>2, SyncInvHolds, PTL DEF Spec

\* Parallel chains cannot block each other.  A block counts another if it records
\* its height; among the blocks that a node lacks next, one that counts the
\* fewest published blocks counts none that the node lacks.
THEOREM NeverWaitInACircle == Spec => []NoCircularWait
<1>1. TypeOK /\ SyncInv => NoCircularWait
  <2> SUFFICES ASSUME TypeOK, SyncInv, NEW n \in Node, NEW b0 \in published,
                      validated[n][b0.c] < b0.h
               PROVE  \E b \in published : NextOfChain(n, b) /\ Complete(n, b)
    BY DEF NoCircularWait
  <2> DEFINE Counted(b) == {a \in published : a.h <= b.deps[a.c]}
             Rank(b)    == Cardinality(Counted(b))
             Lacking    == {b \in published : NextOfChain(n, b)}
  <2>f. /\ \A d \in Chain : validated[n][d] \in Nat /\ validated[n][d] >= 1
        /\ \A b \in published : /\ b.c \in Chain /\ b.h \in Nat
                               /\ \A d \in Chain : b.deps[d] \in Nat
    BY HeightFacts DEF SyncInv, TypeOK, Heights
  \* Heights that are covered and not reached: the next block is out.
  <2>h. ASSUME NEW v \in [Chain -> Nat], Covered(published, v),
               NEW d \in Chain, validated[n][d] < v[d]
        PROVE  \E a \in Lacking : /\ a.c = d /\ a.h = validated[n][d] + 1
                                   /\ \A e \in Chain : a.deps[e] <= v[e]
    <3>1. validated[n][d] + 1 \in 2..v[d]
      BY <2>f, <2>h
    <3>2. PICK a \in published : /\ a.c = d /\ a.h = validated[n][d] + 1
                                /\ \A e \in Chain : a.deps[e] <= v[e]
      BY <3>1, <2>h DEF Covered
    <3>3. NextOfChain(n, a)
      BY <3>2, <2>f DEF NextOfChain
    <3> QED
      BY <3>2, <3>3
  <2>p. \A b \in published : /\ b.deps \in [Chain -> Nat] /\ b.deps[b.c] = b.h - 1
                             /\ Covered(published, b.deps)
    <3>1. \A b \in published : b.deps \in [Chain -> Nat]
      BY BlockFacts DEF TypeOK, Heights
    <3> QED
      BY <3>1 DEF SyncInv, PublishedInv
  <2>r. \A b \in published : /\ IsFiniteSet(Counted(b)) /\ Rank(b) \in Nat
    <3>1. IsFiniteSet(published)
      BY DEF SyncInv, PublishedInv
    <3> QED
      BY <3>1, FS_Subset, FS_CardinalityType
  <2>1. Lacking # {}
    <3>1. CASE validated[n][b0.c] < b0.h - 1
      BY <3>1, <2>f, <2>p, <2>h
    <3>2. CASE validated[n][b0.c] = b0.h - 1
      BY <3>2 DEF NextOfChain
    <3> QED
      BY <3>1, <3>2, <2>f
  <2>2. PICK b \in Lacking : \A a \in Lacking : Rank(b) <= Rank(a)
    <3> HIDE DEF Rank
    <3> DEFINE S == {Rank(a) : a \in Lacking}
    <3>0. \A a \in Lacking : Rank(a) \in Nat
      BY <2>r
    <3>1. S \in SUBSET Nat
      BY <3>0
    <3>a. S # {}
      BY <2>1
    <3>2. PICK x \in S : \A y \in S : x <= y
      BY <3>1, <3>a, LeastOf
    <3> QED
      BY <3>2
  <2>3. ASSUME ~Complete(n, b) PROVE FALSE
    <3>1. PICK d \in Chain : validated[n][d] < b.deps[d]
      BY <2>3, <2>f DEF Complete
    <3>3. PICK a \in Lacking : /\ a.c = d /\ a.h = validated[n][d] + 1
                               /\ \A e \in Chain : a.deps[e] <= b.deps[e]
      BY <2>p, <2>h, <3>1
    <3>4. a.h <= b.deps[a.c]
      BY <3>1, <3>3, <2>f
    <3>6. Counted(a) \in SUBSET Counted(b)
      BY <3>3, <2>f
    <3>7. a \in Counted(b) /\ a \notin Counted(a)
      BY <3>4, <2>f, <2>p
    <3>8. Rank(a) <= Rank(b) /\ Rank(a) # Rank(b)
      <4>1. IsFiniteSet(Counted(b)) /\ Counted(a) # Counted(b)
        BY <3>7, <2>r
      <4> HIDE DEF Counted
      <4> QED
        BY <4>1, <3>6, FS_Subset
    <3>9. Rank(a) \in Nat /\ Rank(b) \in Nat /\ Rank(b) <= Rank(a)
      BY <2>2, <2>r
    <3> HIDE DEF Rank
    <3> QED
      BY <3>8, <3>9
  <2> QED
    BY <2>3
<1> QED
  BY <1>1, SyncInvHolds, PTL
=============================================================================
