------------------------------ MODULE Finalize ------------------------------
(***************************************************************************)
(* Engine.Finalize of consensus/ppos: the goroutines that collect the      *)
(* committee's signatures on a new block, and the channels between them.   *)
(*                                                                         *)
(*   main       the producer goroutine of StartProducer, inside Finalize   *)
(*   coll[a]    the collector goroutine of attempt a (it reads cBlockSig)  *)
(*   req[a]     the requester goroutine of attempt a                       *)
(*   netMsg     the netsync goroutine, blocked in OnBlockSigReceived on    *)
(*              the unbuffered channel cBlockSig                           *)
(*                                                                         *)
(* An attempt is a pair <<call, retry>>: the call-th call of Finalize and  *)
(* its retryTime.  Each call has its own block, its own channels cancel    *)
(* and allSigReceived (both unbuffered, both closed when the call returns) *)
(* and its own BlockCommitteeSigs, which its collectors fill in.           *)
(*                                                                         *)
(* The source has two builds, told apart by the segment "TODO Uncomment    *)
(* this segment to create block with only 1 node" (engine.go:370-372).     *)
(* oneNode = TRUE is the build of the repository as it stands.             *)
(***************************************************************************)
EXTENDS Naturals, FiniteSets

CONSTANTS
  Validator,  \* the members of the committee other than the producer
  Quorum,     \* common.MinBlockSigs - 1: signatures wanted of the others
  MaxRetry,   \* the retryTime at which Finalize gives up (5 in the code)
  MaxCalls,   \* bound: how many blocks the producer tries to finalize
  Builds      \* the builds considered: a subset of BOOLEAN (see oneNode)

ASSUME FinalizeAssumption ==
  /\ IsFiniteSet(Validator)
  /\ Quorum \in Nat \ {0}
  /\ MaxRetry \in Nat
  /\ MaxCalls \in Nat \ {0}
  /\ Builds \subseteq BOOLEAN

Calls    == 1..MaxCalls
Attempts == Calls \X (0..MaxRetry)

(***************************************************************************)
(* Block.Hash covers BlockProducerSig, which is empty until the header is  *)
(* signed: <<k, FALSE>> is the hash of the k-th block before, <<k, TRUE>>  *)
(* after.  A signature is the hash it was made over.                       *)
(***************************************************************************)
Hashes == Calls \X BOOLEAN
NoSig  == <<0, FALSE>>
SigMsg == [v : Validator, h : Hashes]
NoMsg  == [v |-> "none", h |-> NoSig]

VARIABLES
  oneNode,   \* the build: the requester signals allSigReceived itself
  main,      \* where the producer goroutine is
  call,      \* number of the current (or last) call of Finalize
  retry,     \* retryTime of the current call
  coll,      \* state of each attempt's collector goroutine
  cnt,       \* its sigsReceived
  req,       \* state of each attempt's requester goroutine
  sigs,      \* BlockCommitteeSigs of each call's block
  signed,    \* calls whose block has its BlockProducerSig
  closed,    \* calls that have returned: cancel and allSigReceived closed
  netMsg,    \* the signature netsync is blocked on sending, or NoMsg
  replies,   \* signatures on their way back from the validators
  quit,      \* Engine.Stop was called: cQuit and cBlockSig are closed
  panicked   \* the process died of a send on a closed channel

vars == <<oneNode, main, call, retry, coll, cnt, req, sigs, signed, closed,
          netMsg, replies, quit, panicked>>

MainStates == {"loop", "waiting", "cancelRetry", "cancelFail", "cancelQuit",
               "signing", "publishing"}
CollStates == {"none", "run", "sending", "dead"}
ReqStates  == {"none", "signal", "request", "dead"}

TypeOK ==
  /\ oneNode \in BOOLEAN
  /\ main \in MainStates
  /\ call \in 0..MaxCalls
  /\ retry \in 0..MaxRetry
  /\ coll \in [Attempts -> CollStates]
  /\ cnt \in [Attempts -> Nat]
  /\ req \in [Attempts -> ReqStates]
  /\ sigs \in [Calls -> [Validator -> Hashes \cup {NoSig}]]
  /\ signed \subseteq Calls
  /\ closed \subseteq Calls
  /\ netMsg \in SigMsg \cup {NoMsg}
  /\ replies \subseteq SigMsg
  /\ quit \in BOOLEAN
  /\ panicked \in BOOLEAN

Init ==
  /\ oneNode \in Builds
  /\ main = "loop"
  /\ call = 0
  /\ retry = 0
  /\ coll = [a \in Attempts |-> "none"]
  /\ cnt = [a \in Attempts |-> 0]
  /\ req = [a \in Attempts |-> "none"]
  /\ sigs = [k \in Calls |-> [v \in Validator |-> NoSig]]
  /\ signed = {}
  /\ closed = {}
  /\ netMsg = NoMsg
  /\ replies = {}
  /\ quit = FALSE
  /\ panicked = FALSE

(***************************************************************************)
(* A goroutine that has sent, or is about to send, on allSigReceived.      *)
(***************************************************************************)
Sending(a) == coll[a] = "sending" \/ req[a] = "signal"

(***************************************************************************)
(* ------------------------- the producer goroutine ---------------------- *)
(***************************************************************************)

\* Label finalizing: fresh signature slots, then the two goroutines of attempt
\* <<k, r>>.  The producer's own signature is not one of Validator's.
StartAttempt(k, r) ==
  /\ cnt' = [cnt EXCEPT ![<<k, r>>] = 0]
  /\ sigs' = [sigs EXCEPT ![k] = [v \in Validator |-> NoSig]]
  /\ req' = [req EXCEPT ![<<k, r>>] = IF oneNode THEN "signal" ELSE "request"]
  /\ main' = "waiting"

\* The deferred closes.  A goroutine blocked in a send on allSigReceived, or
\* still to come to that send, panics.
CloseChannels(k) ==
  /\ closed' = closed \cup {k}
  /\ panicked' = \E a \in Attempts : a[1] = k /\ Sending(a)
  /\ main' = "loop"

\* StartProducer's loop: a synced producer creates a block and finalizes it.
Begin ==
  /\ ~panicked
  /\ main = "loop"
  /\ ~quit
  /\ call < MaxCalls
  /\ call' = call + 1
  /\ retry' = 0
  /\ coll' = [coll EXCEPT ![<<call + 1, 0>>] = "run"]
  /\ StartAttempt(call + 1, 0)
  /\ UNCHANGED <<oneNode, signed, closed, netMsg, replies, quit, panicked>>

\* The select's case <-allSigReceived, from the collector of the attempt or,
\* in the one-node build, from a requester.
AllSigReceived(a) ==
  /\ ~panicked
  /\ main = "waiting"
  /\ a[1] = call
  /\ \/ /\ coll[a] = "sending"
        /\ coll' = [coll EXCEPT ![a] = "dead"]
        /\ UNCHANGED req
     \/ /\ req[a] = "signal"
        /\ req' = [req EXCEPT ![a] = "request"]
        /\ UNCHANGED coll
  /\ main' = "signing"
  /\ UNCHANGED <<oneNode, call, retry, cnt, sigs, signed, closed, netMsg,
                 replies, quit, panicked>>

\* Mutant of Timeout: the limit on retries is not tested.
TimeoutNoLimit ==
  /\ ~panicked
  /\ main = "waiting"
  /\ main' = "cancelRetry"
  /\ retry' = retry + 1
  /\ UNCHANGED <<oneNode, call, coll, cnt, req, sigs, signed, closed, netMsg,
                 replies, quit, panicked>>

\* Mutant of Timeout: at the limit Finalize keeps retrying.
TimeoutForever ==
  /\ ~panicked
  /\ main = "waiting"
  /\ main' = "cancelRetry"
  /\ retry' = IF retry = MaxRetry THEN retry ELSE retry + 1
  /\ UNCHANGED <<oneNode, call, coll, cnt, req, sigs, signed, closed, netMsg,
                 replies, quit, panicked>>

\* Mutant of Timeout: at the limit Finalize goes on with what it has, and its
\* collector is not told.
TimeoutSigns ==
  /\ ~panicked
  /\ main = "waiting"
  /\ IF retry = MaxRetry
     THEN main' = "signing" /\ UNCHANGED retry
     ELSE main' = "cancelRetry" /\ retry' = retry + 1
  /\ UNCHANGED <<oneNode, call, coll, cnt, req, sigs, signed, closed, netMsg,
                 replies, quit, panicked>>

\* The select's timeout case: give up at MaxRetry, else count the retry; both
\* then send on cancel.
Timeout ==
  /\ ~panicked
  /\ main = "waiting"
  /\ IF retry = MaxRetry
     THEN main' = "cancelFail" /\ UNCHANGED retry
     ELSE main' = "cancelRetry" /\ retry' = retry + 1
  /\ UNCHANGED <<oneNode, call, coll, cnt, req, sigs, signed, closed, netMsg,
                 replies, quit, panicked>>

\* The select's case <-self.cQuit.
SeeQuit ==
  /\ ~panicked
  /\ main = "waiting"
  /\ quit
  /\ main' = "cancelQuit"
  /\ UNCHANGED <<oneNode, call, retry, coll, cnt, req, sigs, signed, closed,
                 netMsg, replies, quit, panicked>>

\* Mutant of Retry: goto finalizing without the send on cancel.
RetryWithoutCancel(a) ==
  /\ ~panicked
  /\ main = "cancelRetry"
  /\ a[1] = call
  /\ coll[a] = "run"
  /\ coll' = [coll EXCEPT ![<<call, retry>>] = "run"]
  /\ StartAttempt(call, retry)
  /\ UNCHANGED <<oneNode, call, retry, signed, closed, netMsg, replies, quit,
                 panicked>>

\* cancel <- struct{}{} meets the collector's case <-cancel, then goto
\* finalizing.
Retry(a) ==
  /\ ~panicked
  /\ main = "cancelRetry"
  /\ a[1] = call
  /\ coll[a] = "run"
  /\ coll' = [coll EXCEPT ![a] = "dead", ![<<call, retry>>] = "run"]
  /\ StartAttempt(call, retry)
  /\ UNCHANGED <<oneNode, call, retry, signed, closed, netMsg, replies, quit,
                 panicked>>

\* Mutant of GiveUp: Finalize returns without the send on cancel.
GiveUpWithoutCancel(a) ==
  /\ ~panicked
  /\ main \in {"cancelFail", "cancelQuit", "cancelRetry"}
  /\ a[1] = call
  /\ CloseChannels(call)
  /\ UNCHANGED <<oneNode, call, retry, coll, cnt, req, sigs, signed, netMsg,
                 replies, quit>>

\* The same rendezvous, then Finalize returns: retries exhausted, engine
\* stopped, or (cancelRetry) the new attempt's signData failed.
GiveUp(a) ==
  /\ ~panicked
  /\ main \in {"cancelFail", "cancelQuit", "cancelRetry"}
  /\ a[1] = call
  /\ coll[a] = "run"
  /\ coll' = [coll EXCEPT ![a] = "dead"]
  /\ CloseChannels(call)
  /\ UNCHANGED <<oneNode, call, retry, cnt, req, sigs, signed, netMsg, replies,
                 quit>>

\* BlockProducerSig over the JSON of the header, slots included.
SignHeader ==
  /\ ~panicked
  /\ main = "signing"
  /\ signed' = signed \cup {call}
  /\ main' = "publishing"
  /\ UNCHANGED <<oneNode, call, retry, coll, cnt, req, sigs, closed, netMsg,
                 replies, quit, panicked>>

\* signData failed on the header: Finalize returns without a block.
SignFails ==
  /\ ~panicked
  /\ main = "signing"
  /\ CloseChannels(call)
  /\ UNCHANGED <<oneNode, call, retry, coll, cnt, req, sigs, signed, netMsg,
                 replies, quit>>

\* UpdateChain and sendBlockMsg (module ChainStore), then return.
Publish ==
  /\ ~panicked
  /\ main = "publishing"
  /\ CloseChannels(call)
  /\ UNCHANGED <<oneNode, call, retry, coll, cnt, req, sigs, signed, netMsg,
                 replies, quit>>

(***************************************************************************)
(* ---------------------- collector and requester ------------------------ *)
(***************************************************************************)

\* Mutant of Accepts: the signature is not verified.
AcceptsUnverified(k, m) == sigs[k][m.v] = NoSig

\* A signature counts for block k when its slot is empty and it verifies over
\* the hash the collector was started with.
Accepts(k, m) == sigs[k][m.v] = NoSig /\ m.h = <<k, FALSE>>

\* case blocksig := <-self.cBlockSig.  The collector of a call that returned
\* may still take this case: select picks among the ready ones.
Collect(a) ==
  LET k    == a[1]
      full == Accepts(k, netMsg) /\ cnt[a] + 1 = Quorum
  IN  /\ ~panicked
      /\ coll[a] = "run"
      /\ netMsg # NoMsg
      /\ IF Accepts(k, netMsg)
         THEN /\ sigs' = [sigs EXCEPT ![k][netMsg.v] = netMsg.h]
              /\ cnt' = [cnt EXCEPT ![a] = @ + 1]
         ELSE UNCHANGED <<sigs, cnt>>
      /\ coll' = [coll EXCEPT ![a] = IF full THEN "sending" ELSE "run"]
      /\ panicked' = (full /\ k \in closed)
      /\ netMsg' = NoMsg
      /\ UNCHANGED <<oneNode, main, call, retry, req, signed, closed, replies,
                     quit>>

\* case <-cancel on the closed channel, and case <-self.cQuit.
CollectorStops(a) ==
  /\ ~panicked
  /\ coll[a] = "run"
  /\ a[1] \in closed \/ quit
  /\ coll' = [coll EXCEPT ![a] = "dead"]
  /\ UNCHANGED <<oneNode, main, call, retry, cnt, req, sigs, signed, closed,
                 netMsg, replies, quit, panicked>>

\* The requests go out; the validators in S are reached, accept the block
\* (OnRequestSign) and send their signature back.
Request(a) ==
  /\ ~panicked
  /\ req[a] = "request"
  /\ req' = [req EXCEPT ![a] = "dead"]
  /\ \E S \in SUBSET Validator :
       replies' = replies \cup {[v |-> v, h |-> <<a[1], FALSE>>] : v \in S}
  /\ UNCHANGED <<oneNode, main, call, retry, coll, cnt, sigs, signed, closed,
                 netMsg, quit, panicked>>

(***************************************************************************)
(* ------------------------- netsync and shutdown ------------------------ *)
(***************************************************************************)

\* HandleMessageBlockSig: netsync's only goroutine blocks until some collector
\* receives.  After Stop the channel is closed and the send panics.
Deliver(m) ==
  /\ ~panicked
  /\ netMsg = NoMsg
  /\ m \in replies
  /\ replies' = replies \ {m}
  /\ netMsg' = IF quit THEN NoMsg ELSE m
  /\ panicked' = quit
  /\ UNCHANGED <<oneNode, main, call, retry, coll, cnt, req, sigs, signed,
                 closed, quit>>

\* Engine.Stop: StopProducer closes cQuitProducer and cBlockSig, then cQuit.
Stop ==
  /\ ~panicked
  /\ ~quit
  /\ quit' = TRUE
  /\ panicked' = (netMsg # NoMsg)
  /\ UNCHANGED <<oneNode, main, call, retry, coll, cnt, req, sigs, signed,
                 closed, netMsg, replies>>

MainStep ==
  \/ Begin
  \/ \E a \in Attempts : AllSigReceived(a) \/ Retry(a) \/ GiveUp(a)
  \/ Timeout
  \/ SeeQuit
  \/ SignHeader
  \/ SignFails
  \/ Publish

CollectorStep(a) == Collect(a) \/ CollectorStops(a)

NetSyncStep == \E m \in SigMsg : Deliver(m)

Next ==
  \/ MainStep
  \/ \E a \in Attempts : CollectorStep(a) \/ Request(a)
  \/ NetSyncStep
  \/ Stop

Spec == Init /\ [][Next]_vars

\* Every goroutine keeps running, and a timer that was armed fires.
Fairness ==
  /\ WF_vars(MainStep)
  /\ WF_vars(NetSyncStep)
  /\ \A a \in Attempts : /\ WF_vars(CollectorStep(a))
                         /\ WF_vars(Request(a))

FairSpec == Spec /\ Fairness

(***************************************************************************)
(* ------------------------------ properties ----------------------------- *)
(***************************************************************************)
Live(a) == coll[a] \in {"run", "sending"}

Backers(k) == {v \in Validator : sigs[k][v] = <<k, FALSE>>}

\* A block past the select of Finalize carries the signatures of Quorum distinct
\* validators, each over this very block: none left over from an earlier attempt
\* or made over another block.
QuorumBacked ==
  main \in {"signing", "publishing"} /\ ~oneNode
    => Cardinality(Backers(call)) >= Quorum

\* The slots of one block are filled by one collector at a time: the rendezvous
\* on cancel ends the collector of an attempt before the next one starts.
OneCollector ==
  \A a, b \in Attempts : a[1] = b[1] /\ Live(a) /\ Live(b) => a = b

\* Once the producer has signed the header, no signature in it is overwritten or
\* cleared, and in the build with a committee none is added: what is published
\* is what was signed.  In the one-node build the requester releases Finalize
\* while the collector of the call still runs (engine.go:371): a late signature
\* still goes into an empty slot of the signed header (engine.go:352), and all
\* that is said of it is that it is one made over this block.
SignedHeaderStable ==
  [][\A k \in signed : \A v \in Validator :
       \/ sigs'[k][v] = sigs[k][v]
       \/ oneNode /\ sigs[k][v] = NoSig /\ sigs'[k][v] = <<k, FALSE>>]_vars

\* Without the one-node segment, no goroutine ever sends on the channels that a
\* returning Finalize closes; only Engine.Stop, which closes cBlockSig under
\* netsync, can still bring the process down.
NoPanic == panicked => oneNode \/ quit

\* In the one-node build a call of Finalize returns, unless the engine is
\* stopped or the process dies meanwhile.
OneNodeReturns ==
  oneNode /\ main = "waiting" ~> main = "loop" \/ quit \/ panicked

\* "blocksig wait time exceeded -> get a new committee list and retry": a
\* timeout below the limit is followed by another attempt or by a return.
TimeoutRetries ==
  main = "cancelRetry" ~> main # "cancelRetry" \/ quit \/ panicked

\* ValidateCommitteeSigs of a peer that receives the published block: the
\* signatures are verified over the hash of the block as received.
ValidCommitteeSigs(k) ==
  {v \in Validator : sigs[k][v] = <<k, k \in signed>>}

\* A block for which Finalize collected the signatures of the committee passes
\* the check of committee signatures of the validators it is sent to.
PeersAcceptSigs ==
  main = "publishing" /\ ~oneNode
    => Cardinality(ValidCommitteeSigs(call)) >= Quorum

(***************************************************************************)
(* The inductive invariant behind the four properties above: what the      *)
(* counter of a live collector counts, and where no collector is left.     *)
(***************************************************************************)
Filled(k) == {v \in Validator : sigs[k][v] # NoSig}

LiveIn(k) == \E a \in Attempts : a[1] = k /\ Live(a)

SlotsOfThisBlock ==
  \A k \in Calls : \A v \in Validator : sigs[k][v] \in {NoSig, <<k, FALSE>>}

CountsSlots ==
  \A a \in Attempts : Live(a) =>
    /\ cnt[a] = Cardinality(Filled(a[1]))
    /\ coll[a] = "run" => cnt[a] < Quorum
    /\ coll[a] = "sending" => cnt[a] = Quorum

NotYetStarted == \A k \in Calls : k > call => ~LiveIn(k)

SignedOrder ==
  \A k \in signed : k <= call /\ (k = call /\ main # "loop" => main = "publishing")

CollectorsGone ==
  ~oneNode =>
    /\ \A a \in Attempts : req[a] # "signal"
    /\ \A k \in closed \cup signed : ~LiveIn(k)
    /\ main \in {"signing", "publishing"} =>
         ~LiveIn(call) /\ Cardinality(Filled(call)) >= Quorum

FinalizeInv ==
  /\ SlotsOfThisBlock
  /\ CountsSlots
  /\ NotYetStarted
  /\ SignedOrder
  /\ OneCollector
  /\ CollectorsGone
  /\ NoPanic
=============================================================================
