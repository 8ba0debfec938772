--------------------------- MODULE FinalizeProofs ---------------------------
(***************************************************************************)
(* Proofs about Finalize: type correctness, one collector per block, the   *)
(* quorum behind a finalized block, no panic in the build without the      *)
(* one-node segment, and a signed header that nobody writes to any more.   *)
(***************************************************************************)
EXTENDS Finalize, FiniteSetTheorems, TLAPS

\* Inside Finalize there is a current call, and it has not returned.
InCall ==
  /\ main # "loop" => call \in Calls /\ call \notin closed
  /\ \A k \in closed : k <= call

TypeInv == TypeOK /\ InCall

\* Every step keeps every goroutine in a known state, the retry counter within
\* its limit and every slot a signature or empty.
LEMMA TypeInvariant == Spec => []TypeInv
<1> USE FinalizeAssumption DEF FinalizeAssumption
<1>1. Init => TypeInv
  <2> SUFFICES ASSUME Init PROVE TypeInv
    OBVIOUS
  <2>1. oneNode \in BOOLEAN /\ quit \in BOOLEAN /\ panicked \in BOOLEAN
    BY Zenon DEF Init
  <2>2. sigs \in [Calls -> [Validator -> Hashes \cup {NoSig}]]
    BY DEF Init
  <2> QED
    BY <2>1, <2>2 DEF Init, TypeInv, TypeOK, InCall, MainStates, CollStates,
                      ReqStates
<1>2. TypeInv /\ [Next]_vars => TypeInv'
  <2> SUFFICES ASSUME TypeInv, [Next]_vars PROVE TypeInv'
    OBVIOUS
  <2> USE DEF TypeInv, TypeOK, InCall, MainStates, CollStates, ReqStates
  <2>1. CASE Begin
    BY <2>1 DEF Begin, StartAttempt, Calls, Attempts
  <2>2. ASSUME NEW a \in Attempts, AllSigReceived(a) PROVE TypeInv'
    BY <2>2 DEF AllSigReceived
  <2>3. ASSUME NEW a \in Attempts, Retry(a) PROVE TypeInv'
    BY <2>3 DEF Retry, StartAttempt, Calls, Attempts
  <2>4. ASSUME NEW a \in Attempts, GiveUp(a) PROVE TypeInv'
    <3>1. panicked' \in BOOLEAN
      BY <2>4, Zenon DEF GiveUp, CloseChannels
    <3> QED
      BY <2>4, <3>1 DEF GiveUp, CloseChannels
  <2>5. CASE Timeout
    BY <2>5 DEF Timeout
  <2>6. CASE SeeQuit
    BY <2>6 DEF SeeQuit
  <2>7. CASE SignHeader
    BY <2>7 DEF SignHeader
  <2>8. CASE SignFails
    <3>1. panicked' \in BOOLEAN
      BY <2>8, Zenon DEF SignFails, CloseChannels
    <3> QED
      BY <2>8, <3>1 DEF SignFails, CloseChannels
  <2>9. CASE Publish
    <3>1. panicked' \in BOOLEAN
      BY <2>9, Zenon DEF Publish, CloseChannels
    <3> QED
      BY <2>9, <3>1 DEF Publish, CloseChannels
  <2>10. ASSUME NEW a \in Attempts, Collect(a) PROVE TypeInv'
    <3>1. panicked' \in BOOLEAN
      BY <2>10, Zenon DEF Collect
    <3>2. a[1] \in Calls
      BY DEF Attempts
    <3>3. netMsg \in SigMsg /\ netMsg.v \in Validator /\ netMsg.h \in Hashes
      BY <2>10 DEF Collect, SigMsg
    <3> QED
      BY <2>10, <3>1, <3>2, <3>3, SMTT(30) DEF Collect
  <2>11. ASSUME NEW a \in Attempts, CollectorStops(a) PROVE TypeInv'
    BY <2>11 DEF CollectorStops
  <2>12. ASSUME NEW a \in Attempts, Request(a) PROVE TypeInv'
    <3>1. <<a[1], FALSE>> \in Hashes
      BY DEF Attempts, Hashes
    <3>2. PICK S \in SUBSET Validator :
            replies' = replies \cup {[v |-> v, h |-> <<a[1], FALSE>>] : v \in S}
      BY <2>12 DEF Request
    <3>3. \A v \in S : [v |-> v, h |-> <<a[1], FALSE>>] \in SigMsg
      BY <3>1 DEF SigMsg
    <3>4. replies' \subseteq SigMsg
      BY <3>2, <3>3
    <3> QED
      BY <2>12, <3>4 DEF Request
  <2>13. ASSUME NEW m \in SigMsg, Deliver(m) PROVE TypeInv'
    BY <2>13 DEF Deliver
  <2>14. CASE Stop
    <3>1. panicked' \in BOOLEAN
      BY <2>14, Zenon DEF Stop
    <3> QED
      BY <2>14, <3>1 DEF Stop
  <2>15. CASE UNCHANGED vars
    BY <2>15 DEF vars
  <2> QED
    BY <2>1, <2>2, <2>3, <2>4, <2>5, <2>6, <2>7, <2>8, <2>9, <2>10, <2>11,
       <2>12, <2>13, <2>14, <2>15
       DEF Next, MainStep, CollectorStep, NetSyncStep
<1> QED
  BY <1>1, <1>2, PTL DEF Spec

\* Type correctness of the goroutines and channels of Engine.Finalize.
THEOREM TypeCorrect == Spec => []TypeOK
<1>1. TypeInv => TypeOK
  BY DEF TypeInv
<1> QED
  BY <1>1, TypeInvariant, PTL

-----------------------------------------------------------------------------
(***************************************************************************)
(* The invariant FinalizeInv is inductive relative to TypeInv.             *)
(***************************************************************************)

LEMMA FilledIsFinite ==
  ASSUME NEW k \in Calls
  PROVE  IsFiniteSet(Filled(k)) /\ Cardinality(Filled(k)) \in Nat
<1>1. Filled(k) \subseteq Validator
  BY DEF Filled
<1> QED
  BY <1>1, FS_Subset, FS_CardinalityType, FinalizeAssumption
     DEF FinalizeAssumption

\* An attempt is started on empty slots: <<k, r>> becomes the only collector of
\* block k, all others of k being dead by then.
LEMMA StartKeepsInv ==
  ASSUME TypeInv, TypeInv', FinalizeInv,
         NEW k \in Calls, NEW r \in 0..MaxRetry, StartAttempt(k, r),
         k \notin signed, k \notin closed, call' = k, k >= call,
         \A b \in Attempts : coll'[b] # coll[b] => b[1] = k,
         \A b \in Attempts : b[1] = k /\ Live(b)' => b = <<k, r>>,
         coll'[<<k, r>>] = "run",
         UNCHANGED <<oneNode, signed, closed, quit, panicked>>
  PROVE  FinalizeInv'
<1> USE FinalizeAssumption DEF FinalizeAssumption
<1>1. <<k, r>> \in Attempts
  BY DEF Attempts
<1>2. /\ \A j \in Calls : j # k => sigs'[j] = sigs[j]
      /\ \A v \in Validator : sigs'[k][v] = NoSig
  BY DEF StartAttempt, TypeInv, TypeOK
<1>3. \A j \in Calls : j # k => Filled(j)' = Filled(j)
  BY <1>2 DEF Filled
<1>4. Filled(k)' = {} /\ Cardinality(Filled(k)') = 0
  BY <1>2, FS_EmptySet DEF Filled
<1>5. /\ cnt'[<<k, r>>] = 0
      /\ \A b \in Attempts : b # <<k, r>> => cnt'[b] = cnt[b]
  BY <1>1 DEF StartAttempt, TypeInv, TypeOK
<1>6. \A b \in Attempts : b[1] # k => coll'[b] = coll[b] /\ (Live(b)' <=> Live(b))
  BY DEF Live
<1>7. \A b \in Attempts : b[1] \in Calls
  BY DEF Attempts
<1>8. SlotsOfThisBlock'
  BY <1>2 DEF SlotsOfThisBlock, FinalizeInv
<1>9. CountsSlots'
  <2> SUFFICES ASSUME NEW b \in Attempts, Live(b)'
               PROVE  /\ cnt'[b] = Cardinality(Filled(b[1])')
                      /\ coll'[b] = "run" => cnt'[b] < Quorum
                      /\ coll'[b] = "sending" => cnt'[b] = Quorum
    BY DEF CountsSlots
  <2>1. CASE b[1] = k
    <3>1. b = <<k, r>>
      BY <2>1
    <3> QED
      BY <2>1, <3>1, <1>4, <1>5
  <2>2. CASE b[1] # k
    <3>1. b # <<k, r>> /\ b[1] \in Calls /\ Live(b)
      BY <2>2, <1>6, <1>7
    <3> QED
      BY <2>2, <3>1, <1>3, <1>5, <1>6 DEF FinalizeInv, CountsSlots
  <2> QED
    BY <2>1, <2>2
<1>10. \A j \in Calls : j # k => (LiveIn(j)' <=> LiveIn(j))
  BY <1>6 DEF LiveIn
<1>11. NotYetStarted'
  BY <1>10 DEF NotYetStarted, FinalizeInv, TypeInv, TypeOK, Calls
<1>12. SignedOrder'
  BY DEF SignedOrder, FinalizeInv, TypeInv, TypeOK, Calls
<1>13. OneCollector'
  BY <1>6 DEF OneCollector, FinalizeInv
<1>14. CollectorsGone'
  <2> SUFFICES ASSUME ~oneNode
               PROVE  /\ \A a \in Attempts : req'[a] # "signal"
                      /\ \A j \in closed \cup signed : ~LiveIn(j)'
    BY DEF CollectorsGone, StartAttempt
  <2>1. \A a \in Attempts : req'[a] # "signal"
    BY <1>1 DEF StartAttempt, FinalizeInv, CollectorsGone, TypeInv, TypeOK
  <2>2. \A j \in closed \cup signed : j \in Calls /\ j # k
    BY DEF TypeInv, TypeOK
  <2> QED
    BY <2>1, <2>2, <1>10 DEF FinalizeInv, CollectorsGone
<1> QED
  BY <1>8, <1>9, <1>11, <1>12, <1>13, <1>14 DEF FinalizeInv, NoPanic

\* A step that writes no slot and starts no collector keeps the counting, and
\* leaves a block without a collector without one.
LEMMA NoWriteKeeps ==
  ASSUME TypeInv, FinalizeInv, UNCHANGED <<sigs, cnt, call>>,
         \A b \in Attempts : coll'[b] = coll[b] \/ coll'[b] = "dead"
  PROVE  /\ SlotsOfThisBlock' /\ CountsSlots' /\ NotYetStarted' /\ OneCollector'
         /\ \A k \in Calls : LiveIn(k)' => LiveIn(k)
         /\ \A k \in Calls : Filled(k)' = Filled(k)
<1>1. \A b \in Attempts : Live(b)' => Live(b) /\ coll'[b] = coll[b]
  BY DEF Live
<1>2. \A k \in Calls : Filled(k)' = Filled(k)
  BY DEF Filled
<1>3. \A k \in Calls : LiveIn(k)' => LiveIn(k)
  BY <1>1 DEF LiveIn
<1>4. SlotsOfThisBlock'
  BY DEF SlotsOfThisBlock, FinalizeInv
<1>5. CountsSlots'
  BY <1>1, <1>2 DEF CountsSlots, FinalizeInv, Attempts
<1>6. NotYetStarted'
  BY <1>3 DEF NotYetStarted, FinalizeInv
<1>7. OneCollector'
  BY <1>1 DEF OneCollector, FinalizeInv
<1> QED
  BY <1>2, <1>3, <1>4, <1>5, <1>6, <1>7

\* A collector that takes a signature fills one more slot of its own block, or
\* drops the signature.
LEMMA CollectKeeps ==
  ASSUME TypeInv, TypeInv', FinalizeInv, NEW a \in Attempts, Collect(a)
  PROVE  FinalizeInv'
<1> USE FinalizeAssumption DEF FinalizeAssumption
<1> DEFINE k == a[1]
           v == netMsg.v
<1>1. /\ k \in Calls /\ v \in Validator /\ netMsg \in SigMsg
      /\ coll[a] = "run" /\ Live(a) /\ LiveIn(k)
  BY DEF Collect, Attempts, TypeInv, TypeOK, SigMsg, Live, LiveIn
<1>2. UNCHANGED <<oneNode, main, call, retry, req, signed, closed, replies, quit>>
  BY DEF Collect
<1>3. /\ \A b \in Attempts : b # a => coll'[b] = coll[b]
      /\ coll'[a] \in {"run", "sending"}
  BY DEF Collect, TypeInv, TypeOK
<1>4. \A b \in Attempts : Live(b)' <=> Live(b)
  BY <1>1, <1>3 DEF Live
<1>5. \A j \in Calls : LiveIn(j)' <=> LiveIn(j)
  BY <1>4 DEF LiveIn
<1>6. \A b \in Attempts : b # a /\ Live(b) => b[1] # k /\ b[1] \in Calls
  BY <1>1 DEF FinalizeInv, OneCollector, Attempts
<1>7. ~oneNode => k \notin closed /\ k \notin signed
                  /\ (main \in {"signing", "publishing"} => k # call)
  BY <1>1 DEF FinalizeInv, CollectorsGone
<1>8. SlotsOfThisBlock' /\ CountsSlots' /\ (\A j \in Calls : j # k => Filled(j)' = Filled(j))
  <2>1. CASE Accepts(k, netMsg)
    <3>1. /\ \A j \in Calls : j # k => sigs'[j] = sigs[j]
          /\ \A w \in Validator : w # v => sigs'[k][w] = sigs[k][w]
          /\ sigs'[k][v] = <<k, FALSE>> /\ sigs[k][v] = NoSig
      <4>1. sigs[k][v] = NoSig /\ netMsg.h = <<k, FALSE>>
        BY <2>1 DEF Accepts
      <4>2. sigs' = [sigs EXCEPT ![k][v] = netMsg.h]
        BY <2>1 DEF Collect
      <4>3. /\ k \in DOMAIN sigs /\ v \in DOMAIN sigs[k]
            /\ DOMAIN sigs[k] = Validator /\ DOMAIN sigs = Calls
        BY <1>1 DEF TypeInv, TypeOK
      <4> HIDE DEF k, v
      <4> QED
        BY <4>1, <4>2, <4>3
    <3>2. \A j \in Calls : j # k => Filled(j)' = Filled(j)
      BY <3>1 DEF Filled
    <3>3. <<k, FALSE>> # NoSig
      BY <1>1 DEF NoSig, Calls
    <3>4. Filled(k)' = Filled(k) \cup {v} /\ v \notin Filled(k)
      <4> HIDE DEF k, v
      <4> QED
        BY <3>1, <3>3, <1>1 DEF Filled
    <3>5. Cardinality(Filled(k)') = Cardinality(Filled(k)) + 1
      BY <3>4, <1>1, FilledIsFinite, FS_AddElement
    <3>6. cnt[a] = Cardinality(Filled(k)) /\ cnt[a] < Quorum /\ cnt[a] \in Nat
      BY <1>1 DEF FinalizeInv, CountsSlots, TypeInv, TypeOK
    <3>7. /\ cnt'[a] = cnt[a] + 1
          /\ \A b \in Attempts : b # a => cnt'[b] = cnt[b]
          /\ coll'[a] = IF cnt[a] + 1 = Quorum THEN "sending" ELSE "run"
      BY <2>1 DEF Collect, TypeInv, TypeOK
    <3>8. SlotsOfThisBlock'
      BY <3>1 DEF SlotsOfThisBlock, FinalizeInv
    <3>9. CountsSlots'
      <4> SUFFICES ASSUME NEW b \in Attempts, Live(b)'
                   PROVE  /\ cnt'[b] = Cardinality(Filled(b[1])')
                          /\ coll'[b] = "run" => cnt'[b] < Quorum
                          /\ coll'[b] = "sending" => cnt'[b] = Quorum
        BY DEF CountsSlots
      <4>1. CASE b = a
        BY <4>1, <3>5, <3>6, <3>7
      <4>2. CASE b # a
        BY <4>2, <1>3, <1>4, <1>6, <3>2, <3>7 DEF FinalizeInv, CountsSlots
      <4> QED
        BY <4>1, <4>2
    <3> QED
      BY <3>2, <3>8, <3>9
  <2>2. CASE ~Accepts(k, netMsg)
    <3>1. UNCHANGED <<sigs, cnt>> /\ coll'[a] = "run"
      BY <2>2 DEF Collect, TypeInv, TypeOK
    <3>2. \A j \in Calls : Filled(j)' = Filled(j)
      BY <3>1 DEF Filled
    <3>3. \A b \in Attempts : coll'[b] = coll[b] /\ b[1] \in Calls
      BY <3>1, <1>1, <1>3 DEF Attempts
    <3> QED
      BY <3>1, <3>2, <3>3 DEF SlotsOfThisBlock, CountsSlots, FinalizeInv, Live
  <2> QED
    BY <2>1, <2>2
<1>9. NotYetStarted' /\ SignedOrder' /\ OneCollector'
  BY <1>2, <1>4, <1>5 DEF NotYetStarted, SignedOrder, OneCollector, FinalizeInv
<1>10. CollectorsGone'
  <2> SUFFICES ASSUME ~oneNode
               PROVE  /\ \A b \in Attempts : req[b] # "signal"
                      /\ \A j \in closed \cup signed : ~LiveIn(j)'
                      /\ main \in {"signing", "publishing"} =>
                           ~LiveIn(call)' /\ Cardinality(Filled(call)') >= Quorum
    BY <1>2 DEF CollectorsGone
  <2>1. \A j \in closed \cup signed : ~LiveIn(j)'
    BY <1>5 DEF FinalizeInv, CollectorsGone, TypeInv, TypeOK
  <2>2. ASSUME main \in {"signing", "publishing"}
        PROVE  ~LiveIn(call)' /\ Cardinality(Filled(call)') >= Quorum
    <3>1. call \in Calls /\ call' = call /\ k # call
      BY <2>2, <1>2, <1>7 DEF TypeInv, InCall
    <3>2. Filled(call)' = Filled(call)
      BY <3>1, <1>8 DEF Filled
    <3>3. ~LiveIn(call)'
      BY <2>2, <3>1, <1>5 DEF FinalizeInv, CollectorsGone, LiveIn
    <3> QED
      BY <2>2, <3>2, <3>3 DEF FinalizeInv, CollectorsGone
  <2> QED
    BY <2>1, <2>2 DEF FinalizeInv, CollectorsGone
<1>11. NoPanic'
  <2>1. panicked' => k \in closed
    BY Zenon DEF Collect
  <2> QED
    BY <1>2, <1>7, <2>1 DEF NoPanic
<1> QED
  BY <1>8, <1>9, <1>10, <1>11 DEF FinalizeInv

\* Finalize returns with no collector left that could still send: closing the
\* channels is harmless.
LEMMA CloseKeeps ==
  ASSUME TypeInv, FinalizeInv, call \in Calls, CloseChannels(call),
         UNCHANGED <<oneNode, call, cnt, req, sigs, signed, quit>>,
         \A b \in Attempts : coll'[b] = coll[b] \/ coll'[b] = "dead",
         ~oneNode => ~LiveIn(call)',
         ~oneNode => \A b \in Attempts : b[1] = call => coll[b] # "sending"
  PROVE  FinalizeInv'
<1>1. /\ SlotsOfThisBlock' /\ CountsSlots' /\ NotYetStarted' /\ OneCollector'
      /\ \A k \in Calls : LiveIn(k)' => LiveIn(k)
  BY NoWriteKeeps
<1>2. SignedOrder'
  BY DEF SignedOrder, FinalizeInv, CloseChannels
<1>3. CollectorsGone'
  <2>1. \A k \in closed' \cup signed' : k \in Calls /\ (k = call \/ k \in closed \cup signed)
    BY DEF CloseChannels, TypeInv, TypeOK
  <2> QED
    BY <1>1, <2>1 DEF CollectorsGone, FinalizeInv, CloseChannels
<1>4. NoPanic'
  <2>1. panicked' => \E b \in Attempts : b[1] = call /\ Sending(b)
    BY Zenon DEF CloseChannels
  <2>2. ~oneNode => \A b \in Attempts : b[1] = call => ~Sending(b)
    BY DEF Sending, FinalizeInv, CollectorsGone
  <2> QED
    BY <2>1, <2>2 DEF NoPanic
<1> QED
  BY <1>1, <1>2, <1>3, <1>4 DEF FinalizeInv

\* Killing the one live collector of a block leaves the block without any.
LEMMA LastCollector ==
  ASSUME FinalizeInv, NEW a \in Attempts, Live(a), coll'[a] = "dead",
         \A b \in Attempts : b # a => coll'[b] = coll[b]
  PROVE  ~LiveIn(a[1])'
BY DEF FinalizeInv, OneCollector, LiveIn, Live

\* The whole step: one case for each action.
LEMMA StepKeepsInv ==
  ASSUME TypeInv, TypeInv', FinalizeInv, [Next]_vars
  PROVE  FinalizeInv'
<1> USE FinalizeAssumption DEF FinalizeAssumption
<1>a. /\ call \in 0..MaxCalls /\ signed \subseteq Calls /\ closed \subseteq Calls
      /\ coll \in [Attempts -> CollStates] /\ req \in [Attempts -> ReqStates]
      /\ main # "loop" => call \in Calls /\ call \notin closed
  BY DEF TypeInv, TypeOK, InCall
<1>1. CASE Begin
  <2> DEFINE k == call + 1
  <2>1. k \in Calls /\ 0 \in 0..MaxRetry
    BY <1>1, <1>a DEF Begin, Calls
  <2>2. k \notin signed /\ k \notin closed
    BY <1>a DEF FinalizeInv, SignedOrder, TypeInv, InCall, Calls
  <2>3. <<k, 0>> \in Attempts
    BY <2>1 DEF Attempts
  <2>4. coll' = [coll EXCEPT ![<<k, 0>>] = "run"]
    BY <1>1 DEF Begin
  <2>5. ~LiveIn(k)
    BY <2>1, <1>a DEF FinalizeInv, NotYetStarted, Calls
  <2>6. /\ \A b \in Attempts : coll'[b] # coll[b] => b[1] = k
        /\ coll'[<<k, 0>>] = "run"
        /\ \A b \in Attempts : b[1] = k /\ Live(b)' => b = <<k, 0>>
    BY <2>3, <2>4, <2>5, <1>a DEF LiveIn, Live
  <2>7. StartAttempt(k, 0) /\ call' = k /\ k >= call
    BY <1>1, <1>a DEF Begin
  <2>8. UNCHANGED <<oneNode, signed, closed, quit, panicked>>
    BY <1>1 DEF Begin
  <2> HIDE DEF k
  <2> QED
    BY <2>1, <2>2, <2>6, <2>7, <2>8, StartKeepsInv
<1>2. ASSUME NEW a \in Attempts, AllSigReceived(a) PROVE FinalizeInv'
  <2>1. /\ main = "waiting" /\ main' = "signing" /\ a[1] = call /\ call \in Calls
        /\ UNCHANGED <<oneNode, call, cnt, sigs, signed, closed, quit, panicked>>
    BY <1>2, <1>a DEF AllSigReceived
  <2>2. \A b \in Attempts : coll'[b] = coll[b] \/ coll'[b] = "dead"
    BY <1>2, <1>a DEF AllSigReceived
  <2>3. /\ SlotsOfThisBlock' /\ CountsSlots' /\ NotYetStarted' /\ OneCollector'
        /\ \A k \in Calls : LiveIn(k)' => LiveIn(k)
        /\ Filled(call)' = Filled(call)
    BY <2>1, <2>2, NoWriteKeeps DEF Filled
  <2>4. SignedOrder'
    BY <2>1 DEF SignedOrder, FinalizeInv
  <2>5. CollectorsGone'
    <3> SUFFICES ASSUME ~oneNode
                 PROVE  /\ \A b \in Attempts : req'[b] # "signal"
                        /\ \A k \in closed \cup signed : ~LiveIn(k)'
                        /\ ~LiveIn(call)' /\ Cardinality(Filled(call)') >= Quorum
      BY <2>1 DEF CollectorsGone, LiveIn, Filled
    <3>1. req' = req /\ coll[a] = "sending" /\ coll' = [coll EXCEPT ![a] = "dead"]
      BY <1>2 DEF AllSigReceived, FinalizeInv, CollectorsGone
    <3>2. Live(a) /\ coll'[a] = "dead" /\ \A b \in Attempts : b # a => coll'[b] = coll[b]
      BY <3>1, <1>a DEF Live
    <3>3. ~LiveIn(call)'
      BY <3>2, <2>1, LastCollector DEF LiveIn
    <3>4. Cardinality(Filled(call)) = Quorum
      BY <3>1, <3>2, <2>1 DEF FinalizeInv, CountsSlots
    <3>5. Cardinality(Filled(call)') >= Quorum
      BY <3>4, <2>3
    <3> QED
      BY <3>1, <3>3, <3>5, <2>3, <1>a DEF FinalizeInv, CollectorsGone
  <2> QED
    BY <2>1, <2>3, <2>4, <2>5 DEF FinalizeInv, NoPanic
<1>3. ASSUME NEW a \in Attempts, Retry(a) PROVE FinalizeInv'
  <2>1. /\ main = "cancelRetry" /\ a[1] = call /\ call \in Calls /\ coll[a] = "run"
        /\ coll' = [coll EXCEPT ![a] = "dead", ![<<call, retry>>] = "run"]
        /\ call \notin closed /\ Live(a)
    BY <1>3, <1>a DEF Retry, Live
  <2>2. retry \in 0..MaxRetry /\ <<call, retry>> \in Attempts
    BY <2>1 DEF Attempts, TypeInv, TypeOK
  <2>3. call \notin signed
    BY <2>1 DEF FinalizeInv, SignedOrder
  <2>4. /\ \A b \in Attempts : coll'[b] # coll[b] => b[1] = call
        /\ coll'[<<call, retry>>] = "run"
    BY <2>1, <2>2, <1>a
  <2>5. \A b \in Attempts : b[1] = call /\ Live(b)' => b = <<call, retry>>
    <3> SUFFICES ASSUME NEW b \in Attempts, b[1] = call, b # <<call, retry>>
                 PROVE  ~Live(b)'
      OBVIOUS
    <3>1. CASE b = a
      BY <3>1, <2>1, <2>2, <1>a DEF Live
    <3>2. CASE b # a
      BY <3>2, <2>1, <2>2, <1>a DEF Live, FinalizeInv, OneCollector
    <3> QED
      BY <3>1, <3>2
  <2>6. StartAttempt(call, retry) /\ call' = call /\ call >= call
    BY <1>3, <1>a DEF Retry
  <2>7. UNCHANGED <<oneNode, signed, closed, quit, panicked>>
    BY <1>3 DEF Retry
  <2>8. PICK k \in Calls, r \in 0..MaxRetry : k = call /\ r = retry
    BY <2>1, <2>2
  <2> QED
    BY <2>1, <2>3, <2>4, <2>5, <2>6, <2>7, <2>8, StartKeepsInv, ZenonT(60)
<1>4. ASSUME NEW a \in Attempts, GiveUp(a) PROVE FinalizeInv'
  <2>1. /\ a[1] = call /\ call \in Calls /\ coll[a] = "run" /\ Live(a)
        /\ coll' = [coll EXCEPT ![a] = "dead"] /\ CloseChannels(call)
        /\ UNCHANGED <<oneNode, call, cnt, req, sigs, signed, quit>>
    BY <1>4, <1>a DEF GiveUp, Live
  <2>2. /\ coll'[a] = "dead"
        /\ \A b \in Attempts : b # a => coll'[b] = coll[b]
    BY <2>1, <1>a
  <2>3. ~LiveIn(call)'
    BY <2>1, <2>2, LastCollector DEF LiveIn
  <2>4. \A b \in Attempts : b[1] = call => coll[b] # "sending"
    BY <2>1 DEF FinalizeInv, OneCollector, Live
  <2>5. \A b \in Attempts : coll'[b] = coll[b] \/ coll'[b] = "dead"
    BY <2>2
  <2> QED
    BY <2>1, <2>3, <2>4, <2>5, CloseKeeps
<1>5. CASE Timeout \/ SeeQuit
  <2>1. /\ main = "waiting" /\ main' \in {"cancelFail", "cancelRetry", "cancelQuit"}
        /\ UNCHANGED <<oneNode, call, coll, cnt, req, sigs, signed, closed, quit, panicked>>
    BY <1>5 DEF Timeout, SeeQuit
  <2> QED
    BY <2>1, NoWriteKeeps, <1>a
       DEF FinalizeInv, SignedOrder, CollectorsGone, NoPanic
<1>6. CASE SignHeader
  <2>1. /\ main = "signing" /\ main' = "publishing" /\ call \in Calls
        /\ signed' = signed \cup {call}
        /\ UNCHANGED <<oneNode, call, coll, cnt, req, sigs, closed, quit, panicked>>
    BY <1>6, <1>a DEF SignHeader
  <2>2. /\ SlotsOfThisBlock' /\ CountsSlots' /\ NotYetStarted' /\ OneCollector'
        /\ \A k \in Calls : LiveIn(k)' => LiveIn(k)
        /\ Filled(call)' = Filled(call) /\ (LiveIn(call)' => LiveIn(call))
    BY <2>1, NoWriteKeeps DEF Filled, LiveIn, Live
  <2>3. SignedOrder'
    BY <2>1, <1>a DEF FinalizeInv, SignedOrder, Calls
  <2>4. CollectorsGone'
    BY <2>1, <2>2, <1>a DEF FinalizeInv, CollectorsGone
  <2> QED
    BY <2>1, <2>2, <2>3, <2>4 DEF FinalizeInv, NoPanic
<1>7. CASE SignFails \/ Publish
  <2>1. /\ main \in {"signing", "publishing"} /\ call \in Calls /\ CloseChannels(call)
        /\ UNCHANGED <<oneNode, call, coll, cnt, req, sigs, signed, quit>>
    BY <1>7, <1>a DEF SignFails, Publish
  <2>2. ~oneNode => ~LiveIn(call)
    BY <2>1 DEF FinalizeInv, CollectorsGone
  <2>3. ~oneNode => ~LiveIn(call)'
    BY <2>1, <2>2 DEF LiveIn, Live
  <2>4. ~oneNode => \A b \in Attempts : b[1] = call => coll[b] # "sending"
    BY <2>2 DEF LiveIn, Live
  <2>5. \A b \in Attempts : coll'[b] = coll[b] \/ coll'[b] = "dead"
    BY <2>1
  <2> QED
    BY <2>1, <2>3, <2>4, <2>5, CloseKeeps
<1>8. ASSUME NEW a \in Attempts, CollectorStops(a) PROVE FinalizeInv'
  <2>1. UNCHANGED <<oneNode, main, call, cnt, req, sigs, signed, closed, quit, panicked>>
    BY <1>8 DEF CollectorStops
  <2>2. \A b \in Attempts : coll'[b] = coll[b] \/ coll'[b] = "dead"
    BY <1>8, <1>a DEF CollectorStops
  <2>3. /\ SlotsOfThisBlock' /\ CountsSlots' /\ NotYetStarted' /\ OneCollector'
        /\ \A k \in Calls : LiveIn(k)' => LiveIn(k)
        /\ \A k \in Calls : Filled(k)' = Filled(k)
    BY <2>1, <2>2, NoWriteKeeps
  <2>4. main \in {"signing", "publishing"} =>
          (LiveIn(call)' => LiveIn(call)) /\ Filled(call)' = Filled(call)
    BY <2>1, <2>3, <1>a DEF LiveIn, Filled
  <2>5. CollectorsGone'
    BY <2>1, <2>3, <2>4, <1>a DEF FinalizeInv, CollectorsGone
  <2> QED
    BY <2>1, <2>3, <2>5 DEF FinalizeInv, SignedOrder, NoPanic
<1>9. ASSUME NEW a \in Attempts, Request(a) PROVE FinalizeInv'
  <2>1. UNCHANGED <<oneNode, main, call, coll, cnt, sigs, signed, closed, quit, panicked>>
    BY <1>9 DEF Request
  <2>2. \A b \in Attempts : req'[b] = "signal" => req[b] = "signal"
    BY <1>9, <1>a DEF Request
  <2> QED
    BY <2>1, <2>2 DEF FinalizeInv, SlotsOfThisBlock, CountsSlots, NotYetStarted,
       SignedOrder, OneCollector, CollectorsGone, NoPanic, LiveIn, Live, Filled
<1>10. ASSUME NEW m \in SigMsg, Deliver(m) PROVE FinalizeInv'
  <2>1. /\ UNCHANGED <<oneNode, main, call, coll, cnt, req, sigs, signed, closed, quit>>
        /\ panicked' = quit
    BY <1>10 DEF Deliver
  <2> QED
    BY <2>1 DEF FinalizeInv, SlotsOfThisBlock, CountsSlots, NotYetStarted,
       SignedOrder, OneCollector, CollectorsGone, NoPanic, LiveIn, Live, Filled
<1>11. CASE Stop
  <2>1. /\ UNCHANGED <<oneNode, main, call, coll, cnt, req, sigs, signed, closed>>
        /\ quit'
    BY <1>11 DEF Stop
  <2> QED
    BY <2>1 DEF FinalizeInv, SlotsOfThisBlock, CountsSlots, NotYetStarted,
       SignedOrder, OneCollector, CollectorsGone, NoPanic, LiveIn, Live, Filled
<1>12. CASE UNCHANGED vars
  BY <1>12 DEF vars, FinalizeInv, SlotsOfThisBlock, CountsSlots, NotYetStarted,
     SignedOrder, OneCollector, CollectorsGone, NoPanic, LiveIn, Live, Filled
<1>13. ASSUME NEW a \in Attempts, Collect(a) PROVE FinalizeInv'
  BY <1>13, CollectKeeps
<1> QED
  BY <1>1, <1>2, <1>3, <1>4, <1>5, <1>6, <1>7, <1>8, <1>9, <1>10, <1>11, <1>12,
     <1>13 DEF Next, MainStep, CollectorStep, NetSyncStep

LEMMA InvHolds == Spec => [](TypeInv /\ FinalizeInv)
<1>1. Init => FinalizeInv
  <2> SUFFICES ASSUME Init PROVE FinalizeInv
    OBVIOUS
  <2>1. \A a \in Attempts : coll[a] = "none" /\ req[a] = "none" /\ ~Live(a)
    BY DEF Init, Live
  <2>2. \A k \in Calls : \A v \in Validator : sigs[k][v] = NoSig
    BY DEF Init
  <2>3. signed = {} /\ closed = {} /\ main = "loop" /\ ~panicked
    BY DEF Init
  <2> QED
    BY <2>1, <2>2, <2>3 DEF FinalizeInv, SlotsOfThisBlock, CountsSlots,
       NotYetStarted, SignedOrder, OneCollector, CollectorsGone, NoPanic, LiveIn
<1>2. TypeInv /\ TypeInv' /\ FinalizeInv /\ [Next]_vars => FinalizeInv'
  BY StepKeepsInv
<1> QED
  BY <1>1, <1>2, TypeInvariant, PTL DEF Spec

-----------------------------------------------------------------------------
\* The rendezvous on cancel hands the slots of a block from one collector to the
\* next: Finalize never has two collectors writing BlockCommitteeSigs.
THEOREM SingleCollector == Spec => []OneCollector
<1>1. TypeInv /\ FinalizeInv => OneCollector
  BY DEF FinalizeInv
<1> QED
  BY <1>1, InvHolds, PTL

\* Whatever the validators answer and however attempts overlap, Finalize leaves
\* its select with Quorum signatures of distinct validators over this block.
THEOREM FinalizedIsBacked == Spec => []QuorumBacked
<1>1. TypeInv /\ FinalizeInv => QuorumBacked
  <2> SUFFICES ASSUME TypeInv, FinalizeInv, main \in {"signing", "publishing"}, ~oneNode
               PROVE  Cardinality(Backers(call)) >= Quorum
    BY DEF QuorumBacked
  <2>1. call \in Calls
    BY DEF TypeInv, InCall
  <2>2. <<call, FALSE>> # NoSig
    BY <2>1 DEF Calls, NoSig
  <2>3. Backers(call) = Filled(call)
    BY <2>1, <2>2 DEF Backers, Filled, FinalizeInv, SlotsOfThisBlock
  <2> QED
    BY <2>3 DEF FinalizeInv, CollectorsGone
<1> QED
  BY <1>1, InvHolds, PTL

\* Without the one-node segment no goroutine of Finalize sends on a channel that
\* a returning Finalize has closed.
THEOREM NoSendOnClosed == Spec => []NoPanic
<1>1. TypeInv /\ FinalizeInv => NoPanic
  BY DEF FinalizeInv
<1> QED
  BY <1>1, InvHolds, PTL

\* The slots that BlockProducerSig was made over are never written again in the
\* build with a committee.  In the one-node build, that of the repository, empty
\* ones still take signatures over the same block.
THEOREM SignedIsStable == Spec => SignedHeaderStable
<1>1. TypeInv /\ FinalizeInv /\ [Next]_vars
        => [\A k \in signed : \A v \in Validator :
              \/ sigs'[k][v] = sigs[k][v]
              \/ oneNode /\ sigs[k][v] = NoSig /\ sigs'[k][v] = <<k, FALSE>>]_vars
  <2> SUFFICES ASSUME TypeInv, FinalizeInv, Next, NEW k \in signed, NEW v \in Validator
               PROVE  \/ sigs'[k][v] = sigs[k][v]
                      \/ oneNode /\ sigs[k][v] = NoSig /\ sigs'[k][v] = <<k, FALSE>>
    OBVIOUS
  <2>a. k \in Calls /\ sigs \in [Calls -> [Validator -> Hashes \cup {NoSig}]]
    BY DEF TypeInv, TypeOK
  <2>1. CASE Begin
    <3>1. k <= call /\ k \in Nat /\ call \in Nat
      BY <2>a, FinalizeAssumption DEF FinalizeInv, SignedOrder, Calls, TypeInv, TypeOK
    <3>2. sigs' = [sigs EXCEPT ![call + 1] = [u \in Validator |-> NoSig]]
      BY <2>1 DEF Begin, StartAttempt
    <3>3. k # call + 1
      BY <3>1
    <3>4. sigs'[k] = sigs[k]
      BY <2>a, <3>2, <3>3, Zenon
    <3> QED
      BY <3>4
  <2>2. ASSUME NEW a \in Attempts, Retry(a) PROVE sigs'[k] = sigs[k]
    BY <2>2, <2>a DEF Retry, StartAttempt, FinalizeInv, SignedOrder
  <2>3. ASSUME NEW a \in Attempts, Collect(a)
        PROVE  \/ sigs'[k][v] = sigs[k][v]
               \/ oneNode /\ sigs[k][v] = NoSig /\ sigs'[k][v] = <<k, FALSE>>
    <3>1. ~oneNode => a[1] # k
      BY <2>3 DEF Collect, FinalizeInv, CollectorsGone, LiveIn, Live
    <3>2. a[1] \in Calls
      BY DEF Attempts
    <3>3. CASE a[1] = k /\ netMsg.v = v /\ Accepts(k, netMsg)
      <4>1. sigs[k][v] = NoSig /\ netMsg.h = <<k, FALSE>>
        BY <3>3 DEF Accepts
      <4>2. sigs' = [sigs EXCEPT ![k][v] = netMsg.h]
        BY <2>3, <3>3 DEF Collect
      <4> QED
        BY <2>a, <3>1, <3>3, <4>1, <4>2
    <3>4. CASE ~Accepts(a[1], netMsg)
      BY <2>3, <3>4 DEF Collect
    <3>5. CASE Accepts(a[1], netMsg) /\ (a[1] # k \/ netMsg.v # v)
      <4>1. sigs' = [sigs EXCEPT ![a[1]][netMsg.v] = netMsg.h]
        BY <2>3, <3>5 DEF Collect
      <4> QED
        BY <2>a, <3>2, <3>5, <4>1
    <3> QED
      BY <3>3, <3>4, <3>5
  <2>4. CASE UNCHANGED sigs
    BY <2>4
  <2> QED
    BY <2>1, <2>2, <2>3, <2>4
       DEF Next, MainStep, CollectorStep, NetSyncStep, AllSigReceived, GiveUp,
           Timeout, SeeQuit, SignHeader, SignFails, Publish, CollectorStops,
           Request, Deliver, Stop
<1> QED
  BY <1>1, InvHolds, PTL DEF Spec, SignedHeaderStable
=============================================================================
