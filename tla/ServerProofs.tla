---------------------------- MODULE ServerProofs ----------------------------
(***************************************************************************)
(* Proofs about the server of one node.  NodeLoop, its goroutines: types,  *)
(* the committee watcher's channel, and the deadlock of netsync and        *)
(* producer.  Handshake, its versions on a connection: one at a time,      *)
(* whatever room there is for messages, so there is room for the greeting. *)
(***************************************************************************)
EXTENDS NodeLoop, Handshake, TLAPS

(***************************************************************************)
(* ------------------------------ NodeLoop ------------------------------- *)
(***************************************************************************)
USE DEF engine, watcher, process, queues, peers

\* A node has the types of its variables in every state: heights stay in
\* range although blocks and chain states come in any order, and the counters
\* of waiting goroutines within their bounds.
THEOREM TypeCorrect == Spec => []TypeOK
<1>1. Init => TypeOK
  <2> SUFFICES ASSUME Init PROVE TypeOK
    OBVIOUS
  <2>1. /\ [c \in Chain |-> 1] \in [Chain -> Heights]
        /\ [c \in Chain |-> 0] \in [Chain -> {0} \cup Heights]
    BY NodeLoopAssumption DEF Heights
  <2>2. /\ up \in BOOLEAN /\ collector \in BOOLEAN /\ oldCollector \in BOOLEAN
        /\ flag \in BOOLEAN /\ quitClosed \in BOOLEAN /\ panicked \in BOOLEAN
    BY Zenon DEF Init
  <2> QED
    BY <2>1, <2>2, NodeLoopAssumption DEF Init, TypeOK
<1>2. TypeOK /\ [Next]_vars => TypeOK'
  <2> SUFFICES ASSUME TypeOK, [Next]_vars PROVE TypeOK'
    OBVIOUS
  <2> USE NodeLoopAssumption DEF TypeOK, Heights, Block
  <2>1. CASE ProducerNext
    <3>1. CASE Turn
      BY <3>1 DEF Turn
    <3>2. CASE CreateFails \/ Finalize \/ Finalized
      <4>1. /\ collector' \in BOOLEAN /\ oldCollector' \in BOOLEAN
            /\ producer' \in {"gate", "create", "wait"}
        BY <3>2, Zenon DEF CreateFails, Finalize, Finalized
      <4>2. replies' \in 0..MaxSigs
        BY <3>2 DEF CreateFails, Finalize, Finalized
      <4> QED
        BY <4>1, <4>2, <3>2 DEF CreateFails, Finalize, Finalized
    <3>3. CASE AskForBlocks
      <4>1. asked' \in [Chain -> {0} \cup Heights]
        BY <3>3 DEF AskForBlocks, AskedFrom
      <4>2. /\ up' \in BOOLEAN /\ panicked' \in BOOLEAN
            /\ flag' \in BOOLEAN /\ quitClosed' \in BOOLEAN
        BY <3>3, Zenon DEF AskForBlocks, ClearedFlag
      <4> QED
        BY <4>1, <4>2, <3>3 DEF AskForBlocks
    <3> QED
      BY <2>1, <3>1, <3>2, <3>3 DEF ProducerNext
  <2>2. CASE OldCollectorEnds
    BY <2>2 DEF OldCollectorEnds
  <2>3. CASE WatcherNext
    BY <2>3 DEF WatcherNext, StartCommitteeWatcher
  <2>4. ASSUME NEW c \in Chain, NEW h \in 2..MaxHeight, HandleBlock(c, h)
        PROVE  TypeOK'
    <3>1. validated' \in [Chain -> Heights] /\ known' \in [Chain -> Heights]
      BY <2>4 DEF HandleBlock, UpdateChain
    <3> QED
      BY <3>1, <2>4 DEF HandleBlock, UpdateChain
  <2>5. ASSUME NEW s \in states, HandleChainState(s)
        PROVE  TypeOK'
    BY <2>5 DEF HandleChainState, AskedFrom
  <2>6. CASE HandleBlockSig \/ CollectSig \/ HandleRequest \/ Pushed \/ StreamLost
    BY <2>6 DEF HandleBlockSig, CollectSig, HandleRequest, Pushed, StreamLost
  <2>7. ASSUME NEW c \in Chain, PeerProduces(c)
        PROVE  TypeOK'
    <3>1. <<c, top[c] + 1>> \in Block /\ top' \in [Chain -> Heights]
      BY <2>7 DEF PeerProduces
    <3> QED
      BY <3>1, <2>7 DEF PeerProduces
  <2>8. ASSUME NEW c \in Chain, PeerServes(c)
        PROVE  TypeOK'
    <3>1. {c} \X (asked[c] + 1 .. top[c]) \subseteq Block
      BY <2>8 DEF PeerServes
    <3> QED
      BY <3>1, <2>8 DEF PeerServes
  <2>9. CASE PeerReports
    <3>1. states' \subseteq [Chain -> Heights]
      BY <2>9 DEF PeerReports
    <3> QED
      BY <3>1, <2>9 DEF PeerReports
  <2>12. CASE PeerSigns
    BY <2>12 DEF PeerSigns
  <2>10. CASE Kill \/ Restart
    <3>1. /\ up' \in BOOLEAN /\ collector' \in BOOLEAN /\ oldCollector' \in BOOLEAN
          /\ flag' \in BOOLEAN /\ quitClosed' \in BOOLEAN /\ panicked' \in BOOLEAN
      BY <2>10, Zenon DEF Kill, Restart, Fresh
    <3>2. asked' \in [Chain -> {0} \cup Heights]
      BY <2>10 DEF Kill, Restart, Fresh
    <3> QED
      BY <3>1, <3>2, <2>10 DEF Kill, Restart, Fresh
  <2>11. CASE UNCHANGED vars
    BY <2>11 DEF vars
  <2> QED
    BY <2>1, <2>2, <2>3, <2>4, <2>5, <2>6, <2>7, <2>8, <2>9, <2>10, <2>11,
       <2>12
    DEF Next, NetsyncNext, PeersNext
<1> QED
  BY <1>1, <1>2, PTL DEF Spec

\* What the watcher's variables are before and after any step of the others.
LEMMA OthersLeaveWatcher ==
  ASSUME Next
  PROVE  \/ Turn \/ WatcherNext \/ AskForBlocks \/ Kill \/ Restart
         \/ UNCHANGED <<flag, starting, quitClosed, panicked, turns>>
BY DEF Next, ProducerNext, CreateFails, Finalize, Finalized, OldCollectorEnds,
   NetsyncNext, HandleBlock, UpdateChain, HandleChainState, HandleBlockSig, CollectSig,
   HandleRequest, Pushed, StreamLost, PeersNext, PeerProduces, PeerServes,
   PeerReports, PeerSigns

\* The committee watcher's channel is closed a second time, which ends the
\* process, only after two turns of the producer loop (StartProducer,
\* StartCommitteeWatcher, StopCommitteeWatcher), however late the goroutines
\* run that start the watcher.
THEOREM PanicTakesTwoTurns == Spec => []PanicNeedsTwoTurns
<1>1. Init => WatcherInv
  BY DEF Init, WatcherInv, Num
<1>2. TypeOK /\ WatcherInv /\ [Next]_vars => WatcherInv'
  <2> SUFFICES ASSUME TypeOK, WatcherInv, [Next]_vars PROVE WatcherInv'
    OBVIOUS
  <2>t. /\ turns \in 0..2 /\ starting \in Nat
        /\ flag \in BOOLEAN /\ quitClosed \in BOOLEAN /\ panicked \in BOOLEAN
    BY NodeLoopAssumption DEF TypeOK
  <2>1. CASE Turn
    <3>1. /\ starting' = starting + 1
          /\ turns' = IF turns < 2 THEN turns + 1 ELSE 2
          /\ flag' = flag /\ quitClosed' = quitClosed /\ panicked' = panicked
      BY <2>1 DEF Turn
    <3>2. CASE turns = 0
      BY <3>1, <3>2, <2>t DEF WatcherInv, Num
    <3>3. CASE turns \in 1..2
      BY <3>1, <3>3, <2>t DEF WatcherInv
    <3> QED
      BY <3>2, <3>3, <2>t
  <2>2. CASE WatcherNext
    BY <2>2, <2>t DEF WatcherNext, StartCommitteeWatcher, WatcherInv, Num
  <2>3. CASE AskForBlocks
    <3>1. turns' = turns /\ starting' = starting
      BY <2>3 DEF AskForBlocks
    <3>2. CASE flag /\ quitClosed
      <4>1. turns = 2
        BY <3>2, <2>t DEF WatcherInv, Num
      <4> QED
        BY <4>1, <3>1 DEF WatcherInv
    <3>3. CASE flag /\ ~quitClosed
      <4>1. /\ flag' = FALSE /\ quitClosed' = TRUE
            /\ panicked' = panicked
        BY <2>3, <3>3, Zenon DEF AskForBlocks, ClearedFlag
      <4> QED
        BY <4>1, <3>1, <3>3, <2>t DEF WatcherInv, Num
    <3>4. CASE ~flag
      <4>1. /\ flag' = flag /\ quitClosed' = quitClosed
            /\ panicked' = panicked
        BY <2>3, <3>4, <2>t, Zenon DEF AskForBlocks
      <4> QED
        BY <4>1, <3>1 DEF WatcherInv, Num
    <3> QED
      BY <3>2, <3>3, <3>4
  <2>4. CASE Kill \/ Restart
    BY <2>4 DEF Kill, Restart, Fresh, WatcherInv, Num
  <2>5. CASE UNCHANGED <<flag, starting, quitClosed, panicked, turns>>
    BY <2>5 DEF WatcherInv, Num
  <2>6. CASE UNCHANGED vars
    BY <2>6 DEF vars, WatcherInv, Num
  <2> QED
    BY <2>1, <2>2, <2>3, <2>4, <2>5, <2>6, OthersLeaveWatcher
<1>3. WatcherInv => PanicNeedsTwoTurns
  BY DEF WatcherInv, PanicNeedsTwoTurns
<1> QED
  BY <1>1, <1>2, <1>3, TypeCorrect, PTL DEF Spec

\* No step of the process gets a node out of the deadlock in which netsync waits
\* for a collector (OnBlockSigReceived) and the producer for netsync
\* (StartProducer's gate).
THEOREM DeadlockLasts == Spec => DeadlockIsPermanent
<1>1. [Next]_vars => [Deadlocked /\ up /\ up' => Deadlocked']_vars
  <2> SUFFICES ASSUME Next, Deadlocked, up, up' PROVE Deadlocked'
    OBVIOUS
  <2> USE DEF Deadlocked, GateOpen
  <2>1. CASE ProducerNext
    BY <2>1 DEF ProducerNext, Turn, CreateFails, Finalize, Finalized,
       AskForBlocks
  <2>2. CASE OldCollectorEnds \/ WatcherNext
    BY <2>2 DEF OldCollectorEnds, WatcherNext, StartCommitteeWatcher
  <2>3. CASE NetsyncNext
    BY <2>3 DEF NetsyncNext, HandleBlock, UpdateChain, HandleChainState, HandleBlockSig,
       CollectSig, HandleRequest, Pushed, StreamLost, FreeToHandle
  <2>4. CASE PeersNext
    BY <2>4 DEF PeersNext, PeerProduces, PeerServes, PeerReports, PeerSigns
  <2>5. CASE Kill \/ Restart
    BY <2>5 DEF Kill, Restart
  <2> QED
    BY <2>1, <2>2, <2>3, <2>4, <2>5 DEF Next
<1> QED
  BY <1>1, PTL DEF Spec, DeadlockIsPermanent

(***************************************************************************)
(* ------------------------------ Handshake ------------------------------ *)
(***************************************************************************)

USE HandshakeAssumption

Flights == [End -> [Kind -> 0..MaxInFlight]]

LEMMA OtherEnd == \A e \in End : Other(e) \in End /\ Other(e) # e
BY DEF End, Other

RoomIn(fl, e, ks) == \A k \in ks : fl[Other(e)][k] < MaxInFlight
Sent(sent, fl, e, ks) ==
  /\ sent \in Flights
  /\ \A k \in Kind : sent[e][k] = fl[e][k]
  /\ \A k \in Kind : sent[Other(e)][k] =
       IF reading[e] /\ k \in ks THEN fl[Other(e)][k] + 1 ELSE fl[Other(e)][k]

\* Messages are queued for the other end, if there is room for them.
LEMMA QueuedFacts ==
  ASSUME HandshakeTypeOK, NEW e \in End, NEW ks \in SUBSET Kind,
         NEW fl \in Flights, RoomIn(fl, e, ks)
  PROVE  Sent(Queued(e, fl, ks), fl, e, ks)
<1> USE DEF RoomIn
<1>1. Other(e) \in End /\ Other(e) # e
  BY OtherEnd
<1> DEFINE g == [k \in Kind |-> fl[Other(e)][k] + (IF k \in ks THEN 1 ELSE 0)]
<1>2. fl[Other(e)] \in [Kind -> 0..MaxInFlight]
  BY <1>1 DEF Flights
<1>3. g \in [Kind -> 0..MaxInFlight]
  <2> SUFFICES ASSUME NEW k \in Kind
               PROVE  fl[Other(e)][k] + (IF k \in ks THEN 1 ELSE 0) \in 0..MaxInFlight
    OBVIOUS
  <2>1. fl[Other(e)][k] \in 0..MaxInFlight
    BY <1>2
  <2> QED
    BY <2>1
<1>4. \A k \in Kind : g[k] = IF k \in ks THEN fl[Other(e)][k] + 1 ELSE fl[Other(e)][k]
  <2> SUFFICES ASSUME NEW k \in Kind
               PROVE  g[k] = IF k \in ks THEN fl[Other(e)][k] + 1 ELSE fl[Other(e)][k]
    OBVIOUS
  <2>1. fl[Other(e)][k] \in 0..MaxInFlight
    BY <1>2
  <2> QED
    BY <2>1
<1>5. Queued(e, fl, ks) = IF reading[e] THEN [fl EXCEPT ![Other(e)] = g] ELSE fl
  BY DEF Queued
<1> HIDE DEF g
<1> QED
  BY <1>1, <1>3, <1>4, <1>5 DEF Flights, Sent

\* A message is taken.
LEMMA TakenFacts ==
  ASSUME HandshakeTypeOK, NEW e \in End, NEW k \in Kind, Arrives(e, k)
  PROVE  /\ Taken(e, k) \in Flights
         /\ Taken(e, k)[e][k] = flight[e][k] - 1 /\ flight[e][k] >= 1
         /\ \A j \in Kind \ {k} : Taken(e, k)[e][j] = flight[e][j]
         /\ \A f \in End \ {e} : Taken(e, k)[f] = flight[f]
<1>1. flight[e] \in [Kind -> 0..MaxInFlight] /\ flight \in Flights
  BY DEF HandshakeTypeOK, Flights
<1>2. flight[e][k] \in 0..MaxInFlight /\ flight[e][k] > 0
  BY <1>1 DEF Arrives
<1>3. flight[e][k] - 1 \in 0..MaxInFlight
  BY <1>2
<1> DEFINE g == [flight[e] EXCEPT ![k] = @ - 1]
<1>4. /\ g \in [Kind -> 0..MaxInFlight] /\ g[k] = flight[e][k] - 1
      /\ \A j \in Kind \ {k} : g[j] = flight[e][j]
  BY <1>1, <1>3
<1>5. Taken(e, k) = [flight EXCEPT ![e] = g]
  BY <1>1 DEF Taken
<1> HIDE DEF g
<1> QED
  BY <1>1, <1>2, <1>4, <1>5 DEF Flights

LEMMA VersionsCounted ==
  ASSUME HandshakeTypeOK
  PROVE  \A e \in End : flight[e]["version"] \in Nat /\ answering[e] \in Nat
BY DEF HandshakeTypeOK, Kind

\* A step of end e that takes d versions, has a more of them answered and sends s.
Balanced(e, d, a, s) ==
  /\ flight'[e]["version"] = flight[e]["version"] - d
  /\ flight'[Other(e)]["version"] = flight[Other(e)]["version"] + s
  /\ answering'[e] = answering[e] + a /\ answering'[Other(e)] = answering[Other(e)]
  /\ UNCHANGED greeting

LEMMA BalancedKeeps ==
  ASSUME HandshakeTypeOK, OneVersion, NEW e \in End,
         NEW d \in Int, NEW a \in Int, NEW s \in Int, Balanced(e, d, a, s), a + s <= d
  PROVE  OneVersion'
<1>1. \A f \in End : flight[f]["version"] \in Nat /\ answering[f] \in Nat
  BY VersionsCounted
<1>2. (e = "out" /\ Other(e) = "in") \/ (e = "in" /\ Other(e) = "out")
  BY DEF End, Other
<1>3. "out" \in End /\ "in" \in End
  BY DEF End
<1> QED
  BY <1>1, <1>2, <1>3 DEF Balanced, OneVersion

\* What a handler leaves alone.
LEMMA RestKept ==
  ASSUME HandshakeTypeOK, [HandshakeNext]_handshakeVars
  PROVE  /\ sameVersion' \in BOOLEAN /\ stream' \in {"up", "down"}
         /\ reading' \in [End -> BOOLEAN] /\ greeting' \in BOOLEAN
         /\ verAckReceived' \in [End -> BOOLEAN] /\ publicKey' \in [End -> BOOLEAN]
         /\ good' \in [End -> BOOLEAN]
<1> USE DEF HandshakeTypeOK
<1>1. CASE UNCHANGED handshakeVars
  BY <1>1 DEF handshakeVars
<1>2. CASE OutboundPeerConnected
  BY <1>2 DEF OutboundPeerConnected
<1>3. CASE StreamEnds
  BY <1>3 DEF StreamEnds
<1>4. ASSUME NEW e \in End, ReaderStarts(e) \/ OnVersion(e) \/ AfterVerAck(e)
                            \/ OnGetAddr(e) \/ OnAddr(e)
      PROVE  /\ sameVersion' \in BOOLEAN /\ stream' \in {"up", "down"}
             /\ reading' \in [End -> BOOLEAN] /\ greeting' \in BOOLEAN
             /\ verAckReceived' \in [End -> BOOLEAN] /\ publicKey' \in [End -> BOOLEAN]
             /\ good' \in [End -> BOOLEAN]
  BY <1>4 DEF ReaderStarts, OnVersion, KeyLearned, AfterVerAck, OnGetAddr, OnAddr
<1>5. ASSUME NEW e \in End, NEW k \in {"ack", "nack"}, OnVerAck(e, k)
      PROVE  /\ sameVersion' \in BOOLEAN /\ stream' \in {"up", "down"}
             /\ reading' \in [End -> BOOLEAN] /\ greeting' \in BOOLEAN
             /\ verAckReceived' \in [End -> BOOLEAN] /\ publicKey' \in [End -> BOOLEAN]
             /\ good' \in [End -> BOOLEAN]
  BY <1>5 DEF OnVerAck
<1> QED
  BY <1>1, <1>2, <1>3, <1>4, <1>5 DEF HandshakeNext, EndNext

LEMMA StepKept ==
  ASSUME HandshakeTypeOK, OneVersion, [HandshakeNext]_handshakeVars
  PROVE  flight' \in Flights /\ answering' \in [End -> Nat] /\ OneVersion'
<1>0. flight \in Flights /\ answering \in [End -> Nat] /\ "version" \in Kind
      /\ {"ack", "nack", "getaddr", "addr"} \subseteq Kind
  BY DEF HandshakeTypeOK, Flights, Kind
<1>1. CASE UNCHANGED handshakeVars
  BY <1>0, <1>1 DEF handshakeVars, OneVersion
<1>2. CASE OutboundPeerConnected
  <2>1. \A f \in End : flight[f]["version"] \in Nat /\ answering[f] \in Nat
    BY VersionsCounted
  <2>2. /\ greeting /\ greeting' = FALSE /\ UNCHANGED answering
        /\ flight' = [e \in End |->
             IF Other(e) \in {"out"}
             THEN Queued(Other(e), flight, {"version"})[e] ELSE flight[e]]
    BY <1>2 DEF OutboundPeerConnected, Greeters
  <2>3. flight["in"]["version"] = 0 /\ flight["out"]["version"] = 0
        /\ answering["in"] = 0 /\ answering["out"] = 0
    BY <2>1, <2>2 DEF OneVersion, End
  <2>4. "out" \in End /\ "in" \in End /\ Other("out") = "in" /\ Other("in") = "out"
    BY DEF End, Other
  <2> DEFINE q == Queued("out", flight, {"version"})
  <2>5. /\ q \in Flights
        /\ q["in"]["version"] \in {0, 1}
    <3>1. {"version"} \in SUBSET Kind /\ RoomIn(flight, "out", {"version"})
      BY <1>0, <2>3, <2>4 DEF RoomIn
    <3>2. Sent(q, flight, "out", {"version"})
      BY <1>0, <2>4, <3>1, QueuedFacts
    <3> HIDE DEF q
    <3> QED
      BY <1>0, <2>3, <2>4, <3>2 DEF Sent
  <2>6. flight' = [e \in End |-> IF e = "in" THEN q["in"] ELSE flight[e]]
    BY <2>2, <2>4 DEF End
  <2> HIDE DEF q
  <2>7. flight' \in Flights /\ flight'["in"] = q["in"] /\ flight'["out"] = flight["out"]
    BY <1>0, <2>4, <2>5, <2>6 DEF Flights
  <2>8. OneVersion'
    BY <2>2, <2>3, <2>5, <2>7 DEF OneVersion
  <2> QED
    BY <1>0, <2>2, <2>7, <2>8
<1>3. CASE StreamEnds
  <2>1. /\ flight' = [e \in End |-> [k \in Kind |-> 0]]
        /\ UNCHANGED <<answering, greeting>>
    BY <1>3 DEF StreamEnds
  <2>2. flight' \in Flights
    BY <2>1 DEF Flights
  <2>3. flight'["in"]["version"] = 0 /\ flight'["out"]["version"] = 0
    BY <1>0, <2>1 DEF End
  <2>4. \A f \in End : flight[f]["version"] \in Nat /\ answering[f] \in Nat
    BY VersionsCounted
  <2>5. OneVersion'
    BY <2>1, <2>3, <2>4 DEF OneVersion, End
  <2> QED
    BY <1>0, <2>1, <2>2, <2>5
<1>4. ASSUME NEW e \in End, ReaderStarts(e)
      PROVE  flight' \in Flights /\ answering' \in [End -> Nat] /\ OneVersion'
  BY <1>0, <1>4 DEF ReaderStarts, OneVersion
<1>5. ASSUME NEW e \in End, OnVersion(e)
      PROVE  flight' \in Flights /\ answering' \in [End -> Nat] /\ OneVersion'
  <2>0. Other(e) \in End /\ Other(e) # e
    BY OtherEnd
  <2>1. PICK ack \in {"ack", "nack"} :
          /\ Arrives(e, "version") /\ Room(e, {ack})
          /\ flight' = Queued(e, Taken(e, "version"), {ack})
          /\ answering' = [answering EXCEPT ![e] = @ + 1]
          /\ UNCHANGED greeting
    BY <1>5 DEF OnVersion
  <2> DEFINE t == Taken(e, "version")
  <2>2. /\ t \in Flights /\ t[Other(e)] = flight[Other(e)]
        /\ t[e]["version"] = flight[e]["version"] - 1
    BY <1>0, <2>0, <2>1, TakenFacts
  <2>3. \A k \in {ack} : t[Other(e)][k] < MaxInFlight
    BY <2>1, <2>2 DEF Room
  <2>4. ack \in Kind /\ ack # "version"
    BY <1>0, <2>1
  <2> HIDE DEF t
  <2>5. /\ Queued(e, t, {ack}) \in Flights
        /\ Queued(e, t, {ack})[e]["version"] = t[e]["version"]
        /\ Queued(e, t, {ack})[Other(e)]["version"] = t[Other(e)]["version"]
    <3>1. {ack} \in SUBSET Kind /\ RoomIn(t, e, {ack})
      BY <2>3, <2>4 DEF RoomIn
    <3>2. Sent(Queued(e, t, {ack}), t, e, {ack})
      BY <2>2, <3>1, QueuedFacts
    <3> QED
      BY <1>0, <2>4, <3>2 DEF Sent
  <2>6. flight' = Queued(e, t, {ack})
    BY <2>1 DEF t
  <2>7. /\ answering' \in [End -> Nat] /\ answering'[e] = answering[e] + 1
        /\ answering'[Other(e)] = answering[Other(e)]
    BY <1>0, <2>0, <2>1
  <2>8. flight[Other(e)]["version"] \in Nat
    BY <2>0, VersionsCounted
  <2>9. Balanced(e, 1, 1, 0)
    BY <2>1, <2>2, <2>5, <2>6, <2>7, <2>8 DEF Balanced
  <2> QED
    BY <2>5, <2>6, <2>7, <2>9, BalancedKeeps
<1>6. ASSUME NEW e \in End, AfterVerAck(e)
      PROVE  flight' \in Flights /\ answering' \in [End -> Nat] /\ OneVersion'
  <2>0. Other(e) \in End /\ Other(e) # e
    BY OtherEnd
  <2>1. /\ answering[e] > 0 /\ Room(e, {"version"})
        /\ answering' = [answering EXCEPT ![e] = @ - 1]
        /\ flight' = Queued(e, flight, {"version"}) \/ flight' = flight
        /\ UNCHANGED greeting
    BY <1>6 DEF AfterVerAck
  <2>2. /\ Queued(e, flight, {"version"}) \in Flights
        /\ Queued(e, flight, {"version"})[e]["version"] = flight[e]["version"]
        /\ Queued(e, flight, {"version"})[Other(e)]["version"] =
             IF reading[e] THEN flight[Other(e)]["version"] + 1
             ELSE flight[Other(e)]["version"]
    <3>1. {"version"} \in SUBSET Kind /\ RoomIn(flight, e, {"version"})
      BY <1>0, <2>1 DEF RoomIn, Room
    <3>2. Sent(Queued(e, flight, {"version"}), flight, e, {"version"})
      BY <1>0, <3>1, QueuedFacts
    <3> QED
      BY <1>0, <3>2 DEF Sent
  <2>3. answering[e] \in Nat
    BY <1>0
  <2>4. /\ answering' \in [End -> Nat] /\ answering'[e] = answering[e] + (-1)
        /\ answering'[Other(e)] = answering[Other(e)]
    BY <1>0, <2>0, <2>1, <2>3
  <2>5. flight[Other(e)]["version"] \in Nat /\ flight[e]["version"] \in Nat
    BY <2>0, VersionsCounted
  <2>6. Balanced(e, 0, -1, 0) \/ Balanced(e, 0, -1, 1)
    BY <2>1, <2>2, <2>4, <2>5 DEF Balanced
  <2>7. OneVersion'
    BY <2>6, BalancedKeeps
  <2> QED
    BY <1>0, <2>1, <2>2, <2>4, <2>7
<1>7. ASSUME NEW e \in End, NEW k \in {"ack", "nack", "getaddr", "addr"},
             OnVerAck(e, k) \/ (k = "getaddr" /\ OnGetAddr(e)) \/ (k = "addr" /\ OnAddr(e))
      PROVE  flight' \in Flights /\ answering' \in [End -> Nat] /\ OneVersion'
  <2>0. Other(e) \in End /\ Other(e) # e
    BY OtherEnd
  <2> DEFINE t == Taken(e, k)
  <2>1. PICK ks \in SUBSET {"getaddr", "addr"} :
          /\ Arrives(e, k) /\ Room(e, ks)
          /\ flight' = Queued(e, t, ks) \/ flight' = t
          /\ UNCHANGED <<answering, greeting>>
    <3>1. CASE OnVerAck(e, k)
      BY <3>1 DEF OnVerAck
    <3>2. CASE k = "getaddr" /\ OnGetAddr(e)
      BY <3>2 DEF OnGetAddr
    <3>3. CASE k = "addr" /\ OnAddr(e)
      <4>1. Room(e, {}) /\ {} \in SUBSET {"getaddr", "addr"}
        BY DEF Room
      <4>2. Arrives(e, k) /\ flight' = t /\ UNCHANGED <<answering, greeting>>
        BY <3>3 DEF OnAddr
      <4> QED
        BY <4>1, <4>2
    <3> QED
      BY <1>7, <3>1, <3>2, <3>3
  <2>2. k \in Kind /\ k # "version" /\ ks \subseteq Kind /\ "version" \notin ks
    BY <1>0
  <2>3. /\ t \in Flights /\ t[Other(e)] = flight[Other(e)]
        /\ t[e]["version"] = flight[e]["version"]
    BY <1>0, <2>0, <2>1, <2>2, TakenFacts
  <2>4. \A j \in ks : t[Other(e)][j] < MaxInFlight
    BY <2>1, <2>3 DEF Room
  <2> HIDE DEF t
  <2>5. /\ Queued(e, t, ks) \in Flights
        /\ Queued(e, t, ks)[e]["version"] = t[e]["version"]
        /\ Queued(e, t, ks)[Other(e)]["version"] = t[Other(e)]["version"]
    <3>1. RoomIn(t, e, ks)
      BY <2>4 DEF RoomIn
    <3>2. Sent(Queued(e, t, ks), t, e, ks)
      BY <2>2, <2>3, <3>1, QueuedFacts
    <3> QED
      BY <1>0, <2>2, <3>2 DEF Sent
  <2>6. \A f \in End : flight[f]["version"] \in Nat /\ answering[f] \in Nat
    BY VersionsCounted
  <2>7. Balanced(e, 0, 0, 0)
    BY <2>0, <2>1, <2>3, <2>5, <2>6 DEF Balanced
  <2>8. OneVersion'
    BY <2>7, BalancedKeeps
  <2> QED
    BY <1>0, <2>1, <2>3, <2>5, <2>8
<1> QED
  BY <1>1, <1>2, <1>3, <1>4, <1>5, <1>6, <1>7 DEF HandshakeNext, EndNext

\* The two ends never have more than one version between them, under way or
\* about to be sent, so the counts of messages keep to their types: the greeting
\* needs no room of its own.
THEOREM HandshakeInv ==
  HandshakeSpec => [](HandshakeTypeOK /\ OneVersion)
<1>1. HandshakeInit => HandshakeTypeOK /\ OneVersion
  <2> SUFFICES ASSUME HandshakeInit PROVE HandshakeTypeOK /\ OneVersion
    OBVIOUS
  <2>1. HandshakeTypeOK
    BY DEF HandshakeInit, HandshakeTypeOK
  <2>2. OneVersion
    BY DEF HandshakeInit, OneVersion, End, Kind
  <2> QED
    BY <2>1, <2>2
<1>2. HandshakeTypeOK /\ OneVersion /\ [HandshakeNext]_handshakeVars
        => (HandshakeTypeOK /\ OneVersion)'
  <2> SUFFICES ASSUME HandshakeTypeOK, OneVersion, [HandshakeNext]_handshakeVars
               PROVE  (HandshakeTypeOK /\ OneVersion)'
    OBVIOUS
  <2> QED
    BY RestKept, StepKept DEF HandshakeTypeOK, Flights
<1> QED
  BY <1>1, <1>2, PTL DEF HandshakeSpec

\* One version at a time, however messages overtake each other and whenever the
\* stream ends.
THEOREM OneVersionAtATime == HandshakeSpec => []OneVersion
BY HandshakeInv, PTL
=============================================================================
