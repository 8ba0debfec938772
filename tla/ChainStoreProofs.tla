-------------------------- MODULE ChainStoreProofs --------------------------
(***************************************************************************)
(* Proofs about ChainStore, for any height and any number of branches,     *)
(* crashes and faults: type correctness, a stored best state that can      *)
(* always be recovered, and double-spend data that are those of the chain. *)
(* For a node that follows the chain and for a leader whose database does  *)
(* not fail (LeaderFaultFree), also a stored chain that only grows (it     *)
(* implements Ledger), and heights that agree whenever the node is at rest. *)
(***************************************************************************)
EXTENDS ChainStore, Sequences, TLAPS

\* A thread inside UpdateChain has a block in hand.
Holding == \A t \in Threads : pc[t] \in Busy => cur[t] \in Block

TypeInv == TypeOK /\ Holding

LEMMA BlockFacts ==
  /\ \A b \in Block : Height(b) \in Heights
  /\ NoBlock \notin Block /\ Height(NoBlock) = 0
  /\ Genesis \in Block /\ Height(Genesis) = 1
BY ChainStoreAssumption
   DEF ChainStoreAssumption, Block, Height, Heights, Genesis, NoBlock

\* The types survive the end of the process, and the error return of UpdateChain.
LEMMA EndIsTyped ==
  ASSUME TypeInv, ProcessEnds
  PROVE  /\ up' = "down" /\ mode' \in {"fast", "full"}
         /\ best' \in Block \cup {NoBlock} /\ fee' \in 0..MaxHeight
         /\ known' \in 0..MaxHeight /\ validated' \in 0..MaxHeight
         /\ pc' \in [Threads -> Steps] /\ cur' \in [Threads -> Block \cup {NoBlock}]
         /\ faulty' \in BOOLEAN /\ Holding'
<1>1. faulty' \in BOOLEAN
  BY Zenon DEF ProcessEnds
<1>2. Holding'
  BY DEF ProcessEnds, Holding, Busy, Connecting, Updating
<1> QED
  BY <1>1, <1>2, ChainStoreAssumption
     DEF ChainStoreAssumption, ProcessEnds, TypeInv, TypeOK, Steps, Unmined

LEMMA ErrorIsTyped ==
  ASSUME TypeInv, NEW t \in Threads, ReturnsError(t), pc[t] \in Busy
  PROVE  /\ up' \in {"down", "init", "run", "stopping"} /\ mode' \in {"fast", "full"}
         /\ best' \in Block \cup {NoBlock} /\ fee' \in 0..MaxHeight
         /\ known' \in 0..MaxHeight /\ validated' \in 0..MaxHeight
         /\ pc' \in [Threads -> Steps] /\ cur' \in [Threads -> Block \cup {NoBlock}]
         /\ faulty' \in BOOLEAN /\ Holding'
<1>1. CASE t = "main"
  BY <1>1, EndIsTyped DEF ReturnsError
<1>2. CASE t # "main"
  BY <1>2 DEF ReturnsError, Goto, memory, TypeInv, TypeOK, Steps, Holding, Busy,
              Connecting, Updating
<1> QED
  BY <1>1, <1>2

\* Every action keeps the types, and the database refers to blocks only.
LEMMA TypeInvariant == Spec => []TypeInv
<1> USE ChainStoreAssumption, BlockFacts DEF ChainStoreAssumption
<1>1. Init => TypeInv
  <2> SUFFICES ASSUME Init PROVE TypeInv
    OBVIOUS
  <2>1. own \in BOOLEAN /\ faulty \in BOOLEAN /\ panicked \in BOOLEAN
    BY Zenon DEF Init
  <2>2. Holding
    BY DEF Init, Holding, Busy, Connecting, Updating
  <2> QED
    BY <2>1, <2>2 DEF Init, TypeInv, TypeOK, Steps, NoFee, Unmined
<1>2. TypeInv /\ [Next]_vars => TypeInv'
  <2> SUFFICES ASSUME TypeInv, [Next]_vars PROVE TypeInv'
    OBVIOUS
  <2> USE DEF TypeInv, TypeOK, Goto, disk, memory, env, Heights
  <2>1. ASSUME NEW m \in Modes, Restart(m) PROVE TypeInv'
    BY <2>1 DEF Restart, Holding, Busy, Connecting, Updating, Steps, Threads
  <2>2. CASE LoadOrClean
    BY <2>2 DEF LoadOrClean, NoFee, Unmined, Holding, Busy, Connecting, Updating,
                Steps, Threads
  <2>3. CASE CleanFee
    BY <2>3 DEF CleanFee, NoFee, Holding, Busy, Connecting, Updating, Steps, Threads
  <2>4. CASE StartEngine
    BY <2>4 DEF StartEngine, Holding, Busy, Connecting, Updating, Steps, Threads
  <2>5. CASE Replay
    <3>1. validated + 1 \in 0..MaxHeight /\ hashAt[validated + 1] \in Block
      BY <2>5 DEF Replay
    <3> QED
      BY <2>5, <3>1 DEF Replay, Holding
  <2>6. CASE ReplayFails
    <3>1. Holding'
      BY <2>6 DEF ReplayFails, Holding, Busy, Connecting, Updating, Steps, Threads
    <3>2. TypeOK'
      BY <2>6, SMTT(30) DEF ReplayFails, Steps, Threads
    <3> QED
      BY <3>1, <3>2
  <2>7. CASE EngineStarted
    BY <2>7 DEF EngineStarted, Holding, Busy, Connecting, Updating, Steps, Threads
  <2>8. ASSUME NEW b \in Block, Create(b) PROVE TypeInv'
    BY <2>8 DEF Create, Holding, Steps, Threads
  <2>9. ASSUME NEW b \in Block, Receive(b) PROVE TypeInv'
    BY <2>9 DEF Receive, Holding, Steps, Threads
  <2>10. ASSUME NEW b \in Block, ServeBlocks(b) PROVE TypeInv'
    <3>1. CASE \A n \in Wanted(b) : Gettable(n)
      <4>1. {hashAt[n] : n \in Wanted(b)} \subseteq Block
        BY <3>1 DEF Gettable
      <4> QED
        BY <2>10, <3>1, <4>1 DEF ServeBlocks, Holding
    <3>2. CASE ~(\A n \in Wanted(b) : Gettable(n))
      <4>1. /\ ProcessEnds /\ panicked' = TRUE
            /\ UNCHANGED <<disk, published, own, created, lives, faults>>
        BY <2>10, <3>2 DEF ServeBlocks
      <4> QED
        BY <4>1, EndIsTyped
    <3> QED
      BY <3>1, <3>2
  <2>11. ASSUME NEW n \in Heights, LearnHeight(n) PROVE TypeInv'
    BY <2>11 DEF LearnHeight, Holding
  <2>12. ASSUME NEW t \in Threads, Lock(t) PROVE TypeInv'
    BY <2>12 DEF Lock, Holding, Busy, Connecting, Updating, Steps
  <2>13. ASSUME NEW t \in Threads, StoreChainKey(t) PROVE TypeInv'
    <3>1. pc[t] \in Busy
      BY <2>13 DEF StoreChainKey, Busy, Connecting
    <3>2. CASE cur[t] \in chainKey
      <4>1. ReturnsError(t) /\ UNCHANGED <<disk, env>>
        BY <2>13, <3>2 DEF StoreChainKey
      <4> QED
        BY <4>1, <3>1, ErrorIsTyped
    <3>3. CASE cur[t] \notin chainKey
      BY <2>13, <3>1, <3>3 DEF StoreChainKey, Holding, Busy, Connecting, Updating, Steps
    <3> QED
      BY <3>2, <3>3
  <2>14. ASSUME NEW t \in Threads, StoreData(t) PROVE TypeInv'
    BY <2>14 DEF StoreData, Holding, Busy, Connecting, Updating, Steps
  <2>15. ASSUME NEW t \in Threads, StoreHashIndex(t) PROVE TypeInv'
    BY <2>15 DEF StoreHashIndex, Holding, Busy, Connecting, Updating, Steps
  <2>16. ASSUME NEW t \in Threads, StoreHeightIndex(t) PROVE TypeInv'
    BY <2>16 DEF StoreHeightIndex, Holding, Busy, Connecting, Updating, Steps
  <2>17. ASSUME NEW t \in Threads, SaveView(t) PROVE TypeInv'
    BY <2>17 DEF SaveView, Holding, Busy, Connecting, Updating, Steps
  <2>18. ASSUME NEW t \in Threads, Payout(t) PROVE TypeInv'
    BY <2>18 DEF Payout, Holding, Busy, Connecting, Updating, Steps
  <2>19. ASSUME NEW t \in Threads, RegisterBlock(t) PROVE TypeInv'
    <3>1. pc[t] \in Busy /\ cur[t] \in Block
      BY <2>19 DEF RegisterBlock, Busy, Updating, Holding
    <3>2. CASE fee = Unmined \/ Height(cur[t]) = fee + 1
      <4>1. /\ fee' = Height(cur[t]) /\ pc' = [pc EXCEPT ![t] = "update"]
            /\ UNCHANGED <<disk, up, mode, best, known, validated, cur, faulty, env>>
        BY <2>19, <3>2 DEF RegisterBlock
      <4> QED
        BY <3>1, <4>1 DEF Holding, Busy, Connecting, Updating, Steps
    <3>3. CASE ~(fee = Unmined \/ Height(cur[t]) = fee + 1)
      <4>1. ReturnsError(t) /\ UNCHANGED <<disk, env>>
        BY <2>19, <3>3 DEF RegisterBlock
      <4> QED
        BY <4>1, <3>1, ErrorIsTyped
    <3> QED
      BY <3>2, <3>3
  <2>20. ASSUME NEW t \in Threads, UpdateBest(t) PROVE TypeInv'
    BY <2>20 DEF UpdateBest, Holding, Busy, Connecting, Updating, Steps
  <2>21. ASSUME NEW t \in Threads, StoreBestState(t) PROVE TypeInv'
    BY <2>21 DEF StoreBestState, Holding, Busy, Connecting, Updating, Steps
  <2>22. ASSUME NEW t \in Threads, SetKnown(t) PROVE TypeInv'
    BY <2>22 DEF SetKnown, Holding, Busy, Connecting, Updating, Steps
  <2>23. ASSUME NEW t \in Threads, SetValidated(t) PROVE TypeInv'
    BY <2>23 DEF SetValidated, Holding, Busy, Connecting, Updating, Steps
  <2>24. ASSUME NEW t \in Threads, Send(t) PROVE TypeInv'
    BY <2>24 DEF Send, Holding, Busy, Connecting, Updating, Steps
  <2>25. ASSUME NEW t \in Threads, Drop(t) PROVE TypeInv'
    BY <2>25 DEF Drop, Holding, Busy, Connecting, Updating, Steps
  <2>26. ASSUME NEW t \in Threads, Fault(t) PROVE TypeInv'
    <3>1. pc[t] \in Busy /\ ReturnsError(t)
      BY <2>26 DEF Fault, Busy, Updating
    <3> QED
      BY <2>26, <3>1, ErrorIsTyped DEF Fault
  <2>27. ASSUME NEW t \in Threads, SaveLost(t) PROVE TypeInv'
    BY <2>27 DEF SaveLost, Holding, Busy, Connecting, Updating, Steps
  <2>28. CASE Stop
    BY <2>28 DEF Stop, Holding
  <2>29. CASE Crash
    BY <2>29, EndIsTyped DEF Crash
  <2>30. CASE UNCHANGED vars
    BY <2>30 DEF vars, Holding
  <2> HIDE DEF TypeInv, TypeOK, Goto, disk, memory, env, Heights
  <2> QED
    BY <2>1, <2>2, <2>3, <2>4, <2>5, <2>6, <2>7, <2>8, <2>9, <2>10, <2>11, <2>12,
       <2>13, <2>14, <2>15, <2>16, <2>17, <2>18, <2>19, <2>20, <2>21, <2>22,
       <2>23, <2>24, <2>25, <2>26, <2>27, <2>28, <2>29, <2>30
       DEF Next, Startup, Inputs, UpdateStep, Errors
<1> QED
  BY <1>1, <1>2, PTL DEF Spec

\* Type correctness of the database and of the three threads.
THEOREM TypeCorrect == Spec => []TypeOK
<1>1. TypeInv => TypeOK
  BY DEF TypeInv
<1> QED
  BY <1>1, TypeInvariant, PTL
-----------------------------------------------------------------------------
\* The main thread works until the engine runs, the other two from then on.
LEMMA PhasesKept ==
  ASSUME TypeInv, Phases, [Next]_vars
  PROVE  Phases'
<1> USE BlockFacts
<1> USE DEF TypeInv, TypeOK, Phases, Running, Goto, disk, memory, env, Threads,
            Connecting, Updating
<1>0. ASSUME ProcessEnds PROVE Phases'
  BY <1>0 DEF ProcessEnds
<1>1. CASE Startup
  <2>1. ASSUME NEW m \in Modes, Restart(m) PROVE Phases'
    BY <2>1 DEF Restart
  <2>2. CASE LoadOrClean \/ CleanFee \/ EngineStarted
    BY <2>2 DEF LoadOrClean, CleanFee, EngineStarted
  <2>3. CASE StartEngine
    BY <2>3 DEF StartEngine
  <2>4. CASE Replay \/ ReplayFails
    BY <2>4 DEF Replay, ReplayFails
  <2> QED
    BY <1>1, <2>1, <2>2, <2>3, <2>4 DEF Startup
<1>2. CASE Inputs
  <2>1. ASSUME NEW b \in Block, Create(b) \/ Receive(b) PROVE Phases'
    BY <2>1 DEF Create, Receive
  <2>2. ASSUME NEW b \in Block, ServeBlocks(b) PROVE Phases'
    BY <2>2, <1>0 DEF ServeBlocks
  <2>3. ASSUME NEW n \in Heights, LearnHeight(n) PROVE Phases'
    BY <2>3 DEF LearnHeight
  <2> QED
    BY <1>2, <2>1, <2>2, <2>3 DEF Inputs
<1>3. ASSUME NEW t \in Threads, UpdateStep(t) \/ Errors(t) PROVE Phases'
  <2>0. pc[t] # "idle"
    BY <1>3 DEF UpdateStep, Errors, Lock, StoreChainKey, StoreData, StoreHashIndex,
       StoreHeightIndex, SaveView, Payout, RegisterBlock, UpdateBest,
       StoreBestState, SetKnown, SetValidated, Send, Drop, Fault, SaveLost
  <2>1. CASE ReturnsError(t)
    BY <2>0, <2>1, <1>0 DEF ReturnsError
  <2>2. CASE Lock(t) \/ Drop(t)
    BY <2>2, <2>0 DEF Lock, Drop
  <2>3. CASE StoreChainKey(t) /\ ~ReturnsError(t)
    BY <2>3, <2>0 DEF StoreChainKey
  <2>4. CASE StoreData(t) \/ StoreHashIndex(t) \/ StoreHeightIndex(t)
    BY <2>4, <2>0 DEF StoreData, StoreHashIndex, StoreHeightIndex
  <2>5. CASE SaveView(t) \/ Payout(t) \/ StoreBestState(t) \/ SaveLost(t)
    BY <2>5, <2>0 DEF SaveView, Payout, StoreBestState, SaveLost
  <2>6. CASE RegisterBlock(t) /\ ~ReturnsError(t)
    BY <2>6, <2>0 DEF RegisterBlock
  <2>7. CASE UpdateBest(t)
    BY <2>7, <2>0 DEF UpdateBest, Holding, Busy
  <2>8. CASE SetKnown(t) \/ SetValidated(t) \/ Send(t)
    BY <2>8, <2>0 DEF SetKnown, SetValidated, Send
  <2> QED
    BY <1>3, <2>1, <2>2, <2>3, <2>4, <2>5, <2>6, <2>7, <2>8
       DEF UpdateStep, Errors, Fault
<1>4. CASE Stop
  BY <1>4 DEF Stop
<1>5. CASE Crash
  BY <1>5, <1>0 DEF Crash
<1>6. CASE UNCHANGED vars
  BY <1>6 DEF vars
<1> QED
  BY <1>1, <1>2, <1>3, <1>4, <1>5, <1>6 DEF Next

\* What can be read stays readable, whatever block a height is given next.
LEMMA ReadableStays ==
  ASSUME TypeInv, StoreInv, [Next]_vars
  PROVE  ReadableTo \subseteq ReadableTo'
<1> USE BlockFacts
<1> USE DEF TypeInv, TypeOK, disk, ReadableTo, Heights
<1>1. ASSUME NEW t \in Threads, StoreData(t) PROVE ReadableTo \subseteq ReadableTo'
  BY <1>1 DEF StoreData
<1>2. ASSUME NEW t \in Threads, StoreHeightIndex(t) PROVE ReadableTo \subseteq ReadableTo'
  <2>1. cur[t] \in data /\ cur[t] \in Block
    BY <1>2 DEF StoreHeightIndex, StoreInv
  <2>2. /\ data' = data /\ hashAt' = [hashAt EXCEPT ![Height(cur[t])] = cur[t]]
    BY <1>2 DEF StoreHeightIndex
  <2>3. \A j \in Heights : hashAt'[j] = IF j = Height(cur[t]) THEN cur[t] ELSE hashAt[j]
    BY <2>1, <2>2
  <2> QED
    BY <2>1, <2>2, <2>3
<1>3. CASE UNCHANGED <<data, hashAt>>
  BY <1>3
<1>4. ASSUME NEW t \in Threads, UpdateStep(t)
      PROVE  UNCHANGED <<data, hashAt>> \/ StoreData(t) \/ StoreHeightIndex(t)
  BY <1>4 DEF UpdateStep, Lock, StoreChainKey, StoreHashIndex, SaveView, Payout,
     RegisterBlock, UpdateBest, StoreBestState, SetKnown, SetValidated, Send
<1>5. ASSUME NEW t \in Threads, Errors(t) PROVE UNCHANGED <<data, hashAt>>
  BY <1>5 DEF Errors, Drop, Fault, SaveLost
<1>6. CASE Startup
  BY <1>3, <1>6 DEF Startup, Restart, LoadOrClean, CleanFee, StartEngine, Replay,
     ReplayFails, EngineStarted
<1>7. CASE Inputs
  BY <1>3, <1>7 DEF Inputs, Create, Receive, ServeBlocks, LearnHeight
<1>8. CASE Stop \/ Crash \/ UNCHANGED vars
  BY <1>3, <1>8 DEF Stop, Crash, vars
<1> HIDE DEF TypeInv, TypeOK, disk, ReadableTo, Heights
<1> QED
  BY <1>1, <1>2, <1>3, <1>4, <1>5, <1>6, <1>7, <1>8 DEF Next

\* A chain can be read to any height below one it can be read to.
LEMMA ReadableBelow ==
  /\ 0 \in ReadableTo
  /\ \A m \in ReadableTo : \A n \in 0..m : n \in ReadableTo
BY ChainStoreAssumption DEF ChainStoreAssumption, ReadableTo

\* The heart of RecoverableChain: every block is stored and indexed before the
\* best state or the validated height moves to it.
LEMMA StoreInvKept ==
  ASSUME TypeInv, TypeInv', Phases, Phases', StoreInv, [Next]_vars
  PROVE  StoreInv'
<1> DEFINE Stored(u) ==
             /\ pc[u] \in Busy => Height(cur[u]) - 1 \in ReadableTo
             /\ pc[u] \in Indexed => Height(cur[u]) \in ReadableTo
             /\ pc[u] \in {"hashIdx", "hashAt"} => cur[u] \in data
           Heads ==
             /\ Height(savedBest) \in ReadableTo
             /\ up # "down" /\ pc["main"] \notin Connecting => Height(best) \in ReadableTo
             /\ validated \in ReadableTo
<1>r. ReadableTo \subseteq ReadableTo'
  BY ReadableStays
<1>b. 0 \in ReadableTo /\ \A m \in ReadableTo : \A n \in 0..m : n \in ReadableTo
  BY ReadableBelow
<1>z. Height(NoBlock) = 0 /\ NoBlock \notin Block
  BY BlockFacts
<1>t. /\ pc \in [Threads -> Steps] /\ cur \in [Threads -> Block \cup {NoBlock}]
      /\ validated \in 0..MaxHeight /\ known \in 0..MaxHeight
      /\ best \in Block \cup {NoBlock}
  BY DEF TypeInv, TypeOK
<1>h. \A b \in Block : Height(b) \in Nat /\ Height(b) >= 1
  BY BlockFacts DEF Heights
<1>i. StoreInv <=> Heads /\ \A u \in Threads : Stored(u)
  BY DEF StoreInv
<1>j. StoreInv' <=> Heads' /\ \A u \in Threads : Stored(u)'
  BY DEF StoreInv
<1>k. \A u \in Threads : pc'[u] = "idle" => Stored(u)'
  BY DEF Busy, Indexed, Connecting, Updating
<1>m. ASSUME NEW t \in Threads, NEW s \in Steps, pc' = [pc EXCEPT ![t] = s],
             \A u \in Threads : u # t => cur'[u] = cur[u], data \subseteq data',
             s \in Busy => Height(cur'[t]) - 1 \in ReadableTo',
             s \in Indexed => Height(cur'[t]) \in ReadableTo',
             s \in {"hashIdx", "hashAt"} => cur'[t] \in data'
      PROVE  \A u \in Threads : Stored(u)'
  <2> SUFFICES ASSUME NEW u \in Threads PROVE Stored(u)'
    OBVIOUS
  <2>1. CASE u = t
    BY <1>m, <2>1, <1>t
  <2>2. CASE u # t
    <3>1. pc'[u] = pc[u] /\ cur'[u] = cur[u]
      BY <1>m, <2>2, <1>t
    <3> QED
      BY <3>1, <1>m, <1>i, <1>r
  <2> QED
    BY <2>1, <2>2
<1>0. ASSUME ProcessEnds, UNCHANGED <<data, hashAt, savedBest>> PROVE StoreInv'
  <2>1. \A u \in Threads : pc'[u] = "idle"
    BY <1>0 DEF ProcessEnds
  <2>2. Heads'
    BY <1>0, <1>r, <1>b, <1>i DEF ProcessEnds
  <2> QED
    BY <2>1, <2>2, <1>j, <1>k
\* Steps that leave every thread where it was.
<1>q. ASSUME UNCHANGED <<data, savedBest, best, pc, cur>>, validated' \in ReadableTo',
             up' = "down" <=> up = "down"
      PROVE  StoreInv'
  BY <1>q, <1>r, <1>i, <1>j
\* Steps of one thread that leave best, savedBest and validated alone.
<1>p. ASSUME NEW t \in Threads, NEW s \in Steps, pc' = [pc EXCEPT ![t] = s],
             \A u \in Threads : u # t => cur'[u] = cur[u], data \subseteq data',
             UNCHANGED <<savedBest, best, validated>>, up' = "down" <=> up = "down",
             s \in Busy => Height(cur'[t]) - 1 \in ReadableTo',
             s \in Indexed => Height(cur'[t]) \in ReadableTo',
             s \in {"hashIdx", "hashAt"} => cur'[t] \in data',
             t = "main" /\ s \notin Connecting => pc["main"] \notin Connecting
                                                  \/ Height(best) \in ReadableTo'
      PROVE  StoreInv'
  <2>1. \A u \in Threads : Stored(u)'
    BY <1>p, <1>m
  <2>2. pc'["main"] \notin Connecting /\ up # "down" => Height(best) \in ReadableTo'
    BY <1>p, <1>t, <1>i, <1>r DEF Threads
  <2> QED
    BY <1>p, <2>1, <2>2, <1>i, <1>j, <1>r
<1> HIDE DEF Stored, Heads
<1> USE DEF Goto, disk, memory, env
<1>1. CASE Startup
  <2> USE DEF Threads, Steps, Busy, Indexed, Connecting, Updating
  <2>1. ASSUME NEW m \in Modes, Restart(m) PROVE StoreInv'
    <3>1. CASE savedBest = NoBlock
      <4>1. \A u \in Threads : Stored(u)'
        <5>1. /\ pc' = [pc EXCEPT !["main"] = "chainKey"] /\ cur'["main"] = Genesis
              /\ \A u \in Threads : u # "main" => cur'[u] = cur[u]
              /\ data' = data
          BY <2>1, <3>1, <1>t DEF Restart
        <5>2. Height(Genesis) - 1 \in ReadableTo'
          BY BlockFacts, <1>b, <1>r
        <5> QED
          BY <5>1, <5>2, <1>m
      <4>2. Heads'
        BY <2>1, <3>1, <1>t, <1>r, <1>i DEF Restart, Heads
      <4> QED
        BY <4>1, <4>2, <1>j
    <3>2. CASE savedBest # NoBlock
      <4>1. \A u \in Threads : Stored(u)'
        <5>1. pc' = [pc EXCEPT !["main"] = "cleanView"] /\ UNCHANGED <<cur, data>>
          BY <2>1, <3>2 DEF Restart
        <5> QED
          BY <5>1, <1>m
      <4>2. Heads'
        BY <2>1, <3>2, <1>t, <1>r, <1>i DEF Restart, Heads
      <4> QED
        BY <4>1, <4>2, <1>j
    <3> QED
      BY <3>1, <3>2
  <2>2. CASE LoadOrClean \/ CleanFee \/ EngineStarted \/ ReplayFails
    <3>1. /\ pc["main"] \in {"cleanView", "cleanFee", "replay"} /\ up # "down"
          /\ \E s \in {"cleanFee", "engine", "idle"} : pc' = [pc EXCEPT !["main"] = s]
          /\ UNCHANGED <<data, cur, savedBest, best, validated>>
          /\ up' # "down"
      BY <2>2 DEF LoadOrClean, CleanFee, EngineStarted, ReplayFails, Phases
    <3>2. PICK s \in {"cleanFee", "engine", "idle"} : pc' = [pc EXCEPT !["main"] = s]
      BY <3>1
    <3> QED
      BY <3>1, <3>2, <1>p
  <2>3. CASE StartEngine
    <3>1. /\ pc["main"] = "engine" /\ up # "down" /\ up' # "down"
          /\ UNCHANGED <<data, cur, savedBest, best>>
          /\ validated' \in {1, Height(best)}
      BY <2>3 DEF StartEngine, Phases
    <3>2. Height(best) \in ReadableTo /\ 1 \in 0..Height(best)
      BY <3>1, <1>i, <1>h DEF Phases, Heads
    <3>3. PICK s \in {"replay", "idle"} : pc' = [pc EXCEPT !["main"] = s]
      BY <2>3 DEF StartEngine
    <3>4. \A u \in Threads : Stored(u)'
      BY <3>1, <3>3, <1>m
    <3>5. Heads'
      BY <3>1, <3>2, <1>b, <1>i, <1>r DEF Heads
    <3> QED
      BY <3>4, <3>5, <1>j
  <2>4. CASE Replay
    <3>1. pc["main"] = "replay" /\ up # "down" /\ best \in Block
      BY <2>4 DEF Replay, Phases
    <3>2. Height(best) \in ReadableTo /\ validated + 1 \in 0..Height(best)
      BY <2>4, <3>1, <1>t, <1>h, <1>i DEF Replay, Phases, Heads
    <3>3. validated' \in ReadableTo' /\ UNCHANGED <<data, savedBest, best, pc, cur, up>>
      BY <2>4, <3>2, <1>b, <1>r DEF Replay
    <3> QED
      BY <3>3, <1>q
  <2> QED
    BY <1>1, <2>1, <2>2, <2>3, <2>4 DEF Startup
<1>2. CASE Inputs
  <2>1. ASSUME NEW b \in Block, NEW t \in Threads, Height(b) - 1 \in ReadableTo,
               pc' = [pc EXCEPT ![t] = "candidate"], cur' = [cur EXCEPT ![t] = b],
               UNCHANGED <<data, savedBest, best, validated, up>>, t # "main"
        PROVE  StoreInv'
    BY <2>1, <1>t, <1>r, <1>p DEF Steps, Indexed, Updating
  <2>2. ASSUME NEW b \in Block, Create(b) PROVE StoreInv'
    <3>1. up # "down" /\ pc["main"] = "idle" /\ best \in Block
      BY <2>2 DEF Create, Phases, Running
    <3>2. Height(b) - 1 \in ReadableTo
      BY <2>2, <3>1, <1>i, <1>h DEF Create, Heads, Connecting
    <3> QED
      BY <2>2, <3>2, <2>1 DEF Create, Threads
  <2>3. ASSUME NEW b \in Block, Receive(b) PROVE StoreInv'
    <3>1. Height(b) - 1 \in ReadableTo
      BY <2>3, <1>i DEF Receive, Heads
    <3> QED
      BY <2>3, <3>1, <2>1 DEF Receive, Threads
  <2>4. ASSUME NEW b \in Block, ServeBlocks(b) PROVE StoreInv'
    <3>1. CASE ProcessEnds
      BY <2>4, <3>1, <1>0 DEF ServeBlocks
    <3>2. CASE UNCHANGED <<up, memory, pc, cur>>
      BY <2>4, <3>2, <1>q, <1>i, <1>r DEF ServeBlocks, Heads
    <3> QED
      BY <2>4, <3>1, <3>2 DEF ServeBlocks
  <2>5. ASSUME NEW n \in Heights, LearnHeight(n) PROVE StoreInv'
    BY <2>5, <1>q, <1>i, <1>r DEF LearnHeight, Heads
  <2> QED
    BY <1>2, <2>2, <2>3, <2>4, <2>5 DEF Inputs
<1>3. ASSUME NEW t \in Threads, UpdateStep(t) \/ Errors(t) PROVE StoreInv'
  <2> USE DEF Steps, Busy, Indexed, Connecting, Updating
  <2>s. Stored(t)
    BY <1>i
  <2>1. CASE ReturnsError(t) /\ UNCHANGED <<data, hashAt, savedBest>> /\ pc[t] \in Busy
    <3>1. CASE t = "main"
      BY <2>1, <3>1, <1>0 DEF ReturnsError
    <3>2. CASE t # "main"
      <4>1. PICK s \in {"send", "idle"} : pc' = [pc EXCEPT ![t] = s] /\ (s = "send" <=> t = "producer")
        BY <2>1, <3>2 DEF ReturnsError
      <4>2. /\ \A u \in Threads : u # t => cur'[u] = cur[u]
            /\ s = "send" => cur'[t] = cur[t]
            /\ UNCHANGED <<up, best, validated>>
        BY <2>1, <3>2, <4>1, <1>t DEF ReturnsError
      <4>3. Height(cur[t]) - 1 \in ReadableTo
        BY <2>1, <2>s DEF Stored
      <4> QED
        BY <2>1, <3>2, <4>1, <4>2, <4>3, <1>r, <1>p
    <3> QED
      BY <3>1, <3>2
  <2>2. CASE Lock(t)
    BY <2>2, <2>s, <1>r, <1>p DEF Lock, Stored
  <2>3. CASE Drop(t)
    <3>1. t # "main"
      BY <2>3 DEF Drop, Phases
    <3>2. \A u \in Threads : u # t => cur'[u] = cur[u]
      BY <2>3, <1>t DEF Drop
    <3> QED
      BY <2>3, <3>1, <3>2, <1>p DEF Drop
  <2>4. CASE StoreChainKey(t) /\ ~ReturnsError(t)
    BY <2>4, <2>s, <1>r, <1>p DEF StoreChainKey, Stored
  <2>5. CASE StoreData(t)
    BY <2>5, <2>s, <1>r, <1>p DEF StoreData, Stored
  <2>6. CASE StoreHashIndex(t)
    BY <2>6, <2>s, <1>r, <1>p DEF StoreHashIndex, Stored
  <2>7. CASE StoreHeightIndex(t)
    <3>1. cur[t] \in data /\ cur[t] \in Block /\ Height(cur[t]) - 1 \in ReadableTo
      BY <2>7, <2>s DEF StoreHeightIndex, TypeInv, TypeOK, Stored
    <3>2. Height(cur[t]) \in ReadableTo'
      <4>1. /\ data' = data /\ Height(cur[t]) \in Heights
            /\ hashAt' = [hashAt EXCEPT ![Height(cur[t])] = cur[t]]
        BY <2>7, <3>1, BlockFacts DEF StoreHeightIndex
      <4>2. \A i \in Heights : hashAt'[i] = IF i = Height(cur[t]) THEN cur[t] ELSE hashAt[i]
        BY <4>1 DEF TypeInv, TypeOK
      <4> QED
        BY <4>1, <4>2, <3>1 DEF ReadableTo, Heights
    <3> QED
      BY <2>7, <3>1, <3>2, <1>r, <1>p DEF StoreHeightIndex
  <2>8. CASE SaveView(t)
    BY <2>8, <2>s, <1>r, <1>p DEF SaveView, Stored
  <2>9. CASE Payout(t)
    <3>1. Height(cur[t]) \in ReadableTo /\ Height(cur[t]) - 1 \in ReadableTo
      BY <2>9, <2>s DEF Payout, Stored
    <3>2. t = "main" => best = cur[t]
      BY <2>9 DEF Payout, Phases
    <3> QED
      BY <2>9, <3>1, <3>2, <1>r, <1>p DEF Payout
  <2>10. CASE StoreBestState(t) \/ SaveLost(t)
    <3>1. PICK s \in {"cleanView", "known"} : pc' = [pc EXCEPT ![t] = s] /\ UNCHANGED <<cur, data>>
      BY <2>10 DEF StoreBestState, SaveLost
    <3>2. pc[t] = "saveBest" /\ Height(cur[t]) \in ReadableTo /\ Height(cur[t]) - 1 \in ReadableTo
      BY <2>10, <2>s DEF StoreBestState, SaveLost, Stored
    <3>3. \A u \in Threads : Stored(u)'
      BY <3>1, <3>2, <1>r, <1>m
    <3>4. up # "down" /\ pc["main"] \notin Connecting
      BY <3>2, <1>t DEF Phases, Running, Threads
    <3>5. Height(best) \in ReadableTo
      BY <3>4, <1>i DEF Heads
    <3>6. Heads'
      BY <2>10, <3>5, <1>i, <1>r DEF StoreBestState, SaveLost, Heads
    <3> QED
      BY <3>3, <3>6, <1>j
  <2>11. CASE RegisterBlock(t) /\ ~ReturnsError(t)
    BY <2>11, <2>s, <1>r, <1>p DEF RegisterBlock, Stored
  <2>12. CASE UpdateBest(t)
    <3>1. Height(cur[t]) \in ReadableTo /\ Height(cur[t]) - 1 \in ReadableTo
      BY <2>12, <2>s DEF UpdateBest, Stored
    <3>2. \A u \in Threads : Stored(u)'
      BY <2>12, <3>1, <1>r, <1>m DEF UpdateBest
    <3>3. Heads'
      BY <2>12, <3>1, <1>i, <1>r DEF UpdateBest, Heads
    <3> QED
      BY <3>2, <3>3, <1>j
  <2>13. CASE SetKnown(t)
    BY <2>13, <2>s, <1>r, <1>p DEF SetKnown, Stored
  <2>14. CASE SetValidated(t)
    <3>1. Height(cur[t]) \in ReadableTo /\ Height(cur[t]) - 1 \in ReadableTo
      BY <2>14, <2>s DEF SetValidated, Stored
    <3>2. PICK s \in {"send", "idle"} : pc' = [pc EXCEPT ![t] = s] /\ (s = "send" <=> t = "producer")
      BY <2>14 DEF SetValidated
    <3>3. /\ \A u \in Threads : u # t => cur'[u] = cur[u]
          /\ s = "send" => cur'[t] = cur[t]
      BY <2>14, <3>2, <1>t DEF SetValidated
    <3>4. \A u \in Threads : Stored(u)'
      BY <2>14, <3>1, <3>2, <3>3, <1>r, <1>m DEF SetValidated
    <3>5. pc["main"] \in Connecting <=> pc'["main"] \in Connecting
      BY <2>14, <3>2, <1>t DEF SetValidated, Threads
    <3>6. Heads'
      BY <2>14, <3>1, <3>5, <1>i, <1>r DEF SetValidated, Heads
    <3> QED
      BY <3>4, <3>6, <1>j
  <2>15. CASE Send(t)
    <3>1. \A u \in Threads : u # t => cur'[u] = cur[u]
      BY <2>15, <1>t DEF Send
    <3>2. pc[t] = "send" /\ pc' = [pc EXCEPT ![t] = "idle"]
          /\ UNCHANGED <<data, savedBest, best, validated, up>>
      BY <2>15 DEF Send
    <3> QED
      BY <3>1, <3>2, <1>p
  <2>16. StoreChainKey(t) \/ RegisterBlock(t) \/ Fault(t)
           => UNCHANGED <<data, hashAt, savedBest>> /\ pc[t] \in Busy
    BY DEF StoreChainKey, RegisterBlock, Fault
  <2> QED
    BY <1>3, <2>1, <2>2, <2>3, <2>4, <2>5, <2>6, <2>7, <2>8, <2>9, <2>10, <2>11,
       <2>12, <2>13, <2>14, <2>15, <2>16 DEF UpdateStep, Errors, Fault
<1>4. CASE Stop
  BY <1>4, <1>q, <1>i, <1>r DEF Stop, Heads
<1>5. CASE Crash
  BY <1>5, <1>0 DEF Crash
<1>6. CASE UNCHANGED vars
  BY <1>6, <1>q, <1>i, <1>r DEF vars, Heads
<1> QED
  BY <1>1, <1>2, <1>3, <1>4, <1>5, <1>6 DEF Next

LEMMA InvHolds == Spec => [](TypeInv /\ Phases /\ StoreInv)
<1>1. Init => Phases /\ StoreInv
  <2> SUFFICES ASSUME Init PROVE Phases /\ StoreInv
    OBVIOUS
  <2>1. \A t \in Threads : pc[t] = "idle" /\ cur[t] = NoBlock
    BY DEF Init
  <2>2. Phases
    BY <2>1 DEF Init, Phases, Threads, Connecting, Updating
  <2>3. StoreInv
    BY <2>1, ReadableBelow, BlockFacts
       DEF Init, StoreInv, Busy, Indexed, Connecting, Updating
  <2> QED
    BY <2>2, <2>3
<1>2. TypeInv /\ TypeInv' /\ Phases /\ StoreInv /\ [Next]_vars => Phases' /\ StoreInv'
  BY PhasesKept, StoreInvKept
<1> QED
  BY <1>1, <1>2, TypeInvariant, PTL DEF Spec

\* However often the process crashes and whichever writes fail, every block up
\* to the stored best state can be read back by its height.
THEOREM AlwaysRecoverable == Spec => []RecoverableChain
<1>1. StoreInv => RecoverableChain
  BY DEF StoreInv, RecoverableChain, ReadableTo
<1> QED
  BY <1>1, InvHolds, PTL
-----------------------------------------------------------------------------
\* The facts about types and heights that the steps below use.
LEMMA Typed ==
  ASSUME TypeInv
  PROVE  /\ pc \in [Threads -> Steps] /\ cur \in [Threads -> Block \cup {NoBlock}]
         /\ hashAt \in [Heights -> Block \cup {NoBlock}]
         /\ best \in Block \cup {NoBlock} /\ savedBest \in Block \cup {NoBlock}
         /\ chainKey \subseteq Block /\ data \subseteq Block /\ published \subseteq Block
         /\ own \in BOOLEAN
         /\ \A t \in Threads : pc[t] \in Busy => cur[t] \in Block
         /\ \A b \in Block : Height(b) \in Heights /\ Height(b) \in Nat /\ Height(b) >= 1
         /\ Height(NoBlock) = 0 /\ NoBlock \notin Block
         /\ Genesis \in Block /\ Height(Genesis) = 1
<1>1. own \in BOOLEAN
  BY Zenon DEF TypeInv, TypeOK
<1> QED
  BY <1>1, BlockFacts DEF TypeInv, TypeOK, Holding, Heights

\* No step changes which chain this node leads.
LEMMA OwnIsConstant ==
  ASSUME [Next]_vars
  PROVE  own' = own
<1> USE DEF env
<1>1. CASE Startup
  BY <1>1 DEF Startup, Restart, LoadOrClean, CleanFee, StartEngine, Replay, ReplayFails,
     EngineStarted
<1>2. CASE Inputs
  BY <1>2 DEF Inputs, Create, Receive, ServeBlocks, LearnHeight
<1>3. ASSUME NEW t \in Threads, UpdateStep(t) PROVE own' = own
  BY <1>3 DEF UpdateStep, Lock, StoreChainKey, StoreData, StoreHashIndex,
     StoreHeightIndex, SaveView, Payout, RegisterBlock, UpdateBest, StoreBestState,
     SetKnown, SetValidated, Send
<1>4. ASSUME NEW t \in Threads, Errors(t) PROVE own' = own
  BY <1>4 DEF Errors, Drop, Fault, SaveLost
<1>5. CASE Stop \/ Crash \/ UNCHANGED vars
  BY <1>5 DEF Stop, Crash, vars
<1> QED
  BY <1>1, <1>2, <1>3, <1>4, <1>5 DEF Next

\* A thread with a step to take in UpdateChain is not the one that stays out of it.
LEMMA StepIsWriters ==
  ASSUME TypeInv, WriterInv, NEW t \in Threads, UpdateStep(t) \/ Errors(t)
  PROVE  /\ pc[t] # "idle"
         /\ t = "main" \/ t = Writer
         /\ pc[t] \in Busy
<1>1. pc[t] \in Busy
  BY DEF UpdateStep, Errors, Lock, StoreChainKey, StoreData, StoreHashIndex,
     StoreHeightIndex, SaveView, Payout, RegisterBlock, UpdateBest,
     StoreBestState, SetKnown, SetValidated, Send, Drop, Fault, SaveLost, Busy,
     Connecting, Updating
<1>2. pc[t] # "idle"
  BY <1>1 DEF Busy, Connecting, Updating
<1> QED
  BY <1>1, <1>2 DEF WriterInv, Writer, Bystander, Threads

\* The leader's own blocks never come back to it as new ones.
LEMMA LeaderInvKept ==
  ASSUME TypeInv, Phases, LeaderInv, WriterInv, LeaderFaultFree, [Next]_vars
  PROVE  LeaderInv'
<1>o. own' = own
  BY OwnIsConstant
<1> SUFFICES ASSUME own PROVE LeaderInv'
  BY <1>o DEF LeaderInv
<1>t. /\ pc \in [Threads -> Steps] /\ cur \in [Threads -> Block \cup {NoBlock}]
      /\ \A b \in Block : Height(b) \in Nat /\ Height(b) >= 1
      /\ Height(Genesis) = 1
  BY Typed
<1>w. Writer = "producer" /\ Bystander = "netsync" /\ pc["netsync"] = "idle"
  BY DEF WriterInv, Writer, Bystander
<1>f. MaxFaults[own] = 0
  BY DEF LeaderFaultFree
\* Steps in which the producer stands still, or the process ends.
<1>s. ASSUME UNCHANGED <<data, chainKey, created>>,
             published' \subseteq published \cup data,
             \/ pc'["producer"] = pc["producer"] /\ cur'["producer"] = cur["producer"]
             \/ pc'["producer"] = "idle"
      PROVE  LeaderInv'
  BY <1>s, <1>o DEF LeaderInv, Busy, Indexed, Connecting, Updating
<1>0. ASSUME ProcessEnds PROVE pc'["producer"] = "idle"
  BY <1>0 DEF ProcessEnds, Threads
<1> USE DEF Goto, disk, memory, env, Threads
<1>1. CASE Startup
  BY <1>1, <1>t, <1>s DEF Startup, Restart, LoadOrClean, CleanFee, StartEngine, Replay,
     ReplayFails, EngineStarted
<1>2. CASE Inputs
  <2>1. ASSUME NEW b \in Block, Create(b) PROVE LeaderInv'
    <3>1. b \notin created /\ b # Genesis
      <4>1. Height(b) = Height(best) + 1 /\ best \in Block /\ b \notin created
        BY <2>1 DEF Create, Phases, Running
      <4> QED
        BY <4>1, <1>t
    <3> QED
      BY <2>1, <3>1, <1>t, <1>o
         DEF Create, LeaderInv, Busy, Indexed, Connecting, Updating
  <2>2. ASSUME NEW b \in Block, Receive(b) PROVE LeaderInv'
    BY <2>2 DEF Receive, LeaderInv
  <2>3. ASSUME NEW b \in Block, ServeBlocks(b) PROVE LeaderInv'
    BY <2>3, <1>s, <1>0 DEF ServeBlocks, Gettable
  <2>4. ASSUME NEW n \in Heights, LearnHeight(n) PROVE LeaderInv'
    BY <2>4, <1>s DEF LearnHeight
  <2> QED
    BY <1>2, <2>1, <2>2, <2>3, <2>4 DEF Inputs
<1>3. ASSUME NEW t \in Threads, UpdateStep(t) \/ Errors(t) PROVE LeaderInv'
  <2>0. t \in {"main", "producer"} /\ pc[t] \in Busy
    BY <1>3, <1>w, StepIsWriters
  <2> USE DEF LeaderInv, Busy, Indexed, Connecting, Updating
  <2>2. CASE Lock(t) \/ Drop(t) \/ SaveView(t) \/ Payout(t) \/ UpdateBest(t)
                  \/ StoreBestState(t) \/ SetValidated(t)
    BY <2>0, <2>2, <1>t, <1>o DEF Lock, Drop, SaveView, Payout, UpdateBest, StoreBestState,
                            SetValidated
  <2>3. CASE StoreChainKey(t)
    <3>1. CASE t = "main"
      <4>1. cur[t] = Genesis
        BY <2>3, <3>1 DEF StoreChainKey, WriterInv
      <4>2. CASE cur[t] \in chainKey
        BY <2>3, <3>1, <4>2, <1>s, <1>0 DEF StoreChainKey, ReturnsError
      <4>3. CASE cur[t] \notin chainKey
        BY <2>3, <3>1, <4>1, <4>3, <1>t, <1>o DEF StoreChainKey, Phases, Running
      <4> QED
        BY <4>2, <4>3
    <3>2. CASE t = "producer"
      BY <2>3, <3>2, <1>t, <1>o DEF StoreChainKey
    <3> QED
      BY <3>1, <3>2, <2>0
  <2>4. CASE StoreData(t) \/ StoreHashIndex(t) \/ StoreHeightIndex(t)
    BY <2>0, <2>4, <1>t, <1>o DEF StoreData, StoreHashIndex, StoreHeightIndex
  <2>5. CASE RegisterBlock(t)
    BY <2>0, <2>5, <1>t, <1>o DEF RegisterBlock, ReturnsError, Phases
  <2>6. CASE SetKnown(t) \/ Send(t)
    BY <2>0, <2>6, <1>t, <1>o DEF SetKnown, Send, Phases
  <2>7. CASE Fault(t) \/ SaveLost(t)
    BY <2>7, <1>f DEF Fault, SaveLost, TypeInv, TypeOK
  <2> QED
    BY <1>3, <2>2, <2>3, <2>4, <2>5, <2>6, <2>7 DEF UpdateStep, Errors
<1>4. CASE Stop \/ Crash \/ UNCHANGED vars
  BY <1>4, <1>s, <1>0 DEF Stop, Crash, vars
<1> QED
  BY <1>1, <1>2, <1>3, <1>4 DEF Next

\* One writer, above the stored chain: what it has not yet adopted is higher than
\* the best block, and no write goes to a height of the stored chain.
LEMMA WriterInvKept ==
  ASSUME TypeInv, Phases, LeaderInv, WriterInv, LeaderFaultFree, [Next]_vars
  PROVE  WriterInv'
<1>o. own' = own /\ Writer' = Writer /\ Bystander' = Bystander
  BY OwnIsConstant DEF Writer, Bystander
<1>t. /\ pc \in [Threads -> Steps] /\ cur \in [Threads -> Block \cup {NoBlock}]
      /\ hashAt \in [Heights -> Block \cup {NoBlock}]
      /\ best \in Block \cup {NoBlock} /\ savedBest \in Block \cup {NoBlock}
      /\ \A t \in Threads : pc[t] \in Busy => cur[t] \in Block
      /\ \A b \in Block : Height(b) \in Heights /\ Height(b) \in Nat /\ Height(b) >= 1
      /\ Height(NoBlock) = 0 /\ NoBlock \notin Block
      /\ Genesis \in Block /\ Height(Genesis) = 1
  BY Typed
<1>w. /\ Writer \in Threads \ {"main"} /\ Bystander \in Threads \ {"main"}
      /\ Writer # Bystander
      /\ \A t \in Threads : t \in {"main", Writer, Bystander}
  BY DEF Writer, Bystander, Threads
<1>p. /\ up # "down" => best \in Block
      /\ ~Running => pc[Writer] = "idle"
      /\ up # "init" => pc["main"] = "idle"
  BY DEF Phases, Writer
<1> USE DEF Goto, disk, memory, env
\* Steps of one thread that leave best, savedBest and the index of heights alone.
<1>m. ASSUME NEW t \in {"main", Writer}, NEW s \in Steps, pc' = [pc EXCEPT ![t] = s],
             \A u \in Threads : u # t => cur'[u] = cur[u],
             UNCHANGED <<hashAt, savedBest, best, up>>,
             s \in Indexed => hashAt[Height(cur'[t])] = cur'[t],
             t = Writer /\ s \in Ahead => Height(best) < Height(cur'[t]),
             t = Writer /\ s \in Adopted => best = cur'[t],
             t = "main" => /\ s \in Connecting \cup {"saveBest"}
                                => cur'[t] = Genesis /\ best = Genesis
                           /\ s \in Connecting => savedBest = NoBlock
      PROVE  WriterInv'
  <2>2. t \in Threads /\ "main" \in Threads
    BY <1>w DEF Threads
  <2>1. pc'[t] = s /\ \A u \in Threads : u # t => pc'[u] = pc[u] /\ cur'[u] = cur[u]
    BY <1>m, <2>2, <1>t
  <2>3. \A u \in Threads : pc'[u] \in Indexed => hashAt[Height(cur'[u])] = cur'[u]
    BY <1>m, <2>1, <2>2 DEF WriterInv
  <2>4. pc'[Bystander] = "idle"
    BY <1>m, <2>1, <1>w DEF WriterInv
  <2>5. pc'[Writer] \in Ahead => Height(best) < Height(cur'[Writer])
    BY <1>m, <2>1, <2>2, <1>w DEF WriterInv
  <2>6. pc'[Writer] \in Adopted => best = cur'[Writer]
    BY <1>m, <2>1, <2>2, <1>w DEF WriterInv
  <2>7. /\ pc'["main"] \in Connecting \cup {"saveBest"}
             => cur'["main"] = Genesis /\ best = Genesis
        /\ pc'["main"] \in Connecting => savedBest = NoBlock
    BY <1>m, <2>1, <2>2, <1>w DEF WriterInv
  <2> QED
    BY <1>m, <1>o, <2>3, <2>4, <2>5, <2>6, <2>7 DEF WriterInv, StoredTop
<1>0. ASSUME ProcessEnds, UNCHANGED <<hashAt, savedBest>> PROVE WriterInv'
  <2>1. up' = "down" /\ \A t \in Threads : pc'[t] = "idle"
    BY <1>0 DEF ProcessEnds
  <2> QED
    BY <2>1, <1>0, <1>o, <1>w
       DEF WriterInv, StoredTop, Ahead, Adopted, Connecting, Updating, Indexed, Threads
<1>1. CASE Startup
  <2>1. ASSUME NEW m \in Modes, Restart(m) PROVE WriterInv'
    BY <2>1, <1>o, <1>t, <1>w, <1>p
       DEF Restart, WriterInv, StoredTop, Ahead, Adopted, Connecting, Updating, Indexed,
           Threads, Running
  <2>2. CASE \/ LoadOrClean \/ CleanFee \/ StartEngine
             \/ EngineStarted \/ ReplayFails \/ Replay
    BY <2>2, <1>o, <1>t, <1>w, <1>p
       DEF LoadOrClean, CleanFee, StartEngine, EngineStarted, ReplayFails, Replay,
           WriterInv, StoredTop, Ahead, Adopted, Connecting, Updating, Indexed, Threads,
           Running
  <2> QED
    BY <1>1, <2>1, <2>2 DEF Startup
<1>2. CASE Inputs
  <2>1. ASSUME NEW b \in Block, Create(b) PROVE WriterInv'
    BY <2>1, <1>o, <1>t, <1>p
       DEF Create, WriterInv, StoredTop, Ahead, Adopted, Connecting, Updating, Indexed,
           Threads, Running, Writer, Bystander
  <2>2. ASSUME NEW b \in Block, Receive(b) PROVE WriterInv'
    <3>1. ~own
      BY <2>2 DEF Receive, LeaderInv
    <3> QED
      BY <2>2, <3>1, <1>o, <1>t, <1>p
         DEF Receive, WriterInv, StoredTop, Ahead, Adopted, Connecting, Updating, Indexed,
             Threads, Running, Writer, Bystander
  <2>3. ASSUME NEW b \in Block, ServeBlocks(b) PROVE WriterInv'
    BY <2>3, <1>o, <1>0 DEF ServeBlocks, WriterInv, StoredTop
  <2>4. ASSUME NEW n \in Heights, LearnHeight(n) PROVE WriterInv'
    BY <2>4, <1>o DEF LearnHeight, WriterInv, StoredTop
  <2> QED
    BY <1>2, <2>1, <2>2, <2>3, <2>4 DEF Inputs
<1>3. ASSUME NEW t \in Threads, UpdateStep(t) \/ Errors(t) PROVE WriterInv'
  <2>0. /\ t \in {"main", Writer} /\ pc[t] \in Busy /\ cur[t] \in Block
        /\ up # "down" /\ best \in Block
    BY <1>3, <1>w, <1>t, <1>p, StepIsWriters DEF Running, Busy, Connecting, Updating
  <2>w. /\ t = Writer /\ pc[t] \in Ahead => Height(best) < Height(cur[t])
        /\ t = Writer /\ pc[t] \in Adopted => best = cur[t]
        /\ t = "main" => /\ pc[t] \in Connecting \cup {"saveBest"}
                         /\ cur[t] = Genesis /\ best = Genesis
                         /\ pc[t] \in Connecting => savedBest = NoBlock
        /\ pc[t] \in Indexed => hashAt[Height(cur[t])] = cur[t]
    BY <2>0 DEF WriterInv, Phases, Busy, Updating
  <2> USE DEF Ahead, Adopted, Connecting, Updating, Indexed, Steps
  <2>1. CASE Lock(t) \/ SaveView(t) \/ Payout(t) \/ StoreData(t) \/ StoreHashIndex(t)
    BY <2>0, <2>1, <2>w, <1>w, <1>m
       DEF Lock, SaveView, Payout, StoreData, StoreHashIndex, Phases
  <2>2. CASE ReturnsError(t) /\ UNCHANGED <<hashAt, savedBest>>
    <3>1. CASE t = "main"
      BY <2>2, <3>1, <1>0 DEF ReturnsError
    <3>2. CASE t # "main"
      <4>1. PICK s \in {"send", "idle"} : pc' = [pc EXCEPT ![t] = s]
        BY <2>2, <3>2 DEF ReturnsError
      <4>2. /\ \A u \in Threads : u # t => cur'[u] = cur[u]
            /\ UNCHANGED <<up, best>>
        BY <2>2, <3>2, <1>t DEF ReturnsError
      <4> QED
        BY <2>0, <2>2, <3>2, <4>1, <4>2, <1>m
    <3> QED
      BY <3>1, <3>2
  <2>3. CASE StoreChainKey(t) /\ ~ReturnsError(t)
    BY <2>0, <2>3, <2>w, <1>w, <1>m DEF StoreChainKey
  <2>4. CASE StoreHeightIndex(t)
    BY <2>0, <2>4, <1>o, <1>t, <1>w, <1>p DEF StoreHeightIndex, WriterInv, StoredTop, Phases
  <2>5. CASE RegisterBlock(t) /\ ~ReturnsError(t)
    BY <2>0, <2>5, <2>w, <1>w, <1>m DEF RegisterBlock
  <2>6. CASE UpdateBest(t)
    <3>1. /\ t = Writer /\ pc[t] = "update" /\ pc'[t] = "saveBest" /\ best' = cur[t]
          /\ \A u \in Threads : u # t => pc'[u] = pc[u]
          /\ UNCHANGED <<cur, hashAt, savedBest, up>>
      BY <2>0, <2>6, <2>w, <1>t DEF UpdateBest
    <3>2. pc'["main"] = "idle" /\ pc'[Bystander] = "idle"
      BY <3>1, <1>w, <1>p DEF Running, WriterInv, Threads
    <3>3. \A u \in Threads : pc'[u] \in Indexed => hashAt[Height(cur[u])] = cur[u]
      BY <3>1, <2>w DEF WriterInv
    <3>4. Height(savedBest) <= Height(best')
      <4>1. Height(savedBest) <= Height(best) /\ Height(best) < Height(cur[t])
        BY <2>0, <3>1, <2>w DEF WriterInv
      <4>2. Height(savedBest) \in Nat /\ Height(best) \in Nat /\ Height(cur[t]) \in Nat
        BY <2>0, <1>t
      <4> QED
        BY <3>1, <4>1, <4>2
    <3> QED
      BY <3>1, <3>2, <3>3, <3>4, <1>o DEF WriterInv, StoredTop
  <2>7. CASE StoreBestState(t)
    <3>1. /\ pc[t] = "saveBest" /\ pc'[t] = IF t = "main" THEN "cleanView" ELSE "known"
          /\ \A u \in Threads : u # t => pc'[u] = pc[u]
          /\ savedBest' = best /\ UNCHANGED <<cur, hashAt, best, up>>
      BY <2>0, <2>7, <1>t DEF StoreBestState
    <3>2. best = cur[t] /\ hashAt[Height(best)] = best /\ Height(best) \in Nat
      BY <2>0, <3>1, <2>w, <1>t
    <3>3. \A u \in Threads : pc'[u] \in Indexed => hashAt[Height(cur[u])] = cur[u]
      BY <3>1, <2>w DEF WriterInv
    <3>4. pc'[Bystander] = "idle"
      BY <2>0, <3>1, <1>w DEF WriterInv
    <3>5. /\ pc'[Writer] \in Ahead => Height(best) < Height(cur[Writer])
          /\ pc'[Writer] \in Adopted => best = cur[Writer]
      BY <2>0, <3>1, <3>2, <1>w DEF WriterInv
    <3>6. pc'["main"] \notin Connecting \cup Updating
      BY <2>0, <3>1, <1>w, <1>p DEF Running, Threads
    <3> QED
      BY <3>1, <3>2, <3>3, <3>4, <3>5, <3>6, <1>o DEF WriterInv, StoredTop
  <2>8. CASE SaveLost(t) \/ SetKnown(t)
    BY <2>0, <2>8, <2>w, <1>w, <1>m DEF SaveLost, SetKnown
  <2>9. CASE SetValidated(t) \/ Send(t) \/ Drop(t)
    <3>1. PICK s \in {"send", "idle"} : pc' = [pc EXCEPT ![t] = s]
      BY <2>9 DEF SetValidated, Send, Drop
    <3>2. /\ \A u \in Threads : u # t => cur'[u] = cur[u]
          /\ UNCHANGED <<hashAt, savedBest, best, up>> /\ t # "main"
      BY <2>9, <2>w, <1>t DEF SetValidated, Send, Drop
    <3> QED
      BY <2>0, <3>1, <3>2, <1>m
  <2>10. StoreChainKey(t) \/ RegisterBlock(t) \/ Fault(t) => UNCHANGED <<hashAt, savedBest>>
    BY DEF StoreChainKey, RegisterBlock, Fault
  <2> QED
    BY <1>3, <2>1, <2>2, <2>3, <2>4, <2>5, <2>6, <2>7, <2>8, <2>9, <2>10
       DEF UpdateStep, Errors, Fault
<1>4. CASE Stop
  BY <1>4, <1>o DEF Stop, WriterInv, StoredTop
<1>5. CASE Crash
  BY <1>5, <1>0 DEF Crash
<1>6. CASE UNCHANGED vars
  BY <1>6, <1>o DEF vars, WriterInv, StoredTop
<1> QED
  BY <1>1, <1>2, <1>3, <1>4, <1>5, <1>6 DEF Next

\* The inductive invariant of a chain with one writer.
OneWriter == TypeInv /\ Phases /\ StoreInv /\ LeaderFaultFree /\ LeaderInv /\ WriterInv

LEMMA OneWriterHolds == Spec /\ LeaderFaultFree => []OneWriter
<1>1. Init => LeaderInv /\ WriterInv
  <2> SUFFICES ASSUME Init PROVE LeaderInv /\ WriterInv
    OBVIOUS
  <2>1. \A t \in Threads : pc[t] = "idle"
    BY DEF Init
  <2>2. Writer \in Threads /\ Bystander \in Threads /\ "main" \in Threads
        /\ "producer" \in Threads
    BY DEF Writer, Bystander, Threads
  <2>3. LeaderInv
    BY <2>1, <2>2 DEF Init, LeaderInv, Busy, Indexed, Connecting, Updating
  <2>4. WriterInv
    BY <2>1, <2>2 DEF Init, WriterInv, StoredTop, Ahead, Adopted, Indexed, Connecting,
                      Updating
  <2> QED
    BY <2>3, <2>4
<1>2. TypeInv /\ Phases /\ LeaderFaultFree /\ LeaderInv /\ WriterInv /\ [Next]_vars
        => LeaderFaultFree' /\ LeaderInv' /\ WriterInv'
  BY OwnIsConstant, LeaderInvKept, WriterInvKept DEF LeaderFaultFree
<1> QED
  BY <1>1, <1>2, InvHolds, PTL DEF Spec, OneWriter

\* The block of the stored best state is the one its height leads to, for a node
\* that follows the chain and for a leader without errors of the database.
THEOREM StoredTopHolds == Spec /\ LeaderFaultFree => []StoredTop
<1>1. OneWriter => StoredTop
  BY DEF OneWriter, WriterInv
<1> QED
  BY <1>1, OneWriterHolds, PTL

\* The index of heights changes above the stored best state only, and the stored
\* best state never moves down.
LEMMA StoredPrefixStays ==
  ASSUME OneWriter, [Next]_vars
  PROVE  /\ Height(savedBest') >= Height(savedBest)
         /\ \A n \in 1..Height(savedBest) : hashAt'[n] = hashAt[n]
<1>t. /\ pc \in [Threads -> Steps] /\ cur \in [Threads -> Block \cup {NoBlock}]
      /\ hashAt \in [Heights -> Block \cup {NoBlock}]
      /\ best \in Block \cup {NoBlock} /\ savedBest \in Block \cup {NoBlock}
      /\ \A t \in Threads : pc[t] \in Busy => cur[t] \in Block
      /\ \A b \in Block : Height(b) \in Heights /\ Height(b) \in Nat /\ Height(b) >= 1
      /\ Height(NoBlock) = 0
  BY Typed DEF OneWriter
<1>n. Height(savedBest) \in Nat /\ Height(best) \in Nat
  BY <1>t
<1>0. CASE UNCHANGED <<savedBest, hashAt>>
  BY <1>0, <1>n
<1>1. ASSUME NEW t \in Threads, UpdateStep(t)
      PROVE  UNCHANGED <<savedBest, hashAt>> \/ StoreBestState(t) \/ StoreHeightIndex(t)
  BY <1>1 DEF UpdateStep, Lock, StoreChainKey, StoreData, StoreHashIndex, SaveView, Payout,
     RegisterBlock, UpdateBest, SetKnown, SetValidated, Send, disk
<1>2. ASSUME NEW t \in Threads, UpdateStep(t)
      PROVE  /\ up # "down" /\ Height(savedBest) <= Height(best)
             /\ cur[t] \in Block
             /\ pc[t] \in Connecting => Height(savedBest) < Height(cur[t])
  <2>1. (t = "main" \/ t = Writer) /\ pc[t] # "idle" /\ pc[t] \in Busy
    BY <1>2, StepIsWriters DEF OneWriter
  <2>2. up # "down"
    BY <2>1 DEF OneWriter, Phases, Running, Writer
  <2>3. Height(savedBest) <= Height(best)
    BY <2>2 DEF OneWriter, WriterInv
  <2>4. cur[t] \in Block /\ Height(cur[t]) \in Nat /\ Height(cur[t]) >= 1
    BY <2>1, <1>t
  <2>5. ASSUME pc[t] \in Connecting PROVE Height(savedBest) < Height(cur[t])
    <3>1. CASE t = "main"
      BY <2>4, <2>5, <3>1, <1>t DEF OneWriter, WriterInv
    <3>2. CASE t = Writer
      BY <2>3, <2>4, <2>5, <3>2, <1>n DEF OneWriter, WriterInv, Ahead
    <3> QED
      BY <2>1, <3>1, <3>2
  <2> QED
    BY <2>2, <2>3, <2>4, <2>5
<1>3. ASSUME NEW t \in Threads, UpdateStep(t)
      PROVE  /\ Height(savedBest') >= Height(savedBest)
             /\ \A n \in 1..Height(savedBest) : hashAt'[n] = hashAt[n]
  <2>1. CASE StoreBestState(t)
    BY <1>2, <1>3, <2>1, <1>n DEF StoreBestState
  <2>2. CASE StoreHeightIndex(t)
    <3>1. /\ hashAt' = [hashAt EXCEPT ![Height(cur[t])] = cur[t]] /\ savedBest' = savedBest
          /\ pc[t] \in Connecting
      BY <2>2 DEF StoreHeightIndex, Connecting
    <3>2. Height(savedBest) < Height(cur[t]) /\ Height(savedBest) \in 0..MaxHeight
      BY <1>2, <1>3, <3>1, <1>t, ChainStoreAssumption DEF Heights, ChainStoreAssumption
    <3> QED
      BY <3>1, <3>2, <1>n, <1>t, ChainStoreAssumption DEF Heights, ChainStoreAssumption
  <2> QED
    BY <1>0, <1>1, <1>3, <2>1, <2>2
<1>4. ASSUME NEW t \in Threads, Errors(t) PROVE UNCHANGED <<savedBest, hashAt>>
  BY <1>4 DEF Errors, Drop, Fault, SaveLost, disk
<1>5. CASE Startup
  BY <1>0, <1>5 DEF Startup, Restart, LoadOrClean, CleanFee, StartEngine, Replay,
     ReplayFails, EngineStarted, disk
<1>6. CASE Inputs
  BY <1>0, <1>6 DEF Inputs, Create, Receive, ServeBlocks, LearnHeight, disk
<1>7. CASE Stop \/ Crash \/ UNCHANGED vars
  BY <1>0, <1>7 DEF Stop, Crash, vars, disk
<1> QED
  BY <1>0, <1>3, <1>4, <1>5, <1>6, <1>7 DEF Next

\* Over crashes, restarts and failed writes the stored chain only grows: the node
\* implements Ledger with the chain its stored best state vouches for.
THEOREM ImplementsLedger == Spec /\ LeaderFaultFree => StoredChainGrows
<1>1. Init => Committed = << >>
  <2> SUFFICES ASSUME Init PROVE Committed = << >>
    OBVIOUS
  <2>1. Height(savedBest) = 0
    BY BlockFacts DEF Init
  <2> QED
    BY <2>1 DEF Committed
<1>2. OneWriter /\ OneWriter' /\ [Next]_vars => [Chain!Extend]_Committed
  <2> SUFFICES ASSUME OneWriter, OneWriter', [Next]_vars, Committed' # Committed
               PROVE  Chain!Extend
    OBVIOUS
  <2> DEFINE S == Height(savedBest)
             T == Height(savedBest')
  <2>1. S \in Nat /\ T \in Nat /\ T >= S /\ \A n \in 1..S : hashAt'[n] = hashAt[n]
    <3>1. TypeInv /\ TypeInv'
      BY DEF OneWriter
    <3>2. savedBest \in Block \cup {NoBlock} /\ savedBest' \in Block \cup {NoBlock}
      BY <3>1 DEF TypeInv, TypeOK
    <3> QED
      BY <3>2, BlockFacts, StoredPrefixStays DEF Heights
  <2>2. \A n \in 1..T : hashAt'[n] \in Block /\ Height(hashAt'[n]) = n
    BY DEF OneWriter, StoreInv, ReadableTo, TypeInv, TypeOK
  <2>3. /\ Committed = [n \in 1..S |-> hashAt[n]]
        /\ Committed' = [n \in 1..T |-> hashAt'[n]]
    BY DEF Committed
  <2> HIDE DEF S, T
  <2>4. T # S
    BY <2>1, <2>3
  <2>5. Len(Committed) = S /\ Len(Committed') = T
    BY <2>1, <2>3
  <2> QED
    BY <2>1, <2>2, <2>3, <2>4, <2>5 DEF Chain!Extend, Chain!IsChain
<1> QED
  BY <1>1, <1>2, OneWriterHolds, PTL DEF Spec, StoredChainGrows, Chain!LedgerSpec,
     Chain!LedgerInit
-----------------------------------------------------------------------------
\* BlocksTo, height by height.
LEMMA BlocksToFacts ==
  /\ BlocksTo(1) = {}
  /\ \A n \in Nat \ {0} : BlocksTo(n + 1) = BlocksTo(n) \cup {hashAt[n + 1]}
BY DEF BlocksTo

\* A thread in UpdateChain, and where the main thread is meanwhile.
LEMMA StepPhase ==
  ASSUME TypeInv, Phases, NEW t \in Threads, UpdateStep(t) \/ Errors(t)
  PROVE  /\ pc[t] \in Busy
         /\ \/ /\ t = "main" /\ up = "init" /\ pc[t] \in Connecting \cup {"saveBest"}
            \/ /\ t \in Updaters /\ Running /\ pc["main"] = "idle"
               /\ cur[t] \in Block /\ best \in Block
<1>1. pc[t] \in Busy
  BY DEF UpdateStep, Errors, Lock, StoreChainKey, StoreData, StoreHashIndex,
     StoreHeightIndex, SaveView, Payout, RegisterBlock, UpdateBest,
     StoreBestState, SetKnown, SetValidated, Send, Drop, Fault, SaveLost, Busy,
     Connecting, Updating
<1>2. pc[t] # "idle"
  BY <1>1 DEF Busy, Connecting, Updating
<1>3. CASE t = "main"
  BY <1>1, <1>2, <1>3 DEF Phases, Busy
<1>4. CASE t # "main"
  BY <1>1, <1>2, <1>4, Typed DEF Phases, Running, Threads, Updaters
<1> QED
  BY <1>1, <1>3, <1>4

\* The start of the node, up to the replay of the chain.
LEMMA StartInvKept ==
  ASSUME TypeInv, Phases, StartInv, [Next]_vars
  PROVE  StartInv'
<1>t. /\ pc \in [Threads -> Steps] /\ best \in Block \cup {NoBlock}
      /\ \A b \in Block : Height(b) \in Nat /\ Height(b) >= 1
      /\ validated \in Nat /\ known \in Nat
  BY Typed DEF TypeInv, TypeOK
<1>p. /\ up # "init" => pc["main"] = "idle"
      /\ up # "down" => best \in Block
  BY DEF Phases
<1>r. ASSUME up' \in {"run", "stopping"}, pc'["main"] = "idle" PROVE StartInv'
  BY <1>r DEF StartInv
<1>0. ASSUME ProcessEnds PROVE StartInv'
  BY <1>0, Zenon DEF ProcessEnds, StartInv, Threads
<1> USE DEF Goto, disk, memory, env, Threads
<1>1. CASE Startup
  <2>1. ASSUME NEW m \in Modes, Restart(m) PROVE StartInv'
    BY <2>1, <1>t DEF Restart, StartInv
  <2>2. CASE LoadOrClean
    BY <2>2, <1>t, <1>p DEF LoadOrClean, StartInv
  <2>3. CASE CleanFee
    BY <2>3, <1>t, <1>p DEF CleanFee, StartInv
  <2>4. CASE StartEngine
    <3>1. CASE savedFee # NoFee
      BY <2>4, <3>1, <1>t, <1>r DEF StartEngine
    <3>2. CASE savedFee = NoFee
      <4>1. /\ up = "init" /\ up' = up /\ mode' = mode /\ fee' = fee /\ view' = view
            /\ pc["main"] = "engine" /\ pc'["main"] = "replay" /\ validated' = 1
            /\ known' = Height(best) /\ Height(best) >= 1 /\ hashAt' = hashAt
            /\ faulty' = faulty
        BY <2>4, <3>2, <1>t, <1>p DEF StartEngine
      <4>2. BlocksTo(validated)' = {} /\ FeeOf(validated)' = Unmined
        BY <4>1 DEF BlocksTo, FeeOf
      <4> QED
        BY <4>1, <4>2 DEF StartInv
    <3> QED
      BY <3>1, <3>2
  <2>5. CASE Replay
    <3>1. /\ up = "init" /\ up' = up /\ mode' = mode /\ faulty' = faulty
          /\ pc["main"] = "replay" /\ pc' = pc /\ validated' = validated + 1
          /\ known' = known /\ validated < known /\ 1 <= validated
          /\ fee' = validated + 1 /\ view' = view \cup {hashAt[validated + 1]}
          /\ hashAt' = hashAt
      BY <2>5, <1>p DEF Replay, StartInv
    <3>2. BlocksTo(validated)' = BlocksTo(validated) \cup {hashAt[validated + 1]}
      <4>1. BlocksTo(validated)' = BlocksTo(validated + 1)
        BY <3>1 DEF BlocksTo
      <4> QED
        BY <3>1, <4>1, <1>t, BlocksToFacts
    <3>3. FeeOf(validated)' = validated + 1
      BY <3>1, <1>t DEF FeeOf
    <3> QED
      BY <3>1, <3>2, <3>3, <1>t DEF StartInv
  <2>6. CASE ReplayFails \/ EngineStarted
    BY <2>6, <1>t, <1>r DEF ReplayFails, EngineStarted
  <2> QED
    BY <1>1, <2>1, <2>2, <2>3, <2>4, <2>5, <2>6 DEF Startup
<1>2. CASE Inputs
  BY <1>2, <1>t, <1>p, <1>r, <1>0
     DEF Inputs, Create, Receive, ServeBlocks, LearnHeight, Running
<1>3. ASSUME NEW t \in Threads, UpdateStep(t) \/ Errors(t) PROVE StartInv'
  <2>1. CASE t # "main"
    <3>1. Running /\ pc["main"] = "idle"
      BY <1>3, <2>1, StepPhase DEF Updaters
    <3>2. up' = up /\ pc'["main"] = pc["main"]
      BY <1>3, <2>1, <1>t DEF UpdateStep, Errors, Lock, StoreChainKey, StoreData,
         StoreHashIndex, StoreHeightIndex, SaveView, Payout, RegisterBlock, UpdateBest,
         StoreBestState, SetKnown, SetValidated, Send, Drop, Fault, SaveLost,
         ReturnsError
    <3> QED
      BY <3>1, <3>2, <1>r DEF Running
  <2>2. CASE t = "main"
    <3>1. up = "init" /\ pc[t] \in Connecting \cup {"saveBest"}
      BY <1>3, <2>2, StepPhase DEF Updaters
    <3>2. \/ ProcessEnds
          \/ /\ UNCHANGED <<up, mode, fee, faulty>>
             /\ pc'["main"] \in Connecting \cup {"saveBest", "cleanView"}
      BY <1>3, <2>2, <3>1, <1>t DEF UpdateStep, Errors, Lock, StoreChainKey, StoreData,
         StoreHashIndex, StoreHeightIndex, SaveView, Payout, RegisterBlock, UpdateBest,
         StoreBestState, SetKnown, SetValidated, Send, Drop, Fault, SaveLost,
         ReturnsError, Connecting
    <3>3. CASE /\ UNCHANGED <<up, mode, fee, faulty>>
               /\ pc'["main"] \in Connecting \cup {"saveBest", "cleanView"}
      <4>1. pc["main"] # "replay"
        BY <2>2, <3>1 DEF Connecting
      <4>2. pc'["main"] \notin {"replay", "cleanFee", "engine"}
        BY <3>3 DEF Connecting
      <4> QED
        BY <3>1, <3>3, <4>1, <4>2 DEF StartInv
    <3> QED
      BY <3>2, <3>3, <1>0
  <2> QED
    BY <2>1, <2>2
<1>4. CASE Stop
  BY <1>4, <1>p, <1>r DEF Stop
<1>5. CASE Crash
  BY <1>5, <1>0 DEF Crash
<1>6. CASE UNCHANGED vars
  BY <1>6 DEF vars, StartInv, BlocksTo, FeeOf
<1> QED
  BY <1>1, <1>2, <1>3, <1>4, <1>5, <1>6 DEF Next

\* Nobody ever has the genesis block in hand but the main thread.
LEMMA AboveGenesis ==
  ASSUME TypeInv, Phases, [Next]_vars,
         \A t \in Updaters : pc[t] \in Busy => Height(cur[t]) > 1
  PROVE  \A t \in Updaters : pc'[t] \in Busy => Height(cur'[t]) > 1
<1>t. /\ pc \in [Threads -> Steps] /\ cur \in [Threads -> Block \cup {NoBlock}]
      /\ \A b \in Block : Height(b) \in Nat /\ Height(b) >= 1
      /\ Updaters \subseteq Threads \ {"main"} /\ "idle" \notin Busy
  BY Typed DEF Updaters, Threads, Busy, Connecting, Updating
<1>p. Running => best \in Block
  BY DEF Phases, Running
<1>0. ASSUME ProcessEnds PROVE \A t \in Updaters : pc'[t] \notin Busy
  BY <1>0, <1>t DEF ProcessEnds
<1> SUFFICES ASSUME NEW u \in Updaters, pc'[u] \in Busy PROVE Height(cur'[u]) > 1
  OBVIOUS
<1> USE DEF Goto, disk, memory, env
<1>1. CASE Startup
  BY <1>1, <1>t DEF Startup, Restart, LoadOrClean, CleanFee, StartEngine, Replay,
     ReplayFails, EngineStarted
<1>2. CASE Inputs
  BY <1>2, <1>t, <1>p, <1>0 DEF Inputs, Create, Receive, ServeBlocks, LearnHeight
<1>3. ASSUME NEW t \in Threads, UpdateStep(t) \/ Errors(t) PROVE Height(cur'[u]) > 1
  <2>1. pc[t] \in Busy
    BY <1>3, StepPhase
  <2>2. \/ ProcessEnds
        \/ /\ pc' = [pc EXCEPT ![t] = pc'[t]]
           /\ cur' = cur \/ (pc'[t] = "idle" /\ cur' = [cur EXCEPT ![t] = NoBlock])
              \/ cur' = [cur EXCEPT ![t] = @]
    BY <1>3, <1>t DEF UpdateStep, Errors, Lock, StoreChainKey, StoreData,
       StoreHashIndex, StoreHeightIndex, SaveView, Payout, RegisterBlock, UpdateBest,
       StoreBestState, SetKnown, SetValidated, Send, Drop, Fault, SaveLost, ReturnsError
  <2> QED
    BY <2>1, <2>2, <1>t, <1>0
<1>4. CASE Stop \/ UNCHANGED vars
  BY <1>4 DEF Stop, vars
<1>5. CASE Crash
  BY <1>5, <1>0 DEF Crash
<1> QED
  BY <1>1, <1>2, <1>3, <1>4, <1>5 DEF Next

\* A block that RegisterBlock will refuse ends in an error, whatever is registered
\* meanwhile.
LEMMA DoomedStays ==
  ASSUME TypeInv, SharedInv, Doomed, NEW t \in Updaters, UpdateStep(t) \/ Errors(t)
  PROVE  faulty' \/ Doomed'
<1>t. /\ pc \in [Threads -> Steps] /\ cur \in [Threads -> Block \cup {NoBlock}]
      /\ \A b \in Block : Height(b) \in Nat
      /\ Updaters \subseteq Threads \ {"main"} /\ fee \in Nat
      /\ \A u \in Updaters : pc[u] \in Busy => cur[u] \in Block
  BY Typed DEF Updaters, Threads, TypeInv, TypeOK
<1>1. PICK u \in Updaters : pc[u] \in Entered /\ Height(cur[u]) <= Top
  BY DEF Doomed
<1>2. Entered \subseteq Busy
  BY DEF Entered, Busy, Updating
<1>3. Height(cur[u]) \in Nat /\ Height(cur[u]) > 1
  BY <1>1, <1>2, <1>t DEF SharedInv
<1> USE DEF Goto, disk, memory, env
<1>4. CASE faulty' = TRUE
  BY <1>4
<1>5. CASE RegisterBlock(t) /\ faulty' # TRUE
  <2>1. /\ fee = Unmined \/ Height(cur[t]) = fee + 1
        /\ fee' = Height(cur[t]) /\ cur' = cur /\ pc[t] = "register"
        /\ pc' = [pc EXCEPT ![t] = "update"]
    BY <1>5, <1>t DEF RegisterBlock, ReturnsError
  <2>2. Height(cur[t]) \in Nat /\ Height(cur[t]) > 1
    BY <2>1, <1>t DEF SharedInv, Busy, Updating
  <2>3. Top' >= Top /\ u # t
    BY <2>1, <2>2, <1>1, <1>3, <1>t DEF Top, Unmined
  <2>4. pc'[u] = pc[u] /\ Height(cur'[u]) <= Top'
    BY <2>1, <2>3, <1>1, <1>3, <1>t, <2>2 DEF Top, Unmined
  <2> QED
    BY <2>4, <1>1 DEF Doomed
<1>6. CASE ~RegisterBlock(t) /\ faulty' # TRUE
  <2>1. /\ fee' = fee /\ \A x \in Threads : x # t => pc'[x] = pc[x] /\ cur'[x] = cur[x]
        /\ pc[t] \in Entered => pc'[t] \in Entered /\ cur'[t] = cur[t]
    BY <1>6, <1>t DEF UpdateStep, Errors, Lock, StoreChainKey, StoreData,
       StoreHashIndex, StoreHeightIndex, SaveView, Payout, UpdateBest,
       StoreBestState, SetKnown, SetValidated, Send, Drop, Fault, SaveLost,
       ReturnsError, Entered, Connecting
  <2>2. Top' = Top
    BY <2>1 DEF Top
  <2> QED
    BY <2>1, <2>2, <1>1, <1>t DEF Doomed
<1> QED
  BY <1>4, <1>5, <1>6

\* A step of a thread in UpdateChain, while nothing has failed and nobody will.
LEMMA SharedStep ==
  ASSUME TypeInv, Phases, NEW t \in Updaters, UpdateStep(t) \/ Errors(t),
         ~Doomed, ~Doomed', ~faulty', TopInv, ViewInv
  PROVE  TopInv' /\ ViewInv'
<1>t. /\ pc \in [Threads -> Steps] /\ cur \in [Threads -> Block \cup {NoBlock}]
      /\ hashAt \in [Heights -> Block \cup {NoBlock}]
      /\ \A b \in Block : Height(b) \in Heights /\ Height(b) \in Nat /\ Height(b) >= 1
      /\ validated \in Nat /\ fee \in Nat
      /\ Updaters \subseteq Threads \ {"main"}
      /\ \A u \in Updaters : pc[u] \in Busy => cur[u] \in Block
  BY Typed DEF Updaters, Threads, TypeInv, TypeOK
<1>b. pc[t] \in Busy /\ cur[t] \in Block /\ best \in Block
      /\ Height(cur[t]) \in Nat /\ Height(best) \in Nat
  BY <1>t, StepPhase DEF Updaters
<1>u. PICK u \in Updaters : u # t /\ Updaters = {t, u}
  BY DEF Updaters
<1>v. /\ view = BlocksTo(Top) \cup Waiting(t) \cup Waiting(u)
      /\ \A w : w = BlocksTo(Top)' \cup Waiting(t)' \cup Waiting(u)' =>
           w = BlocksTo(Top)' \cup Waiting("netsync")' \cup Waiting("producer")'
  <2>1. CASE t = "netsync" /\ u = "producer"
    BY <2>1 DEF ViewInv
  <2>2. CASE t = "producer" /\ u = "netsync"
    BY <2>2 DEF ViewInv
  <2> QED
    BY <1>u, <2>1, <2>2 DEF Updaters
\* The two threads apart.
<1>i. /\ \A x \in {t, u} :
           /\ pc[x] \in {"candidate"} \cup Entered => Height(cur[x]) <= Height(best) + 1
           /\ pc[x] = "update" => Height(cur[x]) = Top /\ Height(best) = Top - 1
           /\ pc[x] \in Adopted => Height(cur[x]) <= Height(best)
           /\ pc[x] \in Entered => Height(cur[x]) > Top
           /\ pc[x] \in Busy => Height(cur[x]) \in Nat
      /\ validated <= Height(best)
      /\ pc[t] # "update" /\ pc[u] # "update" => Height(best) = Top
      /\ pc[t] = "update" => pc[u] # "update"
      /\ pc[t] \in {"view", "payout", "register"} /\ pc[u] \notin Entered
           => hashAt[Height(cur[t])] = cur[t]
      /\ pc[u] \in {"view", "payout", "register"} /\ pc[t] \notin Entered
           => hashAt[Height(cur[u])] = cur[u]
  <2>1. Top \in Nat
    BY <1>t DEF Top
  <2>2. \A x \in Updaters : pc[x] \in Entered => pc[x] \in Busy /\ ~(Height(cur[x]) <= Top)
    BY DEF Doomed, Entered, Busy, Updating
  <2>3. \A x \in Updaters : pc[x] \in Busy => Height(cur[x]) \in Nat
    BY <1>t
  <2> QED
    BY <1>u, <2>1, <2>2, <2>3 DEF TopInv, ViewInv, Updaters
\* Enough to show of them after the step.
<1>j. ASSUME /\ \A x \in {t, u} :
                  /\ pc'[x] \in {"candidate"} \cup Entered
                       => Height(cur'[x]) <= Height(best') + 1
                  /\ pc'[x] = "update" => Height(cur'[x]) = Top' /\ Height(best') = Top' - 1
                  /\ pc'[x] \in Adopted => Height(cur'[x]) <= Height(best')
             /\ validated' <= Height(best')
             /\ pc'[t] # "update" /\ pc'[u] # "update" => Height(best') = Top'
             /\ pc'[t] = "update" => pc'[u] # "update"
      PROVE  TopInv'
  BY <1>j, <1>u DEF TopInv, Updaters
<1>k. ASSUME /\ view' = BlocksTo(Top)' \cup Waiting(t)' \cup Waiting(u)'
             /\ pc'[t] \in {"view", "payout", "register"} /\ pc'[u] \notin Entered
                  => hashAt'[Height(cur'[t])] = cur'[t]
             /\ pc'[u] \in {"view", "payout", "register"} /\ pc'[t] \notin Entered
                  => hashAt'[Height(cur'[u])] = cur'[u]
      PROVE  ViewInv'
  BY <1>k, <1>u, <1>v DEF ViewInv, Updaters
<1> USE DEF Goto, disk, memory, env
<1>f. ~ReturnsError(t)
  BY <1>t DEF ReturnsError
<1>o. /\ pc'[u] = pc[u] /\ cur'[u] = cur[u] /\ Waiting(u)' = Waiting(u)
      /\ pc' = [pc EXCEPT ![t] = pc'[t]]
  <2>1. /\ pc'[u] = pc[u] /\ cur'[u] = cur[u]
        /\ pc' = [pc EXCEPT ![t] = pc'[t]]
    BY <1>f, <1>t, <1>u DEF UpdateStep, Errors, Lock, StoreChainKey, StoreData,
       StoreHashIndex, StoreHeightIndex, SaveView, Payout, RegisterBlock, UpdateBest,
       StoreBestState, SetKnown, SetValidated, Send, Drop, Fault, SaveLost
  <2> QED
    BY <2>1 DEF Waiting
<1> USE DEF Entered, Connecting, Adopted
\* Steps that leave index, view, estimator and best block alone.
<1>q. ASSUME UNCHANGED <<hashAt, view, fee, best>>
      PROVE  BlocksTo(Top)' = BlocksTo(Top) /\ Top' = Top
  BY <1>q DEF BlocksTo, Top
<1>1. CASE Lock(t) \/ StoreChainKey(t) \/ StoreData(t) \/ StoreHashIndex(t) \/ Payout(t)
  <2>1. /\ UNCHANGED <<hashAt, view, fee, best, validated, cur>>
        /\ pc[t] \in {"candidate"} \cup Connecting
        /\ pc'[t] \in Entered
        /\ pc[t] = "payout" <=> pc'[t] = "register"
        /\ pc[t] \notin {"hashAt", "view"} /\ pc'[t] \notin {"view", "payout"}
    BY <1>1, <1>f, <1>t DEF Lock, StoreChainKey, StoreData, StoreHashIndex, Payout
  <2>2. Waiting(t)' = Waiting(t)
    BY <2>1 DEF Waiting
  <2>3. TopInv'
    BY <2>1, <1>i, <1>j, <1>o, <1>q
  <2>4. ViewInv'
    BY <2>1, <2>2, <1>i, <1>k, <1>o, <1>q, <1>v
  <2> QED
    BY <2>3, <2>4
<1>2. CASE StoreHeightIndex(t)
  <2>1. /\ UNCHANGED <<view, fee, best, validated, cur>>
        /\ pc[t] = "hashAt" /\ pc'[t] = "view"
        /\ hashAt' = [hashAt EXCEPT ![Height(cur[t])] = cur[t]]
    BY <1>2, <1>t DEF StoreHeightIndex
  <2>2. Waiting(t)' = Waiting(t) /\ Top' = Top /\ Top \in Nat
    BY <2>1, <1>t DEF Waiting, Top
  <2>3. BlocksTo(Top)' = BlocksTo(Top)
    <3>1. \A i \in 1..Top : hashAt'[i] = hashAt[i]
      BY <2>1, <2>2, <1>b, <1>i, <1>t
    <3>2. {hashAt'[i] : i \in 2..Top} = {hashAt[i] : i \in 2..Top}
      BY <3>1, <2>2
    <3> QED
      BY <2>2, <3>2 DEF BlocksTo
  <2>4. hashAt'[Height(cur[t])] = cur[t]
    BY <2>1, <1>b, <1>t
  <2>5. TopInv'
    BY <2>1, <2>2, <1>i, <1>j, <1>o
  <2>6. ViewInv'
    BY <2>1, <2>2, <2>3, <2>4, <1>i, <1>k, <1>o, <1>v
  <2> QED
    BY <2>5, <2>6
<1>3. CASE SaveView(t)
  <2>1. /\ UNCHANGED <<hashAt, fee, best, validated, cur>>
        /\ pc[t] = "view" /\ pc'[t] = "payout" /\ view' = view \cup {cur[t]}
    BY <1>3, <1>t DEF SaveView
  <2>2. Waiting(t) = {} /\ Waiting(t)' = {cur[t]} /\ Top' = Top
    BY <2>1 DEF Waiting, Top
  <2>3. BlocksTo(Top)' = BlocksTo(Top)
    BY <2>1, <2>2 DEF BlocksTo
  <2>4. TopInv'
    BY <2>1, <2>2, <1>i, <1>j, <1>o
  <2>5. ViewInv'
    BY <2>1, <2>2, <2>3, <1>i, <1>k, <1>o, <1>v
  <2> QED
    BY <2>4, <2>5
<1>4. CASE RegisterBlock(t)
  <2>1. /\ UNCHANGED <<hashAt, view, best, validated, cur>>
        /\ pc[t] = "register" /\ pc'[t] = "update" /\ fee' = Height(cur[t])
    BY <1>4, <1>f, <1>t DEF RegisterBlock
  <2>2. Top \in Nat /\ Top >= 1
    BY <1>t DEF Top, Unmined
  <2>3. pc[u] # "update" /\ Height(best) = Top /\ Height(cur[t]) = Top + 1
    BY <2>1, <2>2, <1>b, <1>i
  <2>4. Top' = Top + 1
    BY <2>1, <2>2, <2>3 DEF Top, Unmined
  <2>5. pc[u] \notin Entered
    <3> SUFFICES ASSUME pc[u] \in Entered PROVE Doomed'
      OBVIOUS
    <3>1. Height(cur[u]) <= Top + 1
      BY <2>3, <1>i
    <3> QED
      BY <2>1, <2>4, <3>1, <1>o, <1>u DEF Doomed
  <2>6. hashAt[Top + 1] = cur[t]
    BY <2>1, <2>3, <2>5, <1>i
  <2>7. BlocksTo(Top)' = BlocksTo(Top) \cup {cur[t]}
    <3>1. BlocksTo(Top)' = BlocksTo(Top + 1)
      BY <2>1, <2>4 DEF BlocksTo
    <3> QED
      BY <3>1, <2>2, <2>6, BlocksToFacts
  <2>8. Waiting(t) = {cur[t]} /\ Waiting(t)' = {} /\ Waiting(u) = {}
    BY <2>1, <2>5 DEF Waiting
  <2>9. TopInv'
    BY <2>1, <2>2, <2>3, <2>4, <2>5, <1>b, <1>i, <1>j, <1>o
  <2>10. ViewInv'
    BY <2>1, <2>5, <2>7, <2>8, <1>k, <1>o, <1>v
  <2> QED
    BY <2>9, <2>10
<1>5. CASE UpdateBest(t)
  <2>1. /\ UNCHANGED <<hashAt, view, fee, validated, cur>>
        /\ pc[t] = "update" /\ pc'[t] = "saveBest" /\ best' = cur[t]
    BY <1>5, <1>t DEF UpdateBest
  <2>2. Waiting(t) = {} /\ Waiting(t)' = {} /\ Top' = Top /\ Top \in Nat
    BY <2>1, <1>t DEF Waiting, Top
  <2>3. BlocksTo(Top)' = BlocksTo(Top)
    BY <2>1, <2>2 DEF BlocksTo
  <2>4. /\ Height(best') = Height(best) + 1 /\ Height(best') = Top
        /\ Height(cur[t]) = Top /\ pc[u] # "update"
    BY <2>1, <2>2, <1>b, <1>i
  <2>5. TopInv'
    BY <2>1, <2>2, <2>4, <1>b, <1>i, <1>j, <1>o, <1>t DEF Busy, Updating
  <2>6. ViewInv'
    BY <2>1, <2>2, <2>3, <1>i, <1>k, <1>o, <1>v
  <2> QED
    BY <2>5, <2>6
<1>6. CASE StoreBestState(t) \/ SetKnown(t) \/ SaveLost(t)
  <2>1. /\ UNCHANGED <<hashAt, view, fee, best, validated, cur>>
        /\ pc[t] \in Adopted /\ pc'[t] \in Adopted
    BY <1>6, <1>t DEF StoreBestState, SetKnown, SaveLost
  <2>2. Waiting(t) = {} /\ Waiting(t)' = {}
    BY <2>1 DEF Waiting
  <2>3. TopInv'
    BY <2>1, <1>i, <1>j, <1>o, <1>q
  <2>4. ViewInv'
    BY <2>1, <2>2, <1>i, <1>k, <1>o, <1>q, <1>v
  <2> QED
    BY <2>3, <2>4
<1>7. CASE SetValidated(t) \/ Send(t) \/ Drop(t)
  <2>1. /\ UNCHANGED <<hashAt, view, fee, best>>
        /\ pc[t] \in {"validated", "send", "candidate"} /\ pc'[t] \in {"send", "idle"}
        /\ validated' = validated \/ (pc[t] \in Adopted /\ validated' = Height(cur[t]))
    BY <1>7, <1>t DEF SetValidated, Send, Drop
  <2>2. Waiting(t) = {} /\ Waiting(t)' = {}
    BY <2>1 DEF Waiting
  <2>3. TopInv'
    BY <2>1, <1>i, <1>j, <1>o, <1>q
  <2>4. ViewInv'
    BY <2>1, <2>2, <1>i, <1>k, <1>o, <1>q, <1>v
  <2> QED
    BY <2>3, <2>4
<1> QED
  BY <1>1, <1>2, <1>3, <1>4, <1>5, <1>6, <1>7, <1>f DEF UpdateStep, Errors, Fault

\* Registered height, best block and view of a process in which nothing has failed,
\* with one thread or two that bring in blocks.
LEMMA SharedInvKept ==
  ASSUME TypeInv, Phases, StartInv, SharedInv, [Next]_vars
  PROVE  SharedInv'
<1>g. \A t \in Updaters : pc'[t] \in Busy => Height(cur'[t]) > 1
  BY AboveGenesis DEF SharedInv
<1>s. ASSUME ~Running' \/ mode' # "full" \/ faulty' \/ Doomed' \/ (TopInv' /\ ViewInv')
      PROVE  SharedInv'
  BY <1>s, <1>g DEF SharedInv
<1>t. /\ pc \in [Threads -> Steps] /\ cur \in [Threads -> Block \cup {NoBlock}]
      /\ \A b \in Block : Height(b) \in Nat /\ Height(b) >= 1
      /\ validated \in Nat
      /\ Updaters \subseteq Threads \ {"main"} /\ "main" \in Threads
  BY Typed DEF Updaters, Threads, TypeInv, TypeOK
<1>p. /\ up # "init" => pc["main"] = "idle"
      /\ ~Running => \A t \in Updaters : pc[t] = "idle"
      /\ up # "down" => best \in Block
      /\ pc["main"] = "replay" => known = Height(best)
  BY DEF Phases, Updaters
<1>0. ASSUME ProcessEnds PROVE SharedInv'
  BY <1>0, <1>s DEF ProcessEnds, Running
\* Steps that change nothing of it.
<1>q. ASSUME UNCHANGED <<best, fee, validated, view, hashAt, faulty, mode, cur>>,
             \A t \in Updaters : pc'[t] = pc[t], Running
      PROVE  SharedInv'
  <2>1. "netsync" \in Updaters /\ "producer" \in Updaters
    BY DEF Updaters
  <2>2. /\ BlocksTo(Top)' = BlocksTo(Top) /\ Top' = Top
        /\ \A t \in Updaters : Waiting(t)' = Waiting(t)
    BY <1>q DEF BlocksTo, Top, Waiting
  <2>3. Doomed' <=> Doomed
    BY <1>q, <2>2 DEF Doomed
  <2>4. TopInv => TopInv'
    BY <1>q, <2>1, <2>2 DEF TopInv
  <2>5. ViewInv => ViewInv'
    BY <1>q, <2>1, <2>2 DEF ViewInv
  <2> QED
    BY <1>q, <1>s, <2>3, <2>4, <2>5 DEF SharedInv
<1> USE DEF Goto, disk, memory, env
<1>1. CASE Startup
  <2>1. ASSUME NEW m \in Modes, Restart(m) PROVE SharedInv'
    BY <2>1, <1>s DEF Restart, Running
  <2>2. CASE LoadOrClean \/ CleanFee \/ Replay
    BY <2>2, <1>p, <1>s DEF LoadOrClean, CleanFee, Replay, Running
  <2>3. CASE ReplayFails
    BY <2>3, <1>s DEF ReplayFails
  <2>4. CASE StartEngine
    <3>1. CASE savedFee = NoFee
      BY <2>4, <3>1, <1>p, <1>s DEF StartEngine, Running
    <3>2. CASE savedFee # NoFee
      BY <2>4, <3>2, <1>s DEF StartEngine, StartInv
    <3> QED
      BY <3>1, <3>2
  <2>5. CASE EngineStarted
    <3> SUFFICES ASSUME mode = "full" PROVE SharedInv'
      BY <2>5, <1>s DEF EngineStarted
    <3>1. /\ pc["main"] = "replay" /\ up = "init" /\ validated = Height(best)
          /\ UNCHANGED <<best, validated, fee, view, hashAt>>
      BY <2>5, <1>p DEF EngineStarted
    <3>2. \A t \in Updaters : pc'[t] = "idle"
      BY <2>5, <3>1, <1>p, <1>t DEF EngineStarted, Running
    <3>3. fee = FeeOf(validated) /\ view = BlocksTo(validated) /\ validated >= 1
      BY <3>1 DEF StartInv
    <3>4. Top = validated /\ Top' = Top
      BY <3>1, <3>3, <1>t DEF Top, FeeOf, Unmined
    <3>5. BlocksTo(Top)' = view
      BY <3>1, <3>3, <3>4 DEF BlocksTo
    <3>6. Waiting("netsync")' = {} /\ Waiting("producer")' = {}
      BY <3>2 DEF Waiting, Updaters
    <3>7. TopInv'
      BY <3>1, <3>2, <3>4, <1>t DEF TopInv, Entered, Connecting, Adopted, Updaters
    <3>8. ViewInv'
      BY <3>1, <3>2, <3>5, <3>6 DEF ViewInv
    <3> QED
      BY <3>7, <3>8, <1>s
  <2> QED
    BY <1>1, <2>1, <2>2, <2>3, <2>4, <2>5 DEF Startup
<1>2. CASE Inputs
  <2>1. ASSUME NEW b \in Block, Create(b) \/ Receive(b) PROVE SharedInv'
    <3>1. PICK t \in Updaters :
            /\ Running /\ pc[t] = "idle"
            /\ pc' = [pc EXCEPT ![t] = "candidate"] /\ cur' = [cur EXCEPT ![t] = b]
            /\ UNCHANGED <<best, validated, mode, fee, view, hashAt, faulty, up>>
            /\ Height(b) = Height(best) + 1 \/ validated = Height(b) - 1
      BY <2>1 DEF Create, Receive, Updaters
    <3>2. /\ pc'[t] = "candidate" /\ cur'[t] = b
          /\ \A u \in Updaters : u # t => pc'[u] = pc[u] /\ cur'[u] = cur[u]
      BY <3>1, <1>t
    <3>3. /\ BlocksTo(Top)' = BlocksTo(Top) /\ Top' = Top
          /\ \A u \in Updaters : Waiting(u)' = Waiting(u)
      BY <3>1, <3>2 DEF BlocksTo, Top, Waiting
    <3>4. Doomed' <=> Doomed
      BY <3>1, <3>2, <3>3 DEF Doomed, Entered, Connecting
    <3>5. TopInv => TopInv'
      <4> SUFFICES ASSUME TopInv PROVE TopInv'
        OBVIOUS
      <4>1. Height(b) \in Nat /\ Height(best) \in Nat /\ Height(b) <= Height(best) + 1
        BY <3>1, <1>p, <1>t DEF TopInv, Running
      <4> QED
        BY <3>1, <3>2, <3>3, <4>1 DEF TopInv, Adopted, Updaters
    <3>6. ViewInv => ViewInv'
      <4> SUFFICES ASSUME ViewInv PROVE ViewInv'
        OBVIOUS
      <4>1. view' = BlocksTo(Top)' \cup Waiting("netsync")' \cup Waiting("producer")'
        BY <3>1, <3>3 DEF ViewInv, Updaters
      <4> QED
        BY <3>1, <3>2, <4>1 DEF ViewInv, Entered, Connecting
    <3> QED
      BY <3>1, <3>4, <3>5, <3>6, <1>s DEF SharedInv, Running
  <2>2. ASSUME NEW b \in Block, ServeBlocks(b) PROVE SharedInv'
    BY <2>2, <1>q, <1>0 DEF ServeBlocks
  <2>3. ASSUME NEW n \in Heights, LearnHeight(n) PROVE SharedInv'
    BY <2>3, <1>q DEF LearnHeight
  <2> QED
    BY <1>2, <2>1, <2>2, <2>3 DEF Inputs
<1>3. ASSUME NEW t \in Threads, UpdateStep(t) \/ Errors(t) PROVE SharedInv'
  <2>1. CASE t = "main"
    <3>1. up = "init" /\ pc[t] \in Connecting \cup {"saveBest"}
      BY <1>3, <2>1, StepPhase DEF Updaters
    <3>2. ProcessEnds \/ up' = up
      BY <1>3, <2>1, <3>1, <1>t DEF UpdateStep, Errors, Lock, StoreChainKey, StoreData,
         StoreHashIndex, StoreHeightIndex, SaveView, Payout, RegisterBlock, UpdateBest,
         StoreBestState, SetKnown, SetValidated, Send, Drop, Fault, SaveLost,
         ReturnsError, Connecting
    <3> QED
      BY <3>1, <3>2, <1>0, <1>s DEF Running
  <2>2. CASE t # "main"
    <3>1. t \in Updaters /\ Running
      BY <1>3, <2>2, StepPhase
    <3>2. mode' = mode /\ (faulty => faulty')
      BY <1>3, <2>2 DEF UpdateStep, Errors, Lock, StoreChainKey, StoreData,
         StoreHashIndex, StoreHeightIndex, SaveView, Payout, RegisterBlock, UpdateBest,
         StoreBestState, SetKnown, SetValidated, Send, Drop, Fault, SaveLost,
         ReturnsError
    <3> SUFFICES ASSUME mode = "full", ~faulty, ~faulty', ~Doomed'
                 PROVE  TopInv' /\ ViewInv'
      BY <3>2, <1>s
    <3>3. ~Doomed
      BY <1>3, <3>1, DoomedStays
    <3> QED
      BY <1>3, <3>1, <3>3, SharedStep DEF SharedInv
  <2> QED
    BY <2>1, <2>2
<1>4. CASE Stop
  BY <1>4, <1>q DEF Stop, Running
<1>5. CASE Crash
  BY <1>5, <1>0 DEF Crash
<1>6. CASE UNCHANGED vars
  BY <1>6, <1>q, <1>s DEF vars, Running
<1> QED
  BY <1>1, <1>2, <1>3, <1>4, <1>5, <1>6 DEF Next

LEMMA SharedHolds == Spec => [](TypeInv /\ Phases /\ StartInv /\ SharedInv)
<1>1. Init => StartInv /\ SharedInv
  <2> SUFFICES ASSUME Init PROVE StartInv /\ SharedInv
    OBVIOUS
  <2>1. up = "down" /\ ~faulty /\ fee = Unmined
    BY Zenon DEF Init
  <2>2. pc["main"] = "idle" /\ \A t \in Updaters : pc[t] = "idle"
    BY DEF Init, Threads, Updaters
  <2> QED
    BY <2>1, <2>2 DEF StartInv, SharedInv, Running, Busy, Connecting, Updating
<1>2. TypeInv /\ Phases /\ StartInv /\ SharedInv /\ [Next]_vars => StartInv' /\ SharedInv'
  BY StartInvKept, SharedInvKept
<1> QED
  BY <1>1, <1>2, InvHolds, PTL DEF Spec

\* With one writer, until an UpdateChain fails, best state, validated height and
\* estimator move on together, one block at a time.
LEMMA InStepInvKept ==
  ASSUME OneWriter, StartInv, InStepInv, [Next]_vars
  PROVE  InStepInv'
<1>o. own' = own /\ Writer' = Writer
  BY OwnIsConstant DEF Writer
<1>t. /\ pc \in [Threads -> Steps] /\ cur \in [Threads -> Block \cup {NoBlock}]
      /\ \A b \in Block : Height(b) \in Heights /\ Height(b) \in Nat /\ Height(b) >= 1
      /\ hashAt \in [Heights -> Block \cup {NoBlock}]
      /\ validated \in Nat /\ known \in Nat
  BY Typed DEF OneWriter, TypeInv, TypeOK
<1>w. Writer \in Threads /\ Writer # "main"
  BY DEF Writer, Threads
<1>p. /\ up # "init" => pc["main"] = "idle"
      /\ up # "down" => best \in Block
      /\ ~Running => pc[Writer] = "idle"
      /\ pc["main"] = "replay" => known = Height(best)
  BY DEF OneWriter, Phases, Writer
<1>s. ASSUME ~Running' \/ faulty' PROVE InStepInv'
  BY <1>s DEF InStepInv
<1>0. ASSUME ProcessEnds PROVE InStepInv'
  <2>1. ~Running'
    BY <1>0 DEF ProcessEnds, Running
  <2> QED
    BY <2>1, <1>s
\* Steps that change nothing of it.
<1>q. ASSUME UNCHANGED <<best, fee, validated, faulty, mode, cur>>,
             pc'[Writer] = pc[Writer], Running
      PROVE  InStepInv'
  <2>1. FeeOf(Height(best))' = FeeOf(Height(best))
    BY <1>q DEF FeeOf
  <2> QED
    BY <1>q, <1>o, <2>1 DEF InStepInv
<1> USE DEF Goto, disk, memory, env
<1>1. CASE Startup
  <2>1. ASSUME NEW m \in Modes, Restart(m) PROVE InStepInv'
    BY <2>1, <1>s DEF Restart, Running
  <2>2. CASE LoadOrClean \/ CleanFee \/ Replay
    BY <2>2, <1>p, <1>s DEF LoadOrClean, CleanFee, Replay, Running
  <2>3. CASE ReplayFails
    BY <2>3, <1>s DEF ReplayFails
  <2>4. CASE StartEngine
    <3>1. /\ pc["main"] = "engine" /\ up = "init"
          /\ pc[Writer] = "idle" /\ pc'[Writer] = "idle"
      BY <2>4, <1>t, <1>p, <1>w DEF StartEngine, Running
    <3>2. CASE savedFee = NoFee
      BY <2>4, <3>1, <3>2, <1>s DEF StartEngine, Running
    <3>3. CASE savedFee # NoFee
      <4>1. mode # "full" /\ mode' = mode /\ best' = best /\ validated' = Height(best)
        BY <2>4, <3>1, <3>3 DEF StartEngine, StartInv
      <4> QED
        BY <3>1, <4>1, <1>o DEF InStepInv, Ahead, Adopted, Connecting
    <3> QED
      BY <3>2, <3>3
  <2>5. CASE EngineStarted
    <3>1. /\ pc["main"] = "replay" /\ up = "init"
          /\ pc[Writer] = "idle" /\ pc'[Writer] = "idle" /\ validated = Height(best)
          /\ UNCHANGED <<best, validated, mode, fee>>
      BY <2>5, <1>t, <1>p, <1>w DEF EngineStarted, Running
    <3>2. mode = "full" => fee = FeeOf(validated)
      BY <3>1 DEF StartInv
    <3>3. FeeOf(Height(best))' = FeeOf(validated)
      BY <3>1 DEF FeeOf
    <3> QED
      BY <3>1, <3>2, <3>3, <1>o DEF InStepInv, Ahead, Adopted, Connecting
  <2> QED
    BY <1>1, <2>1, <2>2, <2>3, <2>4, <2>5 DEF Startup
<1>2. CASE Inputs
  <2>1. ASSUME NEW b \in Block, Create(b) \/ Receive(b) PROVE InStepInv'
    <3>1. /\ Running /\ pc[Writer] = "idle" /\ pc'[Writer] = "candidate" /\ cur'[Writer] = b
          /\ UNCHANGED <<best, validated, mode, fee, faulty, up>>
      <4>1. CASE Create(b)
        BY <4>1, <1>t DEF Create, Writer, Threads
      <4>2. CASE Receive(b)
        <5>1. ~own
          BY <4>2 DEF Receive, OneWriter, LeaderInv
        <5> QED
          BY <4>2, <5>1, <1>t DEF Receive, Writer, Threads
      <4> QED
        BY <2>1, <4>1, <4>2
    <3>2. ASSUME ~faulty PROVE Height(b) = Height(best) + 1
      <4>1. validated = Height(best)
        BY <3>1, <3>2 DEF InStepInv, Adopted
      <4> QED
        BY <2>1, <4>1, <1>t DEF Create, Receive
    <3>3. FeeOf(Height(best))' = FeeOf(Height(best))
      BY <3>1 DEF FeeOf
    <3> QED
      BY <3>1, <3>2, <3>3, <1>o DEF InStepInv, Ahead, Adopted, Connecting, Running
  <2>2. ASSUME NEW b \in Block, ServeBlocks(b) PROVE InStepInv'
    BY <2>2, <1>q, <1>0 DEF ServeBlocks
  <2>3. ASSUME NEW n \in Heights, LearnHeight(n) PROVE InStepInv'
    BY <2>3, <1>q DEF LearnHeight
  <2> QED
    BY <1>2, <2>1, <2>2, <2>3 DEF Inputs
<1>3. ASSUME NEW t \in Threads, UpdateStep(t) \/ Errors(t) PROVE InStepInv'
  <2>1. CASE t = "main"
    <3>1. up = "init" /\ pc[t] \in Connecting \cup {"saveBest"}
      BY <1>3, <2>1, StepPhase DEF OneWriter, Updaters
    <3>2. ProcessEnds \/ up' = up
      BY <1>3, <2>1, <3>1, <1>t DEF UpdateStep, Errors, Lock, StoreChainKey, StoreData,
         StoreHashIndex, StoreHeightIndex, SaveView, Payout, RegisterBlock, UpdateBest,
         StoreBestState, SetKnown, SetValidated, Send, Drop, Fault, SaveLost,
         ReturnsError, Connecting
    <3> QED
      BY <3>1, <3>2, <1>0, <1>s DEF Running
  <2>2. CASE t # "main"
    <3>0. /\ t = Writer /\ Running /\ cur[t] \in Block /\ best \in Block
          /\ Height(best) \in Nat /\ Height(best) >= 1 /\ Height(cur[t]) \in Nat
      BY <1>3, <2>2, StepPhase, StepIsWriters, <1>t DEF OneWriter
    <3>b. pc[t] \in Adopted => best = cur[t]
      BY <3>0 DEF OneWriter, WriterInv
    <3>i. ASSUME ~faulty
          PROVE  /\ pc[t] \notin Adopted => validated = Height(best)
                 /\ pc[t] \in Adopted => 1 < Height(best)
                 /\ pc[t] \in Ahead => Height(cur[t]) = Height(best) + 1
                 /\ mode = "full" =>
                      fee = IF pc[t] \in {"update"} \cup Adopted THEN Height(cur[t])
                            ELSE FeeOf(Height(best))
      BY <3>0, <3>i DEF InStepInv
    \* Enough to show of the thread after the step.
    <3>j. ASSUME mode' = mode, faulty' = faulty,
                 ~faulty =>
                   /\ pc'[t] \notin Adopted => validated' = Height(best')
                   /\ pc'[t] \in Adopted => 1 < Height(best')
                   /\ pc'[t] \in Ahead => Height(cur'[t]) = Height(best') + 1
                   /\ mode = "full" =>
                        fee' = IF pc'[t] \in {"update"} \cup Adopted THEN Height(cur'[t])
                               ELSE FeeOf(Height(best'))
          PROVE  InStepInv'
      <4>1. FeeOf(Height(best))' = FeeOf(Height(best'))
        BY DEF FeeOf
      <4> QED
        BY <3>j, <3>0, <4>1, <1>o DEF InStepInv
    <3> USE DEF Ahead, Adopted, Connecting, Indexed, Updating
    <3>1. CASE ReturnsError(t)
      BY <3>1, <2>2, <1>s DEF ReturnsError
    <3>2. CASE Lock(t) \/ StoreData(t) \/ StoreHashIndex(t)
      BY <3>2, <3>0, <3>i, <3>j, <1>t DEF Lock, StoreData, StoreHashIndex
    <3>12. CASE Payout(t) \/ SaveLost(t)
      BY <3>12, <2>2, <3>0, <3>i, <3>j, <1>t DEF Payout, SaveLost
    <3>3. CASE StoreChainKey(t) /\ ~ReturnsError(t)
      BY <3>3, <3>0, <3>i, <3>j, <1>t DEF StoreChainKey
    <3>4. CASE Drop(t)
      BY <3>4, <3>0, <3>i, <3>j, <1>t DEF Drop
    <3>5. CASE StoreHeightIndex(t)
      BY <3>5, <3>0, <3>i, <3>j, <1>t DEF StoreHeightIndex
    <3>6. CASE SaveView(t)
      BY <3>6, <3>0, <3>i, <3>j, <1>t DEF SaveView
    <3>7. CASE RegisterBlock(t) /\ ~ReturnsError(t)
      BY <3>7, <3>0, <3>i, <3>j, <1>t DEF RegisterBlock
    <3>8. CASE UpdateBest(t)
      BY <3>8, <3>0, <3>i, <3>j, <1>t DEF UpdateBest
    <3>9. CASE StoreBestState(t) \/ SetKnown(t)
      BY <3>9, <2>2, <3>0, <3>i, <3>j, <1>t DEF StoreBestState, SetKnown
    <3>10. CASE SetValidated(t)
      <4>1. ~faulty => FeeOf(Height(best)) = Height(best)
        BY <3>10, <3>0, <3>i DEF SetValidated, FeeOf
      <4> QED
        BY <3>10, <3>0, <3>b, <3>i, <3>j, <4>1, <1>t DEF SetValidated
    <3>11. CASE Send(t)
      BY <3>11, <3>0, <3>i, <3>j, <1>t DEF Send
    <3> QED
      BY <1>3, <3>1, <3>2, <3>3, <3>4, <3>5, <3>6, <3>7, <3>8, <3>9, <3>10, <3>11,
         <3>12
         DEF UpdateStep, Errors, Fault
  <2> QED
    BY <2>1, <2>2
<1>4. CASE Stop
  BY <1>4, <1>q DEF Stop, Running
<1>5. CASE Crash
  BY <1>5, <1>0 DEF Crash
<1>6. CASE UNCHANGED vars
  BY <1>6, <1>q, <1>s DEF vars, Running
<1> QED
  BY <1>1, <1>2, <1>3, <1>4, <1>5, <1>6 DEF Next

LEMMA InStepHolds == Spec /\ LeaderFaultFree => [](OneWriter /\ InStepInv)
<1>1. Init => InStepInv
  <2> SUFFICES ASSUME Init PROVE InStepInv
    OBVIOUS
  <2>1. up = "down"
    BY Zenon DEF Init
  <2> QED
    BY <2>1 DEF InStepInv, Running
<1>2. OneWriter /\ StartInv /\ InStepInv /\ [Next]_vars => InStepInv'
  BY InStepInvKept
<1> QED
  BY <1>1, <1>2, OneWriterHolds, SharedHolds, PTL DEF Spec

\* Whenever no update is under way and none has failed, the blockchain, the
\* consensus engine and, after a full start, the fee estimator agree on the height.
THEOREM HeightsAlwaysAgree == Spec /\ LeaderFaultFree => []HeightsAgree
<1>1. OneWriter /\ InStepInv => HeightsAgree
  <2> SUFFICES ASSUME InStepInv, Quiet PROVE HeightsAgree
    BY DEF HeightsAgree
  <2>1. Running /\ ~faulty /\ pc[Writer] = "idle"
    BY DEF Quiet, Writer, Threads
  <2> QED
    BY <2>1 DEF InStepInv, HeightsAgree, FeeOf, Adopted
<1> QED
  BY <1>1, InStepHolds, PTL

\* After a full start the double-spend data are exactly those of the best chain,
\* whatever fails in the database, and for a leader that gets its own blocks back,
\* too.
THEOREM ViewAlwaysExact == Spec => []ViewExact
<1>1. TypeInv /\ Phases /\ SharedInv => ViewExact
  <2> SUFFICES ASSUME SharedInv, Quiet, mode = "full" PROVE ViewExact
    BY DEF ViewExact
  <2>1. Running /\ ~faulty /\ \A t \in Updaters : pc[t] = "idle"
    BY DEF Quiet, Updaters, Threads
  <2>2. ~Doomed
    BY <2>1 DEF Doomed, Entered, Connecting
  <2>3. Height(best) = Top /\ view = BlocksTo(Top)
    BY <2>1, <2>2 DEF SharedInv, TopInv, ViewInv, Waiting, Updaters
  <2> QED
    BY <2>3 DEF ViewExact, BlocksTo
<1> QED
  BY <1>1, SharedHolds, PTL
=============================================================================
