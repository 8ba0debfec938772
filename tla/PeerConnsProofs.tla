-------------------------- MODULE PeerConnsProofs ---------------------------
(***************************************************************************)
(* Proofs about the connections of a listener, for any peers, connections, *)
(* limits and number of tries.                                             *)
(***************************************************************************)
EXTENDS PeerConns, FiniteSetTheorems, TLAPS

USE PeerConnsAssumption

\* The connections when c has become k.
LEMMA WithFacts ==
  ASSUME TypeOK, NEW c \in Conn, NEW k \in PeerConn
  PROVE  /\ With(c, k) \in [Conn -> PeerConn \cup {None}]
         /\ \A e \in Conn \ {c} : With(c, k)[e] = conn[e]
         /\ \/ With(c, k)[c] = k
            \/ /\ With(c, k)[c] = None
               /\ k.life = "left" /\ ~k.connecting /\ k.retry = "no"
BY DEF With, TypeOK

\* What connections may become without the table being told: a goroutine goes
\* on, or the last one ends.
Same(k, l) ==
  /\ l.peer = k.peer /\ l.outbound = k.outbound
  /\ l.life = "left" <=> k.life = "left"
  /\ l.retry = "no" <=> k.retry = "no"
  /\ k.life \in {"called", "found"} => l.life \in {"called", "found"}
Calm ==
  \A e \in Conn :
    \/ conn'[e] = conn[e]
    \/ e \in Used /\ conn'[e] = None /\ conn[e].life = "left" /\ conn[e].retry = "no"
    \/ e \in Used /\ conn'[e] # None /\ Same(conn[e], conn'[e])
NoneCloses ==
  \A e \in Used : conn'[e] # None => conn'[e].closed = conn[e].closed

\* The connection c goes on as k.
GoesOn(c, k) ==
  /\ c \in Used /\ k \in PeerConn
  /\ conn' = With(c, k)
  /\ Same(conn[c], k) /\ k.closed = conn[c].closed
  /\ k.retry \in {"asking", "dialing"} => k.retryCount < MaxRetryConn

LEMMA GoesOnFacts ==
  ASSUME TypeOK, RetryInv, NEW c \in Conn, NEW k, GoesOn(c, k)
  PROVE  /\ conn' \in [Conn -> PeerConn \cup {None}]
         /\ Calm /\ NoneCloses /\ RetryInv'
         /\ \A e \in Conn \ {c} : conn'[e] = conn[e]
         /\ k.retry # "no" => conn'[c] = k
<1>1. /\ conn' \in [Conn -> PeerConn \cup {None}]
      /\ \A e \in Conn \ {c} : conn'[e] = conn[e]
      /\ \/ conn'[c] = k
         \/ conn'[c] = None /\ k.life = "left" /\ ~k.connecting /\ k.retry = "no"
  BY WithFacts DEF GoesOn
<1>2. conn[c] \in PeerConn /\ conn[c] # None /\ k \in PeerConn /\ k # None
  BY DEF GoesOn, Used, TypeOK
<1>3. Calm
  BY <1>1, <1>2 DEF Calm, GoesOn, Same, Used
<1>4. NoneCloses
  BY <1>1, <1>2 DEF NoneCloses, GoesOn, Used
<1>5. RetryInv'
  <2> SUFFICES ASSUME NEW e \in Conn, conn'[e] # None, conn'[e].retry # "no"
               PROVE  /\ conn'[e].outbound /\ conn'[e].life = "left"
                      /\ conn'[e].retry \in {"asking", "dialing"} =>
                           conn'[e].retryCount < MaxRetryConn
    BY DEF RetryInv, Used
  <2>1. CASE e # c
    BY <1>1, <2>1 DEF RetryInv, Used
  <2>2. CASE e = c
    <3>1. conn'[e] = k
      BY <1>1, <2>2
    <3>2. k.retry # "no"
      BY <3>1
    <3>3. conn[c].outbound /\ conn[c].life = "left"
      BY <1>2, <3>2 DEF RetryInv, GoesOn, Same, Used
    <3> QED
      BY <3>1, <3>2, <3>3 DEF GoesOn, Same
  <2> QED
    BY <2>1, <2>2
<1> QED
  BY <1>1, <1>2, <1>3, <1>4, <1>5

\* A connection of which the tries are counted is one.
LEMMA CountType ==
  ASSUME NEW k \in PeerConn
  PROVE  k.retryCount \in Nat /\ MaxRetryConn \in Nat /\ 0 < MaxRetryConn
BY DEF PeerConn, PeerConnsAssumption

LEMMA Counted ==
  ASSUME NEW k \in PeerConn, NEW n \in 0..MaxRetryConn,
         NEW r \in {"no", "timer", "asking", "dialing", "canceled", "renewed"}
  PROVE  [k EXCEPT !.retry = r, !.retryCount = n] \in PeerConn
BY DEF PeerConn

LEMMA Reset ==
  ASSUME NEW k \in PeerConn
  PROVE  [k EXCEPT !.connecting = FALSE, !.retryCount = 0] \in PeerConn
<1>1. 0 \in 0..MaxRetryConn
  BY CountType
<1> QED
  BY <1>1 DEF PeerConn

\* The steps of a goroutine that touch nothing but their connection.
Moves(c) ==
  \/ ReaderStarts(c) \/ ReaderEnds(c) \/ WriterEnds(c)
  \/ HandleConnected(c) \/ RetryAsks(c) \/ RetryRenews(c)

LEMMA MovesOn ==
  ASSUME TypeOK, RetryInv, NEW c \in Conn, Moves(c)
  PROVE  \E k : GoesOn(c, k) /\ (conn[c].retry = "dialing" => k.retry = "dialing")
<1>1. conn[c] \in PeerConn /\ c \in Used
  BY DEF Moves, ReaderStarts, ReaderEnds, WriterEnds, HandleConnected, RetryAsks,
         RetryRenews, Used, TypeOK
<1>2. conn[c].life # "left" => conn[c].retry = "no"
  BY <1>1 DEF RetryInv
<1>3. CASE ReaderStarts(c)
  <2>1. GoesOn(c, [conn[c] EXCEPT !.life = "on"])
    BY <1>1, <1>2, <1>3 DEF ReaderStarts, GoesOn, Same, PeerConn
  <2> QED
    BY <1>2, <1>3, <2>1 DEF ReaderStarts
<1>4. CASE ReaderEnds(c)
  <2>1. GoesOn(c, [conn[c] EXCEPT !.life = "off"])
    BY <1>1, <1>2, <1>4 DEF ReaderEnds, GoesOn, Same, PeerConn
  <2> QED
    BY <1>2, <1>4, <2>1 DEF ReaderEnds
<1>5. CASE WriterEnds(c)
  <2>1. GoesOn(c, [conn[c] EXCEPT !.life = "called"])
    BY <1>1, <1>2, <1>5 DEF WriterEnds, GoesOn, Same, PeerConn
  <2> QED
    BY <1>2, <1>5, <2>1 DEF WriterEnds
<1>6. CASE HandleConnected(c)
  <2> DEFINE k == [conn[c] EXCEPT !.connecting = FALSE, !.retryCount = 0]
  <2>1. /\ k.peer = conn[c].peer /\ k.outbound = conn[c].outbound
        /\ k.life = conn[c].life /\ k.closed = conn[c].closed
        /\ k.retry = conn[c].retry /\ k.retryCount = 0
    BY <1>1 DEF PeerConn
  <2>2. k \in PeerConn /\ 0 < MaxRetryConn
    BY <1>1, Reset, CountType
  <2>3. conn' = With(c, k)
    BY <1>6 DEF HandleConnected
  <2> HIDE DEF k
  <2> QED
    BY <1>1, <2>1, <2>2, <2>3 DEF GoesOn, Same
<1>7. CASE RetryAsks(c)
  <2> DEFINE k == [conn[c] EXCEPT !.retry = "asking", !.retryCount = @ + 1]
  <2>1. /\ k.peer = conn[c].peer /\ k.outbound = conn[c].outbound
        /\ k.life = conn[c].life /\ k.closed = conn[c].closed
        /\ k.retry = "asking" /\ k.retryCount = conn[c].retryCount + 1
    BY <1>1 DEF PeerConn
  <2>2. k \in PeerConn /\ k.retryCount < MaxRetryConn
    <3>1. conn[c].retryCount + 1 < MaxRetryConn
      BY <1>7 DEF RetryAsks, TriesLeft
    <3>2. conn[c].retryCount + 1 \in 0..MaxRetryConn
      BY <1>1, <3>1, CountType
    <3>3. k = [conn[c] EXCEPT !.retry = "asking", !.retryCount = conn[c].retryCount + 1]
      BY <1>1 DEF PeerConn
    <3> QED
      BY <1>1, <2>1, <3>1, <3>2, <3>3, Counted
  <2>3. conn' = With(c, k) /\ conn[c].retry = "timer"
    BY <1>7 DEF RetryAsks
  <2> HIDE DEF k
  <2> QED
    BY <1>1, <2>1, <2>2, <2>3 DEF GoesOn, Same
<1>8. CASE RetryRenews(c)
  <2> DEFINE k == [conn[c] EXCEPT !.retry = "renewed"]
  <2>1. /\ k.peer = conn[c].peer /\ k.outbound = conn[c].outbound
        /\ k.life = conn[c].life /\ k.closed = conn[c].closed
        /\ k.retry = "renewed" /\ k \in PeerConn
    BY <1>1 DEF PeerConn
  <2>2. conn' = With(c, k) /\ conn[c].retry = "canceled"
    BY <1>8 DEF RetryRenews
  <2> HIDE DEF k
  <2> QED
    BY <1>1, <2>1, <2>2 DEF GoesOn, Same
<1> QED
  BY <1>3, <1>4, <1>5, <1>6, <1>7, <1>8 DEF Moves

\* A retry that is answered nil, or dialled for.
LEMMA AnsweredOn ==
  ASSUME TypeOK, RetryInv, NEW c \in Conn, c \in Used,
         conn[c].retry \in {"asking", "dialing"}, AnswerNil(c)
  PROVE  \E k : GoesOn(c, k)
<1>1. conn[c] \in PeerConn /\ conn[c].retryCount < MaxRetryConn
  BY DEF TypeOK, RetryInv, Used
<1> DEFINE k == AnsweredNil(conn[c])
<1>2. /\ k.peer = conn[c].peer /\ k.outbound = conn[c].outbound
      /\ k.life = conn[c].life /\ k.closed = conn[c].closed
      /\ k.retry = "timer" /\ k.retryCount = conn[c].retryCount + 1
  BY <1>1 DEF AnsweredNil, PeerConn
<1>3. k \in PeerConn
  <2>1. conn[c].retryCount + 1 \in 0..MaxRetryConn
    BY <1>1, CountType
  <2>2. k = [conn[c] EXCEPT !.retry = "timer", !.retryCount = conn[c].retryCount + 1]
    BY <1>1 DEF AnsweredNil, PeerConn
  <2> HIDE DEF k
  <2> QED
    BY <1>1, <2>1, <2>2, Counted
<1>4. conn' = With(c, k)
  BY DEF AnswerNil, PeerConnsAssumption
<1> HIDE DEF k
<1> QED
  BY <1>2, <1>3, <1>4 DEF GoesOn, Same

LEMMA DialledOn ==
  ASSUME TypeOK, RetryInv, NEW c \in Conn, c \in Used, conn[c].retry = "asking",
         conn' = With(c, [conn[c] EXCEPT !.retry = "dialing"])
  PROVE  \E k : GoesOn(c, k) /\ k.retry = "dialing" /\ k.peer = conn[c].peer
<1>1. conn[c] \in PeerConn /\ conn[c].retryCount < MaxRetryConn
  BY DEF TypeOK, RetryInv, Used
<1> DEFINE k == [conn[c] EXCEPT !.retry = "dialing"]
<1>2. /\ k.peer = conn[c].peer /\ k.outbound = conn[c].outbound
      /\ k.life = conn[c].life /\ k.closed = conn[c].closed
      /\ k.retry = "dialing" /\ k.retryCount = conn[c].retryCount
      /\ k \in PeerConn
  BY <1>1 DEF PeerConn
<1> HIDE DEF k
<1> QED
  BY <1>1, <1>2 DEF GoesOn, Same, k

\* Entries of the table stay or go.
FewerEntries ==
  /\ \A p \in Peer : peerConns'[p] \in {peerConns[p], None}
  /\ \A p \in Registered' :
       /\ conn'[peerConns[p]] # None
       /\ conn'[peerConns[p]].peer = conn[peerConns[p]].peer
       /\ conn'[peerConns[p]].outbound = conn[peerConns[p]].outbound
       /\ conn'[peerConns[p]].life # "left"

Outbound == {p \in Registered : conn[peerConns[p]].outbound}

LEMMA Split ==
  ASSUME NEW R, NEW O \in SUBSET R, IsFiniteSet(R)
  PROVE  /\ IsFiniteSet(O) /\ IsFiniteSet(R \ O)
         /\ Cardinality(O) \in Nat /\ Cardinality(R \ O) \in Nat
         /\ Cardinality(R) - Cardinality(O) = Cardinality(R \ O)
<1>1. IsFiniteSet(O) /\ IsFiniteSet(R \ O)
  BY FS_Subset, R \ O \in SUBSET R
<1>2. /\ Cardinality(O) \in Nat /\ Cardinality(R \ O) \in Nat
      /\ Cardinality(R) \in Nat
  BY <1>1, FS_CardinalityType
<1>3. R \cap O = O
  OBVIOUS
<1>4. Cardinality(R \ O) = Cardinality(R) - Cardinality(O)
  BY <1>3, FS_Difference
<1> QED
  BY <1>1, <1>2, <1>4

\* The numbers of the two kinds are those of two sets that share nothing.
LEMMA Counts ==
  ASSUME IsFiniteSet(Registered)
  PROVE  /\ IsFiniteSet(Outbound) /\ IsFiniteSet(Registered \ Outbound)
         /\ NumOutbound = Cardinality(Outbound) /\ NumOutbound \in Nat
         /\ NumInbound = Cardinality(Registered \ Outbound) /\ NumInbound \in Nat
BY Split DEF NumOutbound, NumInbound, Outbound

\* The limits and the table outlast the loss of entries.
LEMMA FewerKeeps ==
  ASSUME TypeOK, ConnInv, FewerEntries, peerConns' \in [Peer -> Conn \cup {None}],
         dialing' # {} => ~OutboundFull
  PROVE  EntryInv' /\ RoomInv' /\ Registered' \subseteq Registered
<1>1. /\ Registered' \subseteq Registered
      /\ \A p \in Registered' : peerConns'[p] = peerConns[p]
  BY DEF FewerEntries, Registered, TypeOK
<1>2. EntryInv'
  BY <1>1 DEF ConnInv, EntryInv, FewerEntries, Used
<1>3. IsFiniteSet(Registered) /\ IsFiniteSet(Registered')
  BY <1>1, FS_Subset DEF ConnInv, RoomInv
<1>4. /\ Outbound' \subseteq Outbound
      /\ Registered' \ Outbound' \subseteq Registered \ Outbound
  BY <1>1 DEF FewerEntries, Outbound
<1>5. /\ IsFiniteSet(Outbound) /\ IsFiniteSet(Registered \ Outbound)
      /\ NumOutbound = Cardinality(Outbound) /\ NumOutbound \in Nat
      /\ NumInbound = Cardinality(Registered \ Outbound) /\ NumInbound \in Nat
  BY <1>3, Counts
<1>6. /\ NumOutbound' = Cardinality(Outbound') /\ NumOutbound' \in Nat
      /\ NumInbound' = Cardinality(Registered' \ Outbound') /\ NumInbound' \in Nat
  <2>1. Outbound' \in SUBSET Registered'
    BY DEF Outbound
  <2>2. NumOutbound' = Cardinality(Outbound')
    BY DEF NumOutbound, Outbound
  <2>3. /\ IsFiniteSet(Outbound') /\ Cardinality(Outbound') \in Nat
        /\ Cardinality(Registered') - Cardinality(Outbound')
             = Cardinality(Registered' \ Outbound')
        /\ Cardinality(Registered' \ Outbound') \in Nat
    BY <1>3, <2>1, Split
  <2>4. NumInbound' = Cardinality(Registered') - NumOutbound'
    BY DEF NumInbound
  <2> QED
    BY <2>2, <2>3, <2>4
<1>7. NumOutbound' <= NumOutbound /\ NumInbound' <= NumInbound
  BY <1>4, <1>5, <1>6, FS_Subset
<1>8. LimitsKept' /\ (dialing' # {} => ~OutboundFull')
  BY <1>5, <1>6, <1>7 DEF ConnInv, RoomInv, LimitsKept, OutboundFull, PeerConnsAssumption
<1> QED
  BY <1>1, <1>2, <1>3, <1>8 DEF RoomInv

NewPeerConn(p, out) ==
  [peer |-> p, outbound |-> out, life |-> "start", connecting |-> TRUE,
   closed |-> FALSE, retry |-> "no", retryCount |-> 0]

\* A connection c to a peer that has no entry is made; the retry that asked for
\* it, if there is one, is over.
Grows(p, out, c) ==
  /\ p \in Peer \ Registered /\ c \in Conn
  /\ conn' \in [Conn -> PeerConn \cup {None}]
  /\ conn'[c] = NewPeerConn(p, out)
  /\ c \in Used => conn[c].life = "left" /\ conn[c].peer = p
  /\ \A e \in Conn \ {c} :
       \/ conn'[e] = conn[e]
       \/ /\ e \in Used /\ conn[e].life = "left" /\ conn[e].peer = p
          /\ conn'[e] # None =>
               /\ conn'[e].life = "left" /\ conn'[e].retry = "no"
               /\ conn'[e].closed = conn[e].closed
  /\ peerConns' = [peerConns EXCEPT ![p] = c]
  /\ UNCHANGED panicked

LEMMA NewConnGrows ==
  ASSUME TypeOK, NEW p \in Peer \ Registered, NEW out \in BOOLEAN,
         NEW ks \in [Conn -> PeerConn \cup {None}], NewConn(ks, p, out),
         \A e \in Conn :
           \/ ks[e] = conn[e]
           \/ /\ e \in Used /\ conn[e].life = "left" /\ conn[e].peer = p
              /\ ks[e] # None => /\ ks[e].life = "left" /\ ks[e].retry = "no"
                                 /\ ks[e].closed = conn[e].closed
  PROVE  \E c \in Conn : Grows(p, out, c)
<1> DEFINE c == CHOOSE k \in Conn : ks[k] = None
<1>1. c \in Conn /\ ks[c] = None
  BY DEF NewConn
<1>2. ~Closable(ks, p)
  BY DEF Closable
<1>3. Closed(ks, p) = ks /\ panicked' = panicked
  <2>1. Closed(ks, p) = ks
    BY <1>2 DEF Closed
  <2>2. panicked' = (panicked \/ (Closable(ks, p) /\ ks[peerConns[p]].closed))
    BY DEF NewConn, Close
  <2>3. panicked' = panicked
    BY <1>2, <2>2 DEF TypeOK
  <2> QED
    BY <2>1, <2>3
<1>4. NewPeerConn(p, out) \in PeerConn
  BY DEF NewPeerConn, PeerConn, PeerConnsAssumption
<1>5. /\ conn' = [ks EXCEPT ![c] = NewPeerConn(p, out)]
      /\ peerConns' = [peerConns EXCEPT ![p] = c]
  BY <1>3 DEF NewConn, NewPeerConn
<1> HIDE DEF c
<1>6. /\ conn' \in [Conn -> PeerConn \cup {None}]
      /\ conn'[c] = NewPeerConn(p, out)
      /\ \A e \in Conn \ {c} : conn'[e] = ks[e]
  BY <1>1, <1>4, <1>5
<1>7. c \in Used => conn[c].life = "left" /\ conn[c].peer = p
  BY <1>1 DEF Used
<1> QED
  BY <1>1, <1>3, <1>5, <1>6, <1>7 DEF Grows

LEMMA GrowsKeeps ==
  ASSUME TypeOK, ConnInv, NEW p, NEW out \in BOOLEAN, NEW c, Grows(p, out, c),
         dialing' = {}, out => ~OutboundFull,
         ~out => MaxInbound = 0 \/ NumInbound < MaxInbound
  PROVE  /\ peerConns' \in [Peer -> Conn \cup {None}] /\ ConnInv'
<1> DEFINE k == NewPeerConn(p, out)
<1>1. /\ p \in Peer /\ c \in Conn /\ conn'[c] = k /\ k # None
      /\ k.peer = p /\ k.outbound = out /\ k.life = "start" /\ k.retry = "no"
  <2>1. p \in Peer /\ c \in Conn /\ conn'[c] = k
    BY DEF Grows
  <2>2. k \in PeerConn
    BY <2>1 DEF NewPeerConn, PeerConn, PeerConnsAssumption
  <2>3. k.peer = p /\ k.outbound = out /\ k.life = "start" /\ k.retry = "no"
    BY DEF NewPeerConn
  <2> HIDE DEF k
  <2> QED
    BY <2>1, <2>2, <2>3 DEF PeerConnsAssumption
<1> HIDE DEF k
<1>2. /\ peerConns' \in [Peer -> Conn \cup {None}] /\ peerConns'[p] = c
      /\ \A q \in Peer \ {p} : peerConns'[q] = peerConns[q]
  BY <1>1 DEF Grows, TypeOK
<1>3. p \notin Registered /\ Registered' = Registered \cup {p}
  BY <1>1, <1>2 DEF Registered, PeerConnsAssumption, Grows
<1>4. \A q \in Registered : /\ peerConns[q] \in Conn \ {c}
                            /\ conn'[peerConns[q]] = conn[peerConns[q]]
  BY <1>1 DEF ConnInv, EntryInv, Grows, Registered, TypeOK, Used
<1>5. EntryInv'
  BY <1>1, <1>2, <1>3, <1>4 DEF ConnInv, EntryInv, Used, Registered
<1>6. RetryInv'
  BY <1>1 DEF ConnInv, RetryInv, Used, Grows
<1>7. DialInv'
  BY DEF DialInv
<1>8. RoomInv'
  <2>1. IsFiniteSet(Registered) /\ IsFiniteSet(Registered')
    BY <1>3, FS_AddElement DEF ConnInv, RoomInv
  <2>2. /\ IsFiniteSet(Outbound) /\ IsFiniteSet(Registered \ Outbound)
        /\ NumOutbound = Cardinality(Outbound) /\ NumOutbound \in Nat
        /\ NumInbound = Cardinality(Registered \ Outbound) /\ NumInbound \in Nat
    BY <2>1, Counts
  <2>3. /\ NumOutbound' = Cardinality(Outbound')
        /\ NumInbound' = Cardinality(Registered' \ Outbound')
    <3>1. Outbound' \in SUBSET Registered'
      BY DEF Outbound
    <3>2. NumOutbound' = Cardinality(Outbound')
      BY DEF NumOutbound, Outbound
    <3> QED
      BY <2>1, <3>1, <3>2, Split DEF NumInbound
  <2>4. p \notin Outbound /\ p \notin Registered \ Outbound
    BY <1>3 DEF Outbound
  <2>5. CASE out
    <3>0. conn'[c].outbound
      BY <1>1, <2>5
    <3>1. Outbound' = Outbound \cup {p}
      BY <1>2, <1>3, <1>4, <3>0 DEF Outbound, Registered
    <3>2. Registered' \ Outbound' = Registered \ Outbound
      BY <1>3, <3>1
    <3>3. NumOutbound' = NumOutbound + 1 /\ NumInbound' = NumInbound
      BY <2>2, <2>3, <2>4, <3>1, <3>2, FS_AddElement
    <3>4. LimitsKept'
      BY <2>2, <2>5, <3>3 DEF ConnInv, RoomInv, LimitsKept, OutboundFull, PeerConnsAssumption
    <3> QED
      BY <2>1, <3>4 DEF RoomInv
  <2>6. CASE ~out
    <3>1. Outbound' = Outbound
      BY <1>1, <1>2, <1>3, <1>4, <2>6 DEF Outbound, Registered
    <3>2. Registered' \ Outbound' = (Registered \ Outbound) \cup {p}
      BY <1>3, <2>4, <3>1
    <3>3. NumOutbound' = NumOutbound /\ NumInbound' = NumInbound + 1
      BY <2>2, <2>3, <2>4, <3>1, <3>2, FS_AddElement
    <3>4. LimitsKept'
      BY <2>2, <2>6, <3>3 DEF ConnInv, RoomInv, LimitsKept, OutboundFull, PeerConnsAssumption
    <3> QED
      BY <2>1, <3>4 DEF RoomInv
  <2> QED
    BY <2>5, <2>6
<1> QED
  BY <1>2, <1>5, <1>6, <1>7, <1>8 DEF ConnInv

(***************************************************************************)
(* The kinds of steps: those that leave the table alone, those that add an *)
(* entry, and the four that end a connection or its tries.                 *)
(***************************************************************************)
CalmTable ==
  /\ conn' \in [Conn -> PeerConn \cup {None}]
  /\ Calm /\ UNCHANGED peerConns
  /\ RetryInv' /\ DialInv'
  /\ dialing' # {} => ~OutboundFull

CalmStep == CalmTable /\ NoneCloses /\ UNCHANGED panicked

GrowStep ==
  /\ dialing' = {}
  /\ \E p \in Peer, c \in Conn, out \in BOOLEAN :
       /\ Grows(p, out, c)
       /\ out => ~OutboundFull
       /\ ~out => MaxInbound = 0 \/ NumInbound < MaxInbound

LEMMA StillCalm ==
  ASSUME TypeOK, ConnInv, UNCHANGED <<conn, peerConns, panicked>>,
         DialInv', dialing' # {} => ~OutboundFull
  PROVE  CalmStep
<1>1. Calm
  BY DEF Calm
<1>2. NoneCloses
  BY DEF NoneCloses
<1>3. RetryInv'
  BY DEF ConnInv, RetryInv, Used
<1> QED
  BY <1>1, <1>2, <1>3 DEF CalmStep, CalmTable, TypeOK

LEMMA MovesCalm ==
  ASSUME TypeOK, ConnInv, NEW c \in Conn, Moves(c)
  PROVE  CalmStep /\ UNCHANGED dialing
<1>1. PICK k : GoesOn(c, k) /\ (conn[c].retry = "dialing" => k.retry = "dialing")
  BY MovesOn DEF ConnInv
<1>2. /\ conn' \in [Conn -> PeerConn \cup {None}]
      /\ Calm /\ NoneCloses /\ RetryInv'
      /\ \A e \in Conn \ {c} : conn'[e] = conn[e]
      /\ k.retry # "no" => conn'[c] = k
  BY <1>1, GoesOnFacts DEF ConnInv
<1>3. UNCHANGED <<peerConns, dialing, panicked>>
  BY DEF Moves, ReaderStarts, ReaderEnds, WriterEnds, HandleConnected, RetryAsks,
         RetryRenews
<1>4. k # None /\ k.peer = conn[c].peer
  BY <1>1 DEF GoesOn, Same, PeerConnsAssumption
<1>5. DialInv'
  <2>1. Registered' = Registered
    BY <1>3 DEF Registered
  <2> SUFFICES ASSUME NEW d \in dialing, d.asker # None
               PROVE  /\ d.asker \in Used' /\ conn'[d.asker].peer = d.peer
                      /\ conn'[d.asker].retry = "dialing"
    BY <1>3, <2>1 DEF ConnInv, DialInv
  <2>2. /\ d.asker \in Used /\ conn[d.asker].peer = d.peer
        /\ conn[d.asker].retry = "dialing"
    BY DEF ConnInv, DialInv
  <2>3. CASE d.asker = c
    BY <1>1, <1>2, <1>4, <2>2, <2>3 DEF Used
  <2>4. CASE d.asker # c
    BY <1>2, <2>2, <2>4 DEF Used
  <2> QED
    BY <2>3, <2>4
<1>6. dialing' # {} => ~OutboundFull
  BY <1>3 DEF ConnInv, RoomInv
<1> QED
  BY <1>2, <1>3, <1>5, <1>6 DEF CalmStep, CalmTable

\* handleConn, for a request without an answer.
LEMMA RequestCalm ==
  ASSUME TypeOK, ConnInv, NEW p \in Peer, TakeRequest(p)
  PROVE  CalmStep /\ dialing' \subseteq {[peer |-> p, asker |-> None]}
<1>1. dialing = {} /\ UNCHANGED <<conn, peerConns, panicked>>
  BY DEF TakeRequest, AtSelect, HandleConn, AnswerNil
<1>2. \/ dialing' = {}
      \/ /\ dialing' = {[peer |-> p, asker |-> None]}
         /\ p \notin Registered /\ ~OutboundFull
  BY <1>1 DEF TakeRequest, HandleConn
<1>3. Registered' = Registered
  BY <1>1 DEF Registered
<1>4. DialInv'
  BY <1>2, <1>3 DEF DialInv
<1>5. dialing' # {} => ~OutboundFull
  BY <1>2
<1> QED
  BY <1>1, <1>2, <1>4, <1>5, StillCalm

\* handleConn, for a retry.
LEMMA RetryCalm ==
  ASSUME TypeOK, ConnInv, NEW c \in Conn, TakeRetry(c)
  PROVE  CalmStep /\ dialing' \subseteq {[peer |-> conn[c].peer, asker |-> c]}
<1> DEFINE p == conn[c].peer
<1>1. /\ dialing = {} /\ UNCHANGED <<peerConns, panicked>>
      /\ c \in Used /\ conn[c].retry = "asking" /\ c # None
  BY DEF TakeRetry, AtSelect, PeerConnsAssumption
<1>2. HandleConn(p, c)
  BY DEF TakeRetry
<1>3. Registered' = Registered
  BY <1>1 DEF Registered
<1>4. CASE AnswerNil(c) /\ UNCHANGED dialing
  <2>1. PICK k : GoesOn(c, k)
    BY <1>1, <1>4, AnsweredOn DEF ConnInv
  <2>2. /\ conn' \in [Conn -> PeerConn \cup {None}]
        /\ Calm /\ NoneCloses /\ RetryInv'
    BY <2>1, GoesOnFacts DEF ConnInv
  <2> QED
    BY <1>1, <1>4, <2>2 DEF CalmStep, CalmTable, DialInv
<1>5. CASE /\ p \notin Registered /\ ~OutboundFull
           /\ dialing' = dialing \cup {[peer |-> p, asker |-> c]}
           /\ IF c = None THEN UNCHANGED conn
              ELSE conn' = With(c, [conn[c] EXCEPT !.retry = "dialing"])
  <2>1. PICK k : GoesOn(c, k) /\ k.retry = "dialing" /\ k.peer = p
    BY <1>1, <1>5, DialledOn DEF ConnInv
  <2>2. /\ conn' \in [Conn -> PeerConn \cup {None}]
        /\ Calm /\ NoneCloses /\ RetryInv'
        /\ k.retry # "no" => conn'[c] = k
    BY <2>1, GoesOnFacts DEF ConnInv
  <2>3. conn'[c] = k /\ c \in Used'
    BY <2>1, <2>2 DEF GoesOn, Used, PeerConnsAssumption
  <2>4. dialing' = {[peer |-> p, asker |-> c]}
    BY <1>1, <1>5
  <2>5. DialInv'
    BY <1>3, <1>5, <2>1, <2>3, <2>4 DEF DialInv
  <2> QED
    BY <1>1, <1>5, <2>2, <2>4, <2>5 DEF CalmStep, CalmTable
<1> QED
  BY <1>2, <1>4, <1>5 DEF HandleConn

LEMMA DialFailsCalm ==
  ASSUME TypeOK, ConnInv, NEW d \in dialing, DialFails(d)
  PROVE  CalmStep /\ dialing' = {}
<1>1. dialing' = {} /\ UNCHANGED <<peerConns, panicked>> /\ AnswerNil(d.asker)
  BY DEF DialFails, ConnInv, DialInv
<1>2. DialInv'
  BY <1>1 DEF DialInv
<1>3. CASE d.asker = None
  BY <1>1, <1>2, <1>3, StillCalm DEF AnswerNil
<1>4. CASE d.asker # None
  <2>1. /\ d.asker \in Conn /\ d.asker \in Used
        /\ conn[d.asker].retry = "dialing"
    BY <1>4 DEF ConnInv, DialInv, Used
  <2>2. PICK k : GoesOn(d.asker, k)
    BY <1>1, <2>1, AnsweredOn DEF ConnInv
  <2>3. /\ conn' \in [Conn -> PeerConn \cup {None}]
        /\ Calm /\ NoneCloses /\ RetryInv'
    BY <2>1, <2>2, GoesOnFacts DEF ConnInv
  <2> QED
    BY <1>1, <1>2, <2>3 DEF CalmStep, CalmTable
<1> QED
  BY <1>3, <1>4

LEMMA DialSucceedsGrows ==
  ASSUME TypeOK, ConnInv, NEW d \in dialing, DialSucceeds(d)
  PROVE  GrowStep
<1> DEFINE ks == IF d.asker = None THEN conn
                 ELSE With(d.asker, [conn[d.asker] EXCEPT !.retry = "no"])
<1>1. /\ dialing' = {} /\ NewConn(ks, d.peer, TRUE)
      /\ d.peer \in Peer \ Registered /\ ~OutboundFull
  BY DEF DialSucceeds, ConnInv, DialInv, RoomInv, TypeOK
<1>2. /\ ks \in [Conn -> PeerConn \cup {None}]
      /\ \A e \in Conn :
           \/ ks[e] = conn[e]
           \/ /\ e \in Used /\ conn[e].life = "left" /\ conn[e].peer = d.peer
              /\ ks[e] # None => /\ ks[e].life = "left" /\ ks[e].retry = "no"
                                 /\ ks[e].closed = conn[e].closed
  <2>1. CASE d.asker = None
    BY <2>1 DEF TypeOK
  <2>2. CASE d.asker # None
    <3> DEFINE c == d.asker
               k == [conn[c] EXCEPT !.retry = "no"]
    <3>1. /\ c \in Conn /\ c \in Used /\ conn[c].retry = "dialing"
          /\ conn[c].peer = d.peer /\ conn[c].life = "left"
      BY <2>2 DEF ConnInv, DialInv, RetryInv, Used
    <3>2. conn[c] \in PeerConn
      BY <3>1 DEF Used, TypeOK
    <3>3. /\ k \in PeerConn /\ k.life = conn[c].life /\ k.retry = "no"
          /\ k.closed = conn[c].closed
      BY <3>2 DEF PeerConn
    <3>4. ks = With(c, k)
      BY <2>2
    <3> HIDE DEF k, c, ks
    <3> QED
      BY <3>1, <3>3, <3>4, WithFacts
  <2> QED
    BY <2>1, <2>2
<1> HIDE DEF ks
<1>3. \E c \in Conn : Grows(d.peer, TRUE, c)
  BY <1>1, <1>2, NewConnGrows
<1> QED
  BY <1>1, <1>3 DEF GrowStep

LEMMA StreamSteps ==
  ASSUME TypeOK, ConnInv, NEW p \in Peer, HandleStream(p)
  PROVE  (CalmStep /\ UNCHANGED dialing) \/ GrowStep
<1>1. dialing = {} /\ dialing' = {}
  BY DEF HandleStream, AtSelect
<1>2. CASE StreamRefused(p)
  BY <1>1, <1>2, StillCalm DEF HandleStream, DialInv
<1>3. CASE ~StreamRefused(p)
  <2>1. p \notin Registered /\ ~(MaxInbound > 0 /\ NumInbound >= MaxInbound)
    BY <1>3 DEF StreamRefused
  <2>2. NumInbound \in Nat
    BY Counts DEF ConnInv, RoomInv
  <2>3. MaxInbound = 0 \/ NumInbound < MaxInbound
    BY <2>1, <2>2 DEF PeerConnsAssumption
  <2>4. NewConn(conn, p, FALSE)
    BY <1>3 DEF HandleStream
  <2>5. \E c \in Conn : Grows(p, FALSE, c)
    BY <2>1, <2>4, NewConnGrows DEF TypeOK
  <2> QED
    BY <1>1, <2>3, <2>5 DEF GrowStep
<1> QED
  BY <1>2, <1>3

\* A connection is taken leave of: it has no entry any more.
Leaves(c) ==
  /\ c \in Used /\ conn[c].life \in {"called", "found"}
  /\ conn' = With(c, Left(conn[c]))
  /\ peerConns' = [peerConns EXCEPT ![conn[c].peer] = None]
  /\ UNCHANGED <<dialing, panicked>>

\* handleDisconnected finds no entry, or finds one and goes on.
LEMMA DisconnectSteps ==
  ASSUME TypeOK, ConnInv, NEW c \in Conn, HandleDisconnected(c)
  PROVE  \/ Leaves(c)
         \/ /\ CalmTable /\ UNCHANGED dialing
            /\ TableRight(conn[c].peer) => NoneCloses /\ UNCHANGED panicked
            /\ \A e \in Used : conn'[e] # None /\ conn'[e].closed /\ ~conn[e].closed =>
                 conn[e].peer = conn[c].peer
<1> DEFINE p == conn[c].peer
           x == peerConns[p]
<1>1. /\ c \in Used /\ conn[c].life = "called" /\ conn[c] \in PeerConn /\ p \in Peer
      /\ UNCHANGED <<peerConns, pendingPeers, requests, dialing>>
  BY DEF HandleDisconnected, Used, TypeOK, PeerConn
<1>2. panicked' = (panicked \/ (Closable(conn, p) /\ conn[x].closed))
  BY DEF HandleDisconnected, Close
<1>3. CASE p \notin Registered
  <2>1. ~Closable(conn, p)
    BY <1>3 DEF Closable
  <2>2. panicked' = panicked
    BY <1>2, <2>1 DEF TypeOK
  <2>3. peerConns' = [peerConns EXCEPT ![p] = None]
    BY <1>1, <1>3 DEF Registered, TypeOK
  <2>4. conn' = With(c, Left(conn[c]))
    BY <1>3 DEF HandleDisconnected
  <2> QED
    BY <1>1, <2>2, <2>3, <2>4 DEF Leaves
<1>4. CASE p \in Registered
  <2>1. x \in Conn /\ x \in Used /\ conn[x] \in PeerConn /\ conn[x].peer = p
    BY <1>4 DEF ConnInv, EntryInv, Used, TypeOK
  <2>2. conn' = [Closed(conn, p) EXCEPT ![c].life = "found"]
    BY <1>4 DEF HandleDisconnected
  <2>3. Closable(conn, p) <=> conn[x].life = "on"
    BY <1>4 DEF Closable
  <2> DEFINE k == [conn[c] EXCEPT !.life = "found"]
             y == [conn[x] EXCEPT !.closed = TRUE]
  <2>4. /\ k \in PeerConn /\ k.peer = p /\ k.outbound = conn[c].outbound
        /\ k.life = "found" /\ k.closed = conn[c].closed
        /\ k.retry = conn[c].retry /\ k.retryCount = conn[c].retryCount
    BY <1>1 DEF PeerConn
  <2>5. /\ y \in PeerConn /\ y.peer = p /\ y.outbound = conn[x].outbound
        /\ y.life = conn[x].life /\ y.retry = conn[x].retry
        /\ y.retryCount = conn[x].retryCount
    BY <2>1 DEF PeerConn
  <2>6. /\ conn' \in [Conn -> PeerConn \cup {None}]
        /\ conn'[c] = k
        /\ \A e \in Conn \ {c, x} : conn'[e] = conn[e]
        /\ x # c => conn'[x] = IF conn[x].life = "on" THEN y ELSE conn[x]
    <3>1. CASE conn[x].life = "on"
      <4>1. Closed(conn, p) = [conn EXCEPT ![x].closed = TRUE] /\ x # c
        BY <1>1, <2>3, <3>1 DEF Closed
      <4>2. conn' = [[conn EXCEPT ![x] = y] EXCEPT ![c] = k]
        BY <1>1, <2>1, <2>2, <4>1 DEF TypeOK
      <4> HIDE DEF k, y, x
      <4> QED
        BY <1>1, <2>1, <2>4, <2>5, <3>1, <4>1, <4>2 DEF TypeOK
    <3>2. CASE conn[x].life # "on"
      <4>1. Closed(conn, p) = conn
        BY <2>3, <3>2 DEF Closed
      <4>2. conn' = [conn EXCEPT ![c] = k]
        BY <2>2, <4>1 DEF TypeOK
      <4> HIDE DEF k, y, x
      <4> QED
        BY <1>1, <2>1, <2>4, <3>2, <4>2 DEF TypeOK
    <3> QED
      BY <3>1, <3>2
  <2>7. k # None /\ y # None
    BY <2>4, <2>5 DEF PeerConnsAssumption
  <2> HIDE DEF k, y, x
  <2>8. Calm
    BY <1>1, <2>1, <2>4, <2>5, <2>6, <2>7 DEF Calm, Same, Used
  <2>9. RetryInv'
    BY <1>1, <2>1, <2>4, <2>5, <2>6, <2>7 DEF ConnInv, RetryInv, Used
  <2>10. DialInv'
    <3>1. Registered' = Registered
      BY <1>1 DEF Registered
    <3> QED
      BY <1>1, <2>1, <2>4, <2>5, <2>6, <2>7, <3>1 DEF ConnInv, DialInv, Used
  <2>11. TableRight(p) => x = c
    BY <1>1 DEF TableRight, x
  <2>12. x = c => NoneCloses
    BY <1>1, <2>4, <2>6 DEF NoneCloses, Used
  <2>13. x = c => panicked' = panicked
    BY <1>1, <1>2, <2>3 DEF TypeOK
  <2>14. \A e \in Used : conn'[e] # None /\ conn'[e].closed /\ ~conn[e].closed =>
           conn[e].peer = p
    BY <1>1, <2>1, <2>4, <2>6 DEF Used
  <2>15. CalmTable
    BY <1>1, <2>6, <2>8, <2>9, <2>10 DEF CalmTable, ConnInv, RoomInv
  <2> QED
    BY <1>1, <2>11, <2>12, <2>13, <2>14, <2>15
<1> QED
  BY <1>3, <1>4

LEMMA RemoveLeaves ==
  ASSUME NEW c \in Conn, RemovePeerConn(c)
  PROVE  Leaves(c)
BY DEF RemovePeerConn, Leaves

\* A connection that has left is tried again if it is outbound.
LEMMA LeavesFacts ==
  ASSUME TypeOK, ConnInv, NEW c \in Conn, Leaves(c)
  PROVE  /\ conn' \in [Conn -> PeerConn \cup {None}]
         /\ \A e \in Conn \ {c} : conn'[e] = conn[e]
         /\ conn'[c] # None => /\ conn'[c].life = "left"
                               /\ conn'[c].closed = conn[c].closed
                               /\ conn'[c].peer = conn[c].peer
                               /\ conn'[c].outbound = conn[c].outbound
                               /\ conn'[c].retry # "no" =>
                                    conn'[c].retry = "timer" /\ conn[c].outbound
         /\ conn[c].outbound => conn'[c] # None /\ conn'[c].retry = "timer"
<1> DEFINE k == Left(conn[c])
<1>1. conn[c] \in PeerConn /\ conn[c].outbound \in BOOLEAN
  BY DEF Leaves, Used, TypeOK, PeerConn
<1>2. /\ k.peer = conn[c].peer /\ k.outbound = conn[c].outbound
      /\ k.closed = conn[c].closed /\ k.life = "left"
      /\ k.retry = IF conn[c].outbound THEN "timer" ELSE "no"
  BY <1>1 DEF Left, PeerConn
<1>3. k \in PeerConn
  BY <1>1 DEF Left, PeerConn
<1>4. conn' = With(c, k) /\ k # None
  BY <1>3 DEF Leaves, PeerConnsAssumption
<1> HIDE DEF k
<1>5. /\ conn' \in [Conn -> PeerConn \cup {None}]
      /\ \A e \in Conn \ {c} : conn'[e] = conn[e]
      /\ conn'[c] = k \/ (conn'[c] = None /\ k.retry = "no")
  BY <1>3, <1>4, WithFacts
<1> QED
  BY <1>1, <1>2, <1>4, <1>5

LEMMA GivesUpFacts ==
  ASSUME TypeOK, ConnInv, NEW c \in Conn, RetryGivesUp(c)
  PROVE  /\ conn' \in [Conn -> PeerConn \cup {None}]
         /\ \A e \in Conn \ {c} : conn'[e] = conn[e]
         /\ c \in Used /\ conn[c].life = "left" /\ conn[c].retry = "timer"
         /\ conn[c].peer \in Peer /\ conn[c].outbound
         /\ conn'[c] # None
         /\ conn'[c] # None => /\ conn'[c].life = "left" /\ conn'[c].retry = "canceled"
                               /\ conn'[c].outbound = conn[c].outbound
                               /\ conn'[c].closed = conn[c].closed
                               /\ conn'[c].peer = conn[c].peer
         /\ peerConns' = [peerConns EXCEPT ![conn[c].peer] = None]
         /\ conn[c].peer \in pendingPeers'
         /\ UNCHANGED <<dialing, panicked>>
<1> DEFINE k == [conn[c] EXCEPT !.retry = "canceled", !.retryCount = 0]
<1>1. c \in Used /\ conn[c] \in PeerConn /\ conn[c].retry = "timer" /\ conn' = With(c, k)
  BY DEF RetryGivesUp, Used, TypeOK
<1>2. conn[c].life = "left" /\ conn[c].peer \in Peer /\ conn[c].outbound
  BY <1>1 DEF ConnInv, RetryInv, PeerConn
<1>3. /\ k.peer = conn[c].peer /\ k.closed = conn[c].closed
      /\ k.life = conn[c].life /\ k.retry = "canceled" /\ k.outbound = conn[c].outbound
  BY <1>1 DEF PeerConn
<1>4. k \in PeerConn
  <2>1. 0 \in 0..MaxRetryConn
    BY <1>1, CountType
  <2> QED
    BY <1>1, <2>1, Counted
<1>5. /\ peerConns' = [peerConns EXCEPT ![conn[c].peer] = None]
      /\ conn[c].peer \in pendingPeers'
      /\ UNCHANGED <<dialing, panicked>>
  BY DEF RetryGivesUp, ConnCanceled, ConnPending
<1> HIDE DEF k
<1>6. /\ conn' \in [Conn -> PeerConn \cup {None}] /\ conn'[c] = k
      /\ \A e \in Conn \ {c} : conn'[e] = conn[e]
  BY <1>1, <1>3, <1>4, WithFacts
<1>7. k # None
  BY <1>4
<1> QED
  BY <1>1, <1>2, <1>3, <1>5, <1>6, <1>7

\* The end of a retry that gave up.
LEMMA PendsFacts ==
  ASSUME TypeOK, ConnInv, NEW c \in Conn, RetryPends(c)
  PROVE  /\ conn' \in [Conn -> PeerConn \cup {None}]
         /\ \A e \in Conn \ {c} : conn'[e] = conn[e]
         /\ c \in Used /\ conn[c].life = "left" /\ conn[c].retry = "renewed"
         /\ conn'[c] # None => /\ conn'[c].life = "left" /\ conn'[c].retry = "no"
                               /\ conn'[c].closed = conn[c].closed
         /\ conn[c].peer \in pendingPeers'
         /\ UNCHANGED <<peerConns, dialing, panicked>>
<1> DEFINE k == [conn[c] EXCEPT !.retry = "no"]
<1>1. c \in Used /\ conn[c] \in PeerConn /\ conn[c].retry = "renewed" /\ conn' = With(c, k)
  BY DEF RetryPends, Used, TypeOK
<1>2. conn[c].life = "left"
  BY <1>1 DEF ConnInv, RetryInv
<1>3. /\ k \in PeerConn /\ k.closed = conn[c].closed
      /\ k.life = conn[c].life /\ k.retry = "no"
  BY <1>1 DEF PeerConn
<1>4. conn[c].peer \in pendingPeers' /\ UNCHANGED <<peerConns, dialing, panicked>>
  BY DEF RetryPends, ConnPending
<1> HIDE DEF k
<1> QED
  BY <1>1, <1>2, <1>3, <1>4, WithFacts

LEMMA PendsKeeps ==
  ASSUME TypeOK, ConnInv, NEW c \in Conn, RetryPends(c)
  PROVE  ConnInv' /\ NoneCloses
<1>1. /\ \A e \in Conn \ {c} : conn'[e] = conn[e]
      /\ c \in Used /\ conn[c].life = "left" /\ conn[c].retry = "renewed"
      /\ conn'[c] # None => /\ conn'[c].life = "left" /\ conn'[c].retry = "no"
                            /\ conn'[c].closed = conn[c].closed
      /\ UNCHANGED <<peerConns, dialing, panicked>>
  BY PendsFacts
<1>2. Registered' = Registered /\ peerConns' \in [Peer -> Conn \cup {None}]
  BY <1>1 DEF Registered, TypeOK
<1>3. \A p \in Registered : /\ peerConns[p] \in Conn \ {c}
                            /\ conn[peerConns[p]] # None
                            /\ conn[peerConns[p]].life # "left"
  BY <1>1 DEF ConnInv, EntryInv, Used
<1>4. FewerEntries
  BY <1>1, <1>2, <1>3 DEF FewerEntries
<1>5. EntryInv' /\ RoomInv'
  BY <1>1, <1>2, <1>4, FewerKeeps DEF ConnInv, RoomInv
<1>6. RetryInv'
  BY <1>1 DEF ConnInv, RetryInv, Used
<1>7. DialInv'
  BY <1>1, <1>2 DEF ConnInv, DialInv, Used
<1>8. NoneCloses
  BY <1>1 DEF NoneCloses, Used
<1> QED
  BY <1>5, <1>6, <1>7, <1>8 DEF ConnInv

\* The steps that drop an entry.
LEMMA DropKeeps ==
  ASSUME TypeOK, ConnInv, NEW c \in Conn, Leaves(c) \/ RetryGivesUp(c)
  PROVE  /\ conn' \in [Conn -> PeerConn \cup {None}]
         /\ peerConns' \in [Peer -> Conn \cup {None}]
         /\ ConnInv' /\ NoneCloses /\ UNCHANGED <<dialing, panicked>>
         /\ Registered' \subseteq Registered
         /\ \A p \in Registered' : peerConns'[p] = peerConns[p]
<1> DEFINE p == conn[c].peer
<1>1. /\ conn' \in [Conn -> PeerConn \cup {None}]
      /\ \A e \in Conn \ {c} : conn'[e] = conn[e]
      /\ conn'[c] # None => /\ conn'[c].life = "left"
                            /\ conn'[c].closed = conn[c].closed
                            /\ conn'[c].retry # "no" =>
                                 /\ conn'[c].retry \in {"timer", "canceled"}
                                 /\ conn'[c].outbound
      /\ peerConns' = [peerConns EXCEPT ![p] = None]
      /\ UNCHANGED <<dialing, panicked>>
      /\ c \in Used /\ p \in Peer /\ conn[c].retry # "dialing"
  <2>1. CASE Leaves(c)
    <3>1. c \in Used /\ conn[c].life # "left" /\ p \in Peer
      BY <2>1 DEF Leaves, Used, TypeOK, PeerConn
    <3>2. conn[c].retry # "dialing"
      BY <3>1 DEF ConnInv, RetryInv
    <3> QED
      BY <2>1, <3>1, <3>2, LeavesFacts DEF Leaves
  <2>2. CASE RetryGivesUp(c)
    BY <2>2, GivesUpFacts
  <2> QED
    BY <2>1, <2>2
<1>2. /\ peerConns' \in [Peer -> Conn \cup {None}] /\ peerConns'[p] = None
      /\ \A q \in Peer \ {p} : peerConns'[q] = peerConns[q]
  BY <1>1 DEF TypeOK
<1>3. \A q \in Registered' : /\ q \in Registered /\ q # p
                             /\ peerConns[q] \in Conn \ {c}
                             /\ conn[peerConns[q]] # None
  BY <1>2 DEF Registered, ConnInv, EntryInv, Used
<1>4. FewerEntries
  BY <1>1, <1>2, <1>3 DEF FewerEntries, ConnInv, EntryInv
<1>5. EntryInv' /\ RoomInv' /\ Registered' \subseteq Registered
  BY <1>1, <1>2, <1>4, FewerKeeps DEF ConnInv, RoomInv
<1>6. RetryInv'
  BY <1>1 DEF ConnInv, RetryInv, Used
<1>7. DialInv'
  BY <1>1, <1>5 DEF ConnInv, DialInv, Used
<1>8. NoneCloses
  BY <1>1 DEF NoneCloses, Used
<1> QED
  BY <1>1, <1>2, <1>3, <1>5, <1>6, <1>7, <1>8 DEF ConnInv

LEMMA CalmKeeps ==
  ASSUME TypeOK, ConnInv, CalmTable
  PROVE  ConnInv'
<1>1. FewerEntries
  <2> SUFFICES ASSUME NEW p \in Registered
               PROVE  /\ conn'[peerConns[p]] # None
                      /\ conn'[peerConns[p]].peer = conn[peerConns[p]].peer
                      /\ conn'[peerConns[p]].outbound = conn[peerConns[p]].outbound
                      /\ conn'[peerConns[p]].life # "left"
    BY DEF FewerEntries, CalmTable, Registered
  <2>1. /\ peerConns[p] \in Conn /\ conn[peerConns[p]] # None
        /\ conn[peerConns[p]].life # "left"
    BY DEF ConnInv, EntryInv, Used
  <2> QED
    BY <2>1 DEF CalmTable, Calm, Same
<1>2. peerConns' \in [Peer -> Conn \cup {None}]
  BY DEF CalmTable, TypeOK
<1>3. EntryInv' /\ RoomInv'
  BY <1>1, <1>2, FewerKeeps DEF CalmTable
<1> QED
  BY <1>3 DEF CalmTable, ConnInv

\* Every step is of one of the kinds.
LEMMA Kinds ==
  ASSUME TypeOK, ConnInv, [Next]_vars
  PROVE  \/ CalmStep
         \/ GrowStep
         \/ \E c \in Conn : HandleDisconnected(c) \/ Leaves(c) \/ RetryGivesUp(c)
         \/ \E c \in Conn : RetryPends(c)
<1>1. CASE UNCHANGED vars \/ \E p \in Peer : Connect(p)
  <2>1. UNCHANGED <<conn, peerConns, dialing, panicked>>
    BY <1>1 DEF vars, Connect
  <2>2. DialInv'
    BY <2>1 DEF ConnInv, DialInv, Registered, Used
  <2>3. CalmStep
    BY <2>1, <2>2, StillCalm DEF ConnInv, RoomInv
  <2> QED
    BY <2>3
<1>2. CASE ProcessConn
  BY <1>2, RequestCalm, StreamSteps, RetryCalm, DialFailsCalm, DialSucceedsGrows
     DEF ProcessConn
<1>3. ASSUME NEW c \in Conn, ConnNext(c)
      PROVE  \/ CalmStep \/ HandleDisconnected(c) \/ Leaves(c) \/ RetryGivesUp(c)
             \/ RetryPends(c)
  BY <1>3, MovesCalm, RemoveLeaves DEF ConnNext, Moves
<1> QED
  BY <1>1, <1>2, <1>3 DEF Next

LEMMA TypeKept ==
  ASSUME TypeOK, ConnInv, [Next]_vars
  PROVE  TypeOK'
<1>1. /\ conn' \in [Conn -> PeerConn \cup {None}]
      /\ peerConns' \in [Peer -> Conn \cup {None}]
  <2>1. CASE CalmStep
    BY <2>1 DEF CalmStep, CalmTable, TypeOK
  <2>2. CASE GrowStep
    <3>1. PICK p \in Peer, c \in Conn, out \in BOOLEAN :
            /\ Grows(p, out, c)
            /\ out => ~OutboundFull
            /\ ~out => MaxInbound = 0 \/ NumInbound < MaxInbound
      BY <2>2 DEF GrowStep
    <3>2. dialing' = {}
      BY <2>2 DEF GrowStep
    <3>3. peerConns' \in [Peer -> Conn \cup {None}]
      BY <3>1, <3>2, GrowsKeeps
    <3> QED
      BY <3>1, <3>3 DEF Grows
  <2>3. ASSUME NEW c \in Conn, HandleDisconnected(c) \/ Leaves(c) \/ RetryGivesUp(c)
        PROVE  /\ conn' \in [Conn -> PeerConn \cup {None}]
               /\ peerConns' \in [Peer -> Conn \cup {None}]
    BY <2>3, DisconnectSteps, DropKeeps DEF CalmTable, TypeOK
  <2>4. ASSUME NEW c \in Conn, RetryPends(c)
        PROVE  /\ conn' \in [Conn -> PeerConn \cup {None}]
               /\ peerConns' \in [Peer -> Conn \cup {None}]
    BY <2>4, PendsFacts DEF TypeOK
  <2> QED
    BY <2>1, <2>2, <2>3, <2>4, Kinds
<1>2. panicked' \in BOOLEAN
  <2>1. CASE CalmStep \/ GrowStep
    BY <2>1 DEF CalmStep, GrowStep, Grows, TypeOK
  <2>2. ASSUME NEW c \in Conn, HandleDisconnected(c)
        PROVE  panicked' \in BOOLEAN
    BY <2>2 DEF HandleDisconnected, Close
  <2>3. ASSUME NEW c \in Conn, Leaves(c) \/ RetryGivesUp(c)
        PROVE  panicked' \in BOOLEAN
    BY <2>3, DropKeeps DEF TypeOK
  <2>4. ASSUME NEW c \in Conn, RetryPends(c)
        PROVE  panicked' \in BOOLEAN
    BY <2>4, PendsFacts DEF TypeOK
  <2> QED
    BY <2>1, <2>2, <2>3, <2>4, Kinds
<1>3. \A c \in Used : c \in Conn /\ conn[c].peer \in Peer
  BY DEF Used, TypeOK, PeerConn
<1>4. dialing' \subseteq [peer : Peer, asker : Conn \cup {None}]
  <2>1. CASE dialing' \subseteq dialing
    BY <2>1 DEF TypeOK
  <2>2. ASSUME NEW p \in Peer, TakeRequest(p)
        PROVE  dialing' \subseteq [peer : Peer, asker : Conn \cup {None}]
    BY <2>2, RequestCalm
  <2>3. ASSUME NEW c \in Conn, TakeRetry(c)
        PROVE  dialing' \subseteq [peer : Peer, asker : Conn \cup {None}]
    BY <1>3, <2>3, RetryCalm DEF TakeRetry
  <2>4. \/ dialing' \subseteq dialing
        \/ \E p \in Peer : TakeRequest(p)
        \/ \E c \in Conn : TakeRetry(c)
    BY DEF Next, vars, Connect, ProcessConn, HandleStream, DialFails, DialSucceeds,
         ConnNext, ReaderStarts, ReaderEnds, WriterEnds, HandleConnected,
         HandleDisconnected, RemovePeerConn, RetryAsks, RetryGivesUp, RetryRenews,
         RetryPends
  <2> QED
    BY <2>1, <2>2, <2>3, <2>4
<1>5. pendingPeers' \subseteq Peer /\ requests' \subseteq Peer
  <2>1. CASE UNCHANGED vars \/ \E p \in Peer : Connect(p)
    BY <2>1 DEF vars, Connect, TypeOK
  <2>2. CASE ProcessConn
    BY <1>3, <2>2 DEF ProcessConn, TakeRequest, TakeRetry, HandleConn, ConnPending,
         HandleStream, DialFails, DialSucceeds, TypeOK
  <2>3. ASSUME NEW c \in Conn, ConnNext(c)
        PROVE  pendingPeers' \subseteq Peer /\ requests' \subseteq Peer
    BY <1>3, <2>3 DEF ConnNext, ReaderStarts, ReaderEnds, WriterEnds, HandleConnected,
         HandleDisconnected, RemovePeerConn, RetryAsks, RetryGivesUp, RetryRenews,
         RetryPends, ConnCanceled, ConnPending, ConnEstablished, TypeOK
  <2> QED
    BY <2>1, <2>2, <2>3 DEF Next
<1> QED
  BY <1>1, <1>2, <1>4, <1>5 DEF TypeOK

LEMMA InvKept ==
  ASSUME TypeOK, ConnInv, [Next]_vars
  PROVE  ConnInv'
<1>1. CASE CalmStep
  BY <1>1, CalmKeeps DEF CalmStep
<1>2. CASE GrowStep
  BY <1>2, GrowsKeeps DEF GrowStep
<1>3. ASSUME NEW c \in Conn, HandleDisconnected(c) \/ Leaves(c) \/ RetryGivesUp(c)
      PROVE  ConnInv'
  BY <1>3, DisconnectSteps, CalmKeeps, DropKeeps
<1>4. ASSUME NEW c \in Conn, RetryPends(c)
      PROVE  ConnInv'
  BY <1>4, PendsKeeps
<1> QED
  BY <1>1, <1>2, <1>3, <1>4, Kinds

\* The inductive invariant holds: the table, the dial and the retries agree about
\* every connection.
THEOREM Inv == Spec => [](TypeOK /\ ConnInv)
<1>1. Init => TypeOK /\ ConnInv
  <2> SUFFICES ASSUME Init PROVE TypeOK /\ ConnInv
    OBVIOUS
  <2>1. TypeOK
    BY DEF Init, TypeOK
  <2>2. Registered = {} /\ Used = {} /\ dialing = {}
    BY DEF Init, Registered, Used
  <2>3. EntryInv /\ RetryInv /\ DialInv
    BY <2>2 DEF EntryInv, RetryInv, DialInv
  <2>4. NumOutbound = 0 /\ NumInbound = 0
    <3>1. {p \in Registered : conn[peerConns[p]].outbound} = {}
      BY <2>2
    <3> QED
      BY <2>2, <3>1, FS_EmptySet DEF NumOutbound, NumInbound
  <2>5. RoomInv
    BY <2>2, <2>4, FS_EmptySet DEF RoomInv, LimitsKept, PeerConnsAssumption
  <2> QED
    BY <2>1, <2>3, <2>5 DEF ConnInv
<1>2. TypeOK /\ ConnInv /\ [Next]_vars => (TypeOK /\ ConnInv)'
  BY TypeKept, InvKept
<1> QED
  BY <1>1, <1>2, PTL DEF Spec

\* Every variable keeps its type; a retry never counts beyond MaxRetryConn.
THEOREM TypeCorrect == Spec => []TypeOK
BY Inv, PTL

\* The limits on outbound and inbound connections hold at all times, though the
\* outbound one is tested before the dial.
THEOREM LimitsAlwaysKept == Spec => []LimitsKept
<1>1. TypeOK /\ ConnInv => LimitsKept
  BY DEF ConnInv, RoomInv
<1> QED
  BY Inv, <1>1, PTL

\* SetPeerConn never finds an entry that it has to replace.
THEOREM EntriesNeverReplaced == Spec => NeverReplaced
<1>1. ASSUME TypeOK, ConnInv, Next, NEW p \in Registered
      PROVE  peerConns'[p] \in {peerConns[p], None}
  <2>1. CASE CalmStep
    BY <2>1 DEF CalmStep, CalmTable
  <2>2. CASE GrowStep
    BY <1>1, <2>2 DEF GrowStep, Grows, TypeOK, Registered
  <2>3. ASSUME NEW c \in Conn, HandleDisconnected(c) \/ Leaves(c) \/ RetryGivesUp(c)
        PROVE  peerConns'[p] \in {peerConns[p], None}
    <3>1. CASE HandleDisconnected(c)
      BY <3>1 DEF HandleDisconnected
    <3>2. CASE Leaves(c) \/ RetryGivesUp(c)
      BY <1>1, <3>2, DropKeeps DEF Registered
    <3> QED
      BY <2>3, <3>1, <3>2
  <2>4. ASSUME NEW c \in Conn, RetryPends(c)
        PROVE  peerConns'[p] \in {peerConns[p], None}
    BY <1>1, <2>4, PendsFacts
  <2> QED
    BY <1>1, <2>1, <2>2, <2>3, <2>4, Kinds
<1>2. TypeOK /\ ConnInv /\ [Next]_vars =>
        [\A p \in Registered : peerConns'[p] \in {peerConns[p], None}]_vars
  BY <1>1
<1> QED
  BY Inv, <1>2, PTL DEF Spec, NeverReplaced

LEMMA CalmStaysRight ==
  ASSUME TypeOK, ConnInv, CalmTable, NEW p \in Peer, TableRight(p)
  PROVE  TableRight(p)'
BY DEF CalmTable, Calm, Same, TableRight, Used

\* The table goes wrong about a peer only by RetryGivesUp, the retry of an earlier
\* connection that drops the entry of a later one.
THEOREM OnlyGivingUpIsWrong == Spec => WrongByGivingUp
<1>1. ASSUME TypeOK, ConnInv, Next, NEW p \in Peer, TableRight(p)
      PROVE  TableRight(p)' \/ \E c \in Used : conn[c].peer = p /\ RetryGivesUp(c)
  <2>1. CASE CalmStep
    BY <1>1, <2>1, CalmStaysRight DEF CalmStep
  <2>2. CASE GrowStep
    <3>1. PICK q \in Peer, c \in Conn, out \in BOOLEAN : Grows(q, out, c)
      BY <2>2 DEF GrowStep
    <3>2. /\ conn'[c].peer = q /\ q \notin Registered
          /\ \A e \in Conn \ {c} : conn'[e] = conn[e] \/ conn'[e] = None
                                  \/ conn'[e].life = "left"
      BY <3>1 DEF Grows, NewPeerConn
    <3>3. /\ peerConns'[q] = c /\ peerConns[q] = None
          /\ \A r \in Peer \ {q} : peerConns'[r] = peerConns[r]
      BY <1>1, <3>1 DEF Grows, Registered, TypeOK
    <3>4. TableRight(p)'
      BY <1>1, <3>2, <3>3 DEF TableRight, Used, PeerConnsAssumption
    <3> QED
      BY <3>4
  <2>3. ASSUME NEW c \in Conn, HandleDisconnected(c) \/ Leaves(c) \/ RetryGivesUp(c)
        PROVE  TableRight(p)' \/ \E e \in Used : conn[e].peer = p /\ RetryGivesUp(e)
    <3>1. CASE Leaves(c)
      <4>1. /\ \A e \in Conn \ {c} : conn'[e] = conn[e]
            /\ conn'[c] # None => conn'[c].life = "left"
            /\ c \in Used /\ conn[c].life # "left"
        BY <1>1, <3>1, LeavesFacts DEF Leaves
      <4>2. \A q \in Peer : q # conn[c].peer => peerConns'[q] = peerConns[q]
        BY <1>1, <3>1 DEF Leaves, TypeOK
      <4>3. conn[c].peer = p => peerConns[p] = c
        BY <1>1, <4>1 DEF TableRight
      <4> QED
        BY <1>1, <4>1, <4>2, <4>3 DEF TableRight, Used
    <3>2. CASE RetryGivesUp(c)
      <4>1. /\ \A e \in Conn \ {c} : conn'[e] = conn[e]
            /\ conn'[c] # None => conn'[c].life = "left"
            /\ c \in Used
            /\ peerConns' = [peerConns EXCEPT ![conn[c].peer] = None]
        BY <1>1, <3>2, GivesUpFacts
      <4>2. CASE conn[c].peer = p
        BY <3>2, <4>1, <4>2
      <4>3. CASE conn[c].peer # p
        <5>1. peerConns'[p] = peerConns[p]
          BY <1>1, <4>1, <4>3 DEF TypeOK
        <5> QED
          BY <1>1, <4>1, <5>1 DEF TableRight, Used
      <4> QED
        BY <4>2, <4>3
    <3>3. CASE HandleDisconnected(c)
      BY <1>1, <3>1, <3>3, DisconnectSteps, CalmStaysRight
    <3> QED
      BY <2>3, <3>1, <3>2, <3>3
  <2>4. ASSUME NEW c \in Conn, RetryPends(c)
        PROVE  TableRight(p)'
    BY <1>1, <2>4, PendsFacts DEF TableRight, Used
  <2> QED
    BY <1>1, <2>1, <2>2, <2>3, <2>4, Kinds
<1>2. TypeOK /\ ConnInv /\ [Next]_vars =>
        [\A p \in Peer : TableRight(p) =>
           \/ TableRight(p)'
           \/ \E c \in Used : conn[c].peer = p /\ RetryGivesUp(c)]_vars
  BY <1>1
<1> QED
  BY Inv, <1>2, PTL DEF Spec, WrongByGivingUp

\* Close is reached only for a peer that the table is wrong about, and so is the
\* second close of a channel.
THEOREM CloseMeansWrong == Spec => ClosedIfWrong
<1> DEFINE A == /\ \A c \in Used : conn'[c] # None /\ conn'[c].closed /\ ~conn[c].closed
                     => ~TableRight(conn[c].peer)
                /\ panicked' /\ ~panicked => \E p \in Peer : ~TableRight(p)
<1>1. ASSUME TypeOK, ConnInv, Next
      PROVE  A
  <2>1. CASE NoneCloses /\ UNCHANGED panicked
    BY <2>1 DEF NoneCloses
  <2>2. CASE GrowStep
    BY <2>2 DEF GrowStep, Grows, NewPeerConn, Used
  <2>3. ASSUME NEW c \in Conn, Leaves(c) \/ RetryGivesUp(c)
        PROVE  A
    <3>1. NoneCloses /\ UNCHANGED panicked
      BY <1>1, <2>3, DropKeeps
    <3> QED
      BY <2>1, <3>1
  <2>4. ASSUME NEW c \in Conn, HandleDisconnected(c)
        PROVE  A
    <3>1. CASE Leaves(c)
      BY <2>3, <3>1
    <3>2. CASE TableRight(conn[c].peer) /\ ~Leaves(c)
      <4>1. NoneCloses /\ UNCHANGED panicked
        BY <1>1, <2>4, <3>2, DisconnectSteps
      <4> QED
        BY <2>1, <4>1
    <3>3. CASE ~TableRight(conn[c].peer) /\ ~Leaves(c)
      <4>1. conn[c].peer \in Peer
        BY <1>1, <2>4 DEF HandleDisconnected, Used, TypeOK, PeerConn
      <4>2. \A e \in Used : conn'[e] # None /\ conn'[e].closed /\ ~conn[e].closed =>
              conn[e].peer = conn[c].peer
        BY <1>1, <2>4, <3>3, DisconnectSteps
      <4> QED
        BY <3>3, <4>1, <4>2
    <3> QED
      BY <3>1, <3>2, <3>3
  <2>5. ASSUME NEW c \in Conn, RetryPends(c)
        PROVE  A
    <3>1. NoneCloses /\ UNCHANGED panicked
      BY <1>1, <2>5, PendsFacts, PendsKeeps
    <3> QED
      BY <2>1, <3>1
  <2> QED
    BY <1>1, <2>1, <2>2, <2>3, <2>4, <2>5, Kinds DEF CalmStep
<1>2. TypeOK /\ ConnInv /\ [Next]_vars => [A]_vars
  BY <1>1
<1> QED
  BY Inv, <1>2, PTL DEF Spec, ClosedIfWrong

\* The tries for a lost connection end with a connection to its peer or with the
\* peer on the pending list.
THEOREM LostPeersKept == Spec => LostPeerKept
<1>1. ASSUME TypeOK, ConnInv, Next, NEW p \in Peer, Tried(p), ~Tried(p)'
      PROVE  p \in Registered' \/ p \in pendingPeers'
  <2>1. PICK c \in Conn : c \in Used /\ conn[c].peer = p /\ Retrying(c)
    BY <1>1 DEF Tried, Used
  <2>2. ~CalmTable
    <3> SUFFICES ASSUME CalmTable PROVE Tried(p)'
      BY <1>1
    <3>1. CASE conn'[c] = conn[c]
      BY <2>1, <3>1 DEF Tried, Retrying, Used
    <3>2. CASE conn'[c] # None /\ Same(conn[c], conn'[c])
      BY <2>1, <3>2 DEF Tried, Retrying, Used, Same
    <3> QED
      BY <2>1, <3>1, <3>2 DEF CalmTable, Calm, Retrying
  <2>3. CASE GrowStep
    <3>1. PICK q \in Peer, e \in Conn, out \in BOOLEAN : Grows(q, out, e)
      BY <2>3 DEF GrowStep
    <3>2. CASE c # e /\ conn'[c] = conn[c]
      BY <1>1, <2>1, <3>2 DEF Tried, Retrying, Used
    <3>3. CASE p = q
      BY <1>1, <3>1, <3>3 DEF Grows, Registered, TypeOK, PeerConnsAssumption
    <3> QED
      BY <2>1, <3>1, <3>2, <3>3 DEF Grows
  <2>4. ASSUME NEW e \in Conn, Leaves(e)
        PROVE  FALSE
    <3>1. CASE c = e
      <4>1. conn[c].outbound
        BY <1>1, <2>1, <2>4, <3>1 DEF Leaves, Retrying, ConnInv, RetryInv
      <4> QED
        BY <1>1, <2>1, <2>4, <3>1, <4>1, LeavesFacts DEF Tried, Retrying, Used
    <3>2. CASE c # e
      <4>1. conn'[c] = conn[c]
        BY <1>1, <2>4, <3>2, LeavesFacts
      <4> QED
        BY <1>1, <2>1, <4>1 DEF Tried, Retrying, Used
    <3> QED
      BY <3>1, <3>2
  <2>5. ASSUME NEW e \in Conn, RetryGivesUp(e)
        PROVE  FALSE
    <3>1. CASE c = e
      BY <1>1, <2>1, <2>5, <3>1, GivesUpFacts DEF Tried, Retrying, Used
    <3>2. CASE c # e
      <4>1. conn'[c] = conn[c]
        BY <1>1, <2>5, <3>2, GivesUpFacts
      <4> QED
        BY <1>1, <2>1, <4>1 DEF Tried, Retrying, Used
    <3> QED
      BY <3>1, <3>2
  <2>6. ASSUME NEW e \in Conn, RetryPends(e)
        PROVE  p \in pendingPeers'
    <3>1. CASE c = e
      BY <1>1, <2>1, <2>6, <3>1, PendsFacts
    <3>2. CASE c # e
      <4>1. conn'[c] = conn[c]
        BY <1>1, <2>6, <3>2, PendsFacts
      <4> QED
        BY <1>1, <2>1, <4>1 DEF Tried, Retrying, Used
    <3> QED
      BY <3>1, <3>2
  <2> QED
    BY <1>1, <2>2, <2>3, <2>4, <2>5, <2>6, Kinds, DisconnectSteps DEF CalmStep
<1>2. TypeOK /\ ConnInv /\ [Next]_vars =>
        [\A p \in Peer : Tried(p) /\ ~Tried(p)' =>
           p \in Registered' \/ p \in pendingPeers']_vars
  BY <1>1
<1> QED
  BY Inv, <1>2, PTL DEF Spec, LostPeerKept
=============================================================================
