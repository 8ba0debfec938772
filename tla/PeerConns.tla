----------------------------- MODULE PeerConns ------------------------------
(***************************************************************************)
(* The connections of one listener (peer/peer.go, peer/peerconn.go): the   *)
(* goroutine processConn, which opens outbound and accepts inbound streams *)
(* one at a time, the reader and the writer of each connection, the        *)
(* callbacks handleConnected and handleDisconnected, which run in          *)
(* goroutines of their own, the retries of lost outbound connections, the  *)
(* table PeerConns and the list PendingPeers.                              *)
(*                                                                         *)
(* The network (libp2p) is external: a dial succeeds or fails, and a       *)
(* stream may end at any time.  The table is a Go map that is used without *)
(* its lock; each access is atomic here.  What is sent over a connection   *)
(* is in modules Handshake and NodeLoop.                                   *)
(***************************************************************************)
EXTENDS Integers, FiniteSets

CONSTANTS
  Peer,           \* the remote peers
  Conn,           \* bound: connections that goroutines refer to at a time
  None,           \* no connection
  MaxOutbound,    \* Config.MaxOutbound, 0 for no limit
  MaxInbound,     \* Config.MaxInbound, 0 for no limit
  MaxRetryConn    \* tries after which a lost connection is given up

(***************************************************************************)
(* A PeerConn.  life is how far its goroutines are: "start", before        *)
(* InMessageHandler is scheduled; "on", IsConnected; "off", the stream has *)
(* ended and cWrite is closed; "called", OutMessageHandler has ended and   *)
(* handleDisconnected is called; "found", RemovePeerConn has looked the    *)
(* peer up; "left", handleDisconnected is over.  retry is "no", "timer",   *)
(* "asking" (waiting for processConn), "dialing", or, once it has given    *)
(* up, "canceled" and "renewed".                                           *)
(***************************************************************************)
PeerConn == [
  peer       : Peer,         \* RemotePeer
  outbound   : BOOLEAN,      \* IsOutbound
  life       : {"start", "on", "off", "called", "found", "left"},
  connecting : BOOLEAN,      \* the handleConnected goroutine has not run yet
  closed     : BOOLEAN,      \* cClose is closed
  retry      : {"no", "timer", "asking", "dialing", "canceled", "renewed"},
  retryCount : 0..MaxRetryConn ]

ASSUME PeerConnsAssumption ==
  /\ None \notin Conn /\ None \notin PeerConn
  /\ MaxOutbound \in Nat /\ MaxInbound \in Nat
  /\ MaxRetryConn \in Nat \ {0}

VARIABLES
  conn,        \* the connections that a goroutine refers to, or None
  peerConns,   \* PeerConns: the connection of a peer, or None
  pendingPeers,\* PendingPeers
  requests,    \* peers for which a PushConn that wants no answer waits
  dialing,     \* processConn's dials: the peer, and the retry that asked
  panicked     \* a closed channel was closed

vars == <<conn, peerConns, pendingPeers, requests, dialing, panicked>>

TypeOK ==
  /\ conn \in [Conn -> PeerConn \cup {None}]
  /\ peerConns \in [Peer -> Conn \cup {None}]
  /\ pendingPeers \subseteq Peer
  /\ requests \subseteq Peer
  /\ dialing \subseteq [peer : Peer, asker : Conn \cup {None}]
  /\ panicked \in BOOLEAN

Init ==
  /\ conn = [c \in Conn |-> None]
  /\ peerConns = [p \in Peer |-> None]
  /\ pendingPeers = {} /\ requests = {} /\ dialing = {}
  /\ panicked = FALSE

Used           == {c \in Conn : conn[c] # None}
IsConnected(c) == conn[c].life = "on"
Registered     == {p \in Peer : peerConns[p] # None}
NumOutbound    == Cardinality({p \in Registered : conn[peerConns[p]].outbound})
NumInbound     == Cardinality(Registered) - NumOutbound

\* The connections when c has become k, or nothing if no goroutine is left.
With(c, k) ==
  [conn EXCEPT ![c] =
     IF k.life = "left" /\ ~k.connecting /\ k.retry = "no" THEN None ELSE k]

ConnPending(p)     == pendingPeers' = pendingPeers \cup {p}
ConnEstablished(p) == pendingPeers' = pendingPeers \ {p}

\* The peer's entry is dropped, whatever connection it is.
ConnCanceled(p) ==
  /\ peerConns' = [peerConns EXCEPT ![p] = None]
  /\ ConnPending(p)

(***************************************************************************)
(* ----------------------------- requests -------------------------------- *)
(***************************************************************************)

\* Connect, for the peers of the command line and those that DiscoverPeers
\* finds: a goroutine for PushConn.
Connect(p) ==
  /\ p \notin requests
  /\ requests' = requests \cup {p}
  /\ UNCHANGED <<conn, peerConns, pendingPeers, dialing, panicked>>

(***************************************************************************)
(* ---------------------------- processConn ------------------------------ *)
(***************************************************************************)

\* Mutant of AtSelect: the next request is taken while a dial is under way.
NeverBusy == Cardinality(dialing) < 2

\* processConn takes nothing up before a dial's answer is there.
AtSelect == dialing = {}

\* Mutant of AnsweredNil: the retry is not set up again.
RetryDropped(k) == [k EXCEPT !.retry = "no", !.retryCount = @ + 1]

\* Mutant of AnsweredNil: the count starts again.
RetryForever(k) == [k EXCEPT !.retry = "timer", !.retryCount = 0]

\* A retry that is answered nil counts that too and waits for its timer again.
AnsweredNil(k) == [k EXCEPT !.retry = "timer", !.retryCount = @ + 1]

\* The answer nil, to the retry that asked if there is one.
AnswerNil(asker) ==
  IF asker = None THEN UNCHANGED conn
  ELSE conn' = With(asker, AnsweredNil(conn[asker]))

\* handleConn's test of the limit.
OutboundFull == MaxOutbound > 0 /\ NumOutbound >= MaxOutbound

\* handleConn: a registered peer is not dialled again, one at the limit goes
\* to the pending ones, any other is dialled.
HandleConn(p, asker) ==
  \/ /\ p \in Registered
     /\ AnswerNil(asker)
     /\ UNCHANGED <<pendingPeers, dialing>>
  \/ /\ p \notin Registered /\ OutboundFull
     /\ ConnPending(p)
     /\ AnswerNil(asker)
     /\ UNCHANGED dialing
  \/ /\ p \notin Registered /\ ~OutboundFull
     /\ dialing' = dialing \cup {[peer |-> p, asker |-> asker]}
     /\ IF asker = None THEN UNCHANGED conn
        ELSE conn' = With(asker, [conn[asker] EXCEPT !.retry = "dialing"])
     /\ UNCHANGED pendingPeers

\* processConn takes a request that wants no answer.
TakeRequest(p) ==
  /\ AtSelect /\ p \in requests
  /\ requests' = requests \ {p}
  /\ HandleConn(p, None)
  /\ UNCHANGED <<peerConns, panicked>>

\* processConn takes the request of a retry.
TakeRetry(c) ==
  /\ AtSelect /\ c \in Used /\ conn[c].retry = "asking"
  /\ HandleConn(conn[c].peer, c)
  /\ UNCHANGED <<peerConns, requests, panicked>>

\* NewStream fails.
DialFails(d) ==
  /\ d \in dialing
  /\ dialing' = dialing \ {d}
  /\ AnswerNil(d.asker)
  /\ UNCHANGED <<peerConns, pendingPeers, requests, panicked>>

\* Close of the connection that the table has for a peer, if it IsConnected.
Closable(ks, p) == p \in Registered /\ ks[peerConns[p]].life = "on"
Closed(ks, p) ==
  IF Closable(ks, p) THEN [ks EXCEPT ![peerConns[p]].closed = TRUE] ELSE ks
Close(ks, p) ==
  panicked' = (panicked \/ (Closable(ks, p) /\ ks[peerConns[p]].closed))

\* A connection to p is made: SetPeerConn closes the one that is registered
\* and takes its place; the reader, the writer and handleConnected start.
NewConn(ks, p, out) ==
  LET c == CHOOSE k \in Conn : ks[k] = None
  IN  /\ \E k \in Conn : ks[k] = None
      /\ Close(ks, p)
      /\ conn' = [Closed(ks, p) EXCEPT ![c] =
                   [peer |-> p, outbound |-> out, life |-> "start",
                    connecting |-> TRUE, closed |-> FALSE, retry |-> "no",
                    retryCount |-> 0]]
      /\ peerConns' = [peerConns EXCEPT ![p] = c]

\* NewStream succeeds; the retry that asked gets the connection and is over.
DialSucceeds(d) ==
  /\ d \in dialing
  /\ dialing' = dialing \ {d}
  /\ NewConn(IF d.asker = None THEN conn
             ELSE With(d.asker, [conn[d.asker] EXCEPT !.retry = "no"]),
             d.peer, TRUE)
  /\ UNCHANGED <<pendingPeers, requests>>

\* Mutant of StreamRefused: the table is not looked at.
StreamOverLimit(p) == MaxInbound > 0 /\ NumInbound >= MaxInbound

\* handleStream refuses a stream at the limit and one of a registered peer.
StreamRefused(p) ==
  \/ MaxInbound > 0 /\ NumInbound >= MaxInbound
  \/ p \in Registered

\* A remote peer opens a stream (PushStream), and processConn takes it.
HandleStream(p) ==
  /\ AtSelect
  /\ IF StreamRefused(p) THEN UNCHANGED <<conn, peerConns, panicked>>
     ELSE NewConn(conn, p, FALSE)
  /\ UNCHANGED <<pendingPeers, requests, dialing>>

(***************************************************************************)
(* ------------------- the goroutines of a connection -------------------- *)
(***************************************************************************)

\* InMessageHandler is scheduled: IsConnected.
ReaderStarts(c) ==
  /\ c \in Used /\ conn[c].life = "start"
  /\ conn' = With(c, [conn[c] EXCEPT !.life = "on"])
  /\ UNCHANGED <<peerConns, pendingPeers, requests, dialing, panicked>>

\* The stream ends: no longer IsConnected, and cWrite is closed.
ReaderEnds(c) ==
  /\ c \in Used /\ conn[c].life = "on"
  /\ conn' = With(c, [conn[c] EXCEPT !.life = "off"])
  /\ UNCHANGED <<peerConns, pendingPeers, requests, dialing, panicked>>

\* OutMessageHandler finds cWrite closed and calls handleDisconnected in a
\* goroutine.
WriterEnds(c) ==
  /\ c \in Used /\ conn[c].life = "off"
  /\ conn' = With(c, [conn[c] EXCEPT !.life = "called"])
  /\ UNCHANGED <<peerConns, pendingPeers, requests, dialing, panicked>>

\* handleConnected: ConnEstablished takes the peer off the pending ones.
HandleConnected(c) ==
  /\ c \in Used /\ conn[c].connecting
  /\ conn' = With(c, [conn[c] EXCEPT !.connecting = FALSE, !.retryCount = 0])
  /\ ConnEstablished(conn[c].peer)
  /\ UNCHANGED <<peerConns, requests, dialing, panicked>>

\* The end of handleDisconnected: an outbound connection is tried again.
Left(k) ==
  [k EXCEPT !.life = "left", !.retry = IF k.outbound THEN "timer" ELSE "no"]

\* handleDisconnected looks the peer up (RemovePeerConn), and closes whatever
\* connection the table has for it.
HandleDisconnected(c) ==
  /\ c \in Used /\ conn[c].life = "called"
  /\ LET p == conn[c].peer
     IN  /\ Close(conn, p)
         /\ conn' = IF p \in Registered
                    THEN [Closed(conn, p) EXCEPT ![c].life = "found"]
                    ELSE With(c, Left(conn[c]))
  /\ UNCHANGED <<peerConns, pendingPeers, requests, dialing>>

\* ... and then deletes the entry, whatever it is by now.
RemovePeerConn(c) ==
  /\ c \in Used /\ conn[c].life = "found"
  /\ peerConns' = [peerConns EXCEPT ![conn[c].peer] = None]
  /\ conn' = With(c, Left(conn[c]))
  /\ UNCHANGED <<pendingPeers, requests, dialing, panicked>>

(***************************************************************************)
(* ----------------------------- the retries ----------------------------- *)
(***************************************************************************)

\* The count, with this try, is below MaxRetryConn.
TriesLeft(k) == k.retryCount + 1 < MaxRetryConn

\* The timer fires: another try.
RetryAsks(c) ==
  /\ c \in Used /\ conn[c].retry = "timer"
  /\ TriesLeft(conn[c])
  /\ conn' = With(c, [conn[c] EXCEPT !.retry = "asking", !.retryCount = @ + 1])
  /\ UNCHANGED <<peerConns, pendingPeers, requests, dialing, panicked>>

\* The last try is over: the entry is dropped and the peer is listed as pending.
RetryGivesUp(c) ==
  /\ c \in Used /\ conn[c].retry = "timer"
  /\ ~TriesLeft(conn[c])
  /\ conn' = With(c, [conn[c] EXCEPT !.retry = "canceled", !.retryCount = 0])
  /\ ConnCanceled(conn[c].peer)
  /\ UNCHANGED <<requests, dialing, panicked>>

\* renewPeerConnection asks for all pending peers.
RetryRenews(c) ==
  /\ c \in Used /\ conn[c].retry = "canceled"
  /\ conn' = With(c, [conn[c] EXCEPT !.retry = "renewed"])
  /\ requests' = requests \cup pendingPeers
  /\ UNCHANGED <<peerConns, pendingPeers, dialing, panicked>>

\* The peer is listed as pending again, connected meanwhile or not.
RetryPends(c) ==
  /\ c \in Used /\ conn[c].retry = "renewed"
  /\ conn' = With(c, [conn[c] EXCEPT !.retry = "no"])
  /\ ConnPending(conn[c].peer)
  /\ UNCHANGED <<peerConns, requests, dialing, panicked>>

ProcessConn ==
  \/ \E p \in Peer : TakeRequest(p) \/ HandleStream(p)
  \/ \E c \in Conn : TakeRetry(c)
  \/ \E d \in dialing : DialFails(d) \/ DialSucceeds(d)

ConnNext(c) ==
  \/ ReaderStarts(c) \/ ReaderEnds(c) \/ WriterEnds(c)
  \/ HandleConnected(c) \/ HandleDisconnected(c) \/ RemovePeerConn(c)
  \/ RetryAsks(c) \/ RetryGivesUp(c) \/ RetryRenews(c) \/ RetryPends(c)

Next ==
  \/ \E p \in Peer : Connect(p)
  \/ ProcessConn
  \/ \E c \in Conn : ConnNext(c)

Spec == Init /\ [][Next]_vars

(***************************************************************************)
(* Fairness.  A goroutine that can run does, and a timer that is set goes  *)
(* off; a dial ends (libp2p has a timeout); the retries that wait for      *)
(* processConn are served in turn (Go's channels queue their senders, and  *)
(* select chooses at random).  Nothing is asked of the streams.            *)
(***************************************************************************)
Fairness ==
  /\ WF_vars(\E d \in dialing : DialFails(d) \/ DialSucceeds(d))
  /\ \A c \in Conn :
       /\ WF_vars(HandleDisconnected(c) \/ RemovePeerConn(c))
       /\ WF_vars(RetryAsks(c) \/ RetryGivesUp(c))
       /\ WF_vars(RetryRenews(c) \/ RetryPends(c))
       /\ SF_vars(TakeRetry(c))

FairSpec == Spec /\ Fairness

(***************************************************************************)
(* ----------------------------- properties ------------------------------ *)
(***************************************************************************)

\* SetPeerConn has a branch for a peer that has another connection in the
\* table.  It is never taken: a peer's connection is not replaced, though the
\* table is looked at before the dial and written after it.
NeverReplaced ==
  [][\A p \in Registered : peerConns'[p] \in {peerConns[p], None}]_vars

\* The limits on connections hold of the table at all times.
LimitsKept ==
  /\ MaxOutbound > 0 => NumOutbound <= MaxOutbound
  /\ MaxInbound > 0 => NumInbound <= MaxInbound

\* The table is right about a peer: a connection that is not yet taken leave of
\* is the one that it has, and so is found by PushMessageToPeer and counted by
\* the limits.
TableRight(p) ==
  \A c \in Used : conn[c].peer = p /\ conn[c].life # "left" => peerConns[p] = c

\* The table goes wrong about a peer in one way only: a retry gives up while
\* the peer has a connection, one that it opened itself, say.
WrongByGivingUp ==
  [][\A p \in Peer : TableRight(p) =>
       \/ TableRight(p)'
       \/ \E c \in Used : conn[c].peer = p /\ RetryGivesUp(c)]_vars

\* Close, which may come only once for a connection, is reached for a peer that
\* the table is wrong about and never else: RemovePeerConn then finds the very
\* connection that called it, whose reader has ended.
ClosedIfWrong ==
  [][/\ \A c \in Used : conn'[c] # None /\ conn'[c].closed /\ ~conn[c].closed
          => ~TableRight(conn[c].peer)
     /\ panicked' /\ ~panicked => \E p \in Peer : ~TableRight(p)]_vars

\* A connection that was lost and is to be tried again.
Retrying(c) ==
  \/ conn[c].retry # "no"
  \/ conn[c].outbound /\ conn[c].life \in {"called", "found"}

\* The tries for a lost connection come to an end.
RetriesEnd ==
  \A c \in Conn : (c \in Used /\ Retrying(c)) ~> ~(c \in Used /\ Retrying(c))

Tried(p) == \E c \in Used : conn[c].peer = p /\ Retrying(c)

\* A peer whose outbound connection was lost is not forgotten: the tries end
\* with a connection or with the peer on the pending list.
LostPeerKept ==
  [][\A p \in Peer : Tried(p) /\ ~Tried(p)' =>
       p \in Registered' \/ p \in pendingPeers']_vars

(***************************************************************************)
(* The inductive invariant behind these properties.                        *)
(***************************************************************************)

\* An entry of the table is a connection to its peer that has not left.
EntryInv ==
  \A p \in Registered : /\ peerConns[p] \in Used
                        /\ conn[peerConns[p]].peer = p
                        /\ conn[peerConns[p]].life # "left"

\* Only an outbound connection that has left is tried again, and a try that may
\* be answered nil has one left in the count.
RetryInv ==
  \A c \in Used : conn[c].retry # "no" =>
    /\ conn[c].outbound /\ conn[c].life = "left"
    /\ conn[c].retry \in {"asking", "dialing"} => conn[c].retryCount < MaxRetryConn

\* The dial, one at most: its peer is not in the table.
DialInv ==
  /\ \A d, e \in dialing : d = e
  /\ \A d \in dialing :
       /\ d.peer \notin Registered
       /\ d.asker # None => /\ d.asker \in Used
                            /\ conn[d.asker].peer = d.peer
                            /\ conn[d.asker].retry = "dialing"

\* The limits hold, with room for the dial.
RoomInv ==
  /\ IsFiniteSet(Registered)
  /\ dialing # {} => ~OutboundFull
  /\ LimitsKept

ConnInv == EntryInv /\ RetryInv /\ DialInv /\ RoomInv
=============================================================================
