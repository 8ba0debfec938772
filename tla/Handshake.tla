----------------------------- MODULE Handshake ------------------------------
(***************************************************************************)
(* The version handshake over one connection (server.go, peerconn.go): the *)
(* outbound end pushes its version when handleConnected has run, each end  *)
(* answers a version with a verack and, as long as it has no verack        *)
(* itself, with its own version; a valid verack is followed by getaddr and *)
(* addr.  Each message is handled in a goroutine of its own, so messages   *)
(* are taken in any order, and a message for a connection that is not      *)
(* IsConnected is dropped without an error.                                *)
(*                                                                         *)
(* The nodes are producers, and a version carries the sender's key, which  *)
(* is how the other end learns whom the connection leads to                *)
(* (GetPeerIDsFromPublicKey): without it no block is sent there for a      *)
(* signature.                                                              *)
(*                                                                         *)
(* Spec and its like are named after the module: ServerProofs extends this *)
(* module and NodeLoop.                                                    *)
(***************************************************************************)
EXTENDS Integers

CONSTANTS
  MaxInFlight  \* bound: messages of a kind under way to an end

ASSUME HandshakeAssumption == MaxInFlight \in Nat \ {0}

End      == {"out", "in"}
Other(e) == IF e = "out" THEN "in" ELSE "out"
Kind     == {"version", "ack", "nack", "getaddr", "addr"}  \* verack: ack, nack

VARIABLES
  sameVersion,    \* the two nodes have one protocolVersion
  stream,         \* "up", or "down" when it has ended
  reading,        \* InMessageHandler runs at this end: IsConnected
  greeting,       \* the outbound end's handleConnected has not run yet
  verAckReceived, \* per end
  publicKey,      \* RemotePeer.PublicKey is known at this end
  good,           \* the address manager was told of the other end
  flight,         \* messages under way to an end, by kind
  answering       \* OnVersion goroutines that have queued the verack
handshakeVars == <<sameVersion, stream, reading, greeting, verAckReceived,
                   publicKey, good, flight, answering>>

HandshakeTypeOK ==
  /\ sameVersion \in BOOLEAN
  /\ stream \in {"up", "down"}
  /\ reading \in [End -> BOOLEAN]
  /\ greeting \in BOOLEAN
  /\ verAckReceived \in [End -> BOOLEAN]
  /\ publicKey \in [End -> BOOLEAN]
  /\ good \in [End -> BOOLEAN]
  /\ flight \in [End -> [Kind -> 0..MaxInFlight]]
  /\ answering \in [End -> Nat]

HandshakeInit ==
  /\ sameVersion \in BOOLEAN
  /\ stream = "up"
  /\ reading = [e \in End |-> FALSE]
  /\ greeting = TRUE
  /\ verAckReceived = [e \in End |-> FALSE]
  /\ publicKey = [e \in End |-> FALSE]
  /\ good = [e \in End |-> FALSE]
  /\ flight = [e \in End |-> [k \in Kind |-> 0]]
  /\ answering = [e \in End |-> 0]

\* QueueMessageWithEncoding at end e of messages of the kinds ks: they are
\* sent if e IsConnected, and dropped if not.
Queued(e, fl, ks) ==
  IF reading[e] THEN [fl EXCEPT ![Other(e)] =
                        [k \in Kind |-> @[k] + (IF k \in ks THEN 1 ELSE 0)]]
  ELSE fl
Room(e, ks) == \A k \in ks : flight[Other(e)][k] < MaxInFlight

\* End e takes a message of kind k; its goroutine runs the handler.
Taken(e, k) == [flight EXCEPT ![e][k] = @ - 1]

\* A message of kind k is there for InMessageHandler to read.
Arrives(e, k) == reading[e] /\ flight[e][k] > 0

\* InMessageHandler of end e is scheduled.
ReaderStarts(e) ==
  /\ stream = "up" /\ ~reading[e]
  /\ reading' = [reading EXCEPT ![e] = TRUE]
  /\ UNCHANGED <<sameVersion, stream, greeting, verAckReceived, publicKey,
                 good, flight, answering>>

\* The stream ends, for both ends; what is under way is lost.
StreamEnds ==
  /\ stream = "up"
  /\ stream' = "down"
  /\ reading' = [e \in End |-> FALSE]
  /\ flight' = [e \in End |-> [k \in Kind |-> 0]]
  /\ UNCHANGED <<sameVersion, greeting, verAckReceived, publicKey, good,
                 answering>>

\* Mutant of Greeters: the inbound end pushes its version, too.
BothGreet == End

\* handleConnected of the connection manager: only an outbound connection is
\* reported to the server, which pushes the version.
Greeters == {"out"}

OutboundPeerConnected ==
  /\ greeting
  /\ greeting' = FALSE
  /\ flight' = [e \in End |->
       IF Other(e) \in Greeters
       THEN Queued(Other(e), flight, {"version"})[e] ELSE flight[e]]
  /\ UNCHANGED <<sameVersion, stream, reading, verAckReceived, publicKey, good,
                 answering>>

\* OnVersion takes the key over.
KeyLearned(e) == [publicKey EXCEPT ![e] = TRUE]

\* OnVersion: the key, then the verack ...
OnVersion(e) ==
  LET ack == IF sameVersion THEN "ack" ELSE "nack" IN
  /\ Arrives(e, "version") /\ Room(e, {ack})
  /\ publicKey' = KeyLearned(e)
  /\ flight' = Queued(e, Taken(e, "version"), {ack})
  /\ answering' = [answering EXCEPT ![e] = @ + 1]
  /\ UNCHANGED <<sameVersion, stream, reading, greeting, verAckReceived, good>>

\* Mutant of AnswersVersion: a version is answered with the own one always.
AlwaysAnswers(e) == TRUE

\* Mutant of AnswersVersion: the verack is all the answer.
NeverAnswers(e) == FALSE

\* An end that has no verack yet pushes its version again.
AnswersVersion(e) == ~verAckReceived[e]

\* ... and once that is handed to the writer, perhaps the own version.
AfterVerAck(e) ==
  /\ answering[e] > 0 /\ Room(e, {"version"})
  /\ answering' = [answering EXCEPT ![e] = @ - 1]
  /\ flight' = IF AnswersVersion(e) THEN Queued(e, flight, {"version"})
               ELSE flight
  /\ UNCHANGED <<sameVersion, stream, reading, greeting, verAckReceived,
                 publicKey, good>>

\* OnVerAck: one that says valid tells the address manager of an outbound
\* peer, and is followed by getaddr and addr.
OnVerAck(e, k) ==
  /\ k \in {"ack", "nack"}
  /\ Arrives(e, k) /\ Room(e, {"getaddr", "addr"})
  /\ verAckReceived' = [verAckReceived EXCEPT ![e] = TRUE]
  /\ IF k = "ack"
     THEN /\ good' = [good EXCEPT ![e] = @ \/ e = "out"]
          /\ flight' = Queued(e, Taken(e, k), {"getaddr", "addr"})
     ELSE /\ flight' = Taken(e, k)
          /\ UNCHANGED good
  /\ UNCHANGED <<sameVersion, stream, reading, greeting, publicKey, answering>>

\* OnGetAddr answers with addr; OnAddr only logs.
OnGetAddr(e) ==
  /\ Arrives(e, "getaddr") /\ Room(e, {"addr"})
  /\ flight' = Queued(e, Taken(e, "getaddr"), {"addr"})
  /\ UNCHANGED <<sameVersion, stream, reading, greeting, verAckReceived,
                 publicKey, good, answering>>

OnAddr(e) ==
  /\ Arrives(e, "addr")
  /\ flight' = Taken(e, "addr")
  /\ UNCHANGED <<sameVersion, stream, reading, greeting, verAckReceived,
                 publicKey, good, answering>>

EndNext(e) ==
  \/ ReaderStarts(e)
  \/ OnVersion(e) \/ AfterVerAck(e)
  \/ \E k \in {"ack", "nack"} : OnVerAck(e, k)
  \/ OnGetAddr(e) \/ OnAddr(e)

HandshakeNext == OutboundPeerConnected \/ StreamEnds \/ \E e \in End : EndNext(e)

HandshakeSpec == HandshakeInit /\ [][HandshakeNext]_handshakeVars

(***************************************************************************)
(* Fairness: a goroutine that can run does.  Nothing is asked of           *)
(* StreamEnds.                                                             *)
(***************************************************************************)
HandshakeFairness ==
  /\ WF_handshakeVars(OutboundPeerConnected)
  /\ \A e \in End :
       /\ WF_handshakeVars(ReaderStarts(e))
       /\ WF_handshakeVars(OnVersion(e)) /\ WF_handshakeVars(AfterVerAck(e))
       /\ \A k \in {"ack", "nack"} : WF_handshakeVars(OnVerAck(e, k))
       /\ WF_handshakeVars(OnGetAddr(e)) /\ WF_handshakeVars(OnAddr(e))

FairHandshakeSpec == HandshakeSpec /\ HandshakeFairness

(***************************************************************************)
(* ----------------------------- properties ------------------------------ *)
(***************************************************************************)
Done == \A e \in End : verAckReceived[e] /\ publicKey[e]

\* One version is under way at most, or about to be: the two ends answer each
\* other's versions with versions, and do not multiply them.
OneVersion ==
  flight["out"]["version"] + flight["in"]["version"]
    + answering["out"] + answering["in"] + (IF greeting THEN 1 ELSE 0) <= 1

\* A handshake that has begun comes to its end at both ends, however its
\* messages overtake each other, if the stream lasts.  (It does not begin when
\* handleConnected is faster than the reader that sets IsConnected: the version
\* is dropped then, and nothing pushes another.)
BegunIsDone == publicKey["in"] ~> (Done \/ stream = "down")

\* The ends do not go on sending versions for ever.
VersionsStop == <>[](\A e \in End : flight[e]["version"] = 0)
=============================================================================
