---------------------------- MODULE MCChainStore ----------------------------
(***************************************************************************)
(* ChainStore for TLC.                                                     *)
(***************************************************************************)
EXTENDS ChainStore

\* A node that follows a chain also meets errors of the database; one that leads
\* it does not (see the README on two writers of one chain).
MCFaults == [o \in BOOLEAN |-> IF o THEN 0 ELSE 1]

\* Crashes and restarts alone.
MCNoFaults == [o \in BOOLEAN |-> 0]
=============================================================================
