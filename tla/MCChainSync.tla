---------------------------- MODULE MCChainSync -----------------------------
(***************************************************************************)
(* Three nodes, two of which lead a chain.  Blocks of the one-node build   *)
(* go out before the signatures come in, and no node takes them over.      *)
(***************************************************************************)
EXTENDS ChainSync

CONSTANTS v1, v2, v3, c1, c2

MCLeader == [c \in {c1, c2} |-> IF c = c1 THEN v1 ELSE v2]

\* <<oneNode, verifies>>
MCBuilds == {<<TRUE, FALSE>>, <<FALSE, FALSE>>, <<FALSE, TRUE>>}
=============================================================================
