----------------------------- MODULE MCMempool ------------------------------
(***************************************************************************)
(* A wallet picks its coins from the chain and knows nothing of the pool,  *)
(* so its transactions often spend one coin: n1 and n2 do, n2 has a coin   *)
(* of its own besides, e spends nothing, and t is a token transfer.        *)
(***************************************************************************)
EXTENDS Mempool

CONSTANTS n1, n2, e, t

MCTx    == {n1, n2, e, t}
MCNulls == [tx \in MCTx |-> CASE tx = n1 -> {"x"}
                              [] tx = n2 -> {"x", "y"}
                              [] OTHER -> {}]
=============================================================================
