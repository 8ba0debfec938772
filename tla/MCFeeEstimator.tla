--------------------------- MODULE MCFeeEstimator ---------------------------
(***************************************************************************)
(* Four transactions of two fee rates.  With bins of three, one block can  *)
(* fill a bin up and then replace transactions in it.                      *)
(***************************************************************************)
EXTENDS FeeEstimator

CONSTANT N  \* number of transactions

MCTx   == 1..N
MCRate == [tx \in MCTx |-> 10 + (tx % 2)]
=============================================================================
