---------------------------- MODULE MCNodeLoop ------------------------------
(***************************************************************************)
(* A producing node and one chain of another validator.                    *)
(***************************************************************************)
EXTENDS NodeLoop

CONSTANTS c1
=============================================================================
