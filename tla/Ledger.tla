------------------------------- MODULE Ledger -------------------------------
(***************************************************************************)
(* What a node promises about one chain of its database: a list of blocks  *)
(* with heights 1, 2, ... that only ever grows at its end.  Neither a      *)
(* crash nor a restart nor a failed write takes a block of it back or puts *)
(* another in its place.                                                   *)
(***************************************************************************)
EXTENDS Naturals, Sequences

CONSTANTS
  Block,      \* the blocks of the chain
  Height(_)   \* the height in a block's header

VARIABLE ledger

IsChain(s) == \A i \in 1..Len(s) : s[i] \in Block /\ Height(s[i]) = i

LedgerInit == ledger = << >>

\* One or more blocks are added.  Several at once when StoreBestState had failed
\* for the blocks before.
Extend ==
  /\ Len(ledger') > Len(ledger)
  /\ \A i \in 1..Len(ledger) : ledger'[i] = ledger[i]
  /\ IsChain(ledger')

LedgerSpec == LedgerInit /\ [][Extend]_ledger
=============================================================================
