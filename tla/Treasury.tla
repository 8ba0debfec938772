------------------------------ MODULE Treasury ------------------------------
(***************************************************************************)
(* The salary fund of one chain, as NewBlockTemplate carries it from block *)
(* to block (blockchain/blocktmlp.go): fees come in, the producer's salary *)
(* and the refunds of small transactions of RefundPeriod blocks ago go     *)
(* out.  Amounts are uint64, so that every sum and difference is taken     *)
(* modulo Modulus.  Nothing bounds a fee (CheckTransactionFee asks for a   *)
(* minimum, and the proof that backs it is not verified), so that the fees *)
(* of a block may wrap around; and remainingFund is taken before the check *)
(* that the fund suffices.                                                 *)
(*                                                                         *)
(* Bonds, buy-backs, dividends and new constitutions add nothing here:     *)
(* the pool refuses their transactions, processDividend is switched off    *)
(* and the constitution of the genesis block is never due.  GOVParams are  *)
(* thus constants; genesis.go leaves RefundInfo at zero.  Which            *)
(* transactions a template takes from the pool is in module Mempool.       *)
(***************************************************************************)
EXTENDS Integers, Sequences

CONSTANTS
  InitFundSalary,     \* fund of the genesis block
  SalaryPerTx, BasicSalary, RefundAmount,  \* GOVParams
  RefundPeriod,       \* common.RefundPeriod
  Modulus,            \* 2^64 of the code
  MaxHeight,          \* bound: height of the chain
  MaxTxs,             \* common.MaxTxsInBlock
  Fees                \* the fees that transactions pay

\* The salary and the refunds of a full block fit an amount.
ASSUME TreasuryAssumption ==
  /\ {InitFundSalary, SalaryPerTx, BasicSalary, RefundAmount} \subseteq Nat
  /\ {RefundPeriod, MaxHeight, MaxTxs, Modulus} \subseteq Nat \ {0}
  /\ Fees \subseteq 0..Modulus - 1
  /\ InitFundSalary < Modulus
  /\ MaxTxs * SalaryPerTx + BasicSalary + MaxTxs * RefundAmount < Modulus

\* What the template takes of the pool: the transactions that pay the fee, and
\* how many of all are small and without privacy.
Txs == [paying : 0..MaxTxs, fee : Fees, small : 0..MaxTxs]

VARIABLES
  chain,    \* the blocks, by height
  panicked  \* the process has ended by a division by zero
vars == <<chain, panicked>>

\* The fund of the header; the small transactions; the sum of the fees; what the
\* salary and the refund transactions mint; and the refunds that were left out.
Block == [fund : 0..Modulus - 1, small : 0..MaxTxs, fees : Nat,
          salary : Nat, refunds : Nat, skipped : Nat]

TypeOK ==
  /\ chain \in Seq(Block)
  /\ panicked \in BOOLEAN

\* The genesis block has token transactions only.
Init ==
  /\ chain = <<[fund |-> InitFundSalary, small |-> 0, fees |-> 0,
                salary |-> 0, refunds |-> 0, skipped |-> 0]>>
  /\ panicked = FALSE

Height == Len(chain)

\* totalFee, and what it is before it wraps around.
SumOfFees(txs) == txs.paying * txs.fee
TotalFee(txs) == SumOfFees(txs) % Modulus

\* Transactions without a fee are not counted for the salary.
SalaryMULTP(txs) == IF txs.fee > 0 THEN txs.paying ELSE 0
TotalSalary(txs) == (SalaryMULTP(txs) * SalaryPerTx + BasicSalary) % Modulus

\* The fund of the block before and the fees.
Income(txs) == (chain[Height].fund + TotalFee(txs)) % Modulus

\* Computed before the check of the fund: it may wrap around.
RemainingFund(txs) == (Income(txs) - TotalSalary(txs)) % Modulus

\* The transactions of the lookback block that are refunded; there is no block
\* of height 0 to look back to.
LookbackHeight == Height - RefundPeriod
Refunding(txs) == RemainingFund(txs) > 0 /\ LookbackHeight >= 1
Refunded == chain[LookbackHeight].small
Addresses(txs) == IF Refunding(txs) THEN Refunded ELSE 0

\* calculateAmountOfRefundTxs: what is taken from the fund for them ...
TotalRefund(txs) ==
  LET estimated == (Refunded * RefundAmount) % Modulus
  IN  IF estimated <= RemainingFund(txs) THEN estimated ELSE RemainingFund(txs)
RefundAmt(txs) == IF Refunding(txs) THEN TotalRefund(txs) ELSE 0

\* ... and what they get, where CreateTxSalary has made that many transactions.
RefundMinted(txs, made) ==
  IF Addresses(txs) > 0 THEN (RefundAmt(txs) \div Addresses(txs)) * made ELSE 0

\* The total is divided by the number of refunded transactions.
DividesByZero(txs) == Refunding(txs) /\ Refunded = 0

\* Mutant of FundSuffices: no check.
AlwaysSuffices(txs) == TRUE

\* The final check of the template.
FundSuffices(txs) ==
  Income(txs) >= (TotalSalary(txs) + RefundAmt(txs)) % Modulus

\* SalaryFund of the new block.
NewFund(txs) == (Income(txs) - TotalSalary(txs) - RefundAmt(txs)) % Modulus

\* A block is made of these transactions and stored.
NewBlock(txs) ==
  /\ ~panicked /\ Height < MaxHeight
  /\ ~DividesByZero(txs)
  /\ FundSuffices(txs)
  /\ \E made \in 0..Addresses(txs) :
       chain' = Append(chain,
         [fund    |-> NewFund(txs),
          small   |-> txs.small,
          fees    |-> SumOfFees(txs),
          salary  |-> TotalSalary(txs),
          refunds |-> RefundMinted(txs, made),
          skipped |-> Addresses(txs) - made])
  /\ UNCHANGED panicked

\* calculateAmountOfRefundTxs divides by zero.
Panic(txs) ==
  /\ ~panicked /\ Height < MaxHeight
  /\ DividesByZero(txs)
  /\ panicked' = TRUE
  /\ UNCHANGED chain

\* The process is started again.
Restart ==
  /\ panicked
  /\ panicked' = FALSE
  /\ UNCHANGED chain

Next ==
  \/ \E txs \in Txs : NewBlock(txs) \/ Panic(txs)
  \/ Restart

Spec == Init /\ [][Next]_vars

\* The leader goes on making blocks, and is started again.
FairSpec ==
  /\ Spec
  /\ WF_vars(\E txs \in Txs : NewBlock(txs) \/ Panic(txs))
  /\ WF_vars(Restart)

(***************************************************************************)
(* ----------------------------- properties ------------------------------ *)
(***************************************************************************)
SmallAt(h) == IF h >= 1 THEN chain[h].small ELSE 0

\* No block makes money out of nothing, though the fees may wrap around, and
\* remainingFund too, before the check and with the refund computed from it:
\* what a block mints and what it leaves in the fund is no more than what the
\* fund and the fees were.  If the fees fit and every refund was made, it is
\* all of it but the remainder of the division among those refunded.
FundExact ==
  \A h \in 2..Height :
    LET came == chain[h - 1].fund + chain[h].fees
        lost == came - (chain[h].fund + chain[h].salary + chain[h].refunds)
    IN  /\ lost >= 0
        /\ came < Modulus /\ chain[h].skipped = 0 =>
             lost = 0 \/ lost < SmallAt(h - 1 - RefundPeriod)

\* common/constants.go:7 of RefundPeriod: "after 1000 blocks since a tx (small &
\* no-privacy) happens, the network will refund an amount of constants to tx
\* initiator automatically".
RefundedAfterPeriod ==
  \A h \in 1..MaxHeight - RefundPeriod - 1 :
    (h <= Height /\ SmallAt(h) > 0) ~>
      (h + RefundPeriod < Height /\ chain[h + RefundPeriod + 1].refunds > 0)
=============================================================================
