--------------------------- MODULE TreasuryProofs ---------------------------
(***************************************************************************)
(* Proofs about the salary fund, for any fees and any parameters for which *)
(* the salary and the refunds of one block fit (TreasuryAssumption).       *)
(***************************************************************************)
EXTENDS Treasury, SequenceTheorems, TLAPS

\* Arithmetic that the provers are told once.
LEMMA Division ==
  ASSUME NEW x \in Nat, NEW r \in Nat \ {0}
  PROVE  /\ x \div r \in Nat
         /\ (x \div r) * r <= x /\ x - (x \div r) * r < r
OBVIOUS

LEMMA Remainder ==
  ASSUME NEW m \in Nat \ {0}, NEW x \in Int
  PROVE  /\ x % m \in 0..m - 1
         /\ 0 <= x => x % m <= x
         /\ 0 <= x /\ x < m => x % m = x
OBVIOUS

LEMMA Wrap ==
  ASSUME NEW x \in Int
  PROVE  /\ Modulus \in Nat \ {0}
         /\ x % Modulus \in 0..Modulus - 1 /\ x % Modulus \in Nat
         /\ 0 <= x => x % Modulus <= x
         /\ 0 <= x /\ x < Modulus => x % Modulus = x
<1>1. Modulus \in Nat \ {0}
  BY TreasuryAssumption DEF TreasuryAssumption
<1>2. /\ x % Modulus \in 0..Modulus - 1
      /\ 0 <= x => x % Modulus <= x
      /\ 0 <= x /\ x < Modulus => x % Modulus = x
  BY <1>1, Remainder
<1> QED
  BY <1>1, <1>2

LEMMA Product ==
  ASSUME NEW a \in Nat, NEW b \in Nat, NEW c \in Nat, NEW d \in Nat, a <= c, b <= d
  PROVE  a * b \in Nat /\ a * b <= c * d
<1>1. a * b <= c * b
  OBVIOUS
<1>2. c * b <= c * d
  OBVIOUS
<1> QED
  BY <1>1, <1>2

LEMMA Constants ==
  /\ InitFundSalary \in 0..Modulus - 1 /\ SalaryPerTx \in Nat /\ BasicSalary \in Nat
  /\ RefundAmount \in Nat /\ RefundPeriod \in Nat \ {0} /\ MaxHeight \in Nat \ {0}
  /\ MaxTxs \in Nat \ {0} /\ Modulus \in Nat \ {0} /\ Fees \subseteq Nat
  /\ MaxTxs * SalaryPerTx \in Nat /\ MaxTxs * RefundAmount \in Nat
  /\ MaxTxs * SalaryPerTx + BasicSalary + MaxTxs * RefundAmount < Modulus
<1>1. /\ InitFundSalary \in Nat /\ SalaryPerTx \in Nat /\ BasicSalary \in Nat
      /\ RefundAmount \in Nat /\ RefundPeriod \in Nat \ {0} /\ MaxHeight \in Nat \ {0}
      /\ MaxTxs \in Nat \ {0} /\ Modulus \in Nat \ {0} /\ Fees \subseteq 0..Modulus - 1
      /\ InitFundSalary < Modulus
      /\ MaxTxs * SalaryPerTx + BasicSalary + MaxTxs * RefundAmount < Modulus
  BY TreasuryAssumption DEF TreasuryAssumption
<1>2. MaxTxs * SalaryPerTx \in Nat /\ MaxTxs * RefundAmount \in Nat
  BY <1>1, Product
<1> QED
  BY <1>1, <1>2

\* The fees of a block, and its salary, which does not wrap.
LEMMA Amounts ==
  ASSUME NEW txs \in Txs
  PROVE  /\ SumOfFees(txs) \in Nat /\ txs.small \in 0..MaxTxs
         /\ TotalFee(txs) \in Nat /\ TotalFee(txs) <= SumOfFees(txs)
         /\ SumOfFees(txs) < Modulus => TotalFee(txs) = SumOfFees(txs)
         /\ TotalSalary(txs) \in Nat
         /\ TotalSalary(txs) <= MaxTxs * SalaryPerTx + BasicSalary
<1>1. /\ txs.paying \in Nat /\ txs.paying <= MaxTxs /\ txs.fee \in Nat
      /\ txs.small \in 0..MaxTxs
  <2>1. txs.paying \in 0..MaxTxs /\ txs.fee \in Fees /\ txs.small \in 0..MaxTxs
    BY DEF Txs
  <2>2. MaxTxs \in Nat /\ Fees \subseteq Nat
    BY Constants
  <2>3. txs.fee \in Nat
    BY <2>1, <2>2, Zenon
  <2>4. txs.paying \in Nat /\ txs.paying <= MaxTxs
    BY <2>1, <2>2
  <2> QED
    BY <2>1, <2>3, <2>4
<1>2. SumOfFees(txs) \in Nat
  BY <1>1, Product DEF SumOfFees
<1>3. /\ TotalFee(txs) \in Nat /\ TotalFee(txs) <= SumOfFees(txs)
      /\ SumOfFees(txs) < Modulus => TotalFee(txs) = SumOfFees(txs)
  BY <1>2, Wrap DEF TotalFee
<1>4. SalaryMULTP(txs) \in Nat /\ SalaryMULTP(txs) <= MaxTxs
  BY <1>1, Constants DEF SalaryMULTP
<1>5. /\ SalaryMULTP(txs) * SalaryPerTx \in Nat
      /\ SalaryMULTP(txs) * SalaryPerTx <= MaxTxs * SalaryPerTx
  BY <1>4, Product, Constants
<1> DEFINE x == SalaryMULTP(txs) * SalaryPerTx + BasicSalary
<1>6. /\ x \in Nat /\ x < Modulus /\ x <= MaxTxs * SalaryPerTx + BasicSalary
      /\ TotalSalary(txs) = x % Modulus
  BY <1>5, Constants DEF TotalSalary
<1> HIDE DEF x
<1>7. TotalSalary(txs) = x
  BY <1>6, Wrap
<1> QED
  BY <1>1, <1>2, <1>3, <1>6, <1>7

\* What a block takes of the fund, and what of it reaches somebody.
LEMMA BlockFacts ==
  ASSUME TypeOK, NEW txs \in Txs, Height \in Nat \ {0}, ~DividesByZero(txs),
         FundSuffices(txs), NEW made \in 0..Addresses(txs)
  PROVE  LET came == chain[Height].fund + SumOfFees(txs)
             f    == NewFund(txs)
             m    == RefundMinted(txs, made)
             lost == came - (f + TotalSalary(txs) + m)
         IN  /\ chain[Height].fund \in Nat /\ f \in 0..Modulus - 1 /\ m \in Nat
             /\ Addresses(txs) - made \in Nat
             /\ lost >= 0
             /\ came < Modulus /\ Addresses(txs) - made = 0 =>
                  lost = 0 \/ (LookbackHeight >= 1 /\ lost < Refunded)
<1> DEFINE came == chain[Height].fund + SumOfFees(txs)
           I == Income(txs)
           S == TotalSalary(txs)
           R == RemainingFund(txs)
           A == RefundAmt(txs)
           N == Addresses(txs)
           M == RefundMinted(txs, made)
           F == NewFund(txs)
<1>1. chain[Height] \in Block
  BY DEF TypeOK, Height
<1>2. chain[Height].fund \in Nat /\ chain[Height].fund < Modulus
  BY <1>1, Constants DEF Block
<1>3. I \in 0..Modulus - 1 /\ I <= came /\ (came < Modulus => I = came) /\ came \in Nat
  <2> DEFINE x == chain[Height].fund + TotalFee(txs)
  <2>1. x \in Nat /\ x <= came /\ (came < Modulus => x = came) /\ came \in Nat
    BY <1>2, Amounts, Constants
  <2>2. I = x % Modulus
    BY DEF Income
  <2> HIDE DEF x, came, I
  <2> QED
    BY <2>1, <2>2, Wrap
<1>4. S \in Nat /\ S <= MaxTxs * SalaryPerTx + BasicSalary
  BY Amounts
<1>5. R \in 0..Modulus - 1
  <2>1. I - S \in Int /\ R = (I - S) % Modulus
    BY <1>3, <1>4, Constants DEF RemainingFund
  <2> HIDE DEF I, S, R
  <2> QED
    BY <2>1, Wrap
<1>6. LookbackHeight >= 1 => Refunded \in 0..MaxTxs
  <2> SUFFICES ASSUME LookbackHeight >= 1 PROVE Refunded \in 0..MaxTxs
    OBVIOUS
  <2>1. LookbackHeight \in 1..Len(chain)
    BY Constants DEF LookbackHeight, Height
  <2>2. chain[LookbackHeight] \in Block
    BY <2>1 DEF TypeOK
  <2> QED
    BY <2>2, Constants DEF Block, Refunded
<1>7. /\ Refunding(txs) => LookbackHeight >= 1 /\ N = Refunded /\ N \in Nat \ {0}
      /\ ~Refunding(txs) => N = 0 /\ A = 0
  BY <1>6, Constants DEF Refunding, DividesByZero, Addresses, RefundAmt
<1>8. A \in Nat /\ A <= MaxTxs * RefundAmount
  <2>1. CASE Refunding(txs)
    <3> DEFINE e == Refunded * RefundAmount
    <3>1. e \in Nat /\ e <= MaxTxs * RefundAmount
      BY <1>6, <1>7, <2>1, Product, Constants
    <3>2. A = IF e % Modulus <= R THEN e % Modulus ELSE R
      BY <2>1 DEF RefundAmt, TotalRefund
    <3> HIDE DEF e, A, R
    <3>3. e % Modulus \in Nat /\ e % Modulus <= e
      BY <3>1, Wrap
    <3> QED
      BY <3>1, <3>2, <3>3, <1>5, Constants
  <2>2. CASE ~Refunding(txs)
    BY <1>7, <2>2, Constants
  <2> QED
    BY <2>1, <2>2
\* The check: neither the sum nor the difference wraps.
<1>9. S + A <= I
  <2>1. I >= (S + A) % Modulus
    BY DEF FundSuffices
  <2> HIDE DEF S, A, I
  <2>2. S + A \in Nat /\ S + A < Modulus
    BY <1>4, <1>8, Constants
  <2> QED
    BY <2>1, <2>2, Wrap
<1>10. F = I - S - A
  <2>1. F = (I - S - A) % Modulus
    BY DEF NewFund
  <2> HIDE DEF S, A, I, F
  <2>2. I - S - A \in Nat /\ I - S - A < Modulus
    BY <1>3, <1>4, <1>8, <1>9, Constants
  <2> QED
    BY <2>1, <2>2, Wrap
<1>11. M \in Nat /\ M <= A /\ (made = N => A - M = 0 \/ (LookbackHeight >= 1 /\ A - M < Refunded))
  <2>1. CASE Refunding(txs)
    <3> DEFINE q == A \div N
    <3>1. M = q * made
      BY <1>7, <2>1 DEF RefundMinted
    <3> HIDE DEF A, M, N
    <3>2. N \in Nat \ {0} /\ q \in Nat /\ q * N <= A /\ A - q * N < N /\ made \in 0..N
      BY <1>7, <1>8, <2>1, Division DEF N
    <3> HIDE DEF q
    <3>3. q * made \in Nat /\ q * made <= q * N
      BY <3>2, Product
    <3>4. q * N \in Nat
      BY <3>2, Product
    <3> QED
      BY <1>7, <1>8, <2>1, <3>1, <3>2, <3>3, <3>4
  <2>2. CASE ~Refunding(txs)
    BY <1>7, <2>2 DEF RefundMinted
  <2> QED
    BY <2>1, <2>2
<1>12. N - made \in Nat /\ (N - made = 0 => made = N)
  BY <1>7
<1> HIDE DEF came, I, S, A, N, M, F
<1>13. F \in 0..Modulus - 1 /\ came - (F + S + M) = (came - I) + (A - M)
  BY <1>3, <1>4, <1>8, <1>9, <1>10, <1>11, Constants
<1>14. /\ came - (F + S + M) >= 0
       /\ came < Modulus /\ N - made = 0 =>
            came - (F + S + M) = 0 \/ (LookbackHeight >= 1 /\ came - (F + S + M) < Refunded)
  BY <1>3, <1>4, <1>8, <1>11, <1>12, <1>13, Constants
<1> QED
  BY <1>2, <1>11, <1>12, <1>13, <1>14 DEF came, S, N, M, F

\* A new block keeps the types, and is exact about its fund.
LEMMA NewBlockKeeps ==
  ASSUME TypeOK, Height >= 1, FundExact, NEW txs \in Txs, NewBlock(txs)
  PROVE  TypeOK' /\ (Height >= 1)' /\ FundExact'
<1>0. /\ UNCHANGED panicked /\ ~DividesByZero(txs) /\ FundSuffices(txs)
      /\ Height \in Nat \ {0}
  BY DEF NewBlock, TypeOK, Height
<1> DEFINE n == Height + 1
           F == NewFund(txs)
           S == TotalSalary(txs)
           M(made) == RefundMinted(txs, made)
           K(made) == Addresses(txs) - made
           new(made) == [fund |-> F, small |-> txs.small, fees |-> SumOfFees(txs),
                         salary |-> S, refunds |-> M(made), skipped |-> K(made)]
<1>m. PICK made \in 0..Addresses(txs) : chain' = Append(chain, new(made))
  BY DEF NewBlock
<1> DEFINE b == new(made)
           came == chain[Height].fund + SumOfFees(txs)
           lost == came - (F + S + M(made))
<1>1. /\ F \in 0..Modulus - 1 /\ M(made) \in Nat /\ K(made) \in Nat /\ lost >= 0
      /\ came < Modulus /\ K(made) = 0 =>
           lost = 0 \/ (LookbackHeight >= 1 /\ lost < Refunded)
  BY <1>0, BlockFacts
<1>2. SumOfFees(txs) \in Nat /\ S \in Nat /\ txs.small \in 0..MaxTxs
  BY Amounts
<1> HIDE DEF F, S, M, K
<1>4. /\ b \in Block /\ b.fund = F /\ b.fees = SumOfFees(txs) /\ b.salary = S
      /\ b.refunds = M(made) /\ b.skipped = K(made)
  BY <1>1, <1>2 DEF Block
<1>3. chain' = Append(chain, b)
  BY <1>m
<1> HIDE DEF new, b
<1>6. /\ chain' \in Seq(Block) /\ Height' = n /\ chain'[n] = b
      /\ \A h \in 1..Height : chain'[h] = chain[h]
  BY <1>3, <1>4 DEF Height, TypeOK
<1>7. TypeOK' /\ (Height >= 1)'
  BY <1>0, <1>6 DEF TypeOK
<1>9. LookbackHeight = n - 1 - RefundPeriod /\ LookbackHeight <= Height
  BY <1>0, Constants DEF LookbackHeight
<1>10. \A h \in Int : h <= Height => SmallAt(h)' = SmallAt(h)
  <2> SUFFICES ASSUME NEW h \in Int, h <= Height PROVE SmallAt(h)' = SmallAt(h)
    OBVIOUS
  <2>1. CASE h >= 1
    <3>1. h \in 1..Height
      BY <1>0, <2>1
    <3> QED
      BY <1>6, <3>1 DEF SmallAt
  <2>2. CASE ~(h >= 1)
    BY <2>2 DEF SmallAt
  <2> QED
    BY <2>1, <2>2
<1>11. LookbackHeight >= 1 => Refunded = SmallAt(LookbackHeight)
  BY DEF Refunded, SmallAt
<1>13. FundExact'
  <2> SUFFICES ASSUME NEW h \in 2..n
               PROVE  LET c == chain'[h - 1].fund + chain'[h].fees
                          l == c - (chain'[h].fund + chain'[h].salary + chain'[h].refunds)
                      IN  /\ l >= 0
                          /\ c < Modulus /\ chain'[h].skipped = 0 =>
                               l = 0 \/ l < SmallAt(h - 1 - RefundPeriod)'
    BY <1>6 DEF FundExact
  <2>1. CASE h = n
    <3>1. chain'[h] = b /\ chain'[h - 1] = chain[Height]
      BY <1>0, <1>6, <2>1
    <3>2. SmallAt(h - 1 - RefundPeriod)' = SmallAt(LookbackHeight)
      BY <1>0, <1>9, <1>10, <2>1, Constants
    <3> QED
      BY <1>1, <1>4, <1>11, <3>1, <3>2
  <2>2. CASE h \in 2..Height
    <3>1. chain'[h] = chain[h] /\ chain'[h - 1] = chain[h - 1]
      BY <1>0, <1>6, <2>2
    <3>2. SmallAt(h - 1 - RefundPeriod)' = SmallAt(h - 1 - RefundPeriod)
      BY <1>0, <1>10, <2>2, Constants
    <3> QED
      BY <2>2, <3>1, <3>2 DEF FundExact
  <2> QED
    BY <1>0, <2>1, <2>2
<1> QED
  BY <1>7, <1>13

LEMMA Inv == Spec => [](TypeOK /\ Height >= 1 /\ FundExact)
<1>1. Init => TypeOK /\ Height >= 1 /\ FundExact
  <2> SUFFICES ASSUME Init PROVE TypeOK /\ Height >= 1 /\ FundExact
    OBVIOUS
  <2> DEFINE g == [fund |-> InitFundSalary, small |-> 0, fees |-> 0,
                   salary |-> 0, refunds |-> 0, skipped |-> 0]
  <2>1. chain = <<g>> /\ panicked = FALSE
    BY DEF Init
  <2>2. g \in Block
    BY Constants DEF Block
  <2> HIDE DEF g
  <2>3. <<g>> \in Seq(Block) /\ Len(<<g>>) = 1
    BY <2>2
  <2>4. TypeOK /\ Height = 1
    BY <2>1, <2>3 DEF TypeOK, Height
  <2> QED
    BY <2>4 DEF FundExact
<1>2. TypeOK /\ Height >= 1 /\ FundExact /\ [Next]_vars
        => (TypeOK /\ Height >= 1 /\ FundExact)'
  <2> SUFFICES ASSUME TypeOK, Height >= 1, FundExact, [Next]_vars
               PROVE  (TypeOK /\ Height >= 1 /\ FundExact)'
    OBVIOUS
  <2>1. CASE \E txs \in Txs : NewBlock(txs)
    BY <2>1, NewBlockKeeps
  <2>2. CASE UNCHANGED chain /\ panicked' \in BOOLEAN
    BY <2>2 DEF TypeOK, FundExact, SmallAt, Height
  <2>3. (\E txs \in Txs : NewBlock(txs)) \/ (UNCHANGED chain /\ panicked' \in BOOLEAN)
    BY DEF Next, Panic, Restart, vars, TypeOK
  <2> QED
    BY <2>1, <2>2, <2>3
<1> QED
  BY <1>1, <1>2, PTL DEF Spec

\* Type correctness: the fund of every block is an amount of the code.
THEOREM TypeCorrect == Spec => []TypeOK
BY Inv, PTL

\* No block makes money out of nothing, whatever the fees, which may wrap, and
\* though remainingFund may wrap before the check: NewBlockTemplate's check lets a
\* block through only if salary, refunds and new fund are covered.
THEOREM FundAlwaysExact == Spec => []FundExact
BY Inv, PTL
=============================================================================
