SPECIFICATION Spec
CONSTANTS
  InitFundSalary = 4
  SalaryPerTx = 2
  BasicSalary = 1
  RefundAmount = 2
  RefundPeriod = 1
  Modulus = 32
  MaxHeight = 5
  MaxTxs = 3
  Fees = {0, 1, 3, 31}
INVARIANTS FundExact
CHECK_DEADLOCK FALSE
