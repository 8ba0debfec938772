SPECIFICATION FairSpec
CONSTANTS
  InitFundSalary = 30
  SalaryPerTx = 2
  BasicSalary = 1
  RefundAmount = 2
  RefundPeriod = 2
  Modulus = 128
  MaxHeight = 6
  MaxTxs = 1
  Fees = {0, 3}
PROPERTIES RefundedAfterPeriod
CHECK_DEADLOCK FALSE
