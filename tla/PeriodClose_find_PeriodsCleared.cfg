SPECIFICATION Spec
CONSTANTS
  Workers = {w1, w2}
  TxnIds = {1, 2, 3, 4, 5}
  CloseIds = {1, 2}
  LastDate = 2
  Sales = Sales
  Cash = Cash
  Rent = Rent
  Revenue = {Sales}
  Expenses = {}
  Permanent = {Cash}
  IncomeSummary = IncomeSummary
  RetainedEarnings = RetainedEarnings
  Drafts <- SaleDrafts
  CentParts = 1
  NoTxn = NoTxn
  NoClose = NoClose
  NoWorker = NoWorker
INVARIANT PeriodsCleared
