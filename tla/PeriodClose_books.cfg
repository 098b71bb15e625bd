SPECIFICATION Spec
CONSTANTS
  Workers = {w1}
  TxnIds = {1, 2, 3, 4, 5}
  CloseIds = {1, 2, 3}
  LastDate = 2
  Sales = Sales
  Cash = Cash
  Rent = Rent
  Revenue = {Sales}
  Expenses = {Rent}
  Permanent = {Cash, Bank}
  Bank = Bank
  Assets = {Cash, Bank}
  Parent <- BankAbove
  NoParent = NoParent
  IncomeSummary = IncomeSummary
  RetainedEarnings = RetainedEarnings
  Drafts <- SaleDrafts
  CentParts = 1
  NoTxn = NoTxn
  NoClose = NoClose
  NoWorker = NoWorker
INVARIANTS
  PeriodsCleared
  PeriodsTile
  SheetBalances
PROPERTIES
  LockHolds
  ImplementsBooks
