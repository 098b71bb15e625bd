SPECIFICATION Spec
CONSTANTS
  Workers = {w1, w2}
  TxnIds = {1, 2, 3, 4, 5}
  CloseIds = {1, 2}
  LastDate = 1
  Sales = Sales
  Cash = Cash
  Rent = Rent
  Revenue = {Sales}
  Expenses = {Rent}
  Permanent = {Cash}
  IncomeSummary = IncomeSummary
  RetainedEarnings = RetainedEarnings
  Drafts <- TradingDrafts
  CentParts = 1
  NoTxn = NoTxn
  NoClose = NoClose
  NoWorker = NoWorker
SYMMETRY WorkerSymmetry
INVARIANTS
  ReversedOnce
  ActiveEndsDistinct
  ReversalUndoesClose
  CloseStandsWhole
  CloseSweepsSummary
  LedgerBalanced
