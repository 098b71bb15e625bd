SPECIFICATION Spec
CONSTANTS
  Workers = {w1, w2, w3}
  Invoices = {i1}
  Payments = {p1, p2}
  Totals = {1, 2}
  i1 = i1
  i2 = i2
  Plans <- OneInvoicePlans
  CentParts = 1
  Versioned = {TRUE}
  NoInvoice = NoInvoice
  NoPayment = NoPayment
  NoWorker = NoWorker
SYMMETRY Symmetric
INVARIANTS
  CancelledUnpaid
  CancelledFrozen
  LedgerAgrees
  PaidIsSettled
