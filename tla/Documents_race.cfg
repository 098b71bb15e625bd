SPECIFICATION Spec
CONSTANTS
  Workers = {w1, w2}
  Invoices = {i1}
  Payments = {p1, p2}
  Totals = {1, 2}
  i1 = i1
  i2 = i2
  Plans <- HalfCentPlans
  CentParts = 2
  Versioned = {FALSE}
  NoInvoice = NoInvoice
  NoPayment = NoPayment
  NoWorker = NoWorker
SYMMETRY Symmetric
INVARIANTS
  TypeOK
  PaidIsApplied
  DueNeverNegative
  DraftUnpaid
