SPECIFICATION FairSpec
CONSTANTS
  Workers = {w1, w2}
  Invoices = {i1, i2}
  Payments = {p1, p2}
  Totals = {1}
  i1 = i1
  i2 = i2
  Plans <- CrossingPlans
  CentParts = 1
  Versioned = {FALSE}
  NoInvoice = NoInvoice
  NoPayment = NoPayment
  NoWorker = NoWorker
INVARIANT PaymentWhole
PROPERTY EveryRequestEnds
