SPECIFICATION Spec
CONSTANTS
  Service = Service
  Discount = Discount
  County = County
  City = City
  TaxesPayable = TaxesPayable
  Items = {Service, Discount}
  Rates = {County, City}
  NoRate = NoRate
  Liability <- OneLiability
  Contact = Contact
  Sales = Sales
  Rebates = Rebates
  ItemAccounts = {Sales, Rebates}
  ItemForms <- TwoForms
  FirstItem <- AllTaxable
  FirstRate <- QuarterTax
  MaxEdits = 2
  QtyParts = 2
  PriceParts = 2
  RateParts = 4
  RateValues <- SomeRates
  Requests <- SmallDocuments
INVARIANTS
  NeverRefused
  LedgerFollowsInvoice
  OnlyCostlessIsStuck
  BreakdownAddsUp
PROPERTIES
  EstimateHonoured
CHECK_DEADLOCK FALSE
