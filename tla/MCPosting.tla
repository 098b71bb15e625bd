----------------------------- MODULE MCPosting -----------------------------
(***************************************************************************)
(* A small catalog for TLC: a service and a discount item, two rates owed  *)
(* to one account, and documents of up to three lines.                     *)
(***************************************************************************)
EXTENDS Posting

CONSTANTS Service, Discount, County, City, TaxesPayable, Sales, Rebates

OneLiability == [r \in Rates |-> TaxesPayable]

Line(i, qty, price, taxable, r) == [item |-> i, qty |-> qty, price |-> price, taxable |-> taxable, rate |-> r]

\* Two cents of service, the same taken off, a price of half a cent, a line
\* taxed at the other rate, one at whatever its item has, one with a rate but
\* no tax, and one for free.
SomeLines ==
  { Line(Service, 2, 4, "default", NoRate),
    Line(Discount, -2, 4, "default", NoRate),
    Line(Service, 4, 1, "no", NoRate),
    Line(Service, 3, 2, "yes", City),
    Line(Service, 3, 2, "yes", NoRate),
    Line(Discount, -1, 2, "no", City),
    Line(Service, 2, 0, "default", NoRate) }

\* One line, two, or a third that takes off what another adds.
SmallDocuments ==
  LET off == Line(Discount, -2, 4, "default", NoRate) IN
  {<<a>> : a \in SomeLines} \union {<<a, b>> : a, b \in SomeLines}
    \union {<<a, off, b>> : a, b \in SomeLines \ {off}}

Taxable == [account |-> Sales, taxable |-> TRUE, rate |-> County]
TwoForms == {Taxable, [account |-> Rebates, taxable |-> FALSE, rate |-> NoRate]}

AllTaxable == [i \in Items |-> Taxable]
QuarterTax == [r \in Rates |-> 1]

\* Of four parts: 25 %, 75 %, and -100 %, at which a purchase costs nothing.
SomeRates == {1, 3, -4}
=============================================================================
