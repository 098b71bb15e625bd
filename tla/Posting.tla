------------------------------ MODULE Posting ------------------------------
(***************************************************************************)
(* The arithmetic of a document: how the lines a client sends become the   *)
(* lines of an estimate or an invoice, their taxes and totals, and how an  *)
(* invoice's lines become the entries of its ledger transaction.           *)
(*                                                                         *)
(* Each request reads the items and tax rates it needs and writes its      *)
(* document in one transaction, and nothing it reads is read twice: it is  *)
(* one step.  (What overlapping requests do to an invoice is in Documents.)*)
(* Money is stored in cents.  A line is sent with a quantity in            *)
(* 1/QtyParts, as precise as its column, and a price in 1/PriceParts of a  *)
(* cent; a rate counts 1/RateParts.                                        *)
(***************************************************************************)
EXTENDS LedgerMath, Sequences, FiniteSetsExt, Functions

CONSTANTS
  Items,       \* the catalog
  Rates,       \* rows of tax_rate
  NoRate,
  Liability,   \* tax_liability_account_id of each rate: no request changes it
  Contact,     \* the contact's own receivable or payable account
  ItemAccounts,        \* accounts an item may post to
  QtyParts, PriceParts, RateParts,   \* BOUND: the precision of what is sent
  RateValues,  \* BOUND: the rates a tax_rate may hold, of either sign
  ItemForms,   \* BOUND: what an item may be
  FirstItem, FirstRate,   \* BOUND: the catalog to start with
  Requests,    \* BOUND: the line items a client may send
  MaxEdits     \* BOUND: on the changes to items and rates

ASSUME PartsAssumption == {QtyParts, PriceParts, RateParts} \subseteq Nat \ {0}
ASSUME RateAssumption == NoRate \notin Rates /\ RateValues \subseteq Int
ASSUME RequestsAssumption ==
  Requests \subseteq Seq([item : Items, qty : Int, price : Int, rate : Rates \union {NoRate},
                          taxable : {"yes", "no", "default"}]) \ {<<>>}
ASSUME CatalogAssumption ==
  /\ FirstItem \in [Items -> ItemForms] /\ FirstRate \in [Rates -> RateValues]
  /\ ItemForms \subseteq [account : ItemAccounts, taxable : BOOLEAN, rate : Rates \union {NoRate}]

Accounts == ItemAccounts \union {Liability[r] : r \in Rates} \union {Contact}

VARIABLES
  item,       \* item: account, taxable, default rate
  active,     \* item.is_active
  rate,       \* tax_rate.rate
  estimate,   \* an estimate's lines; <<>> without one, and once it is converted
  invoice,    \* an invoice
  entries,    \* ledger_entry: of the invoice's posting and of its reversal
  refused,    \* a posting has failed the table's CHECK or VerifyBalanced
  edits       \* how often items and rates have changed

catalog == <<item, active, rate, edits>>
vars == <<catalog, estimate, invoice, entries, refused>>

NoInvoice == [st |-> "none", type |-> "SALES", lines |-> <<>>, total |-> 0]

Init ==
  /\ item = FirstItem
  /\ active = [i \in Items |-> TRUE]
  /\ rate = FirstRate
  /\ estimate = <<>>
  /\ invoice = NoInvoice
  /\ entries = [posting |-> <<>>, reversal |-> <<>>]
  /\ refused = FALSE
  /\ edits = 0

\* Rows are a function of their keys: of its line number, a document's line.
Total(amounts) == MapThenSumSet(LAMBDA k : amounts[k], DOMAIN amounts)
Mapped(f(_), rows) == [k \in DOMAIN rows |-> f(rows[k])]

-----------------------------------------------------------------------------
(* Lines.                                                                  *)

\* resolveLine: what the line does not say, the item does.
Resolved(l) ==
  LET i == item[l.item]
      taxable == IF l.taxable = "default" THEN i.taxable ELSE l.taxable = "yes" IN
  [item |-> l.item, qty |-> l.qty, price |-> l.price, account |-> i.account, taxable |-> taxable,
   rate |-> IF l.rate = NoRate /\ taxable THEN i.rate ELSE l.rate]

\* computeLines, for one line.
Taxed(l) == l.taxable /\ l.rate # NoRate

Subtotal(l) == Stored(l.qty * l.price, QtyParts * PriceParts)

Tax(l) == IF Taxed(l) THEN Stored(Subtotal(l) * rate[l.rate], RateParts) ELSE 0

\* The row: its price, unlike its subtotal, is rounded by its column.
Computed(l) ==
  [item |-> l.item, qty |-> l.qty, price |-> Stored(l.price, PriceParts), account |-> l.account,
   taxable |-> l.taxable, rate |-> l.rate, applied |-> IF Taxed(l) THEN rate[l.rate] ELSE 0,
   subtotal |-> Subtotal(l), tax |-> Tax(l), total |-> Subtotal(l) + Tax(l)]

Lines(request) == Mapped(LAMBDA l : Computed(Resolved(l)), request)

DocumentTotal(lines) ==
  Total(Mapped(LAMBDA l : l.subtotal, lines)) + Total(Mapped(LAMBDA l : l.tax, lines))

\* lookupLineItem, and computeLines' check of the total.
Accepted(request) ==
  /\ \A i \in DOMAIN request : active[request[i].item]
  /\ DocumentTotal(Lines(request)) >= 0

\* newDocumentLineItemsFromEstimate: the stored lines, sent again.  (variant:
\* without what they said of tax)
QuotedUntaxed(lines) ==
  Mapped(LAMBDA l : [item |-> l.item, qty |-> l.qty, price |-> l.price * PriceParts,
                     taxable |-> "default", rate |-> NoRate], lines)
Quoted(lines) ==
  Mapped(LAMBDA l : [item |-> l.item, qty |-> l.qty, price |-> l.price * PriceParts,
                     taxable |-> IF l.taxable THEN "yes" ELSE "no", rate |-> l.rate], lines)

-----------------------------------------------------------------------------
(* writeInvoiceLedgerEntries.  A leg is an account, a signed amount and    *)
(* the side a positive amount belongs on.  Its key says what it is for: the*)
(* contact, a line, or the tax owed to a liability account, which the code *)
(* gathers in a map.                                                       *)

Leg(account, amount, naturalDebit) ==
  [account |-> account, amount |-> amount, naturalDebit |-> naturalDebit]

\* The revenue or expense leg of a line: a purchase's tax is part of its cost.
LineLeg(sales, l) == Leg(l.account, IF sales THEN l.subtotal ELSE l.subtotal + l.tax, ~sales)

\* The lines of a sale whose tax is owed to a liability account.
TaxedLines(lines) == RestrictValues(lines, LAMBDA l : l.rate # NoRate /\ l.tax # 0)
TaxedTo(lines, a) == RestrictValues(TaxedLines(lines), LAMBDA l : Liability[l.rate] = a)
Owed(lines, a) == Total(Mapped(LAMBDA l : l.tax, TaxedTo(lines, a)))
TaxAccounts(lines) == {Liability[l.rate] : l \in Range(TaxedLines(lines))}

LegKeys(inv) ==
  {<<"contact", Contact>>} \union ({"line"} \X DOMAIN inv.lines)
    \union (IF inv.type = "SALES" THEN {"tax"} \X TaxAccounts(inv.lines) ELSE {})

Legs(inv) ==
  LET sales == inv.type = "SALES" IN
  [k \in LegKeys(inv) |->
     CASE k[1] = "contact" -> Leg(Contact, inv.total, sales)
       [] k[1] = "line" -> LineLeg(sales, inv.lines[k[2]])
       [] k[1] = "tax" -> Leg(k[2], Owed(inv.lines, k[2]), FALSE)]

\* A zero leg would violate the table's CHECK.  (variant: it is posted)
WorthPostingAll(legs) == legs
WorthPosting(legs) == RestrictValues(legs, LAMBDA g : g.amount # 0)

EntriesOf(legs) ==
  Mapped(LAMBDA g : [account |-> g.account, e |-> DebitCreditFor(g.amount, g.naturalDebit)],
         WorthPosting(legs))

\* (variant: an invoice that totals zero is not posted at all)
PostedUnlessZero(inv) == IF inv.total = 0 THEN <<>> ELSE EntriesOf(Legs(inv))
Posted(inv) == EntriesOf(Legs(inv))

VerifyBalanced(es) ==
  Total(Mapped(LAMBDA x : x.e.debit, es)) = Total(Mapped(LAMBDA x : x.e.credit, es))
Acceptable(es) == (\A k \in DOMAIN es : DebitOrCredit(es[k].e)) /\ VerifyBalanced(es)

\* ReverseTransaction.
Reversal(es) == Mapped(LAMBDA x : [x EXCEPT !.e = Swap(@)], es)

-----------------------------------------------------------------------------
\* CreateInvoice and UpdateInvoiceLineItems: the document and its entries, or
\* neither; the entries of an earlier posting are soft-deleted.  (variant:
\* those that no new one stands for stay)
ReplacedBeside(old, new) ==
  [k \in DOMAIN old \union DOMAIN new |-> IF k \in DOMAIN new THEN new[k] ELSE old[k]]
Replaced(old, new) == new

Post(inv) ==
  LET es == Posted(inv) IN
  IF Acceptable(es)
  THEN /\ invoice' = inv
       /\ entries' = [entries EXCEPT !.posting = Replaced(@, es)]
       /\ UNCHANGED refused
  ELSE refused' = TRUE /\ UNCHANGED <<invoice, entries>>

Open(type, lines) ==
  [st |-> "open", type |-> type, lines |-> lines, total |-> DocumentTotal(lines)]

\* BOUND: an invoice of its own is followed only without an estimate, an
\* estimate only until it is converted.
CreateInvoice ==
  \E r \in Requests, type \in {"SALES", "PURCHASE"} :
    /\ invoice.st = "none" /\ estimate = <<>> /\ Accepted(r)
    /\ Post(Open(type, Lines(r)))
    /\ UNCHANGED <<catalog, estimate>>

CreateInvoiceFromEstimate ==
  \E type \in {"SALES", "PURCHASE"} :
    LET r == Quoted(estimate) IN
    /\ invoice.st = "none" /\ estimate # <<>> /\ Accepted(r)
    /\ Post(Open(type, Lines(r)))
    /\ estimate' = <<>>
    /\ UNCHANGED catalog

UpdateInvoiceLineItems ==
  \E r \in Requests :
    /\ invoice.st = "open" /\ Accepted(r)
    /\ Post(Open(invoice.type, Lines(r)))
    /\ UNCHANGED <<catalog, estimate>>

\* Cancellation posts the reversal; a posting without entries refuses it.
CancelInvoice ==
  /\ invoice.st = "open" /\ entries.posting # <<>>
  /\ invoice' = [invoice EXCEPT !.st = "cancelled"]
  /\ entries' = [entries EXCEPT !.reversal = Reversal(entries.posting)]
  /\ UNCHANGED <<catalog, estimate, refused>>

\* CreateEstimate and UpdateEstimateLineItems.
WriteEstimate ==
  \E r \in Requests :
    /\ invoice.st = "none" /\ Accepted(r)
    /\ estimate' = Lines(r)
    /\ UNCHANGED <<catalog, invoice, entries, refused>>

Edit ==
  /\ edits < MaxEdits /\ edits' = edits + 1
  /\ UNCHANGED <<estimate, invoice, entries, refused>>

UpdateTaxRate ==
  \E r \in Rates, v \in RateValues : Edit /\ rate' = [rate EXCEPT ![r] = v] /\ UNCHANGED <<item, active>>

UpdateItem ==
  \E i \in Items, f \in ItemForms : Edit /\ item' = [item EXCEPT ![i] = f] /\ UNCHANGED <<active, rate>>

DeactivateItem ==
  \E i \in Items : Edit /\ active' = [active EXCEPT ![i] = FALSE] /\ UNCHANGED <<item, rate>>

Next ==
  \/ CreateInvoice \/ CreateInvoiceFromEstimate \/ UpdateInvoiceLineItems \/ CancelInvoice
  \/ WriteEstimate \/ UpdateTaxRate \/ UpdateItem \/ DeactivateItem

Spec == Init /\ [][Next]_vars

-----------------------------------------------------------------------------
(* taxBreakdown, as the invoice prints it.                                 *)

\* A row for each rate, where it first appears.  (variant: where it changes)
FirstOfRun(lines) == {i \in DOMAIN lines : i = 1 \/ lines[i - 1].rate # lines[i].rate}
FirstOfRate(lines) == {i \in DOMAIN lines : \A j \in 1 .. i - 1 : lines[j].rate # lines[i].rate}

TaxBreakdown(lines) ==
  [i \in FirstOfRate(lines) |->
     LET group == RestrictValues(lines, LAMBDA l : l.rate = lines[i].rate) IN
     [rate |-> lines[i].rate, net |-> Total(Mapped(LAMBDA l : l.subtotal, group)),
      tax |-> Total(Mapped(LAMBDA l : l.tax, group)),
      total |-> Total(Mapped(LAMBDA l : l.total, group))]]

\* What the entries do to an account, as debit minus credit.
Moved(es, a) == Total(Mapped(LAMBDA x : IF x.account = a THEN Signed(x.e) ELSE 0, es))

\* No document the handlers accept, with discounts, free lines or taxes that
\* cancel, produces entries the table or VerifyBalanced refuses ("a bug in the
\* caller's arithmetic, never bad input", entries.go:63).
NeverRefused == ~refused

\* However often an invoice's lines were replaced, its posting says what the
\* document says: the contact owes the total, sales tax is owed where the rate
\* says to the cent the lines show, a purchase owes none; and a cancelled
\* invoice has left no trace in any account.
LedgerFollowsInvoice ==
  LET owed(a) == Total(Mapped(LAMBDA l : IF Taxed(l) /\ Liability[l.rate] = a THEN l.tax ELSE 0,
                              invoice.lines))
      sales == invoice.type = "SALES"
  IN
  /\ invoice.st = "open" =>
       /\ Moved(entries.posting, Contact) = IF sales THEN invoice.total ELSE -invoice.total
       /\ \A a \in {Liability[r] : r \in Rates} :
            -Moved(entries.posting, a) = IF sales THEN owed(a) ELSE 0
  /\ invoice.st = "cancelled" =>
       \A a \in Accounts : Moved(entries.posting, a) + Moved(entries.reversal, a) = 0

\* Only an invoice whose every line is free has no entries, and so cannot be
\* cancelled (reverse.go:41): a discount of everything still can.  The one
\* exception is a purchase's line at a negative rate, which UpdateTaxRate does
\* not refuse: its tax may take off the whole subtotal, and it costs nothing.
OnlyCostlessIsStuck ==
  invoice.st = "open" /\ entries.posting = <<>> =>
    \A i \in DOMAIN invoice.lines :
      LET l == invoice.lines[i] IN
      /\ l.subtotal + l.tax = 0
      /\ invoice.type = "SALES" \/ l.applied >= 0 => l.subtotal = 0 /\ l.tax = 0

\* The printed breakdown has one row for each rate and adds up to the totals.
BreakdownAddsUp ==
  LET rows == TaxBreakdown(invoice.lines) IN
  /\ IsInjective(Mapped(LAMBDA x : x.rate, rows))
  /\ Total(Mapped(LAMBDA x : x.total, rows)) = invoice.total
  /\ Total(Mapped(LAMBDA x : x.net, rows)) + Total(Mapped(LAMBDA x : x.tax, rows)) = invoice.total

\* A line whose stored price and rate are still what it was charged at.
AsQuoted(l) ==
  /\ l.taxable => l.rate # NoRate /\ l.applied = rate[l.rate]
  /\ l.subtotal = Stored(l.qty * l.price, QtyParts)

\* An invoice made from an estimate charges what was quoted, although items
\* and rates are read again (schema.md:334: carried over as-is), if the rates
\* are the quoted ones, no price had parts of a cent and every taxable line
\* had a rate: README.md says what happens otherwise.
EstimateHonoured ==
  [][estimate # <<>> /\ invoice # invoice' /\ (\A i \in DOMAIN estimate : AsQuoted(estimate[i]))
       => invoice'.total = DocumentTotal(estimate)]_vars
=============================================================================
