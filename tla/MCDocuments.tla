---------------------------- MODULE MCDocuments ----------------------------
(***************************************************************************)
(* Small books of documents for TLC.                                       *)
(***************************************************************************)
EXTENDS Documents, TLC

CONSTANTS i1, i2

Pay(i, amt) == <<[inv |-> i, amt |-> amt]>>

\* Payments of part or all of one invoice, and one that applies to it twice.
OneInvoicePlans == {Pay(i1, 1), Pay(i1, 2), Pay(i1, 1) \o Pay(i1, 1)}

\* The same and a payment of half a cent, with CentParts = 2.
HalfCentPlans == {Pay(i1, 1), Pay(i1, 2), Pay(i1, 4), Pay(i1, 2) \o Pay(i1, 2)}

\* Payments of two invoices in either order.
CrossingPlans == {Pay(i1, 1) \o Pay(i2, 1), Pay(i2, 1) \o Pay(i1, 1)}

Symmetric == Permutations(Workers) \union Permutations(Payments)
=============================================================================
