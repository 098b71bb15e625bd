---------------------------- MODULE Posting_proofs ----------------------------
(***************************************************************************)
(* Theorems about Posting, for any catalog, any rates and documents of any *)
(* length.  The legs of a document cancel, so that its entries balance and *)
(* no posting is refused; what is stored does not change with the catalog; *)
(* and only a document that costs nothing line by line has no entries.     *)
(***************************************************************************)
EXTENDS Posting, LedgerMath_proofs

Row == [item : Items, qty : Int, price : Int, account : ItemAccounts, taxable : BOOLEAN,
        rate : Rates \union {NoRate}, applied : Int, subtotal : Int, tax : Int, total : Int]

\* What a line says of itself, whatever its rate has become since.
RowOK(l) ==
  /\ l \in Row
  /\ l.total = l.subtotal + l.tax
  /\ l.tax = IF Taxed(l) THEN Stored(l.subtotal * l.applied, RateParts) ELSE 0

LinesOK(lines) ==
  /\ \E n \in Nat : DOMAIN lines = 1 .. n
  /\ \A i \in DOMAIN lines : RowOK(lines[i])

\* A document adds up.
DocumentOK(inv) ==
  /\ inv.type \in {"SALES", "PURCHASE"}
  /\ LinesOK(inv.lines)
  /\ inv.total = DocumentTotal(inv.lines)

CatalogOK == item \in [Items -> ItemForms] /\ rate \in [Rates -> RateValues]

InvoiceOK ==
  /\ invoice.st \in {"none", "open", "cancelled"}
  /\ invoice = [st |-> invoice.st, type |-> invoice.type, lines |-> invoice.lines,
                total |-> invoice.total]

\* The entries are those of the document as it is now.
EntriesFollow ==
  /\ entries = [posting |-> entries.posting, reversal |-> entries.reversal]
  /\ invoice.st # "none" => entries.posting = Posted(invoice)
  /\ invoice.st = "cancelled" => entries.reversal = Reversal(entries.posting)

PostingInv ==
  /\ CatalogOK
  /\ LinesOK(estimate)
  /\ estimate # <<>> => invoice.st = "none"
  /\ InvoiceOK
  /\ DocumentOK(invoice)
  /\ EntriesFollow
  /\ NeverRefused

-----------------------------------------------------------------------------
(* Sums over the rows of a document.                                       *)

\* A total is a sum over the rows.
LEMMA TotalIsSum == \A f : Total(f) = SumOver(f, DOMAIN f)
BY DEF Total, SumOver

\* A document has finitely many lines, with whole amounts.
LEMMA LinesFinite ==
  ASSUME NEW lines, LinesOK(lines)
  PROVE  /\ IsFiniteSet(DOMAIN lines)
         /\ DOMAIN lines \subseteq Nat \ {0}
         /\ \A i \in DOMAIN lines :
              /\ lines[i].subtotal \in Int /\ lines[i].tax \in Int
              /\ lines[i].total = lines[i].subtotal + lines[i].tax
              /\ lines[i].rate \in Rates \union {NoRate}
              /\ lines[i].rate = NoRate => lines[i].tax = 0
<1>1. PICK n \in Nat : DOMAIN lines = 1 .. n
  BY DEF LinesOK
<1>2. IsFiniteSet(1 .. n) /\ 1 .. n \subseteq Nat \ {0}
  BY FS_Interval
<1>3. ASSUME NEW i \in DOMAIN lines
      PROVE  /\ lines[i].subtotal \in Int /\ lines[i].tax \in Int
             /\ lines[i].total = lines[i].subtotal + lines[i].tax
             /\ lines[i].rate \in Rates \union {NoRate}
             /\ lines[i].rate = NoRate => lines[i].tax = 0
  <2>1. PICK l : l = lines[i]
    OBVIOUS
  <2>2. RowOK(l)
    BY <1>3, <2>1 DEF LinesOK
  <2> QED
    BY <2>1, <2>2 DEF RowOK, Row, Taxed
<1> QED
  BY <1>1, <1>2, <1>3

\* The document's total is a sum over its lines.
LEMMA TotalOfLines ==
  ASSUME NEW lines, LinesOK(lines)
  PROVE  LET sub == [i \in DOMAIN lines |-> lines[i].subtotal]
             tax == [i \in DOMAIN lines |-> lines[i].tax]
             all == [i \in DOMAIN lines |-> lines[i].subtotal + lines[i].tax]
         IN  /\ SumOver(sub, DOMAIN lines) \in Int
             /\ SumOver(tax, DOMAIN lines) \in Int
             /\ DocumentTotal(lines) = SumOver(sub, DOMAIN lines) + SumOver(tax, DOMAIN lines)
             /\ DocumentTotal(lines) = SumOver(all, DOMAIN lines)
             /\ DocumentTotal(lines) \in Int
<1> DEFINE sub == [i \in DOMAIN lines |-> lines[i].subtotal]
           tax == [i \in DOMAIN lines |-> lines[i].tax]
           all == [i \in DOMAIN lines |-> lines[i].subtotal + lines[i].tax]
<1>1. DocumentTotal(lines) = Total(sub) + Total(tax)
  BY DEF DocumentTotal, Mapped
<1>2. /\ Total(sub) = SumOver(sub, DOMAIN lines)
      /\ Total(tax) = SumOver(tax, DOMAIN lines)
  BY TotalIsSum
<1>3. IsFiniteSet(DOMAIN lines)
      /\ \A i \in DOMAIN lines : sub[i] \in Int /\ tax[i] \in Int /\ all[i] = sub[i] + tax[i]
  BY LinesFinite
<1> HIDE DEF sub, tax, all
<1>4. SumOver(all, DOMAIN lines) = SumOver(sub, DOMAIN lines) + SumOver(tax, DOMAIN lines)
  BY <1>3, SumPlus
<1>5. SumOver(sub, DOMAIN lines) \in Int /\ SumOver(tax, DOMAIN lines) \in Int
  BY <1>3, SumType
<1> QED
  BY <1>1, <1>2, <1>4, <1>5 DEF sub, tax, all

\* The lines whose tax is owed, and the accounts it is owed to.
TaxedAt(lines) == {i \in DOMAIN lines : lines[i].rate # NoRate /\ lines[i].tax # 0}

\* Of a document, the lines whose tax is owed and the accounts it is owed to.
LEMMA TaxedLinesAre ==
  ASSUME NEW lines, LinesOK(lines)
  PROVE  /\ TaxedLines(lines) = [i \in TaxedAt(lines) |-> lines[i]]
         /\ TaxAccounts(lines) = {Liability[lines[i].rate] : i \in TaxedAt(lines)}
         /\ IsFiniteSet(TaxAccounts(lines))
         /\ \A i \in TaxedAt(lines) : lines[i].rate \in Rates
<1>1. TaxedLines(lines) = [i \in TaxedAt(lines) |-> lines[i]]
  BY DEF TaxedLines, TaxedAt, RestrictValues, Restrict
<1>2. TaxAccounts(lines) = {Liability[lines[i].rate] : i \in TaxedAt(lines)}
  BY <1>1 DEF TaxAccounts, Range
<1>3. IsFiniteSet(TaxedAt(lines))
  BY LinesFinite, FS_Subset DEF TaxedAt
<1>4. IsFiniteSet({Liability[lines[i].rate] : i \in TaxedAt(lines)})
  <2>1. PICK S : S = TaxedAt(lines)
    OBVIOUS
  <2> DEFINE T == {Liability[lines[i].rate] : i \in S}
             owed == [i \in S |-> Liability[lines[i].rate]]
  <2>2. owed \in Surjection(S, T)
    BY DEF Surjection
  <2> HIDE DEF T, owed
  <2>3. IsFiniteSet(T)
    BY <1>3, <2>1, <2>2, FS_Surjection
  <2> QED
    BY <2>1, <2>3 DEF T
<1>5. \A i \in TaxedAt(lines) : lines[i].rate \in Rates
  BY LinesFinite DEF TaxedAt
<1> QED
  BY <1>1, <1>2, <1>4, <1>5

\* What an account is owed is a sum over the document's lines.
LEMMA OwedIsSum ==
  ASSUME NEW lines, LinesOK(lines), NEW a
  PROVE  /\ Owed(lines, a) = SumOver([i \in DOMAIN lines |-> lines[i].tax],
                                     {i \in TaxedAt(lines) : Liability[lines[i].rate] = a})
         /\ Owed(lines, a) \in Int
<1> DEFINE D == {i \in TaxedAt(lines) : Liability[lines[i].rate] = a}
           tax == [i \in DOMAIN lines |-> lines[i].tax]
           part == [i \in D |-> lines[i].tax]
<1>1. TaxedTo(lines, a) = [i \in D |-> lines[i]]
  <2>1. PICK t : t = TaxedLines(lines)
    OBVIOUS
  <2>2. DOMAIN t = TaxedAt(lines) /\ \A i \in TaxedAt(lines) : t[i] = lines[i]
    BY <2>1, TaxedLinesAre
  <2>3. TaxedTo(lines, a) = [i \in {j \in DOMAIN t : Liability[t[j].rate] = a} |-> t[i]]
    BY <2>1 DEF TaxedTo, RestrictValues, Restrict
  <2>4. {j \in DOMAIN t : Liability[t[j].rate] = a} = D
    BY <2>2
  <2> QED
    BY <2>2, <2>3, <2>4
<1>2. Mapped(LAMBDA l : l.tax, TaxedTo(lines, a)) = part
  BY <1>1 DEF Mapped
<1>3. Owed(lines, a) = SumOver(part, D)
  BY <1>2, TotalIsSum DEF Owed
<1>4. IsFiniteSet(D) /\ \A i \in D : part[i] \in Int /\ part[i] = tax[i]
  BY LinesFinite, FS_Subset DEF TaxedAt
<1> HIDE DEF D, part, tax
<1>5. SumOver(part, D) = SumOver(tax, D)
  BY <1>4, SumSame
<1>6. SumOver(part, D) \in Int
  BY <1>4, SumType
<1> QED
  BY <1>3, <1>5, <1>6 DEF D, tax

\* All the tax of a document is owed to some account.
LEMMA OwedInAll ==
  ASSUME NEW lines, LinesOK(lines)
  PROVE  SumOver([a \in TaxAccounts(lines) |-> Owed(lines, a)], TaxAccounts(lines))
           = SumOver([i \in DOMAIN lines |-> lines[i].tax], DOMAIN lines)
<1> DEFINE tax == [i \in DOMAIN lines |-> lines[i].tax]
           owed == [a \in TaxAccounts(lines) |-> Owed(lines, a)]
           to == [i \in TaxedAt(lines) |-> Liability[lines[i].rate]]
           part == [a \in TaxAccounts(lines) |-> {i \in TaxedAt(lines) : Liability[lines[i].rate] = a}]
<1>1. PICK S, T : S = TaxedAt(lines) /\ T = TaxAccounts(lines)
  OBVIOUS
<1>2. /\ IsFiniteSet(DOMAIN lines) /\ S \in SUBSET DOMAIN lines /\ IsFiniteSet(S)
      /\ \A i \in DOMAIN lines : tax[i] \in Int
      /\ \A i \in DOMAIN lines \ S : tax[i] = 0
  BY <1>1, LinesFinite, FS_Subset DEF TaxedAt
<1>3. IsFiniteSet(T) /\ \A i \in S : to[i] \in T
  BY <1>1, TaxedLinesAre
<1>4. \A a \in T : owed[a] = SumOver(tax, part[a])
  BY <1>1, OwedIsSum
<1>5. /\ \A a \in T : part[a] \in SUBSET S
      /\ \A a \in T : \A i \in S : i \in part[a] <=> to[i] = a
  BY <1>1
<1> HIDE DEF tax, owed, to, part
<1>6. SumOver(owed, T) = SumOver(tax, S)
  <2>1. \A i \in S : tax[i] \in Int
    BY <1>2
  <2> QED
    BY <1>2, <1>3, <1>4, <1>5, <2>1, SumClasses
<1>7. SumOver(tax, DOMAIN lines) = SumOver(tax, S)
  BY <1>2, SumSupport
<1> QED
  BY <1>1, <1>6, <1>7 DEF tax, owed
-----------------------------------------------------------------------------
(* The legs of a document.                                                 *)

SignedLeg(g) == IF g.naturalDebit THEN g.amount ELSE -g.amount

\* A leg's fields, and what it moves.
LEMMA LegFields ==
  ASSUME NEW account, NEW amount \in Int, NEW naturalDebit \in BOOLEAN
  PROVE  LET g == Leg(account, amount, naturalDebit)
         IN  /\ g.account = account /\ g.amount = amount
             /\ g.naturalDebit \in BOOLEAN
             /\ SignedLeg(g) = IF naturalDebit THEN amount ELSE -amount
BY DEF Leg, SignedLeg

\* The leg of a line: revenue of a sale, or the cost of a purchase.
LEMMA LineLegFields ==
  ASSUME NEW l, l.subtotal \in Int, l.tax \in Int, NEW sales \in BOOLEAN
  PROVE  LET g == LineLeg(sales, l)
         IN  /\ g.account = l.account
             /\ g.amount = (IF sales THEN l.subtotal ELSE l.subtotal + l.tax) /\ g.amount \in Int
             /\ g.naturalDebit \in BOOLEAN
             /\ SignedLeg(g) = IF sales THEN -l.subtotal ELSE l.subtotal + l.tax
<1>1. CASE sales
  BY <1>1 DEF LineLeg, Leg, SignedLeg
<1>2. CASE ~sales
  <2>1. LineLeg(sales, l) = Leg(l.account, l.subtotal + l.tax, TRUE)
    BY <1>2, Zenon DEF LineLeg
  <2>2. l.subtotal + l.tax \in Int
    OBVIOUS
  <2>3. PICK g : g = LineLeg(sales, l)
    OBVIOUS
  <2>4. g.account = l.account /\ g.amount = l.subtotal + l.tax /\ g.naturalDebit = TRUE
    BY <2>1, <2>3 DEF Leg
  <2>5. SignedLeg(g) = l.subtotal + l.tax
    BY <2>4 DEF SignedLeg
  <2> QED
    BY <1>2, <2>2, <2>3, <2>4, <2>5
<1> QED
  BY <1>1, <1>2

\* The legs of a document, by key.
LEMMA LegsAre ==
  ASSUME NEW inv, DocumentOK(inv)
  PROVE  LET sales == inv.type = "SALES" IN
         /\ DOMAIN Legs(inv) = LegKeys(inv)
         /\ Legs(inv)[<<"contact", Contact>>] = Leg(Contact, inv.total, sales)
         /\ \A i \in DOMAIN inv.lines : Legs(inv)[<<"line", i>>] = LineLeg(sales, inv.lines[i])
         /\ sales => \A a \in TaxAccounts(inv.lines) :
              Legs(inv)[<<"tax", a>>] = Leg(a, Owed(inv.lines, a), FALSE)
         /\ \A k \in LegKeys(inv) :
              Legs(inv)[k].amount \in Int /\ Legs(inv)[k].naturalDebit \in BOOLEAN
<1> DEFINE sales == inv.type = "SALES"
           legs == Legs(inv)
<1>1. legs = [k \in LegKeys(inv) |->
               CASE k[1] = "contact" -> Leg(Contact, inv.total, sales)
                 [] k[1] = "line" -> LineLeg(sales, inv.lines[k[2]])
                 [] k[1] = "tax" -> Leg(k[2], Owed(inv.lines, k[2]), FALSE)]
  BY DEF Legs, Owed
<1>2. DOMAIN legs = LegKeys(inv)
  BY <1>1
<1>3. /\ <<"contact", Contact>> \in LegKeys(inv)
      /\ \A i \in DOMAIN inv.lines : <<"line", i>> \in LegKeys(inv)
      /\ sales => \A a \in TaxAccounts(inv.lines) : <<"tax", a>> \in LegKeys(inv)
  BY DEF LegKeys
<1>4. legs[<<"contact", Contact>>] = Leg(Contact, inv.total, sales)
  BY <1>1, <1>3
<1>5. ASSUME NEW i \in DOMAIN inv.lines
      PROVE  legs[<<"line", i>>] = LineLeg(sales, inv.lines[i])
  BY <1>1, <1>3
<1>6. ASSUME sales, NEW a \in TaxAccounts(inv.lines)
      PROVE  legs[<<"tax", a>>] = Leg(a, Owed(inv.lines, a), FALSE)
  BY <1>1, <1>3, <1>6
<1>7. ASSUME NEW k \in LegKeys(inv)
      PROVE  legs[k].amount \in Int /\ legs[k].naturalDebit \in BOOLEAN
  <2> HIDE DEF legs
  <2>1. LinesOK(inv.lines) /\ inv.total \in Int
    BY TotalOfLines DEF DocumentOK
  <2>2. CASE k = <<"contact", Contact>>
    <3>1. PICK b \in BOOLEAN : b = sales
      BY Zenon
    <3>2. /\ Leg(Contact, inv.total, b).amount = inv.total
          /\ Leg(Contact, inv.total, b).naturalDebit \in BOOLEAN
      BY <2>1, LegFields
    <3>3. legs[k] = Leg(Contact, inv.total, b)
      BY <1>4, <2>2, <3>1, Zenon
    <3> QED
      BY <2>1, <3>2, <3>3
  <2>3. ASSUME NEW i \in DOMAIN inv.lines, k = <<"line", i>>
        PROVE  legs[k].amount \in Int /\ legs[k].naturalDebit \in BOOLEAN
    <3>1. inv.lines[i].subtotal \in Int /\ inv.lines[i].tax \in Int
      BY <2>1, LinesFinite
    <3> QED
      BY <1>5, <2>3, <3>1, LineLegFields, Zenon
  <2>4. ASSUME sales, NEW a \in TaxAccounts(inv.lines), k = <<"tax", a>>
        PROVE  legs[k].amount \in Int /\ legs[k].naturalDebit \in BOOLEAN
    <3>1. Owed(inv.lines, a) \in Int
      BY <2>1, OwedIsSum
    <3> QED
      <4>1. PICK x \in Int : x = Owed(inv.lines, a)
        BY <3>1
      <4>2. Leg(a, x, FALSE).amount = x /\ Leg(a, x, FALSE).naturalDebit \in BOOLEAN
        BY LegFields
      <4>3. legs[k] = Leg(a, x, FALSE)
        BY <1>6, <2>4, <4>1
      <4> QED
        BY <4>2, <4>3
  <2>5. \/ k = <<"contact", Contact>>
        \/ \E i \in DOMAIN inv.lines : k = <<"line", i>>
        \/ sales /\ \E a \in TaxAccounts(inv.lines) : k = <<"tax", a>>
    BY DEF LegKeys
  <2> QED
    BY <2>2, <2>3, <2>4, <2>5
<1> QED
  BY <1>2, <1>4, <1>5, <1>6, <1>7

\* A sum over the legs of a document, leg by leg.
LEMMA SumOverLegs ==
  ASSUME NEW inv, DocumentOK(inv),
         NEW f, \A k \in LegKeys(inv) : f[k] \in Int,
         NEW l, \A i \in DOMAIN inv.lines : l[i] = f[<<"line", i>>],
         NEW t, inv.type = "SALES" => \A a \in TaxAccounts(inv.lines) : t[a] = f[<<"tax", a>>]
  PROVE  /\ IsFiniteSet(LegKeys(inv))
         /\ SumOver(l, DOMAIN inv.lines) \in Int
         /\ inv.type = "SALES" => SumOver(t, TaxAccounts(inv.lines)) \in Int
         /\ SumOver(f, LegKeys(inv)) =
              f[<<"contact", Contact>>] + SumOver(l, DOMAIN inv.lines)
                + IF inv.type = "SALES" THEN SumOver(t, TaxAccounts(inv.lines)) ELSE 0
<1>1. PICK c, D, A : c = <<"contact", Contact>> /\ D = DOMAIN inv.lines /\ A = TaxAccounts(inv.lines)
  OBVIOUS
<1>2. PICK C, L, T : C = {c} /\ L = {"line"} \X D /\ T = {"tax"} \X A
  OBVIOUS
<1>3. IsFiniteSet(D) /\ IsFiniteSet(A)
  BY <1>1, LinesFinite, TaxedLinesAre DEF DocumentOK
<1>4. LegKeys(inv) = C \union L \union (IF inv.type = "SALES" THEN T ELSE {})
  BY <1>1, <1>2 DEF LegKeys
<1>5. C \intersect L = {} /\ (C \union L) \intersect T = {} /\ c \in C
  BY <1>1, <1>2
<1>6. /\ \A x \in C \union L : f[x] \in Int
      /\ \A i \in D : f[<<"line", i>>] \in Int
      /\ \A i \in D : l[i] = f[<<"line", i>>]
  BY <1>1, <1>2, <1>4
<1>7. IsFiniteSet(L) /\ SumOver(f, L) = SumOver(l, D) /\ SumOver(l, D) \in Int
  <2>1. IsFiniteSet(L) /\ SumOver(f, L) = SumOver(l, D)
    <3>1. IsFiniteSet(L)
      BY <1>2, <1>3, FS_Product, FS_Singleton
    <3>2. \A k \in L : f[k] \in Int
      BY <1>6
    <3> DEFINE key == [i \in D |-> <<"line", i>>]
               back == [k \in L |-> k[2]]
    <3>3. /\ \A i \in D : key[i] \in L /\ l[i] = f[key[i]]
          /\ \A k \in L : back[k] \in D /\ \A i \in D : back[k] = i <=> key[i] = k
      BY <1>2, <1>6
    <3> HIDE DEF key, back
    <3>4. SumOver(f, L) = SumOver(l, D)
      BY <1>3, <3>1, <3>2, <3>3, SumRenamed
    <3> QED
      BY <3>1, <3>4
  <2>2. \A i \in D : l[i] \in Int
    BY <1>6
  <2> QED
    BY <1>3, <2>1, <2>2, SumType
<1>8. IsFiniteSet(C) /\ SumOver(f, C) = f[c]
  <2>1. IsFiniteSet(C) /\ f[c] \in Int /\ \A y \in C \ {c} : f[y] = 0
    BY <1>2, <1>6, FS_Singleton
  <2> QED
    BY <1>5, <2>1, SumOnly
<1>9. IsFiniteSet(C \union L) /\ SumOver(f, C \union L) = f[c] + SumOver(l, D)
  <2>1. IsFiniteSet(C \union L)
    BY <1>7, <1>8, FS_Union
  <2>2. SumOver(f, C \union L) = SumOver(f, C) + SumOver(f, L)
    BY <1>5, <1>6, <1>7, <1>8, SumUnion
  <2> QED
    BY <1>7, <1>8, <2>1, <2>2
<1>10. CASE inv.type = "SALES"
  <2>1. /\ \A a \in A : f[<<"tax", a>>] \in Int
        /\ \A a \in A : t[a] = f[<<"tax", a>>]
    BY <1>1, <1>2, <1>4, <1>10
  <2>2. IsFiniteSet(T) /\ SumOver(f, T) = SumOver(t, A) /\ SumOver(t, A) \in Int
    <3>1. IsFiniteSet(T) /\ SumOver(f, T) = SumOver(t, A)
      <4>1. IsFiniteSet(T)
        BY <1>2, <1>3, FS_Product, FS_Singleton
      <4>2. \A k \in T : f[k] \in Int
        BY <1>4, <1>10
      <4> DEFINE key == [a \in A |-> <<"tax", a>>]
                 back == [k \in T |-> k[2]]
      <4>3. /\ \A a \in A : key[a] \in T /\ t[a] = f[key[a]]
            /\ \A k \in T : back[k] \in A /\ \A a \in A : back[k] = a <=> key[a] = k
        BY <1>2, <2>1
      <4> HIDE DEF key, back
      <4>4. SumOver(f, T) = SumOver(t, A)
        BY <1>3, <4>1, <4>2, <4>3, SumRenamed
      <4> QED
        BY <4>1, <4>4
    <3>2. \A a \in A : t[a] \in Int
      BY <2>1
    <3> QED
      BY <1>3, <3>1, <3>2, SumType
  <2>3. PICK CL : CL = C \union L
    OBVIOUS
  <2>4. \A x \in CL \union T : f[x] \in Int
    BY <1>4, <1>10, <2>3
  <2>5. IsFiniteSet(CL \union T)
    BY <1>9, <2>2, <2>3, FS_Union
  <2>6. SumOver(f, CL \union T) = SumOver(f, CL) + SumOver(f, T)
    BY <1>5, <1>9, <2>2, <2>3, <2>4, SumUnion
  <2> QED
    BY <1>1, <1>4, <1>7, <1>9, <1>10, <2>2, <2>3, <2>5, <2>6
<1>11. CASE inv.type # "SALES"
  <2>1. f[c] \in Int
    BY <1>5, <1>6
  <2> QED
    BY <1>1, <1>4, <1>7, <1>9, <1>11, <2>1
<1> QED
  BY <1>10, <1>11

\* The legs of a document cancel.
LEMMA LegsCancel ==
  ASSUME NEW inv, DocumentOK(inv)
  PROVE  /\ IsFiniteSet(LegKeys(inv))
         /\ SumOver([k \in LegKeys(inv) |-> SignedLeg(Legs(inv)[k])], LegKeys(inv)) = 0
<1>1. PICK D, A : D = DOMAIN inv.lines /\ A = TaxAccounts(inv.lines)
  OBVIOUS
<1> DEFINE sales == inv.type = "SALES"
           f == [k \in LegKeys(inv) |-> SignedLeg(Legs(inv)[k])]
           sub == [i \in D |-> inv.lines[i].subtotal]
           all == [i \in D |-> inv.lines[i].subtotal + inv.lines[i].tax]
           tax == [i \in D |-> inv.lines[i].tax]
           l == [i \in D |-> IF sales THEN -inv.lines[i].subtotal
                             ELSE inv.lines[i].subtotal + inv.lines[i].tax]
           owed == [a \in A |-> Owed(inv.lines, a)]
           t == [a \in A |-> -Owed(inv.lines, a)]
<1>2. LinesOK(inv.lines) /\ inv.total = DocumentTotal(inv.lines)
  BY DEF DocumentOK
<1>3. /\ IsFiniteSet(D) /\ IsFiniteSet(A)
      /\ \A i \in D : inv.lines[i].subtotal \in Int /\ inv.lines[i].tax \in Int
      /\ \A a \in A : Owed(inv.lines, a) \in Int
  BY <1>1, <1>2, LinesFinite, TaxedLinesAre, OwedIsSum
<1>4. /\ inv.total = SumOver(sub, D) + SumOver(tax, D)
      /\ inv.total = SumOver(all, D)
      /\ SumOver(sub, D) \in Int /\ SumOver(tax, D) \in Int /\ inv.total \in Int
  BY <1>1, <1>2, TotalOfLines
<1>5. SumOver(owed, A) = SumOver(tax, D)
  BY <1>1, <1>2, OwedInAll
<1>6. \A k \in LegKeys(inv) : f[k] \in Int
  <2>1. ASSUME NEW k \in LegKeys(inv) PROVE SignedLeg(Legs(inv)[k]) \in Int
    <3>1. PICK g : g = Legs(inv)[k]
      OBVIOUS
    <3>2. g.amount \in Int /\ g.naturalDebit \in BOOLEAN
      BY <3>1, LegsAre
    <3> QED
      BY <3>1, <3>2 DEF SignedLeg
  <2> QED
    BY <2>1
<1>7. f[<<"contact", Contact>>] = IF sales THEN inv.total ELSE -inv.total
  <2>1. <<"contact", Contact>> \in LegKeys(inv)
    BY DEF LegKeys
  <2>2. Legs(inv)[<<"contact", Contact>>] = Leg(Contact, inv.total, sales)
    BY LegsAre
  <2>3. PICK b \in BOOLEAN : b = sales
    BY Zenon
  <2>4. SignedLeg(Leg(Contact, inv.total, b)) = IF b THEN inv.total ELSE -inv.total
    BY <1>4, LegFields
  <2>5. Legs(inv)[<<"contact", Contact>>] = Leg(Contact, inv.total, b)
    BY <2>2, <2>3, Zenon
  <2>6. b <=> sales
    BY <2>3, Zenon
  <2> HIDE DEF sales
  <2> QED
    BY <2>1, <2>4, <2>5, <2>6
<1>8. ASSUME NEW i \in D PROVE l[i] = f[<<"line", i>>]
  <2>1. <<"line", i>> \in LegKeys(inv)
    BY <1>1 DEF LegKeys
  <2>2. Legs(inv)[<<"line", i>>] = LineLeg(sales, inv.lines[i])
    BY <1>1, LegsAre
  <2> QED
    <3>1. PICK r : r = inv.lines[i]
      OBVIOUS
    <3>2. r.subtotal \in Int /\ r.tax \in Int
      BY <1>3, <3>1
    <3>3. SignedLeg(LineLeg(sales, r)) = IF sales THEN -r.subtotal ELSE r.subtotal + r.tax
      BY <3>2, LineLegFields, Zenon
    <3> QED
      BY <2>1, <2>2, <3>1, <3>3
<1>9. ASSUME sales, NEW a \in A PROVE t[a] = f[<<"tax", a>>]
  <2>1. <<"tax", a>> \in LegKeys(inv)
    BY <1>1, <1>9 DEF LegKeys
  <2>2. Legs(inv)[<<"tax", a>>] = Leg(a, Owed(inv.lines, a), FALSE)
    BY <1>1, <1>9, LegsAre
  <2> QED
    BY <2>1, <2>2 DEF Leg, SignedLeg
<1>10. /\ \A a \in A : owed[a] \in Int /\ t[a] = -owed[a]
       /\ \A i \in D : sub[i] \in Int
       /\ sales => \A i \in D : l[i] = -sub[i]
       /\ ~sales => \A i \in D : l[i] = all[i]
  BY <1>3
<1> HIDE DEF f, sub, all, tax, l, owed, t
<1>11. /\ IsFiniteSet(LegKeys(inv))
       /\ SumOver(f, LegKeys(inv)) = f[<<"contact", Contact>>] + SumOver(l, D)
                                       + IF sales THEN SumOver(t, A) ELSE 0
  BY <1>1, <1>6, <1>8, <1>9, SumOverLegs
<1>12. SumOver(t, A) = -SumOver(owed, A)
  BY <1>3, <1>10, SumOpposite
<1>13. CASE sales
  <2>1. SumOver(l, D) = -SumOver(sub, D)
    BY <1>3, <1>10, <1>13, SumOpposite
  <2> QED
    BY <1>4, <1>5, <1>7, <1>11, <1>12, <1>13, <2>1 DEF f
<1>14. CASE ~sales
  <2>1. SumOver(l, D) = SumOver(all, D)
    BY <1>3, <1>10, <1>14, SumSame
  <2> QED
    BY <1>4, <1>7, <1>11, <1>14, <2>1 DEF f
<1> QED
  BY <1>13, <1>14
-----------------------------------------------------------------------------
(* The entries of a document.                                              *)

\* A posting has an entry for each leg worth posting.
LEMMA PostedAre ==
  ASSUME NEW inv, DocumentOK(inv)
  PROVE  /\ DOMAIN Posted(inv) = {k \in LegKeys(inv) : Legs(inv)[k].amount # 0}
         /\ \A k \in DOMAIN Posted(inv) :
              /\ Posted(inv)[k].account = Legs(inv)[k].account
              /\ Posted(inv)[k].e \in Entry
              /\ DebitOrCredit(Posted(inv)[k].e)
              /\ Signed(Posted(inv)[k].e) = SignedLeg(Legs(inv)[k])
              /\ Posted(inv)[k] \in [account : {Legs(inv)[k].account}, e : Entry]
<1>1. PICK legs, K : legs = Legs(inv) /\ K = {k \in LegKeys(inv) : legs[k].amount # 0}
  OBVIOUS
<1>2. WorthPosting(legs) = [k \in K |-> legs[k]]
  BY <1>1, LegsAre DEF WorthPosting, RestrictValues, Restrict
<1>3. Posted(inv) = [k \in K |-> [account |-> legs[k].account,
                                  e |-> DebitCreditFor(legs[k].amount, legs[k].naturalDebit)]]
  BY <1>1, <1>2 DEF Posted, EntriesOf, Mapped
<1>4. ASSUME NEW k \in K
      PROVE  LET e == DebitCreditFor(legs[k].amount, legs[k].naturalDebit)
             IN  e \in Entry /\ DebitOrCredit(e) /\ Signed(e) = SignedLeg(legs[k])
  <2>1. PICK amount \in Int, naturalDebit \in BOOLEAN :
          amount = legs[k].amount /\ naturalDebit = legs[k].naturalDebit
    BY <1>1, LegsAre, Zenon
  <2>2. PICK e : e = DebitCreditFor(amount, naturalDebit)
    OBVIOUS
  <2>3. amount # 0
    BY <1>1, <2>1
  <2>4. "DEBIT" \in NormalSide
    BY DEF NormalSide
  <2>5. DebitOrCredit(e)
    BY <2>2, <2>3, <2>4, EntryAcceptedUnlessZero
  <2>6. e \in Entry /\ Signed(e) = IF naturalDebit THEN amount ELSE -amount
    BY <2>2, LegIsSigned
  <2>7. SignedLeg(legs[k]) = IF naturalDebit THEN amount ELSE -amount
    BY <2>1, Zenon DEF SignedLeg
  <2>8. DebitCreditFor(legs[k].amount, legs[k].naturalDebit) = e
    BY <2>1, <2>2, Zenon
  <2> QED
    BY <2>5, <2>6, <2>7, <2>8
<1> QED
  BY <1>1, <1>3, <1>4

\* What a document's entries move of an account is what its legs do.
LEMMA MovedByLegs ==
  ASSUME NEW inv, DocumentOK(inv), NEW a
  PROVE  /\ IsFiniteSet(DOMAIN Posted(inv))
         /\ Moved(Posted(inv), a) =
              SumOver([k \in LegKeys(inv) |->
                         IF Legs(inv)[k].account = a THEN SignedLeg(Legs(inv)[k]) ELSE 0],
                      LegKeys(inv))
<1>1. PICK es, P, K : es = Posted(inv) /\ P = DOMAIN Posted(inv) /\ K = LegKeys(inv)
  OBVIOUS
<1> DEFINE f == [k \in K |-> IF Legs(inv)[k].account = a THEN SignedLeg(Legs(inv)[k]) ELSE 0]
           m == [k \in P |-> IF es[k].account = a THEN Signed(es[k].e) ELSE 0]
<1>2. Moved(es, a) = SumOver(m, P)
  BY <1>1, TotalIsSum DEF Moved, Mapped
<1>3. P \in SUBSET K /\ IsFiniteSet(K) /\ IsFiniteSet(P)
  BY <1>1, PostedAre, LegsCancel, FS_Subset
<1>4. ASSUME NEW k \in K
      PROVE  /\ SignedLeg(Legs(inv)[k]) \in Int
             /\ k \notin P => SignedLeg(Legs(inv)[k]) = 0
  <2>1. PICK g : g = Legs(inv)[k]
    OBVIOUS
  <2>2. g.amount \in Int /\ g.naturalDebit \in BOOLEAN
    BY <1>1, <2>1, LegsAre
  <2>3. k \notin P => g.amount = 0
    BY <1>1, <2>1, PostedAre
  <2> QED
    BY <2>1, <2>2, <2>3 DEF SignedLeg
<1>5. /\ \A k \in K : f[k] \in Int
      /\ \A k \in K \ P : f[k] = 0
  BY <1>4
<1>6. \A k \in P : m[k] = f[k]
  BY <1>1, <1>3, PostedAre
<1> HIDE DEF f, m
<1>7. SumOver(f, K) = SumOver(f, P)
  BY <1>3, <1>5, SumSupport
<1>8. SumOver(m, P) = SumOver(f, P)
  BY <1>3, <1>6, SumSame
<1> QED
  BY <1>1, <1>2, <1>3, <1>7, <1>8 DEF f

\* A document's entries are ones the table and VerifyBalanced accept.
LEMMA PostedAccepted ==
  ASSUME NEW inv, DocumentOK(inv)
  PROVE  Acceptable(Posted(inv))
<1>1. PICK es, P, K : es = Posted(inv) /\ P = DOMAIN Posted(inv) /\ K = LegKeys(inv)
  OBVIOUS
<1> DEFINE f == [k \in K |-> SignedLeg(Legs(inv)[k])]
           d == [k \in P |-> es[k].e.debit]
           c == [k \in P |-> es[k].e.credit]
<1>2. Total(Mapped(LAMBDA x : x.e.debit, es)) = SumOver(d, P)
      /\ Total(Mapped(LAMBDA x : x.e.credit, es)) = SumOver(c, P)
  BY <1>1, TotalIsSum DEF Mapped
<1>3. P \in SUBSET K /\ IsFiniteSet(K) /\ IsFiniteSet(P) /\ SumOver(f, K) = 0
  BY <1>1, PostedAre, LegsCancel, FS_Subset
<1>4. ASSUME NEW k \in K
      PROVE  f[k] \in Int /\ (k \notin P => f[k] = 0)
  <2>1. PICK g : g = Legs(inv)[k]
    OBVIOUS
  <2>2. g.amount \in Int /\ g.naturalDebit \in BOOLEAN
    BY <1>1, <2>1, LegsAre
  <2>3. k \notin P => g.amount = 0
    BY <1>1, <2>1, PostedAre
  <2> QED
    BY <2>1, <2>2, <2>3 DEF SignedLeg
<1>5. ASSUME NEW k \in P
      PROVE  d[k] \in Int /\ c[k] \in Int /\ d[k] = f[k] + c[k]
  <2>1. PICK e : e = es[k].e
    OBVIOUS
  <2>2. e \in Entry /\ Signed(e) = f[k]
    BY <1>1, <1>3, <2>1, PostedAre
  <2> QED
    BY <2>1, <2>2 DEF Entry, Signed
<1> HIDE DEF f, d, c
<1>6. SumOver(f, K) = SumOver(f, P)
  BY <1>3, <1>4, SumSupport
<1>7. SumOver(d, P) = SumOver(f, P) + SumOver(c, P)
  <2>1. \A k \in P : f[k] \in Int /\ c[k] \in Int /\ d[k] = f[k] + c[k]
    BY <1>3, <1>4, <1>5
  <2> QED
    BY <1>3, <2>1, SumPlus
<1>8. SumOver(c, P) \in Int
  BY <1>3, <1>5, SumType
<1>9. VerifyBalanced(es)
  BY <1>2, <1>3, <1>6, <1>7, <1>8 DEF VerifyBalanced
<1> QED
  BY <1>1, <1>9, PostedAre DEF Acceptable

\* Reversing entries moves every account back.
LEMMA ReversalMovesBack ==
  ASSUME NEW inv, DocumentOK(inv), NEW a
  PROVE  Moved(Posted(inv), a) + Moved(Reversal(Posted(inv)), a) = 0
<1>1. PICK es, P : es = Posted(inv) /\ P = DOMAIN Posted(inv)
  OBVIOUS
<1>2. PICK back : back = Reversal(es)
  OBVIOUS
<1> DEFINE m == [k \in P |-> IF es[k].account = a THEN Signed(es[k].e) ELSE 0]
           r == [k \in P |-> IF back[k].account = a THEN Signed(back[k].e) ELSE 0]
<1>3. DOMAIN back = P /\ \A k \in P : back[k] = [es[k] EXCEPT !.e = Swap(@)]
  BY <1>1, <1>2 DEF Reversal, Mapped
<1>4. Moved(es, a) = SumOver(m, P) /\ Moved(back, a) = SumOver(r, P)
  BY <1>1, <1>3, TotalIsSum DEF Moved, Mapped
<1>5. IsFiniteSet(P)
  BY <1>1, MovedByLegs
<1>6. ASSUME NEW k \in P PROVE m[k] \in Int /\ r[k] = -m[k]
  <2>1. PICK x : x = es[k]
    OBVIOUS
  <2>2. x.e \in Entry /\ Signed(x.e) \in Int
    <3>1. PICK e : e = x.e
      OBVIOUS
    <3>2. e \in Entry
      BY <1>1, <2>1, <3>1, PostedAre
    <3>3. Signed(e) \in Int
      BY <3>2 DEF Entry, Signed
    <3> QED
      BY <3>1, <3>2, <3>3
  <2>3. back[k].account = x.account /\ back[k].e = Swap(x.e)
    <3>1. PICK A : x \in [account : A, e : Entry]
      BY <1>1, <2>1, PostedAre
    <3>2. back[k] = [x EXCEPT !.e = Swap(@)]
      BY <1>3, <2>1
    <3> QED
      BY <3>1, <3>2
  <2>4. Signed(back[k].e) = -Signed(x.e)
    BY <2>2, <2>3, SwapCancels
  <2> QED
    BY <2>1, <2>2, <2>3, <2>4
<1> HIDE DEF m, r
<1>7. SumOver(r, P) = -SumOver(m, P) /\ SumOver(m, P) \in Int
  BY <1>5, <1>6, SumOpposite, SumType
<1> QED
  BY <1>1, <1>2, <1>4, <1>7
-----------------------------------------------------------------------------
(* What the entries say of the document.                                   *)

\* An item posts neither to a contact's own account nor to one that a rate's
\* tax is owed to, and no rate's tax is owed to the contact.  Businesses keep
\* it so: no request checks it.
SeparateAccounts ==
  /\ Contact \notin ItemAccounts
  /\ \A r \in Rates : Liability[r] \notin ItemAccounts \union {Contact}

\* The account of each leg, and what it moves.
LEMMA LegSides ==
  ASSUME NEW inv, DocumentOK(inv)
  PROVE  LET sales == inv.type = "SALES"
             g(k) == Legs(inv)[k]
             c == <<"contact", Contact>>
         IN  /\ inv.total \in Int
             /\ g(c).account = Contact
             /\ SignedLeg(g(c)) = IF sales THEN inv.total ELSE -inv.total
             /\ \A i \in DOMAIN inv.lines :
                  /\ g(<<"line", i>>).account \in ItemAccounts
                  /\ g(<<"line", i>>).amount =
                       IF sales THEN inv.lines[i].subtotal
                       ELSE inv.lines[i].subtotal + inv.lines[i].tax
                  /\ SignedLeg(g(<<"line", i>>)) \in Int
             /\ sales => \A a \in TaxAccounts(inv.lines) :
                  /\ g(<<"tax", a>>).account = a
                  /\ SignedLeg(g(<<"tax", a>>)) = -Owed(inv.lines, a)
                  /\ Owed(inv.lines, a) \in Int
<1>1. PICK sales \in BOOLEAN : sales = (inv.type = "SALES")
  BY Zenon
<1>2. (inv.type = "SALES") <=> sales
  BY <1>1, Zenon
<1>3. LinesOK(inv.lines) /\ inv.total \in Int
  BY TotalOfLines DEF DocumentOK
<1>4. PICK g : g = Legs(inv)[<<"contact", Contact>>]
  OBVIOUS
<1>5. g = Leg(Contact, inv.total, sales)
  BY <1>1, <1>4, LegsAre, Zenon
<1>6. g.account = Contact /\ SignedLeg(g) = IF sales THEN inv.total ELSE -inv.total
  BY <1>3, <1>5, LegFields
<1>7. ASSUME NEW i \in DOMAIN inv.lines, NEW h, h = Legs(inv)[<<"line", i>>]
      PROVE  /\ h.account \in ItemAccounts
             /\ h.amount = (IF sales THEN inv.lines[i].subtotal
                            ELSE inv.lines[i].subtotal + inv.lines[i].tax)
             /\ SignedLeg(h) \in Int
  <2>1. PICK l : l = inv.lines[i]
    OBVIOUS
  <2>2. RowOK(l)
    BY <1>3, <2>1 DEF LinesOK
  <2>3. l.subtotal \in Int /\ l.tax \in Int /\ l.account \in ItemAccounts
    BY <2>2 DEF RowOK, Row
  <2>4. h = LineLeg(sales, l)
    BY <1>1, <1>7, <2>1, LegsAre, Zenon
  <2>5. PICK x : x = LineLeg(sales, l)
    OBVIOUS
  <2>6. /\ x.account = l.account
        /\ x.amount = (IF sales THEN l.subtotal ELSE l.subtotal + l.tax)
        /\ SignedLeg(x) = IF sales THEN -l.subtotal ELSE l.subtotal + l.tax
    BY <2>3, <2>5, LineLegFields
  <2> QED
    BY <2>1, <2>3, <2>4, <2>5, <2>6
<1>8. ASSUME sales, NEW a \in TaxAccounts(inv.lines), NEW h, h = Legs(inv)[<<"tax", a>>]
      PROVE  h.account = a /\ SignedLeg(h) = -Owed(inv.lines, a) /\ Owed(inv.lines, a) \in Int
  <2>1. PICK x \in Int : x = Owed(inv.lines, a)
    BY <1>3, OwedIsSum
  <2>2. h = Leg(a, x, FALSE)
    BY <1>2, <1>8, <2>1, LegsAre
  <2>3. PICK y : y = Leg(a, x, FALSE)
    OBVIOUS
  <2>4. y.account = a /\ SignedLeg(y) = -x
    BY <2>3, LegFields
  <2> QED
    BY <2>1, <2>2, <2>3, <2>4
<1> QED
  BY <1>2, <1>3, <1>4, <1>6, <1>7, <1>8

\* The tax owed to an account, as the lines show it.
LEMMA OwedAsShown ==
  ASSUME NEW lines, LinesOK(lines), NEW a
  PROVE  /\ Total(Mapped(LAMBDA l : IF Taxed(l) /\ Liability[l.rate] = a THEN l.tax ELSE 0, lines))
              = Owed(lines, a)
         /\ a \notin TaxAccounts(lines) => Owed(lines, a) = 0
<1>1. PICK D, Q : D = DOMAIN lines /\ Q = {i \in TaxedAt(lines) : Liability[lines[i].rate] = a}
  OBVIOUS
<1> DEFINE h == [i \in D |-> IF Taxed(lines[i]) /\ Liability[lines[i].rate] = a THEN lines[i].tax ELSE 0]
           tax == [i \in D |-> lines[i].tax]
<1>2. Total(Mapped(LAMBDA l : IF Taxed(l) /\ Liability[l.rate] = a THEN l.tax ELSE 0, lines))
        = SumOver(h, D)
  BY <1>1, TotalIsSum DEF Mapped
<1>3. Owed(lines, a) = SumOver(tax, Q)
  BY <1>1, OwedIsSum
<1>4. IsFiniteSet(D) /\ Q \in SUBSET D /\ IsFiniteSet(Q)
  BY <1>1, LinesFinite, FS_Subset DEF TaxedAt
<1>5. ASSUME NEW i \in D
      PROVE  h[i] \in Int /\ (i \in Q => h[i] = tax[i]) /\ (i \notin Q => h[i] = 0)
  <2>1. PICK l : l = lines[i]
    OBVIOUS
  <2>2. RowOK(l)
    BY <1>1, <2>1 DEF LinesOK
  <2>3. l.tax \in Int /\ (l.tax # 0 => Taxed(l)) /\ (Taxed(l) => l.rate # NoRate)
    BY <2>2 DEF RowOK, Row, Taxed
  <2>4. i \in Q <=> l.rate # NoRate /\ l.tax # 0 /\ Liability[l.rate] = a
    BY <1>1, <2>1 DEF TaxedAt
  <2> QED
    BY <2>1, <2>3, <2>4
<1> HIDE DEF h, tax
<1>6. SumOver(h, D) = SumOver(h, Q)
  BY <1>4, <1>5, SumSupport
<1>7. SumOver(h, Q) = SumOver(tax, Q)
  <2>1. \A i \in Q : h[i] = tax[i]
    BY <1>4, <1>5
  <2> QED
    BY <1>4, <2>1, SumSame
<1>8. ASSUME a \notin TaxAccounts(lines) PROVE Owed(lines, a) = 0
  <2>1. Q = {}
    BY <1>1, <1>8, TaxedLinesAre
  <2> QED
    BY <1>3, <2>1, SumNothing
<1> QED
  BY <1>2, <1>3, <1>6, <1>7, <1>8

\* What a document's entries move of the contact's account, and of those tax
\* is owed to.
LEMMA PostedMoves ==
  ASSUME NEW inv, DocumentOK(inv), SeparateAccounts
  PROVE  /\ Moved(Posted(inv), Contact) = IF inv.type = "SALES" THEN inv.total ELSE -inv.total
         /\ \A r \in Rates :
              -Moved(Posted(inv), Liability[r]) =
                IF inv.type = "SALES" THEN Owed(inv.lines, Liability[r]) ELSE 0
<1>1. PICK K, D, A, c : /\ K = LegKeys(inv) /\ D = DOMAIN inv.lines
                        /\ A = TaxAccounts(inv.lines) /\ c = <<"contact", Contact>>
  OBVIOUS
<1>2. LinesOK(inv.lines) /\ IsFiniteSet(D) /\ IsFiniteSet(A)
  BY <1>1, LinesFinite, TaxedLinesAre DEF DocumentOK
<1>3. /\ c \in K /\ \A i \in D : <<"line", i>> \in K
      /\ inv.type = "SALES" => \A a \in A : <<"tax", a>> \in K
  BY <1>1 DEF LegKeys
<1>4. \A a \in A : \E r \in Rates : a = Liability[r]
  BY <1>1, <1>2, TaxedLinesAre
<1> DEFINE f(b) == [k \in K |-> IF Legs(inv)[k].account = b THEN SignedLeg(Legs(inv)[k]) ELSE 0]
           l(b) == [i \in D |-> f(b)[<<"line", i>>]]
           t(b) == [a \in A |-> f(b)[<<"tax", a>>]]
<1>5. ASSUME NEW b
      PROVE  /\ Moved(Posted(inv), b) = f(b)[c] + SumOver(l(b), D)
                                          + IF inv.type = "SALES" THEN SumOver(t(b), A) ELSE 0
             /\ f(b)[c] \in Int
  <2>1. Moved(Posted(inv), b) = SumOver(f(b), K)
    BY <1>1, MovedByLegs
  <2>2. ASSUME NEW k \in K PROVE f(b)[k] \in Int
    <3>1. PICK g : g = Legs(inv)[k]
      OBVIOUS
    <3>2. g.amount \in Int /\ g.naturalDebit \in BOOLEAN
      BY <1>1, <3>1, LegsAre
    <3>3. SignedLeg(g) \in Int
      BY <3>2 DEF SignedLeg
    <3> QED
      BY <3>1, <3>3
  <2>3. PICK ff, ll, tt : ff = f(b) /\ ll = l(b) /\ tt = t(b)
    OBVIOUS
  <2>4. /\ \A i \in D : ll[i] = ff[<<"line", i>>]
        /\ \A a \in A : tt[a] = ff[<<"tax", a>>]
    BY <2>3
  <2> HIDE DEF f, l, t
  <2>5. SumOver(ff, K) = ff[c] + SumOver(ll, D)
                           + IF inv.type = "SALES" THEN SumOver(tt, A) ELSE 0
    BY <1>1, <2>2, <2>3, <2>4, SumOverLegs
  <2> QED
    BY <1>3, <2>1, <2>2, <2>3, <2>5
<1>6. ASSUME NEW b, b \notin ItemAccounts
      PROVE  SumOver(l(b), D) = 0
  <2>1. ASSUME NEW i \in D PROVE l(b)[i] = 0
    <3>1. Legs(inv)[<<"line", i>>].account \in ItemAccounts
      BY <1>1, LegSides
    <3> QED
      BY <1>3, <1>6, <3>1
  <2> HIDE DEF l
  <2> QED
    BY <1>2, <2>1, SumZero
<1>7. Moved(Posted(inv), Contact) = IF inv.type = "SALES" THEN inv.total ELSE -inv.total
  <2>1. f(Contact)[c] = (IF inv.type = "SALES" THEN inv.total ELSE -inv.total) /\ inv.total \in Int
    BY <1>1, <1>3, LegSides
  <2>2. SumOver(l(Contact), D) = 0
    BY <1>6 DEF SeparateAccounts
  <2>3. inv.type = "SALES" => SumOver(t(Contact), A) = 0
    <3>1. ASSUME inv.type = "SALES", NEW a \in A PROVE t(Contact)[a] = 0
      <4>1. Legs(inv)[<<"tax", a>>].account = a
        BY <1>1, <3>1, LegSides
      <4>2. a # Contact
        BY <1>4 DEF SeparateAccounts
      <4> QED
        BY <1>3, <3>1, <4>1, <4>2
    <3> HIDE DEF t
    <3> QED
      BY <1>2, <3>1, SumZero
  <2> HIDE DEF f, l, t
  <2> QED
    BY <1>5, <2>1, <2>2, <2>3
<1>8. ASSUME NEW r \in Rates
      PROVE  -Moved(Posted(inv), Liability[r]) =
               IF inv.type = "SALES" THEN Owed(inv.lines, Liability[r]) ELSE 0
  <2>1. PICK b : b = Liability[r]
    OBVIOUS
  <2>2. b \notin ItemAccounts /\ b # Contact
    BY <2>1 DEF SeparateAccounts
  <2>3. f(b)[c] = 0
    BY <1>1, <1>3, <2>2, LegSides
  <2>4. SumOver(l(b), D) = 0
    BY <1>6, <2>2
  <2>5. ASSUME inv.type = "SALES"
        PROVE  SumOver(t(b), A) = -Owed(inv.lines, b) /\ Owed(inv.lines, b) \in Int
    <3>1. Owed(inv.lines, b) \in Int
      BY <1>2, OwedIsSum
    <3>2. ASSUME NEW a \in A
          PROVE  t(b)[a] = IF a = b THEN -Owed(inv.lines, b) ELSE 0
      BY <1>1, <1>3, <2>5, LegSides
    <3>3. CASE b \in A
      <4>1. t(b)[b] \in Int /\ t(b)[b] = -Owed(inv.lines, b) /\ \A a \in A \ {b} : t(b)[a] = 0
        BY <3>1, <3>2, <3>3
      <4> HIDE DEF t
      <4> QED
        BY <1>2, <3>1, <3>3, <4>1, SumOnly
    <3>4. CASE b \notin A
      <4>1. \A a \in A : t(b)[a] = 0
        BY <3>2, <3>4
      <4>2. Owed(inv.lines, b) = 0
        BY <1>1, <1>2, <3>4, OwedAsShown
      <4> HIDE DEF t
      <4> QED
        BY <1>2, <4>1, <4>2, SumZero
    <3> QED
      BY <3>3, <3>4
  <2> HIDE DEF f, l, t
  <2> QED
    BY <1>5, <2>1, <2>3, <2>4, <2>5
<1> QED
  BY <1>7, <1>8

\* A line that posts nothing: it costs nothing, and unless it is a purchase's at
\* a negative rate, it is free.
Costless(type, l) ==
  /\ l.subtotal + l.tax = 0
  /\ type = "SALES" \/ l.applied >= 0 => l.subtotal = 0 /\ l.tax = 0

\* A document without entries is costless, line by line.
LEMMA UnpostedIsCostless ==
  ASSUME NEW inv, DocumentOK(inv), DOMAIN Posted(inv) = {}, NEW i \in DOMAIN inv.lines
  PROVE  Costless(inv.type, inv.lines[i])
<1>1. PICK l : l = inv.lines[i]
  OBVIOUS
<1>2. RowOK(l)
  BY <1>1 DEF DocumentOK, LinesOK
<1>3. /\ l.subtotal \in Int /\ l.tax \in Int /\ l.applied \in Int
      /\ l.tax = 0 \/ l.tax = Stored(l.subtotal * l.applied, RateParts)
  BY <1>2 DEF RowOK, Row
<1>4. PICK x \in Int : x = l.subtotal * l.applied
  BY <1>3
<1>5. /\ x >= 0 => Stored(x, RateParts) >= 0
      /\ x <= 0 => Stored(x, RateParts) <= 0
      /\ Stored(x, RateParts) \in Int
  BY PartsAssumption, StoredSide
<1>6. l.tax = 0 \/ l.tax = Stored(x, RateParts)
  BY <1>3, <1>4
<1>7. l.subtotal = 0 => l.tax = 0
  BY <1>3, <1>4, <1>5, <1>6
<1>8. <<"line", i>> \in LegKeys(inv)
  BY DEF LegKeys
<1>9. Legs(inv)[<<"line", i>>].amount = 0
  BY <1>8, PostedAre
<1>10. 0 = IF inv.type = "SALES" THEN l.subtotal ELSE l.subtotal + l.tax
  BY <1>1, <1>9, LegSides
<1>11. l.subtotal + l.tax = 0
  BY <1>3, <1>7, <1>10
<1>12. ASSUME l.applied >= 0
       PROVE  l.subtotal = 0 /\ l.tax = 0
  <2>1. /\ l.subtotal >= 0 => x >= 0
        /\ l.subtotal <= 0 => x <= 0
    BY <1>3, <1>4, <1>12
  <2> QED
    BY <1>3, <1>5, <1>6, <1>11, <2>1
<1>13. inv.type = "SALES" => l.subtotal = 0 /\ l.tax = 0
  BY <1>7, <1>10
<1> QED
  BY <1>1, <1>11, <1>12, <1>13 DEF Costless

-----------------------------------------------------------------------------
(* The printed breakdown.                                                  *)

\* Of the lines at the rate of a line, one is the first.
LEMMA FirstExists ==
  ASSUME NEW lines, LinesOK(lines), NEW i \in DOMAIN lines
  PROVE  \E k \in FirstOfRate(lines) : lines[k].rate = lines[i].rate
<1>1. PICK n \in Nat : DOMAIN lines = 1 .. n
  BY DEF LinesOK
<1> DEFINE F == {1 .. k : k \in {j \in DOMAIN lines : lines[j].rate = lines[i].rate}}
<1>2. F \subseteq SUBSET (1 .. n) /\ F # {}
  BY <1>1
<1>3. IsFiniteSet(1 .. n)
  BY FS_Interval
<1> HIDE DEF F
<1>4. PICK T \in F : \A U \in F : U \subseteq T => U = T
  <2>1. PICK S : S = 1 .. n
    OBVIOUS
  <2>2. IsFiniteSet(S) /\ F \subseteq SUBSET S /\ F # {}
    BY <1>2, <1>3, <2>1
  <2> QED
    BY <2>2, SmallestSubset
<1>5. PICK k \in 1 .. n : T = 1 .. k /\ lines[k].rate = lines[i].rate
  BY <1>1, <1>4 DEF F
<1>6. ASSUME NEW j \in 1 .. k - 1, lines[j].rate = lines[k].rate PROVE FALSE
  <2>1. j \in 1 .. n /\ 1 .. j \subseteq 1 .. k /\ k \in 1 .. k /\ k \notin 1 .. j
    BY <1>5
  <2>2. 1 .. j \in F
    BY <1>1, <1>5, <1>6, <2>1 DEF F
  <2> QED
    BY <1>4, <1>5, <2>1, <2>2
<1> QED
  BY <1>1, <1>5, <1>6 DEF FirstOfRate

\* There is one such line for each rate.
LEMMA FirstIsOne ==
  ASSUME NEW lines, LinesOK(lines), NEW i \in FirstOfRate(lines), NEW j \in FirstOfRate(lines),
         lines[i].rate = lines[j].rate
  PROVE  i = j
<1>1. i \in Nat \ {0} /\ j \in Nat \ {0}
  BY LinesFinite DEF FirstOfRate
<1>2. ~(i < j) /\ ~(j < i)
  BY <1>1 DEF FirstOfRate
<1> QED
  BY <1>1, <1>2

\* Adding up the groups adds up the lines: col is a column of the breakdown,
\* f that of the lines, and part gives of a row the lines of its group.
LEMMA ColumnAddsUp ==
  ASSUME NEW lines, LinesOK(lines),
         NEW f, \A i \in DOMAIN lines : f[i] \in Int,
         NEW part, \A k \in FirstOfRate(lines) : part[k] \in SUBSET DOMAIN lines,
         \A k \in FirstOfRate(lines) : \A i \in DOMAIN lines :
           i \in part[k] <=> lines[i].rate = lines[k].rate,
         NEW h, \A k \in FirstOfRate(lines) : DOMAIN h[k] = part[k],
         \A k \in FirstOfRate(lines) : \A i \in part[k] : h[k][i] = f[i],
         NEW col, DOMAIN col = FirstOfRate(lines),
         \A k \in FirstOfRate(lines) : col[k] = Total(h[k])
  PROVE  Total(col) = SumOver(f, DOMAIN lines)
<1>1. PICK D, R : D = DOMAIN lines /\ R = FirstOfRate(lines)
  OBVIOUS
<1> DEFINE c == [i \in D |-> CHOOSE k \in R : lines[k].rate = lines[i].rate]
<1>2. IsFiniteSet(D) /\ R \subseteq D /\ IsFiniteSet(R)
  BY <1>1, LinesFinite, FS_Subset DEF FirstOfRate
<1>3. ASSUME NEW i \in D PROVE c[i] \in R /\ lines[c[i]].rate = lines[i].rate
  BY <1>1, FirstExists
<1> HIDE DEF c
<1>4. ASSUME NEW k \in R, NEW i \in D PROVE i \in part[k] <=> c[i] = k
  <2>1. i \in part[k] <=> lines[i].rate = lines[k].rate
    BY <1>1
  <2>2. PICK m \in R : m = c[i] /\ lines[m].rate = lines[i].rate
    BY <1>3
  <2>3. lines[m].rate = lines[k].rate => m = k
    BY <1>1, FirstIsOne
  <2> QED
    BY <2>1, <2>2, <2>3
<1>5. \A k \in R : part[k] \in SUBSET D
  BY <1>1
<1>6. ASSUME NEW k \in R PROVE col[k] = SumOver(f, part[k])
  <2>1. col[k] = SumOver(h[k], part[k])
    BY <1>1, TotalIsSum
  <2>2. IsFiniteSet(part[k]) /\ \A i \in part[k] : h[k][i] = f[i]
    BY <1>1, <1>2, <1>5, FS_Subset
  <2> QED
    BY <2>1, <2>2, SumSame
<1>7. SumOver(col, R) = SumOver(f, D)
  <2>1. /\ \A i \in D : f[i] \in Int
        /\ \A i \in D : c[i] \in R
        /\ \A k \in R : \A i \in D : i \in part[k] <=> c[i] = k
    BY <1>1, <1>3, <1>4
  <2> QED
    BY <1>2, <1>5, <1>6, <2>1, SumClasses
<1>8. Total(col) = SumOver(col, R)
  BY <1>1, TotalIsSum
<1> QED
  BY <1>1, <1>7, <1>8

\* The breakdown of a document has a row for each rate and adds up to its total.
LEMMA BreakdownIs ==
  ASSUME NEW inv, DocumentOK(inv)
  PROVE  LET rows == TaxBreakdown(inv.lines) IN
         /\ IsInjective(Mapped(LAMBDA x : x.rate, rows))
         /\ Total(Mapped(LAMBDA x : x.total, rows)) = inv.total
         /\ Total(Mapped(LAMBDA x : x.net, rows)) + Total(Mapped(LAMBDA x : x.tax, rows)) = inv.total
<1>1. PICK lines : lines = inv.lines
  OBVIOUS
<1>2. LinesOK(lines) /\ inv.total = DocumentTotal(lines)
  BY <1>1 DEF DocumentOK
<1>3. PICK rows : rows = TaxBreakdown(lines)
  OBVIOUS
<1> DEFINE sub == [i \in DOMAIN lines |-> lines[i].subtotal]
           tax == [i \in DOMAIN lines |-> lines[i].tax]
           all == [i \in DOMAIN lines |-> lines[i].subtotal + lines[i].tax]
           part == [i \in FirstOfRate(lines) |-> {k \in DOMAIN lines : lines[k].rate = lines[i].rate}]
<1>4. DOMAIN rows = FirstOfRate(lines)
  BY <1>1, <1>3 DEF TaxBreakdown
<1>5. ASSUME NEW i \in FirstOfRate(lines)
      PROVE  /\ rows[i].rate = lines[i].rate
             /\ rows[i].net = Total([j \in part[i] |-> sub[j]])
             /\ rows[i].tax = Total([j \in part[i] |-> tax[j]])
             /\ rows[i].total = Total([j \in part[i] |-> all[j]])
  <2>1. PICK s : s = RestrictValues(lines, LAMBDA l : l.rate = lines[i].rate)
    OBVIOUS
  <2>2. DOMAIN s = part[i] /\ \A j \in part[i] : s[j] = lines[j]
    BY <1>1, <2>1 DEF RestrictValues, Restrict
  <2>3. rows[i] = [rate |-> lines[i].rate,
                   net |-> Total([j \in DOMAIN s |-> s[j].subtotal]),
                   tax |-> Total([j \in DOMAIN s |-> s[j].tax]),
                   total |-> Total([j \in DOMAIN s |-> s[j].total])]
    BY <1>1, <1>3, <2>1 DEF TaxBreakdown, Mapped
  <2>4. /\ [j \in DOMAIN s |-> s[j].subtotal] = [j \in part[i] |-> sub[j]]
        /\ [j \in DOMAIN s |-> s[j].tax] = [j \in part[i] |-> tax[j]]
    BY <2>2
  <2>5. [j \in DOMAIN s |-> s[j].total] = [j \in part[i] |-> all[j]]
    <3>1. \A j \in part[i] : s[j].total = all[j]
      BY <1>1, <1>2, <2>2, LinesFinite
    <3> QED
      BY <2>2, <3>1
  <2> QED
    BY <2>3, <2>4, <2>5
<1>6. IsInjective(Mapped(LAMBDA x : x.rate, rows))
  <2>1. PICK m : m = Mapped(LAMBDA x : x.rate, rows)
    OBVIOUS
  <2>2. DOMAIN m = FirstOfRate(lines) /\ \A i \in FirstOfRate(lines) : m[i] = lines[i].rate
    BY <1>4, <1>5, <2>1 DEF Mapped
  <2>3. \A i, j \in FirstOfRate(lines) : m[i] = m[j] => i = j
    BY <1>1, <1>2, <2>2, FirstIsOne
  <2> QED
    BY <2>1, <2>2, <2>3 DEF IsInjective
<1> DEFINE net == [i \in FirstOfRate(lines) |-> rows[i].net]
           owed == [i \in FirstOfRate(lines) |-> rows[i].tax]
           due == [i \in FirstOfRate(lines) |-> rows[i].total]
<1>7. /\ Mapped(LAMBDA x : x.net, rows) = net
      /\ Mapped(LAMBDA x : x.tax, rows) = owed
      /\ Mapped(LAMBDA x : x.total, rows) = due
  BY <1>4 DEF Mapped
<1>8. \A i \in DOMAIN lines : sub[i] \in Int /\ tax[i] \in Int /\ all[i] \in Int
  BY <1>1, <1>2, LinesFinite
<1>13. /\ \A k \in FirstOfRate(lines) : part[k] \in SUBSET DOMAIN lines
       /\ \A k \in FirstOfRate(lines) : \A i \in DOMAIN lines :
            i \in part[k] <=> lines[i].rate = lines[k].rate
  OBVIOUS
<1>9. Total(net) = SumOver(sub, DOMAIN lines)
  <2> DEFINE h == [i \in FirstOfRate(lines) |-> [j \in part[i] |-> sub[j]]]
  <2>1. DOMAIN net = FirstOfRate(lines) /\ \A i \in FirstOfRate(lines) : net[i] = Total(h[i])
    BY <1>5
  <2>2. /\ \A i \in FirstOfRate(lines) : DOMAIN h[i] = part[i]
        /\ \A i \in FirstOfRate(lines) : \A j \in part[i] : h[i][j] = sub[j]
    OBVIOUS
  <2>3. \A i \in DOMAIN lines : sub[i] \in Int
    BY <1>8
  <2> HIDE DEF sub, net, part, h
  <2> QED
    BY <1>1, <1>2, <1>13, <2>1, <2>2, <2>3, ColumnAddsUp
<1>10. Total(owed) = SumOver(tax, DOMAIN lines)
  <2> DEFINE h == [i \in FirstOfRate(lines) |-> [j \in part[i] |-> tax[j]]]
  <2>1. DOMAIN owed = FirstOfRate(lines) /\ \A i \in FirstOfRate(lines) : owed[i] = Total(h[i])
    BY <1>5
  <2>2. /\ \A i \in FirstOfRate(lines) : DOMAIN h[i] = part[i]
        /\ \A i \in FirstOfRate(lines) : \A j \in part[i] : h[i][j] = tax[j]
    OBVIOUS
  <2>3. \A i \in DOMAIN lines : tax[i] \in Int
    BY <1>8
  <2> HIDE DEF tax, owed, part, h
  <2> QED
    BY <1>1, <1>2, <1>13, <2>1, <2>2, <2>3, ColumnAddsUp
<1>11. Total(due) = SumOver(all, DOMAIN lines)
  <2> DEFINE h == [i \in FirstOfRate(lines) |-> [j \in part[i] |-> all[j]]]
  <2>1. DOMAIN due = FirstOfRate(lines) /\ \A i \in FirstOfRate(lines) : due[i] = Total(h[i])
    BY <1>5
  <2>2. /\ \A i \in FirstOfRate(lines) : DOMAIN h[i] = part[i]
        /\ \A i \in FirstOfRate(lines) : \A j \in part[i] : h[i][j] = all[j]
    OBVIOUS
  <2>3. \A i \in DOMAIN lines : all[i] \in Int
    BY <1>8
  <2> HIDE DEF all, due, part, h
  <2> QED
    BY <1>1, <1>2, <1>13, <2>1, <2>2, <2>3, ColumnAddsUp
<1>12. /\ inv.total = SumOver(sub, DOMAIN lines) + SumOver(tax, DOMAIN lines)
       /\ inv.total = SumOver(all, DOMAIN lines)
  BY <1>1, <1>2, TotalOfLines
<1> HIDE DEF sub, tax, all, net, owed, due
<1> QED
  BY <1>1, <1>3, <1>6, <1>7, <1>9, <1>10, <1>11, <1>12
-----------------------------------------------------------------------------
(* The lines of a document.                                                *)

Form == [item : Items, qty : Int, price : Int, rate : Rates \union {NoRate},
         taxable : {"yes", "no", "default"}]

RequestOK(r) ==
  /\ \E n \in Nat : DOMAIN r = 1 .. n
  /\ \A i \in DOMAIN r : r[i] \in Form

\* What clients send.
LEMMA RequestsOK == \A r \in Requests : RequestOK(r)
<1> SUFFICES ASSUME NEW r \in Requests PROVE RequestOK(r)
  OBVIOUS
<1>1. r \in Seq(Form)
  BY RequestsAssumption DEF Form
<1>2. PICK S : S = Form
  OBVIOUS
<1>3. Len(r) \in Nat /\ DOMAIN r = 1 .. Len(r) /\ \A i \in 1 .. Len(r) : r[i] \in S
  BY <1>1, <1>2
<1> QED
  BY <1>2, <1>3 DEF RequestOK

\* What a resolved line is.
LEMMA ResolvedIs ==
  ASSUME CatalogOK, NEW l \in Form
  PROVE  /\ Resolved(l) \in [item : Items, qty : Int, price : Int, account : ItemAccounts,
                             taxable : BOOLEAN, rate : Rates \union {NoRate}]
         /\ Resolved(l).qty = l.qty /\ Resolved(l).price = l.price
         /\ l.taxable # "default" => (Resolved(l).taxable <=> l.taxable = "yes")
         /\ l.rate # NoRate => Resolved(l).rate = l.rate
         /\ ~Resolved(l).taxable => Resolved(l).rate = l.rate
<1>1. PICK i : i = item[l.item]
  OBVIOUS
<1>2. i.account \in ItemAccounts /\ i.taxable \in BOOLEAN /\ i.rate \in Rates \union {NoRate}
  <2>1. i \in ItemForms
    BY <1>1 DEF CatalogOK, Form
  <2>2. i \in [account : ItemAccounts, taxable : BOOLEAN, rate : Rates \union {NoRate}]
    BY <2>1, CatalogAssumption
  <2> QED
    BY <2>2
<1>3. PICK taxable \in BOOLEAN : taxable = IF l.taxable = "default" THEN i.taxable ELSE l.taxable = "yes"
  BY <1>2, Zenon
<1>4. Resolved(l) = [item |-> l.item, qty |-> l.qty, price |-> l.price, account |-> i.account,
                     taxable |-> taxable,
                     rate |-> IF l.rate = NoRate /\ taxable THEN i.rate ELSE l.rate]
  BY <1>1, <1>3, Zenon DEF Resolved
<1>5. l.item \in Items /\ l.qty \in Int /\ l.price \in Int /\ l.rate \in Rates \union {NoRate}
  BY DEF Form
<1>6. l.taxable # "default" => (taxable <=> l.taxable = "yes")
  BY <1>3, Zenon
<1> QED
  BY <1>2, <1>4, <1>5, <1>6

\* The row of a line.
LEMMA ComputedIs ==
  ASSUME CatalogOK,
         NEW l \in [item : Items, qty : Int, price : Int, account : ItemAccounts,
                    taxable : BOOLEAN, rate : Rates \union {NoRate}]
  PROVE  /\ RowOK(Computed(l))
         /\ Computed(l).subtotal = Subtotal(l) /\ Computed(l).tax = Tax(l)
<1>1. /\ PriceParts \in Nat \ {0} /\ RateParts \in Nat \ {0} /\ QtyParts * PriceParts \in Nat \ {0}
  BY PartsAssumption
<1>2. PICK sub \in Int : sub = Subtotal(l)
  <2>1. PICK x \in Int : x = l.qty * l.price
    OBVIOUS
  <2>2. Stored(x, QtyParts * PriceParts) \in Int
    BY <1>1, StoredSide
  <2> QED
    BY <2>1, <2>2 DEF Subtotal
<1>3. PICK price \in Int : price = Stored(l.price, PriceParts)
  BY <1>1, StoredSide
<1>4. PICK applied \in Int : applied = IF Taxed(l) THEN rate[l.rate] ELSE 0
  <2>1. Taxed(l) => rate[l.rate] \in RateValues
    BY DEF CatalogOK, Taxed
  <2>2. RateValues \subseteq Int
    BY RateAssumption
  <2>3. CASE Taxed(l)
    <3>1. rate[l.rate] \in Int
      BY <2>1, <2>2, <2>3
    <3> QED
      BY <2>3, <3>1
  <2>4. CASE ~Taxed(l)
    BY <2>4
  <2> QED
    BY <2>3, <2>4
<1>5. PICK tax \in Int : tax = Tax(l) /\ tax = IF Taxed(l) THEN Stored(sub * applied, RateParts) ELSE 0
  <2>1. PICK x \in Int : x = sub * applied
    OBVIOUS
  <2>2. Stored(x, RateParts) \in Int
    BY <1>1, StoredSide
  <2>3. Tax(l) = IF Taxed(l) THEN Stored(x, RateParts) ELSE 0
    BY <1>2, <1>4, <2>1 DEF Tax
  <2> QED
    BY <2>1, <2>2, <2>3
<1>6. PICK row : row = [item |-> l.item, qty |-> l.qty, price |-> price, account |-> l.account,
                        taxable |-> l.taxable, rate |-> l.rate, applied |-> applied,
                        subtotal |-> sub, tax |-> tax, total |-> sub + tax]
  OBVIOUS
<1>7. Computed(l) = row
  BY <1>2, <1>3, <1>4, <1>5, <1>6 DEF Computed
<1>8. row \in Row /\ row.total = row.subtotal + row.tax
  BY <1>6 DEF Row
<1>9. Taxed(row) <=> Taxed(l)
  BY <1>6 DEF Taxed
<1>10. RowOK(row)
  BY <1>5, <1>6, <1>8, <1>9 DEF RowOK
<1> QED
  BY <1>2, <1>5, <1>6, <1>7, <1>10

\* The lines of whatever clients send add up.
LEMMA LinesAreOK ==
  ASSUME CatalogOK, NEW r, RequestOK(r)
  PROVE  LinesOK(Lines(r))
<1>1. DOMAIN Lines(r) = DOMAIN r /\ \A i \in DOMAIN r : Lines(r)[i] = Computed(Resolved(r[i]))
  BY DEF Lines, Mapped
<1>2. ASSUME NEW i \in DOMAIN r PROVE RowOK(Lines(r)[i])
  <2>1. PICK l : l = r[i]
    OBVIOUS
  <2>2. PICK m : m = Resolved(l)
    OBVIOUS
  <2>3. l \in Form
    BY <2>1 DEF RequestOK
  <2>4. RowOK(Computed(m))
    BY <2>2, <2>3, ResolvedIs, ComputedIs
  <2> QED
    BY <1>1, <2>1, <2>2, <2>4
<1>3. PICK n \in Nat : DOMAIN r = 1 .. n
  BY DEF RequestOK
<1> QED
  BY <1>1, <1>2, <1>3 DEF LinesOK

\* What is sent again for a stored line.
LEMMA QuotedIs ==
  ASSUME NEW lines, LinesOK(lines)
  PROVE  /\ RequestOK(Quoted(lines))
         /\ DOMAIN Quoted(lines) = DOMAIN lines
         /\ \A i \in DOMAIN lines :
              /\ Quoted(lines)[i].qty = lines[i].qty
              /\ Quoted(lines)[i].price = lines[i].price * PriceParts
              /\ Quoted(lines)[i].taxable # "default"
              /\ Quoted(lines)[i].taxable = "yes" <=> lines[i].taxable
              /\ Quoted(lines)[i].rate = lines[i].rate
<1>1. PICK q : q = Quoted(lines)
  OBVIOUS
<1>2. DOMAIN q = DOMAIN lines
  BY <1>1 DEF Quoted, Mapped
<1>3. ASSUME NEW i \in DOMAIN lines
      PROVE  /\ q[i] \in Form
             /\ q[i].qty = lines[i].qty /\ q[i].price = lines[i].price * PriceParts
             /\ q[i].taxable # "default" /\ (q[i].taxable = "yes" <=> lines[i].taxable)
             /\ q[i].rate = lines[i].rate
  <2>1. PICK l : l = lines[i]
    OBVIOUS
  <2>2. RowOK(l)
    BY <2>1 DEF LinesOK
  <2>3. /\ l.item \in Items /\ l.qty \in Int /\ l.price \in Int
        /\ l.rate \in Rates \union {NoRate}
    BY <2>2 DEF RowOK, Row
  <2>4. PICK taxable \in {"yes", "no"} : taxable = IF l.taxable THEN "yes" ELSE "no"
    OBVIOUS
  <2>5. q[i] = [item |-> l.item, qty |-> l.qty, price |-> l.price * PriceParts,
                taxable |-> taxable, rate |-> l.rate]
    BY <1>1, <2>1, <2>4 DEF Quoted, Mapped
  <2>6. l.price * PriceParts \in Int
    BY <2>3, PartsAssumption
  <2>7. taxable = "yes" <=> l.taxable
    BY <2>4
  <2> QED
    BY <2>1, <2>3, <2>5, <2>6, <2>7 DEF Form
<1>4. PICK n \in Nat : DOMAIN lines = 1 .. n
  BY DEF LinesOK
<1> QED
  BY <1>1, <1>2, <1>3, <1>4 DEF RequestOK

\* A document whose lines are still what they were quoted at totals what it
\* did when they are sent again.
LEMMA QuotedTotal ==
  ASSUME CatalogOK, NEW lines, LinesOK(lines), \A i \in DOMAIN lines : AsQuoted(lines[i])
  PROVE  DocumentTotal(Lines(Quoted(lines))) = DocumentTotal(lines)
<1>1. PICK q, new : q = Quoted(lines) /\ new = Lines(q)
  OBVIOUS
<1>2. RequestOK(q) /\ DOMAIN q = DOMAIN lines
  BY <1>1, QuotedIs
<1>3. DOMAIN new = DOMAIN lines /\ \A i \in DOMAIN lines : new[i] = Computed(Resolved(q[i]))
  BY <1>1, <1>2 DEF Lines, Mapped
<1>4. ASSUME NEW i \in DOMAIN lines
      PROVE  new[i].subtotal = lines[i].subtotal /\ new[i].tax = lines[i].tax
  <2>1. PICK l, m : l = lines[i] /\ m = Resolved(q[i])
    OBVIOUS
  <2>2. RowOK(l) /\ AsQuoted(l) /\ q[i] \in Form
    BY <1>2, <2>1 DEF LinesOK, RequestOK
  <2>3. /\ l.qty \in Int /\ l.price \in Int /\ l.subtotal \in Int /\ l.taxable \in BOOLEAN
        /\ l.tax = IF Taxed(l) THEN Stored(l.subtotal * l.applied, RateParts) ELSE 0
    BY <2>2 DEF RowOK, Row
  <2>4. /\ l.taxable => l.rate # NoRate /\ l.applied = rate[l.rate]
        /\ l.subtotal = Stored(l.qty * l.price, QtyParts)
    BY <2>2 DEF AsQuoted
  <2>5. /\ q[i].qty = l.qty /\ q[i].price = l.price * PriceParts
        /\ q[i].taxable # "default" /\ (q[i].taxable = "yes" <=> l.taxable) /\ q[i].rate = l.rate
    BY <1>1, <2>1, QuotedIs
  <2>6. /\ m \in [item : Items, qty : Int, price : Int, account : ItemAccounts,
                  taxable : BOOLEAN, rate : Rates \union {NoRate}]
        /\ m.qty = l.qty /\ m.price = l.price * PriceParts
        /\ m.taxable <=> l.taxable
        /\ m.rate = l.rate
    BY <2>1, <2>2, <2>4, <2>5, ResolvedIs
  <2>7. Subtotal(m) = l.subtotal
    <3>1. PICK x \in Int : x = l.qty * l.price
      BY <2>3
    <3>2. PICK Q \in Nat \ {0}, P \in Nat \ {0} : Q = QtyParts /\ P = PriceParts
      BY PartsAssumption
    <3>3. l.qty * (l.price * P) = x * P
      BY <2>3, <3>1
    <3>4. Subtotal(m) = Stored(x * P, Q * P)
      BY <2>6, <3>2, <3>3 DEF Subtotal
    <3> QED
      BY <2>4, <3>1, <3>2, <3>4, StoredScales
  <2>8. Taxed(m) <=> Taxed(l)
    BY <2>6 DEF Taxed
  <2>9. Tax(m) = l.tax
    <3>1. CASE Taxed(l)
      <4>1. l.applied = rate[l.rate]
        BY <2>4, <3>1 DEF Taxed
      <4>2. Tax(m) = Stored(Subtotal(m) * rate[m.rate], RateParts)
        BY <2>8, <3>1 DEF Tax
      <4> QED
        BY <2>3, <2>6, <2>7, <3>1, <4>1, <4>2
    <3>2. CASE ~Taxed(l)
      BY <2>3, <2>8, <3>2 DEF Tax
    <3> QED
      BY <3>1, <3>2
  <2> QED
    BY <1>3, <2>1, <2>6, <2>7, <2>9, ComputedIs
<1>5. /\ Mapped(LAMBDA l : l.subtotal, new) = Mapped(LAMBDA l : l.subtotal, lines)
      /\ Mapped(LAMBDA l : l.tax, new) = Mapped(LAMBDA l : l.tax, lines)
  BY <1>3, <1>4 DEF Mapped
<1> QED
  BY <1>1, <1>5 DEF DocumentTotal
-----------------------------------------------------------------------------
(* The requests.                                                           *)

\* Entries are a document's, whatever has become of it.
LEMMA SamePosted ==
  ASSUME NEW inv, NEW new, new.type = inv.type, new.lines = inv.lines, new.total = inv.total
  PROVE  Posted(new) = Posted(inv) /\ (DocumentOK(inv) => DocumentOK(new))
<1>1. LegKeys(new) = LegKeys(inv)
  BY DEF LegKeys
<1>2. Legs(new) = Legs(inv)
  BY <1>1 DEF Legs
<1> QED
  BY <1>2 DEF Posted, DocumentOK

\* A document just written.
LEMMA OpenIs ==
  ASSUME NEW type \in {"SALES", "PURCHASE"}, NEW lines, LinesOK(lines)
  PROVE  LET inv == Open(type, lines)
         IN  /\ DocumentOK(inv)
             /\ inv.st = "open" /\ inv.total = DocumentTotal(lines)
             /\ inv = [st |-> inv.st, type |-> inv.type, lines |-> inv.lines, total |-> inv.total]
BY DEF Open, DocumentOK

\* Nothing it is posted is refused, so that a document and its entries change
\* together.
LEMMA PostIs ==
  ASSUME NEW inv, DocumentOK(inv), Post(inv), EntriesFollow
  PROVE  /\ invoice' = inv /\ refused' = refused
         /\ entries' = [posting |-> Posted(inv), reversal |-> entries.reversal]
<1>1. Acceptable(Posted(inv))
  BY PostedAccepted
<1>2. PICK es : es = Posted(inv)
  OBVIOUS
<1>3. /\ invoice' = inv /\ refused' = refused
      /\ entries' = [entries EXCEPT !.posting = es]
  BY <1>1, <1>2 DEF Post, Replaced
<1>4. entries = [posting |-> entries.posting, reversal |-> entries.reversal]
  BY DEF EntriesFollow
<1> QED
  BY <1>2, <1>3, <1>4

\* At first there is no document.
LEMMA PostingInvInit == Init => PostingInv
<1> SUFFICES ASSUME Init PROVE PostingInv
  OBVIOUS
<1>1. CatalogOK
  BY CatalogAssumption DEF Init, CatalogOK
<1>2. PICK none : none = <<>>
  OBVIOUS
<1>3. DOMAIN none = 1 .. 0
  BY <1>2
<1>4. LinesOK(none)
  BY <1>3 DEF LinesOK
<1>5. DocumentTotal(none) = 0
  <2>1. PICK f : f = [i \in DOMAIN none |-> none[i].subtotal]
    OBVIOUS
  <2>2. PICK g : g = [i \in DOMAIN none |-> none[i].tax]
    OBVIOUS
  <2>3. DOMAIN f = {} /\ DOMAIN g = {}
    BY <1>3, <2>1, <2>2
  <2>4. DocumentTotal(none) = Total(f) + Total(g)
    BY <2>1, <2>2 DEF DocumentTotal, Mapped
  <2>5. Total(f) = 0 /\ Total(g) = 0
    BY <2>3, TotalIsSum, SumNothing
  <2> QED
    BY <2>4, <2>5
<1>6. /\ estimate = none /\ invoice = [st |-> "none", type |-> "SALES", lines |-> none, total |-> 0]
      /\ entries = [posting |-> <<>>, reversal |-> <<>>] /\ ~refused
  BY <1>2 DEF Init, NoInvoice
<1>7. DocumentOK(invoice)
  BY <1>4, <1>5, <1>6 DEF DocumentOK
<1>8. EntriesFollow
  BY <1>6 DEF EntriesFollow
<1> QED
  BY <1>1, <1>2, <1>4, <1>6, <1>7, <1>8 DEF PostingInv, InvoiceOK, NeverRefused

\* What writing a document gives, for the three requests that do.
LEMMA WritingKeeps ==
  ASSUME PostingInv, NEW type \in {"SALES", "PURCHASE"}, NEW r, RequestOK(r),
         Post(Open(type, Lines(r))), UNCHANGED catalog, estimate' = <<>>
  PROVE  PostingInv' /\ invoice' = Open(type, Lines(r))
<1>1. PICK inv : inv = Open(type, Lines(r))
  OBVIOUS
<1>2. /\ DocumentOK(inv) /\ inv.st = "open"
      /\ inv = [st |-> inv.st, type |-> inv.type, lines |-> inv.lines, total |-> inv.total]
  BY <1>1, LinesAreOK, OpenIs DEF PostingInv
<1>3. /\ invoice' = inv /\ refused' = refused
      /\ entries' = [posting |-> Posted(inv), reversal |-> entries.reversal]
  BY <1>1, <1>2, PostIs DEF PostingInv
<1>4. CatalogOK'
  BY DEF PostingInv, CatalogOK, catalog
<1>5. LinesOK(estimate)' /\ (estimate # <<>> => invoice.st = "none")'
  <2>1. PICK none : none = <<>>
    OBVIOUS
  <2>2. LinesOK(none)
    BY <2>1 DEF LinesOK
  <2> QED
    BY <2>1, <2>2
<1>6. DocumentOK(invoice)' /\ InvoiceOK'
  BY <1>2, <1>3 DEF InvoiceOK
<1>7. EntriesFollow'
  BY <1>2, <1>3 DEF EntriesFollow
<1>8. NeverRefused'
  BY <1>3 DEF PostingInv, NeverRefused
<1> QED
  BY <1>1, <1>3, <1>4, <1>5, <1>6, <1>7, <1>8 DEF PostingInv

\* An estimate is kept only until it is invoiced.
LEMMA EstimateUnset ==
  ASSUME PostingInv, invoice.st # "none"
  PROVE  estimate = <<>>
BY DEF PostingInv

\* Every request keeps the invariant.
LEMMA PostingInvNext == PostingInv /\ [Next]_vars => PostingInv'
<1> SUFFICES ASSUME PostingInv, [Next]_vars PROVE PostingInv'
  OBVIOUS
<1>1. CASE CreateInvoice
  <2>1. PICK r \in Requests, type \in {"SALES", "PURCHASE"} :
          estimate = <<>> /\ Post(Open(type, Lines(r))) /\ UNCHANGED <<catalog, estimate>>
    BY <1>1 DEF CreateInvoice
  <2> QED
    BY <2>1, RequestsOK, WritingKeeps
<1>2. CASE CreateInvoiceFromEstimate
  <2>1. PICK type \in {"SALES", "PURCHASE"} :
          Post(Open(type, Lines(Quoted(estimate)))) /\ estimate' = <<>> /\ UNCHANGED catalog
    BY <1>2 DEF CreateInvoiceFromEstimate
  <2>2. RequestOK(Quoted(estimate))
    BY QuotedIs DEF PostingInv
  <2> QED
    BY <2>1, <2>2, WritingKeeps
<1>3. CASE UpdateInvoiceLineItems
  <2>1. PICK r \in Requests :
          /\ invoice.st = "open" /\ Post(Open(invoice.type, Lines(r)))
          /\ UNCHANGED <<catalog, estimate>>
    BY <1>3 DEF UpdateInvoiceLineItems
  <2>2. PICK type \in {"SALES", "PURCHASE"} : type = invoice.type
    BY DEF PostingInv, DocumentOK
  <2>3. estimate' = <<>>
    BY <2>1, EstimateUnset
  <2> QED
    BY <2>1, <2>2, <2>3, RequestsOK, WritingKeeps
<1>4. CASE CancelInvoice
  <2>1. /\ invoice.st = "open" /\ invoice' = [invoice EXCEPT !.st = "cancelled"]
        /\ entries' = [entries EXCEPT !.reversal = Reversal(entries.posting)]
        /\ UNCHANGED <<catalog, estimate, refused>>
    BY <1>4 DEF CancelInvoice
  <2>2. PICK type, lines, total :
          invoice = [st |-> "open", type |-> type, lines |-> lines, total |-> total]
    BY <2>1 DEF PostingInv, InvoiceOK
  <2>3. invoice' = [st |-> "cancelled", type |-> type, lines |-> lines, total |-> total]
    BY <2>1, <2>2
  <2>4. PICK new : new = invoice'
    OBVIOUS
  <2>5. Posted(new) = Posted(invoice) /\ DocumentOK(new)
    <3>1. new.type = invoice.type /\ new.lines = invoice.lines /\ new.total = invoice.total
      BY <2>2, <2>3, <2>4
    <3> QED
      BY <3>1, SamePosted DEF PostingInv
  <2>6. entries = [posting |-> entries.posting, reversal |-> entries.reversal]
        /\ entries.posting = Posted(invoice)
    BY <2>1 DEF PostingInv, EntriesFollow
  <2>7. entries' = [posting |-> Posted(new), reversal |-> Reversal(Posted(new))]
    BY <2>1, <2>5, <2>6
  <2>8. EntriesFollow'
    BY <2>4, <2>7 DEF EntriesFollow
  <2>9. DocumentOK(invoice)' /\ InvoiceOK'
    BY <2>3, <2>4, <2>5 DEF InvoiceOK
  <2>10. CatalogOK' /\ NeverRefused' /\ estimate' = estimate /\ estimate = <<>>
    BY <2>1, EstimateUnset DEF PostingInv, CatalogOK, catalog, NeverRefused
  <2> QED
    BY <2>8, <2>9, <2>10 DEF PostingInv
<1>5. CASE WriteEstimate
  <2>1. PICK r \in Requests :
          invoice.st = "none" /\ estimate' = Lines(r) /\ UNCHANGED <<catalog, invoice, entries, refused>>
    BY <1>5 DEF WriteEstimate
  <2>2. LinesOK(estimate')
    BY <2>1, RequestsOK, LinesAreOK DEF PostingInv
  <2> QED
    BY <2>1, <2>2 DEF PostingInv, CatalogOK, catalog, EntriesFollow, InvoiceOK, NeverRefused
<1>6. ASSUME CatalogOK', UNCHANGED <<estimate, invoice, entries, refused>> PROVE PostingInv'
  BY <1>6 DEF PostingInv, EntriesFollow, InvoiceOK, NeverRefused
<1>7. CASE UpdateTaxRate
  <2>1. CatalogOK'
    BY <1>7 DEF UpdateTaxRate, Edit, PostingInv, CatalogOK
  <2> QED
    BY <1>6, <1>7, <2>1 DEF UpdateTaxRate, Edit
<1>8. CASE UpdateItem
  <2>1. CatalogOK'
    BY <1>8 DEF UpdateItem, Edit, PostingInv, CatalogOK
  <2> QED
    BY <1>6, <1>8, <2>1 DEF UpdateItem, Edit
<1>9. CASE DeactivateItem
  <2>1. CatalogOK'
    BY <1>9 DEF DeactivateItem, Edit, PostingInv, CatalogOK
  <2> QED
    BY <1>6, <1>9, <2>1 DEF DeactivateItem, Edit
<1>10. CASE UNCHANGED vars
  BY <1>10, <1>6 DEF PostingInv, CatalogOK, vars, catalog
<1> QED
  BY <1>1, <1>2, <1>3, <1>4, <1>5, <1>7, <1>8, <1>9, <1>10 DEF Next

\* The invariant holds in every state.
LEMMA PostingInvHolds == Spec => []PostingInv
BY PostingInvInit, PostingInvNext, PTL DEF Spec

-----------------------------------------------------------------------------
(* The theorems.                                                           *)

\* The entries of every document that is accepted balance, and each is one the
\* table's CHECK admits: no posting is ever refused.
THEOREM NeverRefusedHolds == Spec => []NeverRefused
<1>1. PostingInv => NeverRefused
  BY DEF PostingInv
<1> QED
  BY <1>1, PostingInvHolds, PTL

\* While the accounts are kept apart, an invoice's entries say what its lines
\* say, and those of a cancelled one nothing.
THEOREM LedgerFollowsInvoiceHolds ==
  ASSUME SeparateAccounts
  PROVE  Spec => []LedgerFollowsInvoice
<1>1. PostingInv => LedgerFollowsInvoice
  <2> SUFFICES ASSUME PostingInv PROVE LedgerFollowsInvoice
    OBVIOUS
  <2>1. PICK inv : inv = invoice
    OBVIOUS
  <2>2. DocumentOK(inv) /\ LinesOK(inv.lines)
    BY <2>1 DEF PostingInv, DocumentOK
  <2> DEFINE owed(a) == Total(Mapped(LAMBDA l : IF Taxed(l) /\ Liability[l.rate] = a
                                                THEN l.tax ELSE 0, inv.lines))
  <2>3. ASSUME invoice.st = "open"
        PROVE  /\ Moved(entries.posting, Contact) =
                    IF inv.type = "SALES" THEN inv.total ELSE -inv.total
               /\ \A a \in {Liability[r] : r \in Rates} :
                    -Moved(entries.posting, a) = IF inv.type = "SALES" THEN owed(a) ELSE 0
    <3>1. entries.posting = Posted(inv)
      BY <2>1, <2>3 DEF PostingInv, EntriesFollow
    <3>2. \A a : owed(a) = Owed(inv.lines, a)
      BY <2>2, OwedAsShown
    <3> HIDE DEF owed
    <3> QED
      BY <2>2, <3>1, <3>2, PostedMoves
  <2>4. ASSUME invoice.st = "cancelled", NEW a
        PROVE  Moved(entries.posting, a) + Moved(entries.reversal, a) = 0
    <3>1. entries.posting = Posted(inv) /\ entries.reversal = Reversal(Posted(inv))
      BY <2>1, <2>4 DEF PostingInv, EntriesFollow
    <3> QED
      BY <2>2, <3>1, ReversalMovesBack
  <2> QED
    BY <2>1, <2>3, <2>4 DEF LedgerFollowsInvoice
<1> QED
  BY <1>1, PostingInvHolds, PTL

\* Only an invoice whose every line costs nothing has no entries to reverse,
\* at rates of either sign; and each of these lines is free, unless it is a
\* purchase's that was charged a negative rate.
THEOREM OnlyCostlessIsStuckHolds == Spec => []OnlyCostlessIsStuck
<1>1. PostingInv => OnlyCostlessIsStuck
  <2> SUFFICES ASSUME PostingInv, invoice.st = "open", entries.posting = <<>>,
                      NEW i \in DOMAIN invoice.lines
               PROVE  Costless(invoice.type, invoice.lines[i])
    BY DEF OnlyCostlessIsStuck, Costless
  <2>1. PICK inv : inv = invoice
    OBVIOUS
  <2>2. DocumentOK(inv) /\ Posted(inv) = <<>>
    BY <2>1 DEF PostingInv, EntriesFollow
  <2>3. DOMAIN Posted(inv) = {}
    BY <2>2
  <2> QED
    BY <2>1, <2>2, <2>3, UnpostedIsCostless
<1> QED
  BY <1>1, PostingInvHolds, PTL

\* Whatever its lines, the breakdown of an invoice has one row for each rate
\* and adds up to the invoice.
THEOREM BreakdownAddsUpHolds == Spec => []BreakdownAddsUp
<1>1. PostingInv => BreakdownAddsUp
  BY BreakdownIs DEF PostingInv, BreakdownAddsUp
<1> QED
  BY <1>1, PostingInvHolds, PTL

\* An invoice made of an estimate whose lines are still as quoted charges what
\* was quoted.
THEOREM EstimateHonouredHolds == Spec => EstimateHonoured
<1>1. PostingInv /\ [Next]_vars =>
        (estimate # <<>> /\ invoice # invoice' /\ (\A i \in DOMAIN estimate : AsQuoted(estimate[i]))
           => invoice'.total = DocumentTotal(estimate))
  <2> SUFFICES ASSUME PostingInv, [Next]_vars, estimate # <<>>, invoice # invoice',
                      \A i \in DOMAIN estimate : AsQuoted(estimate[i])
               PROVE  invoice'.total = DocumentTotal(estimate)
    OBVIOUS
  <2>1. invoice.st = "none"
    BY EstimateUnset
  <2>2. CreateInvoiceFromEstimate
    BY <2>1 DEF Next, vars, CreateInvoice, UpdateInvoiceLineItems, CancelInvoice, WriteEstimate,
                UpdateTaxRate, UpdateItem, DeactivateItem, Edit
  <2>3. PICK type \in {"SALES", "PURCHASE"} :
          Post(Open(type, Lines(Quoted(estimate)))) /\ estimate' = <<>> /\ UNCHANGED catalog
    BY <2>2 DEF CreateInvoiceFromEstimate
  <2>4. LinesOK(estimate) /\ CatalogOK /\ RequestOK(Quoted(estimate))
    BY QuotedIs DEF PostingInv
  <2>5. invoice' = Open(type, Lines(Quoted(estimate)))
    BY <2>3, <2>4, WritingKeeps
  <2>6. invoice'.total = DocumentTotal(Lines(Quoted(estimate)))
    BY <2>5 DEF Open
  <2> QED
    BY <2>4, <2>6, QuotedTotal
<1> QED
  BY <1>1, PostingInvHolds, PTL DEF Spec, EstimateHonoured
=============================================================================
