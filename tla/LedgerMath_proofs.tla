-------------------------- MODULE LedgerMath_proofs --------------------------
(***************************************************************************)
(* What the sign-convention helpers guarantee for every amount, and what a  *)
(* sum over a finite set of rows does when a row is added or changed.       *)
(***************************************************************************)
EXTENDS LedgerMath, FiniteSetsExt, FiniteSetTheorems, TLAPS

\* Posting EntryForNormalDelta(normal, delta) changes the account's balance
\* in its own normal direction by exactly delta: the property the comment on
\* EntryForNormalDelta promises to periodclose and reporting.
LEMMA NormalDeltaIsExact ==
  ASSUME NEW normal \in NormalSide, NEW debit \in Int, NEW credit \in Int,
         NEW delta \in Int
  PROVE  LET e == EntryForNormalDelta(normal, delta)
         IN  NetBalance(normal, debit + e.debit, credit + e.credit)
               = NetBalance(normal, debit, credit) + delta
BY DEF NormalSide, NetBalance, EntryForNormalDelta, Magnitude

\* A zeroing posting leaves the account it zeroes at exactly zero, whatever
\* its normal side and whatever its balance (periodclose.postZeroingTransaction
\* passes net.Neg()).
THEOREM ZeroingIsExact ==
  ASSUME NEW normal \in NormalSide, NEW debit \in Int, NEW credit \in Int
  PROVE  LET e == EntryForNormalDelta(normal, -NetBalance(normal, debit, credit))
         IN  NetBalance(normal, debit + e.debit, credit + e.credit) = 0
BY NormalDeltaIsExact DEF NormalSide, NetBalance, EntryForNormalDelta, Magnitude

\* Every helper returns an entry the ledger_entry CHECK accepts, unless the
\* amount is zero: the reason callers have to skip zero amounts.
THEOREM EntryAcceptedUnlessZero ==
  ASSUME NEW normal \in NormalSide, NEW amount \in Int, NEW naturalDebit \in BOOLEAN
  PROVE  /\ EntryForNormalDelta(normal, amount) \in Entry
         /\ DebitOrCredit(EntryForNormalDelta(normal, amount)) <=> amount # 0
         /\ DebitCreditFor(amount, naturalDebit) \in Entry
         /\ DebitOrCredit(DebitCreditFor(amount, naturalDebit)) <=> amount # 0
BY DEF EntryForNormalDelta, DebitCreditFor, DebitOrCredit, Magnitude, Entry, NormalSide

\* An entry and its swap cancel, so a reversing transaction undoes the
\* original account by account (ledgerpost.ReverseTransaction), and a mirrored
\* pair of legs balances (the period close's zeroing and sweep postings).
THEOREM SwapCancels ==
  ASSUME NEW e \in Entry
  PROVE  /\ Swap(e) \in Entry
         /\ Signed(Swap(e)) = -Signed(e)
         /\ Swap(Swap(e)) = e
BY DEF Swap, Entry, Signed

\* The signed amount of a posted leg.
LEMMA LegIsSigned ==
  ASSUME NEW amount \in Int, NEW naturalDebit \in BOOLEAN
  PROVE  /\ DebitCreditFor(amount, naturalDebit) \in Entry
         /\ Signed(DebitCreditFor(amount, naturalDebit)) = IF naturalDebit THEN amount ELSE -amount
BY DEF DebitCreditFor, Signed, Magnitude, Entry

\* A column keeps whole cents as they are and rounds a debit as it rounds the
\* credit of the same amount, so only a posting split below a cent can lose
\* its balance to rounding (validateEntriesBalance compares what is sent).
THEOREM WholeCentsKept ==
  ASSUME NEW amount \in Int, NEW parts \in Nat \ {0}
  PROVE  /\ Stored(amount, 1) = amount
         /\ Stored(-amount, parts) = -Stored(amount, parts)
<1>1. Stored(amount, 1) = amount
  BY DEF Stored
<1>2. CASE amount > 0
  BY <1>1, <1>2 DEF Stored
<1>3. CASE amount < 0
  BY <1>1, <1>3 DEF Stored
<1>4. CASE amount = 0
  BY <1>1, <1>4 DEF Stored
<1> QED
  BY <1>2, <1>3, <1>4

\* The quotient the column's rounding takes, and what is left.
LEMMA Quotient ==
  ASSUME NEW x \in Int, NEW y \in Nat \ {0}
  PROVE  /\ x \div y \in Int
         /\ y * (x \div y) <= x
         /\ x < y * (x \div y) + y
OBVIOUS

\* The quotient is the only number with that property.
LEMMA QuotientIs ==
  ASSUME NEW x \in Int, NEW y \in Nat \ {0}, NEW q \in Int, y * q <= x, x < y * q + y
  PROVE  x \div y = q
<1>1. PICK p \in Int : p = x \div y
  BY Quotient
<1>2. y * p <= x /\ x < y * p + y
  BY <1>1, Quotient
<1>3. CASE p < q
  <2>1. y * (p + 1) <= y * q
    BY <1>3
  <2> QED
    BY <1>2, <2>1
<1>4. CASE q < p
  <2>1. y * (q + 1) <= y * p
    BY <1>4
  <2> QED
    BY <1>2, <2>1
<1> QED
  BY <1>1, <1>3, <1>4

\* Counting in smaller parts leaves a quotient as it is.
LEMMA QuotientScales ==
  ASSUME NEW x \in Int, NEW y \in Nat \ {0}, NEW z \in Nat \ {0}
  PROVE  (x * z) \div (y * z) = x \div y
<1>1. PICK q \in Int : q = x \div y
  BY Quotient
<1>2. y * q <= x /\ x < y * q + y
  BY <1>1, Quotient
<1>3. PICK X \in Int, Y \in Nat \ {0} : X = x * z /\ Y = y * z
  OBVIOUS
<1>4. Y * q <= X
  <2>1. (y * q) * z <= x * z
    BY <1>2
  <2>2. (y * q) * z = (y * z) * q
    OBVIOUS
  <2> QED
    BY <1>3, <2>1, <2>2
<1>5. X < Y * q + Y
  <2>1. x * z < (y * q + y) * z
    BY <1>2
  <2>2. (y * q + y) * z = (y * z) * q + y * z
    OBVIOUS
  <2> QED
    BY <1>3, <2>1, <2>2
<1>6. X \div Y = q
  BY <1>3, <1>4, <1>5, QuotientIs
<1> QED
  BY <1>1, <1>3, <1>6

\* What is stored is a whole amount, on the same side of zero.
LEMMA StoredSide ==
  ASSUME NEW amount \in Int, NEW parts \in Nat \ {0}
  PROVE  /\ Stored(amount, parts) \in Int
         /\ amount >= 0 => Stored(amount, parts) >= 0
         /\ amount <= 0 => Stored(amount, parts) <= 0
<1>1. PICK y \in Nat \ {0} : y = 2 * parts
  OBVIOUS
<1>2. ASSUME NEW x \in Nat PROVE x \div y \in Int /\ x \div y >= 0
  <2>1. PICK q \in Int : q = x \div y
    BY Quotient
  <2>2. x < y * q + y
    BY <2>1, Quotient
  <2>3. q < 0 => y * (q + 1) <= 0
    OBVIOUS
  <2>4. y * (q + 1) = y * q + y
    OBVIOUS
  <2> QED
    BY <2>1, <2>2, <2>3, <2>4
<1>3. CASE amount < 0
  <2>1. parts - 2 * amount \in Nat
    BY <1>3
  <2>2. PICK q \in Int : q = (parts - 2 * amount) \div y /\ q >= 0
    BY <1>2, <2>1
  <2> QED
    BY <1>1, <1>3, <2>2 DEF Stored
<1>4. CASE amount >= 0
  <2>1. 2 * amount + parts \in Nat
    BY <1>4
  <2>2. PICK q \in Int : q = (2 * amount + parts) \div y /\ q >= 0
    BY <1>2, <2>1
  <2>3. amount = 0 => q = 0
    <3>1. amount = 0 => parts \div y = 0
      BY <1>1, QuotientIs
    <3> QED
      BY <2>2, <3>1
  <2> QED
    BY <1>1, <1>4, <2>2, <2>3 DEF Stored
<1> QED
  BY <1>3, <1>4

\* An amount is stored as the same amount counted in smaller parts.
LEMMA StoredScales ==
  ASSUME NEW amount \in Int, NEW parts \in Nat \ {0}, NEW z \in Nat \ {0}
  PROVE  Stored(amount * z, parts * z) = Stored(amount, parts)
<1>1. PICK y \in Nat \ {0} : y = 2 * parts
  OBVIOUS
<1>2. 2 * (parts * z) = y * z /\ parts * z \in Nat \ {0} /\ amount * z \in Int
  BY <1>1
<1>3. CASE amount < 0
  <2>1. amount * z < 0
    BY <1>3
  <2>2. PICK x \in Int : x = parts - 2 * amount
    OBVIOUS
  <2>3. parts * z - 2 * (amount * z) = x * z
    BY <2>2
  <2>4. Stored(amount * z, parts * z) = -((x * z) \div (y * z))
    BY <1>2, <2>1, <2>3 DEF Stored
  <2>5. Stored(amount, parts) = -(x \div y)
    BY <1>1, <1>3, <2>2 DEF Stored
  <2> QED
    BY <2>4, <2>5, QuotientScales
<1>4. CASE amount >= 0
  <2>1. ~(amount * z < 0)
    BY <1>4
  <2>2. PICK x \in Int : x = 2 * amount + parts
    OBVIOUS
  <2>3. 2 * (amount * z) + parts * z = x * z
    BY <2>2
  <2>4. Stored(amount * z, parts * z) = (x * z) \div (y * z)
    BY <1>2, <2>1, <2>3 DEF Stored
  <2>5. Stored(amount, parts) = x \div y
    BY <1>1, <1>4, <2>2 DEF Stored
  <2> QED
    BY <2>4, <2>5, QuotientScales
<1> QED
  BY <1>3, <1>4

-----------------------------------------------------------------------------
(***************************************************************************)
(* Sums.  Balances are sums over sets of rows: MapThenSumSet folds with    *)
(* the function that is 0 on the empty set and f[x] plus the rest on any   *)
(* other.  The lemmas follow from that equation by taking, among the       *)
(* subsets of a finite set on which one fails, a smallest one.             *)
(***************************************************************************)

\* The sum of f over S, as MapThenSumSet computes it.
SumOver(f, S) == MapThenSumSet(LAMBDA x : f[x], S)

\* Induction over the subsets of a finite set: among those that fail there is
\* a smallest one.
LEMMA SmallestSubset ==
  ASSUME NEW S, IsFiniteSet(S), NEW F, F \subseteq SUBSET S, F # {}
  PROVE  \E T \in F : \A U \in F : U \subseteq T => U = T
<1>1. IsWellFoundedOn(StrictSubsetOrdering(S), SUBSET S)
  BY FS_StrictSubsetOrderingWellFounded, FS_FiniteSubsetsOfFinite
<1>2. PICK T \in F : \A U \in F : <<U, T>> \notin StrictSubsetOrdering(S)
  BY <1>1, WFMin
<1> QED
  BY <1>2 DEF StrictSubsetOrdering

\* The function by which MapThenFoldSet adds up.
Pick(s) == CHOOSE x \in s : TRUE
Adds(g, f, S) ==
  g = [s \in SUBSET S |-> IF s = {} THEN 0 ELSE f[Pick(s)] + g[s \ {Pick(s)}]]

\* SumOver applies the function that adds up the subsets of S.
LEMMA SumIsAdded == \A f, S : SumOver(f, S) = (CHOOSE g : Adds(g, f, S))[S]
BY DEF SumOver, MapThenSumSet, MapThenFoldSet, Adds, Pick

\* Some element is picked from a set that has one.
LEMMA PickIn == \A s : s # {} => Pick(s) \in s
BY DEF Pick

\* What a function that adds up gives for a subset.
LEMMA AddsValue ==
  ASSUME NEW f, NEW S, NEW g, Adds(g, f, S), NEW s \in SUBSET S
  PROVE  g[s] = IF s = {} THEN 0 ELSE f[Pick(s)] + g[s \ {Pick(s)}]
BY DEF Adds

\* A function that adds up a set adds up each of its subsets.
LEMMA AddsPart ==
  ASSUME NEW f, NEW S, NEW T \in SUBSET S, NEW g, Adds(g, f, S)
  PROVE  Adds([s \in SUBSET T |-> g[s]], f, T)
<1> DEFINE h == [s \in SUBSET T |-> g[s]]
<1>1. ASSUME NEW s \in SUBSET T
      PROVE  h[s] = IF s = {} THEN 0 ELSE f[Pick(s)] + h[s \ {Pick(s)}]
  <2>1. s \in SUBSET S /\ s \ {Pick(s)} \in SUBSET T
    OBVIOUS
  <2>2. h[s] = g[s] /\ h[s \ {Pick(s)}] = g[s \ {Pick(s)}]
    BY <2>1
  <2> HIDE DEF h
  <2> QED
    BY <2>1, <2>2, AddsValue
<1>2. h = [s \in SUBSET T |-> h[s]]
  OBVIOUS
<1> HIDE DEF h
<1>3. Adds(h, f, T)
  BY <1>1, <1>2 DEF Adds
<1> QED
  BY <1>3 DEF h

\* Only one function adds up the subsets of a finite set.
LEMMA AddsUnique ==
  ASSUME NEW f, NEW S, IsFiniteSet(S), NEW g, NEW h, Adds(g, f, S), Adds(h, f, S)
  PROVE  g = h
<1>1. ASSUME NEW s \in SUBSET S, g[s] # h[s] PROVE FALSE
  <2> DEFINE F == {T \in SUBSET S : g[T] # h[T]}
  <2>1. PICK T \in F : \A U \in F : U \subseteq T => U = T
    <3>1. F \subseteq SUBSET S /\ F # {}
      BY <1>1
    <3> HIDE DEF F
    <3> QED
      BY <3>1, SmallestSubset
  <2>2. T # {} => Pick(T) \in T /\ T \ {Pick(T)} \in SUBSET S
    BY PickIn
  <2>3. T # {} => g[T \ {Pick(T)}] = h[T \ {Pick(T)}]
    BY <2>1, <2>2
  <2>4. g[T] = IF T = {} THEN 0 ELSE f[Pick(T)] + g[T \ {Pick(T)}]
    BY AddsValue
  <2>5. h[T] = IF T = {} THEN 0 ELSE f[Pick(T)] + h[T \ {Pick(T)}]
    BY AddsValue
  <2> QED
    BY <2>3, <2>4, <2>5
<1>2. g = [s \in SUBSET S |-> g[s]] /\ h = [s \in SUBSET S |-> h[s]]
  BY DEF Adds
<1> QED
  BY <1>1, <1>2

\* Its value is the sum.
LEMMA SumIsValue ==
  ASSUME NEW f, NEW S, IsFiniteSet(S), NEW g, Adds(g, f, S), NEW T \in SUBSET S
  PROVE  SumOver(f, T) = g[T]
<1>1. Adds([s \in SUBSET T |-> g[s]], f, T)
  BY AddsPart
<1>2. Adds(CHOOSE h : Adds(h, f, T), f, T)
  BY <1>1
<1>3. IsFiniteSet(T)
  BY FS_Subset
<1>4. (CHOOSE h : Adds(h, f, T)) = [s \in SUBSET T |-> g[s]]
  BY <1>1, <1>2, <1>3, AddsUnique
<1>5. [s \in SUBSET T |-> g[s]][T] = g[T]
  OBVIOUS
<1> QED
  BY <1>4, <1>5, SumIsAdded

\* There is one: else take the smallest subset without, and extend the sums
\* over its own subsets by one element.
LEMMA AddsExists ==
  ASSUME NEW f, NEW S, IsFiniteSet(S)
  PROVE  \E g : Adds(g, f, S)
<1> SUFFICES ASSUME ~\E g : Adds(g, f, S) PROVE FALSE
  OBVIOUS
<1> DEFINE F == {T \in SUBSET S : ~\E g : Adds(g, f, T)}
<1>1. PICK T \in F : \A U \in F : U \subseteq T => U = T
  <2>1. F \subseteq SUBSET S /\ F # {}
    OBVIOUS
  <2> HIDE DEF F
  <2> QED
    BY <2>1, SmallestSubset
<1>2. ASSUME NEW V \in SUBSET T, V # T
      PROVE  SumOver(f, V) = IF V = {} THEN 0 ELSE f[Pick(V)] + SumOver(f, V \ {Pick(V)})
  <2>1. PICK g : Adds(g, f, V)
    BY <1>1, <1>2
  <2>2. IsFiniteSet(V)
    BY FS_Subset
  <2>3. SumOver(f, V) = g[V] /\ SumOver(f, V \ {Pick(V)}) = g[V \ {Pick(V)}]
    BY <2>1, <2>2, SumIsValue
  <2> QED
    BY <2>1, <2>3, AddsValue
<1> DEFINE h == [s \in SUBSET T |-> IF s = {} THEN 0 ELSE f[Pick(s)] + SumOver(f, s \ {Pick(s)})]
<1>3. ASSUME NEW s \in SUBSET T, s # {}
      PROVE  h[s \ {Pick(s)}] = SumOver(f, s \ {Pick(s)})
  <2>1. s \ {Pick(s)} \in SUBSET T /\ s \ {Pick(s)} # T
    BY <1>3, PickIn
  <2> QED
    BY <1>2, <2>1
<1>4. Adds(h, f, T)
  <2>1. \A s \in SUBSET T : h[s] = IF s = {} THEN 0 ELSE f[Pick(s)] + h[s \ {Pick(s)}]
    BY <1>3
  <2>2. h = [s \in SUBSET T |-> h[s]]
    OBVIOUS
  <2> HIDE DEF h
  <2> QED
    BY <2>1, <2>2 DEF Adds
<1> QED
  BY <1>1, <1>4

\* The recursion that the fold follows.
LEMMA SumPicked ==
  ASSUME NEW f, NEW S, IsFiniteSet(S)
  PROVE  SumOver(f, S) = IF S = {} THEN 0 ELSE f[Pick(S)] + SumOver(f, S \ {Pick(S)})
<1>1. PICK g : Adds(g, f, S)
  BY AddsExists
<1>2. SumOver(f, S) = g[S] /\ SumOver(f, S \ {Pick(S)}) = g[S \ {Pick(S)}]
  BY <1>1, SumIsValue
<1>3. S \in SUBSET S
  OBVIOUS
<1>4. g[S] = IF S = {} THEN 0 ELSE f[Pick(S)] + g[S \ {Pick(S)}]
  BY <1>1, <1>3, AddsValue
<1> QED
  BY <1>2, <1>4

\* The sum over no element is zero.
LEMMA SumNothing == \A f : SumOver(f, {}) = 0
BY SumPicked, FS_EmptySet

\* A sum of integers is an integer.
LEMMA SumType ==
  ASSUME NEW S, IsFiniteSet(S), NEW f, \A x \in S : f[x] \in Int
  PROVE  SumOver(f, S) \in Int
<1> SUFFICES ASSUME SumOver(f, S) \notin Int PROVE FALSE
  OBVIOUS
<1> DEFINE F == {T \in SUBSET S : SumOver(f, T) \notin Int}
<1>1. PICK T \in F : \A U \in F : U \subseteq T => U = T
  <2>1. F \subseteq SUBSET S /\ F # {}
    OBVIOUS
  <2> HIDE DEF F
  <2> QED
    BY <2>1, SmallestSubset
<1>2. IsFiniteSet(T)
  BY FS_Subset
<1>3. ASSUME T # {} PROVE FALSE
  <2>1. PICK p \in T : p = Pick(T)
    BY <1>3, PickIn
  <2>2. T \ {p} \in SUBSET S /\ T \ {p} \subseteq T /\ T \ {p} # T
    OBVIOUS
  <2>3. PICK s \in Int : s = SumOver(f, T \ {p})
    BY <1>1, <2>2
  <2>4. SumOver(f, T) = f[p] + s
    BY <1>2, <1>3, <2>1, <2>3, SumPicked
  <2>5. f[p] \in Int
    OBVIOUS
  <2>6. SumOver(f, T) \in Int
    BY <2>4, <2>5
  <2> QED
    BY <2>6
<1> QED
  <2>1. T = {}
    BY <1>3
  <2>2. SumOver(f, T) = 0
    BY <2>1, SumNothing
  <2> QED
    BY <2>2

\* Any element's value can be taken out of the sum.
LEMMA SumTakeOut ==
  ASSUME NEW S, IsFiniteSet(S), NEW f, \A x \in S : f[x] \in Int, NEW y \in S
  PROVE  SumOver(f, S) = f[y] + SumOver(f, S \ {y})
<1> SUFFICES ASSUME SumOver(f, S) # f[y] + SumOver(f, S \ {y}) PROVE FALSE
  OBVIOUS
<1> DEFINE F == {T \in SUBSET S : \E x \in T : SumOver(f, T) # f[x] + SumOver(f, T \ {x})}
<1>1. PICK T \in F : \A U \in F : U \subseteq T => U = T
  <2>1. F \subseteq SUBSET S
    OBVIOUS
  <2>2. S \in F
    OBVIOUS
  <2> HIDE DEF F
  <2> QED
    BY <2>1, <2>2, SmallestSubset
<1>2. PICK x \in T : SumOver(f, T) # f[x] + SumOver(f, T \ {x})
  OBVIOUS
<1>3. PICK p \in T : p = Pick(T)
  BY PickIn
<1>4. IsFiniteSet(T) /\ IsFiniteSet(T \ {x}) /\ IsFiniteSet(T \ {p}) /\ IsFiniteSet((T \ {p}) \ {x})
  BY FS_Subset
<1>5. SumOver(f, T) = f[p] + SumOver(f, T \ {p})
  BY <1>3, <1>4, SumPicked
<1>6. x # p
  BY <1>2, <1>5
<1>7. SumOver(f, T \ {p}) = f[x] + SumOver(f, (T \ {p}) \ {x})
  <2>1. T \ {p} \in SUBSET S /\ T \ {p} # T /\ T \ {p} \subseteq T /\ x \in T \ {p}
    BY <1>6
  <2> QED
    BY <1>1, <2>1
<1>8. SumOver(f, T \ {x}) = f[p] + SumOver(f, (T \ {x}) \ {p})
  <2>1. T \ {x} \in SUBSET S /\ T \ {x} # T /\ T \ {x} \subseteq T /\ p \in T \ {x}
    BY <1>6
  <2> QED
    BY <1>1, <2>1
<1>9. (T \ {x}) \ {p} = (T \ {p}) \ {x}
  OBVIOUS
<1>10. PICK s \in Int : s = SumOver(f, (T \ {p}) \ {x})
  BY <1>4, SumType
<1>11. f[x] \in Int /\ f[p] \in Int
  OBVIOUS
<1>12. SumOver(f, T) = f[p] + (f[x] + s) /\ SumOver(f, T \ {x}) = f[p] + s
  BY <1>5, <1>7, <1>8, <1>9, <1>10
<1> QED
  BY <1>2, <1>10, <1>11, <1>12

\* Sums of functions that agree on the set are the same.
LEMMA SumSame ==
  ASSUME NEW S, IsFiniteSet(S), NEW f, NEW g, \A x \in S : f[x] = g[x]
  PROVE  SumOver(f, S) = SumOver(g, S)
<1> SUFFICES ASSUME SumOver(f, S) # SumOver(g, S) PROVE FALSE
  OBVIOUS
<1> DEFINE F == {T \in SUBSET S : SumOver(f, T) # SumOver(g, T)}
<1>1. PICK T \in F : \A U \in F : U \subseteq T => U = T
  <2>1. F \subseteq SUBSET S /\ F # {}
    OBVIOUS
  <2> HIDE DEF F
  <2> QED
    BY <2>1, SmallestSubset
<1>2. IsFiniteSet(T) /\ T # {}
  <2>1. SumOver(f, T) # SumOver(g, T)
    OBVIOUS
  <2>2. T # {}
    BY <2>1, SumNothing
  <2> QED
    BY <2>2, FS_Subset
<1>3. PICK p \in T : p = Pick(T)
  BY <1>2, PickIn
<1>4. T \ {p} \in SUBSET S /\ T \ {p} \subseteq T /\ T \ {p} # T
  OBVIOUS
<1>5. SumOver(f, T \ {p}) = SumOver(g, T \ {p})
  BY <1>1, <1>4
<1>6. SumOver(f, T) = f[p] + SumOver(f, T \ {p}) /\ SumOver(g, T) = g[p] + SumOver(g, T \ {p})
  BY <1>2, <1>3, SumPicked
<1>7. f[p] = g[p]
  OBVIOUS
<1> QED
  BY <1>5, <1>6, <1>7

\* One element more adds its value.
LEMMA SumOneMore ==
  ASSUME NEW S, IsFiniteSet(S), NEW y, y \notin S, NEW f,
         f[y] \in Int, \A x \in S : f[x] \in Int
  PROVE  SumOver(f, S \union {y}) = f[y] + SumOver(f, S)
<1>1. IsFiniteSet(S \union {y})
  BY FS_AddElement
<1>2. (S \union {y}) \ {y} = S
  OBVIOUS
<1> QED
  BY <1>1, <1>2, SumTakeOut

\* A sum of sums is the sum of the two sums.
LEMMA SumPlus ==
  ASSUME NEW S, IsFiniteSet(S), NEW f, NEW g, NEW h,
         \A x \in S : f[x] \in Int /\ g[x] \in Int /\ h[x] = f[x] + g[x]
  PROVE  SumOver(h, S) = SumOver(f, S) + SumOver(g, S)
<1> SUFFICES ASSUME SumOver(h, S) # SumOver(f, S) + SumOver(g, S) PROVE FALSE
  OBVIOUS
<1> DEFINE F == {T \in SUBSET S : SumOver(h, T) # SumOver(f, T) + SumOver(g, T)}
<1>1. PICK T \in F : \A U \in F : U \subseteq T => U = T
  <2>1. F \subseteq SUBSET S /\ F # {}
    OBVIOUS
  <2> HIDE DEF F
  <2> QED
    BY <2>1, SmallestSubset
<1>2. IsFiniteSet(T) /\ T # {}
  <2>1. SumOver(h, T) # SumOver(f, T) + SumOver(g, T)
    OBVIOUS
  <2>2. T # {}
    BY <2>1, SumNothing
  <2> QED
    BY <2>2, FS_Subset
<1>3. PICK p \in T : p = Pick(T)
  BY <1>2, PickIn
<1>4. T \ {p} \in SUBSET S /\ T \ {p} \subseteq T /\ T \ {p} # T
  OBVIOUS
<1>5. SumOver(h, T \ {p}) = SumOver(f, T \ {p}) + SumOver(g, T \ {p})
  BY <1>1, <1>4
<1>6. /\ SumOver(f, T) = f[p] + SumOver(f, T \ {p})
      /\ SumOver(g, T) = g[p] + SumOver(g, T \ {p})
      /\ SumOver(h, T) = h[p] + SumOver(h, T \ {p})
  BY <1>2, <1>3, SumPicked
<1>7. f[p] \in Int /\ g[p] \in Int /\ h[p] = f[p] + g[p]
  OBVIOUS
<1>8. IsFiniteSet(T \ {p}) /\ \A x \in T \ {p} : f[x] \in Int /\ g[x] \in Int
  BY <1>2, FS_Subset
<1>9. SumOver(f, T \ {p}) \in Int /\ SumOver(g, T \ {p}) \in Int
  BY <1>8, SumType
<1> QED
  BY <1>5, <1>6, <1>7, <1>9

\* A sum of zeros is zero.
LEMMA SumZero ==
  ASSUME NEW S, IsFiniteSet(S), NEW f, \A x \in S : f[x] = 0
  PROVE  SumOver(f, S) = 0
<1>1. \A x \in S : f[x] \in Int /\ f[x] = f[x] + f[x]
  OBVIOUS
<1>2. PICK s \in Int : s = SumOver(f, S)
  BY <1>1, SumType
<1>3. s = s + s
  BY <1>1, <1>2, SumPlus
<1>4. s = 0
  BY <1>3
<1> QED
  BY <1>2, <1>4

\* A sum of opposites is the opposite of the sum.
LEMMA SumOpposite ==
  ASSUME NEW S, IsFiniteSet(S), NEW f, NEW g, \A x \in S : f[x] \in Int /\ g[x] = -f[x]
  PROVE  SumOver(g, S) = -SumOver(f, S)
<1> DEFINE zero == [x \in S |-> 0]
<1>1. \A x \in S : f[x] \in Int /\ g[x] \in Int /\ zero[x] = f[x] + g[x] /\ zero[x] = 0
  OBVIOUS
<1> HIDE DEF zero
<1>2. SumOver(zero, S) = SumOver(f, S) + SumOver(g, S) /\ SumOver(zero, S) = 0
  BY <1>1, SumPlus, SumZero
<1>3. SumOver(f, S) \in Int /\ SumOver(g, S) \in Int
  BY <1>1, SumType
<1> QED
  BY <1>2, <1>3

\* Only one element contributes.
LEMMA SumOnly ==
  ASSUME NEW S, IsFiniteSet(S), NEW y \in S, NEW f, f[y] \in Int,
         \A x \in S \ {y} : f[x] = 0
  PROVE  SumOver(f, S) = f[y]
<1>1. IsFiniteSet(S \ {y}) /\ \A x \in S : f[x] \in Int
  BY FS_Subset
<1>2. SumOver(f, S \ {y}) = 0
  BY <1>1, SumZero
<1> QED
  BY <1>1, <1>2, SumTakeOut

\* A sum of naturals is a natural.
LEMMA SumNat ==
  ASSUME NEW S, IsFiniteSet(S), NEW f, \A x \in S : f[x] \in Nat
  PROVE  SumOver(f, S) \in Nat
<1> SUFFICES ASSUME SumOver(f, S) \notin Nat PROVE FALSE
  OBVIOUS
<1> DEFINE F == {T \in SUBSET S : SumOver(f, T) \notin Nat}
<1>1. PICK T \in F : \A U \in F : U \subseteq T => U = T
  <2>1. F \subseteq SUBSET S /\ F # {}
    OBVIOUS
  <2> HIDE DEF F
  <2> QED
    BY <2>1, SmallestSubset
<1>2. IsFiniteSet(T) /\ T # {}
  <2>1. SumOver(f, T) \notin Nat
    OBVIOUS
  <2>2. T # {}
    BY <2>1, SumNothing
  <2> QED
    BY <2>2, FS_Subset
<1>3. PICK p \in T : p = Pick(T)
  BY <1>2, PickIn
<1>4. T \ {p} \in SUBSET S /\ T \ {p} \subseteq T /\ T \ {p} # T
  OBVIOUS
<1>5. PICK s \in Nat : s = SumOver(f, T \ {p})
  BY <1>1, <1>4
<1>6. SumOver(f, T) = f[p] + s
  BY <1>2, <1>3, <1>5, SumPicked
<1>7. f[p] \in Nat
  OBVIOUS
<1>8. SumOver(f, T) \in Nat
  BY <1>6, <1>7
<1> QED
  BY <1>8

\* Only the value of one element changed.
LEMMA SumUpdate ==
  ASSUME NEW S, IsFiniteSet(S), NEW y \in S, NEW f, NEW g,
         \A x \in S : f[x] \in Int /\ g[x] \in Int,
         \A x \in S \ {y} : g[x] = f[x]
  PROVE  SumOver(g, S) = SumOver(f, S) + (g[y] - f[y])
<1>1. IsFiniteSet(S \ {y})
  BY FS_Subset
<1>2. PICK s \in Int : s = SumOver(f, S \ {y})
  BY <1>1, SumType
<1>3. SumOver(g, S \ {y}) = s
  BY <1>1, <1>2, SumSame
<1>4. SumOver(f, S) = f[y] + s /\ SumOver(g, S) = g[y] + s
  BY <1>2, <1>3, SumTakeOut
<1> QED
  BY <1>2, <1>4

\* Elements that contribute nothing can be left out.
LEMMA SumSupport ==
  ASSUME NEW S, IsFiniteSet(S), NEW R \in SUBSET S, NEW f, \A x \in S : f[x] \in Int,
         \A x \in S \ R : f[x] = 0
  PROVE  SumOver(f, S) = SumOver(f, R)
<1> SUFFICES ASSUME SumOver(f, S) # SumOver(f, R) PROVE FALSE
  OBVIOUS
<1> DEFINE F == {T \in SUBSET S : R \subseteq T /\ SumOver(f, T) # SumOver(f, R)}
<1>1. PICK T \in F : \A U \in F : U \subseteq T => U = T
  <2>1. F \subseteq SUBSET S
    OBVIOUS
  <2>2. S \in F
    OBVIOUS
  <2> HIDE DEF F
  <2> QED
    BY <2>1, <2>2, SmallestSubset
<1>2. PICK y \in T : y \notin R
  OBVIOUS
<1>3. SumOver(f, T \ {y}) = SumOver(f, R)
  <2>1. T \ {y} \in SUBSET S /\ R \subseteq T \ {y} /\ T \ {y} \subseteq T /\ T \ {y} # T
    BY <1>2
  <2> QED
    BY <1>1, <2>1
<1>4. IsFiniteSet(T) /\ IsFiniteSet(T \ {y}) /\ \A x \in T : f[x] \in Int
  BY FS_Subset
<1>5. SumOver(f, T) = f[y] + SumOver(f, T \ {y}) /\ f[y] = 0
  BY <1>2, <1>4, SumTakeOut
<1>6. SumOver(f, T \ {y}) \in Int
  BY <1>4, SumType
<1> QED
  BY <1>3, <1>5, <1>6

\* The sum over two disjoint sets is the sum of the two.
LEMMA SumUnion ==
  ASSUME NEW R, NEW S, IsFiniteSet(R), IsFiniteSet(S), R \intersect S = {},
         NEW f, \A x \in R \union S : f[x] \in Int
  PROVE  SumOver(f, R \union S) = SumOver(f, R) + SumOver(f, S)
<1> DEFINE g == [x \in R \union S |-> IF x \in R THEN f[x] ELSE 0]
           h == [x \in R \union S |-> IF x \in S THEN f[x] ELSE 0]
<1>1. IsFiniteSet(R \union S)
  BY FS_Union
<1>2. /\ \A x \in R \union S : g[x] \in Int /\ h[x] \in Int /\ f[x] = g[x] + h[x]
      /\ \A x \in (R \union S) \ R : g[x] = 0
      /\ \A x \in (R \union S) \ S : h[x] = 0
      /\ \A x \in R : g[x] = f[x]
      /\ \A x \in S : h[x] = f[x]
  OBVIOUS
<1> HIDE DEF g, h
<1>3. SumOver(f, R \union S) = SumOver(g, R \union S) + SumOver(h, R \union S)
  BY <1>1, <1>2, SumPlus
<1>4. SumOver(g, R \union S) = SumOver(g, R) /\ SumOver(h, R \union S) = SumOver(h, S)
  <2>1. R \in SUBSET (R \union S) /\ S \in SUBSET (R \union S)
    OBVIOUS
  <2> QED
    BY <1>1, <1>2, <2>1, SumSupport
<1>5. SumOver(g, R) = SumOver(f, R)
  BY <1>2, SumSame
<1>6. SumOver(h, S) = SumOver(f, S)
  BY <1>2, SumSame
<1> QED
  BY <1>3, <1>4, <1>5, <1>6

\* Grouping: the sums of the classes add up to the sum.  Of x, c gives the
\* class, and of a class, part gives the elements.
LEMMA SumClasses ==
  ASSUME NEW S, IsFiniteSet(S), NEW T, IsFiniteSet(T), NEW f, \A x \in S : f[x] \in Int,
         NEW c, \A x \in S : c[x] \in T,
         NEW part, \A t \in T : part[t] \in SUBSET S,
         \A t \in T : \A x \in S : x \in part[t] <=> c[x] = t,
         NEW g, \A t \in T : g[t] = SumOver(f, part[t])
  PROVE  SumOver(g, T) = SumOver(f, S)
<1> DEFINE Class(U) == {x \in S : c[x] \in U}
           F == {U \in SUBSET T : SumOver(g, U) # SumOver(f, Class(U))}
<1>1. ASSUME NEW U \in SUBSET T PROVE IsFiniteSet(Class(U)) /\ IsFiniteSet(U)
  BY FS_Subset
<1>2. \A t \in T : g[t] \in Int
  <2>1. ASSUME NEW t \in T PROVE SumOver(f, part[t]) \in Int
    <3>1. IsFiniteSet(part[t]) /\ \A x \in part[t] : f[x] \in Int
      BY FS_Subset
    <3> QED
      BY <3>1, SumType
  <2> QED
    BY <2>1
<1>3. F = {}
  <2> SUFFICES ASSUME F # {} PROVE FALSE
    OBVIOUS
  <2>1. PICK U \in F : \A V \in F : V \subseteq U => V = U
    <3>1. F \subseteq SUBSET T
      OBVIOUS
    <3> HIDE DEF F
    <3> QED
      BY <3>1, SmallestSubset
  <2>2. U \in SUBSET T /\ SumOver(g, U) # SumOver(f, Class(U))
    OBVIOUS
  <2>3. U # {}
    <3> SUFFICES ASSUME U = {} PROVE FALSE
      OBVIOUS
    <3>1. Class(U) = {}
      OBVIOUS
    <3> QED
      BY <2>2, <3>1, SumNothing
  <2>4. PICK y \in U : TRUE
    BY <2>3
  <2>5. SumOver(g, U \ {y}) = SumOver(f, Class(U \ {y}))
    <3>1. U \ {y} \in SUBSET T /\ U \ {y} \subseteq U /\ U \ {y} # U
      BY <2>2, <2>4
    <3> QED
      BY <2>1, <3>1
  <2>6. SumOver(g, U) = g[y] + SumOver(g, U \ {y})
    <3>1. IsFiniteSet(U) /\ \A x \in U : g[x] \in Int
      BY <1>1, <1>2, <2>2
    <3> HIDE DEF F, Class
    <3> QED
      BY <2>4, <3>1, SumTakeOut
  <2>7. SumOver(f, Class(U)) = SumOver(f, Class(U \ {y})) + SumOver(f, part[y])
    <3>1. PICK A, B : A = Class(U \ {y}) /\ B = part[y]
      OBVIOUS
    <3>2. /\ Class(U) = A \union B /\ A \intersect B = {}
          /\ \A x \in A \union B : f[x] \in Int
      BY <2>2, <2>4, <3>1
    <3>3. IsFiniteSet(A) /\ IsFiniteSet(B)
      BY <2>2, <2>4, <3>1, FS_Subset
    <3>4. SumOver(f, A \union B) = SumOver(f, A) + SumOver(f, B)
      BY <3>2, <3>3, SumUnion
    <3> QED
      BY <3>1, <3>2, <3>4
  <2>8. y \in T /\ g[y] = SumOver(f, part[y])
    BY <2>2, <2>4
  <2>9. SumOver(g, U \ {y}) \in Int /\ g[y] \in Int
    <3>1. IsFiniteSet(U \ {y}) /\ \A x \in U \ {y} : g[x] \in Int
      BY <1>1, <1>2, <2>2, FS_Subset
    <3> QED
      BY <1>2, <2>8, <3>1, SumType
  <2> HIDE DEF Class
  <2> QED
    BY <2>2, <2>5, <2>6, <2>7, <2>8, <2>9
<1>4. Class(T) = S
  OBVIOUS
<1> QED
  BY <1>3, <1>4

\* Renaming the elements changes nothing of a sum; back undoes the renaming.
LEMMA SumRenamed ==
  ASSUME NEW S, IsFiniteSet(S), NEW K, IsFiniteSet(K),
         NEW key, \A x \in S : key[x] \in K,
         NEW back, \A k \in K : back[k] \in S, \A k \in K : \A x \in S : back[k] = x <=> key[x] = k,
         NEW f, \A k \in K : f[k] \in Int,
         NEW g, \A x \in S : g[x] = f[key[x]]
  PROVE  SumOver(f, K) = SumOver(g, S)
<1> DEFINE part == [x \in S |-> {key[x]}]
<1>1. /\ \A x \in S : part[x] \in SUBSET K
      /\ \A x \in S : \A k \in K : k \in part[x] <=> back[k] = x
  OBVIOUS
<1>2. ASSUME NEW x \in S PROVE g[x] = SumOver(f, part[x])
  <2>1. PICK k \in K : k = key[x]
    OBVIOUS
  <2>2. PICK s : s = {k}
    OBVIOUS
  <2>3. IsFiniteSet(s) /\ k \in s /\ f[k] \in Int /\ \A y \in s \ {k} : f[y] = 0
    BY <2>2, FS_Singleton
  <2>4. SumOver(f, s) = f[k]
    BY <2>3, SumOnly
  <2> QED
    BY <2>1, <2>2, <2>4
<1> HIDE DEF part
<1> QED
  BY <1>1, <1>2, SumClasses
=============================================================================
