---------------------------- MODULE Business_proofs ----------------------------
(***************************************************************************)
(* Theorems about Business, for any number of requests, contacts and       *)
(* documents: contacts are whole, and sales are numbered as GaplessNumbers *)
(* says.                                                                   *)
(*                                                                         *)
(* Both follow from what the business row's lock protects.  A request that *)
(* has claimed a number holds the lock until it ends, so the committed     *)
(* counter is one past the sales that exist, and the number it holds is    *)
(* the next.  What a request has pinned exists, or is its own insert and   *)
(* comes and goes with the pin.                                            *)
(***************************************************************************)
EXTENDS Business, FiniteSetTheorems, SequenceTheorems, TLAPS

Steps == {"idle", "resolve", "find", "insert", "pin", "claim", "number", "commit"}
Resolving == {"resolve", "find", "insert", "pin"}
DocumentKinds == {"SALES", "ESTIMATE", "PURCHASE"}
Owners == Workers \union {NoWorker}
States == {"none", "open", "live"}

BusinessRow == [exists : BOOLEAN, pin : [Roles -> BOOLEAN], next : [Counters -> Nat]]
AccountRow == [st : States, by : Owners, usable : BOOLEAN, system : BOOLEAN]
ContactRow == [st : States, by : Owners, sides : SUBSET Sides, active : BOOLEAN,
               sub : [Sides -> {"none", "active", "inactive"}]]
DocumentRow == [st : States, by : Owners, kind : DocumentKinds, number : Nat]
Request == [kind : {"none", "close", "contact"} \union DocumentKinds, number : Nat, todo : Seq(Roles)]

TypeOK ==
  /\ business \in BusinessRow /\ draft \in BusinessRow /\ lock \in Owners
  /\ account \in [Roles -> AccountRow]
  /\ contact \in [Contacts -> ContactRow]
  /\ document \in [Documents -> DocumentRow]
  /\ pc \in [Workers -> Steps] /\ req \in [Workers -> Request]

\* A request at step s, given r.
RequestOK(s, r) ==
  /\ s = "idle" => r.kind = "none"
  /\ s # "idle" => r.kind # "none" /\ business.exists
  /\ s \in Resolving => r.kind \in {"close", "contact"}
  /\ s = "claim" => r.kind \in Counters
  /\ s = "number" => r.kind \in DocumentKinds
  /\ s \in {"find", "insert", "pin"} => r.todo # <<>>
  /\ s = "commit" /\ r.kind = "contact" => r.todo = <<>>
  /\ r.kind = "contact" => \A i \in 1..Len(r.todo) : r.todo[i] \in Sides

RequestsOK == \A w \in Workers : RequestOK(pc[w], req[w])

\* Who holds the business row's lock is in flight, and rewrites a row there is.
LockOK == lock \in Workers => pc[lock] # "idle" /\ draft.exists

\* A sale's number is claimed, and its transaction has not ended.
Claimed(w) == req[w].kind = "SALES" /\ pc[w] \in {"number", "commit"}

NextOK ==
  /\ \A w \in Workers : Claimed(w) =>
       /\ lock = w /\ "SALES" \in Counters
       /\ req[w].number = business.next["SALES"] /\ draft.next["SALES"] = req[w].number + 1
  /\ lock \in Workers /\ ~Claimed(lock) /\ "SALES" \in Counters =>
       draft.next["SALES"] = business.next["SALES"]

DocumentsOK ==
  /\ \A d \in Documents : document[d].by \notin Workers => document[d].st # "open"
  /\ \A d \in Documents : document[d].by \in Workers =>
       /\ document[d].st = "open" /\ pc[document[d].by] = "commit"
       /\ document[d].kind = req[document[d].by].kind
       /\ document[d].number = req[document[d].by].number
  /\ \A d, e \in Documents : document[d].by = document[e].by /\ document[d].by \in Workers => d = e
  /\ \A w \in Workers : pc[w] = "commit" /\ req[w].kind = "SALES" =>
       \E d \in Documents : document[d].by = w

LiveSales == {d \in Live(document) : document[d].kind = "SALES"}

CountOK ==
  /\ IsFiniteSet(LiveSales)
  /\ ~business.exists => LiveSales = {}
  /\ "SALES" \in Counters => business.next["SALES"] = First + Cardinality(LiveSales)

\* A pinned account exists, or is in flight with the transaction that pinned it.
PinsOK ==
  /\ \A r \in Roles : account[r].by \in Workers <=> account[r].st = "open"
  /\ \A r \in Roles : business.pin[r] => account[r].st = "live"
  /\ lock \in Workers => \A r \in Roles :
       /\ business.pin[r] => draft.pin[r]
       /\ draft.pin[r] => account[r].st = "live" \/ account[r].by = lock
  /\ \A w \in Workers : pc[w] = "pin" =>
       account[Head(req[w].todo)].st = "live" \/ account[Head(req[w].todo)].by = w

\* A contact in flight has its account on each side, or it is still to do.
ContactsOK ==
  /\ \A c \in Contacts : contact[c].by \notin Workers => contact[c].st # "open"
  /\ \A c \in Contacts : contact[c].by \in Workers =>
       contact[c].st = "open" /\ req[contact[c].by].kind = "contact"
  /\ \A w \in Workers, c \in Contacts : contact[c].by = w =>
       \A s \in contact[c].sides :
         \/ \E i \in 1..Len(req[w].todo) : req[w].todo[i] = s
         \/ contact[c].sub[s] # "none" /\ Row(w).pin[s]
  /\ \A c \in Contacts : contact[c].st = "live" => \A s \in contact[c].sides :
       contact[c].sub[s] # "none" /\ business.pin[s]

Numbered == NextOK /\ DocumentsOK /\ CountOK

IInv == TypeOK /\ RequestsOK /\ LockOK /\ Numbered /\ PinsOK /\ ContactsOK

-----------------------------------------------------------------------------
LEMMA RequestType ==
  /\ NoRequest \in Request /\ NoRequest.kind = "none" /\ NoRequest.todo = <<>>
  /\ \A s : s = "idle" => RequestOK(s, NoRequest)
<1>1. <<>> \in Seq(Roles) /\ Len(<<>>) = 0
  BY EmptySeq
<1> QED
  BY <1>1 DEF NoRequest, Request, RequestOK, Resolving

\* Nobody has done anything, before the first business or long after.
LEMMA InitInv == Init => IInv
<1> SUFFICES ASSUME Init PROVE IInv
  OBVIOUS
<1> USE NoWorkerAssumption, NumbersAssumption, CountersAssumption
<1>1. PICK exists \in BOOLEAN, seeded \in BOOLEAN :
        /\ business = NewBusiness(exists, FALSE) /\ draft = business /\ lock = NoWorker
        /\ account = [r \in Roles |-> IF exists /\ seeded /\ r \in Sides THEN SystemAccount ELSE NoAccount]
        /\ contact = [c \in Contacts |-> NoContact] /\ document = [d \in Documents |-> NoDocument]
        /\ pc = [w \in Workers |-> "idle"] /\ req = [w \in Workers |-> NoRequest]
  BY DEF Init
<1>2. TypeOK
  <2>1. business \in BusinessRow
    BY <1>1 DEF NewBusiness, BusinessRow
  <2>2. account \in [Roles -> AccountRow]
    BY <1>1 DEF AccountRow, SystemAccount, NoAccount, States, Owners
  <2>3. NoContact \in ContactRow
    BY DEF NoContact, ContactRow, States, Owners
  <2>4. NoDocument \in DocumentRow
    BY DEF NoDocument, DocumentRow, States, Owners, DocumentKinds
  <2> QED
    BY <1>1, <2>1, <2>2, <2>3, <2>4, RequestType DEF TypeOK, Owners, Steps
<1>3. RequestsOK /\ LockOK
  BY <1>1, RequestType DEF RequestsOK, LockOK
<1>4. Numbered
  <2>1. LiveSales = {}
    BY <1>1 DEF LiveSales, Live, NoDocument
  <2>2. CountOK
    BY <1>1, <2>1, FS_EmptySet DEF CountOK, NewBusiness
  <2>3. NextOK
    BY <1>1 DEF NextOK, Claimed
  <2>4. DocumentsOK
    BY <1>1 DEF DocumentsOK, NoDocument
  <2> QED
    BY <2>2, <2>3, <2>4 DEF Numbered
<1>5. PinsOK
  BY <1>1 DEF PinsOK, NewBusiness, SystemAccount, NoAccount
<1>6. ContactsOK
  BY <1>1 DEF ContactsOK, NoContact
<1> QED
  BY <1>2, <1>3, <1>4, <1>5, <1>6 DEF IInv
-----------------------------------------------------------------------------
(* Steps that end no transaction.                                          *)

\* What the invariant says of one request.
LEMMA OwnFacts ==
  ASSUME IInv, NEW w \in Workers
  PROVE  pc[w] \in Steps /\ req[w] \in Request /\ RequestOK(pc[w], req[w])
BY DEF IInv, TypeOK, RequestsOK

\* A request goes on to step s with r, neither having nor getting a number of a
\* sale; if it writes the business row, it leaves the counters alone.
LEMMA GoOn ==
  ASSUME IInv, NEW w \in Workers, NEW s \in Steps \ {"idle"}, NEW r \in Request,
         pc' = [pc EXCEPT ![w] = s], req' = [req EXCEPT ![w] = r],
         UNCHANGED <<business, document>>, RequestOK(s, r),
         pc[w] \notin {"number", "commit"}, s \in {"number", "commit"} => r.kind # "SALES",
         \/ /\ lock' = lock
            /\ draft'.next = draft.next /\ draft'.exists = draft.exists
         \/ /\ CanWrite(w) /\ lock' = w
            /\ draft'.next = Row(w).next /\ draft'.exists = Row(w).exists
  PROVE  /\ RequestsOK' /\ LockOK' /\ Numbered'
         /\ pc' \in [Workers -> Steps] /\ req' \in [Workers -> Request] /\ lock' \in Owners
<1> USE NoWorkerAssumption DEF IInv
<1>1. /\ pc'[w] = s /\ req'[w] = r
      /\ \A v \in Workers \ {w} : pc'[v] = pc[v] /\ req'[v] = req[v]
      /\ pc' \in [Workers -> Steps] /\ req' \in [Workers -> Request]
  BY DEF TypeOK
<1>2. RequestsOK'
  BY <1>1 DEF RequestsOK, RequestOK
<1>3. LockOK' /\ lock' \in Owners
  <2>1. pc[w] # "idle" => business.exists
    BY DEF RequestsOK, RequestOK
  <2>2. business'.exists
    BY <1>1, <1>2 DEF RequestsOK, RequestOK
  <2> QED
    BY <1>1, <2>1, <2>2 DEF LockOK, TypeOK, Owners, CanWrite, Row
<1>4. ~Claimed(w) /\ ~Claimed(w)' /\ \A v \in Workers \ {w} : Claimed(v)' = Claimed(v)
  BY <1>1 DEF Claimed
<1>5. NextOK'
  <2>1. ASSUME NEW v \in Workers, Claimed(v)'
        PROVE  /\ lock' = v /\ "SALES" \in Counters
               /\ req'[v].number = business'.next["SALES"] /\ draft'.next["SALES"] = req'[v].number + 1
    <3>1. v # w /\ Claimed(v) /\ req'[v] = req[v]
      BY <2>1, <1>1, <1>4
    <3>2. lock = v
      BY <3>1 DEF NextOK, Numbered
    <3>3. lock' = lock /\ draft'.next = draft.next
      BY <3>1, <3>2 DEF CanWrite
    <3> QED
      BY <3>1, <3>3 DEF NextOK, Numbered
  <2>2. ASSUME lock' \in Workers, ~Claimed(lock)', "SALES" \in Counters
        PROVE  draft'.next["SALES"] = business'.next["SALES"]
    <3>1. CASE lock' = lock /\ draft'.next = draft.next
      BY <2>2, <3>1, <1>4 DEF NextOK, Numbered
    <3>2. CASE CanWrite(w) /\ lock' = w /\ draft'.next = Row(w).next
      BY <2>2, <3>2, <1>4 DEF NextOK, Numbered, Row
    <3> QED
      BY <3>1, <3>2
  <2> QED
    BY <2>1, <2>2 DEF NextOK
<1>6. DocumentsOK'
  <2>1. \A d \in Documents : document[d].by # w
    BY DEF Numbered, DocumentsOK
  <2> QED
    BY <2>1, <1>1 DEF Numbered, DocumentsOK
<1>7. CountOK'
  <2>1. LiveSales' = LiveSales
    BY DEF LiveSales, Live
  <2> QED
    BY <2>1 DEF Numbered, CountOK
<1> QED
  BY <1>1, <1>2, <1>3, <1>5, <1>6, <1>7 DEF Numbered

\* Nothing about the accounts, and nobody comes to pin one that is not there.
LEMMA PinsQuiet ==
  ASSUME IInv, UNCHANGED <<business, draft, lock, account>>,
         \A v \in Workers : pc'[v] = "pin" =>
           \/ pc[v] = "pin" /\ req'[v] = req[v]
           \/ account[Head(req'[v].todo)].st = "live"
  PROVE  PinsOK'
<1> USE DEF IInv
<1>1. ASSUME NEW v \in Workers, pc'[v] = "pin"
      PROVE  account'[Head(req'[v].todo)].st = "live" \/ account'[Head(req'[v].todo)].by = v
  BY <1>1 DEF PinsOK
<1>2. \A r \in Roles : account'[r].by \in Workers <=> account'[r].st = "open"
  BY DEF PinsOK
<1>3. \A r \in Roles : business'.pin[r] => account'[r].st = "live"
  BY DEF PinsOK
<1>4. lock' \in Workers => \A r \in Roles :
        /\ business'.pin[r] => draft'.pin[r]
        /\ draft'.pin[r] => account'[r].st = "live" \/ account'[r].by = lock'
  BY DEF PinsOK
<1> QED
  BY <1>1, <1>2, <1>3, <1>4 DEF PinsOK

\* Nothing about the contacts, and no pin is lost.
LEMMA ContactsQuiet ==
  ASSUME IInv, UNCHANGED contact,
         \A r \in Roles : business.pin[r] => business'.pin[r],
         \A v \in Workers : req[v].kind = "contact" =>
           /\ req'[v].kind = "contact" /\ req'[v].todo = req[v].todo
           /\ \A r \in Roles : Row(v).pin[r] => Row(v)'.pin[r]
  PROVE  ContactsOK'
<1> USE DEF IInv
<1>0. \A c \in Contacts : contact[c].sides \subseteq Roles
  BY DEF TypeOK, ContactRow, Roles
<1>1. ASSUME NEW w \in Workers, NEW c \in Contacts, contact'[c].by = w, NEW x \in contact'[c].sides
      PROVE  \/ \E i \in 1..Len(req'[w].todo) : req'[w].todo[i] = x
             \/ contact'[c].sub[x] # "none" /\ Row(w)'.pin[x]
  <2>1. req[w].kind = "contact" /\ x \in Roles
    BY <1>0, <1>1 DEF ContactsOK
  <2>2. \/ \E i \in 1..Len(req[w].todo) : req[w].todo[i] = x
        \/ contact[c].sub[x] # "none" /\ Row(w).pin[x]
    BY <1>1 DEF ContactsOK
  <2> QED
    BY <2>1, <2>2
<1>2. ASSUME NEW c \in Contacts, contact'[c].st = "live", NEW x \in contact'[c].sides
      PROVE  contact'[c].sub[x] # "none" /\ business'.pin[x]
  BY <1>0, <1>2 DEF ContactsOK
<1>3. \A c \in Contacts : contact'[c].by \notin Workers => contact'[c].st # "open"
  BY DEF ContactsOK
<1>4. \A c \in Contacts : contact'[c].by \in Workers =>
        contact'[c].st = "open" /\ req'[contact'[c].by].kind = "contact"
  BY DEF ContactsOK
<1> QED
  BY <1>1, <1>2, <1>3, <1>4 DEF ContactsOK

-----------------------------------------------------------------------------
(* The end of a transaction.                                               *)

\* What the end of w's transaction leaves: the rows of the others, and w's own
\* or none of them.
LEMMA EndTxRows ==
  ASSUME IInv, NEW w \in Workers, NEW keep \in BOOLEAN, EndTx(w, keep)
  PROVE  /\ account' \in [Roles -> AccountRow]
         /\ \A r \in Roles :
              IF account[r].by # w THEN account'[r] = account[r]
              ELSE /\ account'[r].by = NoWorker
                   /\ (keep => account'[r].st = "live") /\ (~keep => account'[r].st = "none")
         /\ contact' \in [Contacts -> ContactRow]
         /\ \A c \in Contacts :
              IF contact[c].by # w THEN contact'[c] = contact[c]
              ELSE /\ contact'[c].by = NoWorker
                   /\ (keep => contact'[c].st = "live") /\ (~keep => contact'[c].st = "none")
                   /\ keep => contact'[c].sides = contact[c].sides /\ contact'[c].sub = contact[c].sub
         /\ document' \in [Documents -> DocumentRow]
         /\ \A d \in Documents :
              IF document[d].by # w THEN document'[d] = document[d]
              ELSE /\ document'[d].by = NoWorker
                   /\ (keep => document'[d].st = "live") /\ (~keep => document'[d].st = "none")
                   /\ keep => document'[d].kind = document[d].kind /\ document'[d].number = document[d].number
<1> USE NoWorkerAssumption DEF IInv, TypeOK
<1>1. /\ account' \in [Roles -> AccountRow]
      /\ \A r \in Roles :
           IF account[r].by # w THEN account'[r] = account[r]
           ELSE /\ account'[r].by = NoWorker
                /\ (keep => account'[r].st = "live") /\ (~keep => account'[r].st = "none")
  <2>1. account' = [r \in Roles |-> IF account[r].by # w THEN account[r]
                     ELSE IF keep THEN [account[r] EXCEPT !.st = "live", !.by = NoWorker] ELSE NoAccount]
    BY DEF EndTx, Ended
  <2>2. NoAccount \in AccountRow
    BY DEF NoAccount, AccountRow, States, Owners
  <2>3. \A r \in Roles : account[r] \in AccountRow
    OBVIOUS
  <2>4. \A r \in Roles : [account[r] EXCEPT !.st = "live", !.by = NoWorker] \in AccountRow
    BY <2>3 DEF AccountRow, States, Owners
  <2>5. \A r \in Roles : /\ [account[r] EXCEPT !.st = "live", !.by = NoWorker].st = "live"
                         /\ [account[r] EXCEPT !.st = "live", !.by = NoWorker].by = NoWorker
    BY <2>3 DEF AccountRow
  <2> QED
    BY <2>1, <2>2, <2>3, <2>4, <2>5 DEF NoAccount
<1>2. /\ contact' \in [Contacts -> ContactRow]
      /\ \A c \in Contacts :
           IF contact[c].by # w THEN contact'[c] = contact[c]
           ELSE /\ contact'[c].by = NoWorker
                /\ (keep => contact'[c].st = "live") /\ (~keep => contact'[c].st = "none")
                /\ keep => contact'[c].sides = contact[c].sides /\ contact'[c].sub = contact[c].sub
  <2>1. contact' = [c \in Contacts |-> IF contact[c].by # w THEN contact[c]
                     ELSE IF keep THEN [contact[c] EXCEPT !.st = "live", !.by = NoWorker] ELSE NoContact]
    BY DEF EndTx, Ended
  <2>2. NoContact \in ContactRow
    BY DEF NoContact, ContactRow, States, Owners
  <2>3. \A c \in Contacts : contact[c] \in ContactRow
    OBVIOUS
  <2>4. \A c \in Contacts : [contact[c] EXCEPT !.st = "live", !.by = NoWorker] \in ContactRow
    BY <2>3 DEF ContactRow, States, Owners
  <2>5. \A c \in Contacts : /\ [contact[c] EXCEPT !.st = "live", !.by = NoWorker].st = "live"
                            /\ [contact[c] EXCEPT !.st = "live", !.by = NoWorker].by = NoWorker
                            /\ [contact[c] EXCEPT !.st = "live", !.by = NoWorker].sides = contact[c].sides
                            /\ [contact[c] EXCEPT !.st = "live", !.by = NoWorker].sub = contact[c].sub
    BY <2>3 DEF ContactRow
  <2> QED
    BY <2>1, <2>2, <2>3, <2>4, <2>5 DEF NoContact
<1>3. /\ document' \in [Documents -> DocumentRow]
      /\ \A d \in Documents :
           IF document[d].by # w THEN document'[d] = document[d]
           ELSE /\ document'[d].by = NoWorker
                /\ (keep => document'[d].st = "live") /\ (~keep => document'[d].st = "none")
                /\ keep => document'[d].kind = document[d].kind /\ document'[d].number = document[d].number
  <2>1. document' = [d \in Documents |-> IF document[d].by # w THEN document[d]
                     ELSE IF keep THEN [document[d] EXCEPT !.st = "live", !.by = NoWorker] ELSE NoDocument]
    BY DEF EndTx, Ended
  <2>2. NoDocument \in DocumentRow
    BY DEF NoDocument, DocumentRow, States, Owners, DocumentKinds
  <2>3. \A d \in Documents : document[d] \in DocumentRow
    OBVIOUS
  <2>4. \A d \in Documents : [document[d] EXCEPT !.st = "live", !.by = NoWorker] \in DocumentRow
    BY <2>3 DEF DocumentRow, States, Owners
  <2>5. \A d \in Documents : /\ [document[d] EXCEPT !.st = "live", !.by = NoWorker].st = "live"
                             /\ [document[d] EXCEPT !.st = "live", !.by = NoWorker].by = NoWorker
                             /\ [document[d] EXCEPT !.st = "live", !.by = NoWorker].kind = document[d].kind
                             /\ [document[d] EXCEPT !.st = "live", !.by = NoWorker].number = document[d].number
    BY <2>3 DEF DocumentRow
  <2> QED
    BY <2>1, <2>2, <2>3, <2>4, <2>5 DEF NoDocument
<1> QED
  BY <1>1, <1>2, <1>3

\* ... and the others' requests and lock.
LEMMA EndTxRequests ==
  ASSUME IInv, NEW w \in Workers, NEW keep \in BOOLEAN, EndTx(w, keep),
         business.exists => business'.exists, lock # w => draft' = draft
  PROVE  /\ pc' \in [Workers -> Steps] /\ req' \in [Workers -> Request] /\ lock' \in Owners
         /\ pc'[w] = "idle" /\ req'[w] = NoRequest
         /\ \A v \in Workers \ {w} : pc'[v] = pc[v] /\ req'[v] = req[v]
         /\ lock' # w /\ (lock' = lock \/ lock' = NoWorker) /\ (lock # w => lock' = lock)
         /\ ~Claimed(w)' /\ \A v \in Workers \ {w} : Claimed(v)' = Claimed(v)
         /\ RequestsOK' /\ LockOK'
<1> USE NoWorkerAssumption DEF IInv
<1>1. /\ pc' = [pc EXCEPT ![w] = "idle"] /\ req' = [req EXCEPT ![w] = NoRequest]
      /\ lock' = IF lock = w THEN NoWorker ELSE lock
  BY DEF EndTx, Goto
<1>2. /\ pc' \in [Workers -> Steps] /\ req' \in [Workers -> Request] /\ lock' \in Owners
      /\ pc'[w] = "idle" /\ req'[w] = NoRequest
      /\ \A v \in Workers \ {w} : pc'[v] = pc[v] /\ req'[v] = req[v]
      /\ lock' # w /\ (lock' = lock \/ lock' = NoWorker) /\ (lock # w => lock' = lock)
  BY <1>1, RequestType DEF TypeOK, Owners, Steps
<1>3. ~Claimed(w)' /\ \A v \in Workers \ {w} : Claimed(v)' = Claimed(v)
  BY <1>2 DEF Claimed
<1>4. RequestsOK'
  <2>1. ASSUME NEW v \in Workers PROVE RequestOK(pc[v], req[v])'
    <3>1. CASE v = w
      BY <1>2, <3>1, RequestType DEF RequestOK, Resolving
    <3>2. CASE v # w
      BY <1>2, <3>2 DEF RequestsOK, RequestOK
    <3> QED
      BY <3>1, <3>2
  <2> QED
    BY <2>1 DEF RequestsOK
<1>5. LockOK'
  BY <1>2 DEF LockOK
<1> QED
  BY <1>2, <1>3, <1>4, <1>5

\* A rollback takes nothing from anybody but w.
LEMMA RollbackInv ==
  ASSUME IInv, NEW w \in Workers, Rollback(w)
  PROVE  IInv'
<1> USE NoWorkerAssumption DEF IInv
<1>1. EndTx(w, FALSE) /\ business' = business /\ draft' = IF lock = w THEN business ELSE draft
  BY DEF Rollback
<1>2. /\ account' \in [Roles -> AccountRow]
      /\ \A r \in Roles : IF account[r].by # w THEN account'[r] = account[r]
                          ELSE account'[r].by = NoWorker /\ account'[r].st = "none"
      /\ contact' \in [Contacts -> ContactRow]
      /\ \A c \in Contacts : IF contact[c].by # w THEN contact'[c] = contact[c]
                             ELSE contact'[c].by = NoWorker /\ contact'[c].st = "none"
      /\ document' \in [Documents -> DocumentRow]
      /\ \A d \in Documents : IF document[d].by # w THEN document'[d] = document[d]
                              ELSE document'[d].by = NoWorker /\ document'[d].st = "none"
  <2>1. FALSE \in BOOLEAN
    OBVIOUS
  <2>2. EndTx(w, FALSE)
    BY <1>1
  <2> HIDE DEF IInv
  <2>3. \A keep \in BOOLEAN : EndTx(w, keep) =>
         /\ account' \in [Roles -> AccountRow]
         /\ contact' \in [Contacts -> ContactRow]
         /\ document' \in [Documents -> DocumentRow]
         /\ \A r \in Roles :
              IF account[r].by # w THEN account'[r] = account[r]
              ELSE account'[r].by = NoWorker /\ (~keep => account'[r].st = "none")
         /\ \A c \in Contacts :
              IF contact[c].by # w THEN contact'[c] = contact[c]
              ELSE contact'[c].by = NoWorker /\ (~keep => contact'[c].st = "none")
         /\ \A d \in Documents :
              IF document[d].by # w THEN document'[d] = document[d]
              ELSE document'[d].by = NoWorker /\ (~keep => document'[d].st = "none")
    BY EndTxRows
  <2> QED
    BY <2>1, <2>2, <2>3
<1>3. /\ pc' \in [Workers -> Steps] /\ req' \in [Workers -> Request] /\ lock' \in Owners
      /\ pc'[w] = "idle" /\ req'[w] = NoRequest
      /\ \A v \in Workers \ {w} : pc'[v] = pc[v] /\ req'[v] = req[v]
      /\ lock' # w /\ (lock' = lock \/ lock' = NoWorker) /\ (lock # w => lock' = lock)
      /\ ~Claimed(w)' /\ \A v \in Workers \ {w} : Claimed(v)' = Claimed(v)
      /\ RequestsOK' /\ LockOK'
  BY <1>1, EndTxRequests
<1>4. lock' \in Workers => lock' = lock /\ draft' = draft /\ lock # w
  BY <1>1, <1>3
<1>5. TypeOK'
  <2>1. business' \in BusinessRow /\ draft' \in BusinessRow
    BY <1>1 DEF TypeOK
  <2> QED
    BY <2>1, <1>2, <1>3, Zenon DEF TypeOK
<1>6. NextOK'
  <2>1. ASSUME NEW v \in Workers, Claimed(v)'
        PROVE  /\ lock' = v /\ "SALES" \in Counters
               /\ req'[v].number = business'.next["SALES"] /\ draft'.next["SALES"] = req'[v].number + 1
    <3>1. v # w /\ Claimed(v) /\ req'[v] = req[v]
      BY <2>1, <1>3
    <3>2. lock = v
      BY <3>1 DEF NextOK, Numbered
    <3> QED
      BY <3>1, <3>2, <1>1, <1>3 DEF NextOK, Numbered
  <2>2. ASSUME lock' \in Workers, ~Claimed(lock)', "SALES" \in Counters
        PROVE  draft'.next["SALES"] = business'.next["SALES"]
    <3>1. ~Claimed(lock)
      BY <2>2, <1>3, <1>4
    <3> QED
      BY <2>2, <3>1, <1>1, <1>4 DEF NextOK, Numbered
  <2> QED
    BY <2>1, <2>2 DEF NextOK
<1>7. DocumentsOK'
  <2>1. \A d \in Documents : document'[d].by \in Workers =>
          document[d].by # w /\ document'[d] = document[d] /\ document[d].by \in Workers \ {w}
    BY <1>2
  <2>2. \A d \in Documents : document'[d].by \notin Workers => document'[d].st # "open"
    BY <1>2 DEF DocumentsOK, Numbered
  <2>3. ASSUME NEW v \in Workers, pc'[v] = "commit", req'[v].kind = "SALES"
        PROVE  \E d \in Documents : document'[d].by = v
    <3>1. v # w
      BY <2>3, <1>3
    <3>2. PICK d \in Documents : document[d].by = v
      BY <2>3, <3>1, <1>3 DEF DocumentsOK, Numbered
    <3> QED
      BY <3>1, <3>2, <1>2
  <2>4. \A d \in Documents : document'[d].by \in Workers =>
          /\ document'[d].st = "open" /\ pc'[document'[d].by] = "commit"
          /\ document'[d].kind = req'[document'[d].by].kind
          /\ document'[d].number = req'[document'[d].by].number
    BY <2>1, <1>3 DEF DocumentsOK, Numbered
  <2>5. \A d, e \in Documents :
          document'[d].by = document'[e].by /\ document'[d].by \in Workers => d = e
    BY <2>1 DEF DocumentsOK, Numbered
  <2> QED
    BY <2>2, <2>3, <2>4, <2>5 DEF DocumentsOK
<1>8. CountOK'
  <2>1. \A d \in Documents : document'[d].st = "live" <=> document[d].st = "live"
    BY <1>2 DEF DocumentsOK, Numbered
  <2>2. \A d \in Documents : document[d].st = "live" => document'[d] = document[d]
    BY <1>2 DEF DocumentsOK, Numbered
  <2>3. DOMAIN document = Documents /\ DOMAIN document' = Documents
    BY <1>5 DEF TypeOK
  <2>4. LiveSales' = LiveSales
    BY <2>1, <2>2, <2>3 DEF LiveSales, Live
  <2> QED
    BY <2>4, <1>1 DEF CountOK, Numbered
<1>9. PinsOK'
  <2>1. \A r \in Roles : account[r].st = "live" => account'[r] = account[r]
    BY <1>2 DEF PinsOK
  <2>2. \A r \in Roles : \A v \in Workers \ {w} : account[r].by = v => account'[r] = account[r]
    BY <1>2
  <2>3. \A r \in Roles : account'[r].by \in Workers <=> account'[r].st = "open"
    BY <1>2 DEF PinsOK
  <2>4. \A r \in Roles : business'.pin[r] => account'[r].st = "live"
    BY <2>1, <1>1 DEF PinsOK
  <2>5. ASSUME lock' \in Workers, NEW r \in Roles
        PROVE  /\ business'.pin[r] => draft'.pin[r]
               /\ draft'.pin[r] => account'[r].st = "live" \/ account'[r].by = lock'
    BY <2>1, <2>2, <2>5, <1>1, <1>4 DEF PinsOK
  <2>6. ASSUME NEW v \in Workers, pc'[v] = "pin"
        PROVE  account'[Head(req'[v].todo)].st = "live" \/ account'[Head(req'[v].todo)].by = v
    <3>1. v # w /\ pc[v] = "pin" /\ req'[v] = req[v]
      BY <2>6, <1>3
    <3>2. req[v].todo \in Seq(Roles) /\ req[v].todo # <<>>
      BY <3>1, OwnFacts DEF Request, RequestOK
    <3>3. Head(req[v].todo) \in Roles
      BY <3>2, HeadTailProperties
    <3>4. account[Head(req[v].todo)].st = "live" \/ account[Head(req[v].todo)].by = v
      BY <3>1 DEF PinsOK
    <3> QED
      BY <3>1, <3>3, <3>4, <2>1, <2>2
  <2> QED
    BY <2>3, <2>4, <2>5, <2>6 DEF PinsOK
<1>10. ContactsOK'
  <2>1. \A c \in Contacts : contact[c].st = "live" => contact'[c] = contact[c]
    BY <1>2 DEF ContactsOK
  <2>2. \A c \in Contacts : contact'[c].by \in Workers =>
          contact[c].by # w /\ contact'[c] = contact[c] /\ contact[c].by \in Workers \ {w}
    BY <1>2
  <2>3. \A c \in Contacts : contact'[c].st = "live" => contact'[c] = contact[c]
    BY <1>2
  <2>4. \A c \in Contacts : contact'[c].by \notin Workers => contact'[c].st # "open"
    BY <1>2 DEF ContactsOK
  <2>5. ASSUME NEW v \in Workers, NEW c \in Contacts, contact'[c].by = v, NEW x \in contact'[c].sides
        PROVE  \/ \E i \in 1..Len(req'[v].todo) : req'[v].todo[i] = x
               \/ contact'[c].sub[x] # "none" /\ Row(v)'.pin[x]
    <3>1. v # w /\ contact'[c] = contact[c] /\ contact[c].by = v /\ req'[v] = req[v]
      BY <2>2, <2>5, <1>3
    <3>2. Row(v)' = Row(v)
      BY <3>1, <1>1, <1>3, <1>4 DEF Row
    <3> QED
      BY <2>5, <3>1, <3>2 DEF ContactsOK
  <2>6. \A c \in Contacts : contact'[c].by \in Workers =>
          contact'[c].st = "open" /\ req'[contact'[c].by].kind = "contact"
    BY <2>2, <1>3 DEF ContactsOK
  <2>7. \A c \in Contacts : contact'[c].st = "live" => \A x \in contact'[c].sides :
          contact'[c].sub[x] # "none" /\ business'.pin[x]
    BY <2>3, <1>1 DEF ContactsOK
  <2> QED
    BY <2>4, <2>5, <2>6, <2>7 DEF ContactsOK
<1> QED
  BY <1>3, <1>5, <1>6, <1>7, <1>8, <1>9, <1>10 DEF Numbered

\* A commit shows what w has pinned, claimed and inserted, all at once.
LEMMA CommitInv ==
  ASSUME IInv, NEW w \in Workers, Commit(w)
  PROVE  IInv'
<1> USE NoWorkerAssumption DEF IInv
<1>1. /\ EndTx(w, TRUE) /\ pc[w] = "commit"
      /\ business' = (IF lock = w THEN draft ELSE business) /\ draft' = draft
  BY DEF Commit, Row
<1>2. /\ account' \in [Roles -> AccountRow]
      /\ \A r \in Roles : IF account[r].by # w THEN account'[r] = account[r]
                          ELSE account'[r].by = NoWorker /\ account'[r].st = "live"
      /\ contact' \in [Contacts -> ContactRow]
      /\ \A c \in Contacts : IF contact[c].by # w THEN contact'[c] = contact[c]
                             ELSE /\ contact'[c].by = NoWorker /\ contact'[c].st = "live"
                                  /\ contact'[c].sides = contact[c].sides /\ contact'[c].sub = contact[c].sub
      /\ document' \in [Documents -> DocumentRow]
      /\ \A d \in Documents : IF document[d].by # w THEN document'[d] = document[d]
                              ELSE /\ document'[d].by = NoWorker /\ document'[d].st = "live"
                                   /\ document'[d].kind = document[d].kind
  <2>1. TRUE \in BOOLEAN
    OBVIOUS
  <2>2. EndTx(w, TRUE)
    BY <1>1
  <2> HIDE DEF IInv
  <2>3. \A keep \in BOOLEAN : EndTx(w, keep) =>
         /\ account' \in [Roles -> AccountRow]
         /\ contact' \in [Contacts -> ContactRow]
         /\ document' \in [Documents -> DocumentRow]
         /\ \A r \in Roles :
              IF account[r].by # w THEN account'[r] = account[r]
              ELSE account'[r].by = NoWorker /\ (keep => account'[r].st = "live")
         /\ \A c \in Contacts :
              IF contact[c].by # w THEN contact'[c] = contact[c]
              ELSE /\ contact'[c].by = NoWorker /\ (keep => contact'[c].st = "live")
                   /\ keep => contact'[c].sides = contact[c].sides /\ contact'[c].sub = contact[c].sub
         /\ \A d \in Documents :
              IF document[d].by # w THEN document'[d] = document[d]
              ELSE /\ document'[d].by = NoWorker /\ (keep => document'[d].st = "live")
                   /\ keep => document'[d].kind = document[d].kind
    BY EndTxRows
  <2> QED
    BY <2>1, <2>2, <2>3
<1>3. business.exists /\ business'.exists
  <2>1. business.exists
    BY <1>1, OwnFacts DEF RequestOK
  <2>2. CASE lock = w
    BY <2>1, <2>2, <1>1 DEF LockOK
  <2>3. CASE lock # w
    BY <2>1, <2>3, <1>1
  <2> QED
    BY <2>1, <2>2, <2>3
<1>4. /\ pc' \in [Workers -> Steps] /\ req' \in [Workers -> Request] /\ lock' \in Owners
      /\ pc'[w] = "idle" /\ req'[w] = NoRequest
      /\ \A v \in Workers \ {w} : pc'[v] = pc[v] /\ req'[v] = req[v]
      /\ lock' # w /\ (lock' = lock \/ lock' = NoWorker) /\ (lock # w => lock' = lock)
      /\ ~Claimed(w)' /\ \A v \in Workers \ {w} : Claimed(v)' = Claimed(v)
      /\ RequestsOK' /\ LockOK'
  BY <1>1, <1>3, EndTxRequests
<1>5. /\ lock' \in Workers => lock' = lock /\ business' = business /\ lock # w
      /\ business' \in BusinessRow
  BY <1>1, <1>4 DEF TypeOK
<1>6. \A r \in Roles : business.pin[r] => business'.pin[r]
  BY <1>1 DEF PinsOK
<1>7. TypeOK'
  <2>1. draft' \in BusinessRow
    BY <1>1 DEF TypeOK
  <2> QED
    BY <2>1, <1>2, <1>4, <1>5, Zenon DEF TypeOK
<1>8. NextOK'
  <2>1. ASSUME NEW v \in Workers, Claimed(v)'
        PROVE  /\ lock' = v /\ "SALES" \in Counters
               /\ req'[v].number = business'.next["SALES"] /\ draft'.next["SALES"] = req'[v].number + 1
    <3>1. v # w /\ Claimed(v) /\ req'[v] = req[v]
      BY <2>1, <1>4
    <3>2. lock = v /\ lock' = v
      BY <3>1, <1>4 DEF NextOK, Numbered
    <3> QED
      BY <3>1, <3>2, <1>1, <1>5 DEF NextOK, Numbered
  <2>2. ASSUME lock' \in Workers, ~Claimed(lock)', "SALES" \in Counters
        PROVE  draft'.next["SALES"] = business'.next["SALES"]
    <3>1. ~Claimed(lock)
      BY <2>2, <1>4, <1>5
    <3> QED
      BY <2>2, <3>1, <1>1, <1>5 DEF NextOK, Numbered
  <2> QED
    BY <2>1, <2>2 DEF NextOK
<1>9. DocumentsOK'
  <2>1. \A d \in Documents : document'[d].by \in Workers =>
          document[d].by # w /\ document'[d] = document[d] /\ document[d].by \in Workers \ {w}
    BY <1>2
  <2>2. \A d \in Documents : document'[d].by \notin Workers => document'[d].st # "open"
    BY <1>2 DEF DocumentsOK, Numbered
  <2>3. ASSUME NEW v \in Workers, pc'[v] = "commit", req'[v].kind = "SALES"
        PROVE  \E d \in Documents : document'[d].by = v
    <3>1. v # w
      BY <2>3, <1>4
    <3>2. PICK d \in Documents : document[d].by = v
      BY <2>3, <3>1, <1>4 DEF DocumentsOK, Numbered
    <3> QED
      BY <3>1, <3>2, <1>2
  <2>4. \A d \in Documents : document'[d].by \in Workers =>
          /\ document'[d].st = "open" /\ pc'[document'[d].by] = "commit"
          /\ document'[d].kind = req'[document'[d].by].kind
          /\ document'[d].number = req'[document'[d].by].number
    BY <2>1, <1>4 DEF DocumentsOK, Numbered
  <2>5. \A d, e \in Documents :
          document'[d].by = document'[e].by /\ document'[d].by \in Workers => d = e
    BY <2>1 DEF DocumentsOK, Numbered
  <2> QED
    BY <2>2, <2>3, <2>4, <2>5 DEF DocumentsOK
<1>10. CountOK'
  <2>1. DOMAIN document = Documents /\ DOMAIN document' = Documents
    BY <1>7 DEF TypeOK
  <2>2. LiveSales' = LiveSales \union {d \in Documents : document[d].by = w /\ document[d].kind = "SALES"}
    <3>1. \A d \in Documents : document[d].by = w => document[d].st = "open" /\ document'[d].st = "live"
      BY <1>2 DEF DocumentsOK, Numbered
    <3>2. \A d \in Documents : document'[d].kind = document[d].kind
      BY <1>2
    <3>3. \A d \in Documents : document[d].by # w => document'[d].st = document[d].st
      BY <1>2
    <3> QED
      BY <2>1, <3>1, <3>2, <3>3 DEF LiveSales, Live
  <2>3. CASE Claimed(w)
    <3>1. PICK d \in Documents : document[d].by = w
      BY <2>3, <1>1 DEF Claimed, DocumentsOK, Numbered
    <3>2. document[d].kind = "SALES" /\ document[d].st = "open"
      BY <2>3, <3>1 DEF Claimed, DocumentsOK, Numbered
    <3>3. LiveSales' = LiveSales \union {d} /\ d \notin LiveSales
      BY <2>2, <3>1, <3>2 DEF DocumentsOK, Numbered, LiveSales, Live
    <3>4. IsFiniteSet(LiveSales') /\ Cardinality(LiveSales') = Cardinality(LiveSales) + 1
      BY <3>3, FS_AddElement DEF CountOK, Numbered
    <3>5. lock = w /\ "SALES" \in Counters /\ draft.next["SALES"] = business.next["SALES"] + 1
      BY <2>3 DEF NextOK, Numbered
    <3>6. business'.next["SALES"] = business.next["SALES"] + 1
      BY <3>5, <1>1
    <3>7. business.next["SALES"] = First + Cardinality(LiveSales) /\ Cardinality(LiveSales) \in Nat
      BY <3>5, FS_CardinalityType DEF CountOK, Numbered
    <3> QED
      BY <3>4, <3>6, <3>7, <1>3, NumbersAssumption DEF CountOK
  <2>4. CASE ~Claimed(w)
    <3>1. req[w].kind # "SALES"
      BY <2>4, <1>1 DEF Claimed
    <3>2. LiveSales' = LiveSales
      BY <3>1, <2>2 DEF DocumentsOK, Numbered
    <3>3. "SALES" \in Counters => business'.next["SALES"] = business.next["SALES"]
      BY <2>4, <1>1 DEF NextOK, Numbered
    <3> QED
      BY <3>2, <3>3, <1>3 DEF CountOK, Numbered
  <2> QED
    BY <2>3, <2>4
<1>11. PinsOK'
  <2>1. \A r \in Roles : account[r].st = "live" \/ account[r].by = w => account'[r].st = "live"
    BY <1>2 DEF PinsOK
  <2>2. \A r \in Roles : \A v \in Workers \ {w} : account[r].by = v => account'[r].by = v
    BY <1>2
  <2>3. \A r \in Roles : account'[r].by \in Workers <=> account'[r].st = "open"
    BY <1>2 DEF PinsOK
  <2>4. \A r \in Roles : business'.pin[r] => account'[r].st = "live"
    BY <2>1, <1>1 DEF PinsOK
  <2>5. ASSUME lock' \in Workers, NEW r \in Roles
        PROVE  /\ business'.pin[r] => draft'.pin[r]
               /\ draft'.pin[r] => account'[r].st = "live" \/ account'[r].by = lock'
    BY <2>1, <2>2, <2>5, <1>1, <1>5 DEF PinsOK
  <2>6. ASSUME NEW v \in Workers, pc'[v] = "pin"
        PROVE  account'[Head(req'[v].todo)].st = "live" \/ account'[Head(req'[v].todo)].by = v
    <3>1. v # w /\ pc[v] = "pin" /\ req'[v] = req[v]
      BY <2>6, <1>4
    <3>2. req[v].todo \in Seq(Roles) /\ req[v].todo # <<>>
      BY <3>1, OwnFacts DEF Request, RequestOK
    <3>3. Head(req[v].todo) \in Roles
      BY <3>2, HeadTailProperties
    <3>4. account[Head(req[v].todo)].st = "live" \/ account[Head(req[v].todo)].by = v
      BY <3>1 DEF PinsOK
    <3> QED
      BY <3>1, <3>3, <3>4, <2>1, <2>2
  <2> QED
    BY <2>3, <2>4, <2>5, <2>6 DEF PinsOK
<1>12. ContactsOK'
  <2>0. \A c \in Contacts : contact[c].sides \subseteq Roles
    BY DEF TypeOK, ContactRow, Roles
  <2>1. \A c \in Contacts : contact'[c].by \in Workers =>
          contact[c].by # w /\ contact'[c] = contact[c] /\ contact[c].by \in Workers \ {w}
    BY <1>2
  <2>2. \A c \in Contacts : contact'[c].by \notin Workers => contact'[c].st # "open"
    BY <1>2 DEF ContactsOK
  <2>3. \A c \in Contacts : contact'[c].by \in Workers =>
          contact'[c].st = "open" /\ req'[contact'[c].by].kind = "contact"
    BY <2>1, <1>4 DEF ContactsOK
  <2>4. ASSUME NEW v \in Workers, NEW c \in Contacts, contact'[c].by = v, NEW x \in contact'[c].sides
        PROVE  \/ \E i \in 1..Len(req'[v].todo) : req'[v].todo[i] = x
               \/ contact'[c].sub[x] # "none" /\ Row(v)'.pin[x]
    <3>1. v # w /\ contact'[c] = contact[c] /\ contact[c].by = v /\ req'[v] = req[v]
      BY <2>1, <2>4, <1>4
    <3>2. \A r \in Roles : Row(v).pin[r] => Row(v)'.pin[r]
      BY <3>1, <1>1, <1>4, <1>5, <1>6 DEF Row
    <3>3. x \in Roles
      BY <2>0, <2>4, <3>1
    <3> QED
      BY <2>4, <3>1, <3>2, <3>3 DEF ContactsOK
  <2>5. ASSUME NEW c \in Contacts, contact'[c].st = "live", NEW x \in contact'[c].sides
        PROVE  contact'[c].sub[x] # "none" /\ business'.pin[x]
    <3>1. CASE contact[c].by # w
      <4>1. contact'[c] = contact[c]
        BY <3>1, <1>2
      <4> QED
        BY <4>1, <2>0, <2>5, <1>6 DEF ContactsOK
    <3>2. CASE contact[c].by = w
      <4>1. contact'[c].sides = contact[c].sides /\ contact'[c].sub = contact[c].sub
        BY <3>2, <1>2
      <4>2. req[w].kind = "contact"
        BY <3>2 DEF ContactsOK
      <4>3. req[w].todo = <<>>
        BY <4>2, <1>1, OwnFacts DEF RequestOK
      <4>4. Len(req[w].todo) = 0
        BY <4>3
      <4>5. ~ \E i \in 1..Len(req[w].todo) : req[w].todo[i] = x
        BY <4>4
      <4>6. contact[c].sub[x] # "none" /\ Row(w).pin[x]
        BY <3>2, <4>1, <4>5, <2>5 DEF ContactsOK
      <4> QED
        BY <4>1, <4>6, <1>1 DEF Row
    <3> QED
      BY <3>1, <3>2
  <2> QED
    BY <2>2, <2>3, <2>4, <2>5 DEF ContactsOK
<1> QED
  BY <1>4, <1>7, <1>8, <1>9, <1>10, <1>11, <1>12 DEF Numbered

-----------------------------------------------------------------------------
(* One lemma per action.                                                   *)

\* A request that begins asks for nothing yet.
LEMMA BeginInv ==
  ASSUME IInv, NEW w \in Workers, NEW r \in Request, NEW s \in Steps \ {"idle"},
         pc[w] = "idle", business.exists, s # "pin",
         req' = [req EXCEPT ![w] = r], Goto(w, s),
         UNCHANGED <<business, draft, lock, account, contact, document>>,
         RequestOK(s, r), s \in {"number", "commit"} => r.kind # "SALES"
  PROVE  IInv'
<1> USE DEF IInv
<1>1. RequestsOK' /\ LockOK' /\ Numbered'
      /\ pc' \in [Workers -> Steps] /\ req' \in [Workers -> Request] /\ lock' \in Owners
  BY GoOn DEF Goto
<1>2. /\ req[w].kind = "none" /\ pc'[w] = s
      /\ \A v \in Workers \ {w} : pc'[v] = pc[v] /\ req'[v] = req[v]
  BY OwnFacts DEF RequestOK, Goto, TypeOK
<1>3. PinsOK'
  BY <1>2, PinsQuiet
<1>4. ContactsOK'
  BY <1>2, ContactsQuiet DEF Row
<1>5. TypeOK'
  BY <1>1 DEF TypeOK
<1> QED
  BY <1>1, <1>3, <1>4, <1>5

LEMMA BeginCloseInv ==
  ASSUME IInv, NEW w \in Workers, BeginClose(w)
  PROVE  IInv'
<1>1. PICK r : r = [kind |-> "close", number |-> 0, todo |-> <<"IncomeSummary", "RetainedEarnings">>]
  OBVIOUS
<1>2. r \in Request /\ (business.exists => RequestOK("resolve", r))
  BY <1>1 DEF Request, RequestOK, Roles, Resolving
<1> QED
  BY <1>1, <1>2, BeginInv DEF BeginClose, Begin, Steps

LEMMA BeginOwnInv ==
  ASSUME IInv, NEW w \in Workers, BeginOwn(w)
  PROVE  IInv'
<1>1. PICK kind \in Counters : Begin(w, kind, 0, <<>>, "claim")
  BY DEF BeginOwn
<1>2. PICK r : r = [kind |-> kind, number |-> 0, todo |-> <<>>]
  OBVIOUS
<1>3. kind \in {"SALES", "ESTIMATE"} /\ <<>> \in Seq(Roles)
  BY CountersAssumption, EmptySeq
<1>4. r \in Request /\ (business.exists => RequestOK("claim", r))
  BY <1>2, <1>3 DEF Request, RequestOK, Resolving, DocumentKinds
<1> QED
  BY <1>1, <1>2, <1>4, BeginInv DEF BeginOwn, Begin, Steps

LEMMA BeginPurchaseInv ==
  ASSUME IInv, NEW w \in Workers, BeginPurchase(w)
  PROVE  IInv'
<1>1. PICK n \in Typed : Begin(w, "PURCHASE", n, <<>>, "number")
  BY DEF BeginPurchase
<1>2. PICK r : r = [kind |-> "PURCHASE", number |-> n, todo |-> <<>>]
  OBVIOUS
<1>3. n \in Nat /\ <<>> \in Seq(Roles)
  BY NumbersAssumption, EmptySeq
<1>4. r \in Request /\ (business.exists => RequestOK("number", r))
  BY <1>2, <1>3 DEF Request, RequestOK, Resolving, DocumentKinds
<1> QED
  BY <1>1, <1>2, <1>4, BeginInv DEF BeginPurchase, Begin, Steps

\* A contact's own row is the request's, with each of its sides still to do.
LEMMA CreateContactInv ==
  ASSUME IInv, NEW w \in Workers, CreateContact(w)
  PROVE  IInv'
<1> USE NoWorkerAssumption DEF IInv
<1>1. PICK c \in Contacts :
        /\ contact[c].st = "none"
        /\ Begin(w, "contact", 0, Asked[c], "resolve")
        /\ contact' = [contact EXCEPT ![c] = [NoContact EXCEPT
                         !.st = "open", !.by = w, !.active = TRUE,
                         !.sides = {Asked[c][i] : i \in DOMAIN Asked[c]}]]
        /\ UNCHANGED <<business, draft, lock, account, document>>
  BY DEF CreateContact
<1>2. PICK r : r = [kind |-> "contact", number |-> 0, todo |-> Asked[c]]
  OBVIOUS
<1>3. Asked[c] \in {<<"AR">>, <<"AP">>, <<"AR", "AP">>}
  BY AskedAssumption
<1>4. Asked[c] \in Seq(Sides) /\ Asked[c] \in Seq(Roles)
  <2>1. \A S : "AR" \in S /\ "AP" \in S =>
          <<"AR">> \in Seq(S) /\ <<"AP">> \in Seq(S) /\ <<"AR", "AP">> \in Seq(S)
    OBVIOUS
  <2>2. "AR" \in Sides /\ "AP" \in Sides /\ "AR" \in Roles /\ "AP" \in Roles
    BY DEF Roles, Sides
  <2> QED
    BY <1>3, <2>1, <2>2
<1>5. r \in Request /\ r.kind = "contact" /\ r.todo = Asked[c]
  BY <1>2, <1>4 DEF Request
<1>6. \A i \in 1..Len(r.todo) : r.todo[i] \in Sides
  BY <1>4, <1>5
<1>7. pc[w] = "idle" /\ business.exists /\ req[w].kind = "none"
  BY <1>1, OwnFacts DEF Begin, RequestOK
<1>8. RequestOK("resolve", r)
  BY <1>5, <1>6, <1>7 DEF RequestOK, Resolving
<1>9. RequestsOK' /\ LockOK' /\ Numbered'
      /\ pc' \in [Workers -> Steps] /\ req' \in [Workers -> Request] /\ lock' \in Owners
  <2>1. /\ pc' = [pc EXCEPT ![w] = "resolve"] /\ req' = [req EXCEPT ![w] = r]
        /\ UNCHANGED <<business, draft, lock, document>>
    BY <1>1, <1>2 DEF Begin, Goto
  <2> QED
    BY <2>1, <1>5, <1>7, <1>8, GoOn DEF Steps
<1>10. /\ pc'[w] = "resolve" /\ req'[w] = r
       /\ \A v \in Workers \ {w} : pc'[v] = pc[v] /\ req'[v] = req[v]
  BY <1>1, <1>2 DEF Begin, Goto, TypeOK
<1>11. PinsOK'
  BY <1>1, <1>10, PinsQuiet
<1>12. PICK row : row = [NoContact EXCEPT !.st = "open", !.by = w, !.active = TRUE,
                           !.sides = {Asked[c][i] : i \in DOMAIN Asked[c]}]
  OBVIOUS
<1>13. /\ row \in ContactRow /\ row.st = "open" /\ row.by = w
       /\ \A x \in row.sides : \E i \in 1..Len(r.todo) : r.todo[i] = x
  <2>1. {Asked[c][i] : i \in DOMAIN Asked[c]} \subseteq Sides
    BY <1>4
  <2> QED
    <3>1. /\ row.st = "open" /\ row.by = w
          /\ row.sides = {Asked[c][i] : i \in DOMAIN Asked[c]}
      BY <1>12 DEF NoContact
    <3>2. row \in ContactRow
      BY <1>12, <2>1 DEF NoContact, ContactRow, States, Owners
    <3>3. DOMAIN Asked[c] = 1..Len(r.todo)
      BY <1>4, <1>5
    <3>4. \A x \in row.sides : \E i \in 1..Len(r.todo) : r.todo[i] = x
      BY <3>1, <3>3, <1>5
    <3> QED
      BY <3>1, <3>2, <3>4
<1>14. /\ contact'[c] = row
       /\ \A e \in Contacts \ {c} : contact'[e] = contact[e]
       /\ contact' \in [Contacts -> ContactRow]
  BY <1>1, <1>12, <1>13 DEF TypeOK
<1>15. TypeOK'
  BY <1>1, <1>9, <1>14 DEF TypeOK
<1>16. ContactsOK'
  <2>1. ASSUME NEW e \in Contacts, e # c
        PROVE  /\ contact'[e] = contact[e] /\ contact[e].by # w
    BY <2>1, <1>7, <1>14 DEF ContactsOK
  <2>2. \A e \in Contacts : contact'[e].by \notin Workers => contact'[e].st # "open"
    BY <2>1, <1>13, <1>14 DEF ContactsOK
  <2>3. \A e \in Contacts : contact'[e].by \in Workers =>
          contact'[e].st = "open" /\ req'[contact'[e].by].kind = "contact"
    BY <2>1, <1>5, <1>10, <1>13, <1>14 DEF ContactsOK
  <2>4. ASSUME NEW v \in Workers, NEW e \in Contacts, contact'[e].by = v, NEW x \in contact'[e].sides
        PROVE  \/ \E i \in 1..Len(req'[v].todo) : req'[v].todo[i] = x
               \/ contact'[e].sub[x] # "none" /\ Row(v)'.pin[x]
    <3>1. CASE e = c
      BY <3>1, <2>4, <1>10, <1>13, <1>14
    <3>2. CASE e # c
      <4>1. v # w /\ req'[v] = req[v] /\ contact'[e] = contact[e]
        BY <3>2, <2>1, <2>4, <1>10
      <4>2. Row(v)' = Row(v)
        BY <1>1 DEF Row
      <4> QED
        BY <4>1, <4>2, <2>4 DEF ContactsOK
    <3> QED
      BY <3>1, <3>2
  <2>5. \A e \in Contacts : contact'[e].st = "live" => \A x \in contact'[e].sides :
          contact'[e].sub[x] # "none" /\ business'.pin[x]
    BY <2>1, <1>1, <1>13, <1>14 DEF ContactsOK
  <2> QED
    BY <2>2, <2>3, <2>4, <2>5 DEF ContactsOK
<1> QED
  BY <1>9, <1>11, <1>15, <1>16

\* A request that resolves accounts: the role it is at, and what is left.
LEMMA Role ==
  ASSUME IInv, NEW w \in Workers, pc[w] \in Resolving, req[w].todo # <<>>
  PROVE  /\ Head(req[w].todo) \in Roles /\ Tail(req[w].todo) \in Seq(Roles)
         /\ req[w].kind = "contact" => Head(req[w].todo) \in Sides
         /\ Len(Tail(req[w].todo)) = Len(req[w].todo) - 1
         /\ \A i \in 1..Len(Tail(req[w].todo)) : Tail(req[w].todo)[i] = req[w].todo[i + 1]
         /\ Len(req[w].todo) \in Nat \ {0} /\ Head(req[w].todo) = req[w].todo[1]
<1>1. req[w].todo \in Seq(Roles) /\ RequestOK(pc[w], req[w])
  BY OwnFacts DEF Request
<1>2. /\ Len(req[w].todo) \in Nat \ {0} /\ Head(req[w].todo) = req[w].todo[1]
      /\ Head(req[w].todo) \in Roles /\ Tail(req[w].todo) \in Seq(Roles)
      /\ Len(Tail(req[w].todo)) = Len(req[w].todo) - 1
      /\ \A i \in 1..Len(Tail(req[w].todo)) : Tail(req[w].todo)[i] = req[w].todo[i + 1]
  BY <1>1, HeadTailProperties, EmptySeq, LenProperties
<1>3. 1 \in 1..Len(req[w].todo)
  BY <1>2
<1> QED
  BY <1>1, <1>2, <1>3 DEF RequestOK

\* The first role is resolved, and its account pinned: the contact stays whole.
LEMMA ResolvedInv ==
  ASSUME IInv, NEW w \in Workers, pc[w] \in {"resolve", "pin"}, req[w].todo # <<>>,
         Resolved(w), UNCHANGED <<business, account, document>>,
         \/ UNCHANGED <<draft, lock>>
         \/ CanWrite(w) /\ Write(w, [Row(w) EXCEPT !.pin[Head(req[w].todo)] = TRUE]),
         Row(w)'.pin[Head(req[w].todo)]
  PROVE  /\ RequestsOK' /\ LockOK' /\ Numbered' /\ TypeOK' /\ ContactsOK'
         /\ pc'[w] = "resolve" /\ \A v \in Workers \ {w} : pc'[v] = pc[v] /\ req'[v] = req[v]
         /\ \A r \in Roles \ {Head(req[w].todo)} : Row(w)'.pin[r] = Row(w).pin[r]
<1> USE NoWorkerAssumption DEF IInv
<1>1. PICK h : h = Head(req[w].todo)
  OBVIOUS
<1>2. PICK r : r = [req[w] EXCEPT !.todo = Tail(@)]
  OBVIOUS
<1>3. /\ h \in Roles /\ Tail(req[w].todo) \in Seq(Roles)
      /\ req[w].kind = "contact" => h \in Sides
      /\ Len(Tail(req[w].todo)) = Len(req[w].todo) - 1
      /\ \A i \in 1..Len(Tail(req[w].todo)) : Tail(req[w].todo)[i] = req[w].todo[i + 1]
      /\ Len(req[w].todo) \in Nat \ {0} /\ h = req[w].todo[1]
  <2>1. pc[w] \in Resolving
    BY DEF Resolving
  <2> QED
    BY <2>1, <1>1, Role
<1>4. req[w] \in Request /\ RequestOK(pc[w], req[w])
  BY OwnFacts
<1>5. /\ r \in Request /\ r.kind = req[w].kind /\ r.todo = Tail(req[w].todo)
  BY <1>2, <1>3, <1>4 DEF Request
<1>6. RequestOK("resolve", r) /\ r.kind \in {"close", "contact"}
  <2>1. req[w].kind \in {"close", "contact"} /\ business.exists
    BY <1>4 DEF RequestOK, Resolving
  <2>2. req[w].kind = "contact" => \A i \in 1..Len(r.todo) : r.todo[i] \in Sides
    <3>1. \A i \in 1..Len(r.todo) : i + 1 \in 1..Len(req[w].todo) /\ r.todo[i] = req[w].todo[i + 1]
      BY <1>3, <1>5
    <3> QED
      BY <3>1, <1>4 DEF RequestOK
  <2> QED
    BY <2>1, <2>2, <1>5 DEF RequestOK, Resolving
<1>7. /\ pc' = [pc EXCEPT ![w] = "resolve"] /\ req' = [req EXCEPT ![w] = r]
      /\ contact' = [c \in Contacts |-> IF contact[c].by = w
                                         THEN [contact[c] EXCEPT !.sub[h] = "active"]
                                         ELSE contact[c]]
  BY <1>1, <1>2 DEF Resolved, Goto, TypeOK
<1>8. /\ pc'[w] = "resolve" /\ req'[w] = r
      /\ \A v \in Workers \ {w} : pc'[v] = pc[v] /\ req'[v] = req[v]
  BY <1>7 DEF TypeOK
<1>9. /\ Row(w) \in BusinessRow /\ Row(w)' \in BusinessRow
      /\ Row(w)'.next = Row(w).next /\ Row(w)'.exists = Row(w).exists
      /\ Row(w)'.pin[h] /\ \A x \in Roles \ {h} : Row(w)'.pin[x] = Row(w).pin[x]
      /\ draft' \in BusinessRow
      /\ \/ UNCHANGED <<draft, lock>>
         \/ CanWrite(w) /\ lock' = w /\ draft' = Row(w)'
  <2>1. Row(w) \in BusinessRow
    BY DEF Row, TypeOK
  <2>2. CASE UNCHANGED <<draft, lock>>
    <3>1. Row(w)' = Row(w)
      BY <2>2 DEF Row
    <3> QED
      BY <2>1, <2>2, <3>1, <1>1 DEF TypeOK
  <2>3. CASE CanWrite(w) /\ Write(w, [Row(w) EXCEPT !.pin[h] = TRUE])
    <3>1. PICK row : row = [Row(w) EXCEPT !.pin[h] = TRUE]
      OBVIOUS
    <3>2. /\ row \in BusinessRow /\ row.next = Row(w).next /\ row.exists = Row(w).exists
          /\ row.pin[h] /\ \A x \in Roles \ {h} : row.pin[x] = Row(w).pin[x]
      BY <2>1, <3>1, <1>3 DEF BusinessRow
    <3>3. lock' = w /\ draft' = row
      BY <2>3, <3>1 DEF Write
    <3>4. Row(w)' = row
      BY <3>3 DEF Row
    <3> QED
      BY <2>1, <2>3, <3>2, <3>3, <3>4
  <2> QED
    BY <2>2, <2>3, <1>1
<1>10. RequestsOK' /\ LockOK' /\ Numbered'
       /\ pc' \in [Workers -> Steps] /\ req' \in [Workers -> Request] /\ lock' \in Owners
  <2>1. pc[w] \notin {"number", "commit"} /\ "resolve" \in Steps \ {"idle"}
    BY DEF Steps
  <2>2. \/ /\ lock' = lock
           /\ draft'.next = draft.next /\ draft'.exists = draft.exists
        \/ /\ CanWrite(w) /\ lock' = w
           /\ draft'.next = Row(w).next /\ draft'.exists = Row(w).exists
    BY <1>9
  <2> QED
    BY <2>1, <2>2, <1>5, <1>6, <1>7, GoOn
<1>11. \A v \in Workers, x \in Roles : Row(v).pin[x] => Row(v)'.pin[x]
  <2>1. ASSUME NEW v \in Workers \ {w} PROVE Row(v)' = Row(v)
    BY <1>9 DEF Row, CanWrite
  <2> QED
    BY <2>1, <1>9
<1>12. /\ contact' \in [Contacts -> ContactRow]
       /\ \A c \in Contacts : contact[c].by # w => contact'[c] = contact[c]
       /\ \A c \in Contacts : contact[c].by = w =>
            /\ contact'[c].st = contact[c].st /\ contact'[c].by = w /\ contact'[c].sides = contact[c].sides
            /\ contact'[c].sub[h] # "none"
            /\ \A x \in Sides \ {h} : contact'[c].sub[x] = contact[c].sub[x]
  <2>1. ASSUME NEW c \in Contacts, contact[c].by = w
        PROVE  /\ contact'[c] \in ContactRow
               /\ contact'[c].st = contact[c].st /\ contact'[c].by = w /\ contact'[c].sides = contact[c].sides
               /\ contact'[c].sub[h] # "none"
               /\ \A x \in Sides \ {h} : contact'[c].sub[x] = contact[c].sub[x]
    <3>1. h \in Sides
      BY <2>1, <1>3 DEF ContactsOK
    <3>2. contact[c] \in ContactRow
      BY DEF TypeOK
    <3>3. PICK row : row = [contact[c] EXCEPT !.sub[h] = "active"]
      OBVIOUS
    <3>4. /\ row \in ContactRow
          /\ row.st = contact[c].st /\ row.by = contact[c].by /\ row.sides = contact[c].sides
          /\ row.sub[h] = "active"
          /\ \A x \in Sides \ {h} : row.sub[x] = contact[c].sub[x]
      BY <3>1, <3>2, <3>3 DEF ContactRow
    <3>5. contact'[c] = row
      BY <2>1, <3>3, <1>7
    <3> QED
      BY <2>1, <3>4, <3>5
  <2>2. ASSUME NEW c \in Contacts, contact[c].by # w
        PROVE  contact'[c] = contact[c] /\ contact'[c] \in ContactRow
    BY <2>2, <1>7 DEF TypeOK
  <2> QED
    BY <2>1, <2>2, <1>7
<1>13. TypeOK'
  BY <1>9, <1>10, <1>12 DEF TypeOK
<1>14. ContactsOK'
  <2>0. \A c \in Contacts : contact[c].sides \subseteq Sides /\ contact[c].sides \subseteq Roles
    BY DEF TypeOK, ContactRow, Roles
  <2>1. \A c \in Contacts : contact'[c].by = contact[c].by /\ contact'[c].st = contact[c].st
                            /\ contact'[c].sides = contact[c].sides
    BY <1>12
  <2>2. \A c \in Contacts : contact'[c].by \notin Workers => contact'[c].st # "open"
    BY <2>1 DEF ContactsOK
  <2>3. \A c \in Contacts : contact'[c].by \in Workers =>
          contact'[c].st = "open" /\ req'[contact'[c].by].kind = "contact"
    BY <2>1, <1>5, <1>8 DEF ContactsOK
  <2>4. ASSUME NEW v \in Workers, NEW c \in Contacts, contact'[c].by = v, NEW x \in contact'[c].sides
        PROVE  \/ \E i \in 1..Len(req'[v].todo) : req'[v].todo[i] = x
               \/ contact'[c].sub[x] # "none" /\ Row(v)'.pin[x]
    <3>0. contact[c].by = v /\ x \in contact[c].sides /\ x \in Sides /\ x \in Roles
      BY <2>0, <2>1, <2>4
    <3>1. \/ \E i \in 1..Len(req[v].todo) : req[v].todo[i] = x
          \/ contact[c].sub[x] # "none" /\ Row(v).pin[x]
      BY <3>0 DEF ContactsOK
    <3>2. CASE v # w
      BY <3>0, <3>1, <3>2, <1>8, <1>11, <1>12
    <3>3. CASE v = w /\ x = h
      BY <3>0, <3>3, <1>9, <1>12
    <3>4. CASE v = w /\ x # h
      <4>1. CASE contact[c].sub[x] # "none" /\ Row(v).pin[x]
        BY <4>1, <3>0, <3>4, <1>11, <1>12
      <4>2. ASSUME NEW i \in 1..Len(req[w].todo), req[w].todo[i] = x
            PROVE  \E j \in 1..Len(r.todo) : r.todo[j] = x
        <5>1. i - 1 \in 1..Len(r.todo)
          BY <4>2, <3>4, <1>3, <1>5
        <5>2. r.todo[i - 1] = x
          BY <4>2, <5>1, <1>3, <1>5
        <5> QED
          BY <5>1, <5>2
      <4> QED
        BY <3>1, <3>4, <4>1, <4>2, <1>8
    <3> QED
      BY <3>2, <3>3, <3>4
  <2>5. ASSUME NEW c \in Contacts, contact'[c].st = "live", NEW x \in contact'[c].sides
        PROVE  contact'[c].sub[x] # "none" /\ business'.pin[x]
    <3>1. contact[c].by # w
      BY <2>1, <2>5 DEF ContactsOK
    <3> QED
      BY <2>5, <3>1, <1>12 DEF ContactsOK
  <2> QED
    BY <2>2, <2>3, <2>4, <2>5 DEF ContactsOK
<1> QED
  BY <1>1, <1>8, <1>9, <1>10, <1>13, <1>14

\* A request changes nothing but its own step.
LEMMA StepInv ==
  ASSUME IInv, NEW w \in Workers, NEW s \in Steps \ {"idle"}, Goto(w, s),
         UNCHANGED <<business, draft, lock, account, contact, document, req>>,
         RequestOK(s, req[w]), pc[w] \in {"resolve", "find"},
         s = "pin" => account[Head(req[w].todo)].st = "live"
  PROVE  IInv'
<1> USE DEF IInv
<1>1. /\ req[w] \in Request /\ req' = [req EXCEPT ![w] = req[w]]
      /\ pc' = [pc EXCEPT ![w] = s] /\ pc'[w] = s
      /\ \A v \in Workers \ {w} : pc'[v] = pc[v]
  BY DEF Goto, TypeOK
<1>2. req[w].kind # "SALES"
  BY OwnFacts DEF RequestOK, Resolving
<1>3. RequestsOK' /\ LockOK' /\ Numbered'
      /\ pc' \in [Workers -> Steps] /\ req' \in [Workers -> Request] /\ lock' \in Owners
  BY <1>1, <1>2, GoOn
<1>4. PinsOK'
  BY <1>1, PinsQuiet
<1>5. ContactsOK'
  BY ContactsQuiet DEF Row
<1>6. TypeOK'
  BY <1>3 DEF TypeOK
<1> QED
  BY <1>3, <1>4, <1>5, <1>6

LEMMA ReadBusinessInv ==
  ASSUME IInv, NEW w \in Workers, ReadBusiness(w)
  PROVE  IInv'
<1>1. pc[w] = "resolve" /\ UNCHANGED <<business, draft, lock, account, document>>
  BY DEF ReadBusiness
<1>2. RequestOK("resolve", req[w])
  BY <1>1, OwnFacts
<1>3. CASE req[w].todo = <<>> /\ Goto(w, "commit") /\ UNCHANGED <<contact, req>>
  <2>1. RequestOK("commit", req[w])
    BY <1>2, <1>3 DEF RequestOK, Resolving
  <2> QED
    BY <1>1, <1>3, <2>1, StepInv DEF Steps
<1>4. CASE req[w].todo # <<>> /\ ~Row(w).pin[Head(req[w].todo)] /\ Goto(w, "find")
           /\ UNCHANGED <<contact, req>>
  <2>1. RequestOK("find", req[w])
    BY <1>2, <1>4 DEF RequestOK, Resolving
  <2> QED
    BY <1>1, <1>4, <2>1, StepInv DEF Steps
<1>5. CASE req[w].todo # <<>> /\ Row(w).pin[Head(req[w].todo)] /\ Resolved(w)
  <2>1. Row(w)'.pin[Head(req[w].todo)]
    BY <1>1, <1>5 DEF Row
  <2>2. /\ RequestsOK' /\ LockOK' /\ Numbered' /\ TypeOK' /\ ContactsOK'
        /\ pc'[w] = "resolve" /\ \A v \in Workers \ {w} : pc'[v] = pc[v] /\ req'[v] = req[v]
    BY <1>1, <1>5, <2>1, ResolvedInv
  <2>3. PinsOK'
    BY <1>1, <2>2, PinsQuiet
  <2> QED
    BY <2>2, <2>3 DEF IInv
<1> QED
  BY <1>3, <1>4, <1>5 DEF ReadBusiness

LEMMA FindAccountInv ==
  ASSUME IInv, NEW w \in Workers, FindAccount(w)
  PROVE  IInv'
<1>1. PICK h : h = Head(req[w].todo)
  OBVIOUS
<1>2. pc[w] = "find" /\ RequestOK("find", req[w])
  BY OwnFacts DEF FindAccount
<1>3. CASE account[h].st = "live" /\ ~account[h].usable
  BY <1>1, <1>3, RollbackInv DEF FindAccount
<1>4. CASE account[h].st = "live" /\ account[h].usable
  <2>1. RequestOK("pin", req[w])
    BY <1>2 DEF RequestOK, Resolving
  <2>2. Goto(w, "pin") /\ UNCHANGED <<business, draft, lock, account, contact, document, req>>
    BY <1>1, <1>4 DEF FindAccount
  <2> QED
    BY <1>1, <1>2, <1>4, <2>1, <2>2, StepInv DEF Steps
<1>5. CASE account[h].st # "live"
  <2>1. RequestOK("insert", req[w])
    BY <1>2 DEF RequestOK, Resolving
  <2>2. Goto(w, "insert") /\ UNCHANGED <<business, draft, lock, account, contact, document, req>>
    BY <1>1, <1>5 DEF FindAccount
  <2> QED
    BY <1>2, <2>1, <2>2, StepInv DEF Steps
<1> QED
  BY <1>3, <1>4, <1>5

\* The account is w's until it ends.
LEMMA InsertAccountInv ==
  ASSUME IInv, NEW w \in Workers, InsertAccount(w)
  PROVE  IInv'
<1> USE NoWorkerAssumption DEF IInv
<1>1. PICK h : h = Head(req[w].todo)
  OBVIOUS
<1>2. pc[w] = "insert" /\ RequestOK("insert", req[w]) /\ req[w] \in Request /\ account[h].st # "open"
  BY <1>1, OwnFacts DEF InsertAccount
<1>3. h \in Roles
  BY <1>1, <1>2, Role DEF RequestOK, Resolving
<1>4. CASE account[h].st = "live"
  BY <1>1, <1>4, RollbackInv DEF InsertAccount
<1>5. CASE account[h].st = "none"
  <2>1. PICK row : row = [SystemAccount EXCEPT !.st = "open", !.by = w]
    OBVIOUS
  <2>2. row \in AccountRow /\ row.st = "open" /\ row.by = w
    BY <2>1 DEF SystemAccount, AccountRow, States, Owners
  <2>3. /\ account' = [account EXCEPT ![h] = row] /\ Goto(w, "pin")
        /\ UNCHANGED <<business, draft, lock, contact, document, req>>
    BY <1>1, <1>5, <2>1 DEF InsertAccount
  <2>4. /\ account'[h] = row /\ account' \in [Roles -> AccountRow]
        /\ \A x \in Roles \ {h} : account'[x] = account[x]
    BY <1>3, <2>2, <2>3 DEF TypeOK
  <2>5. /\ req' = [req EXCEPT ![w] = req[w]] /\ pc' = [pc EXCEPT ![w] = "pin"] /\ pc'[w] = "pin"
        /\ \A v \in Workers \ {w} : pc'[v] = pc[v]
    BY <2>3 DEF Goto, TypeOK
  <2>6. RequestOK("pin", req[w]) /\ req[w].kind # "SALES"
    BY <1>2 DEF RequestOK, Resolving
  <2>7. RequestsOK' /\ LockOK' /\ Numbered'
        /\ pc' \in [Workers -> Steps] /\ req' \in [Workers -> Request] /\ lock' \in Owners
    BY <1>2, <2>3, <2>5, <2>6, GoOn DEF Steps
  <2>8. account[h].by \notin Workers /\ ~business.pin[h]
    BY <1>3, <1>5 DEF PinsOK
  <2>9. PinsOK'
    <3>1. \A r \in Roles : account'[r].by \in Workers <=> account'[r].st = "open"
      BY <2>2, <2>4 DEF PinsOK
    <3>2. \A r \in Roles : business'.pin[r] => account'[r].st = "live"
      BY <2>3, <2>4, <2>8 DEF PinsOK
    <3>3. ASSUME lock' \in Workers, NEW r \in Roles
          PROVE  /\ business'.pin[r] => draft'.pin[r]
                 /\ draft'.pin[r] => account'[r].st = "live" \/ account'[r].by = lock'
      BY <3>3, <1>5, <2>3, <2>4, <2>8 DEF PinsOK
    <3>4. ASSUME NEW v \in Workers, pc'[v] = "pin"
          PROVE  account'[Head(req'[v].todo)].st = "live" \/ account'[Head(req'[v].todo)].by = v
      <4>1. CASE v = w
        BY <4>1, <1>1, <2>2, <2>3, <2>4
      <4>2. CASE v # w
        <5>1. pc[v] = "pin" /\ req'[v] = req[v]
          BY <4>2, <3>4, <2>3, <2>5
        <5>2. Head(req[v].todo) \in Roles
          BY <5>1, OwnFacts, Role DEF RequestOK, Resolving
        <5>3. account[Head(req[v].todo)].st = "live" \/ account[Head(req[v].todo)].by = v
          BY <5>1 DEF PinsOK
        <5>4. Head(req[v].todo) # h
          BY <5>3, <1>5, <2>8
        <5> QED
          BY <5>1, <5>2, <5>3, <5>4, <2>4
      <4> QED
        BY <4>1, <4>2
    <3> QED
      BY <3>1, <3>2, <3>3, <3>4 DEF PinsOK
  <2>10. ContactsOK'
    BY <2>3, ContactsQuiet DEF Row
  <2>11. TypeOK'
    BY <2>3, <2>4, <2>7 DEF TypeOK
  <2> QED
    BY <2>7, <2>9, <2>10, <2>11
<1> QED
  BY <1>2, <1>3, <1>4, <1>5 DEF TypeOK, AccountRow, States

\* The pin is w's until it ends, with the account it has inserted or found.
LEMMA PinAccountInv ==
  ASSUME IInv, NEW w \in Workers, PinAccount(w)
  PROVE  IInv'
<1> USE NoWorkerAssumption DEF IInv
<1>1. PICK h : h = Head(req[w].todo)
  OBVIOUS
<1>2. /\ pc[w] = "pin" /\ req[w].todo # <<>> /\ h \in Roles
      /\ account[h].st = "live" \/ account[h].by = w
  <2>1. pc[w] = "pin" /\ RequestOK("pin", req[w])
    BY OwnFacts DEF PinAccount
  <2>2. account[h].st = "live" \/ account[h].by = w
    BY <1>1, <2>1 DEF PinsOK
  <2> QED
    BY <1>1, <2>1, <2>2, Role DEF RequestOK, Resolving
<1>3. /\ business.pin[h] \/ CanWrite(w)
      /\ IF Row(w).pin[h] THEN UNCHANGED <<draft, lock>>
         ELSE Write(w, [Row(w) EXCEPT !.pin[h] = TRUE])
      /\ Resolved(w) /\ UNCHANGED <<business, account, document>>
  BY <1>1 DEF PinAccount
<1>4. \/ UNCHANGED <<draft, lock>> /\ Row(w).pin[h]
      \/ CanWrite(w) /\ Write(w, [Row(w) EXCEPT !.pin[h] = TRUE])
  BY <1>2, <1>3 DEF PinsOK, Row
<1>5. Row(w)'.pin[h]
  <2>1. CASE UNCHANGED <<draft, lock>> /\ Row(w).pin[h]
    BY <2>1, <1>3 DEF Row
  <2>2. CASE Write(w, [Row(w) EXCEPT !.pin[h] = TRUE])
    <3>1. Row(w) \in BusinessRow
      BY DEF Row, TypeOK
    <3> QED
      BY <1>2, <2>2, <3>1 DEF Row, Write, BusinessRow
  <2> QED
    BY <1>4, <2>1, <2>2
<1>6. /\ RequestsOK' /\ LockOK' /\ Numbered' /\ TypeOK' /\ ContactsOK'
      /\ pc'[w] = "resolve" /\ \A v \in Workers \ {w} : pc'[v] = pc[v] /\ req'[v] = req[v]
      /\ \A r \in Roles \ {h} : Row(w)'.pin[r] = Row(w).pin[r]
  BY <1>1, <1>2, <1>3, <1>4, <1>5, ResolvedInv
<1>7. PinsOK'
  <2>1. \A r \in Roles : account'[r].by \in Workers <=> account'[r].st = "open"
    BY <1>3 DEF PinsOK
  <2>2. \A r \in Roles : business'.pin[r] => account'[r].st = "live"
    BY <1>3 DEF PinsOK
  <2>3. ASSUME NEW v \in Workers, pc'[v] = "pin"
        PROVE  account'[Head(req'[v].todo)].st = "live" \/ account'[Head(req'[v].todo)].by = v
    BY <2>3, <1>3, <1>6 DEF PinsOK
  <2>4. ASSUME lock' \in Workers, NEW r \in Roles
        PROVE  /\ business'.pin[r] => draft'.pin[r]
               /\ draft'.pin[r] => account'[r].st = "live" \/ account'[r].by = lock'
    <3>1. CASE UNCHANGED <<draft, lock>>
      BY <2>4, <3>1, <1>3 DEF PinsOK
    <3>2. CASE CanWrite(w) /\ Write(w, [Row(w) EXCEPT !.pin[h] = TRUE])
      <4>1. lock' = w /\ draft' = Row(w)'
        BY <3>2 DEF Write, Row
      <4>2. CASE r = h
        BY <4>1, <4>2, <1>2, <1>3, <1>5
      <4>3. CASE r # h
        <5>1. draft'.pin[r] = Row(w).pin[r]
          BY <4>1, <4>3, <1>6
        <5>2. business.pin[r] => Row(w).pin[r]
          BY DEF PinsOK, Row
        <5>3. Row(w).pin[r] => account[r].st = "live" \/ account[r].by = w
          BY DEF PinsOK, Row
        <5> QED
          BY <4>1, <5>1, <5>2, <5>3, <1>3
      <4> QED
        BY <4>2, <4>3
    <3> QED
      BY <1>4, <3>1, <3>2
  <2> QED
    BY <2>1, <2>2, <2>3, <2>4 DEF PinsOK
<1> QED
  BY <1>6, <1>7

\* Who claims a sale's number holds the lock, so the number is the committed one.
LEMMA ClaimNumberInv ==
  ASSUME IInv, NEW w \in Workers, ClaimNumber(w)
  PROVE  IInv'
<1> USE NoWorkerAssumption, CountersAssumption DEF IInv
<1>1. PICK k : k = req[w].kind
  OBVIOUS
<1>2. /\ pc[w] = "claim" /\ CanWrite(w) /\ Write(w, [Row(w) EXCEPT !.next[k] = @ + 1])
      /\ req' = [req EXCEPT ![w].number = Row(w).next[k]] /\ Goto(w, "number")
      /\ UNCHANGED <<business, account, contact, document>>
  BY <1>1 DEF ClaimNumber
<1>3. req[w] \in Request /\ RequestOK("claim", req[w]) /\ k \in Counters /\ k \in {"SALES", "ESTIMATE"}
  <2>1. req[w] \in Request /\ RequestOK("claim", req[w])
    BY <1>2, OwnFacts
  <2> QED
    BY <2>1, <1>1 DEF RequestOK
<1>4. Row(w) \in BusinessRow /\ Row(w).next[k] \in Nat
  <2>1. Row(w) \in BusinessRow
    BY DEF Row, TypeOK
  <2> QED
    BY <2>1, <1>3 DEF BusinessRow
<1>5. PICK row : row = [Row(w) EXCEPT !.next[k] = @ + 1]
  OBVIOUS
<1>6. /\ row \in BusinessRow /\ row.exists = Row(w).exists /\ row.pin = Row(w).pin
      /\ row.next[k] = Row(w).next[k] + 1
      /\ \A l \in Counters \ {k} : row.next[l] = Row(w).next[l]
  BY <1>3, <1>4, <1>5 DEF BusinessRow
<1>7. PICK r : r = [req[w] EXCEPT !.number = Row(w).next[k]]
  OBVIOUS
<1>8. r \in Request /\ r.kind = k /\ r.number = Row(w).next[k] /\ r.todo = req[w].todo
  BY <1>1, <1>3, <1>4, <1>7 DEF Request
<1>9. RequestOK("number", r)
  BY <1>1, <1>3, <1>8 DEF RequestOK, Resolving, DocumentKinds
<1>10. /\ lock' = w /\ draft' = row /\ Row(w)' = row
       /\ req' = [req EXCEPT ![w] = r] /\ pc' = [pc EXCEPT ![w] = "number"]
  BY <1>2, <1>5, <1>7 DEF Write, Row, Goto, TypeOK
<1>11. /\ pc'[w] = "number" /\ req'[w] = r
       /\ \A v \in Workers \ {w} : pc'[v] = pc[v] /\ req'[v] = req[v]
       /\ pc' \in [Workers -> Steps] /\ req' \in [Workers -> Request]
  BY <1>8, <1>10 DEF TypeOK, Steps
<1>12. TypeOK'
  BY <1>2, <1>6, <1>10, <1>11 DEF TypeOK, Owners
<1>13. RequestsOK'
  <2>1. RequestOK(pc[w], req[w])'
    BY <1>2, <1>9, <1>11 DEF RequestOK
  <2>2. ASSUME NEW v \in Workers \ {w} PROVE RequestOK(pc[v], req[v])'
    <3>1. RequestOK(pc[v], req[v])
      BY DEF RequestsOK
    <3> QED
      BY <3>1, <1>2, <1>11 DEF RequestOK
  <2> QED
    BY <2>1, <2>2 DEF RequestsOK
<1>14. Row(w).exists
  <2>1. business.exists
    BY <1>3 DEF RequestOK
  <2> QED
    BY <2>1 DEF Row, LockOK
<1>15. LockOK'
  BY <1>6, <1>10, <1>11, <1>14 DEF LockOK
<1>16. ~Claimed(w) /\ \A v \in Workers : ~Claimed(v)
  BY <1>2 DEF Claimed, NextOK, Numbered, CanWrite
<1>17. "SALES" \in Counters => Row(w).next["SALES"] = business.next["SALES"]
  BY <1>16 DEF NextOK, Numbered, Row
<1>18. NextOK'
  <2>1. \A v \in Workers \ {w} : ~Claimed(v)'
    BY <1>11, <1>16 DEF Claimed
  <2>2. CASE k = "SALES"
    <3>1. /\ "SALES" \in Counters /\ r.number = business.next["SALES"]
          /\ row.next["SALES"] = r.number + 1
      BY <2>2, <1>3, <1>6, <1>8, <1>17
    <3>2. Claimed(w)'
      BY <2>2, <1>8, <1>11 DEF Claimed
    <3> QED
      BY <2>1, <3>1, <3>2, <1>2, <1>10, <1>11 DEF NextOK
  <2>3. CASE k # "SALES"
    <3>1. "SALES" \in Counters => row.next["SALES"] = business.next["SALES"]
      BY <2>3, <1>6, <1>17
    <3>2. ~Claimed(w)'
      BY <2>3, <1>8, <1>11 DEF Claimed
    <3> QED
      BY <2>1, <3>1, <3>2, <1>2, <1>10 DEF NextOK
  <2> QED
    BY <2>2, <2>3
<1>19. DocumentsOK'
  <2>1. \A d \in Documents : document[d].by # w
    BY <1>2 DEF Numbered, DocumentsOK
  <2> QED
    BY <2>1, <1>2, <1>11 DEF Numbered, DocumentsOK
<1>20. CountOK'
  <2>1. LiveSales' = LiveSales
    BY <1>2 DEF LiveSales, Live
  <2> QED
    BY <2>1, <1>2 DEF Numbered, CountOK
<1>21. PinsOK'
  <2>1. \A x \in Roles : account'[x].by \in Workers <=> account'[x].st = "open"
    BY <1>2 DEF PinsOK
  <2>2. \A x \in Roles : business'.pin[x] => account'[x].st = "live"
    BY <1>2 DEF PinsOK
  <2>3. ASSUME NEW v \in Workers, pc'[v] = "pin"
        PROVE  account'[Head(req'[v].todo)].st = "live" \/ account'[Head(req'[v].todo)].by = v
    BY <2>3, <1>2, <1>11 DEF PinsOK
  <2>4. ASSUME NEW x \in Roles
        PROVE  /\ business'.pin[x] => draft'.pin[x]
               /\ draft'.pin[x] => account'[x].st = "live" \/ account'[x].by = lock'
    <3>1. draft'.pin[x] = Row(w).pin[x]
      BY <1>6, <1>10
    <3>2. business.pin[x] => Row(w).pin[x]
      BY DEF PinsOK, Row
    <3>3. Row(w).pin[x] => account[x].st = "live" \/ account[x].by = w
      BY DEF PinsOK, Row
    <3> QED
      BY <3>1, <3>2, <3>3, <1>2, <1>10
  <2> QED
    BY <2>1, <2>2, <2>3, <2>4 DEF PinsOK
<1>22. ContactsOK'
  <2>1. ASSUME NEW v \in Workers, req[v].kind = "contact"
        PROVE  /\ req'[v].kind = "contact" /\ req'[v].todo = req[v].todo
               /\ \A x \in Roles : Row(v).pin[x] => Row(v)'.pin[x]
    <3>1. v # w /\ req'[v] = req[v]
      BY <2>1, <1>1, <1>3, <1>11
    <3>2. Row(v)' = Row(v)
      BY <3>1, <1>2, <1>10 DEF Row, CanWrite
    <3> QED
      BY <2>1, <3>1, <3>2
  <2> QED
    BY <2>1, <1>2, ContactsQuiet
<1> QED
  BY <1>12, <1>13, <1>15, <1>18, <1>19, <1>20, <1>21, <1>22 DEF Numbered

LEMMA InsertDocumentInv ==
  ASSUME IInv, NEW w \in Workers, InsertDocument(w)
  PROVE  IInv'
<1> USE NoWorkerAssumption DEF IInv
<1>1. pc[w] = "number" /\ req[w] \in Request /\ RequestOK("number", req[w])
  BY OwnFacts DEF InsertDocument
<1>2. CASE Clashes(w) # {}
  BY <1>2, RollbackInv DEF InsertDocument
<1>3. CASE Clashes(w) = {}
  <2>1. PICK d : d = CHOOSE e \in Documents : document[e].st = "none"
    OBVIOUS
  <2>2. PICK row : row = [st |-> "open", by |-> w, kind |-> req[w].kind, number |-> req[w].number]
    OBVIOUS
  <2>3. /\ \E e \in Documents : document[e].st = "none"
        /\ document' = [document EXCEPT ![d] = row] /\ Goto(w, "commit")
        /\ UNCHANGED <<business, draft, lock, account, contact, req>>
    BY <1>3, <2>1, <2>2 DEF InsertDocument
  <2>4. d \in Documents /\ document[d].st = "none"
    BY <2>1, <2>3
  <2>5. row \in DocumentRow /\ row.st = "open" /\ row.by = w
        /\ row.kind = req[w].kind /\ row.number = req[w].number
    BY <1>1, <2>2 DEF DocumentRow, Request, RequestOK, States, Owners
  <2>6. /\ document'[d] = row /\ document' \in [Documents -> DocumentRow]
        /\ \A e \in Documents \ {d} : document'[e] = document[e]
    BY <2>3, <2>4, <2>5 DEF TypeOK
  <2>7. /\ pc'[w] = "commit" /\ pc' \in [Workers -> Steps]
        /\ \A v \in Workers \ {w} : pc'[v] = pc[v]
    BY <2>3 DEF Goto, TypeOK, Steps
  <2>8. TypeOK'
    BY <2>3, <2>6, <2>7 DEF TypeOK
  <2>9. RequestOK("commit", req[w])
    BY <1>1 DEF RequestOK, Resolving, DocumentKinds
  <2>10. RequestsOK' /\ LockOK'
    <3>1. RequestsOK'
      BY <2>3, <2>7, <2>9 DEF RequestsOK, RequestOK
    <3>2. LockOK'
      BY <2>3, <2>7 DEF LockOK
    <3> QED
      BY <3>1, <3>2
  <2>11. NextOK'
    <3>1. \A v \in Workers : Claimed(v)' = Claimed(v)
      BY <1>1, <2>3, <2>7 DEF Claimed
    <3> QED
      BY <3>1, <2>3 DEF NextOK, Numbered
  <2>12. \A e \in Documents : document[e].by # w
    BY <1>1 DEF Numbered, DocumentsOK
  <2>13. DocumentsOK'
    <3>1. \A e \in Documents : document'[e].by \notin Workers => document'[e].st # "open"
      BY <2>5, <2>6 DEF DocumentsOK, Numbered
    <3>2. \A e \in Documents : document'[e].by \in Workers =>
            /\ document'[e].st = "open" /\ pc'[document'[e].by] = "commit"
            /\ document'[e].kind = req'[document'[e].by].kind
            /\ document'[e].number = req'[document'[e].by].number
      BY <2>3, <2>5, <2>6, <2>7, <2>12 DEF DocumentsOK, Numbered
    <3>3. \A e, f \in Documents :
            document'[e].by = document'[f].by /\ document'[e].by \in Workers => e = f
      BY <2>5, <2>6, <2>12 DEF DocumentsOK, Numbered
    <3>4. ASSUME NEW v \in Workers, pc'[v] = "commit", req'[v].kind = "SALES"
          PROVE  \E e \in Documents : document'[e].by = v
      <4>1. CASE v = w
        BY <4>1, <2>4, <2>5, <2>6
      <4>2. CASE v # w
        <5>1. PICK e \in Documents : document[e].by = v
          BY <3>4, <4>2, <2>3, <2>7 DEF DocumentsOK, Numbered
        <5>2. e # d
          BY <5>1, <2>4 DEF DocumentsOK, Numbered
        <5> QED
          BY <5>1, <5>2, <2>6
      <4> QED
        BY <4>1, <4>2
    <3> QED
      BY <3>1, <3>2, <3>3, <3>4 DEF DocumentsOK
  <2>14. CountOK'
    <3>1. DOMAIN document = Documents /\ DOMAIN document' = Documents
      BY <2>8 DEF TypeOK
    <3>2. LiveSales' = LiveSales
      BY <3>1, <2>4, <2>5, <2>6 DEF LiveSales, Live
    <3> QED
      BY <3>2, <2>3 DEF CountOK, Numbered
  <2>15. PinsOK'
    BY <2>3, <2>7, PinsQuiet
  <2>16. ContactsOK'
    BY <2>3, ContactsQuiet DEF Row
  <2> QED
    BY <2>8, <2>10, <2>11, <2>13, <2>14, <2>15, <2>16 DEF Numbered
<1> QED
  BY <1>2, <1>3

\* Whoever changes accounts and contacts by hand creates and keeps them, and
\* touches no row in flight.
LEMMA ByHandInv ==
  ASSUME IInv, UNCHANGED <<business, draft, lock, document, pc, req>>,
         account' \in [Roles -> AccountRow], contact' \in [Contacts -> ContactRow],
         \A r \in Roles :
           /\ account[r].st = "live" => account'[r].st = "live"
           /\ account'[r].by = account[r].by
           /\ account'[r].st = "open" <=> account[r].st = "open",
         \A c \in Contacts :
           /\ contact'[c].st = contact[c].st /\ contact'[c].by = contact[c].by
           /\ contact'[c].sides = contact[c].sides
           /\ \A x \in Sides : contact[c].sub[x] # "none" => contact'[c].sub[x] # "none"
  PROVE  IInv'
<1> USE NoWorkerAssumption DEF IInv
<1>1. TypeOK'
  BY DEF TypeOK
<1>2. RequestsOK' /\ LockOK'
  <2>1. \A v \in Workers : RequestOK(pc[v], req[v])'
    BY DEF RequestsOK, RequestOK
  <2> QED
    BY <2>1 DEF RequestsOK, LockOK
<1>3. Numbered'
  <2>1. \A v \in Workers : Claimed(v)' = Claimed(v)
    BY DEF Claimed
  <2>2. NextOK'
    BY <2>1 DEF NextOK, Numbered
  <2>3. DocumentsOK'
    BY DEF DocumentsOK, Numbered
  <2>4. LiveSales' = LiveSales
    BY DEF LiveSales, Live
  <2>5. CountOK'
    BY <2>4 DEF CountOK, Numbered
  <2> QED
    BY <2>2, <2>3, <2>5 DEF Numbered
<1>4. PinsOK'
  <2>1. \A r \in Roles : account'[r].by \in Workers <=> account'[r].st = "open"
    BY DEF PinsOK
  <2>2. \A r \in Roles : business'.pin[r] => account'[r].st = "live"
    BY DEF PinsOK
  <2>3. lock' \in Workers => \A r \in Roles :
          /\ business'.pin[r] => draft'.pin[r]
          /\ draft'.pin[r] => account'[r].st = "live" \/ account'[r].by = lock'
    BY DEF PinsOK
  <2>4. ASSUME NEW v \in Workers, pc'[v] = "pin"
        PROVE  account'[Head(req'[v].todo)].st = "live" \/ account'[Head(req'[v].todo)].by = v
    <3>1. Head(req[v].todo) \in Roles
      BY <2>4, OwnFacts, Role DEF RequestOK, Resolving
    <3> QED
      BY <2>4, <3>1 DEF PinsOK
  <2> QED
    BY <2>1, <2>2, <2>3, <2>4 DEF PinsOK
<1>5. ContactsOK'
  <2>1. \A c \in Contacts : contact[c].sides \subseteq Sides
    BY DEF TypeOK, ContactRow
  <2>2. \A v \in Workers : Row(v)' = Row(v)
    BY DEF Row
  <2>3. \A c \in Contacts : contact'[c].by \notin Workers => contact'[c].st # "open"
    BY DEF ContactsOK
  <2>4. \A c \in Contacts : contact'[c].by \in Workers =>
          contact'[c].st = "open" /\ req'[contact'[c].by].kind = "contact"
    BY DEF ContactsOK
  <2>5. ASSUME NEW v \in Workers, NEW c \in Contacts, contact'[c].by = v, NEW x \in contact'[c].sides
        PROVE  \/ \E i \in 1..Len(req'[v].todo) : req'[v].todo[i] = x
               \/ contact'[c].sub[x] # "none" /\ Row(v)'.pin[x]
    <3>1. contact[c].by = v /\ x \in contact[c].sides /\ x \in Sides
      BY <2>1, <2>5
    <3> QED
      BY <2>2, <3>1 DEF ContactsOK
  <2>6. ASSUME NEW c \in Contacts, contact'[c].st = "live", NEW x \in contact'[c].sides
        PROVE  contact'[c].sub[x] # "none" /\ business'.pin[x]
    <3>1. contact[c].st = "live" /\ x \in contact[c].sides /\ x \in Sides
      BY <2>1, <2>6
    <3> QED
      BY <3>1 DEF ContactsOK
  <2> QED
    BY <2>3, <2>4, <2>5, <2>6 DEF ContactsOK
<1> QED
  BY <1>1, <1>2, <1>3, <1>4, <1>5

LEMMA CreateLedgerAccountInv ==
  ASSUME IInv, CreateLedgerAccount
  PROVE  IInv'
<1> USE NoWorkerAssumption DEF IInv
<1>1. PICK r \in ByHand, usable \in BOOLEAN :
        /\ account[r].st = "none"
        /\ account' = [account EXCEPT ![r] = [SystemAccount EXCEPT !.usable = usable, !.system = FALSE]]
  BY DEF CreateLedgerAccount
<1>2. UNCHANGED <<business, draft, lock, contact, document, pc, req>>
  BY DEF CreateLedgerAccount
<1>3. PICK row : row = [SystemAccount EXCEPT !.usable = usable, !.system = FALSE]
  OBVIOUS
<1>4. row \in AccountRow /\ row.st = "live" /\ row.by = NoWorker
  BY <1>3 DEF SystemAccount, AccountRow, States, Owners
<1>5. account' \in [Roles -> AccountRow]
  BY <1>1, <1>3, <1>4 DEF TypeOK
<1>6. \A x \in Roles : x # r => account'[x] = account[x]
  BY <1>1 DEF TypeOK
<1>7. r \in Roles => /\ account'[r] = row /\ account[r].st = "none"
                     /\ account[r].by \in Owners /\ account[r].by \notin Workers
  BY <1>1, <1>3 DEF TypeOK, AccountRow, PinsOK
<1>8. \A x \in Roles :
        /\ account[x].st = "live" => account'[x].st = "live"
        /\ account'[x].by = account[x].by
        /\ account'[x].st = "open" <=> account[x].st = "open"
  BY <1>4, <1>6, <1>7 DEF Owners
<1> QED
  BY <1>2, <1>5, <1>8, ByHandInv DEF TypeOK

\* An account in use is changed, not removed.
LEMMA AccountsChange ==
  ASSUME IInv, NEW r, NEW u \in BOOLEAN, account[r].st = "live",
         account' = [account EXCEPT ![r].usable = u],
         UNCHANGED <<business, draft, lock, contact, document, pc, req>>
  PROVE  IInv'
<1> USE DEF IInv
<1>1. \A x \in Roles : account[x] \in AccountRow
  BY DEF TypeOK
<1>2. account' = [x \in Roles |-> IF x = r THEN [account[x] EXCEPT !.usable = u] ELSE account[x]]
  BY DEF TypeOK
<1>3. \A x \in Roles : /\ [account[x] EXCEPT !.usable = u] \in AccountRow
                       /\ [account[x] EXCEPT !.usable = u].st = account[x].st
                       /\ [account[x] EXCEPT !.usable = u].by = account[x].by
  BY <1>1 DEF AccountRow
<1>4. account' \in [Roles -> AccountRow]
      /\ \A x \in Roles : account'[x].st = account[x].st /\ account'[x].by = account[x].by
  BY <1>1, <1>2, <1>3
<1> QED
  BY <1>4, ByHandInv DEF TypeOK

LEMMA UpdateLedgerAccountInv ==
  ASSUME IInv, UpdateLedgerAccount
  PROVE  IInv'
<1>1. PICK r \in ByHand : account[r].st = "live" /\ account' = [account EXCEPT ![r].usable = ~@]
  BY DEF UpdateLedgerAccount
<1>2. UNCHANGED <<business, draft, lock, contact, document, pc, req>>
  BY DEF UpdateLedgerAccount
<1>3. CASE r \notin Roles
  <2>1. account' = account
    BY <1>1, <1>3 DEF IInv, TypeOK
  <2> QED
    BY <1>2, <2>1, ByHandInv DEF IInv, TypeOK
<1>4. CASE r \in Roles
  <2>1. account' = [account EXCEPT ![r].usable = ~account[r].usable]
    BY <1>1
  <2> QED
    BY <1>1, <1>2, <2>1, AccountsChange
<1> QED
  BY <1>3, <1>4

LEMMA DeactivateLedgerAccountInv ==
  ASSUME IInv, DeactivateLedgerAccount
  PROVE  IInv'
<1>1. UNCHANGED <<business, draft, lock, document, pc, req>>
  BY DEF DeactivateLedgerAccount
<1>2. CASE /\ \E r \in ByHand : /\ account[r].st = "live"
                                /\ account' = [account EXCEPT ![r].usable = FALSE]
           /\ UNCHANGED contact
  BY <1>1, <1>2, AccountsChange
<1>3. CASE MayBeDeactivated(TRUE)
  BY <1>3 DEF MayBeDeactivated
<1> QED
  BY <1>2, <1>3 DEF DeactivateLedgerAccount

LEMMA DeactivateContactInv ==
  ASSUME IInv, DeactivateContact
  PROVE  IInv'
<1> USE DEF IInv
<1>1. PICK c \in Contacts : \E zero \in SUBSET contact[c].sides :
        contact' = [contact EXCEPT ![c].active = FALSE,
                      ![c].sub = [s \in Sides |-> IF s \in zero THEN "inactive" ELSE @[s]]]
  BY DEF DeactivateContact
<1>2. PICK zero \in SUBSET contact[c].sides :
        contact' = [contact EXCEPT ![c].active = FALSE,
                      ![c].sub = [s \in Sides |-> IF s \in zero THEN "inactive" ELSE @[s]]]
  BY <1>1
<1>3. UNCHANGED <<business, draft, lock, account, document, pc, req>>
  BY DEF DeactivateContact
<1>4. contact[c] \in ContactRow
  BY DEF TypeOK
<1>5. PICK sub : sub = [s \in Sides |-> IF s \in zero THEN "inactive" ELSE contact[c].sub[s]]
  OBVIOUS
<1>6. /\ sub \in [Sides -> {"none", "active", "inactive"}]
      /\ \A x \in Sides : contact[c].sub[x] # "none" => sub[x] # "none"
  BY <1>4, <1>5 DEF ContactRow
<1>7. PICK row : row = [contact[c] EXCEPT !.active = FALSE, !.sub = sub]
  OBVIOUS
<1>8. /\ row \in ContactRow /\ row.st = contact[c].st /\ row.by = contact[c].by
      /\ row.sides = contact[c].sides /\ row.sub = sub
  BY <1>4, <1>6, <1>7 DEF ContactRow
<1>9. contact'[c] = row
  BY <1>2, <1>4, <1>5, <1>7 DEF TypeOK, ContactRow
<1>10. contact' \in [Contacts -> ContactRow] /\ \A e \in Contacts \ {c} : contact'[e] = contact[e]
  BY <1>2, <1>8, <1>9 DEF TypeOK
<1> QED
  BY <1>3, <1>6, <1>8, <1>9, <1>10, ByHandInv DEF TypeOK

\* The first business comes with all its accounts, before any request.
LEMMA CreateBusinessInv ==
  ASSUME IInv, CreateBusiness
  PROVE  IInv'
<1> USE NoWorkerAssumption, NumbersAssumption DEF IInv
<1>1. /\ ~business.exists /\ business' = NewBusiness(TRUE, TRUE) /\ draft' = business'
      /\ account' = [r \in Roles |-> SystemAccount]
      /\ UNCHANGED <<lock, contact, document, pc, req>>
  BY DEF CreateBusiness
<1>2. \A w \in Workers : pc[w] = "idle" /\ req[w].kind = "none" /\ ~Claimed(w)
  <2>1. \A w \in Workers : pc[w] = "idle"
    BY <1>1, OwnFacts DEF RequestOK
  <2> QED
    BY <2>1, OwnFacts DEF RequestOK, Claimed
<1>3. lock \notin Workers
  BY <1>2 DEF LockOK
<1>4. business' \in BusinessRow /\ business'.exists
      /\ \A k \in Counters : business'.next[k] = First
  BY <1>1 DEF NewBusiness, BusinessRow
<1>5. account' \in [Roles -> AccountRow]
      /\ \A r \in Roles : account'[r].st = "live" /\ account'[r].by = NoWorker
  BY <1>1 DEF SystemAccount, AccountRow, States, Owners
<1>6. TypeOK'
  BY <1>1, <1>4, <1>5 DEF TypeOK
<1>7. RequestsOK' /\ LockOK'
  <2>1. \A w \in Workers : RequestOK(pc[w], req[w])'
    BY <1>1, <1>2, OwnFacts DEF RequestOK, Resolving
  <2> QED
    BY <2>1, <1>1, <1>3 DEF RequestsOK, LockOK
<1>8. Numbered'
  <2>1. NextOK'
    BY <1>1, <1>2, <1>3 DEF NextOK, Claimed
  <2>2. DocumentsOK'
    BY <1>1 DEF DocumentsOK, Numbered
  <2>3. LiveSales' = {}
    BY <1>1 DEF LiveSales, Live, CountOK, Numbered
  <2>4. CountOK'
    BY <2>3, <1>4, FS_EmptySet DEF CountOK
  <2> QED
    BY <2>1, <2>2, <2>4 DEF Numbered
<1>9. PinsOK'
  BY <1>1, <1>2, <1>3, <1>5 DEF PinsOK
<1>10. ContactsOK'
  <2>1. \A c \in Contacts : contact[c].by \notin Workers
    BY <1>2 DEF ContactsOK
  <2>2. \A c \in Contacts : contact[c].sides \subseteq Roles
    BY DEF TypeOK, ContactRow, Roles
  <2>3. \A r \in Roles : business'.pin[r]
    BY <1>1 DEF NewBusiness
  <2>4. \A c \in Contacts : contact'[c].st = "live" => \A x \in contact'[c].sides :
          contact'[c].sub[x] # "none" /\ business'.pin[x]
    BY <2>2, <2>3, <1>1 DEF ContactsOK
  <2> QED
    BY <2>1, <2>4, <1>1 DEF ContactsOK
<1> QED
  BY <1>6, <1>7, <1>8, <1>9, <1>10

-----------------------------------------------------------------------------
(* The theorems.                                                           *)

LEMMA NextInv ==
  ASSUME IInv, Next
  PROVE  IInv'
<1>1. CASE CreateBusiness
  BY <1>1, CreateBusinessInv
<1>2. CASE CreateLedgerAccount
  BY <1>2, CreateLedgerAccountInv
<1>3. CASE UpdateLedgerAccount
  BY <1>3, UpdateLedgerAccountInv
<1>4. CASE DeactivateLedgerAccount
  BY <1>4, DeactivateLedgerAccountInv
<1>5. CASE DeactivateContact
  BY <1>5, DeactivateContactInv
<1>6. ASSUME NEW w \in Workers, BeginClose(w) \/ CreateContact(w) \/ BeginOwn(w) \/ BeginPurchase(w)
      PROVE  IInv'
  BY <1>6, BeginCloseInv, CreateContactInv, BeginOwnInv, BeginPurchaseInv
<1>7. ASSUME NEW w \in Workers, Step(w) \/ Abort(w)
      PROVE  IInv'
  <2>1. CASE ReadBusiness(w)
    BY <2>1, ReadBusinessInv
  <2>2. CASE FindAccount(w)
    BY <2>2, FindAccountInv
  <2>3. CASE InsertAccount(w)
    BY <2>3, InsertAccountInv
  <2>4. CASE PinAccount(w)
    BY <2>4, PinAccountInv
  <2>5. CASE ClaimNumber(w)
    BY <2>5, ClaimNumberInv
  <2>6. CASE InsertDocument(w)
    BY <2>6, InsertDocumentInv
  <2>7. CASE Commit(w)
    BY <2>7, CommitInv
  <2>8. CASE NoDocumentLeft(w) \/ BreakDeadlock(w) \/ Abort(w)
    BY <2>8, RollbackInv DEF NoDocumentLeft, BreakDeadlock, Abort
  <2> QED
    BY <1>7, <2>1, <2>2, <2>3, <2>4, <2>5, <2>6, <2>7, <2>8 DEF Step
<1> QED
  BY <1>1, <1>2, <1>3, <1>4, <1>5, <1>6, <1>7 DEF Next

\* Every state of every behaviour satisfies the inductive invariant: who holds
\* the business row's lock, what is claimed and pinned, what is in flight.
THEOREM InvHolds == Spec => []IInv
<1>1. ASSUME IInv, UNCHANGED vars PROVE IInv'
  <2>1. \A w \in Workers : RequestOK(pc[w], req[w])' = RequestOK(pc[w], req[w])
    BY <1>1 DEF vars, RequestOK
  <2>2. \A w \in Workers : Claimed(w)' = Claimed(w) /\ Row(w)' = Row(w)
    BY <1>1 DEF vars, Claimed, Row
  <2>3. LiveSales' = LiveSales
    BY <1>1 DEF vars, LiveSales, Live
  <2>4. TypeOK'
    BY <1>1 DEF IInv, vars, TypeOK
  <2>5. RequestsOK' /\ LockOK'
    BY <1>1, <2>1 DEF IInv, vars, RequestsOK, LockOK
  <2>6. NextOK' /\ DocumentsOK'
    BY <1>1, <2>2 DEF IInv, vars, Numbered, NextOK, DocumentsOK
  <2>7. CountOK'
    BY <1>1, <2>3 DEF IInv, vars, Numbered, CountOK
  <2>8. PinsOK'
    BY <1>1 DEF IInv, vars, PinsOK
  <2>9. ContactsOK'
    BY <1>1, <2>2 DEF IInv, vars, ContactsOK
  <2> QED
    BY <2>4, <2>5, <2>6, <2>7, <2>8, <2>9 DEF IInv, Numbered
<1> QED
  BY <1>1, InitInv, NextInv, PTL DEF Spec

\* A pinned account exists, and a contact that exists has a sub-account under
\* the pinned account of each of its sides: provision.go and
\* contact_service.go, whichever requests run together and whichever fail.
THEOREM ContactWholeHolds == Spec => []ContactWhole
<1>1. IInv => ContactWhole
  BY DEF IInv, TypeOK, PinsOK, ContactsOK, ContactWhole, Live
<1> QED
  BY <1>1, InvHolds, PTL

-----------------------------------------------------------------------------
(* The numbers of the sales.                                               *)

\* GaplessNumbers counts with the library's operator too.
LEMMA SameCardinality == \A S : Sales!Cardinality(S) = Cardinality(S)
  BY DEF Sales!Cardinality, Cardinality

\* The sales' numbers stay as long as nobody touches the sales.
LEMMA NumbersStay ==
  ASSUME TypeOK, TypeOK', LiveSales' = LiveSales,
         \A d \in LiveSales : document'[d].number = document[d].number
  PROVE  UNCHANGED Numbers("SALES")
<1>1. /\ Numbers("SALES") = [d \in LiveSales |-> document[d].number]
      /\ Numbers("SALES")' = [d \in LiveSales' |-> document'[d].number]
  BY DEF Numbers, LiveSales
<1> QED
  BY <1>1

\* What w has not committed is no sale yet.
LEMMA RollbackSales ==
  ASSUME IInv, NEW w \in Workers, Rollback(w)
  PROVE  UNCHANGED Numbers("SALES")
<1>1. IInv'
  BY RollbackInv
<1>2. EndTx(w, FALSE) /\ FALSE \in BOOLEAN
  BY DEF Rollback
<1>3. \A keep \in BOOLEAN : EndTx(w, keep) =>
        \A d \in Documents : IF document[d].by # w THEN document'[d] = document[d]
                             ELSE ~keep => document'[d].st = "none"
  BY EndTxRows
<1>4. \A d \in Documents : IF document[d].by # w THEN document'[d] = document[d]
                           ELSE document'[d].st = "none"
  BY <1>2, <1>3
<1>5. \A d \in Documents : document[d].st = "live" => document[d].by # w
  BY DEF IInv, Numbered, DocumentsOK
<1>6. DOMAIN document = Documents /\ DOMAIN document' = Documents
  BY <1>1 DEF IInv, TypeOK
<1>7. LiveSales' = LiveSales /\ \A d \in LiveSales : document'[d].number = document[d].number
  BY <1>4, <1>5, <1>6 DEF LiveSales, Live
<1> QED
  BY <1>1, <1>7, NumbersStay DEF IInv

\* A commit issues the next number or none.
LEMMA CommitSales ==
  ASSUME IInv, NEW w \in Workers, Commit(w)
  PROVE  Sales!Issue \/ UNCHANGED Numbers("SALES")
<1> USE NoWorkerAssumption
<1>1. IInv'
  BY CommitInv
<1>2. EndTx(w, TRUE) /\ TRUE \in BOOLEAN /\ pc[w] = "commit"
  BY DEF Commit
<1>3. \A keep \in BOOLEAN : EndTx(w, keep) =>
        \A d \in Documents :
          IF document[d].by # w THEN document'[d] = document[d]
          ELSE keep => /\ document'[d].st = "live" /\ document'[d].kind = document[d].kind
                       /\ document'[d].number = document[d].number
  BY EndTxRows
<1>4. \A d \in Documents :
        IF document[d].by # w THEN document'[d] = document[d]
        ELSE /\ document'[d].st = "live" /\ document'[d].kind = document[d].kind
             /\ document'[d].number = document[d].number
  BY <1>2, <1>3
<1>5. DOMAIN document = Documents /\ DOMAIN document' = Documents
  BY <1>1 DEF IInv, TypeOK
<1>6. \A d \in Documents : document[d].by = w => document[d].st = "open" /\ document[d].kind = req[w].kind
  BY DEF IInv, Numbered, DocumentsOK
<1>7. CASE Claimed(w)
  <2>1. PICK d \in Documents : document[d].by = w
    BY <1>2, <1>7 DEF IInv, Claimed, DocumentsOK, Numbered
  <2>2. /\ document[d].kind = "SALES" /\ document[d].st = "open" /\ "SALES" \in Counters
        /\ document[d].number = business.next["SALES"]
    BY <1>7, <2>1 DEF IInv, Claimed, NextOK, DocumentsOK, Numbered
  <2>3. \A e \in Documents : e # d => document[e].by # w
    BY <2>1 DEF IInv, DocumentsOK, Numbered
  <2>4. d \notin LiveSales /\ LiveSales' = LiveSales \union {d}
        /\ \A e \in LiveSales' : document'[e].number = document[e].number
    BY <1>4, <1>5, <2>1, <2>2, <2>3 DEF LiveSales, Live
  <2>5. document'[d].number = First + Cardinality(LiveSales)
    BY <2>1, <2>2, <1>4 DEF IInv, CountOK, Numbered
  <2>6. /\ Numbers("SALES") = [e \in LiveSales |-> document[e].number]
        /\ Numbers("SALES")' = [e \in LiveSales' |-> document'[e].number]
    BY DEF Numbers, LiveSales
  <2>7. DOMAIN Numbers("SALES") = LiveSales
    BY <2>6
  <2>8. Numbers("SALES")' = [e \in LiveSales \union {d} |->
                               IF e = d THEN First + Cardinality(LiveSales) ELSE Numbers("SALES")[e]]
    BY <2>4, <2>5, <2>6
  <2>9. d \in Documents \ DOMAIN Numbers("SALES")
    BY <2>4, <2>7
  <2>10. Sales!Cardinality(LiveSales) = Cardinality(LiveSales)
    BY SameCardinality, Zenon
  <2>11. Numbers("SALES")' = [e \in DOMAIN Numbers("SALES") \union {d} |->
                IF e = d THEN First + Sales!Cardinality(DOMAIN Numbers("SALES")) ELSE Numbers("SALES")[e]]
    BY <2>7, <2>8, <2>10, Zenon
  <2> QED
    BY <2>9, <2>11, Zenon DEF Sales!Issue
<1>8. CASE ~Claimed(w)
  <2>1. req[w].kind # "SALES"
    BY <1>2, <1>8 DEF Claimed
  <2>2. LiveSales' = LiveSales /\ \A d \in LiveSales : document'[d].number = document[d].number
    BY <1>4, <1>5, <1>6, <2>1 DEF LiveSales, Live
  <2> QED
    BY <1>1, <2>2, NumbersStay DEF IInv
<1> QED
  BY <1>7, <1>8

LEMMA InsertDocumentSales ==
  ASSUME IInv, NEW w \in Workers, InsertDocument(w)
  PROVE  UNCHANGED Numbers("SALES")
<1>1. CASE Clashes(w) # {}
  BY <1>1, RollbackSales DEF InsertDocument
<1>2. CASE Clashes(w) = {}
  <2>1. PICK d \in Documents : /\ document[d].st = "none"
                               /\ \A e \in Documents : e # d => document'[e] = document[e]
                               /\ document'[d].st = "open"
    <3>1. PICK d : d = CHOOSE e \in Documents : document[e].st = "none"
      OBVIOUS
    <3>2. \E e \in Documents : document[e].st = "none"
      BY <1>2 DEF InsertDocument
    <3>3. d \in Documents /\ document[d].st = "none"
      BY <3>1, <3>2
    <3>4. document' = [document EXCEPT ![d] =
                         [st |-> "open", by |-> w, kind |-> req[w].kind, number |-> req[w].number]]
      BY <1>2, <3>1 DEF InsertDocument
    <3> QED
      BY <3>3, <3>4 DEF IInv, TypeOK
  <2>2. IInv'
    BY InsertDocumentInv
  <2>3. DOMAIN document = Documents /\ DOMAIN document' = Documents
    BY <2>2 DEF IInv, TypeOK
  <2>4. LiveSales' = LiveSales /\ \A e \in LiveSales : document'[e].number = document[e].number
    BY <2>1, <2>3 DEF LiveSales, Live
  <2> QED
    BY <2>2, <2>4, NumbersStay DEF IInv
<1> QED
  BY <1>1, <1>2

\* Sales are numbered as GaplessNumbers says, each number once, in the order in
\* which they are committed: ConsumeNextInvoiceNumber in the transaction that
\* inserts the invoice, whatever runs or fails in between.
THEOREM SalesGaplessHolds == Spec => SalesGapless
<1>1. Init => Sales!Init
  <2> SUFFICES ASSUME Init PROVE Numbers("SALES") = <<>>
    BY DEF Sales!Init
  <2>1. Live(document) = {}
    BY DEF Init, Live, NoDocument
  <2>2. Numbers("SALES") = [d \in {} |-> document[d].number]
    BY <2>1 DEF Numbers
  <2> QED
    BY <2>2
<1>2. ASSUME IInv, [Next]_vars PROVE [Sales!Issue]_(Numbers("SALES"))
  <2>1. ASSUME NEW w \in Workers, Commit(w)
        PROVE  [Sales!Issue]_(Numbers("SALES"))
    BY <1>2, <2>1, CommitSales
  <2>2. ASSUME NEW w \in Workers, Rollback(w) \/ InsertDocument(w)
        PROVE  UNCHANGED Numbers("SALES")
    BY <1>2, <2>2, RollbackSales, InsertDocumentSales
  <2>3. CASE UNCHANGED document
    BY <2>3 DEF Numbers, Live
  <2>4. ASSUME NEW w \in Workers, Step(w) \/ Abort(w)
        PROVE  [Sales!Issue]_(Numbers("SALES"))
    <3>1. CASE Commit(w)
      BY <2>1, <3>1
    <3>2. CASE Rollback(w) \/ InsertDocument(w)
      BY <2>2, <3>2
    <3>3. CASE UNCHANGED document
      BY <2>3, <3>3
    <3> QED
      BY <2>4, <3>1, <3>2, <3>3
      DEF Step, Abort, ReadBusiness, FindAccount, InsertAccount, PinAccount, ClaimNumber,
          NoDocumentLeft, BreakDeadlock
  <2>5. ASSUME NEW w \in Workers, BeginClose(w) \/ CreateContact(w) \/ BeginOwn(w) \/ BeginPurchase(w)
        PROVE  [Sales!Issue]_(Numbers("SALES"))
    BY <2>3, <2>5 DEF BeginClose, CreateContact, BeginOwn, BeginPurchase
  <2> QED
    BY <1>2, <2>3, <2>4, <2>5
    DEF Next, vars, CreateBusiness, CreateLedgerAccount, UpdateLedgerAccount,
        DeactivateLedgerAccount, DeactivateContact
<1> QED
  BY <1>1, <1>2, InvHolds, PTL DEF Spec, SalesGapless, Sales!Spec
=============================================================================
