------------------------- MODULE PeriodClose_proofs -------------------------
(***************************************************************************)
(* Theorems about PeriodClose, for every set of workers and ids and every  *)
(* number of dates.                                                        *)
(***************************************************************************)
EXTENDS PeriodCloseInv, PeriodCloseBooks, Reporting, LedgerMath_proofs

\* The id handed out for a new ledger_transaction is a free one.
LEMMA FreshTxnIsFree ==
  ~NoTxnLeft => FreshTxn \in TxnIds /\ txn[FreshTxn].st = "free"
BY DEF NoTxnLeft, FreshTxn

\* The id handed out for a new period_close is a free one.
LEMMA FreshCloseIsFree ==
  ~NoCloseLeft => FreshClose \in CloseIds /\ close[FreshClose].st = "free"
BY DEF NoCloseLeft, FreshClose

\* An empty database, with no request begun, satisfies the invariant.
LEMMA InitInv == Init => IInv
<1> SUFFICES ASSUME Init PROVE IInv
  OBVIOUS
<1> USE DatesAssumption, NullAssumption DEF Init, FreeTxn, FreeClose, NoRequest, Dates
<1>1. RowsOK
  BY DEF RowsOK, TxnRow, CloseRow, Request, Steps
<1>2. OwnersOK /\ ReopensOK /\ EntriesOK /\ KeysUnique /\ UndoOK
  BY DEF OwnersOK, ReopensOK, EntriesOK, KeysUnique, UndoOK
<1> QED
  BY <1>1, <1>2 DEF IInv

\* Moving a ledger_transaction to another transaction state changes nothing
\* else of it.
LEMMA OwnedTxn ==
  ASSUME NEW row \in TxnRow, NEW st \in {"free", "open", "live"},
         NEW by \in Workers \union {NoWorker}
  PROVE  /\ Owned(row, st, by) \in TxnRow
         /\ Owned(row, st, by).st = st /\ Owned(row, st, by).by = by
         /\ Owned(row, st, by).date = row.date /\ Owned(row, st, by).rev = row.rev
BY DEF TxnRow, Owned

\* Moving a period_close to another transaction state changes nothing else of
\* it.
LEMMA OwnedClose ==
  ASSUME NEW row \in CloseRow,
         NEW st \in {"free", "open", "active", "reversing", "reversed"},
         NEW by \in Workers \union {NoWorker}
  PROVE  /\ Owned(row, st, by) \in CloseRow
         /\ Owned(row, st, by).st = st /\ Owned(row, st, by).by = by
         /\ Owned(row, st, by).start = row.start /\ Owned(row, st, by).end = row.end
         /\ Owned(row, st, by).entries = row.entries
BY DEF CloseRow, Owned

\* The free rows and the empty request have their types.
LEMMA NullRows ==
  FreeTxn \in TxnRow /\ FreeClose \in CloseRow /\ NoRequest \in Request
BY DatesAssumption DEF FreeTxn, FreeClose, NoRequest, TxnRow, CloseRow, Request, Dates

\* What a rollback does, row by row.
LEMMA RollbackRows ==
  ASSUME RowsOK, NEW w \in Workers, Rollback(w)
  PROVE  /\ RowsOK'
         /\ \A t \in TxnIds :
              IF t \in Own(w)
              THEN txn'[t].st = "free" /\ txn'[t].by = NoWorker /\ txn'[t].rev = NoTxn
              ELSE txn'[t] = txn[t] /\ entry'[t] = entry[t]
         /\ DOMAIN entry' = TxnIds
         /\ \A c \in CloseIds :
              IF close[c].by # w THEN close'[c] = close[c]
              ELSE /\ close'[c].by = NoWorker
                   /\ IF close[c].st = "open"
                      THEN close'[c].st = "free" /\ close'[c].entries = {}
                      ELSE /\ close'[c].st = "active"
                           /\ close'[c].start = close[c].start /\ close'[c].end = close[c].end
                           /\ close'[c].entries = close[c].entries
         /\ pc' = [pc EXCEPT ![w] = "idle"]
         /\ req' = [req EXCEPT ![w] = NoRequest]
<1>1. txn' \in [TxnIds -> TxnRow]
  BY NullRows DEF RowsOK, Rollback
<1>2. close' \in [CloseIds -> CloseRow]
  <2>1. ASSUME NEW c \in CloseIds
        PROVE  close[c] \in CloseRow /\ Owned(close[c], "active", NoWorker) \in CloseRow
    BY OwnedClose DEF RowsOK
  <2> QED
    BY <2>1, NullRows DEF Rollback
<1>3. pc' \in [Workers -> Steps] /\ req' \in [Workers -> Request]
  BY NullRows DEF RowsOK, Steps, Rollback, Finish, Goto
<1>4. RowsOK'
  BY <1>1, <1>2, <1>3 DEF RowsOK
<1>5. ASSUME NEW t \in TxnIds
      PROVE  IF t \in Own(w)
             THEN txn'[t].st = "free" /\ txn'[t].by = NoWorker /\ txn'[t].rev = NoTxn
             ELSE txn'[t] = txn[t] /\ entry'[t] = entry[t]
  BY DEF FreeTxn, Rollback
<1>6. ASSUME NEW c \in CloseIds
      PROVE  IF close[c].by # w THEN close'[c] = close[c]
             ELSE /\ close'[c].by = NoWorker
                  /\ IF close[c].st = "open"
                     THEN close'[c].st = "free" /\ close'[c].entries = {}
                     ELSE /\ close'[c].st = "active"
                          /\ close'[c].start = close[c].start /\ close'[c].end = close[c].end
                          /\ close'[c].entries = close[c].entries
  <2>1. close[c] \in CloseRow
    BY DEF RowsOK
  <2>2. CASE close[c].by = w /\ close[c].st # "open"
    <3>1. close'[c] = Owned(close[c], "active", NoWorker)
      BY <2>2 DEF Rollback
    <3>2. /\ Owned(close[c], "active", NoWorker).st = "active"
          /\ Owned(close[c], "active", NoWorker).by = NoWorker
          /\ Owned(close[c], "active", NoWorker).start = close[c].start
          /\ Owned(close[c], "active", NoWorker).end = close[c].end
          /\ Owned(close[c], "active", NoWorker).entries = close[c].entries
      BY <2>1 DEF CloseRow, Owned
    <3> QED
      BY <2>2, <3>1, <3>2
  <2>3. CASE close[c].by # w
    BY <2>3 DEF Rollback
  <2>4. CASE close[c].by = w /\ close[c].st = "open"
    <3>1. close'[c] = FreeClose
      BY <2>4 DEF Rollback
    <3> QED
      BY <2>4, <3>1 DEF FreeClose
  <2> QED
    BY <2>2, <2>3, <2>4
<1> QED
  BY <1>4, <1>5, <1>6 DEF Rollback, Finish, Goto

\* Rolling back, at any step and for any reason, preserves the invariant: the
\* rows of others are untouched, and a mark is taken off a close.
LEMMA RollbackInv ==
  ASSUME IInv, NEW w \in Workers, Rollback(w)
  PROVE  IInv'
<1>1. RowsOK
  BY DEF IInv
<1>2. /\ RowsOK'
      /\ \A t \in TxnIds :
           IF txn[t].st = "open" /\ txn[t].by = w
           THEN txn'[t].st = "free" /\ txn'[t].by = NoWorker /\ txn'[t].rev = NoTxn
           ELSE txn'[t] = txn[t] /\ entry'[t] = entry[t]
      /\ DOMAIN entry' = TxnIds
      /\ \A c \in CloseIds :
           IF close[c].by # w THEN close'[c] = close[c]
           ELSE /\ close'[c].by = NoWorker
                /\ IF close[c].st = "open"
                   THEN close'[c].st = "free" /\ close'[c].entries = {}
                   ELSE /\ close'[c].st = "active"
                        /\ close'[c].end = close[c].end
                        /\ close'[c].entries = close[c].entries
      /\ pc' = [pc EXCEPT ![w] = "idle"]
      /\ req' = [req EXCEPT ![w] = NoRequest]
  BY <1>1, RollbackRows DEF Own
<1>3. OwnersOK'
  BY <1>1, <1>2, NullAssumption DEF IInv, RowsOK, OwnersOK, TxnRow, CloseRow
<1>4. ReopensOK'
  BY <1>1, <1>2, NullAssumption DEF IInv, RowsOK, OwnersOK, ReopensOK, TxnRow, CloseRow
<1>5. EntriesOK'
  BY <1>1, <1>2, NullAssumption DEF IInv, RowsOK, OwnersOK, EntriesOK, TxnRow, CloseRow
<1>6. KeysUnique'
  <2>1. ASSUME NEW r1 \in TxnIds, NEW r2 \in TxnIds,
               txn'[r1].rev = txn'[r2].rev, txn'[r1].rev # NoTxn
        PROVE  r1 = r2
    BY <1>2, <2>1 DEF IInv, KeysUnique
  <2>2. ASSUME NEW c \in CloseIds, close'[c].st \in {"open", "active", "reversing"}
        PROVE  /\ close[c].st \in {"open", "active", "reversing"}
               /\ close'[c].end = close[c].end
    BY <1>1, <1>2, <2>2, NullAssumption DEF IInv, RowsOK, OwnersOK, CloseRow
  <2>3. ASSUME NEW c1 \in CloseIds, NEW c2 \in CloseIds,
               close'[c1].st \in {"open", "active", "reversing"},
               close'[c2].st \in {"open", "active", "reversing"},
               close'[c1].end = close'[c2].end
        PROVE  c1 = c2
    BY <2>2, <2>3 DEF IInv, KeysUnique
  <2> QED
    BY <2>1, <2>3 DEF KeysUnique
<1>7. UndoOK'
  <2>1. ASSUME NEW c \in CloseIds, close'[c].st \in {"reversing", "reversed"}
        PROVE  close'[c] = close[c] /\ close[c].by # w
    BY <1>2, <2>1
  <2>2. ASSUME NEW c \in CloseIds, close[c].st \in {"reversing", "reversed"},
               NEW t \in close[c].entries
        PROVE  t \in TxnIds /\ entry'[t] = entry[t]
    BY <1>1, <1>2, <2>2 DEF IInv, RowsOK, EntriesOK, CloseRow
  <2>3. ASSUME NEW c \in CloseIds, close'[c].st = "reversing"
        PROVE  /\ pc'[close'[c].by] = "commit" => req'[close'[c].by].pend = {}
               /\ \A t \in close'[c].entries \ req'[close'[c].by].pend : \E r \in TxnIds :
                    txn'[r].st = "open" /\ txn'[r].by = close'[c].by /\ Undoes(r, t, c)'
    <3>1. /\ close'[c] = close[c] /\ close[c].by \in Workers
          /\ pc'[close[c].by] = pc[close[c].by] /\ req'[close[c].by] = req[close[c].by]
      BY <1>1, <1>2, <2>1, <2>3 DEF IInv, RowsOK, OwnersOK, CloseRow
    <3>2. ASSUME NEW r \in TxnIds, txn[r].st = "open", txn[r].by = close[c].by
          PROVE  txn'[r] = txn[r] /\ entry'[r] = entry[r]
      BY <1>2, <2>1, <2>3, <3>2
    <3> QED
      BY <2>2, <2>3, <3>1, <3>2 DEF IInv, UndoOK, Undoes
  <2>4. ASSUME NEW c \in CloseIds, close'[c].st = "reversed"
        PROVE  \A t \in close'[c].entries : \E r \in TxnIds :
                 txn'[r].st = "live" /\ Undoes(r, t, c)'
    <3>1. ASSUME NEW r \in TxnIds, txn[r].st = "live"
          PROVE  txn'[r] = txn[r] /\ entry'[r] = entry[r]
      BY <1>2, <3>1
    <3> QED
      BY <2>1, <2>2, <2>4, <3>1 DEF IInv, UndoOK, Undoes
  <2> QED
    BY <2>3, <2>4 DEF UndoOK
<1> QED
  BY <1>2, <1>3, <1>4, <1>5, <1>6, <1>7 DEF IInv

\* What a commit does, row by row.
LEMMA CommitRows ==
  ASSUME RowsOK, NEW w \in Workers, Commit(w)
  PROVE  /\ RowsOK'
         /\ \A t \in TxnIds :
              IF t \in Own(w)
              THEN /\ txn'[t].st = "live" /\ txn'[t].by = NoWorker
                   /\ txn'[t].date = txn[t].date /\ txn'[t].rev = txn[t].rev
              ELSE txn'[t] = txn[t]
         /\ \A c \in CloseIds :
              IF close[c].by # w THEN close'[c] = close[c]
              ELSE /\ close'[c].st = IF close[c].st = "open" THEN "active" ELSE "reversed"
                   /\ close'[c].by = NoWorker
                   /\ close'[c].start = close[c].start /\ close'[c].end = close[c].end
                   /\ close'[c].entries = close[c].entries
         /\ pc' = [pc EXCEPT ![w] = "idle"]
         /\ req' = [req EXCEPT ![w] = NoRequest]
         /\ entry' = entry
<1>1. ASSUME NEW t \in TxnIds
      PROVE  /\ txn'[t] \in TxnRow
             /\ IF t \in Own(w)
                THEN /\ txn'[t].st = "live" /\ txn'[t].by = NoWorker
                     /\ txn'[t].date = txn[t].date /\ txn'[t].rev = txn[t].rev
                ELSE txn'[t] = txn[t]
  <2>1. txn[t] \in TxnRow
    BY DEF RowsOK
  <2>2. CASE t \in Own(w)
    <3>1. txn'[t] = Owned(txn[t], "live", NoWorker)
      BY <2>2 DEF Commit
    <3> QED
      BY <2>1, <2>2, <3>1 DEF TxnRow, Owned
  <2>3. CASE t \notin Own(w)
    BY <2>1, <2>3 DEF Commit
  <2> QED
    BY <2>2, <2>3
<1>2. ASSUME NEW c \in CloseIds
      PROVE  /\ close'[c] \in CloseRow
             /\ IF close[c].by # w THEN close'[c] = close[c]
                ELSE /\ close'[c].st = IF close[c].st = "open" THEN "active" ELSE "reversed"
                     /\ close'[c].by = NoWorker
                     /\ close'[c].start = close[c].start /\ close'[c].end = close[c].end
                     /\ close'[c].entries = close[c].entries
  <2>1. close[c] \in CloseRow
    BY DEF RowsOK
  <2>2. CASE close[c].by = w
    <3> DEFINE st == IF close[c].st = "open" THEN "active" ELSE "reversed"
    <3>1. close'[c] = Owned(close[c], st, NoWorker)
      BY <2>2 DEF Commit
    <3>2. st \in {"active", "reversed"}
      OBVIOUS
    <3> HIDE DEF st
    <3>3. /\ close'[c] \in CloseRow
          /\ close'[c].st = st
          /\ close'[c].by = NoWorker
          /\ close'[c].start = close[c].start /\ close'[c].end = close[c].end
          /\ close'[c].entries = close[c].entries
      BY <2>1, <3>1, <3>2 DEF CloseRow, Owned
    <3> QED
      BY <2>2, <3>3 DEF st
  <2>3. CASE close[c].by # w
    BY <2>1, <2>3 DEF Commit
  <2> QED
    BY <2>2, <2>3
<1>3. txn' \in [TxnIds -> TxnRow] /\ close' \in [CloseIds -> CloseRow]
  BY <1>1, <1>2 DEF Commit
<1>4. pc' \in [Workers -> Steps] /\ req' \in [Workers -> Request]
  BY NullRows DEF RowsOK, Steps, Commit, Finish, Goto
<1>5. RowsOK'
  BY <1>3, <1>4 DEF RowsOK
<1> QED
  BY <1>1, <1>2, <1>5 DEF Commit, Finish, Goto

\* Committing preserves the invariant: every row of the request becomes visible
\* in the same step, a close with its postings, a mark with its reversals.
LEMMA CommitInv ==
  ASSUME IInv, NEW w \in Workers, Commit(w)
  PROVE  IInv'
<1>1. RowsOK /\ pc[w] = "commit"
  BY DEF IInv, Commit
<1>2. /\ RowsOK'
      /\ \A t \in TxnIds :
           IF txn[t].st = "open" /\ txn[t].by = w
           THEN /\ txn'[t].st = "live" /\ txn'[t].by = NoWorker
                /\ txn'[t].date = txn[t].date /\ txn'[t].rev = txn[t].rev
           ELSE txn'[t] = txn[t]
      /\ \A c \in CloseIds :
           IF close[c].by # w THEN close'[c] = close[c]
           ELSE /\ close'[c].st = IF close[c].st = "open" THEN "active" ELSE "reversed"
                /\ close'[c].by = NoWorker
                /\ close'[c].end = close[c].end
                /\ close'[c].entries = close[c].entries
      /\ pc' = [pc EXCEPT ![w] = "idle"]
      /\ req' = [req EXCEPT ![w] = NoRequest]
      /\ entry' = entry
  BY <1>1, CommitRows DEF Own
<1>3. OwnersOK'
  BY <1>1, <1>2, NullAssumption DEF IInv, RowsOK, OwnersOK, TxnRow, CloseRow
<1>4. ReopensOK'
  BY <1>1, <1>2, NullAssumption DEF IInv, RowsOK, OwnersOK, ReopensOK, TxnRow, CloseRow
<1>5. EntriesOK'
  BY <1>1, <1>2, NullAssumption DEF IInv, RowsOK, OwnersOK, EntriesOK, TxnRow, CloseRow
<1>6. KeysUnique'
  <2>1. ASSUME NEW r1 \in TxnIds, NEW r2 \in TxnIds,
               txn'[r1].rev = txn'[r2].rev, txn'[r1].rev # NoTxn
        PROVE  r1 = r2
    BY <1>2, <2>1 DEF IInv, KeysUnique
  <2>2. ASSUME NEW c \in CloseIds, close'[c].st \in {"open", "active", "reversing"}
        PROVE  /\ close[c].st \in {"open", "active", "reversing"}
               /\ close'[c].end = close[c].end
    BY <1>1, <1>2, <2>2, NullAssumption DEF IInv, RowsOK, OwnersOK, CloseRow
  <2>3. ASSUME NEW c1 \in CloseIds, NEW c2 \in CloseIds,
               close'[c1].st \in {"open", "active", "reversing"},
               close'[c2].st \in {"open", "active", "reversing"},
               close'[c1].end = close'[c2].end
        PROVE  c1 = c2
    BY <2>2, <2>3 DEF IInv, KeysUnique
  <2> QED
    BY <2>1, <2>3 DEF KeysUnique
<1>7. UndoOK'
  <2>1. ASSUME NEW r \in TxnIds, NEW c \in CloseIds, NEW t, Undoes(r, t, c),
               close[c].st \in {"reversing", "reversed"}
        PROVE  Undoes(r, t, c)'
    BY <1>2, <2>1 DEF Undoes, Negated
  <2>2. ASSUME NEW c \in CloseIds, close'[c].st = "reversing"
        PROVE  /\ pc'[close'[c].by] = "commit" => req'[close'[c].by].pend = {}
               /\ \A t \in close'[c].entries \ req'[close'[c].by].pend : \E r \in TxnIds :
                    txn'[r].st = "open" /\ txn'[r].by = close'[c].by /\ Undoes(r, t, c)'
    <3>1. close'[c] = close[c] /\ close[c].by # w
      BY <1>2, <2>2
    <3>2. /\ close[c].by \in Workers
          /\ pc'[close[c].by] = pc[close[c].by] /\ req'[close[c].by] = req[close[c].by]
      BY <1>1, <1>2, <2>2, <3>1 DEF IInv, RowsOK, OwnersOK, CloseRow
    <3>3. ASSUME NEW r \in TxnIds, txn[r].by = close[c].by
          PROVE  txn'[r] = txn[r]
      BY <1>2, <3>1, <3>3
    <3> QED
      BY <2>1, <2>2, <3>1, <3>2, <3>3 DEF IInv, UndoOK
  <2>3. ASSUME NEW c \in CloseIds, close'[c].st = "reversed", NEW t \in close'[c].entries
        PROVE  \E r \in TxnIds : txn'[r].st = "live" /\ Undoes(r, t, c)'
    <3>1. CASE close[c].by = w
      <4>1. close[c].st = "reversing" /\ t \in close[c].entries
        BY <1>1, <1>2, <2>3, <3>1, NullAssumption DEF IInv, OwnersOK
      <4>2. PICK r \in TxnIds : txn[r].st = "open" /\ txn[r].by = w /\ Undoes(r, t, c)
        BY <1>1, <3>1, <4>1 DEF IInv, UndoOK
      <4> QED
        BY <1>2, <2>1, <4>1, <4>2
    <3>2. CASE close[c].by # w
      <4>1. close[c].st = "reversed" /\ t \in close[c].entries
        BY <1>2, <2>3, <3>2
      <4>2. PICK r \in TxnIds : txn[r].st = "live" /\ Undoes(r, t, c)
        BY <4>1 DEF IInv, UndoOK
      <4> QED
        BY <1>2, <2>1, <4>1, <4>2
    <3> QED
      BY <3>1, <3>2
  <2> QED
    BY <2>2, <2>3 DEF UndoOK
<1> QED
  BY <1>2, <1>3, <1>4, <1>5, <1>6, <1>7 DEF IInv

\* A step that writes one transaction with its entries.  The premises say
\* what each such step has checked: its index key is free, a close's posting
\* has the close's date, and undoing a close reverses a pending posting.
LEMMA InsertInv ==
  ASSUME IInv, ~NoTxnLeft,
         NEW w \in Workers, NEW date \in Dates, NEW rev \in TxnIds \union {NoTxn}, NEW amounts,
         Insert(w, date, rev, amounts),
         NEW step \in {"zero", "close", "undo", "commit"}, Goto(w, step),
         req' \in [Workers -> Request], \A v \in Workers \ {w} : req'[v] = req[v],
         pc[w] \notin {"close", "mark", "reopen", "commit"},
         rev # NoTxn => \A r \in TxnIds : txn[r].rev # rev,
         step \in {"zero", "close"} => /\ pc[w] = "zero"
                                      /\ date = req[w].date /\ date = req'[w].date,
         step = "undo" => pc[w] = "undo",
         pc[w] = "undo" =>
           /\ req'[w].close = req[w].close /\ req'[w].pend = req[w].pend \ {rev}
           /\ date = close[req[w].close].end /\ amounts = Negated(entry[rev])
           /\ step = "commit" => req'[w].pend = {}
  PROVE  IInv'
<1>0. PICK f \in TxnIds : f = FreshTxn
  BY FreshTxnIsFree
<1>1. /\ RowsOK /\ txn[f].st = "free" /\ txn[f].by = NoWorker
      /\ DOMAIN entry = TxnIds
  BY <1>0, FreshTxnIsFree, NullAssumption DEF IInv, OwnersOK, EntriesOK, RowsOK, TxnRow
<1>2. /\ txn'[f].st = "open" /\ txn'[f].by = w /\ txn'[f].date = date /\ txn'[f].rev = rev
      /\ \A t \in TxnIds \ {f} : txn'[t] = txn[t]
      /\ entry'[f] = amounts /\ DOMAIN entry' = TxnIds
      /\ \A t \in TxnIds \ {f} : entry'[t] = entry[t]
      /\ txn' \in [TxnIds -> TxnRow]
      /\ close' = close
  BY <1>0, <1>1 DEF Insert, RowsOK, TxnRow
<1>3. /\ pc'[w] = step /\ \A v \in Workers \ {w} : pc'[v] = pc[v]
      /\ pc' \in [Workers -> Steps]
  BY <1>1 DEF Goto, RowsOK, Steps, InTx
<1>4. RowsOK'
  BY <1>1, <1>2, <1>3 DEF RowsOK
<1>5. ASSUME NEW c \in CloseIds
      PROVE  /\ close[c].st # "open" \/ close[c].by # w
             /\ close[c].st = "reversing" /\ close[c].by = w =>
                  pc[w] = "undo" /\ req[w].close = c
  BY <1>1, NullAssumption DEF IInv, OwnersOK
<1>6. OwnersOK'
  <2>1. ASSUME NEW t \in TxnIds
        PROVE  /\ txn'[t].st = "open" <=> txn'[t].by # NoWorker
               /\ txn'[t].st = "open" => pc'[txn'[t].by] \in {"zero", "close", "undo", "commit"}
               /\ txn'[t].st = "free" => txn'[t].rev = NoTxn
    BY <1>1, <1>2, <1>3, NullAssumption DEF IInv, OwnersOK, RowsOK, TxnRow
  <2>2. ASSUME NEW c \in CloseIds
        PROVE  /\ close'[c].st \in {"open", "reversing"} <=> close'[c].by # NoWorker
               /\ close'[c].st = "open" => pc'[close'[c].by] = "commit"
               /\ close'[c].st = "reversing" =>
                    /\ pc'[close'[c].by] \in {"undo", "commit"}
                    /\ req'[close'[c].by].close = c
    BY <1>1, <1>2, <1>3, <1>5, NullAssumption DEF IInv, OwnersOK, RowsOK, CloseRow
  <2> QED
    BY <2>1, <2>2 DEF OwnersOK
<1>7. ReopensOK'
  <2> SUFFICES ASSUME NEW v \in Workers
               PROVE  /\ pc'[v] = "reversal" => req'[v].target \in TxnIds
                      /\ pc'[v] \in {"reopen", "mark", "undo"} => req'[v].close \in CloseIds
                      /\ pc'[v] = "undo" =>
                           /\ close'[req'[v].close].st = "reversing"
                           /\ close'[req'[v].close].by = v
                           /\ \A r \in TxnIds : txn'[r].st = "open" /\ txn'[r].by = v =>
                                txn'[r].rev \notin req'[v].pend
    BY DEF ReopensOK
  <2>1. CASE v = w
    BY <1>1, <1>2, <1>3, <2>1 DEF IInv, ReopensOK
  <2>2. CASE v # w
    BY <1>1, <1>2, <1>3, <2>2 DEF IInv, ReopensOK
  <2> QED
    BY <2>1, <2>2
<1>8. EntriesOK'
  <2>1. ASSUME NEW t \in TxnIds, txn'[t].st = "open", pc'[txn'[t].by] \in {"zero", "close"}
        PROVE  txn'[t].date = req'[txn'[t].by].date
    <3>1. CASE t = f
      BY <1>2, <1>3, <2>1, <3>1
    <3>2. CASE t # f
      <4>1. txn'[t] = txn[t] /\ txn[t].by \in Workers
        BY <1>1, <1>2, <2>1, <3>2 DEF IInv, OwnersOK, RowsOK, TxnRow
      <4>2. CASE txn[t].by = w
        BY <1>2, <1>3, <2>1, <4>1, <4>2 DEF IInv, EntriesOK
      <4>3. CASE txn[t].by # w
        BY <1>2, <1>3, <2>1, <4>1, <4>3 DEF IInv, EntriesOK
      <4> QED
        BY <4>2, <4>3
    <3> QED
      BY <3>1, <3>2
  <2>2. ASSUME NEW c \in CloseIds, NEW t \in close'[c].entries
        PROVE  /\ txn'[t].date = close'[c].end
               /\ IF close'[c].st = "open" THEN txn'[t].st = "open" /\ txn'[t].by = close'[c].by
                  ELSE txn'[t].st = "live"
    <3>1. t \in TxnIds /\ t # f
      BY <1>1, <1>2, <2>2 DEF IInv, EntriesOK, RowsOK, CloseRow
    <3> QED
      BY <1>2, <2>2, <3>1 DEF IInv, EntriesOK
  <2> QED
    BY <1>2, <2>1, <2>2 DEF EntriesOK
<1>9. KeysUnique'
  <2>1. ASSUME NEW r1 \in TxnIds, NEW r2 \in TxnIds,
               txn'[r1].rev = txn'[r2].rev, txn'[r1].rev # NoTxn
        PROVE  r1 = r2
    BY <1>1, <1>2, <2>1 DEF IInv, KeysUnique
  <2> QED
    BY <1>2, <2>1 DEF IInv, KeysUnique
<1>10. UndoOK'
  <2>1. ASSUME NEW r \in TxnIds, NEW t \in TxnIds, NEW c \in CloseIds, Undoes(r, t, c),
               txn[r].st # "free", txn[t].st # "free"
        PROVE  Undoes(r, t, c)' /\ txn'[r] = txn[r]
    BY <1>1, <1>2, <2>1 DEF Undoes
  <2>2. ASSUME NEW c \in CloseIds, close[c].st \in {"reversing", "reversed"},
               NEW t \in close[c].entries
        PROVE  t \in TxnIds /\ txn[t].st # "free" /\ t # f
    BY <1>1, <2>2 DEF IInv, EntriesOK, RowsOK, CloseRow
  <2>3. ASSUME NEW c \in CloseIds, close[c].st = "reversing"
        PROVE  /\ pc'[close[c].by] = "commit" => req'[close[c].by].pend = {}
               /\ \A t \in close[c].entries \ req'[close[c].by].pend : \E r \in TxnIds :
                    txn'[r].st = "open" /\ txn'[r].by = close[c].by /\ Undoes(r, t, c)'
    <3>1. close[c].by \in Workers
      BY <1>1, <2>3 DEF IInv, OwnersOK, RowsOK, CloseRow
    <3>2. CASE close[c].by # w
      BY <1>3, <2>1, <2>2, <2>3, <3>1, <3>2 DEF IInv, UndoOK
    <3>3. CASE close[c].by = w
      <4>1. pc[w] = "undo" /\ req[w].close = c
        BY <1>5, <2>3, <3>3
      <4>2. ASSUME NEW t \in close[c].entries \ req'[w].pend
            PROVE  \E r \in TxnIds :
                     txn'[r].st = "open" /\ txn'[r].by = w /\ Undoes(r, t, c)'
        <5>1. CASE t \notin req[w].pend
          BY <2>1, <2>2, <2>3, <3>3, <4>2, <5>1 DEF IInv, UndoOK
        <5>2. CASE t \in req[w].pend
          <6>1. t = rev /\ t # f /\ t \in TxnIds
            BY <2>2, <2>3, <4>1, <4>2, <5>2
          <6>2. Undoes(f, t, c)'
            BY <1>2, <4>1, <6>1 DEF Undoes, Negated
          <6> QED
            BY <1>1, <1>2, <6>2
        <5> QED
          BY <5>1, <5>2
      <4> QED
        BY <1>3, <3>3, <4>1, <4>2
    <3> QED
      BY <3>2, <3>3
  <2>4. ASSUME NEW c \in CloseIds, close[c].st = "reversed", NEW t \in close[c].entries
        PROVE  \E r \in TxnIds : txn'[r].st = "live" /\ Undoes(r, t, c)'
    BY <2>1, <2>2, <2>4 DEF IInv, UndoOK
  <2> QED
    BY <1>2, <2>3, <2>4 DEF UndoOK
<1> QED
  BY <1>4, <1>6, <1>7, <1>8, <1>9, <1>10 DEF IInv

\* A step that writes no row: it moves a request that has written nothing, or
\* a close that has nothing to sweep.
LEMMA QuietInv ==
  ASSUME IInv, NEW w \in Workers, NEW step \in Steps \ {"undo", "commit"},
         UNCHANGED <<txn, entry, close>>, Goto(w, step),
         req' \in [Workers -> Request], \A v \in Workers \ {w} : req'[v] = req[v],
         \/ pc[w] \in {"idle", "balances", "reopen"}
         \/ pc[w] = "zero" /\ step = "close" /\ req' = req,
         step \in {"reopen", "mark"} => req'[w].close \in CloseIds,
         step = "reversal" => req'[w].target \in TxnIds
  PROVE  IInv'
<1>1. /\ RowsOK /\ txn' = txn /\ entry' = entry /\ close' = close
      /\ pc'[w] = step /\ \A v \in Workers \ {w} : pc'[v] = pc[v]
      /\ pc' \in [Workers -> Steps]
  BY DEF IInv, Goto, RowsOK
<1>2. RowsOK'
  BY <1>1 DEF RowsOK
<1>3. ASSUME NEW t \in TxnIds, txn[t].by = w, pc[w] # "zero"
      PROVE  FALSE
  BY <1>1, <1>3, NullAssumption DEF IInv, OwnersOK
<1>4. ASSUME NEW c \in CloseIds
      PROVE  close[c].by # w
  BY <1>1, NullAssumption DEF IInv, OwnersOK
<1>5. OwnersOK'
  BY <1>1, <1>3, <1>4, NullAssumption DEF IInv, OwnersOK, RowsOK, TxnRow, CloseRow
<1>6. ReopensOK'
  BY <1>1 DEF IInv, ReopensOK
<1>7. EntriesOK'
  <2>1. ASSUME NEW t \in TxnIds, txn[t].st = "open", pc'[txn[t].by] \in {"zero", "close"}
        PROVE  txn[t].date = req'[txn[t].by].date
    <3>1. txn[t].by \in Workers
      BY <1>1, <2>1 DEF IInv, OwnersOK, RowsOK, TxnRow
    <3>2. CASE txn[t].by = w
      BY <1>1, <1>3, <2>1, <3>2 DEF IInv, EntriesOK
    <3>3. CASE txn[t].by # w
      BY <1>1, <2>1, <3>1, <3>3 DEF IInv, EntriesOK
    <3> QED
      BY <3>2, <3>3
  <2> QED
    BY <1>1, <2>1 DEF IInv, EntriesOK
<1>8. KeysUnique'
  BY <1>1 DEF IInv, KeysUnique
<1>9. UndoOK'
  <2>1. ASSUME NEW c \in CloseIds, close[c].st = "reversing"
        PROVE  pc'[close[c].by] = pc[close[c].by] /\ req'[close[c].by] = req[close[c].by]
    BY <1>1, <1>4, <2>1 DEF IInv, OwnersOK, RowsOK, CloseRow
  <2> QED
    BY <1>1, <2>1 DEF IInv, UndoOK, Undoes
<1> QED
  BY <1>2, <1>5, <1>6, <1>7, <1>8, <1>9 DEF IInv

\* What CheckReversible remembers is a request.
LEMMA ReversalRequestRow ==
  ASSUME NEW t \in TxnIds, NEW date \in Dates
  PROVE  ReversalRequest(t, date) \in Request /\ ReversalRequest(t, date).target = t
<1>1. ReversalRequest(t, date) \in Request
  BY NullRows DEF ReversalRequest, Request
<1>2. ReversalRequest(t, date).target = t
  BY DEF ReversalRequest, NoRequest
<1> QED
  BY <1>1, <1>2

\* The checks of ReverseLedgerTransaction preserve the invariant.
LEMMA CheckReversibleInv ==
  ASSUME IInv, NEW w \in Workers, CheckReversible(w)
  PROVE  IInv'
<1>1. PICK t \in TxnIds, date \in Dates : req' = [req EXCEPT ![w] = ReversalRequest(t, date)]
  BY DEF CheckReversible
<1>2. ReversalRequest(t, date) \in Request /\ ReversalRequest(t, date).target = t
  BY ReversalRequestRow
<1>3. /\ req' \in [Workers -> Request] /\ \A v \in Workers \ {w} : req'[v] = req[v]
      /\ req'[w].target \in TxnIds
  BY <1>1, <1>2 DEF IInv, RowsOK
<1> QED
  BY <1>3, QuietInv DEF CheckReversible, Steps, InTx

\* The checks of TriggerClose preserve the invariant.
LEMMA BeginCloseInv ==
  ASSUME IInv, NEW w \in Workers, BeginClose(w)
  PROVE  IInv'
<1>1. PICK start \in Dates, end \in Dates : req' = [req EXCEPT ![w] = CloseRequest(start, end)]
  BY DEF BeginClose
<1>2. CloseRequest(start, end) \in Request
  BY DatesAssumption DEF CloseRequest, NoRequest, Request, Dates
<1>3. req' \in [Workers -> Request] /\ \A v \in Workers \ {w} : req'[v] = req[v]
  BY <1>1, <1>2 DEF IInv, RowsOK
<1> QED
  BY <1>3, QuietInv DEF BeginClose, Steps, InTx

\* Reading the balances to sweep preserves the invariant.
LEMMA ReadBalancesInv ==
  ASSUME IInv, NEW w \in Workers, ReadBalances(w)
  PROVE  IInv'
<1>1. PICK todo \in SUBSET Accounts : req' = [req EXCEPT ![w].todo = todo]
  BY DEF ReadBalances, Temporary, Accounts
<1>2. req' \in [Workers -> Request] /\ \A v \in Workers \ {w} : req'[v] = req[v]
  BY <1>1 DEF IInv, RowsOK, Request
<1> QED
  BY <1>2, QuietInv DEF ReadBalances, Steps, InTx

\* The handler's checks of ReverseClose preserve the invariant.
LEMMA CheckReverseInv ==
  ASSUME IInv, NEW w \in Workers, CheckReverse(w)
  PROVE  IInv'
<1>1. PICK c \in CloseIds : req' = [req EXCEPT ![w].close = c]
  BY DEF CheckReverse
<1>2. /\ req' \in [Workers -> Request] /\ \A v \in Workers \ {w} : req'[v] = req[v]
      /\ req'[w].close \in CloseIds
  BY <1>1 DEF IInv, RowsOK, Request
<1> QED
  BY <1>2, QuietInv DEF CheckReverse, Steps, InTx

\* Reverse's checks inside its transaction preserve the invariant.
LEMMA BeginReverseInv ==
  ASSUME IInv, NEW w \in Workers, BeginReverse(w)
  PROVE  IInv'
<1>1. CASE LastClose(w, req[w].close)
  <2>1. req' \in [Workers -> Request] /\ req' = req /\ req[w].close \in CloseIds
    BY <1>1 DEF BeginReverse, IInv, RowsOK, ReopensOK
  <2> QED
    BY <1>1, <2>1, QuietInv DEF BeginReverse, Steps, InTx
<1>2. CASE ~LastClose(w, req[w].close)
  BY <1>2, RollbackInv DEF BeginReverse
<1> QED
  BY <1>1, <1>2

\* Posting a transaction preserves the invariant.
LEMMA CreateLedgerTransactionInv ==
  ASSUME IInv, NEW w \in Workers, CreateLedgerTransaction(w)
  PROVE  IInv'
<1>1. PICK date \in Dates, amounts \in Drafts :
        ~NoTxnLeft /\ Insert(w, date, NoTxn, Kept(amounts))
  BY DEF CreateLedgerTransaction
<1>2. pc[w] = "idle" /\ Goto(w, "commit") /\ req' = req /\ req' \in [Workers -> Request]
  BY DEF CreateLedgerTransaction, IInv, RowsOK
<1> QED
  BY <1>1, <1>2, InsertInv

\* What an insert into the unique index of reversals has made sure of: no
\* committed row and no other transaction's row holds the key.
LEMMA KeyFree ==
  ASSUME IInv, NEW w \in Workers, NEW t \in TxnIds, ~Reversed(t), ~ReversalInFlight(w, t),
         \A r \in TxnIds : txn[r].st = "open" /\ txn[r].by = w => txn[r].rev # t
  PROVE  \A r \in TxnIds : txn[r].rev # t
BY NullAssumption DEF IInv, RowsOK, OwnersOK, TxnRow, Reversed, ReversalInFlight

\* Posting a reversal preserves the invariant: its index key was free when the
\* statement ran.
LEMMA InsertReversalInv ==
  ASSUME IInv, NEW w \in Workers, InsertReversal(w)
  PROVE  IInv'
<1>0. req[w].target \in TxnIds
  BY DEF IInv, ReopensOK, InsertReversal
<1>1. CASE Locked(w, req[w].date) \/ Reversed(req[w].target) \/ NoTxnLeft
  BY <1>1, RollbackInv DEF InsertReversal
<1>2. CASE ~(Locked(w, req[w].date) \/ Reversed(req[w].target) \/ NoTxnLeft)
  <2>1. PICK t, date, amounts :
          /\ t \in TxnIds /\ date \in Dates
          /\ t = req[w].target /\ date = req[w].date /\ amounts = Negated(entry[t])
    BY <1>0 DEF IInv, RowsOK, Request
  <2>2. /\ pc[w] = "reversal" /\ Goto(w, "commit") /\ req' = req
        /\ req' \in [Workers -> Request] /\ ~NoTxnLeft /\ Insert(w, date, t, amounts)
    BY <1>2, <2>1 DEF InsertReversal, IInv, RowsOK
  <2>3. \A r \in TxnIds : txn[r].rev # t
    BY <1>2, <2>1, <2>2, KeyFree DEF InsertReversal, IInv, OwnersOK
  <2> QED
    BY <2>1, <2>2, <2>3, InsertInv
<1> QED
  BY <1>1, <1>2

\* Zeroing one account preserves the invariant.
LEMMA PostZeroingInv ==
  ASSUME IInv, NEW w \in Workers, PostZeroing(w)
  PROVE  IInv'
<1>1. CASE Locked(w, req[w].date) \/ NoTxnLeft
  BY <1>1, RollbackInv DEF PostZeroing
<1>2. CASE ~(Locked(w, req[w].date) \/ NoTxnLeft)
  <2>1. PICK a, date, amounts :
          /\ a \in req[w].todo /\ date \in Dates
          /\ date = req[w].date /\ Insert(w, date, NoTxn, amounts)
          /\ req' = [req EXCEPT ![w].todo = @ \ {a}]
    BY <1>2 DEF PostZeroing, IInv, RowsOK, Request
  <2>2. /\ pc[w] = "zero" /\ Goto(w, "zero") /\ ~NoTxnLeft
        /\ req' \in [Workers -> Request] /\ \A v \in Workers \ {w} : req'[v] = req[v]
        /\ req'[w].date = req[w].date
    <3>1. pc[w] = "zero" /\ ~NoTxnLeft /\ pc' = pc /\ Goto(w, "zero")
      BY <1>2 DEF PostZeroing, IInv, RowsOK, Goto
    <3>2. /\ req' \in [Workers -> Request] /\ \A v \in Workers \ {w} : req'[v] = req[v]
          /\ req'[w].date = req[w].date
      BY <2>1 DEF IInv, RowsOK, Request
    <3> QED
      BY <3>1, <3>2
  <2> QED
    BY <2>1, <2>2, InsertInv
<1> QED
  BY <1>1, <1>2

\* Sweeping Income Summary, or finding nothing to sweep, preserves the
\* invariant.
LEMMA PostSweepInv ==
  ASSUME IInv, NEW w \in Workers, PostSweep(w)
  PROVE  IInv'
<1>1. CASE IncomeSummaryDelta(w) = 0
  <2>1. /\ pc[w] = "zero" /\ Goto(w, "close") /\ req' = req
        /\ req' \in [Workers -> Request] /\ UNCHANGED <<txn, entry, close>>
    BY <1>1 DEF PostSweep, IInv, RowsOK
  <2> QED
    BY <2>1, QuietInv DEF Steps, InTx
<1>2. CASE IncomeSummaryDelta(w) # 0 /\ (Locked(w, req[w].date) \/ NoTxnLeft)
  BY <1>2, RollbackInv DEF PostSweep
<1>3. CASE IncomeSummaryDelta(w) # 0 /\ ~(Locked(w, req[w].date) \/ NoTxnLeft)
  <2>1. PICK date, amounts :
          date \in Dates /\ date = req[w].date /\ Insert(w, date, NoTxn, amounts)
    BY <1>3 DEF PostSweep, IInv, RowsOK, Request
  <2>2. /\ pc[w] = "zero" /\ Goto(w, "close") /\ ~NoTxnLeft
        /\ req' = req /\ req' \in [Workers -> Request]
    BY <1>3 DEF PostSweep, IInv, RowsOK
  <2> QED
    BY <2>1, <2>2, InsertInv
<1> QED
  BY <1>1, <1>2, <1>3

\* Reversing one posting of a close preserves the invariant: it is no longer
\* pending, and has its mirror.
LEMMA PostReversalInv ==
  ASSUME IInv, NEW w \in Workers, PostReversal(w)
  PROVE  IInv'
<1>1. PICK t \in req[w].pend :
        /\ ~ReversalInFlight(w, t)
        /\ IF Locked(w, ReversalDate(req[w].close)) \/ Reversed(t) \/ NoTxnLeft
           THEN Rollback(w)
           ELSE /\ Insert(w, ReversalDate(req[w].close), t, Negated(entry[t]))
                /\ req' = [req EXCEPT ![w].pend = @ \ {t}]
                /\ Goto(w, IF req[w].pend = {t} THEN "commit" ELSE "undo")
  BY DEF PostReversal
<1>2. CASE Rollback(w)
  BY <1>2, RollbackInv
<1>3. CASE ~Rollback(w)
  <2>1. /\ pc[w] = "undo" /\ t \in TxnIds /\ req[w].close \in CloseIds
        /\ ~Reversed(t) /\ ~NoTxnLeft
    BY <1>1, <1>3 DEF PostReversal, IInv, RowsOK, ReopensOK, Request
  <2>2. PICK date, amounts :
          /\ date \in Dates
          /\ date = close[req[w].close].end /\ amounts = Negated(entry[t])
          /\ Insert(w, date, t, amounts)
    <3>1. PICK date \in Dates : date = close[req[w].close].end
      BY <2>1 DEF IInv, RowsOK, CloseRow
    <3>2. Insert(w, date, t, Negated(entry[t]))
      BY <1>1, <1>3, <3>1 DEF ReversalDate, Insert
    <3> QED
      BY <3>1, <3>2
  <2>3. PICK step \in {"undo", "commit"} :
          Goto(w, step) /\ step = IF req[w].pend = {t} THEN "commit" ELSE "undo"
    BY <1>1, <1>3 DEF Goto
  <2>4. /\ req' \in [Workers -> Request] /\ \A v \in Workers \ {w} : req'[v] = req[v]
        /\ req'[w].close = req[w].close /\ req'[w].pend = req[w].pend \ {t}
        /\ step = "commit" => req'[w].pend = {}
    <3>1. req' = [req EXCEPT ![w].pend = @ \ {t}]
      BY <1>1, <1>3
    <3>2. req \in [Workers -> Request]
      BY DEF IInv, RowsOK
    <3>3. /\ \A v \in Workers \ {w} : req'[v] = req[v]
          /\ req'[w].close = req[w].close /\ req'[w].pend = req[w].pend \ {t}
      BY <3>1, <3>2 DEF Request
    <3>4. req' \in [Workers -> Request]
      BY <3>1, <3>2 DEF Request
    <3>5. step = "commit" => req[w].pend = {t}
      BY <2>3
    <3> QED
      BY <3>3, <3>4, <3>5
  <2>5. \A r \in TxnIds : txn[r].rev # t
    BY <1>1, <2>1, KeyFree DEF IInv, ReopensOK
  <2> QED
    BY <2>1, <2>2, <2>4, <2>5, <2>3, InsertInv
<1> QED
  BY <1>2, <1>3

\* Inserting the period_close row preserves the invariant: nobody else holds
\* its end date, and its entries are what the transaction has posted.
LEMMA CreatePeriodCloseInv ==
  ASSUME IInv, NEW w \in Workers, CreatePeriodClose(w)
  PROVE  IInv'
<1>1. CASE ~VerifyBalanced(w) \/ EndTaken(req[w].date) \/ NoCloseLeft
  BY <1>1, RollbackInv DEF CreatePeriodClose
<1>2. CASE ~(~VerifyBalanced(w) \/ EndTaken(req[w].date) \/ NoCloseLeft)
  <2>1. PICK n \in CloseIds : n = FreshClose /\ close[n].st = "free"
    BY <1>2, FreshCloseIsFree
  <2>2. /\ RowsOK /\ pc[w] = "close" /\ txn' = txn /\ entry' = entry /\ req' = req
        /\ ~EndInFlight(w, req[w].date) /\ ~EndTaken(req[w].date)
        /\ close[n].by = NoWorker
    BY <1>2, <2>1, NullAssumption DEF CreatePeriodClose, IInv, OwnersOK, RowsOK, CloseRow
  <2>3. /\ close'[n].st = "open" /\ close'[n].by = w /\ close'[n].end = req[w].date
        /\ close'[n].entries = {t \in TxnIds : txn[t].st = "open" /\ txn[t].by = w}
        /\ \A c \in CloseIds \ {n} : close'[c] = close[c]
        /\ close' \in [CloseIds -> CloseRow]
    BY <1>2, <2>1, <2>2 DEF CreatePeriodClose, RowsOK, Own, CloseRow, Request
  <2>4. /\ pc'[w] = "commit" /\ \A v \in Workers \ {w} : pc'[v] = pc[v]
        /\ pc' \in [Workers -> Steps]
    BY <1>2, <2>2 DEF CreatePeriodClose, Goto, RowsOK, Steps, InTx
  <2>5. RowsOK'
    BY <2>2, <2>3, <2>4 DEF RowsOK
  <2>6. ASSUME NEW c \in CloseIds
        PROVE  close[c].by # w
    BY <2>2, NullAssumption DEF IInv, OwnersOK
  <2>7. OwnersOK'
    <3>1. ASSUME NEW t \in TxnIds
          PROVE  /\ txn'[t].st = "open" <=> txn'[t].by # NoWorker
                 /\ txn'[t].st = "open" => pc'[txn'[t].by] \in {"zero", "close", "undo", "commit"}
                 /\ txn'[t].st = "free" => txn'[t].rev = NoTxn
      BY <2>2, <2>4 DEF IInv, OwnersOK, RowsOK, TxnRow
    <3>2. ASSUME NEW c \in CloseIds
          PROVE  /\ close'[c].st \in {"open", "reversing"} <=> close'[c].by # NoWorker
                 /\ close'[c].st = "open" => pc'[close'[c].by] = "commit"
                 /\ close'[c].st = "reversing" =>
                      /\ pc'[close'[c].by] \in {"undo", "commit"}
                      /\ req'[close'[c].by].close = c
      <4>1. CASE c = n
        BY <2>3, <2>4, <4>1, NullAssumption
      <4>2. CASE c # n
        BY <2>2, <2>3, <2>4, <2>6, <4>2, NullAssumption DEF IInv, OwnersOK, RowsOK, CloseRow
      <4> QED
        BY <4>1, <4>2
    <3> QED
      BY <3>1, <3>2 DEF OwnersOK
  <2>8. ReopensOK'
    BY <2>1, <2>2, <2>3, <2>4 DEF IInv, ReopensOK
  <2>9. EntriesOK'
    <3>1. ASSUME NEW t \in TxnIds, txn[t].st = "open", pc'[txn[t].by] \in {"zero", "close"}
          PROVE  txn[t].date = req[txn[t].by].date
      <4>1. txn[t].by \in Workers
        BY <2>2, <3>1 DEF IInv, OwnersOK, RowsOK, TxnRow
      <4> QED
        BY <2>2, <2>4, <3>1, <4>1 DEF IInv, EntriesOK
    <3>2. ASSUME NEW c \in CloseIds, NEW t \in close'[c].entries
          PROVE  /\ txn'[t].date = close'[c].end
                 /\ IF close'[c].st = "open" THEN txn'[t].st = "open" /\ txn'[t].by = close'[c].by
                    ELSE txn'[t].st = "live"
      <4>1. CASE c = n
        BY <2>2, <2>3, <3>2, <4>1 DEF IInv, EntriesOK
      <4>2. CASE c # n
        BY <2>2, <2>3, <3>2, <4>2 DEF IInv, EntriesOK
      <4> QED
        BY <4>1, <4>2
    <3> QED
      BY <2>2, <3>1, <3>2 DEF IInv, EntriesOK
  <2>10. KeysUnique'
    <3>1. ASSUME NEW c \in CloseIds, close[c].st \in {"open", "active", "reversing"}
          PROVE  close[c].end # req[w].date
      BY <2>2, <2>6, <3>1 DEF EndTaken, EndInFlight
    <3> QED
      BY <2>2, <2>3, <3>1 DEF IInv, KeysUnique
  <2>11. UndoOK'
    <3>1. ASSUME NEW c \in CloseIds, close'[c].st \in {"reversing", "reversed"}
          PROVE  c # n /\ close'[c] = close[c]
      BY <2>3, <3>1
    <3>2. ASSUME NEW c \in CloseIds, close[c].st = "reversing"
          PROVE  pc'[close[c].by] = pc[close[c].by]
      BY <2>2, <2>4, <2>6, <3>2 DEF IInv, OwnersOK, RowsOK, CloseRow
    <3> QED
      BY <2>2, <3>1, <3>2 DEF IInv, UndoOK, Undoes
  <2> QED
    BY <2>5, <2>7, <2>8, <2>9, <2>10, <2>11 DEF IInv
<1> QED
  BY <1>1, <1>2

\* Marking a close reversed preserves the invariant: the row's lock was free,
\* and all of its postings are pending.
LEMMA MarkReversedInv ==
  ASSUME IInv, NEW w \in Workers, MarkReversed(w)
  PROVE  IInv'
<1>0. PICK n \in CloseIds : n = req[w].close
  BY DEF MarkReversed, IInv, ReopensOK
<1>1. CASE close[n].st # "active"
  BY <1>0, <1>1, RollbackInv DEF MarkReversed
<1>2. CASE close[n].st = "active"
  <2>1. /\ RowsOK /\ pc[w] = "mark" /\ txn' = txn /\ entry' = entry
        /\ close[n] \in CloseRow /\ close[n].by = NoWorker
    BY <1>0, <1>2, NullAssumption DEF MarkReversed, IInv, OwnersOK, RowsOK
  <2>2. /\ Owned(close[n], "reversing", w) \in CloseRow
        /\ Owned(close[n], "reversing", w).st = "reversing"
        /\ Owned(close[n], "reversing", w).by = w
        /\ Owned(close[n], "reversing", w).end = close[n].end
        /\ Owned(close[n], "reversing", w).entries = close[n].entries
    BY <2>1 DEF CloseRow, Owned
  <2>3. /\ close'[n].st = "reversing" /\ close'[n].by = w /\ close'[n].end = close[n].end
        /\ close'[n].entries = close[n].entries
        /\ \A c \in CloseIds \ {n} : close'[c] = close[c]
        /\ close' \in [CloseIds -> CloseRow]
    <3>1. close' = [close EXCEPT ![n] = Owned(close[n], "reversing", w)]
      BY <1>0, <1>2 DEF MarkReversed
    <3> QED
      BY <2>1, <2>2, <3>1 DEF RowsOK
  <2>4. /\ req' \in [Workers -> Request] /\ \A v \in Workers \ {w} : req'[v] = req[v]
        /\ req'[w].close = n /\ req'[w].pend = close[n].entries
    <3>1. req' = [req EXCEPT ![w].pend = close[n].entries]
      BY <1>0, <1>2 DEF MarkReversed
    <3> QED
      BY <1>0, <2>1, <3>1 DEF MarkReversed, RowsOK, Request, CloseRow
  <2>5. /\ pc'[w] \in {"undo", "commit"} /\ \A v \in Workers \ {w} : pc'[v] = pc[v]
        /\ pc' \in [Workers -> Steps]
        /\ pc'[w] = "commit" => close[n].entries = {}
    <3>1. PICK step \in {"undo", "commit"} :
            Goto(w, step) /\ step = IF close[n].entries = {} THEN "commit" ELSE "undo"
      BY <1>0, <1>2 DEF MarkReversed, Goto
    <3> QED
      BY <2>1, <3>1 DEF Goto, RowsOK, Steps, InTx
  <2>6. RowsOK'
    BY <2>1, <2>3, <2>4, <2>5 DEF RowsOK
  <2>7. ASSUME NEW t \in TxnIds
        PROVE  txn[t].by # w
    BY <2>1, NullAssumption DEF IInv, OwnersOK
  <2>8. ASSUME NEW c \in CloseIds
        PROVE  close[c].by # w
    BY <2>1, NullAssumption DEF IInv, OwnersOK
  <2>9. OwnersOK'
    <3>1. ASSUME NEW t \in TxnIds
          PROVE  /\ txn'[t].st = "open" <=> txn'[t].by # NoWorker
                 /\ txn'[t].st = "open" => pc'[txn'[t].by] \in {"zero", "close", "undo", "commit"}
                 /\ txn'[t].st = "free" => txn'[t].rev = NoTxn
      BY <2>1, <2>5, <2>7 DEF IInv, OwnersOK, RowsOK, TxnRow
    <3>2. ASSUME NEW c \in CloseIds
          PROVE  /\ close'[c].st \in {"open", "reversing"} <=> close'[c].by # NoWorker
                 /\ close'[c].st = "open" => pc'[close'[c].by] = "commit"
                 /\ close'[c].st = "reversing" =>
                      /\ pc'[close'[c].by] \in {"undo", "commit"}
                      /\ req'[close'[c].by].close = c
      <4>1. CASE c = n
        BY <2>3, <2>4, <2>5, <4>1, NullAssumption
      <4>2. CASE c # n
        BY <2>1, <2>3, <2>4, <2>5, <2>8, <4>2, NullAssumption DEF IInv, OwnersOK, RowsOK, CloseRow
      <4> QED
        BY <4>1, <4>2
    <3> QED
      BY <3>1, <3>2 DEF OwnersOK
  <2>10. ReopensOK'
    <3> SUFFICES ASSUME NEW v \in Workers
                 PROVE  /\ pc'[v] = "reversal" => req'[v].target \in TxnIds
                        /\ pc'[v] \in {"reopen", "mark", "undo"} => req'[v].close \in CloseIds
                        /\ pc'[v] = "undo" =>
                             /\ close'[req'[v].close].st = "reversing"
                             /\ close'[req'[v].close].by = v
                             /\ \A r \in TxnIds : txn'[r].st = "open" /\ txn'[r].by = v =>
                                  txn'[r].rev \notin req'[v].pend
      BY DEF ReopensOK
    <3>1. CASE v = w
      BY <2>1, <2>3, <2>4, <2>5, <2>7, <3>1
    <3>2. CASE v # w
      BY <1>2, <2>1, <2>3, <2>4, <2>5, <3>2 DEF IInv, ReopensOK
    <3> QED
      BY <3>1, <3>2
  <2>11. EntriesOK'
    <3>1. ASSUME NEW t \in TxnIds, txn[t].st = "open", pc'[txn[t].by] \in {"zero", "close"}
          PROVE  txn[t].date = req'[txn[t].by].date
      <4>1. txn[t].by \in Workers
        BY <2>1, <3>1 DEF IInv, OwnersOK, RowsOK, TxnRow
      <4> QED
        BY <2>1, <2>4, <2>5, <2>7, <3>1, <4>1 DEF IInv, EntriesOK
    <3>2. ASSUME NEW c \in CloseIds, NEW t \in close'[c].entries
          PROVE  /\ txn'[t].date = close'[c].end
                 /\ IF close'[c].st = "open" THEN txn'[t].st = "open" /\ txn'[t].by = close'[c].by
                    ELSE txn'[t].st = "live"
      <4>1. CASE c = n
        BY <1>2, <2>1, <2>3, <3>2, <4>1 DEF IInv, EntriesOK
      <4>2. CASE c # n
        BY <2>1, <2>3, <3>2, <4>2 DEF IInv, EntriesOK
      <4> QED
        BY <4>1, <4>2
    <3> QED
      BY <2>1, <3>1, <3>2 DEF IInv, EntriesOK
  <2>12. KeysUnique'
    BY <1>2, <2>1, <2>3 DEF IInv, KeysUnique
  <2>13. UndoOK'
    <3>1. ASSUME NEW c \in CloseIds, c # n, close[c].st = "reversing"
          PROVE  pc'[close[c].by] = pc[close[c].by] /\ req'[close[c].by] = req[close[c].by]
      BY <2>1, <2>4, <2>5, <2>8, <3>1 DEF IInv, OwnersOK, RowsOK, CloseRow
    <3>2. ASSUME NEW c \in CloseIds, c # n
          PROVE  /\ close'[c].st = "reversing" =>
                      /\ pc'[close'[c].by] = "commit" => req'[close'[c].by].pend = {}
                      /\ \A t \in close'[c].entries \ req'[close'[c].by].pend : \E r \in TxnIds :
                           txn'[r].st = "open" /\ txn'[r].by = close'[c].by /\ Undoes(r, t, c)'
                 /\ close'[c].st = "reversed" =>
                      \A t \in close'[c].entries : \E r \in TxnIds :
                        txn'[r].st = "live" /\ Undoes(r, t, c)'
      BY <2>1, <2>3, <3>1, <3>2 DEF IInv, UndoOK, Undoes
    <3> QED
      BY <2>3, <2>4, <2>5, <3>2 DEF UndoOK
  <2> QED
    BY <2>6, <2>9, <2>10, <2>11, <2>12, <2>13 DEF IInv
<1> QED
  BY <1>1, <1>2

\* Every step preserves the invariant.
LEMMA NextInv == IInv /\ [Next]_vars => IInv'
<1> SUFFICES ASSUME IInv, [Next]_vars PROVE IInv'
  OBVIOUS
<1>1. ASSUME NEW w \in Workers, Begin(w)
      PROVE  IInv'
  BY <1>1, CreateLedgerTransactionInv, CheckReversibleInv, BeginCloseInv, CheckReverseInv DEF Begin
<1>2. ASSUME NEW w \in Workers, Step(w)
      PROVE  IInv'
  BY <1>2, InsertReversalInv, ReadBalancesInv, PostZeroingInv, PostSweepInv,
     CreatePeriodCloseInv, BeginReverseInv, MarkReversedInv, PostReversalInv, CommitInv DEF Step
<1>3. ASSUME NEW w \in Workers, Abort(w)
      PROVE  IInv'
  BY <1>3, RollbackInv DEF Abort
<1>4. CASE UNCHANGED vars
  BY <1>4 DEF vars, IInv, RowsOK, OwnersOK, ReopensOK, EntriesOK, KeysUnique, UndoOK, Undoes
<1> QED
  BY <1>1, <1>2, <1>3, <1>4 DEF Next

-----------------------------------------------------------------------------
(***************************************************************************)
(* The theorems.                                                           *)
(***************************************************************************)

\* Every reachable state satisfies the inductive invariant; in particular
\* every ledger_transaction, period_close and request has its type.
THEOREM Invariance == Spec => []IInv
<1>1. Init => IInv
  BY InitInv
<1>2. IInv /\ [Next]_vars => IInv'
  BY NextInv
<1> QED
  BY <1>1, <1>2, PTL DEF Spec

\* Every ledger_transaction, period_close and request row has its type in
\* every reachable state: a reversal's date, in particular, is a date.
THEOREM RowTypes == Spec => []RowsOK
<1>1. IInv => RowsOK
  BY DEF IInv
<1> QED
  BY <1>1, Invariance, PTL

\* However requests interleave, abort or wait, a transaction is reversed at
\* most once (ledgerpost.ReverseTransaction, from both of its callers).
THEOREM ReversesOnce == Spec => []ReversedOnce
<1>1. IInv => ReversedOnce
  BY DEF IInv, KeysUnique, ReversedOnce
<1> QED
  BY <1>1, Invariance, PTL

\* No two closes in force end on the same date.
THEOREM EndsDistinct == Spec => []ActiveEndsDistinct
<1>1. IInv => ActiveEndsDistinct
  BY DEF IInv, KeysUnique, ActiveEndsDistinct
<1> QED
  BY <1>1, Invariance, PTL

\* A close marked reversed has been undone in full, posting by posting.
THEOREM ReversalComplete == Spec => []ReversalUndoesClose
<1>1. IInv => ReversalUndoesClose
  <2>1. ASSUME IInv, NEW c \in CloseIds, close[c].st = "reversed", NEW t \in close[c].entries
        PROVE  \E r \in TxnIds :
                 /\ txn[r].st = "live" /\ txn[r].rev = t /\ txn[r].date = close[c].end
                 /\ \A a \in Accounts : entry[r][a] = -entry[t][a]
    <3>1. PICK r \in TxnIds : txn[r].st = "live" /\ Undoes(r, t, c)
      BY <2>1 DEF IInv, UndoOK
    <3>2. \A a \in Accounts : entry[r][a] = -entry[t][a]
      BY <3>1 DEF Undoes, Negated
    <3> QED
      BY <3>1, <3>2 DEF Undoes
  <2> QED
    BY <2>1 DEF ReversalUndoesClose
<1> QED
  BY <1>1, Invariance, PTL

\* A committed close stands with all of its postings, dated its end.
THEOREM CloseWhole == Spec => []CloseStandsWhole
<1>1. IInv => CloseStandsWhole
  BY DEF IInv, EntriesOK, CloseStandsWhole, Committed
<1> QED
  BY <1>1, Invariance, PTL

-----------------------------------------------------------------------------
(***************************************************************************)
(* Sums of amounts.                                                        *)
(***************************************************************************)

\* There are finitely many accounts.
LEMMA AccountsFinite == IsFiniteSet(Accounts) /\ IsFiniteSet(Temporary)
<1>1. IsFiniteSet(Temporary)
  BY FiniteAssumption, FS_Union DEF Temporary
<1>2. IsFiniteSet(Temporary \union Permanent)
  BY <1>1, FiniteAssumption, FS_Union
<1>3. IsFiniteSet({IncomeSummary, RetainedEarnings})
  <2>1. IsFiniteSet({IncomeSummary}) /\ {IncomeSummary, RetainedEarnings} = {IncomeSummary} \union {RetainedEarnings}
    BY FS_Singleton
  <2> QED
    BY <2>1, FS_AddElement
<1>4. Accounts = (Temporary \union Permanent) \union {IncomeSummary, RetainedEarnings}
  BY DEF Accounts, Temporary
<1> QED
  BY <1>1, <1>2, <1>3, <1>4, FS_Union

\* An account's part of a set of transactions is the sum of a function, before
\* a step and after it.
LEMMA ColumnSum ==
  ASSUME NEW a, NEW S \in SUBSET TxnIds
  PROVE  /\ Total(a, S) = SumOver([t \in TxnIds |-> entry[t][a]], S)
         /\ Total(a, S)' = SumOver([t \in TxnIds |-> entry'[t][a]], S)
<1>1. Total(a, S) = SumOver([t \in TxnIds |-> entry[t][a]], S)
  BY DEF Total, SumOver, MapThenSumSet, MapThenFoldSet
<1>2. Total(a, S)' = SumOver([t \in TxnIds |-> entry'[t][a]], S)
  BY DEF Total, SumOver, MapThenSumSet, MapThenFoldSet
<1> QED
  BY <1>1, <1>2

\* Sums over the same entries are the same before and after a step.
LEMMA TotalKept ==
  ASSUME NEW a, NEW S \in SUBSET TxnIds, \A t \in S : entry'[t][a] = entry[t][a]
  PROVE  Total(a, S)' = Total(a, S)
<1> DEFINE f == [t \in TxnIds |-> entry[t][a]]
           g == [t \in TxnIds |-> entry'[t][a]]
<1>1. IsFiniteSet(S)
  BY FiniteAssumption, FS_Subset
<1>2. Total(a, S) = SumOver(f, S) /\ Total(a, S)' = SumOver(g, S)
  BY ColumnSum
<1>3. \A t \in S : g[t] = f[t]
  OBVIOUS
<1> HIDE DEF f, g
<1> QED
  BY <1>1, <1>2, <1>3, SumSame

\* An account's part is an amount.
LEMMA TotalType ==
  ASSUME NEW a \in Accounts, NEW S \in SUBSET TxnIds, AmountsOK
  PROVE  Total(a, S) \in Int
<1> DEFINE f == [t \in TxnIds |-> entry[t][a]]
<1>1. IsFiniteSet(S) /\ \A t \in S : f[t] \in Int
  BY FiniteAssumption, FS_Subset DEF AmountsOK
<1>2. Total(a, S) = SumOver(f, S)
  BY ColumnSum
<1> HIDE DEF f
<1> QED
  BY <1>1, <1>2, SumType

\* Nothing adds up to nothing.
LEMMA TotalNothing == \A a : Total(a, {}) = 0 /\ Total(a, {})' = 0
<1> SUFFICES ASSUME NEW a PROVE Total(a, {}) = 0 /\ Total(a, {})' = 0
  OBVIOUS
<1> DEFINE f == [t \in TxnIds |-> entry[t][a]]
           g == [t \in TxnIds |-> entry'[t][a]]
<1>1. Total(a, {}) = SumOver(f, {}) /\ Total(a, {})' = SumOver(g, {})
  BY ColumnSum
<1> HIDE DEF f, g
<1> QED
  BY <1>1, SumNothing

\* A transaction inserted beside others adds its entry.
LEMMA TotalAdds ==
  ASSUME NEW a \in Accounts, NEW S \in SUBSET TxnIds, NEW n \in TxnIds \ S, AmountsOK,
         \A t \in S : entry'[t] = entry[t], entry'[n][a] \in Int
  PROVE  Total(a, S \union {n})' = Total(a, S) + entry'[n][a]
<1> DEFINE f == [t \in TxnIds |-> entry[t][a]]
           g == [t \in TxnIds |-> entry'[t][a]]
<1>1. IsFiniteSet(S) /\ S \union {n} \in SUBSET TxnIds
  BY FiniteAssumption, FS_Subset
<1>2. Total(a, S) = SumOver(f, S) /\ Total(a, S \union {n})' = SumOver(g, S \union {n})
  BY <1>1, ColumnSum
<1>3. /\ \A t \in S : g[t] = f[t] /\ f[t] \in Int /\ g[t] \in Int
      /\ g[n] = entry'[n][a]
  BY DEF AmountsOK
<1> HIDE DEF f, g
<1>4. SumOver(g, S \union {n}) = g[n] + SumOver(g, S)
  BY <1>1, <1>3, SumOneMore
<1>5. SumOver(g, S) = SumOver(f, S)
  BY <1>1, <1>3, SumSame
<1>6. PICK s \in Int : s = SumOver(f, S)
  BY <1>1, <1>3, SumType
<1> QED
  BY <1>2, <1>3, <1>4, <1>5, <1>6

\* The part of two sets with nothing in common is the sum of the two.
LEMMA TotalUnion ==
  ASSUME NEW a \in Accounts, NEW R \in SUBSET TxnIds, NEW S \in SUBSET TxnIds,
         R \intersect S = {}, AmountsOK
  PROVE  Total(a, R \union S) = Total(a, R) + Total(a, S)
<1> DEFINE f == [t \in TxnIds |-> entry[t][a]]
<1>1. IsFiniteSet(R) /\ IsFiniteSet(S) /\ R \union S \in SUBSET TxnIds
  BY FiniteAssumption, FS_Subset
<1>2. /\ Total(a, R) = SumOver(f, R) /\ Total(a, S) = SumOver(f, S)
      /\ Total(a, R \union S) = SumOver(f, R \union S)
  BY <1>1, ColumnSum
<1>3. \A t \in R \union S : f[t] \in Int
  BY DEF AmountsOK
<1> HIDE DEF f
<1> QED
  BY <1>1, <1>2, <1>3, SumUnion

\* Mirrored legs, of any entry, are amounts that balance.
LEMMA LegsBalance ==
  ASSUME NEW a \in Accounts, NEW b \in Accounts, a # b, NEW e \in Entry
  PROVE  /\ Legs(a, b, e) \in [Accounts -> Int]
         /\ Legs(a, b, e)[a] = Signed(e) /\ Legs(a, b, e)[b] = -Signed(e)
         /\ \A x \in Accounts \ {a, b} : Legs(a, b, e)[x] = 0
         /\ SumOver(Legs(a, b, e), Accounts) = 0
<1>1. PICK s \in Int : s = Signed(e) /\ Signed(Swap(e)) = -s
  BY SwapCancels DEF Signed, Entry
<1> DEFINE f == Legs(a, b, e)
<1>2. /\ f \in [Accounts -> Int] /\ f[a] = s /\ f[b] = -s
      /\ \A x \in Accounts \ {a, b} : f[x] = 0
  BY <1>1 DEF Legs
<1>3. f = Legs(a, b, e)
  OBVIOUS
<1> HIDE DEF f
<1>4. IsFiniteSet(Accounts \ {a}) /\ b \in Accounts \ {a}
  BY AccountsFinite, FS_Subset
<1>5. SumOver(f, Accounts \ {a}) = -s
  <2>1. f[b] \in Int /\ \A x \in (Accounts \ {a}) \ {b} : f[x] = 0
    BY <1>2
  <2> QED
    BY <1>2, <1>4, <2>1, SumOnly
<1>6. SumOver(f, Accounts) = s + -s
  BY <1>2, <1>5, AccountsFinite, SumTakeOut
<1> QED
  BY <1>1, <1>2, <1>3, <1>6

\* A reversal balances as the transaction it reverses does.
LEMMA NegatedBalance ==
  ASSUME NEW amounts \in [Accounts -> Int], SumOver(amounts, Accounts) = 0
  PROVE  Negated(amounts) \in [Accounts -> Int] /\ SumOver(Negated(amounts), Accounts) = 0
<1> DEFINE g == Negated(amounts)
<1>1. g \in [Accounts -> Int] /\ \A x \in Accounts : amounts[x] \in Int /\ g[x] = -amounts[x]
  BY DEF Negated
<1>3. g = Negated(amounts)
  OBVIOUS
<1> HIDE DEF g
<1>2. SumOver(g, Accounts) = -SumOver(amounts, Accounts)
  BY <1>1, AccountsFinite, SumOpposite
<1>4. PICK s \in Int : s = SumOver(amounts, Accounts) /\ s = 0
  OBVIOUS
<1>5. SumOver(g, Accounts) = -s
  BY <1>2, <1>4
<1>6. -s = 0 - s
  OBVIOUS
<1>7. 0 - s = 0
  BY <1>4
<1>8. SumOver(g, Accounts) = 0
  BY <1>5, <1>6, <1>7
<1> QED
  BY <1>1, <1>3, <1>8

-----------------------------------------------------------------------------
(***************************************************************************)
(* The amounts, and what a close's postings leave in Income Summary.       *)
(***************************************************************************)

\* An empty ledger adds up to nothing.
LEMMA InitSums == Init => SumsInv /\ BalancedOK
<1> SUFFICES ASSUME Init PROVE SumsInv /\ BalancedOK
  OBVIOUS
<1>1. AmountsOK
  BY DEF Init, AmountsOK, NoEntries, NoRequest
<1>2. SummaryOK
  <2>1. ASSUME NEW c \in CloseIds PROVE Total(IncomeSummary, close[c].entries) = 0
    <3>1. close[c].entries = {}
      BY DEF Init, FreeClose
    <3> QED
      BY <3>1, TotalNothing
  <2> QED
    BY <2>1 DEF Init, SummaryOK
<1>3. ASSUME NEW t \in TxnIds PROVE MapThenSumSet(LAMBDA a : entry[t][a], Accounts) = 0
  <2>1. SumOver(entry[t], Accounts) = 0
    <3>1. \A a \in Accounts : entry[t][a] = 0
      BY DEF Init, NoEntries
    <3> QED
      BY <3>1, AccountsFinite, SumZero
  <2> QED
    BY <2>1 DEF SumOver
<1> QED
  BY <1>1, <1>2, <1>3 DEF SumsInv, BalancedOK

\* An entry that moves an account is one the table accepts.
LEMMA DeltaEntry ==
  ASSUME NEW normal \in {"DEBIT", "CREDIT"}, NEW delta \in Int
  PROVE  /\ EntryForNormalDelta(normal, delta) \in Entry
         /\ Signed(EntryForNormalDelta(normal, delta)) = IF normal = "DEBIT" THEN delta ELSE -delta
BY DEF EntryForNormalDelta, Magnitude, Entry, Signed

\* What PostSweep takes out of Income Summary is what is in it.
LEMMA IncomeSummaryDeltaIs ==
  ASSUME AmountsOK, NEW w \in Workers
  PROVE  /\ IncomeSummaryDelta(w) = -Total(IncomeSummary, Own(w))
         /\ Total(IncomeSummary, Own(w)) \in Int /\ -IncomeSummaryDelta(w) \in Int
<1> DEFINE f == [t \in TxnIds |-> entry[t][IncomeSummary]]
           g == [t \in TxnIds |-> -entry[t][IncomeSummary]]
<1>1. Own(w) \in SUBSET TxnIds /\ IsFiniteSet(Own(w)) /\ IncomeSummary \in Accounts
  BY FiniteAssumption, FS_Subset DEF Own, Accounts
<1>2. IncomeSummaryDelta(w) = SumOver(g, Own(w))
  <2>1. PICK S \in SUBSET TxnIds : S = Own(w)
    BY <1>1
  <2>2. MapThenSumSet(LAMBDA t : -entry[t][IncomeSummary], S) = SumOver(g, S)
    BY DEF SumOver, MapThenSumSet, MapThenFoldSet
  <2> QED
    BY <2>1, <2>2 DEF IncomeSummaryDelta
<1>3. Total(IncomeSummary, Own(w)) = SumOver(f, Own(w))
  BY <1>1, ColumnSum
<1>4. \A t \in Own(w) : f[t] \in Int /\ g[t] = -f[t]
  BY <1>1 DEF AmountsOK
<1> HIDE DEF f, g
<1>5. PICK s \in Int : s = SumOver(f, Own(w))
  BY <1>1, <1>4, SumType
<1>6. SumOver(g, Own(w)) = -s
  BY <1>1, <1>4, <1>5, SumOpposite
<1> QED
  BY <1>2, <1>3, <1>5, <1>6

\* What a statement that writes entries writes: a posting whose debits equal
\* its credits, a transaction's opposite, or the two legs of a close's posting.
Written(w, amounts) ==
  \/ \E draft \in Drafts : Balances(draft) /\ amounts = Kept(draft)
  \/ \E t \in TxnIds : amounts = Negated(entry[t])
  \/ \E a \in Accounts, b \in Accounts, e \in Entry : a # b /\ amounts = Legs(a, b, e)

\* Every step inserts one transaction, rolls back, or leaves the entries alone.
LEMMA EntrySteps ==
  ASSUME IInv, AmountsOK, NEW w \in Workers, Begin(w) \/ Step(w) \/ Abort(w)
  PROVE  \/ Rollback(w)
         \/ entry' = entry
         \/ \E date, rev, amounts : ~NoTxnLeft /\ Insert(w, date, rev, amounts) /\ Written(w, amounts)
<1>1. CASE CreateLedgerTransaction(w)
  BY <1>1 DEF CreateLedgerTransaction, Written
<1>2. CASE InsertReversal(w)
  <2>1. PICK t \in TxnIds : t = req[w].target
    BY <1>2 DEF IInv, ReopensOK, InsertReversal
  <2> QED
    BY <1>2, <2>1 DEF InsertReversal, Written
<1>3. CASE PostReversal(w)
  <2>1. ASSUME NEW t \in req[w].pend
        PROVE  t \in TxnIds
    BY <1>3 DEF IInv, RowsOK, Request
  <2> QED
    BY <1>3, <2>1 DEF PostReversal, Written
<1>4. CASE PostZeroing(w)
  <2>1. CASE Locked(w, req[w].date) \/ NoTxnLeft
    BY <1>4, <2>1 DEF PostZeroing
  <2>2. CASE ~(Locked(w, req[w].date) \/ NoTxnLeft)
    <3>1. PICK a \in req[w].todo :
            Insert(w, req[w].date, NoTxn,
                   Legs(a, IncomeSummary, EntryForNormalDelta(NormalBalance(a), -net[w][a])))
      BY <1>4, <2>2 DEF PostZeroing
    <3>2. a \in Accounts /\ IncomeSummary \in Accounts /\ a # IncomeSummary
      BY AccountAssumption DEF AmountsOK, Temporary, Accounts
    <3>3. EntryForNormalDelta(NormalBalance(a), -net[w][a]) \in Entry
      <4>1. -net[w][a] \in Int /\ NormalBalance(a) \in {"DEBIT", "CREDIT"}
        BY <3>2 DEF AmountsOK, NormalBalance
      <4> QED
        BY <4>1, DeltaEntry
    <3> QED
      BY <2>2, <3>1, <3>2, <3>3 DEF Written
  <2> QED
    BY <2>1, <2>2
<1>5. CASE PostSweep(w)
  <2>1. CASE IncomeSummaryDelta(w) = 0 \/ Locked(w, req[w].date) \/ NoTxnLeft
    BY <1>5, <2>1 DEF PostSweep
  <2>2. CASE ~(IncomeSummaryDelta(w) = 0 \/ Locked(w, req[w].date) \/ NoTxnLeft)
    <3>1. Insert(w, req[w].date, NoTxn,
                 Legs(IncomeSummary, RetainedEarnings,
                      EntryForNormalDelta("CREDIT", -IncomeSummaryDelta(w))))
      BY <1>5, <2>2 DEF PostSweep
    <3>2. IncomeSummary \in Accounts /\ RetainedEarnings \in Accounts /\ IncomeSummary # RetainedEarnings
      BY AccountAssumption DEF Accounts
    <3>3. EntryForNormalDelta("CREDIT", -IncomeSummaryDelta(w)) \in Entry
      BY IncomeSummaryDeltaIs, DeltaEntry
    <3> QED
      BY <2>2, <3>1, <3>2, <3>3 DEF Written
  <2> QED
    BY <2>1, <2>2
<1>6. CASE \/ CheckReversible(w) \/ BeginClose(w) \/ CheckReverse(w) \/ ReadBalances(w)
           \/ CreatePeriodClose(w) \/ BeginReverse(w) \/ MarkReversed(w) \/ Commit(w) \/ Abort(w)
  BY <1>6 DEF CheckReversible, BeginClose, CheckReverse, ReadBalances, CreatePeriodClose,
     BeginReverse, MarkReversed, Commit, Abort
<1> QED
  BY <1>1, <1>2, <1>3, <1>4, <1>5, <1>6 DEF Begin, Step

\* Whatever is written, its amounts are amounts ...
LEMMA WrittenType ==
  ASSUME AmountsOK, NEW w, NEW amounts, Written(w, amounts)
  PROVE  amounts \in [Accounts -> Int]
<1>1. ASSUME NEW draft \in Drafts, amounts = Kept(draft)
      PROVE  amounts \in [Accounts -> Int]
  <2>1. ASSUME NEW x \in Int
        PROVE  Stored(x, CentParts) \in Int
    BY DraftAssumption DEF Stored
  <2>2. \A a \in Accounts : draft[a] \in Int
    BY DraftAssumption
  <2> QED
    BY <1>1, <2>1, <2>2 DEF Kept
<1>2. ASSUME NEW t \in TxnIds, amounts = Negated(entry[t])
      PROVE  amounts \in [Accounts -> Int]
  BY <1>2 DEF Negated, AmountsOK
<1>3. ASSUME NEW a \in Accounts, NEW b \in Accounts, NEW e \in Entry, a # b, amounts = Legs(a, b, e)
      PROVE  amounts \in [Accounts -> Int]
  BY <1>3, LegsBalance
<1> QED
  BY <1>1, <1>2, <1>3 DEF Written

\* ... and of whole cents, they balance.
LEMMA WrittenBalance ==
  ASSUME CentParts = 1, AmountsOK, BalancedOK, NEW w, NEW amounts, Written(w, amounts)
  PROVE  SumOver(amounts, Accounts) = 0
<1>1. ASSUME NEW draft \in Drafts, Balances(draft), amounts = Kept(draft)
      PROVE  SumOver(amounts, Accounts) = 0
  <2>1. draft \in [Accounts -> Int] /\ SumOver(draft, Accounts) = 0
    BY <1>1, DraftAssumption DEF Balances, SumOver
  <2>2. \A a \in Accounts : Stored(draft[a], CentParts) = draft[a]
    BY <2>1, WholeCentsKept
  <2>3. amounts = draft
    BY <1>1, <2>1, <2>2 DEF Kept
  <2> QED
    BY <2>1, <2>3
<1>2. ASSUME NEW t \in TxnIds, amounts = Negated(entry[t])
      PROVE  SumOver(amounts, Accounts) = 0
  <2>1. entry[t] \in [Accounts -> Int] /\ SumOver(entry[t], Accounts) = 0
    BY DEF AmountsOK, BalancedOK, SumOver
  <2> QED
    BY <1>2, <2>1, NegatedBalance
<1>3. ASSUME NEW a \in Accounts, NEW b \in Accounts, NEW e \in Entry, a # b, amounts = Legs(a, b, e)
      PROVE  SumOver(amounts, Accounts) = 0
  BY <1>3, LegsBalance
<1> QED
  BY <1>1, <1>2, <1>3 DEF Written

\* Every step writes amounts.
LEMMA EntryType ==
  ASSUME IInv, AmountsOK, NEW w \in Workers, Begin(w) \/ Step(w) \/ Abort(w)
  PROVE  entry' \in [TxnIds -> [Accounts -> Int]]
<1>1. CASE Rollback(w)
  BY <1>1 DEF Rollback, AmountsOK, NoEntries
<1>2. CASE entry' = entry
  BY <1>2 DEF AmountsOK
<1>3. ASSUME NEW date, NEW rev, NEW amounts, Insert(w, date, rev, amounts), Written(w, amounts)
      PROVE  entry' \in [TxnIds -> [Accounts -> Int]]
  BY <1>3, WrittenType DEF Insert, AmountsOK
<1> QED
  BY <1>1, <1>2, <1>3, EntrySteps

\* The balances a close has read are amounts.
LEMMA NetType ==
  ASSUME IInv, AmountsOK, NEW w \in Workers, Begin(w) \/ Step(w) \/ Abort(w)
  PROVE  net' \in [Workers -> [Accounts -> Int]]
<1>1. CASE ReadBalances(w)
  <2> DEFINE S == {t \in TxnIds : VisibleTxn(w, t) /\ txn[t].date \in req[w].start .. req[w].date}
  <2>1. ASSUME NEW a \in Accounts
        PROVE  NetBalance(NormalBalance(a), BalanceBetween(w, a, req[w].start, req[w].date), 0) \in Int
    <3>1. BalanceBetween(w, a, req[w].start, req[w].date) = Total(a, S)
      BY DEF BalanceBetween, Total
    <3>2. S \in SUBSET TxnIds
      OBVIOUS
    <3> HIDE DEF S
    <3> QED
      BY <3>1, <3>2, TotalType DEF NetBalance
  <2> QED
    BY <1>1, <2>1 DEF ReadBalances, AmountsOK
<1>2. CASE Rollback(w) \/ Commit(w)
  BY <1>2 DEF Rollback, Commit, Finish, AmountsOK, NoEntries
<1>3. CASE net' = net
  BY <1>3 DEF AmountsOK
<1>4. ReadBalances(w) \/ Rollback(w) \/ Commit(w) \/ net' = net
  BY DEF Begin, Step, Abort, CreateLedgerTransaction, CheckReversible, InsertReversal, BeginClose,
     PostZeroing, PostSweep, CreatePeriodClose, CheckReverse, BeginReverse, MarkReversed,
     PostReversal, Insert
<1> QED
  BY <1>1, <1>2, <1>3, <1>4

\* What is left to zero are temporary accounts.
LEMMA TodoType ==
  ASSUME IInv, AmountsOK, NEW w \in Workers, Begin(w) \/ Step(w) \/ Abort(w)
  PROVE  \A v \in Workers : req'[v].todo \subseteq Temporary
<1>1. \E r : req' = [req EXCEPT ![w] = r] /\ r.todo \subseteq Temporary
  <2>1. /\ req \in [Workers -> Request] /\ req[w].todo \subseteq Temporary
        /\ req = [req EXCEPT ![w] = req[w]]
    BY DEF IInv, RowsOK, AmountsOK
  <2>2. CASE Rollback(w) \/ Commit(w)
    <3>1. req' = [req EXCEPT ![w] = NoRequest] /\ NoRequest.todo = {}
      BY <2>2 DEF Rollback, Commit, Finish, NoRequest
    <3> QED
      BY <3>1
  <2>3. CASE req' = req
    BY <2>1, <2>3
  <2>4. CASE CheckReversible(w)
    <3>1. PICK t, date : req' = [req EXCEPT ![w] = ReversalRequest(t, date)]
      BY <2>4 DEF CheckReversible
    <3>2. ReversalRequest(t, date).todo = {}
      BY DEF ReversalRequest, NoRequest
    <3> QED
      BY <3>1, <3>2
  <2>5. CASE BeginClose(w)
    <3>1. PICK start, end : req' = [req EXCEPT ![w] = CloseRequest(start, end)]
      BY <2>5 DEF BeginClose
    <3>2. CloseRequest(start, end).todo = {}
      BY DEF CloseRequest, NoRequest
    <3> QED
      BY <3>1, <3>2
  <2>6. CASE ReadBalances(w)
    <3>1. PICK todo : todo \subseteq Temporary /\ req' = [req EXCEPT ![w].todo = todo]
      BY <2>6 DEF ReadBalances
    <3>2. req' = [req EXCEPT ![w] = [req[w] EXCEPT !.todo = todo]]
      BY <3>1
    <3>3. [req[w] EXCEPT !.todo = todo].todo = todo
      BY <2>1 DEF Request
    <3> QED
      BY <3>1, <3>2, <3>3
  <2>7. CASE \E a : req' = [req EXCEPT ![w].todo = @ \ {a}]
    <3>1. PICK a : req' = [req EXCEPT ![w].todo = @ \ {a}]
      BY <2>7
    <3>2. req' = [req EXCEPT ![w] = [req[w] EXCEPT !.todo = req[w].todo \ {a}]]
      BY <3>1
    <3>3. [req[w] EXCEPT !.todo = req[w].todo \ {a}].todo = req[w].todo \ {a}
      BY <2>1 DEF Request
    <3> QED
      BY <2>1, <3>2, <3>3
  <2>8. CASE \E c : req' = [req EXCEPT ![w].close = c]
    <3>1. PICK c : req' = [req EXCEPT ![w] = [req[w] EXCEPT !.close = c]]
      BY <2>8
    <3>2. [req[w] EXCEPT !.close = c].todo = req[w].todo
      BY <2>1 DEF Request
    <3> QED
      BY <2>1, <3>1, <3>2
  <2>9. CASE \E P : req' = [req EXCEPT ![w].pend = P]
    <3>1. PICK P : req' = [req EXCEPT ![w] = [req[w] EXCEPT !.pend = P]]
      BY <2>9
    <3>2. [req[w] EXCEPT !.pend = P].todo = req[w].todo
      BY <2>1 DEF Request
    <3> QED
      BY <2>1, <3>1, <3>2
  <2>10. CASE PostReversal(w)
    <3>1. Rollback(w) \/ \E t : req' = [req EXCEPT ![w].pend = @ \ {t}]
      BY <2>10 DEF PostReversal
    <3>2. ASSUME NEW t, req' = [req EXCEPT ![w].pend = @ \ {t}]
          PROVE  req' = [req EXCEPT ![w].pend = req[w].pend \ {t}]
      BY <3>2
    <3> QED
      BY <2>2, <2>9, <3>1, <3>2
  <2>11. CASE PostZeroing(w)
    BY <2>2, <2>7, <2>11 DEF PostZeroing
  <2>12. CASE CheckReverse(w) \/ MarkReversed(w)
    BY <2>2, <2>8, <2>9, <2>12 DEF CheckReverse, MarkReversed
  <2>13. CASE \/ CreateLedgerTransaction(w) \/ InsertReversal(w) \/ PostSweep(w)
              \/ CreatePeriodClose(w) \/ BeginReverse(w) \/ Abort(w)
    BY <2>2, <2>3, <2>13 DEF CreateLedgerTransaction, InsertReversal, PostSweep,
       CreatePeriodClose, BeginReverse, Abort
  <2> QED
    BY <2>2, <2>4, <2>5, <2>6, <2>10, <2>11, <2>12, <2>13 DEF Begin, Step
<1> QED
  BY <1>1 DEF IInv, RowsOK, AmountsOK

\* The entries of a close and of a request are transactions.
LEMMA PartsType ==
  ASSUME IInv
  PROVE  /\ \A c \in CloseIds : close[c].entries \in SUBSET TxnIds
         /\ \A w \in Workers : Own(w) \in SUBSET TxnIds
BY DEF IInv, RowsOK, CloseRow, Own

\* The row CreatePeriodClose writes.
LEMMA NewClose ==
  ASSUME IInv, NEW w \in Workers, CreatePeriodClose(w), ~Rollback(w)
  PROVE  \E n \in CloseIds :
           /\ close[n].st = "free" /\ close'[n].st = "open" /\ close'[n].by = w
           /\ close'[n].start = req[w].start /\ close'[n].end = req[w].date
           /\ close'[n].entries = Own(w)
           /\ \A c \in CloseIds \ {n} : close'[c] = close[c]
<1>1. PICK n \in CloseIds : n = FreshClose /\ close[n].st = "free"
  BY FreshCloseIsFree DEF CreatePeriodClose
<1>2. close' = [close EXCEPT ![n] = [st |-> "open", by |-> w, start |-> req[w].start,
                                     end |-> req[w].date, entries |-> Own(w)]]
  BY <1>1 DEF CreatePeriodClose
<1> QED
  BY <1>1, <1>2 DEF IInv, RowsOK

\* The row MarkReversed marks.
LEMMA MarkedClose ==
  ASSUME IInv, NEW w \in Workers, MarkReversed(w), ~Rollback(w)
  PROVE  \E n \in CloseIds :
           /\ n = req[w].close /\ close[n].st = "active" /\ close'[n].st = "reversing"
           /\ close'[n].start = close[n].start /\ close'[n].end = close[n].end
           /\ close'[n].entries = close[n].entries
           /\ \A c \in CloseIds \ {n} : close'[c] = close[c]
<1>1. PICK n \in CloseIds : n = req[w].close /\ close[n].st = "active"
  BY DEF MarkReversed, IInv, ReopensOK
<1>2. close' = [close EXCEPT ![n] = Owned(close[n], "reversing", w)]
  BY <1>1 DEF MarkReversed
<1>3. close[n] \in CloseRow /\ DOMAIN close = CloseIds
  BY DEF IInv, RowsOK
<1>4. /\ Owned(close[n], "reversing", w).st = "reversing"
      /\ Owned(close[n], "reversing", w).start = close[n].start
      /\ Owned(close[n], "reversing", w).end = close[n].end
      /\ Owned(close[n], "reversing", w).entries = close[n].entries
  BY <1>3 DEF CloseRow, Owned
<1>5. close'[n] = Owned(close[n], "reversing", w) /\ \A c \in CloseIds \ {n} : close'[c] = close[c]
  BY <1>2, <1>3
<1> QED
  BY <1>1, <1>4, <1>5

\* What a step does to the postings a close lists: they are gone with it, they
\* are what they were, or they are all its transaction has posted.
LEMMA ClosePostings ==
  ASSUME IInv, NEW w \in Workers, Begin(w) \/ Step(w) \/ Abort(w), NEW c \in CloseIds
  PROVE  \/ close'[c].entries = {}
         \/ close'[c].entries = close[c].entries /\ \A t \in close[c].entries : entry'[t] = entry[t]
         \/ pc[w] = "close" /\ close'[c].entries = Own(w) /\ entry' = entry
<1>1. PICK S \in SUBSET TxnIds : S = close[c].entries
  BY PartsType
<1>2. CASE Rollback(w)
  <2>1. CASE close[c].by = w /\ close[c].st = "open"
    BY <1>2, <2>1 DEF Rollback, FreeClose
  <2>2. CASE ~(close[c].by = w /\ close[c].st = "open")
    <3>1. close'[c].entries = S
      BY <1>1, <1>2, <2>2, RollbackRows DEF IInv
    <3>2. ASSUME NEW t \in S
          PROVE  t \notin Own(w)
      <4>1. txn[t].st = "live" \/ (close[c].st = "open" /\ txn[t].by = close[c].by)
        BY <1>1, <3>2 DEF IInv, EntriesOK
      <4> QED
        BY <2>2, <4>1 DEF Own
    <3>3. \A t \in S : entry'[t] = entry[t]
      BY <1>2, <3>2 DEF Rollback
    <3> QED
      BY <1>1, <3>1, <3>3
  <2> QED
    BY <2>1, <2>2
<1>3. CASE CreatePeriodClose(w) /\ ~Rollback(w)
  <2>1. PICK n \in CloseIds : /\ close'[n].entries = Own(w)
                              /\ \A d \in CloseIds \ {n} : close'[d] = close[d]
    BY <1>3, NewClose
  <2>2. entry' = entry /\ pc[w] = "close"
    BY <1>3 DEF CreatePeriodClose
  <2> QED
    BY <2>1, <2>2
<1>4. CASE Commit(w)
  BY <1>4, CommitRows DEF IInv
<1>5. CASE MarkReversed(w) /\ ~Rollback(w)
  <2>1. entry' = entry
    BY <1>5 DEF MarkReversed
  <2> QED
    BY <1>5, <2>1, MarkedClose
<1>6. ASSUME NEW date, NEW rev, NEW amounts, Insert(w, date, rev, amounts), ~NoTxnLeft
      PROVE  close'[c].entries = S /\ \A t \in S : entry'[t] = entry[t]
  <2>1. \A t \in S : t # FreshTxn
    BY <1>1, <1>6, FreshTxnIsFree DEF IInv, EntriesOK
  <2> QED
    BY <1>1, <1>6, <2>1 DEF Insert
<1>7. CASE close' = close /\ entry' = entry
  BY <1>7
<1>8. \/ Rollback(w) \/ CreatePeriodClose(w) \/ Commit(w) \/ MarkReversed(w)
      \/ close' = close /\ entry' = entry
      \/ \E date, rev, amounts : Insert(w, date, rev, amounts) /\ ~NoTxnLeft
  BY DEF Begin, Step, Abort, CreateLedgerTransaction, CheckReversible, InsertReversal, BeginClose,
     ReadBalances, PostZeroing, PostSweep, CheckReverse, BeginReverse, PostReversal
<1> QED
  BY <1>1, <1>2, <1>3, <1>4, <1>5, <1>6, <1>7, <1>8

\* The closes' postings leave Income Summary alone after every step.
LEMMA ClosesSummary ==
  ASSUME IInv, SumsInv, NEW w \in Workers, Begin(w) \/ Step(w) \/ Abort(w), NEW c \in CloseIds
  PROVE  Total(IncomeSummary, close[c].entries)' = 0
<1>1. PICK R \in SUBSET TxnIds, S \in SUBSET TxnIds : R = close[c].entries /\ S = Own(w)
  BY PartsType
<1>2. Total(IncomeSummary, R) = 0 /\ (pc[w] = "close" => Total(IncomeSummary, S) = 0)
  BY <1>1 DEF SumsInv, SummaryOK
<1>3. CASE close'[c].entries = {}
  <2>1. Total(IncomeSummary, {})' = 0
    BY TotalNothing
  <2> QED
    BY <1>3, <2>1
<1>4. CASE close'[c].entries = R /\ \A t \in R : entry'[t] = entry[t]
  <2>1. Total(IncomeSummary, R)' = 0
    BY <1>2, <1>4, TotalKept
  <2> QED
    BY <1>4, <2>1
<1>5. CASE pc[w] = "close" /\ close'[c].entries = S /\ entry' = entry
  <2>1. Total(IncomeSummary, S)' = 0
    BY <1>2, <1>5, TotalKept
  <2> QED
    BY <1>5, <2>1
<1> QED
  BY <1>1, <1>3, <1>4, <1>5, ClosePostings

\* A posting the sweep adds takes out of Income Summary what was in it.
LEMMA SweepEmpties ==
  ASSUME IInv, SumsInv, NEW w \in Workers, PostSweep(w), ~Rollback(w)
  PROVE  Total(IncomeSummary, Own(w))' = 0
<1> DEFINE d == -IncomeSummaryDelta(w)
           amounts == Legs(IncomeSummary, RetainedEarnings, EntryForNormalDelta("CREDIT", d))
<1>0. PICK S \in SUBSET TxnIds : S = Own(w)
  BY PartsType
<1>1. PICK s \in Int : s = Total(IncomeSummary, S)
  BY <1>0, TotalType DEF SumsInv, Accounts
<1>2. IncomeSummaryDelta(w) = -s
  BY <1>0, <1>1, IncomeSummaryDeltaIs DEF SumsInv
<1>3. CASE IncomeSummaryDelta(w) = 0
  <2>1. txn' = txn /\ entry' = entry
    BY <1>3 DEF PostSweep
  <2>2. S = Own(w)'
    BY <1>0, <2>1 DEF Own
  <2>3. Total(IncomeSummary, S) = 0
    <3>1. -s = 0
      BY <1>2, <1>3
    <3>2. s = -(-s)
      OBVIOUS
    <3> QED
      BY <1>1, <3>1, <3>2
  <2>4. Total(IncomeSummary, S)' = 0
    BY <2>1, <2>3, TotalKept
  <2> QED
    BY <2>2, <2>4
<1>4. CASE IncomeSummaryDelta(w) # 0
  <2>1. PICK n \in TxnIds : n = FreshTxn /\ txn[n].st = "free" /\ ~NoTxnLeft
    BY <1>4, FreshTxnIsFree DEF PostSweep
  <2>2. /\ txn' = [txn EXCEPT ![n] = [st |-> "open", by |-> w, date |-> req[w].date, rev |-> NoTxn]]
        /\ entry' = [entry EXCEPT ![n] = amounts]
    BY <1>4, <2>1 DEF PostSweep, Insert
  <2>3. Own(w)' = S \union {n}
    BY <1>0, <2>1, <2>2 DEF Own, IInv, RowsOK
  <2>4. n \in TxnIds \ S /\ \A t \in S : entry'[t] = entry[t]
    BY <1>0, <2>1, <2>2 DEF Own
  <2>5. entry'[n] = amounts
    BY <2>2 DEF SumsInv, AmountsOK
  <2>6. amounts[IncomeSummary] = -s
    <3>1. d \in Int /\ d = -(-s)
      BY <1>2
    <3>2. Signed(EntryForNormalDelta("CREDIT", d)) = -d /\ EntryForNormalDelta("CREDIT", d) \in Entry
      BY <3>1, DeltaEntry
    <3>3. amounts[IncomeSummary] = Signed(EntryForNormalDelta("CREDIT", d))
      BY <3>2, LegsBalance, AccountAssumption DEF Accounts
    <3> QED
      BY <3>1, <3>2, <3>3
  <2> HIDE DEF amounts
  <2>7. Total(IncomeSummary, S \union {n})' = Total(IncomeSummary, S) + entry'[n][IncomeSummary]
    <3>1. entry'[n][IncomeSummary] \in Int /\ IncomeSummary \in Accounts
      BY <2>5, <2>6 DEF Accounts
    <3> QED
      BY <2>4, <3>1, TotalAdds DEF SumsInv
  <2>8. Total(IncomeSummary, S \union {n})' = s + -s
    BY <1>1, <2>5, <2>6, <2>7
  <2> QED
    BY <2>3, <2>8
<1> QED
  BY <1>3, <1>4

\* Nobody else's transaction changes under a request about to insert its close.
LEMMA OwnKept ==
  ASSUME IInv, NEW w \in Workers, Begin(w) \/ Step(w) \/ Abort(w), NEW v \in Workers, v # w
  PROVE  Own(v)' = Own(v) /\ \A t \in Own(v) : entry'[t] = entry[t]
<1>1. ASSUME NEW date, NEW rev, NEW amounts, Insert(w, date, rev, amounts), ~NoTxnLeft
      PROVE  Own(v)' = Own(v) /\ \A t \in Own(v) : entry'[t] = entry[t]
  <2>1. PICK n \in TxnIds : n = FreshTxn /\ txn[n].st = "free"
    BY <1>1, FreshTxnIsFree
  <2> QED
    BY <1>1, <2>1 DEF Insert, Own, IInv, RowsOK
<1>2. CASE Rollback(w)
  BY <1>2, RollbackRows DEF IInv, Own
<1>3. CASE Commit(w)
  BY <1>3, CommitRows DEF IInv, Own
<1>4. CASE txn' = txn /\ entry' = entry
  BY <1>4 DEF Own
<1>5. \/ Rollback(w) \/ Commit(w)
      \/ txn' = txn /\ entry' = entry
      \/ \E date, rev, amounts : Insert(w, date, rev, amounts) /\ ~NoTxnLeft
  BY DEF Begin, Step, Abort, CreateLedgerTransaction, CheckReversible, InsertReversal, BeginClose,
     ReadBalances, PostZeroing, PostSweep, CheckReverse, BeginReverse, PostReversal,
     CreatePeriodClose, MarkReversed
<1> QED
  BY <1>1, <1>2, <1>3, <1>4, <1>5

\* A request about to insert its close has left Income Summary alone.
LEMMA RequestsSummary ==
  ASSUME IInv, SumsInv, NEW w \in Workers, Begin(w) \/ Step(w) \/ Abort(w),
         NEW v \in Workers, pc'[v] = "close"
  PROVE  Total(IncomeSummary, Own(v))' = 0
<1>1. CASE v = w
  <2>1. PostSweep(w) /\ ~Rollback(w)
    BY <1>1 DEF IInv, RowsOK, Begin, Step, Abort, CreateLedgerTransaction, CheckReversible,
       InsertReversal, BeginClose, ReadBalances, PostZeroing, PostSweep, CheckReverse, BeginReverse,
       PostReversal, CreatePeriodClose, MarkReversed, Commit, Rollback, Finish, Goto
  <2> QED
    BY <1>1, <2>1, SweepEmpties
<1>2. CASE v # w
  <2>1. PICK S \in SUBSET TxnIds : S = Own(v)
    BY PartsType
  <2>2. Own(v)' = S /\ \A t \in S : entry'[t] = entry[t]
    BY <1>2, <2>1, OwnKept
  <2>3. pc[v] = "close"
    BY <1>2 DEF IInv, RowsOK, Begin, Step, Abort, CreateLedgerTransaction, CheckReversible,
       InsertReversal, BeginClose, ReadBalances, PostZeroing, PostSweep, CheckReverse, BeginReverse,
       PostReversal, CreatePeriodClose, MarkReversed, Commit, Rollback, Finish, Goto
  <2>4. Total(IncomeSummary, S) = 0
    BY <2>1, <2>3 DEF SumsInv, SummaryOK
  <2>5. Total(IncomeSummary, S)' = 0
    BY <2>2, <2>4, TotalKept
  <2> QED
    BY <2>2, <2>5
<1> QED
  BY <1>1, <1>2

\* Every step keeps the amounts amounts and Income Summary alone.
LEMMA NextSums == IInv /\ SumsInv /\ [Next]_vars => SumsInv'
<1> SUFFICES ASSUME IInv, SumsInv, [Next]_vars PROVE SumsInv'
  OBVIOUS
<1>1. ASSUME NEW w \in Workers, Begin(w) \/ Step(w) \/ Abort(w)
      PROVE  SumsInv'
  <2>1. AmountsOK'
    BY <1>1, EntryType, NetType, TodoType DEF SumsInv, AmountsOK
  <2>2. SummaryOK'
    BY <1>1, ClosesSummary, RequestsSummary DEF SummaryOK
  <2> QED
    BY <2>1, <2>2 DEF SumsInv
<1>2. CASE UNCHANGED vars
  <2>1. /\ entry' = entry /\ close' = close /\ txn' = txn /\ pc' = pc /\ net' = net /\ req' = req
    BY <1>2 DEF vars
  <2>2. AmountsOK'
    BY <2>1 DEF SumsInv, AmountsOK
  <2>3. ASSUME NEW c \in CloseIds PROVE Total(IncomeSummary, close[c].entries)' = 0
    <3>1. PICK S \in SUBSET TxnIds : S = close[c].entries
      BY PartsType
    <3> QED
      BY <2>1, <3>1, TotalKept DEF SumsInv, SummaryOK
  <2>4. ASSUME NEW w \in Workers, pc'[w] = "close" PROVE Total(IncomeSummary, Own(w))' = 0
    <3>1. PICK S \in SUBSET TxnIds : S = Own(w)
      BY PartsType
    <3>2. S = Own(w)'
      BY <2>1, <3>1 DEF Own
    <3> QED
      BY <2>1, <2>4, <3>1, <3>2, TotalKept DEF SumsInv, SummaryOK
  <2> QED
    BY <2>2, <2>3, <2>4 DEF SumsInv, SummaryOK
<1> QED
  BY <1>1, <1>2 DEF Next

\* Every step keeps every transaction balanced.
LEMMA NextBalanced ==
  ASSUME CentParts = 1, IInv, AmountsOK, BalancedOK, [Next]_vars
  PROVE  BalancedOK'
<1> SUFFICES ASSUME NEW t \in TxnIds
             PROVE  (MapThenSumSet(LAMBDA a : entry[t][a], Accounts) = 0)'
  BY DEF BalancedOK
<1>0. SUFFICES SumOver(entry'[t], Accounts) = 0
  BY DEF SumOver, MapThenSumSet, MapThenFoldSet
<1>1. SumOver(entry[t], Accounts) = 0
  BY DEF BalancedOK, SumOver
<1>2. SumOver(NoEntries, Accounts) = 0
  <2>1. \A a \in Accounts : NoEntries[a] = 0
    BY DEF NoEntries
  <2> QED
    BY <2>1, AccountsFinite, SumZero
<1>3. ASSUME NEW w \in Workers, Begin(w) \/ Step(w) \/ Abort(w)
      PROVE  SumOver(entry'[t], Accounts) = 0
  <2>1. CASE Rollback(w)
    BY <1>1, <1>2, <2>1 DEF Rollback
  <2>2. CASE entry' = entry
    BY <1>1, <2>2
  <2>3. ASSUME NEW date, NEW rev, NEW amounts, Insert(w, date, rev, amounts), Written(w, amounts)
        PROVE  SumOver(entry'[t], Accounts) = 0
    <3>1. SumOver(amounts, Accounts) = 0
      BY <2>3, WrittenBalance
    <3>2. entry'[t] = amounts \/ entry'[t] = entry[t]
      BY <2>3 DEF Insert, AmountsOK
    <3> QED
      BY <1>1, <3>1, <3>2
  <2> QED
    BY <1>3, <2>1, <2>2, <2>3, EntrySteps
<1>4. CASE UNCHANGED vars
  BY <1>1, <1>4 DEF vars
<1> QED
  BY <1>3, <1>4 DEF Next

\* Whatever requests do to each other, the postings of a committed close leave
\* Income Summary where it was: the sweep takes out what that close's own
\* zeroing postings put in, and nobody else's.
THEOREM SweepsSummary == Spec => []CloseSweepsSummary
<1>1. Init => SumsInv
  BY InitSums
<1>2. IInv /\ SumsInv /\ [Next]_vars => SumsInv'
  BY NextSums
<1>3. SumsInv => CloseSweepsSummary
  BY DEF SumsInv, SummaryOK, CloseSweepsSummary, Total
<1> QED
  BY <1>1, <1>2, <1>3, Invariance, PTL DEF Spec

\* Of clients that send whole cents: every transaction anybody can see has
\* debits equal to its credits, those a close, its sweep and a reversal post
\* included, which no handler checks and no constraint of the schema enforces.
THEOREM Balanced ==
  ASSUME CentParts = 1
  PROVE  Spec => []LedgerBalanced
<1>1. Init => SumsInv /\ BalancedOK
  BY InitSums
<1>2. IInv /\ SumsInv /\ [Next]_vars => SumsInv'
  BY NextSums
<1>3. IInv /\ SumsInv /\ BalancedOK /\ [Next]_vars => BalancedOK'
  BY NextBalanced DEF SumsInv
<1>4. BalancedOK => LedgerBalanced
  BY DEF BalancedOK, LedgerBalanced
<1> QED
  BY <1>1, <1>2, <1>3, <1>4, Invariance, PTL DEF Spec

-----------------------------------------------------------------------------
(***************************************************************************)
(* One request at a time.                                                  *)
(***************************************************************************)

\* Before any close nothing is in force.
LEMMA InitAlone == Init => AloneInv
<1> SUFFICES ASSUME Init PROVE AloneInv
  OBVIOUS
<1>1. /\ \A c \in CloseIds : close[c].st = "free"
      /\ \A t \in TxnIds : txn[t].st = "free"
      /\ \A w \in Workers : pc[w] = "idle"
  BY DEF Init, FreeClose, FreeTxn
<1>2. TilesOK /\ RequestsOK /\ LockOK /\ ClearedOK
  BY <1>1 DEF TilesOK, RequestsOK, LockOK, ClearedOK, InForce, Active
<1> QED
  BY <1>2 DEF AloneInv

\* Everything in flight is the one request's.
LEMMA AloneRows ==
  ASSUME Alone, IInv, NEW w \in Workers
  PROVE  /\ \A c \in CloseIds : close[c].st \in {"open", "reversing"} =>
              /\ close[c].by = w /\ pc[w] \in {"undo", "commit"}
              /\ close[c].st = "open" => pc[w] = "commit"
              /\ close[c].st = "reversing" => req[w].close = c
         /\ \A c \in CloseIds : close[c].by = w => close[c].st \in {"open", "reversing"}
         /\ \A t \in TxnIds : txn[t].st = "open" <=> t \in Own(w)
<1>1. ASSUME NEW c \in CloseIds, close[c].st \in {"open", "reversing"}
      PROVE  close[c].by = w
  BY <1>1, NullAssumption DEF Alone, IInv, OwnersOK, RowsOK, CloseRow
<1>2. ASSUME NEW t \in TxnIds, txn[t].st = "open"
      PROVE  txn[t].by = w
  BY <1>2, NullAssumption DEF Alone, IInv, OwnersOK, RowsOK, TxnRow
<1>3. w # NoWorker
  BY NullAssumption
<1> QED
  BY <1>1, <1>2, <1>3 DEF IInv, OwnersOK, Own

\* What a close's dates are.
LEMMA CloseDates ==
  ASSUME IInv
  PROVE  /\ \A c \in CloseIds : close[c].start \in Nat /\ close[c].end \in Nat
         /\ \A w \in Workers : req[w].start \in Nat /\ req[w].date \in Nat
         /\ \A t \in TxnIds : txn[t].date \in Nat
BY DatesAssumption DEF IInv, RowsOK, CloseRow, Request, TxnRow, Dates

\* What a step does to the closes.
LEMMA CloseSteps ==
  ASSUME IInv, NEW w \in Workers, Begin(w) \/ Step(w) \/ Abort(w)
  PROVE  \/ Rollback(w) \/ Commit(w) \/ CreatePeriodClose(w) \/ MarkReversed(w)
         \/ close' = close
BY DEF Begin, Step, Abort, CreateLedgerTransaction, CheckReversible, InsertReversal, BeginClose,
   ReadBalances, PostZeroing, PostSweep, CheckReverse, BeginReverse, PostReversal, Insert

\* A commit and a rollback take at most the last close out of force.
LEMMA EndedCloses ==
  ASSUME Alone, IInv, NEW w \in Workers, Commit(w) \/ Rollback(w)
  PROVE  /\ \A c \in CloseIds : close'[c].st \in {"open", "active", "reversing"} =>
              /\ close'[c].st = "active" /\ c \in InForce
              /\ close'[c].start = close[c].start /\ close'[c].end = close[c].end
              /\ close'[c].entries = close[c].entries
         /\ \A c \in InForce : close'[c].st # "active" => close[c].st # "active"
         /\ \A c \in InForce : close[c].st = "active" => close'[c] = close[c]
         /\ Commit(w) => \A c \in CloseIds : close'[c].st = "active" => close[c].st \in {"open", "active"}
         /\ Rollback(w) => \A c \in CloseIds : close'[c].st = "active" => close[c].st \in {"reversing", "active"}
<1>0. w # NoWorker /\ RowsOK
  BY NullAssumption DEF IInv
<1>1. CASE Commit(w)
  <2>1. \A c \in CloseIds :
          IF close[c].by # w THEN close'[c] = close[c]
          ELSE /\ close'[c].st = IF close[c].st = "open" THEN "active" ELSE "reversed"
               /\ close'[c].start = close[c].start /\ close'[c].end = close[c].end
               /\ close'[c].entries = close[c].entries
    BY <1>0, <1>1, CommitRows
  <2>2. pc[w] = "commit"
    BY <1>1 DEF Commit
  <2>3. ~Rollback(w) \/ \A c \in CloseIds : close[c].by # w
    <3>1. ASSUME Rollback(w), NEW c \in CloseIds, close[c].by = w PROVE FALSE
      BY <1>0, <2>1, <3>1, RollbackRows, AloneRows
    <3> QED
      BY <3>1
  <2> QED
    BY <1>0, <1>1, <2>1, <2>3, AloneRows DEF InForce
<1>2. CASE Rollback(w)
  <2>1. \A c \in CloseIds :
          IF close[c].by # w THEN close'[c] = close[c]
          ELSE IF close[c].st = "open"
               THEN close'[c].st = "free" /\ close'[c].entries = {}
               ELSE /\ close'[c].st = "active"
                    /\ close'[c].start = close[c].start /\ close'[c].end = close[c].end
                    /\ close'[c].entries = close[c].entries
    BY <1>0, <1>2, RollbackRows
  <2>2. ~Commit(w) \/ \A c \in CloseIds : close[c].by # w
    <3>1. ASSUME Commit(w), NEW c \in CloseIds, close[c].by = w PROVE FALSE
      BY <1>0, <2>1, <3>1, CommitRows, AloneRows
    <3> QED
      BY <3>1
  <2> QED
    BY <1>0, <1>2, <2>1, <2>2, AloneRows DEF InForce
<1> QED
  BY <1>1, <1>2

\* The closes in force go on following each other.
LEMMA TilesStep ==
  ASSUME Alone, IInv, TilesOK, RequestsOK, NEW w \in Workers, Begin(w) \/ Step(w) \/ Abort(w)
  PROVE  TilesOK'
<1>1. CASE Commit(w) \/ Rollback(w)
  <2>1. \A c \in InForce' :
          /\ c \in InForce /\ close'[c].st = "active"
          /\ close'[c].start = close[c].start /\ close'[c].end = close[c].end
    BY <1>1, EndedCloses DEF InForce
  <2>2. ASSUME NEW c \in InForce, NEW d \in InForce \ {c}, close[d].end + 1 = close[c].start, c \in InForce'
        PROVE  d \in InForce'
    <3>1. close[d].end < close[c].end
      <4>1. close[c].start <= close[c].end
        BY DEF TilesOK
      <4>2. c \in CloseIds /\ d \in CloseIds
        BY DEF InForce
      <4>3. close[c].start \in Nat /\ close[c].end \in Nat /\ close[d].end \in Nat
        BY <4>2, CloseDates
      <4> QED
        BY <2>2, <4>1, <4>3
    <3>2. close[d].st = "active"
      BY <2>2, <3>1, CloseDates DEF TilesOK, InForce
    <3> QED
      BY <1>1, <3>2, EndedCloses DEF InForce
  <2>3. ASSUME NEW c \in InForce'
        PROVE  /\ close'[c].start <= close'[c].end
               /\ StartsAfter(close[c].start, InForce \ {c})'
    BY <2>1, <2>2, <2>3 DEF TilesOK, StartsAfter
  <2>4. ASSUME NEW c \in InForce', NEW d \in InForce'
        PROVE  /\ close'[c].end < close'[d].end => close'[c].end < close'[d].start
               /\ close'[c].st # "active" => close'[d].end <= close'[c].end
    BY <2>1, <2>4 DEF TilesOK
  <2> QED
    BY <2>3, <2>4 DEF TilesOK
<1>2. CASE CreatePeriodClose(w) /\ ~Rollback(w)
  <2>1. PICK n \in CloseIds :
          /\ close[n].st = "free" /\ close'[n].st = "open"
          /\ close'[n].start = req[w].start /\ close'[n].end = req[w].date
          /\ \A c \in CloseIds \ {n} : close'[c] = close[c]
    BY <1>2, NewClose
  <2>2. pc[w] = "close" /\ \A c \in InForce : close[c].st = "active"
    BY <1>2, AloneRows DEF CreatePeriodClose, InForce
  <2>3. /\ InForce' = InForce \union {n} /\ n \notin InForce /\ InForce = Active
        /\ \A c \in InForce : close'[c] = close[c]
    BY <2>1, <2>2 DEF InForce, Active
  <2>4. /\ req[w].start <= req[w].date /\ StartsAfter(req[w].start, Active)
        /\ \A c \in Active : close[c].end < req[w].start
    BY <2>2 DEF RequestsOK
  <2>5. StartsAfter(close[n].start, InForce \ {n})'
    BY <2>1, <2>3, <2>4 DEF StartsAfter
  <2>6. ASSUME NEW c \in InForce
        PROVE  StartsAfter(close[c].start, InForce \ {c})'
    BY <2>3 DEF StartsAfter, TilesOK
  <2>7. /\ close'[n].start <= close'[n].end
        /\ \A c \in InForce : close'[c].start <= close'[c].end /\ close'[c].end < close'[n].start
        /\ \A c, d \in InForce : close'[c].end < close'[d].end => close'[c].end < close'[d].start
    BY <2>1, <2>3, <2>4 DEF TilesOK
  <2>8. ASSUME NEW c \in InForce' PROVE close'[c].start \in Nat /\ close'[c].end \in Nat
    BY <2>1, <2>3, CloseDates DEF InForce
  <2>9. ASSUME NEW c \in InForce', NEW d \in InForce'
        PROVE  /\ close'[c].end < close'[d].end => close'[c].end < close'[d].start
               /\ close'[c].st # "active" => close'[d].end <= close'[c].end
    BY <2>1, <2>2, <2>3, <2>7, <2>8
  <2> QED
    BY <2>3, <2>5, <2>6, <2>7, <2>9 DEF TilesOK
<1>3. CASE MarkReversed(w) /\ ~Rollback(w)
  <2>1. PICK n \in CloseIds :
           /\ n = req[w].close /\ close[n].st = "active" /\ close'[n].st = "reversing"
           /\ close'[n].start = close[n].start /\ close'[n].end = close[n].end
           /\ \A c \in CloseIds \ {n} : close'[c] = close[c]
    BY <1>3, MarkedClose
  <2>2. pc[w] = "mark" /\ \A c \in InForce : close[c].st = "active"
    BY <1>3, AloneRows DEF MarkReversed, InForce
  <2>3. /\ InForce' = InForce /\ n \in InForce
        /\ \A c \in InForce : close'[c].start = close[c].start /\ close'[c].end = close[c].end
        /\ \A c \in InForce : close'[c].st # "active" => c = n
    BY <2>1, <2>2 DEF InForce
  <2>4. \A c \in InForce : close[c].end <= close[n].end
    BY <2>1, <2>2 DEF RequestsOK, LastClose, ActiveClose, InForce
  <2>5. ASSUME NEW c \in InForce
        PROVE  StartsAfter(close[c].start, InForce \ {c})'
    BY <2>3 DEF StartsAfter, TilesOK
  <2> QED
    BY <2>3, <2>4, <2>5 DEF TilesOK
<1>4. CASE close' = close
  BY <1>4 DEF TilesOK, InForce, StartsAfter
<1> QED
  BY <1>1, <1>2, <1>3, <1>4, CloseSteps

\* Where the step of a request leaves it, and what it then holds.
LEMMA StepTo ==
  ASSUME IInv, NEW w \in Workers, Begin(w) \/ Step(w) \/ Abort(w)
  PROVE  \/ pc'[w] \notin {"balances", "zero", "close", "mark"}
         \/ BeginClose(w)
         \/ BeginReverse(w) /\ ~Rollback(w)
         \/ ReadBalances(w)
         \/ PostZeroing(w) /\ ~Rollback(w)
         \/ PostSweep(w) /\ ~Rollback(w)
BY DEF IInv, RowsOK, Begin, Step, Abort, CreateLedgerTransaction, CheckReversible,
   InsertReversal, BeginClose, ReadBalances, PostZeroing, PostSweep, CheckReverse, BeginReverse,
   PostReversal, CreatePeriodClose, MarkReversed, Commit, Rollback, Finish, Goto

\* What a close in flight knows of its period stays so, step by step.
LEMMA CloseRequestKept ==
  ASSUME IInv, NEW w \in Workers,
         ReadBalances(w) \/ (PostZeroing(w) /\ ~Rollback(w)) \/ (PostSweep(w) /\ ~Rollback(w))
  PROVE  /\ pc[w] \in {"balances", "zero"} /\ pc'[w] \in {"zero", "close"}
         /\ close' = close
         /\ req'[w].start = req[w].start /\ req'[w].date = req[w].date
<1>1. req \in [Workers -> Request] /\ pc \in [Workers -> Steps]
  BY DEF IInv, RowsOK
<1>2. CASE ReadBalances(w)
  <2>1. PICK todo : req' = [req EXCEPT ![w].todo = todo]
    BY <1>2 DEF ReadBalances
  <2> QED
    BY <1>1, <1>2, <2>1 DEF ReadBalances, Goto, Request
<1>3. CASE PostZeroing(w) /\ ~Rollback(w)
  <2>1. PICK a : req' = [req EXCEPT ![w] = [req[w] EXCEPT !.todo = req[w].todo \ {a}]]
    BY <1>3 DEF PostZeroing
  <2>2. req'[w].start = req[w].start /\ req'[w].date = req[w].date
    BY <1>1, <2>1 DEF Request
  <2>3. pc[w] = "zero" /\ pc' = pc /\ close' = close
    BY <1>3 DEF PostZeroing, Insert
  <2> QED
    BY <2>2, <2>3
<1>4. CASE PostSweep(w) /\ ~Rollback(w)
  BY <1>1, <1>4 DEF PostSweep, Goto, Insert
<1> QED
  BY <1>2, <1>3, <1>4

\* A close begun after all closes in force begins where the last one ended.
LEMMA BeginsAfter ==
  ASSUME Alone, IInv, TilesOK, NEW w \in Workers, pc[w] = "idle",
         NEW start \in Dates, NEW end \in Dates, ~Locked(w, end), PeriodStart(w, start)
  PROVE  /\ start <= end /\ StartsAfter(start, Active)
         /\ \A c \in Active : close[c].end < start
<1>1. \A c \in CloseIds : close[c].st \notin {"open", "reversing"}
  BY AloneRows
<1>2. \A c \in CloseIds : ActiveClose(w, c) <=> c \in Active
  BY <1>1 DEF ActiveClose, Active
<1>3. \A c \in Active : close[c].end < end
  BY <1>2, CloseDates, DatesAssumption DEF Locked, Active, Dates
<1>4. CASE (\A c \in CloseIds : ~ActiveClose(w, c)) /\ start = 1
  BY <1>2, <1>4, DatesAssumption DEF StartsAfter, Active, Dates
<1>5. ASSUME NEW c \in CloseIds, LastClose(w, c), start = close[c].end + 1
      PROVE  /\ start <= end /\ StartsAfter(start, Active)
             /\ \A d \in Active : close[d].end < start
  <2>1. c \in Active /\ \A d \in Active : close[d].end <= close[c].end
    BY <1>2, <1>5 DEF LastClose, Active
  <2>2. close[c].end \in Nat /\ \A d \in Active : close[d].end \in Nat
    BY CloseDates DEF Active
  <2>3. end \in Nat /\ close[c].end < end
    BY <1>3, <2>1, DatesAssumption DEF Dates
  <2> QED
    BY <1>5, <2>1, <2>2, <2>3 DEF StartsAfter
<1> QED
  BY <1>4, <1>5 DEF PeriodStart

\* The requests go on knowing the closes in force.
LEMMA RequestsStep ==
  ASSUME Alone, IInv, TilesOK, RequestsOK, NEW w \in Workers, Begin(w) \/ Step(w) \/ Abort(w)
  PROVE  RequestsOK'
<1> SUFFICES /\ pc'[w] \in {"balances", "zero", "close"} =>
                  /\ req'[w].start <= req'[w].date /\ StartsAfter(req[w].start, Active)'
                  /\ \A c \in Active' : close'[c].end < req'[w].start
             /\ pc'[w] = "mark" => LastClose(w, req[w].close)'
  <2>1. \A v \in Workers : v = w
    BY DEF Alone
  <2> QED
    BY <2>1 DEF RequestsOK
<1>1. CASE pc'[w] \notin {"balances", "zero", "close", "mark"}
  BY <1>1
<1>2. CASE BeginClose(w)
  <2>1. PICK start \in Dates, end \in Dates :
          /\ ~Locked(w, end) /\ PeriodStart(w, start)
          /\ req' = [req EXCEPT ![w] = CloseRequest(start, end)]
    BY <1>2 DEF BeginClose
  <2>2. /\ pc[w] = "idle" /\ pc'[w] = "balances" /\ close' = close
    BY <1>2 DEF BeginClose, Goto, IInv, RowsOK
  <2>3. req'[w].start = start /\ req'[w].date = end
    <3>1. req'[w] = CloseRequest(start, end)
      BY <2>1 DEF IInv, RowsOK
    <3>2. CloseRequest(start, end).start = start /\ CloseRequest(start, end).date = end
      BY DEF CloseRequest, NoRequest
    <3> QED
      BY <3>1, <3>2
  <2>4. /\ start <= end /\ StartsAfter(start, Active)
        /\ \A c \in Active : close[c].end < start
    BY <2>1, <2>2, BeginsAfter
  <2> QED
    BY <2>2, <2>3, <2>4 DEF StartsAfter, Active
<1>3. CASE BeginReverse(w) /\ ~Rollback(w)
  BY <1>3 DEF BeginReverse, Goto, LastClose, ActiveClose, IInv, RowsOK
<1>4. CASE ReadBalances(w) \/ (PostZeroing(w) /\ ~Rollback(w)) \/ (PostSweep(w) /\ ~Rollback(w))
  BY <1>4, CloseRequestKept DEF RequestsOK, StartsAfter, Active
<1> QED
  BY <1>1, <1>2, <1>3, <1>4, StepTo

\* A row inserted is dated after every close in force.
LEMMA InsertUnlocked ==
  ASSUME IInv, NEW w \in Workers, Begin(w) \/ Step(w) \/ Abort(w)
  PROVE  \/ Rollback(w) \/ Commit(w)
         \/ txn' = txn
         \/ \E date \in Dates : \E rev, amounts :
              /\ Insert(w, date, rev, amounts) /\ ~Locked(w, date) /\ ~NoTxnLeft
<1>1. CASE CreateLedgerTransaction(w)
  BY <1>1 DEF CreateLedgerTransaction
<1>2. CASE InsertReversal(w)
  <2>1. req[w].date \in Dates
    BY DEF IInv, RowsOK, Request
  <2> QED
    BY <1>2, <2>1 DEF InsertReversal
<1>3. CASE PostZeroing(w)
  <2>1. req[w].date \in Dates
    BY DEF IInv, RowsOK, Request
  <2> QED
    BY <1>3, <2>1 DEF PostZeroing
<1>4. CASE PostSweep(w)
  <2>1. req[w].date \in Dates
    BY DEF IInv, RowsOK, Request
  <2> QED
    BY <1>4, <2>1 DEF PostSweep
<1>5. CASE PostReversal(w)
  <2>1. ReversalDate(req[w].close) \in Dates
    BY <1>5 DEF PostReversal, ReversalDate, IInv, RowsOK, ReopensOK, CloseRow
  <2> QED
    BY <1>5, <2>1 DEF PostReversal
<1>6. CASE \/ CheckReversible(w) \/ BeginClose(w) \/ CheckReverse(w) \/ ReadBalances(w)
           \/ CreatePeriodClose(w) \/ BeginReverse(w) \/ MarkReversed(w) \/ Commit(w) \/ Abort(w)
  BY <1>6 DEF CheckReversible, BeginClose, CheckReverse, ReadBalances, CreatePeriodClose,
     BeginReverse, MarkReversed, Abort
<1> QED
  BY <1>1, <1>2, <1>3, <1>4, <1>5, <1>6 DEF Begin, Step

\* Rows not yet visible stay dated after every close that stays in force.
LEMMA LockStep ==
  ASSUME Alone, IInv, LockOK, NEW w \in Workers, Begin(w) \/ Step(w) \/ Abort(w)
  PROVE  LockOK'
<1>1. CASE Commit(w) \/ Rollback(w)
  <2>1. \A t \in TxnIds : txn'[t].st # "open"
    BY <1>1, AloneRows, CommitRows, RollbackRows DEF IInv
  <2>2. \A c \in CloseIds : close'[c].st # "open"
    BY <1>1, EndedCloses
  <2> QED
    BY <2>1, <2>2 DEF LockOK
<1>2. CASE txn' = txn /\ ~(Commit(w) \/ Rollback(w))
  <2>1. CASE CreatePeriodClose(w)
    <3>1. PICK n \in CloseIds :
             /\ close'[n].st = "open" /\ close'[n].by = w /\ close'[n].entries = Own(w)
             /\ \A c \in CloseIds \ {n} : close'[c] = close[c]
      BY <1>2, <2>1, NewClose
    <3>2. \A c \in CloseIds : close[c].st # "open"
      BY <2>1, AloneRows DEF CreatePeriodClose
    <3>3. Own(w)' = Own(w)
      BY <1>2 DEF Own
    <3> QED
      BY <1>2, <3>1, <3>2, <3>3 DEF LockOK
  <2>2. CASE MarkReversed(w)
    <3>1. PICK n \in CloseIds :
             /\ close'[n].st = "reversing"
             /\ \A c \in CloseIds \ {n} : close'[c] = close[c]
      BY <1>2, <2>2, MarkedClose
    <3>2. \A c \in CloseIds : close[c].st # "open"
      BY <2>2, AloneRows DEF MarkReversed
    <3> QED
      BY <1>2, <3>1, <3>2 DEF LockOK
  <2>3. CASE close' = close
    BY <1>2, <2>3 DEF LockOK, Own
  <2> QED
    BY <1>2, <2>1, <2>2, <2>3, CloseSteps
<1>3. ASSUME NEW date \in Dates, NEW rev, NEW amounts,
             Insert(w, date, rev, amounts), ~Locked(w, date), ~NoTxnLeft, ~(Commit(w) \/ Rollback(w))
      PROVE  LockOK'
  <2>1. PICK n \in TxnIds : n = FreshTxn
    BY <1>3, FreshTxnIsFree
  <2>2. /\ txn'[n].st = "open" /\ txn'[n].date = date
        /\ \A t \in TxnIds \ {n} : txn'[t] = txn[t]
        /\ close' = close
    BY <1>3, <2>1 DEF Insert, IInv, RowsOK
  <2>3. \A c \in CloseIds : close[c].st = "active" => date > close[c].end
    BY <1>3, CloseDates, DatesAssumption DEF Locked, ActiveClose, Dates
  <2>4. \A c \in CloseIds : close[c].st # "open"
    BY <1>3, AloneRows, CloseSteps DEF Begin, Step, Abort, CreateLedgerTransaction, CheckReversible, InsertReversal, BeginClose,
       ReadBalances, PostZeroing, PostSweep, CheckReverse, BeginReverse, PostReversal, MarkReversed, CreatePeriodClose
  <2> QED
    BY <2>2, <2>3, <2>4 DEF LockOK
<1> QED
  BY <1>1, <1>2, <1>3, InsertUnlocked

\* The committed rows of a range of dates.
LiveIn(from, to) == {t \in TxnIds : txn[t].st = "live" /\ txn[t].date \in from .. to}

\* A committed balance is the account's part of them.
LEMMA BalanceIsTotal ==
  ASSUME NEW a, NEW from, NEW to
  PROVE  /\ CommittedBalance(a, from, to) = Total(a, LiveIn(from, to))
         /\ CommittedBalance(a, from, to)' = Total(a, LiveIn(from, to))'
         /\ LiveIn(from, to) \in SUBSET TxnIds /\ LiveIn(from, to)' \in SUBSET TxnIds
<1>1. CommittedBalance(a, from, to) = Total(a, LiveIn(from, to))
  BY DEF CommittedBalance, Total, LiveIn
<1>2. CommittedBalance(a, from, to)' = Total(a, LiveIn(from, to))'
  BY DEF CommittedBalance, Total, LiveIn
<1>3. LiveIn(from, to) \in SUBSET TxnIds /\ LiveIn(from, to)' \in SUBSET TxnIds
  BY DEF LiveIn
<1> QED
  BY <1>1, <1>2, <1>3

\* It is an amount.
LEMMA BalanceType ==
  ASSUME AmountsOK, NEW a \in Accounts, NEW from, NEW to
  PROVE  CommittedBalance(a, from, to) \in Int
BY BalanceIsTotal, TotalType

\* Only a commit shows a row, and no step changes one that is shown.
LEMMA LiveKept ==
  ASSUME IInv, NEW w \in Workers, Begin(w) \/ Step(w) \/ Abort(w), ~Commit(w)
  PROVE  \A t \in TxnIds :
           /\ txn'[t].st = "live" <=> txn[t].st = "live"
           /\ txn[t].st = "live" => txn'[t] = txn[t] /\ entry'[t] = entry[t]
<1>1. CASE Rollback(w)
  <2>1. \A t \in TxnIds :
            IF t \in Own(w)
            THEN txn'[t].st = "free"
            ELSE txn'[t] = txn[t] /\ entry'[t] = entry[t]
    BY <1>1, RollbackRows DEF IInv
  <2> QED
    BY <2>1 DEF Own
<1>2. CASE txn' = txn /\ ~Rollback(w)
  <2>1. entry' = entry
    BY <1>2, FreshTxnIsFree DEF Begin, Step, Abort, CreateLedgerTransaction, CheckReversible,
       InsertReversal, BeginClose, ReadBalances, PostZeroing, PostSweep, CheckReverse, BeginReverse,
       PostReversal, CreatePeriodClose, MarkReversed, Insert, IInv, RowsOK
  <2> QED
    BY <1>2, <2>1
<1>3. ASSUME NEW date, NEW rev, NEW amounts, Insert(w, date, rev, amounts), ~NoTxnLeft
      PROVE  \A t \in TxnIds :
               /\ txn'[t].st = "live" <=> txn[t].st = "live"
               /\ txn[t].st = "live" => txn'[t] = txn[t] /\ entry'[t] = entry[t]
  <2>1. PICK n \in TxnIds : n = FreshTxn /\ txn[n].st = "free"
    BY <1>3, FreshTxnIsFree
  <2>2. txn'[n].st = "open" /\ \A t \in TxnIds \ {n} : txn'[t] = txn[t] /\ entry'[t] = entry[t]
    BY <1>3, <2>1 DEF Insert, IInv, RowsOK
  <2> QED
    BY <2>1, <2>2
<1> QED
  BY <1>1, <1>2, <1>3, InsertUnlocked

\* Only a commit changes what is committed.
LEMMA BalanceKept ==
  ASSUME IInv, NEW w \in Workers, Begin(w) \/ Step(w) \/ Abort(w), ~Commit(w),
         NEW a, NEW from, NEW to
  PROVE  CommittedBalance(a, from, to)' = CommittedBalance(a, from, to)
<1>1. PICK S \in SUBSET TxnIds : S = LiveIn(from, to)
  BY BalanceIsTotal
<1>2. LiveIn(from, to)' = S /\ \A t \in S : entry'[t] = entry[t]
  BY <1>1, LiveKept DEF LiveIn
<1>3. Total(a, S)' = Total(a, S)
  BY <1>2, TotalKept
<1> QED
  BY <1>1, <1>2, <1>3, BalanceIsTotal

\* A commit adds the rows of the request dated in the range.
LEMMA BalanceCommitted ==
  ASSUME IInv, AmountsOK, NEW w \in Workers, Commit(w), NEW a \in Accounts, NEW from, NEW to,
         NEW R, R = {t \in Own(w) : txn[t].date \in from .. to}
  PROVE  CommittedBalance(a, from, to)' = CommittedBalance(a, from, to) + Total(a, R)
<1>1. /\ entry' = entry
      /\ \A t \in TxnIds :
              IF t \in Own(w)
              THEN txn'[t].st = "live" /\ txn'[t].date = txn[t].date
              ELSE txn'[t] = txn[t]
  BY CommitRows DEF IInv
<1>2. PICK S \in SUBSET TxnIds : S = LiveIn(from, to)
  BY BalanceIsTotal
<1>3. R \in SUBSET TxnIds /\ S \intersect R = {}
  BY <1>2 DEF LiveIn, Own
<1>4. LiveIn(from, to)' = S \union R
  BY <1>1, <1>2, <1>3 DEF LiveIn, Own
<1>5. Total(a, S \union R)' = Total(a, S \union R)
  BY <1>1, <1>3, TotalKept
<1>6. Total(a, S \union R) = Total(a, S) + Total(a, R)
  BY <1>3, TotalUnion
<1> QED
  BY <1>2, <1>4, <1>5, <1>6, BalanceIsTotal

\* An insert adds its amounts to what the request has written.
LEMMA InsertTotals ==
  ASSUME IInv, AmountsOK, NEW w \in Workers, NEW date, NEW rev, NEW amounts,
         Insert(w, date, rev, amounts), ~NoTxnLeft, NEW a \in Accounts, amounts[a] \in Int
  PROVE  Total(a, Own(w))' = Total(a, Own(w)) + amounts[a]
<1>1. PICK n \in TxnIds : n = FreshTxn /\ txn[n].st = "free"
  BY FreshTxnIsFree
<1>2. PICK S \in SUBSET TxnIds : S = Own(w)
  BY PartsType
<1>3. Own(w)' = S \union {n} /\ n \in TxnIds \ S
  BY <1>1, <1>2 DEF Insert, Own, IInv, RowsOK
<1>4. entry'[n] = amounts /\ \A t \in S : entry'[t] = entry[t]
  BY <1>1, <1>3 DEF Insert, AmountsOK
<1>5. Total(a, S \union {n})' = Total(a, S) + entry'[n][a]
  BY <1>3, <1>4, TotalAdds
<1> QED
  BY <1>2, <1>3, <1>4, <1>5

\* Nothing is committed into a period in force but the close that makes it.
LEMMA ClearedCommit ==
  ASSUME Alone, IInv, SumsInv, TilesOK, LockOK, ClearedOK, NEW w \in Workers, Commit(w),
         NEW a \in Temporary, NEW c \in Active'
  PROVE  CommittedBalance(a, close[c].start, close[c].end)' = 0
<1> DEFINE R == {t \in Own(w) : txn[t].date \in close[c].start .. close[c].end}
<1>1. /\ c \in CloseIds /\ close[c].st \in {"open", "active"}
      /\ close'[c].start = close[c].start /\ close'[c].end = close[c].end
  BY EndedCloses DEF Active
<1>2. a \in Accounts /\ AmountsOK
  BY DEF Temporary, Accounts, SumsInv
<1>3. PICK from, to : from = close[c].start /\ to = close[c].end /\ from \in Nat /\ to \in Nat
  BY <1>1, CloseDates
<1>4. CommittedBalance(a, from, to)' = CommittedBalance(a, from, to) + Total(a, R)
  BY <1>2, <1>3, BalanceCommitted
<1>5. CASE close[c].st = "active"
  <2>1. \A t \in Own(w) : txn[t].date > to
    BY <1>1, <1>3, <1>5 DEF LockOK, Own
  <2>2. R = {}
    <3>1. \A t \in Own(w) : txn[t].date \in Nat
      BY CloseDates DEF Own
    <3> QED
      BY <1>3, <2>1, <3>1
  <2>3. CommittedBalance(a, from, to) = 0
    BY <1>1, <1>3, <1>5 DEF ClearedOK, Active
  <2> HIDE DEF R
  <2>4. Total(a, R) = 0
    BY <2>2, TotalNothing
  <2> QED
    BY <1>1, <1>3, <1>4, <2>3, <2>4
<1>6. CASE close[c].st = "open"
  <2>1. close[c].by = w
    BY <1>1, <1>6, AloneRows
  <2>2. close[c].entries = Own(w)
    BY <1>1, <1>6, <2>1 DEF LockOK
  <2>3. \A t \in Own(w) : txn[t].date = to
    BY <1>1, <1>3, <2>2 DEF IInv, EntriesOK
  <2>4. from <= to
    BY <1>1, <1>3, <1>6 DEF TilesOK, InForce
  <2>5. R = Own(w)
    BY <1>3, <2>3, <2>4
  <2>6. CommittedBalance(a, from, to) + Total(a, close[c].entries) = 0
    BY <1>1, <1>3, <1>6 DEF ClearedOK
  <2> HIDE DEF R
  <2> QED
    BY <1>1, <1>3, <1>4, <2>2, <2>5, <2>6
<1> QED
  BY <1>1, <1>5, <1>6

\* No other step moves a committed balance, or takes a close into force.
LEMMA ClearedElse ==
  ASSUME Alone, IInv, SumsInv, ClearedOK, NEW w \in Workers, Begin(w) \/ Step(w) \/ Abort(w),
         ~Commit(w), NEW a \in Temporary, NEW c \in Active'
  PROVE  CommittedBalance(a, close[c].start, close[c].end)' = 0
<1>1. /\ c \in Active
      /\ close'[c].start = close[c].start /\ close'[c].end = close[c].end
  <2>1. CASE Rollback(w)
    BY <2>1, EndedCloses DEF Active
  <2>2. CASE CreatePeriodClose(w) /\ ~Rollback(w)
    <3>1. PICK n \in CloseIds :
             close'[n].st = "open" /\ \A d \in CloseIds \ {n} : close'[d] = close[d]
      BY <2>2, NewClose
    <3> QED
      BY <3>1 DEF Active
  <2>3. CASE MarkReversed(w) /\ ~Rollback(w)
    <3>1. PICK n \in CloseIds :
             /\ close[n].st = "active" /\ close'[n].start = close[n].start /\ close'[n].end = close[n].end
             /\ \A d \in CloseIds \ {n} : close'[d] = close[d]
      BY <2>3, MarkedClose
    <3> QED
      BY <3>1 DEF Active
  <2>4. CASE close' = close
    BY <2>4 DEF Active
  <2> QED
    BY <2>1, <2>2, <2>3, <2>4, CloseSteps
<1>2. PICK from, to : from = close[c].start /\ to = close[c].end
  OBVIOUS
<1>3. CommittedBalance(a, from, to) = 0
  BY <1>1, <1>2 DEF ClearedOK
<1>4. CommittedBalance(a, from, to)' = 0
  BY <1>3, BalanceKept
<1> QED
  BY <1>1, <1>2, <1>4

\* A close about to commit has swept what its period holds.
LEMMA OpenCleared ==
  ASSUME Alone, IInv, SumsInv, ClearedOK, NEW w \in Workers, Begin(w) \/ Step(w) \/ Abort(w),
         NEW a \in Temporary, NEW c \in CloseIds, close'[c].st = "open"
  PROVE  (CommittedBalance(a, close[c].start, close[c].end) + Total(a, close[c].entries) = 0)'
<1>1. ~Rollback(w) /\ ~Commit(w)
  BY EndedCloses
<1>2. CASE close[c].st = "open"
  <2>1. pc[w] = "commit"
    BY <1>2, AloneRows
  <2> QED
    BY <1>1, <2>1 DEF Begin, Step, Abort, CreateLedgerTransaction, CheckReversible, InsertReversal,
       BeginClose, ReadBalances, PostZeroing, PostSweep, CheckReverse, BeginReverse, PostReversal,
       CreatePeriodClose, MarkReversed
<1>3. CASE close[c].st # "open"
  <2>1. CreatePeriodClose(w)
    <3>1. ASSUME MarkReversed(w) PROVE close'[c].st # "open"
      BY <1>1, <1>3, <3>1, MarkedClose
    <3> QED
      BY <1>1, <1>3, <3>1, CloseSteps
  <2>2. PICK n \in CloseIds :
           /\ close'[n].start = req[w].start /\ close'[n].end = req[w].date
           /\ close'[n].entries = Own(w)
           /\ \A d \in CloseIds \ {n} : close'[d] = close[d]
    BY <1>1, <2>1, NewClose
  <2>3. c = n
    BY <1>3, <2>2
  <2>4. PICK from, to, S : from = req[w].start /\ to = req[w].date /\ S = Own(w) /\ S \in SUBSET TxnIds
    BY PartsType
  <2>5. Total(a, S) = -CommittedBalance(a, from, to)
    BY <2>1, <2>4 DEF ClearedOK, CreatePeriodClose
  <2>6. PICK b \in Int : b = CommittedBalance(a, from, to)
    BY BalanceType DEF SumsInv, Temporary, Accounts
  <2>7. CommittedBalance(a, from, to)' = b
    BY <1>1, <2>6, BalanceKept
  <2>8. Total(a, S)' = -b
    <3>1. entry' = entry
      BY <1>1, <2>1 DEF CreatePeriodClose
    <3>2. Total(a, S)' = Total(a, S) /\ Total(a, S) = -b
      BY <2>4, <2>5, <2>6, <3>1, TotalKept
    <3> QED
      BY <3>2
  <2>9. (CommittedBalance(a, from, to) + Total(a, S) = 0)'
    BY <2>6, <2>7, <2>8
  <2> QED
    BY <2>2, <2>3, <2>4, <2>9
<1> QED
  BY <1>2, <1>3

\* What a close in flight has swept, and what it has yet to sweep.
SweptOf(w, a) ==
  LET balance == CommittedBalance(a, req[w].start, req[w].date) IN
  /\ pc[w] = "zero" => net[w][a] = NetBalance(NormalBalance(a), balance, 0)
  /\ pc[w] = "close" => req[w].todo = {}
  /\ Total(a, Own(w)) = IF a \in req[w].todo THEN 0 ELSE -balance

\* The same of rigid values, so that it can be stated after a step.
LEMMA SweptIs ==
  ASSUME NEW w, NEW a, NEW from, NEW to, NEW balance, NEW S, NEW todo,
         from = req'[w].start, to = req'[w].date, todo = req'[w].todo,
         CommittedBalance(a, from, to)' = balance, Own(w)' = S,
         pc'[w] = "zero" => net'[w][a] = NetBalance(NormalBalance(a), balance, 0),
         pc'[w] = "close" => todo = {},
         Total(a, S)' = IF a \in todo THEN 0 ELSE -balance
  PROVE  SweptOf(w, a)'
BY DEF SweptOf

\* Reading the balances of the period: nothing is swept yet.
LEMMA SweptRead ==
  ASSUME Alone, IInv, SumsInv, NEW w \in Workers, ReadBalances(w), NEW a \in Temporary
  PROVE  SweptOf(w, a)'
<1>1. PICK from, to : from = req[w].start /\ to = req[w].date
  OBVIOUS
<1>2. PICK b \in Int : b = CommittedBalance(a, from, to)
  BY BalanceType DEF SumsInv, Temporary, Accounts
<1>3. req'[w].start = from /\ req'[w].date = to /\ pc'[w] = "zero" /\ pc[w] = "balances"
  BY <1>1, CloseRequestKept DEF ReadBalances, Goto, IInv, RowsOK
<1>4. CommittedBalance(a, from, to)' = b
  <2>1. ~Commit(w)
    BY <1>3 DEF Commit
  <2> QED
    BY <1>2, <2>1, BalanceKept DEF Step
<1>5. Own(w) = {} /\ Own(w)' = {}
  BY <1>3 DEF Own, ReadBalances, IInv, OwnersOK
<1>6. BalanceBetween(w, a, from, to) = b
  <2>1. {t \in TxnIds : VisibleTxn(w, t) /\ txn[t].date \in from .. to} = LiveIn(from, to)
    BY <1>5 DEF VisibleTxn, LiveIn, Own
  <2>2. BalanceBetween(w, a, from, to) = Total(a, LiveIn(from, to))
    BY <2>1 DEF BalanceBetween, Total
  <2> QED
    BY <1>2, <2>2, BalanceIsTotal
<1>7. /\ net'[w][a] = NetBalance(NormalBalance(a), b, 0)
      /\ a \in req'[w].todo <=> net'[w][a] # 0
  <2>1. a \in Accounts
    BY DEF Temporary, Accounts
  <2>2. net'[w][a] = NetBalance(NormalBalance(a), BalanceBetween(w, a, from, to), 0)
    BY <1>1, <2>1 DEF ReadBalances, SumsInv, AmountsOK
  <2>3. PICK todo : todo = {x \in Temporary : net'[w][x] # 0} /\ req' = [req EXCEPT ![w].todo = todo]
    BY DEF ReadBalances
  <2>4. req'[w].todo = todo
    BY <2>3 DEF IInv, RowsOK, Request
  <2> QED
    BY <1>6, <2>2, <2>3, <2>4
<1>8. ASSUME a \notin req'[w].todo PROVE b = 0
  BY <1>7, <1>8 DEF NetBalance
<1>9. Total(a, {})' = 0
  BY TotalNothing
<1>10. Total(a, {})' = IF a \in req'[w].todo THEN 0 ELSE -b
  BY <1>8, <1>9
<1> QED
  BY <1>3, <1>4, <1>5, <1>7, <1>10, SweptIs

\* Sweeping one account, and only that one.
LEMMA SweptZero ==
  ASSUME Alone, IInv, SumsInv, NEW w \in Workers, PostZeroing(w), ~Rollback(w), NEW a \in Temporary,
         SweptOf(w, a)
  PROVE  SweptOf(w, a)'
<1>1. PICK from, to : from = req[w].start /\ to = req[w].date
  OBVIOUS
<1>2. PICK b \in Int : b = CommittedBalance(a, from, to)
  BY BalanceType DEF SumsInv, Temporary, Accounts
<1>3. PICK z \in req[w].todo :
        /\ Insert(w, req[w].date, NoTxn,
                  Legs(z, IncomeSummary, EntryForNormalDelta(NormalBalance(z), -net[w][z])))
        /\ req' = [req EXCEPT ![w].todo = @ \ {z}]
  BY DEF PostZeroing
<1>4. /\ pc[w] = "zero" /\ pc'[w] = "zero" /\ ~NoTxnLeft /\ net' = net
      /\ req'[w].start = from /\ req'[w].date = to
  BY <1>1, <1>3, CloseRequestKept DEF PostZeroing, Insert
<1>5. req'[w].todo = req[w].todo \ {z}
  <2>1. req' = [req EXCEPT ![w] = [req[w] EXCEPT !.todo = req[w].todo \ {z}]]
    BY <1>3
  <2> QED
    BY <2>1 DEF IInv, RowsOK, Request
<1>6. CommittedBalance(a, from, to)' = b
  <2>1. ~Commit(w)
    BY <1>4 DEF Commit
  <2> QED
    BY <1>2, <2>1, BalanceKept DEF Step
<1>7. net[w][a] = NetBalance(NormalBalance(a), b, 0)
  BY <1>1, <1>2, <1>4 DEF SweptOf
<1>8. PICK s \in Int : s = Total(a, Own(w)) /\ s = IF a \in req[w].todo THEN 0 ELSE -b
  BY <1>1, <1>2 DEF SweptOf
<1>9. /\ z \in Temporary /\ z \in Accounts /\ a \in Accounts /\ IncomeSummary \in Accounts
      /\ z # IncomeSummary /\ a # IncomeSummary
  BY AccountAssumption DEF SumsInv, AmountsOK, Temporary, Accounts
<1> DEFINE e == EntryForNormalDelta(NormalBalance(z), -net[w][z])
           amounts == Legs(z, IncomeSummary, e)
<1>10. /\ e \in Entry
       /\ Signed(e) = IF NormalBalance(z) = "DEBIT" THEN -net[w][z] ELSE -(-net[w][z])
  <2>1. -net[w][z] \in Int /\ NormalBalance(z) \in {"DEBIT", "CREDIT"}
    BY <1>9 DEF SumsInv, AmountsOK, NormalBalance
  <2> QED
    BY <2>1, DeltaEntry
<1>11. amounts[a] = IF a = z THEN -b ELSE 0
  <2> HIDE DEF e
  <2>1. CASE a = z
    <3>1. amounts[a] = Signed(e)
      BY <1>9, <1>10, <2>1, LegsBalance
    <3>2. Signed(e) = -b
      BY <1>7, <1>10, <2>1 DEF NetBalance, NormalBalance
    <3> QED
      BY <2>1, <3>1, <3>2
  <2>2. CASE a # z
    BY <1>9, <1>10, <2>2, LegsBalance
  <2> QED
    BY <2>1, <2>2
<1>12. Insert(w, req[w].date, NoTxn, amounts)
  BY <1>3
<1> HIDE DEF amounts
<1>13. Total(a, Own(w))' = s + amounts[a]
  <2>1. -b \in Int
    OBVIOUS
  <2>2. amounts[a] \in Int
    BY <1>11, <2>1
  <2>3. Total(a, Own(w))' = Total(a, Own(w)) + amounts[a]
    BY <1>4, <1>9, <1>12, <2>2, InsertTotals DEF SumsInv
  <2> QED
    BY <1>8, <2>3
<1>14. PICK S : S = Own(w)'
  OBVIOUS
<1>15. Total(a, S)' = IF a \in req'[w].todo THEN 0 ELSE -b
  BY <1>5, <1>8, <1>11, <1>13, <1>14
<1> QED
  BY <1>4, <1>6, <1>7, <1>14, <1>15, SweptIs

\* The sweep touches no temporary account.
LEMMA SweptSweep ==
  ASSUME Alone, IInv, SumsInv, NEW w \in Workers, PostSweep(w), ~Rollback(w), NEW a \in Temporary,
         SweptOf(w, a)
  PROVE  SweptOf(w, a)'
<1>1. PICK from, to : from = req[w].start /\ to = req[w].date
  OBVIOUS
<1>2. PICK b \in Int : b = CommittedBalance(a, from, to)
  BY BalanceType DEF SumsInv, Temporary, Accounts
<1>3. /\ pc[w] = "zero" /\ pc'[w] = "close" /\ req' = req /\ req[w].todo = {}
  BY DEF PostSweep, Goto, IInv, RowsOK
<1>4. CommittedBalance(a, from, to)' = b
  <2>1. ~Commit(w)
    BY <1>3 DEF Commit
  <2> QED
    BY <1>2, <2>1, BalanceKept DEF Step
<1>5. Total(a, Own(w)) = -b /\ -b \in Int
  BY <1>1, <1>2, <1>3 DEF SweptOf
<1>6. Total(a, Own(w))' = -b
  <2>1. CASE IncomeSummaryDelta(w) = 0
    <3>1. txn' = txn /\ entry' = entry
      BY <2>1 DEF PostSweep
    <3>2. PICK S \in SUBSET TxnIds : S = Own(w) /\ S = Own(w)'
      BY <3>1, PartsType DEF Own
    <3> QED
      BY <1>5, <3>1, <3>2, TotalKept
  <2>2. CASE IncomeSummaryDelta(w) # 0
    <3> DEFINE e == EntryForNormalDelta("CREDIT", -IncomeSummaryDelta(w))
               amounts == Legs(IncomeSummary, RetainedEarnings, e)
    <3>1. Insert(w, req[w].date, NoTxn, amounts) /\ ~NoTxnLeft
      BY <2>2 DEF PostSweep
    <3>2. e \in Entry
      BY IncomeSummaryDeltaIs, DeltaEntry DEF SumsInv
    <3>3. /\ a \in Accounts /\ IncomeSummary \in Accounts /\ RetainedEarnings \in Accounts
          /\ a \notin {IncomeSummary, RetainedEarnings} /\ IncomeSummary # RetainedEarnings
      BY AccountAssumption DEF Temporary, Accounts
    <3> HIDE DEF e
    <3>4. amounts[a] = 0
      BY <3>2, <3>3, LegsBalance
    <3> HIDE DEF amounts
    <3>5. Total(a, Own(w))' = Total(a, Own(w)) + amounts[a]
      BY <3>1, <3>3, <3>4, InsertTotals DEF SumsInv
    <3> QED
      BY <1>5, <3>4, <3>5
  <2> QED
    BY <2>1, <2>2
<1>7. PICK S : S = Own(w)'
  OBVIOUS
<1> QED
  BY <1>1, <1>3, <1>4, <1>6, <1>7, SweptIs

\* The sweep goes on as it began, and what it swept is then in force.
LEMMA ClearedStep ==
  ASSUME Alone, IInv, SumsInv, TilesOK, LockOK, ClearedOK,
         NEW w \in Workers, Begin(w) \/ Step(w) \/ Abort(w)
  PROVE  ClearedOK'
<1>1. ASSUME NEW a \in Temporary, NEW c \in Active'
      PROVE  CommittedBalance(a, close[c].start, close[c].end)' = 0
  BY <1>1, ClearedCommit, ClearedElse
<1>2. ASSUME NEW a \in Temporary, NEW c \in CloseIds, close'[c].st = "open"
      PROVE  (CommittedBalance(a, close[c].start, close[c].end) + Total(a, close[c].entries) = 0)'
  BY <1>2, OpenCleared
<1>3. ASSUME NEW a \in Temporary, pc'[w] \in {"zero", "close"}
      PROVE  SweptOf(w, a)'
  <2>1. \/ ReadBalances(w)
        \/ PostZeroing(w) /\ ~Rollback(w)
        \/ PostSweep(w) /\ ~Rollback(w)
    BY <1>3, StepTo DEF BeginClose, BeginReverse, Goto, IInv, RowsOK
  <2>2. ASSUME pc[w] = "zero" PROVE SweptOf(w, a)
    BY <2>2 DEF ClearedOK, SweptOf
  <2>3. CASE ReadBalances(w)
    BY <2>3, SweptRead
  <2>4. CASE PostZeroing(w) /\ ~Rollback(w)
    BY <2>2, <2>4, SweptZero DEF PostZeroing
  <2>5. CASE PostSweep(w) /\ ~Rollback(w)
    BY <2>2, <2>5, SweptSweep DEF PostSweep
  <2> QED
    BY <2>1, <2>3, <2>4, <2>5
<1>4. \A v \in Workers : v = w
  BY DEF Alone
<1>5. \A a \in Temporary : \A c \in Active' :
        CommittedBalance(a, close[c].start, close[c].end)' = 0
  BY <1>1
<1>6. \A a \in Temporary : \A c \in CloseIds : close'[c].st = "open" =>
        (CommittedBalance(a, close[c].start, close[c].end) + Total(a, close[c].entries) = 0)'
  BY <1>2
<1>7. \A a \in Temporary : \A v \in Workers : pc'[v] \in {"zero", "close"} => SweptOf(v, a)'
  BY <1>3, <1>4
<1> QED
  BY <1>5, <1>6, <1>7 DEF ClearedOK, SweptOf

\* Nothing of it changes while nothing changes.
LEMMA AloneKept ==
  ASSUME IInv, UNCHANGED vars
  PROVE  /\ TilesOK => TilesOK'
         /\ RequestsOK => RequestsOK'
         /\ LockOK => LockOK'
         /\ ClearedOK => ClearedOK'
<1>1. /\ txn' = txn /\ entry' = entry /\ close' = close
      /\ pc' = pc /\ req' = req /\ net' = net
  BY DEF vars
<1>2. TilesOK => TilesOK'
  BY <1>1 DEF TilesOK, InForce, StartsAfter
<1>3. RequestsOK => RequestsOK'
  BY <1>1 DEF RequestsOK, Active, StartsAfter, LastClose, ActiveClose
<1>4. LockOK => LockOK'
  BY <1>1 DEF LockOK, Own
<1>5. ClearedOK => ClearedOK'
  <2>1. ASSUME NEW a, NEW from, NEW to
        PROVE  CommittedBalance(a, from, to)' = CommittedBalance(a, from, to)
    <3>1. PICK S \in SUBSET TxnIds : S = LiveIn(from, to)
      BY BalanceIsTotal
    <3>2. LiveIn(from, to)' = S /\ \A t \in S : entry'[t] = entry[t]
      BY <1>1, <3>1 DEF LiveIn
    <3> QED
      BY <3>1, <3>2, TotalKept, BalanceIsTotal
  <2>2. ASSUME NEW a, NEW w \in Workers
        PROVE  Total(a, Own(w))' = Total(a, Own(w))
    <3>1. PICK S \in SUBSET TxnIds : S = Own(w)
      BY PartsType
    <3>2. Own(w)' = S /\ \A t \in S : entry'[t] = entry[t]
      BY <1>1, <3>1 DEF Own
    <3>3. Total(a, S)' = Total(a, S)
      BY <3>2, TotalKept
    <3> QED
      BY <3>1, <3>2, <3>3
  <2>3. ASSUME NEW a, NEW c \in CloseIds
        PROVE  Total(a, close[c].entries)' = Total(a, close[c].entries)
    <3>1. PICK S \in SUBSET TxnIds : S = close[c].entries
      BY PartsType
    <3>2. close'[c].entries = S /\ \A t \in S : entry'[t] = entry[t]
      BY <1>1, <3>1
    <3>3. Total(a, S)' = Total(a, S)
      BY <3>2, TotalKept
    <3> QED
      BY <3>1, <3>2, <3>3
  <2>4. PICK x : x = 0 /\ Active' = Active
    BY <1>1 DEF Active
  <2> QED
    BY <1>1, <2>1, <2>2, <2>3, <2>4 DEF ClearedOK
<1> QED
  BY <1>2, <1>3, <1>4, <1>5

\* A request on its own keeps the periods in order.
LEMMA NextAlone ==
  ASSUME Alone, IInv, SumsInv, AloneInv, [Next]_vars
  PROVE  AloneInv'
<1>1. ASSUME NEW w \in Workers, Begin(w) \/ Step(w) \/ Abort(w)
      PROVE  AloneInv'
  BY <1>1, TilesStep, RequestsStep, LockStep, ClearedStep DEF AloneInv
<1>2. CASE UNCHANGED vars
  BY <1>2, AloneKept DEF AloneInv
<1> QED
  BY <1>1, <1>2 DEF Next

\* The periods in force share no date.
LEMMA TilesDisjoint ==
  ASSUME IInv, TilesOK
  PROVE  PeriodsDisjoint
<1> SUFFICES ASSUME NEW c \in Active, NEW d \in Active, c # d
             PROVE  (close[c].start .. close[c].end) \intersect (close[d].start .. close[d].end) = {}
  BY DEF PeriodsDisjoint
<1>1. c \in InForce /\ d \in InForce /\ c \in CloseIds /\ d \in CloseIds
  BY DEF Active, InForce
<1>2. close[c].end # close[d].end
  BY <1>1 DEF IInv, KeysUnique, InForce
<1>3. /\ close[c].start \in Nat /\ close[c].end \in Nat
      /\ close[d].start \in Nat /\ close[d].end \in Nat
  BY <1>1, CloseDates
<1>4. close[c].end < close[d].start \/ close[d].end < close[c].start
  BY <1>1, <1>2, <1>3 DEF TilesOK
<1> QED
  BY <1>3, <1>4

\* A set of numbers has a smallest one.
LEMMA FirstNatural ==
  ASSUME NEW E, E \subseteq Nat, E # {}
  PROVE  \E n \in E : \A m \in E : n <= m
<1>1. PICK most \in E : TRUE
  OBVIOUS
<1> DEFINE S == 0 .. most
           F == {0 .. n : n \in {m \in E : m <= most}}
<1>2. F \subseteq SUBSET S /\ F # {}
  BY <1>1
<1>3. IsFiniteSet(S)
  BY <1>1, FS_Interval
<1>4. PICK T \in F : \A U \in F : U \subseteq T => U = T
  <2> HIDE DEF F, S
  <2> QED
    BY <1>2, <1>3, SmallestSubset
<1>5. PICK n \in E : n <= most /\ T = 0 .. n
  BY <1>4
<1>6. ASSUME NEW m \in E, m < n PROVE FALSE
  <2>1. 0 .. m \in F /\ 0 .. m \subseteq T
    BY <1>1, <1>5, <1>6
  <2>2. 0 .. m = 0 .. n
    BY <1>4, <1>5, <2>1
  <2> QED
    BY <1>6, <2>2
<1> QED
  BY <1>5, <1>6

\* Each locked date is in the period of the first close that ends on or after
\* it: the one before it would end on or after it too.
LEMMA TilesGapless ==
  ASSUME IInv, TilesOK
  PROVE  PeriodsGapless
<1> SUFFICES ASSUME NEW c \in Active, NEW date \in 1 .. close[c].end
             PROVE  \E d \in Active : date \in close[d].start .. close[d].end
  BY DEF PeriodsGapless
<1>1. ASSUME NEW d \in Active PROVE close[d].start \in Nat /\ close[d].end \in Nat
  BY CloseDates DEF Active
<1>2. date \in Nat
  BY <1>1
<1> DEFINE Ends(n) == \E d \in Active : close[d].end = n /\ date <= n
           E == {n \in Nat : Ends(n)}
<1>3. close[c].end \in E
  BY <1>1, <1>2
<1>4. PICK n \in E : \A m \in E : n <= m
  <2>1. E # {} /\ E \subseteq Nat
    BY <1>3
  <2> HIDE DEF E
  <2> QED
    BY <2>1, FirstNatural
<1>5. PICK d \in Active : close[d].end = n /\ date <= n
  BY <1>4
<1>6. CASE close[d].start <= date
  BY <1>1, <1>2, <1>5, <1>6
<1>7. CASE close[d].start > date
  <2>1. d \in InForce /\ StartsAfter(close[d].start, InForce \ {d})
    BY DEF TilesOK, InForce, Active
  <2>2. close[d].start # 1
    BY <1>1, <1>2, <1>5, <1>7
  <2>3. PICK e \in InForce \ {d} : close[e].end + 1 = close[d].start
    BY <2>1, <2>2 DEF StartsAfter
  <2>4. close[d].start <= close[d].end /\ close[e].end \in Nat
    BY <2>1, CloseDates DEF TilesOK, InForce
  <2>5. close[e].end < n /\ date <= close[e].end
    BY <1>1, <1>2, <1>5, <1>7, <2>3, <2>4
  <2>6. e \in Active
    <3>1. ASSUME close[e].st = "open" PROVE FALSE
      <4>1. close[d].end <= close[e].end
        BY <2>1, <2>3, <3>1 DEF TilesOK
      <4> QED
        BY <1>1, <1>5, <2>4, <2>5, <4>1
    <3> QED
      BY <2>3, <3>1 DEF InForce, Active
  <2>7. close[e].end \in E
    BY <2>4, <2>5, <2>6
  <2>8. n <= close[e].end
    BY <1>4, <2>7
  <2> QED
    BY <1>1, <1>5, <2>4, <2>5, <2>8
<1> QED
  BY <1>1, <1>2, <1>6, <1>7

\* One request at a time, the periods of the unreversed closes tile the
\* locked dates (resolvePeriodStart in close.go, and the lock trigger).
THEOREM Tile == ASSUME Alone PROVE Spec => []PeriodsTile
<1>1. Init => IInv /\ TilesOK /\ RequestsOK
  BY InitInv, InitAlone DEF AloneInv
<1>2. IInv /\ TilesOK /\ RequestsOK /\ [Next]_vars => (IInv /\ TilesOK /\ RequestsOK)'
  <2> SUFFICES ASSUME IInv, TilesOK, RequestsOK, [Next]_vars
               PROVE  (IInv /\ TilesOK /\ RequestsOK)'
    OBVIOUS
  <2>1. ASSUME NEW w \in Workers, Begin(w) \/ Step(w) \/ Abort(w) PROVE TilesOK' /\ RequestsOK'
    BY <2>1, TilesStep, RequestsStep
  <2>2. ASSUME UNCHANGED vars PROVE TilesOK' /\ RequestsOK'
    BY <2>2, AloneKept
  <2>3. IInv'
    BY NextInv
  <2> QED
    BY <2>1, <2>2, <2>3 DEF Next
<1>3. IInv /\ TilesOK /\ RequestsOK => PeriodsTile
  BY TilesDisjoint, TilesGapless DEF PeriodsTile
<1> QED
  BY <1>1, <1>2, <1>3, PTL DEF Spec

\* What holds of the periods of a business that is sent one request at a time.
LEMMA AloneInvariance == ASSUME Alone PROVE Spec => [](IInv /\ SumsInv /\ AloneInv)
<1>1. Init => IInv /\ SumsInv /\ AloneInv
  BY InitInv, InitSums, InitAlone
<1>2. (IInv /\ SumsInv /\ AloneInv) /\ [Next]_vars => (IInv /\ SumsInv /\ AloneInv)'
  BY NextInv, NextSums, NextAlone
<1> QED
  BY <1>1, <1>2, PTL DEF Spec

\* One request at a time, every REVENUE and EXPENSES account is zero in every
\* closed period (periodclose.Close sweeps it, and the lock keeps it so).
THEOREM Cleared == ASSUME Alone PROVE Spec => []PeriodsCleared
<1>1. IInv /\ SumsInv /\ AloneInv => PeriodsCleared
  BY DEF AloneInv, ClearedOK, PeriodsCleared
<1> QED
  BY <1>1, AloneInvariance, PTL

\* A step shows nothing in a locked period but the close that locks it.
LEMMA LockNext ==
  ASSUME Alone, IInv, LockOK, [Next]_vars,
         NEW t \in TxnIds, txn[t].st # "live", txn'[t].st = "live",
         NEW c \in CloseIds, close'[c].st \in {"active", "reversing"}, txn'[t].date <= close'[c].end
  PROVE  t \in close'[c].entries /\ close[c].st = "open"
<1>1. PICK w \in Workers : Begin(w) \/ Step(w) \/ Abort(w)
  BY DEF Next, vars
<1>2. Commit(w)
  BY <1>1, LiveKept
<1>3. t \in Own(w) /\ txn'[t].date = txn[t].date
  BY <1>2, CommitRows DEF IInv
<1>4. /\ close[c].st \in {"open", "active"} /\ close'[c].end = close[c].end
      /\ close'[c].entries = close[c].entries
  BY <1>2, EndedCloses
<1>5. close[c].st # "active"
  <2>1. txn[t].date \in Nat /\ close[c].end \in Nat
    BY CloseDates
  <2> QED
    BY <1>3, <1>4, <2>1 DEF LockOK, Own
<1>6. close[c].entries = Own(w)
  BY <1>4, <1>5, AloneRows DEF LockOK
<1> QED
  BY <1>3, <1>4, <1>5, <1>6

\* One request at a time, nothing becomes visible in a locked period but the
\* postings of the close that locks it (enforce_period_lock).
THEOREM Locks == ASSUME Alone PROVE Spec => LockHolds
<1>1. IInv /\ SumsInv /\ AloneInv /\ [Next]_vars =>
        [\A t \in TxnIds : txn[t].st # "live" /\ txn'[t].st = "live" =>
           \A c \in CloseIds :
             close'[c].st \in {"active", "reversing"} /\ txn'[t].date <= close'[c].end
             => t \in close'[c].entries /\ close[c].st = "open"]_vars
  BY LockNext DEF AloneInv
<1> QED
  BY <1>1, AloneInvariance, PTL DEF Spec, LockHolds

-----------------------------------------------------------------------------
(***************************************************************************)
(* The balance sheet: sums of balances.                                    *)
(***************************************************************************)

\* What any transactions put on all accounts together is nothing.
LEMMA PartsBalance ==
  ASSUME AmountsOK, BalancedOK, NEW S \in SUBSET TxnIds,
         NEW part, \A a \in Accounts : part[a] = Total(a, S)
  PROVE  SumOver(part, Accounts) = 0
<1> DEFINE Part(T) == [a \in Accounts |-> Total(a, T)]
           F == {T \in SUBSET S : SumOver(Part(T), Accounts) # 0}
<1>1. SumOver(part, Accounts) = SumOver(Part(S), Accounts)
  <2>1. \A a \in Accounts : part[a] = Part(S)[a]
    OBVIOUS
  <2> HIDE DEF Part
  <2> QED
    BY <2>1, AccountsFinite, SumSame
<1>2. ASSUME F # {} PROVE FALSE
  <2>1. PICK T \in F : \A U \in F : U \subseteq T => U = T
    <3>1. F \subseteq SUBSET S /\ IsFiniteSet(S)
      BY FiniteAssumption, FS_Subset
    <3> HIDE DEF F
    <3> QED
      BY <1>2, <3>1, SmallestSubset
  <2>2. T \in SUBSET S /\ T \in SUBSET TxnIds
    BY <2>1
  <2>3. CASE T = {}
    <3>1. \A a \in Accounts : Part(T)[a] = 0
      BY <2>3, TotalNothing
    <3>2. SumOver(Part(T), Accounts) # 0
      BY <2>1
    <3> HIDE DEF Part, F
    <3> QED
      BY <3>1, <3>2, AccountsFinite, SumZero
  <2>4. ASSUME NEW t \in T PROVE FALSE
    <3>1. PICK R \in SUBSET TxnIds : R = T \ {t} /\ R \in SUBSET S
      BY <2>2
    <3>2. SumOver(Part(R), Accounts) = 0
      BY <2>1, <2>4, <3>1
    <3> DEFINE row == [a \in Accounts |-> entry[t][a]]
    <3>3. SumOver(row, Accounts) = 0
      <4>1. SumOver(entry[t], Accounts) = 0
        BY <2>2, <2>4 DEF BalancedOK, SumOver
      <4>2. \A a \in Accounts : row[a] = entry[t][a]
        OBVIOUS
      <4> HIDE DEF row
      <4> QED
        BY <4>1, <4>2, AccountsFinite, SumSame
    <3>4. ASSUME NEW a \in Accounts
          PROVE  /\ Part(R)[a] \in Int /\ row[a] \in Int
                 /\ Part(T)[a] = Part(R)[a] + row[a]
      <4>1. Total(a, {t}) = row[a]
        <5> DEFINE f == [x \in TxnIds |-> entry[x][a]]
        <5>1. Total(a, {t}) = SumOver(f, {t})
          BY <2>2, ColumnSum
        <5>2. f[t] \in Int /\ f[t] = row[a]
          BY <2>2 DEF AmountsOK
        <5> HIDE DEF f, row
        <5>3. SumOver(f, {t}) = f[t]
          BY <5>2, FS_Singleton, SumOnly
        <5> QED
          BY <5>1, <5>2, <5>3
      <4>2. R \intersect {t} = {} /\ R \union {t} = T /\ {t} \in SUBSET TxnIds
        BY <2>2, <3>1
      <4>3. Total(a, T) = Total(a, R) + Total(a, {t})
        BY <4>2, TotalUnion
      <4> QED
        BY <2>2, <4>1, <4>3, TotalType DEF AmountsOK
    <3>5. SumOver(Part(T), Accounts) # 0
      BY <2>1
    <3>6. PICK f, g, h : f = Part(R) /\ g = row /\ h = Part(T)
      OBVIOUS
    <3> HIDE DEF Part, F, row
    <3>7. SumOver(h, Accounts) = SumOver(f, Accounts) + SumOver(g, Accounts)
      BY <3>4, <3>6, AccountsFinite, SumPlus
    <3> QED
      BY <3>2, <3>3, <3>5, <3>6, <3>7
  <2> QED
    BY <2>3, <2>4
<1>3. SumOver(Part(S), Accounts) = 0
  BY <1>2
<1> QED
  BY <1>1, <1>3

\* All balances together are nothing, on any date.
LEMMA BalancesCancel ==
  ASSUME AmountsOK, BalancedOK, NEW from, NEW to,
         NEW part, \A a \in Accounts : part[a] = CommittedBalance(a, from, to)
  PROVE  SumOver(part, Accounts) = 0
<1>1. PICK S \in SUBSET TxnIds : S = LiveIn(from, to)
  BY BalanceIsTotal
<1>2. \A a \in Accounts : part[a] = Total(a, S)
  BY <1>1, BalanceIsTotal
<1> QED
  BY <1>2, PartsBalance

\* A balance over two ranges of dates, one after the other.
LEMMA BalanceSplit ==
  ASSUME IInv, AmountsOK, NEW a \in Accounts, NEW from \in Nat, NEW mid \in Nat, NEW to \in Nat,
         from <= mid + 1, mid <= to
  PROVE  CommittedBalance(a, from, to)
           = CommittedBalance(a, from, mid) + CommittedBalance(a, mid + 1, to)
<1>1. PICK R \in SUBSET TxnIds : R = LiveIn(from, mid)
  BY BalanceIsTotal
<1>2. PICK S \in SUBSET TxnIds : S = LiveIn(mid + 1, to)
  BY BalanceIsTotal
<1>3. \A t \in TxnIds : txn[t].date \in Nat
  BY CloseDates
<1>4. \A d \in Nat : /\ ~(d \in from .. mid /\ d \in mid + 1 .. to)
                     /\ d \in from .. to <=> d \in from .. mid \/ d \in mid + 1 .. to
  OBVIOUS
<1>5. R \intersect S = {} /\ LiveIn(from, to) = R \union S
  BY <1>1, <1>2, <1>3, <1>4 DEF LiveIn
<1>6. Total(a, R \union S) = Total(a, R) + Total(a, S)
  BY <1>5, TotalUnion
<1> QED
  BY <1>1, <1>2, <1>5, <1>6, BalanceIsTotal

\* A balance over no dates.
LEMMA BalanceNothing ==
  ASSUME NEW a, NEW from \in Nat, NEW to \in Nat, to < from
  PROVE  CommittedBalance(a, from, to) = 0
<1>1. LiveIn(from, to) = {}
  BY DEF LiveIn
<1> QED
  BY <1>1, BalanceIsTotal, TotalNothing

\* The close that follows another in force follows a committed one.
LEMMA ClosePrecedes ==
  ASSUME IInv, TilesOK, NEW c \in Active, close[c].start # 1
  PROVE  \E d \in Active : close[d].end + 1 = close[c].start /\ close[d].end < close[c].end
<1>1. c \in InForce /\ c \in CloseIds
  BY DEF Active, InForce
<1>2. PICK d \in InForce \ {c} : close[d].end + 1 = close[c].start
  BY <1>1 DEF TilesOK, StartsAfter
<1>3. /\ close[c].start \in Nat /\ close[c].end \in Nat /\ close[d].end \in Nat
      /\ close[c].start <= close[c].end
  BY <1>1, CloseDates DEF TilesOK, InForce
<1>4. close[d].st # "open"
  BY <1>1, <1>2, <1>3 DEF TilesOK
<1> QED
  BY <1>2, <1>3, <1>4 DEF InForce, Active

\* Since inception, REVENUE and EXPENSES accounts have been swept up to the end
\* of every period in force.
LEMMA SweptThrough ==
  ASSUME IInv, AmountsOK, TilesOK, ClearedOK, NEW c \in Active, NEW a \in Temporary
  PROVE  CommittedBalance(a, 1, close[c].end) = 0
<1> DEFINE Fails(n) == \E d \in Active : close[d].end = n /\ CommittedBalance(a, 1, n) # 0
           E == {n \in Nat : Fails(n)}
<1>1. \A d \in Active : close[d].start \in Nat /\ close[d].end \in Nat
  BY CloseDates DEF Active
<1>2. ASSUME E # {} PROVE FALSE
  <2>1. PICK n \in E : \A m \in E : n <= m
    <3>1. E \subseteq Nat
      OBVIOUS
    <3> HIDE DEF E
    <3> QED
      BY <1>2, <3>1, FirstNatural
  <2>2. PICK d \in Active : close[d].end = n /\ CommittedBalance(a, 1, n) # 0
    BY <2>1
  <2>3. CommittedBalance(a, close[d].start, n) = 0
    BY <2>2 DEF ClearedOK
  <2>4. close[d].start # 1
    BY <2>2, <2>3
  <2>5. PICK e \in Active : close[e].end + 1 = close[d].start /\ close[e].end < n
    BY <2>2, <2>4, ClosePrecedes
  <2>6. PICK m \in Nat : m = close[e].end /\ m < n /\ m + 1 = close[d].start /\ n \in Nat
    BY <1>1, <2>1, <2>5
  <2>7. CommittedBalance(a, 1, m) = 0
    <3>1. m \notin E
      BY <2>1, <2>6
    <3> QED
      BY <2>6, <3>1
  <2>8. a \in Accounts
    BY DEF Temporary, Accounts
  <2>9. CommittedBalance(a, 1, n) = CommittedBalance(a, 1, m) + CommittedBalance(a, m + 1, n)
    BY <2>6, <2>8, BalanceSplit
  <2> QED
    BY <2>2, <2>3, <2>6, <2>7, <2>9
<1> QED
  BY <1>1, <1>2

\* The date books are closed through is one, and no close ends after it.
LEMMA LatestClose ==
  ASSUME IInv, NEW last, last = Max({0} \union {close[c].end : c \in Active})
  PROVE  /\ last \in Nat
         /\ last = 0 \/ \E c \in Active : close[c].end = last
         /\ \A c \in Active : close[c].end <= last
<1> DEFINE S == {0} \union {close[c].end : c \in Active}
           E == {n \in Nat : LastDate - n \in S}
<1>1. \A c \in Active : close[c].end \in Nat /\ close[c].end <= LastDate
  BY DatesAssumption DEF IInv, RowsOK, CloseRow, Dates, Active
<1>2. LastDate \in E /\ E \subseteq Nat
  BY DatesAssumption
<1>3. PICK n \in E : \A m \in E : n <= m
  <2> HIDE DEF E
  <2> QED
    BY <1>2, FirstNatural
<1>4. PICK x \in S : x = LastDate - n
  BY <1>3
<1>5. \A y \in S : y \in Nat /\ y <= LastDate
  BY <1>1, DatesAssumption
<1>6. ASSUME NEW y \in S PROVE x >= y
  <2>1. LastDate - y \in E /\ LastDate - x = n
    BY <1>3, <1>4, <1>5, DatesAssumption
  <2>2. n <= LastDate - y
    BY <1>3, <2>1
  <2> QED
    BY <1>3, <1>4, <1>5, <2>1, <2>2, DatesAssumption
<1>7. last \in S /\ \A y \in S : last >= y
  BY <1>4, <1>6 DEF Max
<1>8. last = 0 \/ \E c \in Active : close[c].end = last
  BY <1>7
<1>9. \A c \in Active : close[c].end <= last
  BY <1>5, <1>7
<1> QED
  BY <1>5, <1>7, <1>8, <1>9

\* Net income is a sum over the temporary accounts.
LEMMA NetIncomeIs ==
  ASSUME NEW start, NEW end,
         NEW income, income = [a \in Temporary |-> -CommittedBalance(a, start, end)]
  PROVE  NetIncome(start, end) = SumOver(income, Temporary)
BY ZenonT(60) DEF NetIncome, SumOver, MapThenSumSet, MapThenFoldSet

\* The earnings line is the income that no period in force has swept.
LEMMA EarningsAre ==
  ASSUME IInv, AmountsOK, TilesOK, ClearedOK, NEW asOf \in Dates,
         \A c \in Active : asOf \notin close[c].start .. close[c].end - 1,
         NEW income, \A a \in Temporary : income[a] = -CommittedBalance(a, 1, asOf)
  PROVE  Earnings(asOf) = SumOver(income, Temporary)
<1>1. PICK last : last = Max({0} \union {close[c].end : c \in Active})
  OBVIOUS
<1>2. /\ last \in Nat
      /\ last = 0 \/ \E c \in Active : close[c].end = last
      /\ \A c \in Active : close[c].end <= last
  BY <1>1, LatestClose
<1>3. Earnings(asOf) = IF asOf > last THEN NetIncome(last + 1, asOf) ELSE 0
  BY <1>1 DEF Earnings
<1>4. \A c \in Active : close[c].start \in Nat /\ close[c].end \in Nat
  BY CloseDates DEF Active
<1>5. asOf \in Nat /\ asOf >= 1
  BY DatesAssumption DEF Dates
<1>6. \A a \in Temporary : a \in Accounts
  BY DEF Temporary, Accounts
<1>7. CASE asOf > last
  <2> DEFINE since == [a \in Temporary |-> -CommittedBalance(a, last + 1, asOf)]
  <2>1. NetIncome(last + 1, asOf) = SumOver(since, Temporary)
    BY NetIncomeIs
  <2>2. ASSUME NEW a \in Temporary PROVE income[a] = since[a]
    <3>1. CommittedBalance(a, 1, last) = 0
      BY <1>2, BalanceNothing, SweptThrough
    <3>2. CommittedBalance(a, 1, asOf)
            = CommittedBalance(a, 1, last) + CommittedBalance(a, last + 1, asOf)
      BY <1>2, <1>5, <1>6, <1>7, BalanceSplit
    <3>3. CommittedBalance(a, last + 1, asOf) \in Int
      BY <1>6, BalanceType
    <3> QED
      BY <3>1, <3>2, <3>3
  <2> HIDE DEF since
  <2>3. SumOver(income, Temporary) = SumOver(since, Temporary)
    BY <2>2, AccountsFinite, SumSame
  <2> QED
    BY <1>3, <1>7, <2>1, <2>3
<1>8. CASE ~(asOf > last)
  <2>1. PICK c \in Active : close[c].end = last /\ asOf <= close[c].end
    BY <1>2, <1>5, <1>8
  <2>2. PICK d \in Active : asOf \in close[d].start .. close[d].end
    BY <1>4, <1>5, <2>1, TilesGapless DEF PeriodsGapless
  <2>3. asOf = close[d].end
    BY <1>4, <1>5, <2>2
  <2>4. \A a \in Temporary : income[a] = 0
    BY <2>2, <2>3, SweptThrough
  <2> QED
    BY <1>3, <1>8, <2>4, AccountsFinite, SumZero
<1> QED
  BY <1>7, <1>8

-----------------------------------------------------------------------------
(***************************************************************************)
(* The balance sheet: balances rolled up the chart of accounts.            *)
(***************************************************************************)

\* A step of the roll-up, in which every account has what is below it added.
RollsUp(r, asOf) ==
  r = [a \in SheetAccounts |-> OwnNet(a, asOf) + SumOver(r, Below(a))]

\* The roll-up is a function that adds to each account what is below it.
LEMMA RolledUpIs == \A asOf : RolledUp(asOf) = CHOOSE r : RollsUp(r, asOf)
BY DEF RolledUp, RollsUp, SumOver, MapThenSumSet, MapThenFoldSet

\* A column is the sum of its printed lines.
LEMMA ColumnIs ==
  \A column, asOf : ColumnTotal(column, asOf) = SumOver(RolledUp(asOf), Printed(column))
BY DEF ColumnTotal, SumOver

\* There are finitely many accounts on the sheet.
LEMMA SheetFinite ==
  ASSUME NEW S \in SUBSET SheetAccounts
  PROVE  IsFiniteSet(S)
<1>1. SheetAccounts \subseteq Accounts
  BY DEF SheetAccounts, Accounts
<1> QED
  BY <1>1, AccountsFinite, FS_Subset

\* A set of accounts that holds what is below each of its members, without one
\* of its members that has no parent in it, is such a set again.
LEMMA TopTaken ==
  ASSUME NEW S \in SUBSET SheetAccounts, \A b \in S : Below(b) \subseteq S,
         NEW a \in S, Parent[a] \notin S
  PROVE  /\ \A b \in S \ {a} : Below(b) \subseteq S \ {a}
         /\ Below(a) \subseteq S \ {a}
BY DEF Below

\* Among any accounts one has none of the others directly below it.
LEMMA LowestAccount ==
  ASSUME NEW E \in SUBSET SheetAccounts, E # {}
  PROVE  \E a \in E : Below(a) \intersect E = {}
<1> DEFINE F == {S \in SUBSET SheetAccounts : (\A b \in S : Below(b) \subseteq S) /\ S \intersect E # {}}
<1>1. PICK S \in F : \A U \in F : U \subseteq S => U = S
  <2>1. SheetAccounts \in F /\ F \subseteq SUBSET SheetAccounts
    BY DEF Below
  <2>2. IsFiniteSet(SheetAccounts)
    BY SheetFinite
  <2> HIDE DEF F
  <2> QED
    BY <2>1, <2>2, SmallestSubset
<1>2. S \in SUBSET SheetAccounts /\ (\A b \in S : Below(b) \subseteq S) /\ S # {}
  BY <1>1
<1>3. PICK a \in S : Parent[a] \notin S
  BY <1>2, ChartAssumption
<1>4. /\ \A b \in S \ {a} : Below(b) \subseteq S \ {a}
      /\ Below(a) \subseteq S \ {a}
  BY <1>2, <1>3, TopTaken
<1>5. (S \ {a}) \intersect E = {}
  <2>1. S \ {a} \notin F
    <3> HIDE DEF F
    <3> QED
      BY <1>1, <1>3
  <2>2. S \ {a} \in SUBSET SheetAccounts
    BY <1>2
  <2> QED
    BY <1>4, <2>1, <2>2
<1>6. a \in E /\ Below(a) \intersect E = {}
  BY <1>1, <1>4, <1>5
<1> QED
  BY <1>6

\* No account is above itself, so balances can be rolled up.
LEMMA RollsUpExists == \A asOf : \E r : RollsUp(r, asOf)
<1> SUFFICES ASSUME NEW asOf PROVE \E r : RollsUp(r, asOf)
  OBVIOUS
<1> DEFINE Up(f, S) == f = [a \in S |-> OwnNet(a, asOf) + SumOver(f, Below(a))]
           F == {S \in SUBSET SheetAccounts : (\A b \in S : Below(b) \subseteq S) /\ ~\E f : Up(f, S)}
<1>1. ASSUME F # {} PROVE FALSE
  <2>1. PICK S \in F : \A U \in F : U \subseteq S => U = S
    <3>1. F \subseteq SUBSET SheetAccounts /\ IsFiniteSet(SheetAccounts)
      BY SheetFinite
    <3> HIDE DEF F
    <3> QED
      BY <1>1, <3>1, SmallestSubset
  <2>2. S \in SUBSET SheetAccounts /\ (\A b \in S : Below(b) \subseteq S) /\ ~\E f : Up(f, S)
    BY <2>1
  <2>3. S # {}
    <3>1. Up([a \in {} |-> 0], {})
      OBVIOUS
    <3> HIDE DEF Up
    <3> QED
      BY <2>2, <3>1
  <2>4. PICK a \in S : Parent[a] \notin S
    BY <2>2, <2>3, ChartAssumption
  <2>5. /\ \A b \in S \ {a} : Below(b) \subseteq S \ {a}
        /\ Below(a) \subseteq S \ {a}
    BY <2>2, <2>4, TopTaken
  <2>6. PICK f : Up(f, S \ {a})
    <3>1. S \ {a} \notin F
      <4> HIDE DEF F
      <4> QED
        BY <2>1, <2>4
    <3> QED
      BY <2>2, <2>5, <3>1
  <2> DEFINE g == [b \in S |-> IF b = a THEN OwnNet(a, asOf) + SumOver(f, Below(a)) ELSE f[b]]
  <2>7. \A b \in S \ {a} : g[b] = f[b]
    OBVIOUS
  <2>8. ASSUME NEW b \in S PROVE SumOver(g, Below(b)) = SumOver(f, Below(b))
    <3>1. Below(b) \subseteq S \ {a} /\ IsFiniteSet(Below(b))
      BY <2>2, <2>5, SheetFinite
    <3>2. \A x \in Below(b) : g[x] = f[x]
      BY <2>7, <3>1
    <3> HIDE DEF g
    <3> QED
      BY <3>1, <3>2, SumSame
  <2>9. ASSUME NEW b \in S PROVE g[b] = OwnNet(b, asOf) + SumOver(g, Below(b))
    <3>1. CASE b = a
      BY <2>8, <3>1
    <3>2. CASE b # a
      <4>1. f[b] = OwnNet(b, asOf) + SumOver(f, Below(b))
        BY <2>6, <3>2
      <4> QED
        BY <2>8, <3>2, <4>1
    <3> QED
      BY <3>1, <3>2
  <2>10. Up(g, S)
    <3>1. g = [b \in S |-> g[b]]
      OBVIOUS
    <3> HIDE DEF g
    <3> QED
      BY <2>9, <3>1
  <2> HIDE DEF Up, g
  <2> QED
    BY <2>2, <2>10
<1>2. \A b \in SheetAccounts : Below(b) \subseteq SheetAccounts
  BY DEF Below
<1>3. \E f : Up(f, SheetAccounts)
  BY <1>1, <1>2
<1> QED
  BY <1>3 DEF RollsUp

\* What each line of the sheet is: its own balance and the lines below it.
LEMMA RolledLine ==
  ASSUME NEW asOf, \A a \in SheetAccounts : OwnNet(a, asOf) \in Int,
         NEW r, r = RolledUp(asOf)
  PROVE  \A a \in SheetAccounts : /\ r[a] \in Int /\ SumOver(r, Below(a)) \in Int
                                  /\ r[a] = OwnNet(a, asOf) + SumOver(r, Below(a))
<1>1. RollsUp(r, asOf)
  BY RolledUpIs, RollsUpExists
<1>2. \A a \in SheetAccounts : r[a] = OwnNet(a, asOf) + SumOver(r, Below(a))
  BY <1>1 DEF RollsUp
<1>3. ASSUME NEW a \in SheetAccounts, \A b \in Below(a) : r[b] \in Int
      PROVE  SumOver(r, Below(a)) \in Int /\ r[a] \in Int
  <2>1. IsFiniteSet(Below(a))
    BY SheetFinite DEF Below
  <2>2. SumOver(r, Below(a)) \in Int
    BY <1>3, <2>1, SumType
  <2> QED
    BY <1>2, <2>2
<1> DEFINE E == {a \in SheetAccounts : r[a] \notin Int}
<1>4. E = {}
  <2>1. ASSUME E # {} PROVE FALSE
    <3>1. PICK a \in E : Below(a) \intersect E = {}
      <4>1. E \in SUBSET SheetAccounts
        OBVIOUS
      <4> HIDE DEF E
      <4> QED
        BY <2>1, <4>1, LowestAccount
    <3>2. \A b \in Below(a) : r[b] \in Int
      BY <3>1 DEF Below
    <3> QED
      BY <1>3, <3>1, <3>2
  <2> QED
    BY <2>1
<1>5. \A a \in SheetAccounts : Below(a) \subseteq SheetAccounts
  BY DEF Below
<1> QED
  BY <1>2, <1>3, <1>4, <1>5

\* Each balance of a column is counted once, in the line of the one root above
\* its account, if no line crosses into the column or out of it.
LEMMA ColumnSumsOnce ==
  ASSUME NEW asOf, \A a \in SheetAccounts : OwnNet(a, asOf) \in Int,
         NEW column \in SUBSET SheetAccounts,
         \A a \in SheetAccounts : Parent[a] # NoParent /\ ~(a \in column <=> Parent[a] \in column)
                                  => RolledUp(asOf)[a] = 0,
         NEW own, \A a \in column : own[a] = OwnNet(a, asOf)
  PROVE  ColumnTotal(column, asOf) = SumOver(own, column)
<1>1. PICK r : r = RolledUp(asOf)
  OBVIOUS
<1>2. \A a \in SheetAccounts : /\ r[a] \in Int /\ SumOver(r, Below(a)) \in Int
                               /\ r[a] = OwnNet(a, asOf) + SumOver(r, Below(a))
  BY <1>1, RolledLine
<1>3. PICK roots \in SUBSET column : roots = Printed(column)
  BY DEF Printed
<1>4. PICK rest \in SUBSET column : rest = column \ roots
  OBVIOUS
<1>5. ColumnTotal(column, asOf) = SumOver(r, roots)
  BY <1>1, <1>3, ColumnIs
<1>6. IsFiniteSet(column) /\ IsFiniteSet(roots) /\ IsFiniteSet(rest)
  BY SheetFinite
<1> DEFINE kids == [a \in column |-> SumOver(r, Below(a))]
           part == [a \in column |-> Below(a) \intersect column]
<1>7. SumOver(kids, column) = SumOver(r, rest)
  <2>1. \A x \in rest : x \in SheetAccounts /\ x \in column /\ Parent[x] # NoParent
    BY <1>3, <1>4 DEF Printed
  <2>2. PICK kept \in SUBSET rest : kept = {x \in rest : Parent[x] \in column}
    OBVIOUS
  <2>3. \A x \in rest \ kept : r[x] = 0
    BY <1>1, <2>1, <2>2
  <2>4. \A x \in rest : r[x] \in Int
    BY <1>2, <2>1
  <2>5. SumOver(r, rest) = SumOver(r, kept)
    BY <1>6, <2>3, <2>4, SumSupport
  <2>6. ASSUME NEW a \in column
        PROVE  /\ Below(a) \intersect column \subseteq kept
               /\ \A x \in kept : x \in Below(a) \intersect column <=> Parent[x] = a
               /\ SumOver(r, Below(a)) = SumOver(r, Below(a) \intersect column)
    <3>1. a # NoParent /\ Below(a) \subseteq SheetAccounts
      BY ChartAssumption DEF Below, SheetAccounts, Accounts
    <3>2. \A x \in Below(a) \ column : r[x] = 0
      BY <1>1, <3>1 DEF Below
    <3>3. \A x \in Below(a) : r[x] \in Int
      BY <1>2, <3>1
    <3>4. IsFiniteSet(Below(a))
      BY <3>1, SheetFinite
    <3>5. SumOver(r, Below(a)) = SumOver(r, Below(a) \intersect column)
      <4>1. PICK R \in SUBSET Below(a) : R = Below(a) \intersect column
        OBVIOUS
      <4>2. \A x \in Below(a) \ R : r[x] = 0
        BY <3>2, <4>1
      <4> QED
        BY <3>3, <3>4, <4>1, <4>2, SumSupport
    <3>6. Below(a) \intersect column \subseteq kept
      BY <1>3, <1>4, <2>2, <3>1 DEF Below, Printed
    <3>7. \A x \in kept : x \in Below(a) \intersect column <=> Parent[x] = a
      BY <2>1, <2>2 DEF Below
    <3> QED
      BY <3>5, <3>6, <3>7
  <2>7. /\ \A a \in column : part[a] \in SUBSET kept
        /\ \A a \in column : \A x \in kept : x \in part[a] <=> Parent[x] = a
        /\ \A a \in column : kids[a] = SumOver(r, part[a])
    BY <2>6
  <2>8. /\ IsFiniteSet(kept) /\ IsFiniteSet(column)
        /\ \A x \in kept : r[x] \in Int /\ Parent[x] \in column
    BY <1>6, <2>2, <2>4, FS_Subset
  <2> HIDE DEF kids, part
  <2>9. SumOver(kids, column) = SumOver(r, kept)
    BY <2>7, <2>8, SumClasses
  <2> QED
    BY <2>5, <2>9
<1>8. SumOver(r, column) = SumOver(own, column) + SumOver(kids, column)
  <2>1. \A a \in column : own[a] \in Int /\ kids[a] \in Int /\ r[a] = own[a] + kids[a]
    BY <1>2
  <2> HIDE DEF kids
  <2> QED
    BY <1>6, <2>1, SumPlus
<1>9. SumOver(r, column) = SumOver(r, roots) + SumOver(r, rest)
  <2>1. roots \intersect rest = {} /\ roots \union rest = column
    BY <1>4
  <2>2. \A x \in roots \union rest : r[x] \in Int
    BY <1>2
  <2> QED
    BY <1>6, <2>1, <2>2, SumUnion
<1>10. PICK x \in Int, y \in Int, z \in Int :
         x = SumOver(r, roots) /\ y = SumOver(r, rest) /\ z = SumOver(own, column)
  <2>1. \A a \in column : own[a] \in Int
    BY <1>2
  <2> QED
    BY <1>2, <1>6, <2>1, SumType
<1>11. x + y = z + y
  <2> HIDE DEF kids
  <2> QED
    BY <1>7, <1>8, <1>9, <1>10
<1>12. x = z
  BY <1>11
<1> QED
  BY <1>5, <1>10, <1>12

\* What an account prints on its own is its balance, on its column's side.
LEMMA OwnSide ==
  ASSUME AmountsOK, NEW asOf, NEW a \in SheetAccounts
  PROVE  /\ CommittedBalance(a, 1, asOf) \in Int /\ OwnNet(a, asOf) \in Int
         /\ OwnNet(a, asOf) = IF a \in Assets THEN CommittedBalance(a, 1, asOf)
                              ELSE -CommittedBalance(a, 1, asOf)
<1>1. PICK b \in Int : b = CommittedBalance(a, 1, asOf)
  BY BalanceType DEF SheetAccounts, Accounts
<1> QED
  BY <1>1 DEF OwnNet, NetBalance

\* The columns agree when everything posted balances and the closed periods
\* have been swept.
LEMMA ColumnsAgree ==
  ASSUME IInv, AmountsOK, BalancedOK, TilesOK, ClearedOK, NEW asOf \in Dates,
         \A c \in Active : asOf \notin close[c].start .. close[c].end - 1,
         \A a \in Misplaced : RolledUp(asOf)[a] = 0
  PROVE  TotalAssets(asOf) = TotalLiabilities(asOf)
<1> DEFINE bal == [a \in Accounts |-> CommittedBalance(a, 1, asOf)]
           minus == [a \in Accounts |-> -CommittedBalance(a, 1, asOf)]
<1>1. PICK Other \in SUBSET SheetAccounts : Other = SheetAccounts \ Assets
  OBVIOUS
<1>2. /\ Assets \subseteq SheetAccounts /\ SheetAccounts \subseteq Accounts
      /\ Accounts = Assets \union (Other \union Temporary)
      /\ Assets \intersect (Other \union Temporary) = {} /\ Other \intersect Temporary = {}
  <2>1. /\ IncomeSummary \notin Temporary /\ RetainedEarnings \notin Temporary
        /\ Temporary \intersect Permanent = {} /\ Assets \subseteq Permanent
    BY AccountAssumption, ChartAssumption
  <2>2. Accounts = SheetAccounts \union Temporary /\ SheetAccounts \intersect Temporary = {}
    BY <2>1 DEF Accounts, SheetAccounts, Temporary
  <2>3. Assets \subseteq SheetAccounts
    BY <2>1 DEF SheetAccounts
  <2> QED
    BY <1>1, <2>2, <2>3
<1>3. \A a \in SheetAccounts : OwnNet(a, asOf) \in Int
  BY OwnSide
<1>4. \A a \in Accounts : bal[a] \in Int /\ minus[a] = -bal[a]
                            /\ bal[a] = CommittedBalance(a, 1, asOf)
                            /\ minus[a] = -CommittedBalance(a, 1, asOf)
  BY BalanceType
<1>5. PICK amount, opposite : amount = bal /\ opposite = minus
  OBVIOUS
<1> HIDE DEF bal, minus
<1>6. TotalAssets(asOf) = SumOver(amount, Assets)
  <2>1. \A a \in Assets : amount[a] = OwnNet(a, asOf)
    BY <1>2, <1>4, <1>5, OwnSide
  <2>2. \A a \in SheetAccounts : Parent[a] # NoParent /\ ~(a \in Assets <=> Parent[a] \in Assets)
                                 => RolledUp(asOf)[a] = 0
    BY <1>2 DEF Misplaced
  <2> QED
    BY <1>2, <1>3, <2>1, <2>2, ColumnSumsOnce DEF TotalAssets
<1>7. ColumnTotal(Other, asOf) = SumOver(opposite, Other)
  <2>1. \A a \in Other : opposite[a] = OwnNet(a, asOf)
    BY <1>1, <1>2, <1>4, <1>5, OwnSide
  <2>2. \A a \in SheetAccounts : Parent[a] # NoParent /\ ~(a \in Other <=> Parent[a] \in Other)
                                 => RolledUp(asOf)[a] = 0
    BY <1>1 DEF Misplaced
  <2> QED
    BY <1>3, <2>1, <2>2, ColumnSumsOnce
<1>8. Earnings(asOf) = SumOver(opposite, Temporary)
  <2>1. \A a \in Temporary : opposite[a] = -CommittedBalance(a, 1, asOf)
    BY <1>2, <1>4, <1>5
  <2> QED
    BY <2>1, EarningsAre
<1>9. TotalLiabilities(asOf) = SumOver(opposite, Other) + SumOver(opposite, Temporary)
  BY <1>1, <1>7, <1>8 DEF TotalLiabilities
<1>10. SumOver(amount, Accounts) = 0
  BY <1>4, <1>5, BalancesCancel
<1>11. IsFiniteSet(Assets) /\ IsFiniteSet(Other) /\ IsFiniteSet(Temporary) /\ IsFiniteSet(Other \union Temporary)
  BY <1>1, <1>2, SheetFinite, AccountsFinite, FS_Union
<1>12. \A a \in Accounts : amount[a] \in Int /\ opposite[a] = -amount[a]
  BY <1>4, <1>5
<1>13. PICK x \in Int, y \in Int, z \in Int :
         x = SumOver(amount, Assets) /\ y = SumOver(amount, Other) /\ z = SumOver(amount, Temporary)
  BY <1>2, <1>11, <1>12, SumType
<1>14. SumOver(amount, Other \union Temporary) = y + z
  <2>1. \A a \in Other \union Temporary : amount[a] \in Int
    BY <1>2, <1>12
  <2> QED
    BY <1>2, <1>11, <1>13, <2>1, SumUnion
<1>15. SumOver(amount, Accounts) = x + (y + z)
  BY <1>2, <1>11, <1>12, <1>13, <1>14, SumUnion
<1>16. SumOver(opposite, Other) = -y /\ SumOver(opposite, Temporary) = -z
  BY <1>2, <1>11, <1>12, <1>13, SumOpposite
<1> QED
  BY <1>6, <1>9, <1>10, <1>13, <1>15, <1>16

\* One request at a time, and of clients that send whole cents: the balance
\* sheet balances on every date that is not inside a closed period, however
\* often periods were closed and reopened, in every chart CreateLedgerAccount
\* allows, as long as no account below a parent of the other side, or of none,
\* shows an amount (internal/reporting rolls up balances the ledger never adds
\* together).
THEOREM SheetAgrees ==
  ASSUME Alone, CentParts = 1
  PROVE  Spec => []SheetBalances
<1>1. Init => BalancedOK
  BY InitSums
<1>2. (IInv /\ SumsInv /\ AloneInv) /\ BalancedOK /\ [Next]_vars => BalancedOK'
  BY NextBalanced DEF SumsInv
<1>3. (IInv /\ SumsInv /\ AloneInv) /\ BalancedOK => SheetBalances
  BY ColumnsAgree DEF SumsInv, AloneInv, SheetBalances
<1> QED
  BY <1>1, <1>2, <1>3, AloneInvariance, PTL DEF Spec

-----------------------------------------------------------------------------
(***************************************************************************)
(* What a transaction writes, all of it together.                          *)
(***************************************************************************)

\* A step of one request leaves another where it is, and what that wrote.
LEMMA OtherKept ==
  ASSUME IInv, NEW w \in Workers, Begin(w) \/ Step(w) \/ Abort(w), NEW v \in Workers, v # w
  PROVE  /\ pc'[v] = pc[v] /\ req'[v] = req[v] /\ Own(v)' = Own(v)
         /\ \A t \in Own(v) : txn'[t] = txn[t] /\ entry'[t] = entry[t]
         /\ \A c \in CloseIds : close[c].by = v => close'[c] = close[c]
<1>1. pc'[v] = pc[v]
  <2>1. pc' = pc \/ \E step : Goto(w, step)
    BY DEF Begin, Step, Abort, CreateLedgerTransaction, CheckReversible, InsertReversal, BeginClose,
       ReadBalances, PostZeroing, PostSweep, CreatePeriodClose, CheckReverse, BeginReverse,
       MarkReversed, PostReversal, Commit, Rollback, Finish
  <2> QED
    BY <2>1 DEF Goto, IInv, RowsOK
<1>2. req'[v] = req[v]
  <2> req \in [Workers -> Request]
    BY DEF IInv, RowsOK
  <2> QED
    BY DEF Begin, Step, Abort, CreateLedgerTransaction, CheckReversible, InsertReversal, BeginClose,
       ReadBalances, PostZeroing, PostSweep, CreatePeriodClose, CheckReverse, BeginReverse,
       MarkReversed, PostReversal, Commit, Rollback, Finish
<1>3. \A t \in Own(v) : txn'[t] = txn[t]
  <2>1. ASSUME NEW date, NEW rev, NEW amounts, Insert(w, date, rev, amounts), ~NoTxnLeft
        PROVE  \A t \in Own(v) : txn'[t] = txn[t]
    <3>1. PICK n \in TxnIds : n = FreshTxn /\ txn[n].st = "free"
      BY <2>1, FreshTxnIsFree
    <3> QED
      BY <2>1, <3>1 DEF Insert, Own, IInv, RowsOK
  <2>2. CASE Rollback(w)
    BY <2>2, RollbackRows DEF IInv, Own
  <2>3. CASE Commit(w)
    BY <2>3, CommitRows DEF IInv, Own
  <2> QED
    BY <2>1, <2>2, <2>3, InsertUnlocked DEF Own
<1>4. ASSUME NEW c \in CloseIds, close[c].by = v
      PROVE  close'[c] = close[c]
  <2>1. CASE Rollback(w) \/ Commit(w)
    BY <1>4, <2>1, RollbackRows, CommitRows DEF IInv
  <2>2. CASE CreatePeriodClose(w) /\ ~Rollback(w)
    BY <1>4, <2>2, NewClose, NullAssumption DEF IInv, OwnersOK
  <2>3. CASE MarkReversed(w) /\ ~Rollback(w)
    BY <1>4, <2>3, MarkedClose, NullAssumption DEF IInv, OwnersOK
  <2> QED
    BY <2>1, <2>2, <2>3, CloseSteps
<1> QED
  BY <1>1, <1>2, <1>3, <1>4, OwnKept

\* A row inserted joins what the request has written.
LEMMA InsertOwn ==
  ASSUME IInv, AmountsOK, NEW w \in Workers, NEW date, NEW rev, NEW amounts,
         Insert(w, date, rev, amounts), ~NoTxnLeft
  PROVE  \E n \in TxnIds :
           /\ txn[n].st = "free" /\ txn'[n].rev = rev /\ entry'[n] = amounts
           /\ Own(w)' = Own(w) \union {n} /\ n \notin Own(w) /\ close' = close
           /\ \A t \in TxnIds \ {n} : txn'[t] = txn[t] /\ entry'[t] = entry[t]
<1>1. PICK n \in TxnIds : n = FreshTxn /\ txn[n].st = "free"
  BY FreshTxnIsFree
<1>2. /\ txn'[n] = [st |-> "open", by |-> w, date |-> date, rev |-> rev]
      /\ entry'[n] = amounts
      /\ \A t \in TxnIds \ {n} : txn'[t] = txn[t] /\ entry'[t] = entry[t]
      /\ close' = close
  BY <1>1 DEF Insert, IInv, RowsOK, AmountsOK
<1>3. txn'[n].rev = rev /\ txn'[n].st = "open" /\ txn'[n].by = w
  BY <1>2
<1>4. Own(w)' = Own(w) \union {n} /\ n \notin Own(w)
  BY <1>1, <1>2, <1>3 DEF Own
<1> QED
  BY <1>1, <1>2, <1>3, <1>4

\* A request that has not begun to write owns nothing.
LEMMA OwnsNothing ==
  ASSUME IInv, NEW w \in Workers, pc[w] \notin {"zero", "close", "undo", "commit"}
  PROVE  Own(w) = {}
BY DEF IInv, OwnersOK, Own

\* How a request gets to its commit.
LEMMA ToCommit ==
  ASSUME IInv, NEW w \in Workers, Begin(w) \/ Step(w) \/ Abort(w), pc'[w] = "commit"
  PROVE  \/ /\ pc[w] \in {"idle", "reversal"}
            /\ ~NoTxnLeft /\ \E date, rev, amounts : Insert(w, date, rev, amounts)
         \/ CreatePeriodClose(w) /\ ~Rollback(w)
         \/ MarkReversed(w) /\ ~Rollback(w)
         \/ pc[w] = "undo" /\ close' = close
<1>1. pc \in [Workers -> Steps]
  BY DEF IInv, RowsOK
<1>2. ~Commit(w) /\ ~Rollback(w)
  BY <1>1 DEF Commit, Rollback, Finish, Goto
<1>3. CASE CreateLedgerTransaction(w)
  BY <1>3 DEF CreateLedgerTransaction
<1>4. CASE InsertReversal(w)
  BY <1>2, <1>4 DEF InsertReversal
<1>5. CASE PostReversal(w)
  BY <1>2, <1>5 DEF PostReversal, Insert
<1>6. CASE CreatePeriodClose(w) \/ MarkReversed(w)
  BY <1>2, <1>6
<1>7. CASE \/ CheckReversible(w) \/ BeginClose(w) \/ CheckReverse(w) \/ ReadBalances(w)
           \/ PostZeroing(w) \/ PostSweep(w) \/ BeginReverse(w)
  BY <1>1, <1>2, <1>7 DEF CheckReversible, BeginClose, CheckReverse, ReadBalances, PostZeroing,
     PostSweep, BeginReverse, Goto
<1> QED
  BY <1>2, <1>3, <1>4, <1>5, <1>6, <1>7 DEF Begin, Step, Abort

\* A transaction without a close's row goes on to be one posting or reversal.
LEMMA OneRowStep ==
  ASSUME IInv, AmountsOK, OneRowOK, NEW w \in Workers, Begin(w) \/ Step(w) \/ Abort(w)
  PROVE  OneRowOK'
<1> SUFFICES ASSUME NEW v \in Workers, pc'[v] = "commit", \A c \in CloseIds : close'[c].by # v
             PROVE  \E t \in TxnIds : Own(v)' = {t}
  BY DEF OneRowOK
<1>1. CASE v # w
  <2>1. pc[v] = "commit" /\ Own(v)' = Own(v) /\ \A c \in CloseIds : close[c].by # v
    BY <1>1, OtherKept
  <2> QED
    BY <2>1 DEF OneRowOK
<1>2. CASE v = w
  <2>1. ASSUME NEW date, NEW rev, NEW amounts, Insert(w, date, rev, amounts), ~NoTxnLeft,
               pc[w] \in {"idle", "reversal"}
        PROVE  \E t \in TxnIds : Own(v)' = {t}
    <3>1. PICK n \in TxnIds : Own(w)' = Own(w) \union {n}
      BY <2>1, InsertOwn
    <3>2. Own(w) = {}
      BY <2>1, OwnsNothing
    <3> QED
      BY <1>2, <3>1, <3>2
  <2>2. CASE CreatePeriodClose(w) /\ ~Rollback(w)
    BY <1>2, <2>2, NewClose
  <2>3. CASE MarkReversed(w) /\ ~Rollback(w)
    <3>1. req[w].close \in CloseIds
      BY <2>3 DEF MarkReversed, IInv, ReopensOK
    <3>2. PICK n \in CloseIds : n = req[w].close /\ close[n] \in CloseRow
      BY <3>1 DEF IInv, RowsOK
    <3>3. close' = [close EXCEPT ![n] = Owned(close[n], "reversing", w)]
      BY <2>3, <3>2 DEF MarkReversed
    <3>4. close'[n].by = w
      BY <3>2, <3>3 DEF Owned, IInv, RowsOK, CloseRow
    <3> QED
      BY <1>2, <3>2, <3>4
  <2>4. CASE pc[w] = "undo" /\ close' = close
    <3>1. req[w].close \in CloseIds /\ close[req[w].close].by = w
      BY <2>4 DEF IInv, ReopensOK
    <3> QED
      BY <1>2, <2>4, <3>1
  <2> QED
    BY <1>2, <2>1, <2>2, <2>3, <2>4, ToCommit
<1> QED
  BY <1>1, <1>2

\* The postings of a close go on touching only the accounts it sweeps and the
\* two it sweeps them to.
LEMMA QuietStep ==
  ASSUME IInv, SumsInv, QuietOK, NEW w \in Workers, Begin(w) \/ Step(w) \/ Abort(w)
  PROVE  QuietOK'
<1> SUFFICES ASSUME NEW a \in Permanent
             PROVE  /\ \A c \in CloseIds : \A t \in close'[c].entries : entry'[t][a] = 0
                    /\ \A v \in Workers : pc'[v] \in {"zero", "close"} =>
                         \A t \in Own(v)' : entry'[t][a] = 0
  BY DEF QuietOK
<1>1. ASSUME NEW c \in CloseIds, NEW t \in close'[c].entries
      PROVE  entry'[t][a] = 0
  BY <1>1, ClosePostings DEF QuietOK
<1>2. ASSUME NEW v \in Workers, v # w, pc'[v] \in {"zero", "close"}, NEW t \in Own(v)'
      PROVE  entry'[t][a] = 0
  BY <1>2, OtherKept DEF QuietOK
<1>3. ASSUME pc'[w] \in {"zero", "close"}, NEW t \in Own(w)'
      PROVE  entry'[t][a] = 0
  <2>1. \/ ReadBalances(w)
        \/ PostZeroing(w) /\ ~Rollback(w)
        \/ PostSweep(w) /\ ~Rollback(w)
    BY <1>3, StepTo DEF BeginClose, BeginReverse, Goto, IInv, RowsOK
  <2>2. AmountsOK /\ a \notin Temporary \union {IncomeSummary, RetainedEarnings} /\ a \in Accounts
    BY AccountAssumption DEF SumsInv, Accounts
  <2>3. ASSUME NEW date, NEW x \in Accounts \ {a}, NEW y \in Accounts \ {a}, x # y, NEW e \in Entry,
               Insert(w, date, NoTxn, Legs(x, y, e)), ~NoTxnLeft, pc[w] = "zero"
        PROVE  entry'[t][a] = 0
    <3>1. Legs(x, y, e)[a] = 0
      BY <2>2, <2>3, LegsBalance
    <3>2. PICK amounts : amounts = Legs(x, y, e)
      OBVIOUS
    <3>3. PICK n \in TxnIds : /\ entry'[n] = amounts /\ Own(w)' = Own(w) \union {n}
                              /\ \A s \in TxnIds \ {n} : entry'[s] = entry[s]
      BY <2>2, <2>3, <3>2, InsertOwn
    <3>4. \A s \in Own(w) : s \in TxnIds /\ entry[s][a] = 0
      BY <2>3 DEF QuietOK, Own
    <3> QED
      BY <1>3, <3>1, <3>2, <3>3, <3>4
  <2>4. CASE ReadBalances(w)
    <3>1. Own(w) = {} /\ Own(w)' = Own(w)
      BY <2>4, OwnsNothing DEF ReadBalances, Own
    <3> QED
      BY <1>3, <3>1
  <2>5. CASE PostZeroing(w) /\ ~Rollback(w)
    <3>1. PICK z \in req[w].todo :
            Insert(w, req[w].date, NoTxn,
                   Legs(z, IncomeSummary, EntryForNormalDelta(NormalBalance(z), -net[w][z])))
      BY <2>5 DEF PostZeroing
    <3>2. z \in Accounts \ {a} /\ IncomeSummary \in Accounts \ {a} /\ z # IncomeSummary
      BY <2>2, AccountAssumption DEF AmountsOK, Temporary, Accounts
    <3>3. EntryForNormalDelta(NormalBalance(z), -net[w][z]) \in Entry
      <4>1. -net[w][z] \in Int /\ NormalBalance(z) \in {"DEBIT", "CREDIT"}
        BY <2>2, <3>2 DEF AmountsOK, NormalBalance
      <4> QED
        BY <4>1, DeltaEntry
    <3>4. ~NoTxnLeft /\ pc[w] = "zero"
      BY <2>5 DEF PostZeroing
    <3> QED
      BY <2>3, <3>1, <3>2, <3>3, <3>4
  <2>6. CASE PostSweep(w) /\ ~Rollback(w)
    <3>1. CASE IncomeSummaryDelta(w) = 0
      <4>1. Own(w)' = Own(w) /\ entry' = entry /\ pc[w] = "zero"
        BY <2>6, <3>1 DEF PostSweep, Own
      <4> QED
        BY <1>3, <4>1 DEF QuietOK
    <3>2. CASE IncomeSummaryDelta(w) # 0
      <4>1. Insert(w, req[w].date, NoTxn,
                   Legs(IncomeSummary, RetainedEarnings,
                        EntryForNormalDelta("CREDIT", -IncomeSummaryDelta(w))))
        BY <2>6, <3>2 DEF PostSweep
      <4>2. /\ IncomeSummary \in Accounts \ {a} /\ RetainedEarnings \in Accounts \ {a}
            /\ IncomeSummary # RetainedEarnings
        BY <2>2, AccountAssumption DEF Accounts
      <4>3. EntryForNormalDelta("CREDIT", -IncomeSummaryDelta(w)) \in Entry
        BY <2>2, IncomeSummaryDeltaIs, DeltaEntry
      <4>4. ~NoTxnLeft /\ pc[w] = "zero"
        BY <2>6, <3>2 DEF PostSweep
      <4> QED
        BY <2>3, <4>1, <4>2, <4>3, <4>4
    <3> QED
      BY <3>1, <3>2
  <2> QED
    BY <2>1, <2>4, <2>5, <2>6
<1> QED
  BY <1>1, <1>2, <1>3

\* Undoing a close goes on reversing its postings only.
LEMMA UndoesOnlyStep ==
  ASSUME IInv, AmountsOK, UndoesOnlyOK, NEW w \in Workers, Begin(w) \/ Step(w) \/ Abort(w)
  PROVE  UndoesOnlyOK'
<1> SUFFICES ASSUME NEW c \in CloseIds, close'[c].st = "reversing", NEW v, v = close'[c].by
             PROVE  /\ pc'[v] = "undo" => req'[v].pend \subseteq close'[c].entries
                    /\ \A r \in Own(v)' : txn'[r].rev \in close'[c].entries
  BY DEF UndoesOnlyOK, Own
<1>1. CASE close[c].st = "reversing" /\ close[c].by # w
  <2>1. close[c].by \in Workers
    BY <1>1, NullAssumption DEF IInv, OwnersOK, RowsOK, CloseRow
  <2>2. close'[c] = close[c]
    BY <1>1, <2>1, OtherKept
  <2> QED
    BY <1>1, <2>1, <2>2, OtherKept DEF UndoesOnlyOK
<1>2. CASE close[c].st = "reversing" /\ close[c].by = w
  <2>1. pc[w] \in {"undo", "commit"} /\ req[w].close = c
    BY <1>2 DEF IInv, OwnersOK
  <2>2. ~Rollback(w) /\ ~Commit(w)
    BY <1>2, RollbackRows, CommitRows DEF IInv
  <2>3. PostReversal(w)
    BY <2>1, <2>2 DEF Begin, Step, Abort, CreateLedgerTransaction, CheckReversible, InsertReversal,
       BeginClose, ReadBalances, PostZeroing, PostSweep, CreatePeriodClose, CheckReverse,
       BeginReverse, MarkReversed
  <2>4. PICK t \in req[w].pend :
          /\ Insert(w, ReversalDate(c), t, Negated(entry[t])) /\ ~NoTxnLeft
          /\ req' = [req EXCEPT ![w] = [req[w] EXCEPT !.pend = req[w].pend \ {t}]]
    BY <2>1, <2>2, <2>3 DEF PostReversal
  <2>5. req'[w].pend = req[w].pend \ {t}
    BY <2>4 DEF IInv, RowsOK, Request
  <2>6. req[w].pend \subseteq close[c].entries
    BY <1>2, <2>3 DEF PostReversal, UndoesOnlyOK
  <2>7. PICK n \in TxnIds :
          /\ txn'[n].rev = t /\ Own(w)' = Own(w) \union {n} /\ close' = close
          /\ \A s \in TxnIds \ {n} : txn'[s] = txn[s]
    BY <2>4, InsertOwn
  <2>8. \A r \in Own(w) : r \in TxnIds /\ txn[r].rev \in close[c].entries
    BY <1>2 DEF UndoesOnlyOK, Own
  <2> QED
    BY <1>2, <2>4, <2>5, <2>6, <2>7, <2>8
<1>3. CASE close[c].st # "reversing"
  <2>1. ~Commit(w) /\ ~Rollback(w)
    BY <1>3, RollbackRows, CommitRows DEF IInv
  <2>2. ~CreatePeriodClose(w)
    BY <1>3, <2>1, NewClose
  <2>3. MarkReversed(w)
    BY <1>3, <2>1, <2>2, CloseSteps
  <2>4. c = req[w].close /\ close'[c].entries = close[c].entries
    BY <1>3, <2>1, <2>3, MarkedClose
  <2>5. close' = [close EXCEPT ![c] = Owned(close[c], "reversing", w)]
    BY <2>1, <2>3, <2>4 DEF MarkReversed
  <2>6. v = w
    BY <2>5 DEF Owned, IInv, RowsOK, CloseRow
  <2>7. req' = [req EXCEPT ![w] = [req[w] EXCEPT !.pend = close[c].entries]] /\ txn' = txn
    BY <2>1, <2>3, <2>4 DEF MarkReversed
  <2>8. req'[w].pend = close[c].entries
    BY <2>7 DEF IInv, RowsOK, Request
  <2>9. Own(w) = {} /\ Own(w)' = Own(w)
    BY <2>3, <2>7, OwnsNothing DEF MarkReversed, Own
  <2> QED
    BY <2>4, <2>6, <2>8, <2>9
<1> QED
  BY <1>1, <1>2, <1>3

\* Nothing is written, and every step keeps what a transaction writes whole.
LEMMA NextBooks ==
  /\ Init => BooksInv
  /\ IInv /\ SumsInv /\ BooksInv /\ [Next]_vars => BooksInv'
<1>1. ASSUME Init PROVE BooksInv
  <2>1. /\ \A w \in Workers : pc[w] = "idle"
        /\ \A c \in CloseIds : close[c].st = "free" /\ close[c].entries = {}
    BY <1>1 DEF Init, FreeClose
  <2> QED
    BY <2>1 DEF BooksInv, OneRowOK, QuietOK, UndoesOnlyOK
<1>2. ASSUME IInv, SumsInv, BooksInv, [Next]_vars PROVE BooksInv'
  <2>1. ASSUME NEW w \in Workers, Begin(w) \/ Step(w) \/ Abort(w) PROVE BooksInv'
    BY <1>2, <2>1, OneRowStep, QuietStep, UndoesOnlyStep DEF BooksInv, SumsInv
  <2>2. CASE UNCHANGED vars
    BY <1>2, <2>2 DEF vars, BooksInv, OneRowOK, QuietOK, UndoesOnlyOK, Own
  <2> QED
    BY <1>2, <2>1, <2>2 DEF Next
<1> QED
  BY <1>1, <1>2

-----------------------------------------------------------------------------
(***************************************************************************)
(* The refinement: the books' definitions over the rows.                   *)
(***************************************************************************)

\* The sums of the books are sums.
LEMMA BooksTotal == \A xs, S : B!Total(xs, S) = SumOver(xs, S)
BY DEF B!Total, B!MapThenSumSet, B!MapThenFoldSet, SumOver, MapThenSumSet, MapThenFoldSet

\* What is on an account on some dates is the sum of a function.
LEMMA BooksColumn ==
  ASSUME NEW a, NEW R \in SUBSET Dates
  PROVE  B!MapThenSumSet(LAMBDA d : BookOf[d][a], R) = SumOver([d \in Dates |-> BookOf[d][a]], R)
BY DEF B!MapThenSumSet, B!MapThenFoldSet, SumOver, MapThenSumSet, MapThenFoldSet

\* The income of all temporary accounts is the sum of a function.
LEMMA BooksEarned ==
  ASSUME NEW end
  PROVE  B!MapThenSumSet(LAMBDA b : B!Income(b, end), Temporary)
           = SumOver([a \in Temporary |-> B!Income(a, end)], Temporary)
BY DEF B!MapThenSumSet, B!MapThenFoldSet, SumOver, MapThenSumSet, MapThenFoldSet

\* The books are closed through the end of the latest close.
LEMMA BooksThrough ==
  ASSUME IInv
  PROVE  /\ B!ClosedThrough \in Nat
         /\ B!ClosedThrough = 0 \/ \E c \in Active : close[c].end = B!ClosedThrough
         /\ \A c \in Active : close[c].end <= B!ClosedThrough
<1>1. {p.end : p \in PeriodsOf} = {close[c].end : c \in Active}
  <2>1. \A c \in Active : [end |-> close[c].end, effect |-> EffectOf(c)].end = close[c].end
    OBVIOUS
  <2>2. ASSUME NEW p \in PeriodsOf PROVE p.end \in {close[c].end : c \in Active}
    BY <2>1 DEF PeriodsOf
  <2>3. ASSUME NEW c \in Active PROVE close[c].end \in {p.end : p \in PeriodsOf}
    <3>1. [end |-> close[c].end, effect |-> EffectOf(c)] \in PeriodsOf
      BY DEF PeriodsOf
    <3> QED
      BY <2>1, <3>1
  <2> QED
    BY <2>2, <2>3
<1>2. B!ClosedThrough = Max({0} \union {close[c].end : c \in Active})
  BY <1>1 DEF B!ClosedThrough, B!Max, Max
<1> QED
  BY <1>2, LatestClose

\* A balance over a range of dates is what is on the account on each of them,
\* added up.
LEMMA BalanceByDate ==
  ASSUME IInv, AmountsOK, NEW a \in Accounts, NEW from \in Nat, NEW to \in Nat,
         NEW g, \A d \in from .. to : g[d] = CommittedBalance(a, d, d)
  PROVE  CommittedBalance(a, from, to) = SumOver(g, from .. to)
<1> DEFINE f == [t \in TxnIds |-> entry[t][a]]
           date == [t \in TxnIds |-> txn[t].date]
           part == [d \in from .. to |-> LiveIn(d, d)]
<1>1. PICK S \in SUBSET TxnIds : S = LiveIn(from, to)
  BY BalanceIsTotal
<1>2. IsFiniteSet(S) /\ IsFiniteSet(from .. to)
  BY FiniteAssumption, FS_Subset, FS_Interval
<1>3. \A t \in S : f[t] \in Int /\ date[t] \in from .. to
  BY <1>1 DEF AmountsOK, LiveIn
<1>4. \A d \in from .. to : d \in Nat /\ \A x : x \in d .. d <=> x = d
  OBVIOUS
<1>5. \A d \in from .. to : part[d] \in SUBSET S
  BY <1>1, <1>4 DEF LiveIn
<1>6. \A d \in from .. to : \A t \in S : t \in part[d] <=> date[t] = d
  BY <1>1, <1>4 DEF LiveIn
<1>7. \A d \in from .. to : g[d] = SumOver(f, part[d])
  <2>1. ASSUME NEW d \in from .. to PROVE g[d] = SumOver(f, part[d])
    <3>1. g[d] = Total(a, LiveIn(d, d)) /\ LiveIn(d, d) \in SUBSET TxnIds
      BY BalanceIsTotal
    <3>2. PICK P \in SUBSET TxnIds : P = LiveIn(d, d)
      BY <3>1
    <3>3. Total(a, P) = SumOver(f, P)
      BY ColumnSum
    <3> QED
      BY <3>1, <3>2, <3>3
  <2> QED
    BY <2>1
<1>8. CommittedBalance(a, from, to) = SumOver(f, S)
  <2>1. Total(a, S) = SumOver(f, S)
    BY ColumnSum
  <2> QED
    BY <1>1, <2>1, BalanceIsTotal
<1> HIDE DEF f, date, part
<1>9. SumOver(g, from .. to) = SumOver(f, S)
  <2>1. PICK T : T = from .. to
    OBVIOUS
  <2>2. /\ IsFiniteSet(S) /\ IsFiniteSet(T)
        /\ \A t \in S : f[t] \in Int /\ date[t] \in T
        /\ \A d \in T : part[d] \in SUBSET S
        /\ \A d \in T : \A t \in S : t \in part[d] <=> date[t] = d
        /\ \A d \in T : g[d] = SumOver(f, part[d])
    BY <1>2, <1>3, <1>5, <1>6, <1>7, <2>1
  <2>3. SumOver(g, T) = SumOver(f, S)
    BY <2>2, SumClasses
  <2> QED
    BY <2>1, <2>3
<1> QED
  BY <1>8, <1>9

\* The income the books know of is the balance a close reads.
LEMMA IncomeIsBalance ==
  ASSUME IInv, AmountsOK, NEW a \in Accounts, NEW end \in Dates
  PROVE  B!Income(a, end) = CommittedBalance(a, B!ClosedThrough + 1, end)
<1> DEFINE g == [d \in Dates |-> BookOf[d][a]]
<1>1. PICK from \in Nat : from = B!ClosedThrough + 1 /\ from >= 1
  BY BooksThrough
<1>2. end \in Nat /\ from .. end \in SUBSET Dates
  BY <1>1, DatesAssumption DEF Dates
<1>3. PICK R \in SUBSET Dates : R = from .. end
  BY <1>2
<1>4. B!Income(a, end) = SumOver(g, R)
  <2>1. B!Income(a, end) = B!MapThenSumSet(LAMBDA d : BookOf[d][a], R)
    BY <1>1, <1>3 DEF B!Income
  <2> QED
    BY <2>1, BooksColumn
<1>5. \A d \in from .. end : g[d] = CommittedBalance(a, d, d)
  BY <1>2 DEF BookOf
<1> HIDE DEF g
<1>6. CommittedBalance(a, from, end) = SumOver(g, R)
  BY <1>2, <1>3, <1>5, BalanceByDate
<1> QED
  BY <1>1, <1>4, <1>6

\* A close's effect is what its postings add up to.
LEMMA EffectIs ==
  ASSUME NEW c
  PROVE  /\ EffectOf(c) = [a \in Accounts |-> Total(a, close[c].entries)]
         /\ EffectOf(c)' = [a \in Accounts |-> Total(a, close[c].entries)']
<1>1. EffectOf(c) = [a \in Accounts |-> Total(a, close[c].entries)]
  BY DEF EffectOf, Total
<1>2. EffectOf(c)' = [a \in Accounts |-> Total(a, close[c].entries)']
  BY DEF EffectOf, Total
<1> QED
  BY <1>1, <1>2

\* An empty ledger is the empty books.
LEMMA InitBooks == Init => B!Init
<1> SUFFICES ASSUME Init PROVE B!Init
  OBVIOUS
<1>1. Active = {}
  BY DEF Init, FreeClose, Active
<1>2. PeriodsOf = {}
  BY <1>1 DEF PeriodsOf
<1>3. \A a, d : CommittedBalance(a, d, d) = 0
  <2>1. \A d : LiveIn(d, d) = {}
    BY DEF Init, FreeTxn, LiveIn
  <2> QED
    BY <2>1, BalanceIsTotal, TotalNothing
<1>4. BookOf = [d \in Dates |-> [a \in Accounts |-> 0]]
  BY <1>3 DEF BookOf
<1> QED
  BY <1>2, <1>4 DEF B!Init, B!Dates, Dates

-----------------------------------------------------------------------------
(***************************************************************************)
(* The refinement: steps the books do not see.                             *)
(***************************************************************************)

\* The periods are the same when the closes in force and what they list are.
LEMMA PeriodsKept ==
  ASSUME IInv, Active' = Active,
         \A c \in Active : /\ close'[c].end = close[c].end /\ close'[c].entries = close[c].entries
                           /\ \A t \in close[c].entries : entry'[t] = entry[t]
  PROVE  PeriodsOf' = PeriodsOf
<1>1. ASSUME NEW c \in Active PROVE EffectOf(c)' = EffectOf(c)
  <2>1. PICK S \in SUBSET TxnIds : S = close[c].entries /\ S = close'[c].entries
    BY PartsType DEF Active
  <2>2. \A a \in Accounts : Total(a, S)' = Total(a, S)
    BY <2>1, TotalKept
  <2> QED
    BY <2>1, <2>2, EffectIs
<1> QED
  BY <1>1 DEF PeriodsOf

\* What a close in force lists is committed, so no step changes it.
LEMMA PostingsKept ==
  ASSUME IInv, NEW w \in Workers, Begin(w) \/ Step(w) \/ Abort(w), NEW c \in Active
  PROVE  \A t \in close[c].entries : entry'[t] = entry[t]
<1>1. \A t \in close[c].entries : t \in TxnIds /\ txn[t].st = "live"
  BY PartsType DEF IInv, EntriesOK, Active
<1>2. CASE Commit(w)
  BY <1>2 DEF Commit
<1>3. CASE ~Commit(w)
  BY <1>1, <1>3, LiveKept
<1> QED
  BY <1>2, <1>3

\* No step but a commit changes the books.
LEMMA BooksKept ==
  ASSUME Alone, IInv, NEW w \in Workers, Begin(w) \/ Step(w) \/ Abort(w), ~Commit(w)
  PROVE  BookOf' = BookOf /\ PeriodsOf' = PeriodsOf
<1>1. BookOf' = BookOf
  BY BalanceKept DEF BookOf
<1>2. ASSUME NEW c \in CloseIds
      PROVE  /\ c \in Active' <=> c \in Active
             /\ c \in Active => close'[c].end = close[c].end /\ close'[c].entries = close[c].entries
  <2>1. CASE Rollback(w)
    <3>1. close[c].st = "reversing" => close[c].by = w
      BY AloneRows
    <3> QED
      BY <1>2, <2>1, <3>1, RollbackRows, AloneRows DEF IInv, Active
  <2>2. CASE CreatePeriodClose(w) /\ ~Rollback(w)
    BY <2>2, NewClose DEF Active
  <2>3. CASE MarkReversed(w) /\ ~Rollback(w)
    BY <2>3, MarkedClose DEF Active
  <2>4. CASE close' = close
    BY <2>4 DEF Active
  <2> QED
    BY <2>1, <2>2, <2>3, <2>4, CloseSteps
<1>3. Active' = Active
  BY <1>2 DEF Active
<1>4. PeriodsOf' = PeriodsOf
  BY <1>2, <1>3, PostingsKept, PeriodsKept DEF Active
<1> QED
  BY <1>1, <1>4

\* The books are the rows, which nothing changed.
LEMMA BooksStutter ==
  ASSUME IInv, UNCHANGED vars
  PROVE  BookOf' = BookOf /\ PeriodsOf' = PeriodsOf
<1>1. txn' = txn /\ entry' = entry /\ close' = close
  BY DEF vars
<1>2. ASSUME NEW a, NEW d
      PROVE  CommittedBalance(a, d, d)' = CommittedBalance(a, d, d)
  <2>1. PICK S \in SUBSET TxnIds : S = LiveIn(d, d)
    BY BalanceIsTotal
  <2>2. LiveIn(d, d)' = S /\ \A t \in S : entry'[t] = entry[t]
    BY <1>1, <2>1 DEF LiveIn
  <2>3. Total(a, S)' = Total(a, S)
    BY <2>2, TotalKept
  <2> QED
    BY <2>1, <2>2, <2>3, BalanceIsTotal
<1>3. Active' = Active
  BY <1>1 DEF Active
<1> QED
  BY <1>1, <1>2, <1>3, PeriodsKept DEF BookOf

-----------------------------------------------------------------------------
(***************************************************************************)
(* The refinement: what a commit does to the books.                        *)
(***************************************************************************)

\* It adds to one date what the request has written.
LEMMA BookCommitted ==
  ASSUME IInv, AmountsOK, NEW w \in Workers, Commit(w), NEW end \in Dates,
         \A t \in Own(w) : txn[t].date = end
  PROVE  /\ \A a \in Accounts : Total(a, Own(w)) \in Int /\ BookOf[end][a] \in Int
         /\ \A d \in Dates \ {end} : BookOf'[d] = BookOf[d]
         /\ BookOf'[end] = [a \in Accounts |-> BookOf[end][a] + Total(a, Own(w))]
<1>1. PICK S \in SUBSET TxnIds : S = Own(w)
  BY PartsType
<1>2. ASSUME NEW d \in Dates, NEW a \in Accounts
      PROVE  CommittedBalance(a, d, d)'
               = IF d = end THEN CommittedBalance(a, d, d) + Total(a, S) ELSE CommittedBalance(a, d, d)
  <2>1. \A x \in Dates : x \in d .. d <=> x = d
    BY DatesAssumption DEF Dates
  <2>2. PICK R \in SUBSET TxnIds : R = {t \in Own(w) : txn[t].date \in d .. d}
    BY <1>1
  <2>3. CommittedBalance(a, d, d)' = CommittedBalance(a, d, d) + Total(a, R)
    <3>1. PICK from, to : from = d /\ to = d
      OBVIOUS
    <3>2. R = {t \in Own(w) : txn[t].date \in from .. to}
      BY <2>2, <3>1
    <3>3. CommittedBalance(a, from, to)' = CommittedBalance(a, from, to) + Total(a, R)
      BY <3>2, BalanceCommitted
    <3> QED
      BY <3>1, <3>3
  <2>4. CommittedBalance(a, d, d) \in Int
    BY BalanceType
  <2>5. CASE d = end
    <3>1. R = S
      BY <1>1, <2>1, <2>2, <2>5
    <3> QED
      BY <2>3, <2>5, <3>1
  <2>6. CASE d # end
    <3>1. R = {}
      BY <2>1, <2>2, <2>6
    <3> QED
      BY <2>3, <2>4, <2>6, <3>1, TotalNothing
  <2> QED
    BY <2>5, <2>6
<1>3. \A a \in Accounts : Total(a, S) \in Int /\ BookOf[end][a] \in Int
  BY BalanceType, TotalType DEF BookOf
<1>4. \A d \in Dates \ {end} : BookOf'[d] = BookOf[d]
  BY <1>2 DEF BookOf
<1>5. BookOf'[end] = [a \in Accounts |-> BookOf[end][a] + Total(a, S)]
  BY <1>2 DEF BookOf
<1> QED
  BY <1>1, <1>3, <1>4, <1>5

\* A posting, or a reversal by hand, lands on one open date and balances.
LEMMA PostsBooks ==
  ASSUME Alone, IInv, AmountsOK, BalancedOK, LockOK, OneRowOK, NEW w \in Workers, Commit(w),
         \A c \in CloseIds : close[c].by # w
  PROVE  B!Post
<1>1. PICK t \in TxnIds : Own(w) = {t}
  BY DEF OneRowOK, Commit
<1>2. PICK end \in Dates : end = txn[t].date
  BY DEF IInv, RowsOK, TxnRow
<1>3. \A c \in Active : close[c].st = "active"
  BY AloneRows DEF Active
<1>4. end > B!ClosedThrough
  <2>1. \A c \in Active : end > close[c].end
    BY <1>1, <1>2, <1>3 DEF LockOK, Own, Active
  <2> QED
    BY <2>1, BooksThrough, DatesAssumption DEF Dates
<1>5. /\ \A a \in Accounts : Total(a, Own(w)) \in Int /\ BookOf[end][a] \in Int
      /\ \A d \in Dates \ {end} : BookOf'[d] = BookOf[d]
      /\ BookOf'[end] = [a \in Accounts |-> BookOf[end][a] + Total(a, Own(w))]
  BY <1>1, <1>2, BookCommitted
<1>6. PeriodsOf' = PeriodsOf
  <2>1. \A c \in CloseIds : close'[c] = close[c]
    BY CommitRows DEF IInv
  <2>2. Active' = Active /\ entry' = entry
    BY <2>1 DEF Active, Commit
  <2> QED
    BY <2>1, <2>2, PeriodsKept DEF Active
<1>7. SumOver(BookOf'[end], Accounts) = SumOver(BookOf[end], Accounts)
  <2> DEFINE written == [a \in Accounts |-> Total(a, Own(w))]
  <2>1. SumOver(written, Accounts) = 0
    <3>1. Own(w) \in SUBSET TxnIds /\ \A a \in Accounts : written[a] = Total(a, Own(w))
      BY PartsType
    <3> HIDE DEF written
    <3> QED
      BY <3>1, PartsBalance
  <2>2. PICK old, new : old = BookOf[end] /\ new = BookOf'[end]
    OBVIOUS
  <2>3. \A a \in Accounts : /\ old[a] \in Int /\ written[a] \in Int
                            /\ new[a] = old[a] + written[a]
    BY <1>5, <2>2
  <2> HIDE DEF written
  <2>4. SumOver(new, Accounts) = SumOver(old, Accounts) + SumOver(written, Accounts)
    BY <2>3, AccountsFinite, SumPlus
  <2>5. SumOver(old, Accounts) \in Int
    BY <2>3, AccountsFinite, SumType
  <2> QED
    BY <2>1, <2>2, <2>4, <2>5
<1>8. B!Total(BookOf'[end], Accounts) = B!Total(BookOf[end], Accounts)
  BY <1>7, BooksTotal
<1> QED
  BY <1>4, <1>5, <1>6, <1>8 DEF B!Post, B!Dates, Dates

-----------------------------------------------------------------------------
(***************************************************************************)
(* The refinement: committing a close.                                     *)
(***************************************************************************)

\* A close being written begins on the day after the books are closed through.
LEMMA OpenFollows ==
  ASSUME Alone, IInv, TilesOK, NEW c \in CloseIds, close[c].st = "open"
  PROVE  /\ close[c].start = B!ClosedThrough + 1
         /\ close[c].end > B!ClosedThrough
         /\ Active = InForce \ {c} /\ \A d \in Active : close[d].end < close[c].end
<1>1. PICK last \in Nat : last = B!ClosedThrough
  BY BooksThrough
<1>2. /\ last = 0 \/ \E d \in Active : close[d].end = last
      /\ \A d \in Active : close[d].end <= last
  BY <1>1, BooksThrough
<1>3. c \in InForce /\ close[c].start \in Nat /\ close[c].end \in Nat /\ close[c].start <= close[c].end
  BY CloseDates DEF TilesOK, InForce
<1>4. ASSUME NEW d \in InForce \ {c}
      PROVE  /\ close[d].st \in {"active", "reversing"}
             /\ close[d].end < close[c].end /\ close[d].end < close[c].start
             /\ close[d].end \in Nat /\ close[d].end >= 1
  <2>1. d \in CloseIds /\ close[d].end \in Nat /\ close[d].end >= 1
    <3>1. d \in CloseIds
      BY DEF InForce
    <3>2. close[d].end \in Dates
      BY <3>1 DEF IInv, RowsOK, CloseRow
    <3> QED
      BY <3>1, <3>2, DatesAssumption DEF Dates
  <2>2. close[d].end <= close[c].end /\ close[d].end # close[c].end
    BY <1>3, <1>4, <2>1 DEF TilesOK, IInv, KeysUnique, InForce
  <2>3. close[d].end < close[c].end
    BY <1>3, <2>1, <2>2
  <2>4. close[d].st # "open"
    BY <1>3, <2>1, <2>2, <2>3 DEF TilesOK
  <2> QED
    BY <1>3, <2>1, <2>3, <2>4 DEF TilesOK, InForce
<1>5. Active = InForce \ {c}
  BY <1>4 DEF Active, InForce
<1>6. close[c].start = last + 1
  <2>1. CASE close[c].start = 1
    <3>1. Active = {}
      BY <1>4, <1>5, <2>1
    <3> QED
      BY <1>2, <2>1, <3>1
  <2>2. ASSUME NEW d \in InForce \ {c}, close[d].end + 1 = close[c].start
        PROVE  close[c].start = last + 1
    <3>1. close[d].end <= last /\ close[d].end \in Nat /\ last < close[c].start
      BY <1>2, <1>3, <1>4, <1>5, <2>2
    <3> QED
      BY <1>3, <2>2, <3>1
  <2> QED
    BY <1>3, <2>1, <2>2 DEF TilesOK, StartsAfter
<1> QED
  BY <1>1, <1>3, <1>4, <1>5, <1>6

\* Its postings do to the books what closing them through its end does: what
\* they take from the temporary accounts is all in Retained Earnings.
LEMMA CloseEffectIs ==
  ASSUME Alone, IInv, SumsInv, BalancedOK, TilesOK, ClearedOK, QuietOK,
         NEW c \in CloseIds, close[c].st = "open"
  PROVE  EffectOf(c) = B!CloseEffect(close[c].end)
<1>1. PICK E \in SUBSET TxnIds : E = close[c].entries
  BY PartsType
<1>2. PICK end \in Dates : end = close[c].end
  BY DEF IInv, RowsOK, CloseRow
<1>3. AmountsOK
  BY DEF SumsInv
<1>4. \A a \in Accounts : Total(a, E) \in Int
  BY <1>3, TotalType
<1>5. ASSUME NEW a \in Temporary
      PROVE  /\ a \in Accounts /\ B!Income(a, end) \in Int /\ Total(a, E) = -B!Income(a, end)
  <2>1. a \in Accounts
    BY DEF Temporary, Accounts
  <2>2. B!Income(a, end) = CommittedBalance(a, close[c].start, end)
    BY <1>3, <2>1, IncomeIsBalance, OpenFollows
  <2>3. CommittedBalance(a, close[c].start, end) \in Int
    BY <1>3, <2>1, BalanceType
  <2>4. CommittedBalance(a, close[c].start, end) + Total(a, E) = 0
    BY <1>1, <1>2 DEF ClearedOK
  <2> QED
    BY <1>4, <2>1, <2>2, <2>3, <2>4
<1>6. Total(IncomeSummary, E) = 0
  BY <1>1 DEF SumsInv, SummaryOK
<1>7. ASSUME NEW a \in Permanent PROVE Total(a, E) = 0
  <2> DEFINE f == [t \in TxnIds |-> entry[t][a]]
  <2>1. Total(a, E) = SumOver(f, E) /\ IsFiniteSet(E)
    BY ColumnSum, FiniteAssumption, FS_Subset
  <2>2. \A t \in E : f[t] = 0
    BY <1>1 DEF QuietOK
  <2> HIDE DEF f
  <2> QED
    BY <2>1, <2>2, SumZero
<1> DEFINE part == [a \in Accounts |-> Total(a, E)]
           income == [a \in Temporary |-> B!Income(a, end)]
<1>8. \A a \in Accounts : part[a] = Total(a, E) /\ part[a] \in Int
  BY <1>4
<1>9. \A a \in Temporary : income[a] \in Int /\ part[a] = -income[a]
  BY <1>5
<1>10. RetainedEarnings \in Accounts /\ RetainedEarnings \notin Temporary /\ Temporary \subseteq Accounts
  BY AccountAssumption DEF Accounts, Temporary
<1>11. \A a \in Accounts \ (Temporary \union {RetainedEarnings}) : part[a] = 0
  BY <1>6, <1>7 DEF Accounts, Temporary
<1>12. B!CloseEffect(end) =
         [a \in Accounts |-> IF a \in Temporary THEN -B!Income(a, end)
                             ELSE IF a = RetainedEarnings THEN SumOver(income, Temporary)
                             ELSE 0]
  BY BooksEarned DEF B!CloseEffect
<1>13. EffectOf(c) = part
  BY <1>1, EffectIs
<1> HIDE DEF part, income
<1>14. part[RetainedEarnings] = SumOver(income, Temporary)
  <2>1. SumOver(part, Accounts) = 0
    BY <1>3, <1>8, PartsBalance
  <2>2. /\ IsFiniteSet(Temporary \union {RetainedEarnings})
        /\ Temporary \union {RetainedEarnings} \in SUBSET Accounts
    BY <1>10, AccountsFinite, FS_Subset
  <2>3. SumOver(part, Accounts) = SumOver(part, Temporary \union {RetainedEarnings})
    BY <1>8, <1>11, <2>2, AccountsFinite, SumSupport
  <2>4. SumOver(part, Temporary \union {RetainedEarnings})
          = part[RetainedEarnings] + SumOver(part, Temporary)
    <3>1. part[RetainedEarnings] \in Int /\ \A a \in Temporary : part[a] \in Int
      BY <1>8, <1>10
    <3> QED
      BY <1>10, <3>1, AccountsFinite, SumOneMore
  <2>5. PICK s \in Int : s = SumOver(income, Temporary)
    BY <1>9, AccountsFinite, SumType
  <2>6. SumOver(part, Temporary) = -s
    BY <1>9, <2>5, AccountsFinite, SumOpposite
  <2>7. PICK x \in Int : x = part[RetainedEarnings]
    BY <1>8, <1>10
  <2>8. x + -s = 0
    BY <2>1, <2>3, <2>4, <2>6, <2>7
  <2> QED
    BY <2>5, <2>7, <2>8
<1>15. ASSUME NEW a \in Accounts PROVE part[a] = B!CloseEffect(end)[a]
  <2>1. CASE a \in Temporary
    BY <1>5, <1>8, <1>12, <2>1
  <2>2. CASE a = RetainedEarnings
    BY <1>10, <1>12, <1>14, <2>2
  <2>3. CASE a \notin Temporary \union {RetainedEarnings}
    BY <1>11, <1>12, <2>3
  <2> QED
    BY <2>1, <2>2, <2>3
<1>16. part = [a \in Accounts |-> part[a]]
  BY DEF part
<1>17. B!CloseEffect(end) = [a \in Accounts |-> B!CloseEffect(end)[a]]
  BY <1>12
<1> QED
  BY <1>2, <1>13, <1>15, <1>16, <1>17

\* At a commit, what a close lists is what it was, and so is its effect.
LEMMA EffectCommitted ==
  ASSUME IInv, NEW w \in Workers, Commit(w), NEW c \in CloseIds
  PROVE  /\ close'[c].end = close[c].end /\ close'[c].entries = close[c].entries
         /\ EffectOf(c)' = EffectOf(c)
<1>1. /\ close'[c].end = close[c].end /\ close'[c].entries = close[c].entries
      /\ entry' = entry
  BY CommitRows DEF IInv
<1>2. PICK S \in SUBSET TxnIds : S = close[c].entries /\ S = close'[c].entries
  BY <1>1, PartsType
<1>3. \A a \in Accounts : Total(a, S)' = Total(a, S)
  BY <1>1, TotalKept
<1> QED
  BY <1>1, <1>2, <1>3, EffectIs

\* Committing a close closes the books through its end.
LEMMA ClosesBooks ==
  ASSUME Alone, IInv, SumsInv, BalancedOK, AloneInv, QuietOK, NEW w \in Workers, Commit(w),
         NEW c \in CloseIds, close[c].by = w, close[c].st = "open"
  PROVE  \E end \in Dates : B!CloseThrough(end)
<1>1. PICK end \in Dates : end = close[c].end
  BY DEF IInv, RowsOK, CloseRow
<1>2. TilesOK /\ LockOK /\ ClearedOK /\ AmountsOK
  BY DEF AloneInv, SumsInv
<1>3. end > B!ClosedThrough
  BY <1>1, <1>2, OpenFollows
<1>4. close[c].entries = Own(w)
  BY <1>2 DEF LockOK
<1>5. PICK effect : effect = B!CloseEffect(end) /\ effect = EffectOf(c)
  BY <1>1, <1>2, CloseEffectIs
<1>6. effect = [a \in Accounts |-> Total(a, Own(w))]
  BY <1>4, <1>5, EffectIs
<1>7. BookOf' = [BookOf EXCEPT ![end] = B!Added(BookOf[end], effect)]
  <2>1. \A t \in Own(w) : txn[t].date = end
    BY <1>1, <1>4 DEF IInv, EntriesOK
  <2>2. /\ \A d \in Dates \ {end} : BookOf'[d] = BookOf[d]
        /\ BookOf'[end] = [a \in Accounts |-> BookOf[end][a] + Total(a, Own(w))]
    BY <1>2, <2>1, BookCommitted
  <2>3. B!Added(BookOf[end], effect) = [a \in Accounts |-> BookOf[end][a] + Total(a, Own(w))]
    BY <1>6 DEF B!Added
  <2>4. BookOf' = [d \in Dates |-> BookOf'[d]] /\ BookOf = [d \in Dates |-> BookOf[d]]
    BY DEF BookOf
  <2> QED
    BY <2>2, <2>3, <2>4
<1>8. PeriodsOf' = PeriodsOf \union {[end |-> end, effect |-> effect]}
  <2>1. Active' = Active \union {c}
    <3>1. ASSUME NEW d \in CloseIds \ {c} PROVE d \in Active' <=> d \in Active
      <4>1. CASE close[d].by = w
        <5>1. d \in InForce \ {c} /\ close[d].st # "active"
          BY <3>1, <4>1, AloneRows DEF InForce
        <5>2. close[c].end <= close[d].end /\ close[d].end < close[c].end
          BY <1>2, <5>1, OpenFollows DEF TilesOK, InForce
        <5>3. close[c].end \in Nat /\ close[d].end \in Nat
          BY CloseDates
        <5> QED
          BY <5>2, <5>3
      <4>2. CASE close[d].by # w
        BY <4>2, CommitRows DEF IInv, Active
      <4> QED
        BY <4>1, <4>2
    <3>2. c \in Active'
      BY CommitRows DEF IInv, Active
    <3>3. Active \subseteq CloseIds /\ Active' \subseteq CloseIds
      BY DEF Active
    <3> QED
      BY <3>1, <3>2, <3>3
  <2>2. \A d \in CloseIds : close'[d].end = close[d].end /\ EffectOf(d)' = EffectOf(d)
    BY EffectCommitted
  <2>3. Active \subseteq CloseIds
    BY DEF Active
  <2>4. PeriodsOf' = {[end |-> close[d].end, effect |-> EffectOf(d)] : d \in Active \union {c}}
    BY <2>1, <2>2, <2>3 DEF PeriodsOf
  <2> QED
    BY <1>1, <1>5, <2>4 DEF PeriodsOf
<1> QED
  BY <1>3, <1>5, <1>7, <1>8 DEF B!CloseThrough

-----------------------------------------------------------------------------
(***************************************************************************)
(* The refinement: committing the reversal of a close.                     *)
(***************************************************************************)

\* What undoing a close has written is, all together, the opposite of what the
\* close posted: each of its postings has one reversal, and nothing else is
\* written.
LEMMA UndoneTotals ==
  ASSUME IInv, AmountsOK, UndoesOnlyOK, NEW w \in Workers, pc[w] = "commit",
         NEW c \in CloseIds, close[c].by = w, close[c].st = "reversing"
  PROVE  /\ \A t \in Own(w) : txn[t].date = close[c].end
         /\ \A a \in Accounts : Total(a, Own(w)) = -Total(a, close[c].entries)
<1>1. PICK E \in SUBSET TxnIds, R \in SUBSET TxnIds : E = close[c].entries /\ R = Own(w)
  BY PartsType
<1>2. \A t \in E : \E r \in R : Undoes(r, t, c)
  BY <1>1 DEF IInv, UndoOK, Own
<1> DEFINE key == [t \in E |-> CHOOSE r \in R : Undoes(r, t, c)]
           back == [r \in R |-> txn[r].rev]
<1>3. \A t \in E : key[t] \in R /\ Undoes(key[t], t, c)
  BY <1>2
<1>4. \A r \in R : back[r] = txn[r].rev /\ back[r] \in E
  BY <1>1 DEF UndoesOnlyOK
<1> HIDE DEF key, back
<1>5. ASSUME NEW t \in E, NEW r \in R PROVE back[r] = t <=> key[t] = r
  <2>1. t # NoTxn /\ r \in TxnIds /\ key[t] \in TxnIds
    BY <1>3, NullAssumption
  <2>2. txn[key[t]].rev = t
    BY <1>3 DEF Undoes
  <2>3. txn[r].rev = t => key[t] = r
    BY <2>1, <2>2 DEF IInv, KeysUnique
  <2> QED
    BY <1>4, <2>2, <2>3
<1>6. \A r \in R : Undoes(r, back[r], c)
  BY <1>3, <1>4, <1>5
<1>7. ASSUME NEW a \in Accounts PROVE Total(a, R) = -Total(a, E)
  <2> DEFINE f == [t \in TxnIds |-> entry[t][a]]
             g == [t \in E |-> -entry[t][a]]
  <2>1. Total(a, R) = SumOver(f, R) /\ Total(a, E) = SumOver(f, E)
    BY ColumnSum
  <2>2. IsFiniteSet(R) /\ IsFiniteSet(E)
    BY FiniteAssumption, FS_Subset
  <2>3. \A t \in TxnIds : f[t] \in Int
    BY DEF AmountsOK
  <2>4. ASSUME NEW t \in E PROVE g[t] = f[key[t]] /\ g[t] = -f[t]
    <3>1. PICK r \in R : r = key[t] /\ entry[r] = Negated(entry[t])
      BY <1>3 DEF Undoes
    <3>2. entry[r][a] = -entry[t][a]
      BY <3>1 DEF Negated
    <3>3. f[r] = entry[r][a] /\ f[t] = entry[t][a] /\ g[t] = -entry[t][a]
      OBVIOUS
    <3> HIDE DEF f, g
    <3> QED
      BY <3>1, <3>2, <3>3
  <2> HIDE DEF f, g
  <2>5. SumOver(f, R) = SumOver(g, E)
    <3>1. \A r \in R : f[r] \in Int
      BY <2>3
    <3> QED
      BY <1>3, <1>4, <1>5, <2>2, <2>4, <3>1, SumRenamed
  <2>6. SumOver(g, E) = -SumOver(f, E)
    BY <2>2, <2>3, <2>4, SumOpposite
  <2> QED
    BY <2>1, <2>5, <2>6
<1> QED
  BY <1>1, <1>6, <1>7 DEF Undoes

\* Committing the reversal of a close reopens the books.
LEMMA ReopensBooks ==
  ASSUME Alone, IInv, AmountsOK, TilesOK, UndoesOnlyOK, NEW w \in Workers, Commit(w),
         NEW c \in CloseIds, close[c].by = w, close[c].st = "reversing"
  PROVE  B!Reopen
<1>1. PICK end \in Dates : end = close[c].end
  BY DEF IInv, RowsOK, CloseRow
<1>2. PICK p : p = [end |-> end, effect |-> EffectOf(c)]
  OBVIOUS
<1>3. p.end = end /\ p.effect = EffectOf(c)
  BY <1>2
<1>4. c \in Active /\ p \in PeriodsOf
  BY <1>1, <1>2 DEF Active, PeriodsOf
<1>5. \A d \in Active : close[d].end \in Nat /\ close[d].end <= end
  BY <1>1, CloseDates DEF TilesOK, InForce, Active
<1>6. \A d \in Active \ {c} : close[d].end # end
  BY <1>1, <1>4 DEF IInv, KeysUnique, Active
<1>7. p.end = B!ClosedThrough
  <2>1. end \in Nat /\ end >= 1
    BY DatesAssumption DEF Dates
  <2> QED
    BY <1>1, <1>3, <1>4, <1>5, <2>1, BooksThrough
<1>8. /\ \A t \in Own(w) : txn[t].date = end
      /\ \A a \in Accounts : Total(a, Own(w)) = -Total(a, close[c].entries)
  BY <1>1, UndoneTotals DEF Commit
<1>9. BookOf' = [BookOf EXCEPT ![p.end] = B!Less(BookOf[p.end], p.effect)]
  <2>1. /\ \A a \in Accounts : Total(a, Own(w)) \in Int /\ BookOf[end][a] \in Int
        /\ \A d \in Dates \ {end} : BookOf'[d] = BookOf[d]
        /\ BookOf'[end] = [a \in Accounts |-> BookOf[end][a] + Total(a, Own(w))]
    BY <1>8, BookCommitted
  <2>2. ASSUME NEW a \in Accounts
        PROVE  BookOf[end][a] + Total(a, Own(w)) = BookOf[end][a] - p.effect[a]
    <3>1. p.effect[a] = Total(a, close[c].entries)
      BY <1>3, EffectIs
    <3>2. Total(a, close[c].entries) \in Int
      BY PartsType, TotalType
    <3> QED
      BY <1>8, <2>1, <3>1, <3>2
  <2>3. BookOf'[end] = B!Less(BookOf[end], p.effect)
    BY <2>1, <2>2 DEF B!Less
  <2>4. BookOf' = [d \in Dates |-> BookOf'[d]] /\ BookOf = [d \in Dates |-> BookOf[d]]
    BY DEF BookOf
  <2> QED
    BY <1>3, <2>1, <2>3, <2>4
<1>10. PeriodsOf' = PeriodsOf \ {p}
  <2>1. Active' = Active \ {c}
    <3>1. ASSUME NEW d \in CloseIds \ {c} PROVE d \in Active' <=> d \in Active
      <4>1. CASE close[d].by = w
        <5>1. c \in InForce /\ d \in InForce /\ close[d].st # "active" /\ close[c].st # "active"
          BY <3>1, <4>1, AloneRows DEF InForce
        <5>2. close[c].end <= close[d].end /\ close[d].end <= close[c].end
          BY <5>1 DEF TilesOK
        <5>3. close[c].end = close[d].end
          BY <5>2, CloseDates
        <5> QED
          BY <3>1, <5>1, <5>3 DEF IInv, KeysUnique, InForce
      <4>2. CASE close[d].by # w
        BY <4>2, CommitRows DEF IInv, Active
      <4> QED
        BY <4>1, <4>2
    <3>2. c \notin Active'
      BY CommitRows DEF IInv, Active
    <3>3. Active \subseteq CloseIds /\ Active' \subseteq CloseIds
      BY DEF Active
    <3> QED
      BY <3>1, <3>2, <3>3
  <2>2. \A d \in CloseIds : close'[d].end = close[d].end /\ EffectOf(d)' = EffectOf(d)
    BY EffectCommitted
  <2>3. Active \subseteq CloseIds
    BY DEF Active
  <2>4. PeriodsOf' = {[end |-> close[d].end, effect |-> EffectOf(d)] : d \in Active \ {c}}
    BY <2>1, <2>2, <2>3 DEF PeriodsOf
  <2>5. \A d \in Active \ {c} : [end |-> close[d].end, effect |-> EffectOf(d)] # p
    BY <1>2, <1>6
  <2>6. [end |-> close[c].end, effect |-> EffectOf(c)] = p
    BY <1>1, <1>2
  <2> QED
    BY <2>4, <2>5, <2>6 DEF PeriodsOf
<1> QED
  BY <1>4, <1>7, <1>9, <1>10 DEF B!Reopen

-----------------------------------------------------------------------------
(***************************************************************************)
(* The refinement.                                                         *)
(***************************************************************************)

\* Every step is a step of the books or leaves them alone.
LEMMA NextRefines ==
  ASSUME Alone, IInv, SumsInv, AloneInv, BalancedOK, BooksInv, [Next]_vars
  PROVE  [B!Next]_<<BookOf, PeriodsOf>>
<1>1. AmountsOK /\ TilesOK /\ LockOK /\ OneRowOK /\ QuietOK /\ UndoesOnlyOK
  BY DEF SumsInv, AloneInv, BooksInv
<1>2. ASSUME NEW w \in Workers, Commit(w) PROVE B!Next
  <2>1. CASE \A c \in CloseIds : close[c].by # w
    BY <1>1, <1>2, <2>1, PostsBooks DEF B!Next
  <2>2. ASSUME NEW c \in CloseIds, close[c].by = w PROVE B!Next
    <3>1. close[c].st \in {"open", "reversing"}
      BY <2>2, AloneRows
    <3>2. CASE close[c].st = "open"
      BY <1>1, <1>2, <2>2, <3>2, ClosesBooks DEF B!Next, B!Dates, Dates
    <3>3. CASE close[c].st = "reversing"
      BY <1>1, <1>2, <2>2, <3>3, ReopensBooks DEF B!Next
    <3> QED
      BY <3>1, <3>2, <3>3
  <2> QED
    BY <2>1, <2>2
<1>3. ASSUME NEW w \in Workers, Begin(w) \/ Step(w) \/ Abort(w), ~Commit(w)
      PROVE  UNCHANGED <<BookOf, PeriodsOf>>
  BY <1>3, BooksKept
<1>4. CASE UNCHANGED vars
  BY <1>4, BooksStutter
<1> QED
  BY <1>2, <1>3, <1>4 DEF Next

\* One request at a time, and of clients that send whole cents: the tables
\* implement the books.  A commit is a posting to an open date, the closing of
\* the books through a date, or the reopening of the latest close, whole, and
\* nothing else that a request does is seen (periodclose.Close and Reverse,
\* ledgerpost.ReverseTransaction, CreateLedgerTransaction).
THEOREM KeepsBooks ==
  ASSUME Alone, CentParts = 1
  PROVE  Spec => ImplementsBooks
<1>1. Init => BalancedOK /\ BooksInv
  BY InitSums, NextBooks
<1>2. (IInv /\ SumsInv /\ AloneInv) /\ BalancedOK /\ [Next]_vars => BalancedOK'
  BY NextBalanced DEF SumsInv
<1>3. (IInv /\ SumsInv /\ AloneInv) /\ BooksInv /\ [Next]_vars => BooksInv'
  BY NextBooks
<1>4. (IInv /\ SumsInv /\ AloneInv) /\ BalancedOK /\ BooksInv /\ [Next]_vars
        => [B!Next]_<<BookOf, PeriodsOf>>
  BY NextRefines
<1>5. Init => B!Init
  BY InitBooks
<1> QED
  BY <1>1, <1>2, <1>3, <1>4, <1>5, AloneInvariance, PTL DEF Spec, ImplementsBooks, B!Spec
=============================================================================
