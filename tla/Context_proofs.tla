---------------------------- MODULE Context_proofs ----------------------------
(***************************************************************************)
(* Theorems about Context, for any number of requests, notes and           *)
(* attachments.                                                            *)
(*                                                                         *)
(* Notes change at a COMMIT only.  The invariant says what each open       *)
(* transaction has written and how it relates to what is committed, and    *)
(* that no two have written the same row: a COMMIT then changes nothing    *)
(* another transaction has built on.                                       *)
(***************************************************************************)
EXTENDS Context, FiniteSetTheorems, SequenceTheorems, TLAPS

Steps == {"idle", "check", "supersede", "delete", "see", "clear", "put", "insert", "get", "remove"}

NoteRow == [st : {"none", "live", "deleted"}, sup : Notes \union {NoNote}]
Writes == UNION {[D -> NoteRow] : D \in SUBSET Notes}
Request == [note : Notes \union {NoNote}, todo : Seq(Notes), rows : SUBSET Notes,
            write : Writes, att : Attachments \union {NoAttachment}]

TypeOK ==
  /\ note \in [Notes -> NoteRow]
  /\ attachment \in [Attachments -> {"none", "live", "deleted"}]
  /\ object \in [Attachments -> BOOLEAN]
  /\ pc \in [Workers -> Steps]
  /\ req \in [Workers -> Request]

\* A note that is being created and the ones it supersedes: their rows are
\* written with the committed status and the new note as superseded_by_id.
Creating(r) ==
  /\ r.note \in DOMAIN r.write /\ note[r.note].st = "none"
  /\ r.write[r.note] = [st |-> "live", sup |-> NoNote]
  /\ \A m \in DOMAIN r.write \ {r.note} :
       note[m].st # "none" /\ r.write[m] = [st |-> note[m].st, sup |-> r.note]
  /\ \A i \in 1..Len(r.todo) : note[r.todo[i]].st # "none"

\* A note that is being deleted and nothing else.
Deleting(r) ==
  /\ r.note \in Notes /\ note[r.note].st = "live"
  /\ DOMAIN r.write = {r.note}
  /\ r.write[r.note] = [st |-> "deleted", sup |-> note[r.note].sup]

\* What a request at step s with what it has read and written, r, relies on.
RequestOK(s, r) ==
  /\ s \notin {"check", "supersede", "see", "clear"} => DOMAIN r.write = {}
  /\ s \in {"check", "supersede"} => Creating(r)
  /\ s = "supersede" => r.todo # <<>>
  /\ s = "delete" => r.note \in Notes /\ note[r.note].st # "none"
  /\ s \in {"see", "clear"} => Deleting(r)
  /\ s = "clear" => HiddenBehind(r.note) \subseteq r.rows

AttachmentOK(s, r) ==
  /\ s \in {"put", "insert", "get", "remove"} => r.att \in Attachments
  /\ s \in {"insert", "get"} => object[r.att]

RequestsOK == \A w \in Workers : RequestOK(pc[w], req[w])
AttachmentsOK ==
  /\ \A w \in Workers : AttachmentOK(pc[w], req[w])
  /\ \A a \in Attachments : attachment[a] = "live" => object[a]

\* A row is locked by one transaction at most.
Disjoint == \A v, w \in Workers : v # w => Written(v) \intersect Written(w) = {}

NotesOK ==
  /\ \A n \in Notes : note[n].sup # n /\ (note[n].st = "none" => note[n].sup = NoNote)
  /\ HiddenByLive

IInv == TypeOK /\ RequestsOK /\ AttachmentsOK /\ Disjoint /\ NotesOK

-----------------------------------------------------------------------------
(* Rows written in a transaction.                                          *)

LEMMA WritesDef ==
  ASSUME NEW f
  PROVE  /\ f \in Writes => DOMAIN f \subseteq Notes /\ \A n \in DOMAIN f : f[n] \in NoteRow
         /\ DOMAIN f \subseteq Notes /\ f \in [DOMAIN f -> NoteRow] => f \in Writes
BY DEF Writes

LEMMA WithRows ==
  ASSUME NEW f \in Writes, NEW g \in Writes
  PROVE  /\ With(f, g) \in Writes
         /\ DOMAIN With(f, g) = DOMAIN f \union DOMAIN g
         /\ \A n \in DOMAIN g : With(f, g)[n] = g[n]
         /\ \A n \in DOMAIN f \ DOMAIN g : With(f, g)[n] = f[n]
<1>1. /\ DOMAIN With(f, g) = DOMAIN f \union DOMAIN g
      /\ \A n \in DOMAIN g : With(f, g)[n] = g[n]
      /\ \A n \in DOMAIN f \ DOMAIN g : With(f, g)[n] = f[n]
      /\ With(f, g) = [n \in DOMAIN With(f, g) |-> With(f, g)[n]]
  BY DEF With
<1>2. /\ DOMAIN f \subseteq Notes /\ DOMAIN g \subseteq Notes
      /\ \A n \in DOMAIN f : f[n] \in NoteRow
      /\ \A n \in DOMAIN g : g[n] \in NoteRow
  BY WritesDef
<1>3. With(f, g) \in [DOMAIN With(f, g) -> NoteRow]
  BY <1>1, <1>2
<1> QED
  BY <1>1, <1>2, <1>3, WritesDef

LEMMA NothingWritten == NoRequest \in Request /\ DOMAIN NoRequest.write = {}
<1>1. <<>> \in Writes /\ DOMAIN <<>> = {}
  <2>1. <<>> \in [1..0 -> NoteRow] /\ DOMAIN <<>> = 1..0
    BY EmptySeq, LenProperties
  <2>2. 1..0 = {}
    OBVIOUS
  <2> QED
    BY <2>1, <2>2, WritesDef
<1>2. <<>> \in Seq(Notes)
  BY EmptySeq
<1> QED
  BY <1>1, <1>2 DEF NoRequest, Request

\* Nothing has happened yet.
LEMMA InitInv == Init => IInv
<1> SUFFICES ASSUME Init PROVE IInv
  OBVIOUS
<1> USE NullAssumption DEF Init, NoRow
<1>1. TypeOK
  BY NothingWritten DEF TypeOK, Steps, NoteRow
<1>2. RequestsOK
  BY NothingWritten DEF RequestsOK, RequestOK
<1>3. AttachmentsOK
  BY DEF AttachmentsOK, AttachmentOK
<1>4. Disjoint
  BY NothingWritten DEF Disjoint, Written
<1>5. NotesOK
  BY DEF NotesOK, HiddenByLive
<1> QED
  BY <1>1, <1>2, <1>3, <1>4, <1>5 DEF IInv

-----------------------------------------------------------------------------
\* A request that goes on to step s with the record r, commits no note, and
\* has written no row that another one has.
LEMMA GoOn ==
  ASSUME IInv, NEW w \in Workers, NEW s \in Steps, NEW r \in Request,
         pc' = [pc EXCEPT ![w] = s], req' = [req EXCEPT ![w] = r],
         UNCHANGED note,
         attachment' \in [Attachments -> {"none", "live", "deleted"}],
         object' \in [Attachments -> BOOLEAN],
         \A a \in Attachments :
           (object[a] => object'[a]) /\ (attachment'[a] = "live" => object'[a]),
         RequestOK(s, r), AttachmentOK(s, r)',
         \A v \in Workers \ {w} : Written(v) \intersect DOMAIN r.write = {}
  PROVE  IInv'
<1> USE DEF IInv
<1>1. pc'[w] = s /\ req'[w] = r /\ \A v \in Workers \ {w} : pc'[v] = pc[v] /\ req'[v] = req[v]
  BY DEF TypeOK
<1>2. TypeOK'
  BY DEF TypeOK
<1>3. RequestsOK'
  <2> SUFFICES ASSUME NEW v \in Workers PROVE RequestOK(pc[v], req[v])'
    BY DEF RequestsOK
  <2>0. \A n : HiddenBehind(n)' = HiddenBehind(n)
    BY DEF HiddenBehind
  <2>1. CASE v = w
    BY <2>0, <2>1, <1>1 DEF RequestOK, Creating, Deleting
  <2>2. CASE v # w
    <3>1. RequestOK(pc[v], req[v]) /\ pc'[v] = pc[v] /\ req'[v] = req[v]
      BY <2>2, <1>1 DEF RequestsOK
    <3> QED
      BY <2>0, <3>1 DEF RequestOK, Creating, Deleting
  <2> QED
    BY <2>1, <2>2
<1>4. AttachmentsOK'
  <2>1. ASSUME NEW v \in Workers PROVE AttachmentOK(pc[v], req[v])'
    <3>1. CASE v = w
      BY <3>1, <1>1 DEF AttachmentOK
    <3>2. CASE v # w
      BY <3>2, <1>1 DEF AttachmentsOK, AttachmentOK
    <3> QED
      BY <3>1, <3>2
  <2> QED
    BY <2>1 DEF AttachmentsOK
<1>5. Disjoint'
  BY <1>1 DEF Disjoint, Written
<1>6. NotesOK'
  BY DEF NotesOK, HiddenByLive
<1> QED
  BY <1>2, <1>3, <1>4, <1>5, <1>6
\* A request that ends without a COMMIT.
LEMMA EndInv ==
  ASSUME IInv, NEW w \in Workers, End(w), UNCHANGED note,
         attachment' \in [Attachments -> {"none", "live", "deleted"}],
         object' \in [Attachments -> BOOLEAN],
         \A a \in Attachments :
           (object[a] => object'[a]) /\ (attachment'[a] = "live" => object'[a])
  PROVE  IInv'
<1>1. pc' = [pc EXCEPT ![w] = "idle"] /\ req' = [req EXCEPT ![w] = NoRequest]
  BY DEF End, Goto
<1>2. RequestOK("idle", NoRequest) /\ AttachmentOK("idle", NoRequest)'
  BY NothingWritten DEF RequestOK, AttachmentOK
<1>3. \A v \in Workers \ {w} : Written(v) \intersect DOMAIN NoRequest.write = {}
  BY NothingWritten
<1> QED
  BY <1>1, <1>2, <1>3, NothingWritten, GoOn DEF Steps

\* Nothing about the attachments changes.
LEMMA AttachmentsKept ==
  ASSUME IInv, UNCHANGED <<attachment, object>>
  PROVE  /\ attachment' \in [Attachments -> {"none", "live", "deleted"}]
         /\ object' \in [Attachments -> BOOLEAN]
         /\ \A a \in Attachments :
              (object[a] => object'[a]) /\ (attachment'[a] = "live" => object'[a])
BY DEF IInv, TypeOK, AttachmentsOK

LEMMA CreateInv == ASSUME IInv, NEW w \in Workers, CreateEntityContext(w) PROVE IInv'
<1> USE NullAssumption DEF IInv
<1>1. PICK n \in Notes, olds \in SUBSET Notes : \E ids \in SetToSeqs(olds) :
        /\ pc[w] = "idle" /\ note[n].st = "none" /\ ~Locked(w, n)
        /\ n \notin olds /\ \A o \in olds : note[o].st # "none"
        /\ req' = [req EXCEPT ![w] = [NoRequest EXCEPT !.note = n, !.todo = ids,
                    !.write = [m \in {n} |-> [st |-> "live", sup |-> NoNote]]]]
        /\ pc' = [pc EXCEPT ![w] = "check"] /\ UNCHANGED <<note, attachment, object>>
  BY DEF CreateEntityContext, Goto
<1>2. PICK ids \in SetToSeqs(olds) :
        /\ pc[w] = "idle" /\ note[n].st = "none" /\ ~Locked(w, n)
        /\ n \notin olds /\ \A o \in olds : note[o].st # "none"
        /\ req' = [req EXCEPT ![w] = [NoRequest EXCEPT !.note = n, !.todo = ids,
                    !.write = [m \in {n} |-> [st |-> "live", sup |-> NoNote]]]]
        /\ pc' = [pc EXCEPT ![w] = "check"] /\ UNCHANGED <<note, attachment, object>>
  BY <1>1
<1>3. ids \in Seq(Notes) /\ \A i \in 1..Len(ids) : ids[i] \in olds
  <2>1. Cardinality(olds) \in Nat
    BY RolledUpAssumption, FS_Subset, FS_CardinalityType
  <2>2. ids \in [1..Cardinality(olds) -> olds]
    BY DEF SetToSeqs
  <2>3. ids \in Seq(olds) /\ Len(ids) = Cardinality(olds)
    BY <2>1, <2>2
  <2> QED
    BY <2>3, SeqMonotonic, ElementOfSeq
<1>4. PICK f : f = [m \in {n} |-> [st |-> "live", sup |-> NoNote]]
  OBVIOUS
<1>5. f \in Writes /\ DOMAIN f = {n} /\ f[n] = [st |-> "live", sup |-> NoNote]
  BY <1>4, WritesDef DEF NoteRow
<1>6. PICK r : r = [NoRequest EXCEPT !.note = n, !.todo = ids, !.write = f]
  OBVIOUS
<1>7. r \in Request /\ r.note = n /\ r.todo = ids /\ r.write = f
  BY <1>3, <1>5, <1>6, NothingWritten DEF Request
<1>8. RequestOK("check", r) /\ AttachmentOK("check", r)'
  BY <1>2, <1>3, <1>5, <1>7 DEF RequestOK, AttachmentOK, Creating
<1>9. \A v \in Workers \ {w} : Written(v) \intersect DOMAIN r.write = {}
  BY <1>2, <1>5, <1>7 DEF Locked
<1>10. req' = [req EXCEPT ![w] = r]
  BY <1>2, <1>4, <1>6
<1> QED
  BY <1>2, <1>7, <1>8, <1>9, <1>10, AttachmentsKept, GoOn DEF Steps

\* What the request w relies on, at its step and with its record.
LEMMA OwnFacts ==
  ASSUME IInv, NEW w \in Workers
  PROVE  /\ pc[w] \in Steps /\ req[w] \in Request
         /\ RequestOK(pc[w], req[w]) /\ AttachmentOK(pc[w], req[w])
         /\ Written(w) = DOMAIN req[w].write /\ Written(w) \subseteq Notes
         /\ \A v \in Workers \ {w} : Written(v) \intersect DOMAIN req[w].write = {}
<1> USE DEF IInv
<1>1. pc[w] \in Steps /\ req[w] \in Request /\ RequestOK(pc[w], req[w]) /\ AttachmentOK(pc[w], req[w])
  BY DEF TypeOK, RequestsOK, AttachmentsOK
<1>2. Written(w) = DOMAIN req[w].write /\ Written(w) \subseteq Notes
  BY <1>1, WritesDef DEF Written, Request
<1>3. \A v \in Workers \ {w} : Written(v) \intersect DOMAIN req[w].write = {}
  BY DEF Disjoint, Written
<1> QED
  BY <1>1, <1>2, <1>3

LEMMA CheckInv == ASSUME IInv, NEW w \in Workers, CheckSuperseded(w) PROVE IInv'
<1>1. PICK r : r = req[w]
  OBVIOUS
<1>2. /\ pc[w] = "check" /\ pc' = [pc EXCEPT ![w] = "supersede"] /\ r.todo # <<>>
      /\ req' = [req EXCEPT ![w] = r] /\ UNCHANGED <<note, attachment, object>>
  BY <1>1 DEF CheckSuperseded, Goto, IInv, TypeOK
<1>3. /\ r \in Request /\ RequestOK("supersede", r) /\ AttachmentOK("supersede", r)'
      /\ \A v \in Workers \ {w} : Written(v) \intersect DOMAIN r.write = {}
  BY <1>1, <1>2, OwnFacts DEF RequestOK, AttachmentOK
<1> QED
  BY <1>2, <1>3, AttachmentsKept, GoOn DEF Steps

\* A row is superseded once no other transaction holds it, so what is written
\* is built on what is committed.
LEMMA SupersedeInv ==
  ASSUME IInv, NEW w \in Workers, SupersedeEntityContext(w) PROVE IInv'
<1>1. PICK old : old = Head(req[w].todo)
  OBVIOUS
<1>2. /\ pc[w] = "supersede" /\ ~Locked(w, old)
      /\ req' = [req EXCEPT ![w].todo = Tail(@), ![w].write = With(@, Superseded(w, old))]
      /\ pc' = [pc EXCEPT ![w] = "check"] /\ UNCHANGED <<note, attachment, object>>
  BY <1>1 DEF SupersedeEntityContext, Goto
<1>3. /\ req[w] \in Request /\ Creating(req[w]) /\ req[w].note \in Notes
      /\ req[w].write \in Writes /\ req[w].todo \in Seq(Notes) /\ req[w].todo # <<>>
  BY <1>2, OwnFacts DEF RequestOK, Creating, Request
<1>4. old \in Notes /\ note[old].st # "none" /\ old # req[w].note
  BY <1>1, <1>3, HeadTailProperties DEF Creating
<1>5. /\ Tail(req[w].todo) \in Seq(Notes)
      /\ \A i \in 1..Len(Tail(req[w].todo)) : note[Tail(req[w].todo)[i]].st # "none"
  BY <1>3, HeadTailProperties DEF Creating
<1>6. PICK g : g = Superseded(w, old)
  OBVIOUS
<1>7. DOMAIN g = {old} /\ g[old] = [st |-> note[old].st, sup |-> req[w].note] /\ g \in Writes
  <2>1. Row(w, old) \in NoteRow /\ Row(w, old).st = note[old].st
    <3>1. CASE old \in Written(w)
      <4>1. Row(w, old) = req[w].write[old] /\ old \in DOMAIN req[w].write
        BY <3>1 DEF Row, Written
      <4>2. req[w].write[old] \in NoteRow
        BY <1>3, <4>1, WritesDef
      <4>3. req[w].write[old] = [st |-> note[old].st, sup |-> req[w].note]
        BY <1>3, <1>4, <4>1 DEF Creating
      <4> QED
        BY <4>1, <4>2, <4>3
    <3>2. CASE old \notin Written(w)
      BY <1>4, <3>2 DEF Row, IInv, TypeOK
    <3> QED
      BY <3>1, <3>2
  <2>2. DOMAIN g = {old} /\ g[old] = [Row(w, old) EXCEPT !.sup = req[w].note]
    BY <1>6 DEF Superseded
  <2>3. g[old] = [st |-> note[old].st, sup |-> req[w].note] /\ g[old] \in NoteRow
    BY <1>3, <2>1, <2>2 DEF NoteRow
  <2>4. g = [m \in {old} |-> g[m]]
    BY <1>6 DEF Superseded
  <2>5. g \in [DOMAIN g -> NoteRow]
    BY <2>2, <2>3, <2>4
  <2> QED
    BY <1>4, <2>2, <2>3, <2>5, WritesDef
<1>8. PICK f, h : h = req[w].write /\ f = With(h, g)
  OBVIOUS
<1>9. /\ f \in Writes /\ DOMAIN f = DOMAIN req[w].write \union {old}
      /\ f[old] = [st |-> note[old].st, sup |-> req[w].note]
      /\ \A m \in DOMAIN req[w].write \ {old} : f[m] = req[w].write[m]
  <2>1. h \in Writes /\ g \in Writes
    BY <1>3, <1>7, <1>8
  <2>2. /\ With(h, g) \in Writes /\ DOMAIN With(h, g) = DOMAIN h \union DOMAIN g
        /\ \A n \in DOMAIN g : With(h, g)[n] = g[n]
        /\ \A n \in DOMAIN h \ DOMAIN g : With(h, g)[n] = h[n]
    BY <2>1, WithRows
  <2>3. f = With(h, g)
    BY <1>8
  <2> QED
    BY <1>7, <1>8, <2>2, <2>3
<1>10. PICK r : r = [req[w] EXCEPT !.todo = Tail(req[w].todo), !.write = f]
  OBVIOUS
<1>11. r \in Request /\ r.note = req[w].note /\ r.todo = Tail(req[w].todo) /\ r.write = f
  BY <1>3, <1>5, <1>9, <1>10 DEF Request
<1>12. req' = [req EXCEPT ![w] = r]
  BY <1>2, <1>6, <1>8, <1>10
<1>13. Creating(r)
  BY <1>3, <1>4, <1>5, <1>9, <1>11 DEF Creating
<1>14. RequestOK("check", r) /\ AttachmentOK("check", r)'
  BY <1>13 DEF RequestOK, AttachmentOK
<1>15. \A v \in Workers \ {w} : Written(v) \intersect DOMAIN r.write = {}
  BY <1>2, <1>9, <1>11, OwnFacts DEF Locked
<1> QED
  BY <1>2, <1>11, <1>12, <1>14, <1>15, AttachmentsKept, GoOn DEF Steps
LEMMA AskDeleteInv == ASSUME IInv, NEW w \in Workers, AskDelete(w) PROVE IInv'
<1>1. PICK n \in Notes :
        /\ pc[w] = "idle" /\ note[n].st = "live" /\ req' = [req EXCEPT ![w].note = n]
        /\ pc' = [pc EXCEPT ![w] = "delete"] /\ UNCHANGED <<note, attachment, object>>
  BY DEF AskDelete, Goto
<1>2. req[w] \in Request /\ DOMAIN req[w].write = {}
  BY <1>1, OwnFacts DEF RequestOK
<1>3. PICK r : r = [req[w] EXCEPT !.note = n]
  OBVIOUS
<1>4. r \in Request /\ r.note = n /\ r.write = req[w].write
  BY <1>2, <1>3 DEF Request
<1>5. req' = [req EXCEPT ![w] = r]
  BY <1>1, <1>3
<1>6. RequestOK("delete", r) /\ AttachmentOK("delete", r)'
  BY <1>1, <1>2, <1>4 DEF RequestOK, AttachmentOK
<1>7. \A v \in Workers \ {w} : Written(v) \intersect DOMAIN r.write = {}
  BY <1>2, <1>4
<1> QED
  BY <1>1, <1>4, <1>5, <1>6, <1>7, AttachmentsKept, GoOn DEF Steps

LEMMA DeleteInv == ASSUME IInv, NEW w \in Workers, DeleteEntityContext(w) PROVE IInv'
<1>1. PICK n : n = req[w].note
  OBVIOUS
<1>2. UNCHANGED <<note, attachment, object>>
  BY DEF DeleteEntityContext
<1>3. CASE End(w)
  BY <1>2, <1>3, AttachmentsKept, EndInv
<1>4. CASE ~End(w)
  <2>1. PICK g : g = [m \in {n} |-> [note[n] EXCEPT !.st = "deleted"]]
    OBVIOUS
  <2>2. /\ pc[w] = "delete" /\ ~Locked(w, n) /\ note[n].st # "deleted"
        /\ req' = [req EXCEPT ![w].write = g] /\ pc' = [pc EXCEPT ![w] = "see"]
    BY <1>1, <1>4, <2>1 DEF DeleteEntityContext, Goto
  <2>3. req[w] \in Request /\ n \in Notes /\ note[n].st # "none" /\ note[n] \in NoteRow
    BY <1>1, <2>2, OwnFacts DEF RequestOK, IInv, TypeOK
  <2>4. note[n].st = "live"
    BY <2>2, <2>3 DEF NoteRow
  <2>5. /\ g \in [{n} -> NoteRow] /\ DOMAIN g = {n}
        /\ g[n] = [st |-> "deleted", sup |-> note[n].sup]
    BY <2>1, <2>3 DEF NoteRow
  <2>6. g \in Writes
    BY <2>3, <2>5, WritesDef
  <2>7. PICK r : r = [req[w] EXCEPT !.write = g]
    OBVIOUS
  <2>8. r \in Request /\ r.note = n /\ r.write = g
    BY <1>1, <2>3, <2>6, <2>7 DEF Request
  <2>9. req' = [req EXCEPT ![w] = r]
    BY <2>2, <2>7
  <2>10. RequestOK("see", r) /\ AttachmentOK("see", r)'
    BY <2>3, <2>4, <2>5, <2>8 DEF RequestOK, Deleting, AttachmentOK
  <2>11. \A v \in Workers \ {w} : Written(v) \intersect DOMAIN r.write = {}
    BY <2>2, <2>5, <2>8 DEF Locked
  <2> QED
    BY <1>2, <2>2, <2>8, <2>9, <2>10, <2>11, AttachmentsKept, GoOn DEF Steps
<1> QED
  BY <1>3, <1>4

LEMMA SeeInv == ASSUME IInv, NEW w \in Workers, SeeHidden(w) PROVE IInv'
<1>1. PICK hidden : hidden = HiddenBehind(req[w].note)
  OBVIOUS
<1>2. /\ pc[w] = "see" /\ req' = [req EXCEPT ![w].rows = hidden]
      /\ pc' = [pc EXCEPT ![w] = "clear"] /\ UNCHANGED <<note, attachment, object>>
  BY <1>1 DEF SeeHidden, Goto
<1>3. req[w] \in Request /\ Deleting(req[w]) /\ hidden \subseteq Notes
  BY <1>1, <1>2, OwnFacts DEF RequestOK, HiddenBehind
<1>4. PICK r : r = [req[w] EXCEPT !.rows = hidden]
  OBVIOUS
<1>5. r \in Request /\ r.note = req[w].note /\ r.write = req[w].write /\ r.rows = hidden
  BY <1>3, <1>4 DEF Request
<1>6. req' = [req EXCEPT ![w] = r]
  BY <1>2, <1>4
<1>7. Deleting(r) /\ HiddenBehind(r.note) \subseteq r.rows
  BY <1>1, <1>3, <1>5 DEF Deleting
<1>8. RequestOK("clear", r) /\ AttachmentOK("clear", r)'
  BY <1>7 DEF RequestOK, AttachmentOK
<1>9. \A v \in Workers \ {w} : Written(v) \intersect DOMAIN r.write = {}
  BY <1>5, OwnFacts
<1> QED
  BY <1>2, <1>5, <1>6, <1>8, <1>9, AttachmentsKept, GoOn DEF Steps

-----------------------------------------------------------------------------
(* COMMIT.                                                                 *)

\* A request commits rows no other transaction has written.
LEMMA CommitInv ==
  ASSUME IInv, NEW w \in Workers, End(w), UNCHANGED <<attachment, object>>,
         note' \in [Notes -> NoteRow],
         \A v \in Workers \ {w} : \A m \in Written(v) : note'[m] = note[m],
         \A m \in Notes : note[m].st # "none" => note'[m].st # "none",
         \A m, n \in Notes :
           note[n].st = "live" /\ note'[m].st = "live" /\ note'[m].sup = n => note[m].st = "live" /\ note[m].sup = n,
         NotesOK'
  PROVE  IInv'
<1> USE DEF IInv
<1>1. /\ pc'[w] = "idle" /\ req'[w] = NoRequest
      /\ \A v \in Workers \ {w} : pc'[v] = pc[v] /\ req'[v] = req[v]
  BY DEF End, Goto, TypeOK
<1>2. TypeOK'
  BY NothingWritten DEF End, Goto, TypeOK, Steps
<1>3. RequestsOK'
  <2> SUFFICES ASSUME NEW v \in Workers PROVE RequestOK(pc[v], req[v])'
    BY DEF RequestsOK
  <2>1. CASE v = w
    BY <2>1, <1>1, NothingWritten DEF RequestOK
  <2>2. CASE v # w
    <3>1. PICK s, r : s = pc[v] /\ r = req[v]
      OBVIOUS
    <3>2. RequestOK(s, r) /\ r \in Request /\ pc'[v] = s /\ req'[v] = r
      BY <2>2, <3>1, <1>1, OwnFacts
    <3>3. DOMAIN r.write \subseteq Notes /\ \A m \in DOMAIN r.write : note'[m] = note[m]
      BY <2>2, <3>1, OwnFacts
    <3>4. r.todo \in Seq(Notes)
      BY <3>2 DEF Request
    <3>5. Creating(r) => Creating(r)'
      <4>1. ASSUME Creating(r), NEW i \in 1..Len(r.todo) PROVE note'[r.todo[i]].st # "none"
        BY <3>4, <4>1, ElementOfSeq DEF Creating
      <4> QED
        BY <3>3, <4>1 DEF Creating
    <3>6. Deleting(r) => Deleting(r)'
      BY <3>3 DEF Deleting
    <3>7. Deleting(r) => HiddenBehind(r.note)' \subseteq HiddenBehind(r.note)
      BY DEF Deleting, HiddenBehind
    <3> QED
      BY <3>2, <3>5, <3>6, <3>7 DEF RequestOK
  <2> QED
    BY <2>1, <2>2
<1>4. AttachmentsOK'
  <2>1. ASSUME NEW v \in Workers PROVE AttachmentOK(pc[v], req[v])'
    <3>1. CASE v = w
      BY <3>1, <1>1 DEF AttachmentOK
    <3>2. CASE v # w
      BY <3>2, <1>1 DEF AttachmentsOK, AttachmentOK
    <3> QED
      BY <3>1, <3>2
  <2> QED
    BY <2>1 DEF AttachmentsOK
<1>5. Disjoint'
  BY <1>1, NothingWritten DEF Disjoint, Written
<1> QED
  BY <1>2, <1>3, <1>4, <1>5

\* What CommitNote does to the rows.
LEMMA CommitNoteRows ==
  ASSUME IInv, NEW w \in Workers, CommitNote(w)
  PROVE  /\ End(w) /\ UNCHANGED <<attachment, object>> /\ note' \in [Notes -> NoteRow]
         /\ req[w].note \in Written(w) /\ Written(w) \subseteq Notes
         /\ note[req[w].note].st = "none" /\ note'[req[w].note] = [st |-> "live", sup |-> NoNote]
         /\ \A m \in Written(w) \ {req[w].note} :
              note[m].st # "none" /\ note'[m] = [st |-> note[m].st, sup |-> req[w].note]
         /\ \A m \in Notes \ Written(w) : note'[m] = note[m]
<1>1. /\ End(w) /\ UNCHANGED <<attachment, object>> /\ pc[w] = "check"
      /\ note' = [n \in Notes |-> IF n \in DOMAIN req[w].write THEN req[w].write[n] ELSE note[n]]
  BY DEF CommitNote, Commit, Finished
<1>2. Creating(req[w]) /\ req[w].write \in Writes /\ Written(w) = DOMAIN req[w].write
      /\ Written(w) \subseteq Notes
  BY <1>1, OwnFacts DEF RequestOK, Request
<1>3. note' \in [Notes -> NoteRow]
  BY <1>1, <1>2, WritesDef DEF IInv, TypeOK
<1> QED
  BY <1>1, <1>2, <1>3 DEF Creating

LEMMA CommitNoteInv == ASSUME IInv, NEW w \in Workers, CommitNote(w) PROVE IInv'
<1> USE NullAssumption
<1>1. PICK x, W : x = req[w].note /\ W = Written(w)
  OBVIOUS
<1>2. /\ End(w) /\ UNCHANGED <<attachment, object>> /\ note' \in [Notes -> NoteRow]
      /\ x \in W /\ W \subseteq Notes /\ note[x].st = "none" /\ note'[x] = [st |-> "live", sup |-> NoNote]
      /\ \A m \in W \ {x} : note[m].st # "none" /\ note'[m] = [st |-> note[m].st, sup |-> x]
      /\ \A m \in Notes \ W : note'[m] = note[m]
  BY <1>1, CommitNoteRows
<1>3. /\ note'[x].st = "live" /\ note'[x].sup = NoNote
      /\ \A m \in W \ {x} : note[m].st # "none" /\ note'[m].st = note[m].st /\ note'[m].sup = x
  <2>1. ASSUME NEW m \in W \ {x}
        PROVE  note[m].st # "none" /\ note'[m].st = note[m].st /\ note'[m].sup = x
    <3>1. note[m].st # "none" /\ note'[m] = [st |-> note[m].st, sup |-> x]
      BY <1>2
    <3> QED
      BY <3>1
  <2>2. note'[x].st = "live" /\ note'[x].sup = NoNote
    BY <1>2
  <2> QED
    BY <2>1, <2>2
<1>4. ASSUME NEW v \in Workers \ {w} PROVE Written(v) \subseteq Notes \ W
  <2>1. Written(v) \subseteq Notes
    BY OwnFacts
  <2>2. W = DOMAIN req[w].write /\ Written(v) \intersect DOMAIN req[w].write = {}
    BY <1>1, OwnFacts
  <2> QED
    BY <2>1, <2>2
<1>5. \A m \in Notes : note[m].st # "none" => note'[m].st # "none"
  BY <1>2, <1>3
<1>6. \A m, n \in Notes :
        note[n].st = "live" /\ note'[m].st = "live" /\ note'[m].sup = n => note[m].st = "live" /\ note[m].sup = n
  BY <1>2, <1>3
<1>7. NotesOK'
  <2>1. ASSUME NEW n \in Notes
        PROVE  note'[n].sup # n /\ (note'[n].st = "none" => note'[n].sup = NoNote)
    <3>0. note[n].sup # n /\ (note[n].st = "none" => note[n].sup = NoNote)
      BY DEF IInv, NotesOK
    <3> QED
      BY <3>0, <1>2, <1>3
  <2>2. ASSUME NEW n \in Notes, note'[n].st = "live", note'[n].sup # NoNote
        PROVE  note'[note'[n].sup].st = "live"
    <3>1. CASE n \in W
      BY <2>2, <3>1, <1>3
    <3>2. CASE n \notin W
      <4>1. note'[n] = note[n] /\ note[n].sup \in Notes /\ note[note[n].sup].st = "live"
        BY <2>2, <3>2, <1>2 DEF IInv, TypeOK, NoteRow, NotesOK, HiddenByLive
      <4> QED
        BY <4>1, <1>2, <1>3
    <3> QED
      BY <3>1, <3>2
  <2> QED
    BY <2>1, <2>2 DEF NotesOK, HiddenByLive
<1> QED
  <2>1. \A v \in Workers \ {w} : \A m \in Written(v) : note'[m] = note[m]
    BY <1>2, <1>4
  <2> QED
    BY <1>2, <1>5, <1>6, <1>7, <2>1, CommitInv

\* What ClearSupersededBy and its COMMIT do to the rows.
LEMMA ClearRows ==
  ASSUME IInv, NEW w \in Workers, ClearSupersededBy(w)
  PROVE  /\ End(w) /\ UNCHANGED <<attachment, object>> /\ note' \in [Notes -> NoteRow]
         /\ req[w].note \in Written(w) /\ req[w].note \in Notes /\ note[req[w].note].st = "live"
         /\ note'[req[w].note] = [st |-> "deleted", sup |-> note[req[w].note].sup]
         /\ HiddenBehind(req[w].note) \subseteq req[w].rows
         /\ \A m \in HiddenBehind(req[w].note) : ~Locked(w, m) /\ note'[m] = [st |-> "live", sup |-> NoNote]
         /\ \A m \in Notes \ (HiddenBehind(req[w].note) \union {req[w].note}) : note'[m] = note[m]
<1> USE NullAssumption
<1>1. PICK x, h, current : x = req[w].note /\ h = req[w].write
        /\ current = [m \in StillHidden(w) |-> [note[m] EXCEPT !.sup = NoNote]]
  OBVIOUS
<1>2. /\ End(w) /\ UNCHANGED <<attachment, object>> /\ pc[w] = "clear"
      /\ \A m \in req[w].rows : ~Locked(w, m)
      /\ note' = [n \in Notes |-> IF n \in DOMAIN With(h, current) THEN With(h, current)[n] ELSE note[n]]
  BY <1>1 DEF ClearSupersededBy, Commit
<1>3. /\ Deleting(req[w]) /\ h \in Writes /\ HiddenBehind(x) \subseteq req[w].rows
      /\ Written(w) = DOMAIN h
  BY <1>1, <1>2, OwnFacts DEF RequestOK, Request
<1>4. /\ x \in Notes /\ note[x].st = "live" /\ DOMAIN h = {x}
      /\ h[x] = [st |-> "deleted", sup |-> note[x].sup]
  BY <1>1, <1>3 DEF Deleting
<1>5. StillHidden(w) = HiddenBehind(x)
  BY <1>1, <1>3 DEF StillHidden
<1>6. \A m \in HiddenBehind(x) :
        m \in Notes /\ note[m] \in NoteRow /\ note[m].st = "live" /\ note[m].sup = x
  BY DEF HiddenBehind, IInv, TypeOK
<1>7. /\ DOMAIN current = HiddenBehind(x)
      /\ \A m \in HiddenBehind(x) : current[m] = [st |-> "live", sup |-> NoNote]
      /\ current \in Writes
  <2>1. current = [m \in HiddenBehind(x) |-> [note[m] EXCEPT !.sup = NoNote]]
    BY <1>1, <1>5
  <2>2. \A m \in HiddenBehind(x) : [note[m] EXCEPT !.sup = NoNote] = [st |-> "live", sup |-> NoNote]
    BY <1>6 DEF NoteRow
  <2>3. [st |-> "live", sup |-> NoNote] \in NoteRow
    BY DEF NoteRow
  <2>4. current \in [DOMAIN current -> NoteRow] /\ DOMAIN current \subseteq Notes
    BY <2>1, <2>2, <2>3, <1>6
  <2> QED
    BY <2>1, <2>2, <2>4, WritesDef
<1>8. x \notin HiddenBehind(x)
  BY <1>4, <1>6 DEF IInv, NotesOK
<1>9. /\ With(h, current) \in Writes /\ DOMAIN With(h, current) = {x} \union HiddenBehind(x)
      /\ \A m \in HiddenBehind(x) : With(h, current)[m] = [st |-> "live", sup |-> NoNote]
      /\ With(h, current)[x] = [st |-> "deleted", sup |-> note[x].sup]
  <2>1. /\ With(h, current) \in Writes
        /\ DOMAIN With(h, current) = DOMAIN h \union DOMAIN current
        /\ \A n \in DOMAIN current : With(h, current)[n] = current[n]
        /\ \A n \in DOMAIN h \ DOMAIN current : With(h, current)[n] = h[n]
    BY <1>3, <1>7, WithRows
  <2> QED
    BY <2>1, <1>4, <1>7, <1>8
<1>10. note' \in [Notes -> NoteRow]
  BY <1>2, <1>9, WritesDef DEF IInv, TypeOK
<1> QED
  BY <1>1, <1>2, <1>3, <1>4, <1>6, <1>9, <1>10
LEMMA ClearInv == ASSUME IInv, NEW w \in Workers, ClearSupersededBy(w) PROVE IInv'
<1> USE NullAssumption
<1>1. PICK x, H : x = req[w].note /\ H = HiddenBehind(x)
  OBVIOUS
<1>2. /\ End(w) /\ UNCHANGED <<attachment, object>> /\ note' \in [Notes -> NoteRow]
      /\ x \in Written(w) /\ x \in Notes /\ note[x].st = "live"
      /\ note'[x] = [st |-> "deleted", sup |-> note[x].sup]
      /\ \A m \in H : ~Locked(w, m) /\ note'[m] = [st |-> "live", sup |-> NoNote]
      /\ \A m \in Notes \ (H \union {x}) : note'[m] = note[m]
  BY <1>1, ClearRows
<1>3. note'[x].st = "deleted" /\ note'[x].sup = note[x].sup
  BY <1>2
<1>4. ASSUME NEW m \in H
      PROVE  /\ ~Locked(w, m) /\ note'[m].st = "live" /\ note'[m].sup = NoNote
             /\ note[m].st = "live" /\ note[m].sup = x
  <2>1. ~Locked(w, m) /\ note'[m] = [st |-> "live", sup |-> NoNote]
    BY <1>2
  <2> QED
    BY <1>1, <2>1 DEF HiddenBehind
<1>5. ASSUME NEW m \in Notes \ (H \union {x})
      PROVE  note'[m] = note[m] /\ (note[m].st = "live" => note[m].sup # x)
  BY <1>1, <1>2 DEF HiddenBehind
<1>6. ASSUME NEW v \in Workers \ {w}, NEW m \in Written(v) PROVE note'[m] = note[m]
  <2>1. m \in Notes /\ m # x
    BY <1>2, OwnFacts
  <2>2. m \notin H
    BY <1>4 DEF Locked
  <2> QED
    BY <2>1, <2>2, <1>5
<1>7. \A m \in Notes : note[m].st # "none" => note'[m].st # "none"
  BY <1>3, <1>4, <1>5
<1>8. \A m, n \in Notes :
        note[n].st = "live" /\ note'[m].st = "live" /\ note'[m].sup = n => note[m].st = "live" /\ note[m].sup = n
  BY <1>3, <1>4, <1>5
<1>9. NotesOK'
  <2>1. ASSUME NEW n \in Notes
        PROVE  note'[n].sup # n /\ (note'[n].st = "none" => note'[n].sup = NoNote)
    <3>0. note[n].sup # n /\ (note[n].st = "none" => note[n].sup = NoNote)
      BY DEF IInv, NotesOK
    <3> QED
      BY <3>0, <1>3, <1>4, <1>5
  <2>2. ASSUME NEW n \in Notes, note'[n].st = "live", note'[n].sup # NoNote
        PROVE  note'[note'[n].sup].st = "live"
    <3>1. n # x /\ n \notin H
      BY <2>2, <1>3, <1>4
    <3>2. note'[n] = note[n] /\ note[n].sup # x
      BY <2>2, <3>1, <1>5
    <3>3. note[n].sup \in Notes /\ note[note[n].sup].st = "live"
      BY <2>2, <3>2 DEF IInv, TypeOK, NoteRow, NotesOK, HiddenByLive
    <3> QED
      BY <3>2, <3>3, <1>4, <1>5
  <2> QED
    BY <2>1, <2>2 DEF NotesOK, HiddenByLive
<1> QED
  BY <1>2, <1>6, <1>7, <1>8, <1>9, CommitInv

-----------------------------------------------------------------------------
(* Attachments.                                                            *)

LEMMA StartUploadInv == ASSUME IInv, NEW w \in Workers, StartUpload(w) PROVE IInv'
<1>1. PICK a \in Attachments :
        /\ pc[w] = "idle" /\ req' = [req EXCEPT ![w].att = a]
        /\ pc' = [pc EXCEPT ![w] = "put"] /\ UNCHANGED <<note, attachment, object>>
  BY DEF StartUpload, Goto
<1>2. req[w] \in Request /\ DOMAIN req[w].write = {}
  BY <1>1, OwnFacts DEF RequestOK
<1>3. PICK r : r = [req[w] EXCEPT !.att = a]
  OBVIOUS
<1>4. r \in Request /\ r.att = a /\ r.write = req[w].write
  BY <1>2, <1>3 DEF Request
<1>5. req' = [req EXCEPT ![w] = r]
  BY <1>1, <1>3
<1>6. RequestOK("put", r) /\ AttachmentOK("put", r)'
  BY <1>2, <1>4 DEF RequestOK, AttachmentOK
<1>7. \A v \in Workers \ {w} : Written(v) \intersect DOMAIN r.write = {}
  BY <1>2, <1>4
<1> QED
  BY <1>1, <1>4, <1>5, <1>6, <1>7, AttachmentsKept, GoOn DEF Steps

\* The object is stored, or the row that names it is inserted.
LEMMA UploadInv == ASSUME IInv, NEW w \in Workers, UploadAttachment(w) PROVE IInv'
<1>1. PICK r : r = req[w]
  OBVIOUS
<1>2. UNCHANGED note /\ PutThenInsert(w, r.att)
  BY <1>1 DEF UploadAttachment
<1>3. /\ attachment \in [Attachments -> {"none", "live", "deleted"}]
      /\ object \in [Attachments -> BOOLEAN]
      /\ \A a \in Attachments : attachment[a] = "live" => object[a]
  BY DEF IInv, TypeOK, AttachmentsOK
<1>4. CASE pc[w] = "put"
  <2>1. /\ object' = [object EXCEPT ![r.att] = TRUE] /\ pc' = [pc EXCEPT ![w] = "insert"]
        /\ UNCHANGED <<attachment, req>>
    BY <1>2, <1>4 DEF PutThenInsert, Goto
  <2>2. r \in Request /\ r.att \in Attachments /\ DOMAIN r.write = {}
    BY <1>1, <1>4, OwnFacts DEF RequestOK, AttachmentOK
  <2>3. req' = [req EXCEPT ![w] = r]
    BY <1>1, <2>1 DEF IInv, TypeOK
  <2>4. RequestOK("insert", r) /\ AttachmentOK("insert", r)'
    BY <1>3, <2>1, <2>2 DEF RequestOK, AttachmentOK
  <2>5. /\ attachment' \in [Attachments -> {"none", "live", "deleted"}]
        /\ object' \in [Attachments -> BOOLEAN]
        /\ \A a \in Attachments :
             (object[a] => object'[a]) /\ (attachment'[a] = "live" => object'[a])
    BY <1>3, <2>1
  <2>6. \A v \in Workers \ {w} : Written(v) \intersect DOMAIN r.write = {}
    BY <2>2
  <2> QED
    BY <1>2, <2>1, <2>2, <2>3, <2>4, <2>5, <2>6, GoOn DEF Steps
<1>5. CASE pc[w] = "insert"
  <2>1. attachment' = [attachment EXCEPT ![r.att] = "live"] /\ End(w) /\ UNCHANGED object
    BY <1>2, <1>5 DEF PutThenInsert
  <2>2. r.att \in Attachments /\ object[r.att]
    BY <1>1, <1>5, OwnFacts DEF AttachmentOK
  <2>3. /\ attachment' \in [Attachments -> {"none", "live", "deleted"}]
        /\ object' \in [Attachments -> BOOLEAN]
        /\ \A a \in Attachments :
             (object[a] => object'[a]) /\ (attachment'[a] = "live" => object'[a])
    BY <1>3, <2>1, <2>2
  <2> QED
    BY <1>2, <2>1, <2>3, EndInv
<1> QED
  BY <1>2, <1>4, <1>5 DEF PutThenInsert

LEMMA AskAttachmentInv == ASSUME IInv, NEW w \in Workers, AskAttachment(w) PROVE IInv'
<1>1. PICK a \in Attachments, s \in {"get", "remove"} :
        /\ pc[w] = "idle" /\ attachment[a] = "live" /\ req' = [req EXCEPT ![w].att = a]
        /\ pc' = [pc EXCEPT ![w] = s] /\ UNCHANGED <<note, attachment, object>>
  BY DEF AskAttachment, Goto
<1>2. req[w] \in Request /\ DOMAIN req[w].write = {} /\ s \in Steps
  BY <1>1, OwnFacts DEF RequestOK, Steps
<1>3. PICK r : r = [req[w] EXCEPT !.att = a]
  OBVIOUS
<1>4. r \in Request /\ r.att = a /\ r.write = req[w].write
  BY <1>2, <1>3 DEF Request
<1>5. req' = [req EXCEPT ![w] = r]
  BY <1>1, <1>3
<1>6. RequestOK(s, r)
  BY <1>1, <1>2, <1>4 DEF RequestOK
<1>7. AttachmentOK(s, r)'
  BY <1>1, <1>4 DEF AttachmentOK, IInv, AttachmentsOK
<1>8. \A v \in Workers \ {w} : Written(v) \intersect DOMAIN r.write = {}
  BY <1>2, <1>4
<1> QED
  BY <1>1, <1>2, <1>4, <1>5, <1>6, <1>7, <1>8, AttachmentsKept, GoOn

LEMMA DeleteAttachmentInv == ASSUME IInv, NEW w \in Workers, DeleteAttachment(w) PROVE IInv'
<1>1. /\ End(w) /\ UNCHANGED <<note, object>>
      /\ attachment' = [attachment EXCEPT ![req[w].att] = "deleted"]
  BY DEF DeleteAttachment, Removed
<1>2. /\ attachment' \in [Attachments -> {"none", "live", "deleted"}]
      /\ object' \in [Attachments -> BOOLEAN]
      /\ \A a \in Attachments :
           (object[a] => object'[a]) /\ (attachment'[a] = "live" => object'[a])
  BY <1>1 DEF IInv, TypeOK, AttachmentsOK
<1> QED
  BY <1>1, <1>2, EndInv

-----------------------------------------------------------------------------
\* Every step keeps the invariant.
LEMMA NextInv == ASSUME IInv, [Next]_vars PROVE IInv'
<1>1. CASE UNCHANGED vars
  <2>1. \A n : HiddenBehind(n)' = HiddenBehind(n)
    BY <1>1 DEF vars, HiddenBehind
  <2>2. RequestsOK'
    BY <1>1, <2>1 DEF vars, IInv, RequestsOK, RequestOK, Creating, Deleting
  <2>3. TypeOK' /\ AttachmentsOK' /\ Disjoint' /\ NotesOK'
    BY <1>1 DEF vars, IInv, TypeOK, AttachmentsOK, AttachmentOK, Disjoint, Written, NotesOK, HiddenByLive
  <2> QED
    BY <2>2, <2>3 DEF IInv
<1>2. ASSUME NEW w \in Workers, Step(w) PROVE IInv'
  <2>1. CASE CreateEntityContext(w)
    BY <2>1, CreateInv
  <2>2. CASE CheckSuperseded(w)
    BY <2>2, CheckInv
  <2>3. CASE SupersedeEntityContext(w)
    BY <2>3, SupersedeInv
  <2>4. CASE CommitNote(w)
    BY <2>4, CommitNoteInv
  <2>5. CASE AskDelete(w)
    BY <2>5, AskDeleteInv
  <2>6. CASE DeleteEntityContext(w)
    BY <2>6, DeleteInv
  <2>7. CASE SeeHidden(w)
    BY <2>7, SeeInv
  <2>8. CASE ClearSupersededBy(w)
    BY <2>8, ClearInv
  <2>9. CASE StartUpload(w)
    BY <2>9, StartUploadInv
  <2>10. CASE UploadAttachment(w)
    BY <2>10, UploadInv
  <2>11. CASE AskAttachment(w)
    BY <2>11, AskAttachmentInv
  <2>12. CASE DownloadAttachment(w) \/ Abort(w)
    BY <2>12, AttachmentsKept, EndInv DEF DownloadAttachment, Abort
  <2>13. CASE DeleteAttachment(w)
    BY <2>13, DeleteAttachmentInv
  <2> QED
    BY <1>2, <2>1, <2>2, <2>3, <2>4, <2>5, <2>6, <2>7, <2>8, <2>9, <2>10, <2>11, <2>12, <2>13 DEF Step
<1> QED
  BY <1>1, <1>2 DEF Next

\* The invariant holds in every behaviour.
THEOREM InvHolds == Spec => []IInv
BY InitInv, NextInv, PTL DEF Spec

\* A note is only ever hidden behind one that can be seen
\* (entity_context_service.go CreateEntityContext, DeleteEntityContext).
THEOREM HiddenByLiveHolds == Spec => []HiddenByLive
<1>1. IInv => HiddenByLive
  BY DEF IInv, NotesOK
<1> QED
  BY <1>1, InvHolds, PTL

\* What is listed can be read, a download in progress included
\* (attachment_service.go UploadAttachment, DownloadAttachment, DeleteAttachment).
THEOREM AttachmentReadableHolds == Spec => []AttachmentReadable
<1>1. IInv => AttachmentReadable
  BY DEF IInv, AttachmentsOK, AttachmentOK, AttachmentReadable
<1> QED
  BY <1>1, InvHolds, PTL

\* Only the deletion of the note it was behind makes a note current again
\* (entity_context_service.go DeleteEntityContext, ClearSupersededBy).
THEOREM BroughtBackByDeletionHolds == Spec => BroughtBackByDeletion
<1>1. ASSUME IInv, [Next]_vars, NEW n \in Notes, note[n].sup # NoNote, note'[n].sup = NoNote
      PROVE  note'[note[n].sup].st = "deleted"
  <2>1. PICK w \in Workers : CommitNote(w) \/ ClearSupersededBy(w)
    <3>1. ~UNCHANGED note
      BY <1>1
    <3> QED
      BY <1>1, <3>1 DEF Next, Step, vars, CreateEntityContext, CheckSuperseded, SupersedeEntityContext,
         AskDelete, DeleteEntityContext, SeeHidden, StartUpload, UploadAttachment, AskAttachment,
         DownloadAttachment, DeleteAttachment, Abort
  <2>2. CASE CommitNote(w)
    <3>1. PICK x, W : x = req[w].note /\ W = Written(w)
      OBVIOUS
    <3>2. /\ x \in W /\ W \subseteq Notes /\ note[x].st = "none"
          /\ \A m \in W \ {x} : note'[m] = [st |-> note[m].st, sup |-> x]
          /\ \A m \in Notes \ W : note'[m] = note[m]
      BY <1>1, <2>2, <3>1, CommitNoteRows
    <3>3. n # x
      BY <1>1, <3>2 DEF IInv, NotesOK
    <3>4. n \in W
      BY <1>1, <3>2
    <3>5. note'[n] = [st |-> note[n].st, sup |-> x]
      BY <3>2, <3>3, <3>4
    <3>6. note'[n].sup = x
      BY <3>5
    <3> QED
      BY <1>1, <3>2, <3>6, NullAssumption
  <2>3. CASE ClearSupersededBy(w)
    <3>1. PICK x, H : x = req[w].note /\ H = HiddenBehind(x)
      OBVIOUS
    <3>2. /\ note'[x] = [st |-> "deleted", sup |-> note[x].sup]
          /\ \A m \in Notes \ (H \union {x}) : note'[m] = note[m]
      BY <1>1, <2>3, <3>1, ClearRows
    <3>3. note'[x].st = "deleted" /\ note'[x].sup = note[x].sup
      BY <3>2
    <3>4. n # x /\ n \in H
      BY <1>1, <3>2, <3>3
    <3>5. note[n].sup = x
      BY <3>1, <3>4 DEF HiddenBehind
    <3> QED
      BY <3>3, <3>5
  <2> QED
    BY <2>1, <2>2, <2>3
<1>2. IInv /\ [Next]_vars =>
        [\A n \in Notes : note[n].sup # NoNote /\ note'[n].sup = NoNote => note'[note[n].sup].st = "deleted"]_note
  BY <1>1
<1> QED
  BY <1>2, InvHolds, PTL DEF Spec, BroughtBackByDeletion
=====================================================
