------------------------------ MODULE Context ------------------------------
(***************************************************************************)
(* What hangs beside a business's records: notes (entity_context), which a *)
(* new note can roll up by superseding them, and attachments, each a row   *)
(* naming an object in the object store.                                   *)
(*                                                                         *)
(* A note's statements run in one transaction, whose writes hold the lock  *)
(* of their rows until it ends; an UPDATE waits for the rows its statement *)
(* saw and then looks again whether they still match.  The object store    *)
(* knows no transaction: what is put there stays.  A last statement and    *)
(* its COMMIT are one step.                                                *)
(***************************************************************************)
EXTENDS Naturals, Sequences, SequencesExt

CONSTANTS
  Workers,       \* requests that may be in flight at the same time
  Notes,         \* BOUND: rows of entity_context on one entity
  Attachments,   \* BOUND: rows of attachment, each with its key
  MaxRolledUp,   \* BOUND: notes one request supersedes
  NoNote, NoAttachment

ASSUME NullAssumption == NoNote \notin Notes /\ NoAttachment \notin Attachments
ASSUME RolledUpAssumption == MaxRolledUp \in Nat /\ IsFiniteSet(Notes)

VARIABLES
  note,        \* entity_context, as committed
  attachment,  \* attachment
  object,      \* the object store: whether the attachment's key holds bytes
  pc, req      \* what each request does next, was given and has written

vars == <<note, attachment, object, pc, req>>

\* sup: superseded_by_id.
NoRow == [st |-> "none", sup |-> NoNote]
NoRequest == [note |-> NoNote, todo |-> <<>>, rows |-> {}, write |-> <<>>, att |-> NoAttachment]

Init ==
  /\ note = [n \in Notes |-> NoRow]
  /\ attachment = [a \in Attachments |-> "none"]
  /\ object = [a \in Attachments |-> FALSE]
  /\ pc = [w \in Workers |-> "idle"]
  /\ req = [w \in Workers |-> NoRequest]

Goto(w, step) == pc' = [pc EXCEPT ![w] = step]
\* A request ends and lets go of what it has not committed.
End(w) == Goto(w, "idle") /\ req' = [req EXCEPT ![w] = NoRequest]

\* The rows w has written, and the rows of other open transactions.
Written(w) == DOMAIN req[w].write
Locked(w, n) == \E v \in Workers \ {w} : n \in Written(v)

\* A row as w's transaction sees it.
Row(w, n) == IF n \in Written(w) THEN req[w].write[n] ELSE note[n]

With(write, rows) == [n \in DOMAIN write \union DOMAIN rows |->
                        IF n \in DOMAIN rows THEN rows[n] ELSE write[n]]

Commit(w, write) ==
  /\ note' = [n \in Notes |-> IF n \in DOMAIN write THEN write[n] ELSE note[n]]
  /\ End(w)

\* ROLLBACK and an error, or the end of an abandoned request.
Abort(w) == pc[w] # "idle" /\ End(w) /\ UNCHANGED <<note, attachment, object>>

-----------------------------------------------------------------------------
(* Notes.                                                                  *)

\* CreateEntityContext, with the ids to supersede in any order, inserts first.
CreateEntityContext(w) ==
  \E n \in Notes, olds \in SUBSET Notes :
    /\ pc[w] = "idle" /\ note[n].st = "none" /\ ~Locked(w, n)
    /\ n \notin olds /\ \A o \in olds : note[o].st # "none"
    /\ \E ids \in SetToSeqs(olds) :
         /\ Len(ids) <= MaxRolledUp
         /\ req' = [req EXCEPT ![w] = [NoRequest EXCEPT !.note = n, !.todo = ids,
                      !.write = [m \in {n} |-> [st |-> "live", sup |-> NoNote]]]]
    /\ Goto(w, "check")
    /\ UNCHANGED <<note, attachment, object>>

\* requireInBusiness reads the note to supersede.
CheckSuperseded(w) ==
  LET old == Head(req[w].todo) IN
  /\ pc[w] = "check" /\ req[w].todo # <<>>
  /\ Row(w, old).st = "live"
  /\ Goto(w, "supersede")
  /\ UNCHANGED <<note, attachment, object, req>>

\* SupersedeEntityContext: whatever the row is by the time its lock is free.
Superseded(w, old) == [n \in {old} |-> [Row(w, old) EXCEPT !.sup = req[w].note]]

SupersedeEntityContext(w) ==
  LET old == Head(req[w].todo) IN
  /\ pc[w] = "supersede" /\ ~Locked(w, old)
  /\ req' = [req EXCEPT ![w].todo = Tail(@), ![w].write = With(@, Superseded(w, old))]
  /\ Goto(w, "check")
  /\ UNCHANGED <<note, attachment, object>>

\* The transaction commits once nothing is left to supersede.
Finished(w) == pc[w] = "check" /\ req[w].todo = <<>>
CommitNote(w) ==
  /\ Finished(w)
  /\ Commit(w, req[w].write)
  /\ UNCHANGED <<attachment, object>>

\* DeleteEntityContext loads the note on the pool ...
AskDelete(w) ==
  \E n \in Notes :
    /\ pc[w] = "idle" /\ note[n].st = "live"
    /\ req' = [req EXCEPT ![w].note = n]
    /\ Goto(w, "delete")
    /\ UNCHANGED <<note, attachment, object>>

\* ... and deletes it, unless somebody has.
DeleteEntityContext(w) ==
  LET n == req[w].note IN
  /\ pc[w] = "delete" /\ ~Locked(w, n)
  /\ IF note[n].st = "deleted" THEN End(w)
     ELSE /\ req' = [req EXCEPT ![w].write = [m \in {n} |-> [note[n] EXCEPT !.st = "deleted"]]]
          /\ Goto(w, "see")
  /\ UNCHANGED <<note, attachment, object>>

\* ClearSupersededBy: the live notes its statement sees behind the deleted one
\* ...  (variant: none)
HiddenBehindNothing(n) == {}
HiddenBehind(n) == {m \in Notes : note[m].st = "live" /\ note[m].sup = n}

SeeHidden(w) ==
  /\ pc[w] = "see"
  /\ req' = [req EXCEPT ![w].rows = HiddenBehind(req[w].note)]
  /\ Goto(w, "clear")
  /\ UNCHANGED <<note, attachment, object>>

\* ... become current, those that still are behind it.  (variant: all)
StillHiddenUnchecked(w) == req[w].rows
StillHidden(w) == req[w].rows \intersect HiddenBehind(req[w].note)

ClearSupersededBy(w) ==
  LET current == [m \in StillHidden(w) |-> [note[m] EXCEPT !.sup = NoNote]] IN
  /\ pc[w] = "clear" /\ \A m \in req[w].rows : ~Locked(w, m)
  /\ Commit(w, With(req[w].write, current))
  /\ UNCHANGED <<attachment, object>>

-----------------------------------------------------------------------------
(* Attachments.                                                            *)

\* UploadAttachment stores the bytes under a new key; the answer may be lost.
\* (variant: it inserts the row first)
InsertBeforePut(w, a) ==
  \/ pc[w] = "put" /\ attachment' = [attachment EXCEPT ![a] = "live"] /\ Goto(w, "insert") /\ UNCHANGED <<object, req>>
  \/ pc[w] = "insert" /\ object' = [object EXCEPT ![a] = TRUE] /\ End(w) /\ UNCHANGED attachment
PutThenInsert(w, a) ==
  \/ pc[w] = "put" /\ object' = [object EXCEPT ![a] = TRUE] /\ Goto(w, "insert") /\ UNCHANGED <<attachment, req>>
  \/ pc[w] = "insert" /\ attachment' = [attachment EXCEPT ![a] = "live"] /\ End(w) /\ UNCHANGED object

StartUpload(w) ==
  \E a \in Attachments :
    /\ pc[w] = "idle" /\ attachment[a] = "none" /\ ~object[a]
    /\ \A v \in Workers : req[v].att # a
    /\ req' = [req EXCEPT ![w].att = a]
    /\ Goto(w, "put")
    /\ UNCHANGED <<note, attachment, object>>

UploadAttachment(w) == req[w].att # NoAttachment /\ PutThenInsert(w, req[w].att) /\ UNCHANGED note

\* DownloadAttachment and DeleteAttachment load the row first.
AskAttachment(w) ==
  \E a \in Attachments, step \in {"get", "remove"} :
    /\ pc[w] = "idle" /\ attachment[a] = "live"
    /\ req' = [req EXCEPT ![w].att = a]
    /\ Goto(w, step)
    /\ UNCHANGED <<note, attachment, object>>

\* Storage.Get looks the object up before the first chunk is sent.
DownloadAttachment(w) ==
  pc[w] = "get" /\ End(w) /\ UNCHANGED <<note, attachment, object>>

\* DeleteAttachment: the row only.
Removed(a) == attachment' = [attachment EXCEPT ![a] = "deleted"] /\ UNCHANGED object

DeleteAttachment(w) ==
  pc[w] = "remove" /\ Removed(req[w].att) /\ End(w) /\ UNCHANGED note

Step(w) ==
  \/ CreateEntityContext(w) \/ CheckSuperseded(w) \/ SupersedeEntityContext(w) \/ CommitNote(w)
  \/ AskDelete(w) \/ DeleteEntityContext(w) \/ SeeHidden(w) \/ ClearSupersededBy(w)
  \/ StartUpload(w) \/ UploadAttachment(w) \/ AskAttachment(w) \/ DownloadAttachment(w)
  \/ DeleteAttachment(w) \/ Abort(w)

Next == \E w \in Workers : Step(w)

Spec == Init /\ [][Next]_vars

-----------------------------------------------------------------------------
\* A note is only ever hidden behind one that can be seen: whatever is created
\* and deleted at the same time, none stays behind a deleted note
\* (entity_context_service.go DeleteEntityContext).
HiddenByLive ==
  \A n \in Notes : note[n].st = "live" /\ note[n].sup # NoNote => note[note[n].sup].st = "live"

\* An attachment that is listed can be read, and a download that found its row
\* finds its object though the attachment is deleted meanwhile
\* (attachment_service.go UploadAttachment, DownloadAttachment).
AttachmentReadable ==
  /\ \A a \in Attachments : attachment[a] = "live" => object[a]
  /\ \A w \in Workers : pc[w] = "get" => object[req[w].att]

\* A deletion brings back what it hid and nothing else: a note that another
\* request has rolled up meanwhile stays behind that one.
BroughtBackByDeletion ==
  [][\A n \in Notes : note[n].sup # NoNote /\ note'[n].sup = NoNote => note'[note[n].sup].st = "deleted"]_note
=============================================================================
