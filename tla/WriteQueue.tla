----------------------------- MODULE WriteQueue -----------------------------
(***************************************************************************)
(* The offline write queue of one DAV collection (sync/src/store/queue.rs  *)
(* and the calendar side of it in sync/src/store/calendar.rs): the stored  *)
(* row of each object, the pending operation of each object, and every     *)
(* store transaction that touches them.  A transaction is one atomic       *)
(* action: the code runs each inside StoreManager::with_store, which holds *)
(* the only writer of the database.                                        *)
(*                                                                         *)
(* A definition called Mutant... is the one after it with a bug such code   *)
(* could have: it shows which property would notice.                       *)
(*                                                                         *)
(* The module says nothing of who calls the transactions; DavSync composes *)
(* them with the person at the D-Bus surface, the round of the scheduler   *)
(* and the server.                                                         *)
(***************************************************************************)
EXTENDS DavData

CONSTANT
  MaxAttempts    \* MAX_REPLAY_ATTEMPTS: tries before an operation escalates

ASSUME MaxAttemptsAssumption == MaxAttempts \in Nat \ {0}

VARIABLES
  row,     \* row[o]: the stored object (calendar_objects), or NoRow
  op,      \* op[o]: its pending operation (pending_dav_ops), or NoOp
  nextId   \* the AUTOINCREMENT of pending_dav_ops

queueVars == <<row, op, nextId>>

-----------------------------------------------------------------------------
(* Data.                                                                   *)

Marks  == {"none", "put", "delete"}
Kinds  == {"put", "delete"}
States == {"ready", "conflict"}

NoRow == [raw |-> NoContent, derived |-> NoContent, etag |-> NoEtag, mark |-> "none"]

NoOp == [id |-> 0, kind |-> "none", base |-> NoEtag, payload |-> NoContent,
         state |-> "none", attempts |-> 0, rev |-> 0,
         srvEtag |-> NoEtag, srvRaw |-> NoContent]

\* derived is the content from which the row's index and occurrences were made.
Row == [raw : Text, derived : Text,
        etag : Nat, mark : Marks]

Operation == [id : Nat, kind : Kinds \cup {"none"}, base : Nat,
              payload : Text, state : States \cup {"none"},
              attempts : Nat, rev : Nat,
              srvEtag : Nat, srvRaw : Text]

\* What pending_ops hands to the round: the operation as it was when read.
Snapshot == [obj : Obj, op : Operation]

Stored(o)     == row[o].raw # NoContent
Queued(o)     == op[o].kind # "none"
InConflict(o) == Queued(o) /\ op[o].state = "conflict"
HasCopy(p)    == p.srvEtag # NoEtag \/ p.srvRaw # NoContent

\* The operation of a snapshot is still the one in the queue: same id and
\* revision.  Every close is conditional on it.
Live(s) == op[s.obj].id = s.op.id /\ op[s.obj].rev = s.op.rev

QueueTypeOK ==
  /\ row \in [Obj -> Row]
  /\ op \in [Obj -> Operation]
  /\ nextId \in Nat \ {0}

QueueInit(stored) ==
  /\ row = stored
  /\ op = [o \in Obj |-> NoOp]
  /\ nextId = 1

-----------------------------------------------------------------------------
(* Enqueueing: the person writes.                                          *)

\* insert_pending_op: a new operation, or the one there is taken over by the
\* new edit: same id, next revision, from zero and without server copy.
InsertPendingOp(o, kind, base, payload) ==
  /\ op' = [op EXCEPT ![o] =
       [id |-> IF Queued(o) THEN @.id ELSE nextId,
        kind |-> kind, base |-> base, payload |-> payload,
        state |-> "ready", attempts |-> 0,
        rev |-> IF Queued(o) THEN @.rev + 1 ELSE 0,
        srvEtag |-> NoEtag, srvRaw |-> NoContent]]
  /\ nextId' = IF Queued(o) THEN nextId ELSE nextId + 1

\* enqueue_calendar_put: the new text is visible at once, marked, and carries
\* the ETag it was edited against.
EnqueuePut(o, raw, base) ==
  /\ row' = [row EXCEPT ![o] =
       [raw |-> raw, derived |-> raw, etag |-> base, mark |-> "put"]]
  /\ InsertPendingOp(o, "put", base, raw)

\* enqueue_delete: the row stays, marked, until the server confirms.
EnqueueDelete(o, base) ==
  /\ row' = IF Stored(o) THEN [row EXCEPT ![o].mark = "delete"] ELSE row
  /\ InsertPendingOp(o, "delete", base, NoContent)

-----------------------------------------------------------------------------
(* Closing: what the round does with the answer of the server.             *)

\* The close does not look at the revision.
MutantCompletePut(s, etag) ==
  /\ op' = [op EXCEPT ![s.obj] = NoOp]
  /\ row' = IF Stored(s.obj)
              THEN [row EXCEPT ![s.obj].etag = etag, ![s.obj].mark = "none"]
              ELSE row
  /\ UNCHANGED nextId

\* complete_put: the ETag of the write, or NULL so that the download brings it.
CompletePut(s, etag) ==
  /\ IF Live(s)
       THEN /\ op' = [op EXCEPT ![s.obj] = NoOp]
            /\ row' = IF Stored(s.obj)
                        THEN [row EXCEPT ![s.obj].etag = etag, ![s.obj].mark = "none"]
                        ELSE row
       ELSE UNCHANGED <<row, op>>
  /\ UNCHANGED nextId

\* The close does not look at the revision.
MutantCompleteDelete(s) ==
  /\ op' = [op EXCEPT ![s.obj] = NoOp]
  /\ row' = [row EXCEPT ![s.obj] = NoRow]
  /\ UNCHANGED nextId

\* complete_delete: the row goes with its operation.
CompleteDelete(s) ==
  /\ IF Live(s)
       THEN /\ op' = [op EXCEPT ![s.obj] = NoOp]
            /\ row' = [row EXCEPT ![s.obj] = NoRow]
       ELSE UNCHANGED <<row, op>>
  /\ UNCHANGED nextId

\* The conflict is noted nowhere.
MutantMarkConflict(s) == UNCHANGED <<row, op, nextId>>

\* mark_conflict: nothing is overwritten; the row stays marked.
MarkConflict(s) ==
  /\ op' = IF Live(s)
             THEN [op EXCEPT ![s.obj].state = "conflict", ![s.obj].attempts = @ + 1]
             ELSE op
  /\ UNCHANGED <<row, nextId>>

\* The attempts are counted down.
MutantRetryLater(s) ==
  /\ op' = IF Live(s) THEN [op EXCEPT ![s.obj].attempts = @ - 1] ELSE op
  /\ UNCHANGED <<row, nextId>>

\* retry_later
RetryLater(s) ==
  /\ op' = IF Live(s) THEN [op EXCEPT ![s.obj].attempts = @ + 1] ELSE op
  /\ UNCHANGED <<row, nextId>>

\* retry_or_escalate: the decision is taken on the attempts of the snapshot.
RetryOrEscalate(s) ==
  IF s.op.attempts + 1 < MaxAttempts THEN RetryLater(s) ELSE MarkConflict(s)

\* store_server_copy
StoreServerCopy(s, etag, raw) ==
  /\ op' = IF Live(s) /\ op[s.obj].state = "conflict"
             THEN [op EXCEPT ![s.obj].srvEtag = etag, ![s.obj].srvRaw = raw]
             ELSE op
  /\ UNCHANGED <<row, nextId>>

\* count_conflict_fetch_attempt
CountConflictFetchAttempt(s) ==
  /\ op' = IF Live(s) /\ op[s.obj].state = "conflict"
             THEN [op EXCEPT ![s.obj].attempts = @ + 1]
             ELSE op
  /\ UNCHANGED <<row, nextId>>

-----------------------------------------------------------------------------
(* Resolving: the person decides a conflict.  resolve_conflict finds it by *)
(* the local row: a conflict whose row is gone cannot be named.            *)

\* ConflictChoice::KeepLocal
KeepLocal(o) ==
  /\ Stored(o) /\ InConflict(o)
  /\ op[o].srvEtag # NoEtag
  /\ op' = [op EXCEPT ![o].base = op[o].srvEtag,
                      ![o].srvEtag = NoEtag, ![o].srvRaw = NoContent,
                      ![o].state = "ready", ![o].attempts = 0,
                      ![o].rev = @ + 1]
  /\ UNCHANGED <<row, nextId>>

\* ConflictChoice::TakeServer: only the raw text and the ETag are written; the
\* index and the occurrences stay as they were.
TakeServer(o) ==
  /\ Stored(o) /\ InConflict(o)
  /\ op[o].srvRaw # NoContent
  /\ row' = [row EXCEPT ![o].raw = op[o].srvRaw, ![o].etag = op[o].srvEtag,
                        ![o].mark = "none"]
  /\ op' = [op EXCEPT ![o] = NoOp]
  /\ UNCHANGED nextId

-----------------------------------------------------------------------------
(* Downloading: a batch names, for some objects, what the server said.     *)

NoEntry == [act |-> "none", etag |-> NoEtag, raw |-> NoContent]
Entry   == [act : {"none", "delete", "upsert"}, etag : Nat,
            raw : Text]

\* A delete skips nothing.
MutantDownloaded(r, e) ==
  CASE e.act = "delete" -> NoRow
    [] e.act = "upsert" /\ r.mark = "none" ->
         [raw |-> e.raw, derived |-> e.raw, etag |-> e.etag, mark |-> "none"]
    [] OTHER -> r

\* The marks shield what has not been confirmed: a delete skips only a pending
\* put, an upsert skips any mark.
Downloaded(r, e) ==
  CASE e.act = "delete" /\ r.mark # "put"  -> NoRow
    [] e.act = "upsert" /\ r.mark = "none" ->
         [raw |-> e.raw, derived |-> e.raw, etag |-> e.etag, mark |-> "none"]
    [] OTHER -> r

\* apply_calendar_objects
ApplyObjects(batch) ==
  /\ row' = [o \in Obj |-> Downloaded(row[o], batch[o])]
  /\ UNCHANGED <<op, nextId>>

-----------------------------------------------------------------------------
(* What the rest of the program relies on.                                 *)

\* A marked row has the live operation that will clear its mark: without it the
\* download would skip the object for ever.
MarkedRowHasOp == \A o \in Obj : row[o].mark # "none" => op[o].kind = row[o].mark

\* While an edit waits, the person sees it: its row is there, marked, with its
\* text, whatever the download brought in the meantime.
PendingEditIsShown ==
  \A o \in Obj : op[o].kind = "put" =>
    /\ row[o].mark = "put"
    /\ row[o].raw = op[o].payload
    /\ row[o].raw # NoContent

\* The server copy is of the operation's own revision: an operation on its way
\* out carries none (the comment of insert_pending_op).
CopyOnlyInConflict == \A o \in Obj : HasCopy(op[o]) => op[o].state = "conflict"
=============================================================================
