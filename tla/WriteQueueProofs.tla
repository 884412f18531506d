-------------------------- MODULE WriteQueueProofs --------------------------
(***************************************************************************)
(* What the transactions of the write queue preserve, whoever calls them   *)
(* and in whatever order.                                                  *)
(***************************************************************************)
EXTENDS WriteQueue, TLAPS

\* A snapshot of an operation that was in the queue.
Taken == {s \in Snapshot : s.op.id # 0}

\* Any transaction, with any arguments of its type.
QueueStep ==
  \/ \E o \in Obj, base \in Nat :
       \/ \E raw \in Content : EnqueuePut(o, raw, base)
       \/ EnqueueDelete(o, base)
  \/ \E s \in Taken :
       \/ \E etag \in Nat : CompletePut(s, etag)
       \/ CompleteDelete(s)
       \/ MarkConflict(s)
       \/ RetryLater(s)
       \/ \E etag \in Nat, raw \in Text : StoreServerCopy(s, etag, raw)
       \/ CountConflictFetchAttempt(s)
  \/ \E o \in Obj : KeepLocal(o) \/ TakeServer(o)
  \/ \E batch \in [Obj -> Entry] : ApplyObjects(batch)

\* There is nothing but a row and its mark, an operation and its identity: what
\* is absent is absent whole, what is queued has an id of its own.
RowShape == \A o \in Obj : ~Stored(o) => row[o].mark = "none"
OpShape  == \A o \in Obj :
              /\ ~Queued(o) => op[o] = NoOp
              /\ Queued(o) => /\ op[o].id \in 1 .. nextId - 1
                              /\ op[o].state \in States
OwnIds   == \A o, p \in Obj :
              Queued(o) /\ Queued(p) /\ op[o].id = op[p].id => o = p

QueueInv ==
  /\ QueueTypeOK
  /\ RowShape
  /\ OpShape
  /\ OwnIds
  /\ MarkedRowHasOp
  /\ PendingEditIsShown
  /\ CopyOnlyInConflict

-----------------------------------------------------------------------------
LEMMA TextFacts ==
  /\ NoContent \in Text
  /\ NoContent \notin Content
  /\ Content \subseteq Text
BY DEF Text, Content, NoContent

LEMMA NothingIsTyped == NoRow \in Row /\ NoOp \in Operation
BY TextFacts DEF NoRow, NoOp, Row, Operation, NoEtag, Marks, Kinds, States

\* Every transaction keeps the tables well typed.
LEMMA QueueStepTypes == QueueTypeOK /\ QueueStep => QueueTypeOK'
<1> SUFFICES ASSUME QueueTypeOK, QueueStep PROVE QueueTypeOK'
  OBVIOUS
<1> USE TextFacts, NothingIsTyped
<1>1. ASSUME NEW o \in Obj, NEW base \in Nat, NEW raw \in Content, EnqueuePut(o, raw, base)
      PROVE QueueTypeOK'
  <2>1. row' \in [Obj -> Row]
    BY <1>1 DEF QueueTypeOK, EnqueuePut, Row, Marks
  <2>2. op' \in [Obj -> Operation] /\ nextId' \in Nat \ {0}
    BY <1>1 DEF QueueTypeOK, EnqueuePut, InsertPendingOp, Operation, Kinds, States, NoEtag
  <2> QED BY <2>1, <2>2 DEF QueueTypeOK
<1>2. ASSUME NEW o \in Obj, NEW base \in Nat, EnqueueDelete(o, base)
      PROVE QueueTypeOK'
  <2>1. row' \in [Obj -> Row]
    BY <1>2 DEF QueueTypeOK, EnqueueDelete, Row, Marks
  <2>2. op' \in [Obj -> Operation] /\ nextId' \in Nat \ {0}
    BY <1>2 DEF QueueTypeOK, EnqueueDelete, InsertPendingOp, Operation, Kinds, States, NoEtag
  <2> QED BY <2>1, <2>2 DEF QueueTypeOK
<1>3. ASSUME NEW s \in Taken, NEW etag \in Nat, CompletePut(s, etag)
      PROVE QueueTypeOK'
  BY <1>3 DEF QueueTypeOK, CompletePut, Row, Marks, Taken, Snapshot
<1>4. ASSUME NEW s \in Taken, CompleteDelete(s) PROVE QueueTypeOK'
  BY <1>4 DEF QueueTypeOK, CompleteDelete, Taken, Snapshot
<1>5. ASSUME NEW s \in Taken, \/ MarkConflict(s) \/ RetryLater(s)
                                 \/ CountConflictFetchAttempt(s)
      PROVE QueueTypeOK'
  BY <1>5 DEF QueueTypeOK, MarkConflict, RetryLater, CountConflictFetchAttempt,
              Operation, States, Taken, Snapshot
<1>6. ASSUME NEW s \in Taken, NEW etag \in Nat, NEW raw \in Text,
             StoreServerCopy(s, etag, raw)
      PROVE QueueTypeOK'
  BY <1>6 DEF QueueTypeOK, StoreServerCopy, Operation, Taken, Snapshot
<1>7. ASSUME NEW o \in Obj, KeepLocal(o) PROVE QueueTypeOK'
  BY <1>7 DEF QueueTypeOK, KeepLocal, Operation, States, NoEtag
<1>8. ASSUME NEW o \in Obj, TakeServer(o) PROVE QueueTypeOK'
  <2>1. row' \in [Obj -> Row]
    BY <1>8 DEF QueueTypeOK, TakeServer, Row, Marks, Operation
  <2>2. op' \in [Obj -> Operation] /\ nextId' \in Nat \ {0}
    BY <1>8 DEF QueueTypeOK, TakeServer
  <2> QED BY <2>1, <2>2 DEF QueueTypeOK
<1>9. ASSUME NEW batch \in [Obj -> Entry], ApplyObjects(batch) PROVE QueueTypeOK'
  <2>1. ASSUME NEW o \in Obj PROVE Downloaded(row[o], batch[o]) \in Row
    BY <2>1 DEF QueueTypeOK, Downloaded, Entry, Row, Marks
  <2> QED BY <1>9, <2>1 DEF QueueTypeOK, ApplyObjects
<1> QED
  BY <1>1, <1>2, <1>3, <1>4, <1>5, <1>6, <1>7, <1>8, <1>9 DEF QueueStep

\* And everything else of QueueInv.  Each transaction touches one object, but for
\* ApplyObjects, which touches no operation.
LEMMA EnqueueKeepsInv ==
  ASSUME QueueInv, NEW o \in Obj, NEW base \in Nat, QueueTypeOK',
         \/ \E raw \in Content : EnqueuePut(o, raw, base)
         \/ EnqueueDelete(o, base)
  PROVE  QueueInv'
<1> USE TextFacts DEF QueueInv, QueueTypeOK
<1>1. \A p \in Obj \ {o} : row'[p] = row[p] /\ op'[p] = op[p]
  BY DEF EnqueuePut, EnqueueDelete, InsertPendingOp
<1>2. /\ op'[o].kind \in Kinds
      /\ op'[o].state = "ready"
      /\ ~HasCopy(op'[o])
      /\ op'[o].id = (IF Queued(o) THEN op[o].id ELSE nextId)
      /\ nextId' = (IF Queued(o) THEN nextId ELSE nextId + 1)
  BY DEF EnqueuePut, EnqueueDelete, InsertPendingOp, Kinds, HasCopy, NoEtag
<1>3. nextId \in Nat \ {0} /\ \A p \in Obj : Queued(p) => op[p].id \in 1 .. nextId - 1
  BY DEF OpShape
<1>4. Queued(o)'
  BY <1>2 DEF Queued, Kinds
<1>5. RowShape'
  BY <1>1 DEF RowShape, EnqueuePut, EnqueueDelete, Stored, Row
<1>6. OpShape'
  <2>1. CASE Queued(o)
    BY <2>1, <1>1, <1>2, <1>3, <1>4 DEF OpShape, Queued, States
  <2>2. CASE ~Queued(o)
    BY <2>2, <1>1, <1>2, <1>3, <1>4 DEF OpShape, Queued, States
  <2> QED BY <2>1, <2>2
<1>7. OwnIds'
  BY <1>1, <1>2, <1>3 DEF OwnIds, Queued
<1>8. MarkedRowHasOp'
  BY <1>1 DEF MarkedRowHasOp, EnqueuePut, EnqueueDelete, InsertPendingOp, RowShape, Stored, Row
<1>9. PendingEditIsShown'
  BY <1>1 DEF PendingEditIsShown, EnqueuePut, EnqueueDelete, InsertPendingOp
<1>10. CopyOnlyInConflict'
  BY <1>1, <1>2 DEF CopyOnlyInConflict
<1> QED BY <1>5, <1>6, <1>7, <1>8, <1>9, <1>10 DEF QueueInv

\* Transactions that take an operation out of the queue.
LEMMA LeaveKeepsInv ==
  ASSUME QueueInv, NEW o \in Obj, QueueTypeOK',
         op' = [op EXCEPT ![o] = NoOp], nextId' = nextId,
         \A p \in Obj \ {o} : row'[p] = row[p],
         row'[o].mark = "none"
  PROVE  QueueInv'
<1> USE TextFacts DEF QueueInv, QueueTypeOK
<1>1. /\ \A p \in Obj \ {o} : op'[p] = op[p]
      /\ op'[o] = NoOp
  OBVIOUS
<1>2. RowShape'
  BY DEF RowShape, Stored
<1>3. OpShape'
  BY <1>1 DEF OpShape, Queued, NoOp
<1>4. OwnIds'
  BY <1>1 DEF OwnIds, Queued, NoOp
<1>5. MarkedRowHasOp'
  BY <1>1 DEF MarkedRowHasOp
<1>6. PendingEditIsShown'
  BY <1>1 DEF PendingEditIsShown, NoOp
<1>7. CopyOnlyInConflict'
  BY <1>1 DEF CopyOnlyInConflict, HasCopy, NoOp, NoEtag
<1> QED BY <1>2, <1>3, <1>4, <1>5, <1>6, <1>7 DEF QueueInv

\* A change of what is counted and noted of one queued operation.
Note(o) ==
  /\ o \in Obj
  /\ UNCHANGED <<row, nextId>>
  /\ \A p \in Obj \ {o} : op'[p] = op[p]
  /\ op'[o].id = op[o].id
  /\ op'[o].kind = op[o].kind
  /\ op'[o].payload = op[o].payload
  /\ Queued(o) /\ op'[o].state \in States
  /\ HasCopy(op'[o]) => op'[o].state = "conflict"

\* What the round counts and notes of the operation it took.
LEMMA NotesAreNotes ==
  ASSUME QueueInv, NEW s \in Taken,
         \/ MarkConflict(s) \/ RetryLater(s) \/ CountConflictFetchAttempt(s)
         \/ \E etag \in Nat, raw \in Text : StoreServerCopy(s, etag, raw)
  PROVE  Note(s.obj) \/ UNCHANGED queueVars
<1>1. s.obj \in Obj /\ op[s.obj] \in Operation /\ op \in [Obj -> Operation]
  BY DEF Taken, Snapshot, QueueInv, QueueTypeOK
<1>2. Live(s) => Queued(s.obj) /\ op[s.obj].state \in States
  BY <1>1 DEF Live, Taken, QueueInv, OpShape, NoOp
<1>3. HasCopy(op[s.obj]) => op[s.obj].state = "conflict"
  BY <1>1 DEF QueueInv, CopyOnlyInConflict
<1>4. CASE MarkConflict(s)
  BY <1>1, <1>2, <1>3, <1>4 DEF MarkConflict, Note, Operation, States, HasCopy, queueVars
<1>5. CASE RetryLater(s)
  BY <1>1, <1>2, <1>3, <1>5 DEF RetryLater, Note, Operation, HasCopy, queueVars
<1>6. CASE CountConflictFetchAttempt(s)
  BY <1>1, <1>2, <1>3, <1>6 DEF CountConflictFetchAttempt, Note, Operation, HasCopy, queueVars
<1>7. ASSUME NEW etag \in Nat, NEW raw \in Text, StoreServerCopy(s, etag, raw)
      PROVE  Note(s.obj) \/ UNCHANGED queueVars
  BY <1>1, <1>2, <1>3, <1>7 DEF StoreServerCopy, Note, Operation, HasCopy, queueVars
<1> QED BY <1>4, <1>5, <1>6, <1>7

\* Transactions that change what the round and the person count and note of an
\* operation, and leave the rows.
LEMMA NoteKeepsInv ==
  ASSUME QueueInv, NEW o, QueueTypeOK', Note(o)
  PROVE  QueueInv'
<1> USE DEF QueueInv, QueueTypeOK, Note
<1>1. RowShape'
  BY DEF RowShape, Stored
<1>2. OpShape'
  BY DEF OpShape, Queued
<1>3. OwnIds'
  BY DEF OwnIds, Queued
<1>4. MarkedRowHasOp'
  BY DEF MarkedRowHasOp
<1>5. PendingEditIsShown'
  BY DEF PendingEditIsShown
<1>6. CopyOnlyInConflict'
  BY DEF CopyOnlyInConflict
<1> QED BY <1>1, <1>2, <1>3, <1>4, <1>5, <1>6 DEF QueueInv

\* ApplyObjects touches neither a row marked as an edit nor an operation.
LEMMA ApplyKeepsInv ==
  ASSUME QueueInv, QueueTypeOK', NEW batch \in [Obj -> Entry], ApplyObjects(batch)
  PROVE  QueueInv'
<1> USE TextFacts DEF QueueInv, QueueTypeOK
<1>1. \A o \in Obj : /\ row'[o] = Downloaded(row[o], batch[o])
                     /\ row[o] \in Row /\ batch[o] \in Entry
  BY DEF ApplyObjects
<1>2. \A o \in Obj : \/ row'[o] = row[o]
                     \/ row'[o].mark = "none" /\ row[o].mark # "put"
  BY <1>1 DEF Downloaded, NoRow
<1>3. UNCHANGED <<op, nextId>>
  BY DEF ApplyObjects
<1>4. RowShape'
  BY <1>2 DEF RowShape, Stored
<1>5. OpShape' /\ OwnIds' /\ CopyOnlyInConflict'
  BY <1>3 DEF OpShape, OwnIds, CopyOnlyInConflict, Queued
<1>6. MarkedRowHasOp'
  BY <1>2, <1>3 DEF MarkedRowHasOp
<1>7. PendingEditIsShown'
  BY <1>2, <1>3 DEF PendingEditIsShown
<1> QED BY <1>4, <1>5, <1>6, <1>7 DEF QueueInv

\* The queue keeps its invariant whatever transaction is run.
THEOREM QueueInvIsKept == QueueInv /\ (QueueStep \/ UNCHANGED queueVars) => QueueInv'
<1> SUFFICES ASSUME QueueInv, QueueStep \/ UNCHANGED queueVars PROVE QueueInv'
  OBVIOUS
<1>1. CASE UNCHANGED queueVars
  BY <1>1 DEF queueVars, QueueInv, QueueTypeOK, RowShape, OpShape, OwnIds, MarkedRowHasOp,
              PendingEditIsShown, CopyOnlyInConflict, Stored, Queued
<1>2. CASE QueueStep
  <2>0. QueueTypeOK /\ QueueTypeOK'
    BY <1>2, QueueStepTypes DEF QueueInv
  <2> USE <2>0
  <2>1. ASSUME NEW o \in Obj, NEW base \in Nat,
               \/ \E raw \in Content : EnqueuePut(o, raw, base)
               \/ EnqueueDelete(o, base)
        PROVE  QueueInv'
    BY <2>1, EnqueueKeepsInv
  <2>2. ASSUME NEW s \in Taken, NEW etag \in Nat, CompletePut(s, etag)
        PROVE  QueueInv'
    <3>1. CASE Live(s)
      <4>0. s.obj \in Obj
        BY DEF Taken, Snapshot
      <4>1. row'[s.obj].mark = "none"
        <5>1. CASE Stored(s.obj)
          BY <2>2, <3>1, <4>0, <5>1 DEF CompletePut, QueueTypeOK, Row
        <5>2. CASE ~Stored(s.obj)
          BY <2>2, <3>1, <4>0, <5>2 DEF CompletePut, QueueInv, RowShape
        <5> QED BY <5>1, <5>2
      <4> QED BY <2>2, <3>1, <4>1, LeaveKeepsInv
              DEF CompletePut, Taken, Snapshot, QueueTypeOK
    <3>2. CASE ~Live(s)
      BY <2>2, <3>2, <1>1 DEF CompletePut, queueVars
    <3> QED BY <3>1, <3>2
  <2>3. ASSUME NEW s \in Taken, CompleteDelete(s) PROVE QueueInv'
    <3>1. CASE Live(s)
      BY <2>3, <3>1, LeaveKeepsInv DEF CompleteDelete, Taken, Snapshot, QueueTypeOK, NoRow
    <3>2. CASE ~Live(s)
      BY <2>3, <3>2, <1>1 DEF CompleteDelete, queueVars
    <3> QED BY <3>1, <3>2
  <2>4. ASSUME NEW s \in Taken,
               \/ MarkConflict(s) \/ RetryLater(s) \/ CountConflictFetchAttempt(s)
               \/ \E etag \in Nat, raw \in Text : StoreServerCopy(s, etag, raw)
        PROVE  QueueInv'
    BY <2>4, NotesAreNotes, NoteKeepsInv, <1>1 DEF Note
  <2>5. ASSUME NEW o \in Obj, KeepLocal(o) PROVE QueueInv'
    <3>1. /\ \A p \in Obj \ {o} : op'[p] = op[p]
          /\ op'[o].id = op[o].id
          /\ op'[o].kind = op[o].kind
          /\ op'[o].payload = op[o].payload
          /\ op'[o].state = "ready"
          /\ op'[o].srvEtag = NoEtag /\ op'[o].srvRaw = NoContent
      BY <2>5 DEF KeepLocal, QueueTypeOK, Operation
    <3> QED BY <2>5, <3>1, NoteKeepsInv DEF KeepLocal, InConflict, States, HasCopy, Note
  <2>6. ASSUME NEW o \in Obj, TakeServer(o) PROVE QueueInv'
    <3>1. row'[o].mark = "none" /\ \A p \in Obj \ {o} : row'[p] = row[p]
      BY <2>6 DEF TakeServer, QueueTypeOK, Row
    <3> QED BY <2>6, <3>1, LeaveKeepsInv DEF TakeServer
  <2>7. ASSUME NEW batch \in [Obj -> Entry], ApplyObjects(batch) PROVE QueueInv'
    BY <2>7, ApplyKeepsInv
  <2> QED BY <1>2, <2>1, <2>2, <2>3, <2>4, <2>5, <2>6, <2>7 DEF QueueStep
<1> QED BY <1>1, <1>2
=============================================================================
