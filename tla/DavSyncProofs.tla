---------------------------- MODULE DavSyncProofs ----------------------------
(***************************************************************************)
(* Theorems of DavSync, for every collection, every bound and every set of *)
(* things the person does.                                                 *)
(***************************************************************************)
EXTENDS DavSync, WriteQueueProofs

LEMMA SourceFacts ==
  /\ InitStored \subseteq Obj
  /\ NoEtag \in Nat
  /\ <<"elsewhere", 1>> \in Content
BY DavSyncAssumption DEF NoEtag, Content

-----------------------------------------------------------------------------
(* What the round holds of the queue is what it read there.                *)

SnapshotsTaken ==
  \A s \in queue : s.op.id \in 1 .. nextId - 1 /\ s.op.kind \in Kinds

\* Every step of the system is, for the queue, one of its transactions.
LEMMA NextIsQueueStep ==
  ASSUME TypeOK, SnapshotsTaken, Next
  PROVE  QueueStep \/ UNCHANGED queueVars
<1> USE DEF TypeOK, RoundTypeOK
<1>1. queue \subseteq Taken
  BY DEF SnapshotsTaken, Taken
<1>2. ASSUME NEW o \in Obj, Person(o) PROVE QueueStep
  <2>1. \A base \in IfMatch(o) : base \in Nat
    BY DEF IfMatch, QueueTypeOK, Row, Operation
  <2>2. <<"here", edits + 1>> \in Content
    BY DEF Content
  <2>3. CASE Create(o)
    <3>1. EnqueuePut(o, <<"here", edits + 1>>, NoEtag) /\ NoEtag \in Nat
      BY <2>3, SourceFacts DEF Create
    <3> QED BY <2>2, <3>1 DEF QueueStep
  <2>4. CASE EditObject(o)
    BY <2>1, <2>2, <2>4 DEF EditObject, QueueStep
  <2>5. CASE Delete(o)
    BY <2>1, <2>5 DEF Delete, QueueStep
  <2>6. CASE BlindDelete(o)
    BY <2>6, SourceFacts DEF BlindDelete, QueueStep
  <2>7. CASE ResolveKeepLocal(o) \/ ResolveTakeServer(o)
    BY <2>7 DEF ResolveKeepLocal, ResolveTakeServer, QueueStep
  <2> QED BY <1>2, <2>3, <2>4, <2>5, <2>6, <2>7 DEF Person
<1>3. ASSUME NEW o \in Obj, Remote(o) PROVE UNCHANGED queueVars
  BY <1>3 DEF Remote
<1>4. CASE Replay
  <2>1. CASE StartRound \/ EndReplay
    BY <2>1 DEF StartRound, EndReplay
  <2>2. ASSUME NEW s \in queue,
               \/ SkipConflict(s) \/ TakeConflict(s) \/ Send(s)
               \/ ServerAnswers(s) \/ FetchServerCopy(s)
        PROVE  UNCHANGED queueVars
    BY <2>2 DEF SkipConflict, TakeConflict, Send, ServerAnswers, FetchServerCopy
  <2>3. ASSUME NEW s \in queue, CloseUnsent(s) PROVE QueueStep
    BY <1>1, <2>3 DEF CloseUnsent, QueueStep
  <2>4. ASSUME NEW s \in queue, Close(s) PROVE QueueStep
    <3>1. answer.etag \in Nat
      BY DEF Answer
    <3> QED BY <1>1, <2>4, <3>1 DEF Close, RetryOrEscalate, QueueStep
  <2>5. ASSUME NEW s \in queue, CaptureServerCopy(s) PROVE QueueStep
    <3>1. answer.etag \in Nat /\ answer.raw \in Text
      BY DEF Answer
    <3> QED BY <1>1, <2>5, <3>1 DEF CaptureServerCopy, QueueStep
  <2> QED BY <1>4, <2>1, <2>2, <2>3, <2>4, <2>5 DEF Replay
<1>5. CASE Download
  <2>1. CASE WriteBatch \/ WriteLast
    BY <2>1 DEF WriteBatch, WriteLast, QueueStep
  <2>2. CASE List \/ ReadLocal \/ Report \/ PushDelete \/ Fetch \/ Settle
    BY <2>2 DEF List, ReadLocal, Report, PushDelete, Fetch, Settle
  <2> QED BY <1>5, <2>1, <2>2 DEF Download
<1>6. CASE RoundFails \/ Restart
  BY <1>6 DEF RoundFails, Restart
<1> QED BY <1>2, <1>3, <1>4, <1>5, <1>6 DEF Next

\* And for the server, nothing or one change of one object.
LEMMA NextKeepsServerType ==
  ASSUME TypeOK, Next
  PROVE  ServerTypeOK'
<1> USE DEF TypeOK, RoundTypeOK, ServerTypeOK
<1>1. ASSUME NEW o \in Obj, NEW raw \in Text, Write(o, raw) PROVE ServerTypeOK'
  BY <1>1 DEF Write, Resource
<1>2. CASE UNCHANGED serverVars
  BY <1>2 DEF serverVars
<1>3. ASSUME NEW o \in Obj, RemoteWrite(o) \/ Remove(o) PROVE ServerTypeOK'
  <2>1. <<"elsewhere", srvRev + 1>> \in Content
    BY DEF Content
  <2> QED BY <1>1, <1>3, <2>1, TextFacts DEF RemoteWrite, Remove
<1>4. ASSUME NEW o \in Obj, Person(o) PROVE UNCHANGED serverVars
  BY <1>4 DEF Person, Edit, Create, EditObject, Delete, BlindDelete, ResolveKeepLocal,
              ResolveTakeServer
<1>5. ASSUME NEW o \in Obj, Remote(o) PROVE ServerTypeOK'
  BY <1>3, <1>5 DEF Remote, RemoteDelete
<1>6. CASE Replay
  <2>1. ASSUME NEW s \in queue, ServerAnswers(s) PROVE ServerTypeOK'
    <3>1. s.obj \in Obj /\ s.op.payload \in Text
      BY DEF Snapshot, Operation
    <3>2. CASE PutArrives(s)
      BY <3>1, <3>2, <1>1, <1>3 DEF PutArrives
    <3>3. CASE DeleteArrives(s)
      BY <3>1, <3>3, <1>2, <1>3 DEF DeleteArrives
    <3>4. CASE PreconditionFails(s) \/ PermanentError(s)
      BY <3>4, <1>2 DEF PreconditionFails, PermanentError, serverVars
    <3>5. CASE AnswerLost(s)
      BY <3>1, <3>5, <1>1, <1>2, <1>3 DEF AnswerLost, serverVars
    <3> QED BY <2>1, <3>2, <3>3, <3>4, <3>5 DEF ServerAnswers
  <2>2. ASSUME NEW s \in queue,
               \/ SkipConflict(s) \/ TakeConflict(s) \/ CloseUnsent(s) \/ Send(s)
               \/ Close(s) \/ FetchServerCopy(s) \/ CaptureServerCopy(s)
        PROVE  UNCHANGED serverVars
    BY <2>2 DEF SkipConflict, TakeConflict, CloseUnsent, Send, Close, FetchServerCopy,
                CaptureServerCopy
  <2>3. CASE StartRound \/ EndReplay
    BY <1>2, <2>3 DEF StartRound, EndReplay
  <2> QED BY <1>2, <1>6, <2>1, <2>2, <2>3 DEF Replay
<1>7. CASE Download
  BY <1>2, <1>7 DEF Download, List, ReadLocal, Report, PushDelete, Fetch, WriteBatch, Settle,
               WriteLast, DownloadFrame
<1>8. CASE RoundFails \/ Restart
  BY <1>2, <1>8 DEF RoundFails, Restart
<1> QED BY <1>2, <1>4, <1>5, <1>6, <1>7, <1>8 DEF Next

-----------------------------------------------------------------------------
(* Types.                                                                  *)

RestTypeOK ==
  /\ RoundTypeOK
  /\ token \in Nat /\ ctag \in Nat
  /\ streak \in Nat
  /\ acted \in [Obj -> [id : Nat, rev : Nat]]
  /\ gaveUp \subseteq Obj
  /\ edits \in Nat /\ remotes \in Nat /\ faults \in Nat

LEMMA NothingOfARoundIsTyped ==
  /\ NoAnswer \in Answer
  /\ NoEntry \in Entry
  /\ NoBatch \in [Obj -> Entry]
  /\ NoLocal \in [Obj -> [has : BOOLEAN, etag : Nat]]
  /\ NoPlan \in [delete : SUBSET Obj, fetch : SUBSET Obj, token : Nat]
<1>1. NoAnswer \in Answer
  BY TextFacts DEF NoAnswer, Says, Answer, AnswerKinds, NoEtag
<1>2. NoEntry \in Entry
  BY TextFacts DEF NoEntry, Entry, NoEtag
<1> QED BY <1>1, <1>2 DEF NoBatch, NoLocal, NoPlan, NoEtag

LEMMA AnswersAreTyped ==
  ASSUME NEW k \in AnswerKinds, NEW e \in Nat, NEW raw \in Text
  PROVE  Says(k, e, raw) \in Answer
BY DEF Says, Answer

\* Whatever ends a round leaves it typed.
LEMMA RoundOverIsTyped == RoundOver => RoundTypeOK'
<1> SUFFICES ASSUME RoundOver PROVE RoundTypeOK'
  OBVIOUS
<1>1. answer' \in Answer /\ batch' \in [Obj -> Entry]
  BY NothingOfARoundIsTyped DEF RoundOver
<1>2. /\ local' \in [Obj -> [has : BOOLEAN, etag : Nat]]
      /\ plan' \in [delete : SUBSET Obj, fetch : SUBSET Obj, token : Nat]
  BY NothingOfARoundIsTyped DEF RoundOver
<1>3. /\ phase' \in Phases /\ queue' \subseteq Snapshot /\ listed' \in Nat
      /\ missing' \subseteq Obj /\ hold' \in BOOLEAN
  BY DEF RoundOver, Go, Phases
<1> QED BY <1>1, <1>2, <1>3 DEF RoundTypeOK

LEMMA ReplayKeepsType ==
  ASSUME TypeOK, Replay
  PROVE  RestTypeOK'
<1> USE NothingOfARoundIsTyped DEF TypeOK, RoundTypeOK, RestTypeOK, Go, Phases, ReplayFrame
<1>0. NoEtag \in Nat /\ srvRev + 1 \in Nat
  BY DEF NoEtag, ServerTypeOK
<1>1. CASE StartRound
  <2>1. queue' \subseteq Snapshot
    BY <1>1 DEF StartRound, Snapshot, QueueTypeOK
  <2> QED BY <1>1, <2>1 DEF StartRound
<1>2. CASE EndReplay
  BY <1>2 DEF EndReplay
<1>3. ASSUME NEW s \in queue, SkipConflict(s) \/ TakeConflict(s) \/ CloseUnsent(s) \/ Send(s)
      PROVE  RestTypeOK'
  BY <1>3 DEF SkipConflict, TakeConflict, CloseUnsent, Send
<1>4. ASSUME NEW s \in queue, ServerAnswers(s) PROVE RestTypeOK'
  <2>1. answer' \in Answer
    <3>1. \A k \in AnswerKinds, e \in Nat : Says(k, e, NoContent) \in Answer
      BY AnswersAreTyped, TextFacts
    <3>2. {"etag", "refetch", "done", "clash", "retry", "fatal"} \subseteq AnswerKinds
      BY DEF AnswerKinds
    <3>3. \E k \in AnswerKinds, e \in Nat : answer' = Says(k, e, NoContent)
      <4>1. CASE PutArrives(s)
        BY <1>0, <3>2, <4>1 DEF PutArrives
      <4>2. CASE DeleteArrives(s) \/ PreconditionFails(s) \/ AnswerLost(s) \/ PermanentError(s)
        BY <1>0, <3>2, <4>2 DEF DeleteArrives, PreconditionFails, AnswerLost, PermanentError
      <4> QED BY <1>4, <4>1, <4>2 DEF ServerAnswers
    <3> QED BY <3>1, <3>3
  <2>2. acted' \in [Obj -> [id : Nat, rev : Nat]]
    <3>1. s.op.id \in Nat /\ s.op.rev \in Nat
      BY DEF Snapshot, Operation
    <3>2. CASE Record(s)
      BY <3>1, <3>2 DEF Record
    <3>3. CASE UNCHANGED acted
      BY <3>3
    <3> QED BY <1>4, <3>2, <3>3
            DEF ServerAnswers, PutArrives, DeleteArrives, PreconditionFails, AnswerLost,
                PermanentError
  <2>3. faults' \in Nat
    BY <1>4 DEF ServerAnswers, PutArrives, DeleteArrives, PreconditionFails, AnswerLost,
                PermanentError, Fault
  <2> QED BY <1>4, <2>1, <2>2, <2>3 DEF ServerAnswers
<1>5. ASSUME NEW s \in queue, Close(s) \/ CaptureServerCopy(s) PROVE RestTypeOK'
  BY <1>5 DEF Close, CaptureServerCopy
<1>6. ASSUME NEW s \in queue, FetchServerCopy(s) PROVE RestTypeOK'
  <2>1. srv[s.obj].chg \in Nat /\ srv[s.obj].raw \in Text
    BY DEF Snapshot, ServerTypeOK, Resource
  <2>2. answer' \in Answer
    <3>1. /\ Says("copy", srv[s.obj].chg, srv[s.obj].raw) \in Answer
          /\ Says("nocopy", NoEtag, NoContent) \in Answer
      BY <1>0, <2>1, AnswersAreTyped, TextFacts DEF AnswerKinds
    <3> QED BY <1>6, <3>1 DEF FetchServerCopy
  <2> QED BY <1>6, <2>2 DEF FetchServerCopy, Fault
<1> QED BY <1>1, <1>2, <1>3, <1>4, <1>5, <1>6 DEF Replay

LEMMA DownloadKeepsType ==
  ASSUME TypeOK, Download
  PROVE  RestTypeOK'
<1> USE NothingOfARoundIsTyped, RoundOverIsTyped
    DEF TypeOK, RestTypeOK, DownloadFrame
<1>1. CASE List
  <2>1. CASE RoundOver
    BY <1>1, <2>1 DEF List, bounds
  <2>2. CASE Go("local") /\ listed' = srvRev
    BY <1>1, <2>2, SMTT(30) DEF List, bounds, RoundTypeOK, Go, Phases, ServerTypeOK, RoundOver
  <2> QED BY <1>1, <2>1, <2>2 DEF List
<1>2. CASE ReadLocal
  <2>1. local' \in [Obj -> [has : BOOLEAN, etag : Nat]]
    BY <1>2 DEF ReadLocal, Stored, QueueTypeOK, Row
  <2> QED BY <1>2, <2>1 DEF ReadLocal, RoundTypeOK, Go, Phases
<1>3. CASE Report
  <2>1. plan' \in [delete : SUBSET Obj, fetch : SUBSET Obj, token : Nat]
    BY <1>3 DEF Report, PlanDelta, PlanFull, PlanByEtag, ServerTypeOK, AllHeld,
                ChangedSince, ToFetch
  <2> QED BY <1>3, <2>1 DEF Report, RoundTypeOK, Go, Phases
<1>4. CASE PushDelete
  <2>1. PICK o \in plan.delete :
          /\ batch' = [batch EXCEPT ![o] = [NoEntry EXCEPT !.act = "delete"]]
          /\ plan' = [plan EXCEPT !.delete = @ \ {o}]
    BY <1>4 DEF PushDelete
  <2>2. [NoEntry EXCEPT !.act = "delete"] \in Entry
    BY TextFacts DEF NoEntry, Entry, NoEtag
  <2> QED BY <1>4, <2>1, <2>2 DEF PushDelete, RoundTypeOK
<1>5. CASE Fetch
  <2>1. PICK o \in plan.fetch :
          /\ \/ /\ Held(o)
                /\ batch' = [batch EXCEPT ![o] =
                     [act |-> "upsert", etag |-> srv[o].chg, raw |-> srv[o].raw]]
                /\ UNCHANGED <<missing, faults>>
             \/ ~Held(o) /\ missing' = missing \cup {o} /\ UNCHANGED <<batch, faults>>
             \/ Fault /\ missing' = missing \cup {o} /\ UNCHANGED batch
          /\ plan' = [plan EXCEPT !.fetch = @ \ {o}]
    BY <1>5 DEF Fetch
  <2>2. o \in Obj
    BY <2>1 DEF RoundTypeOK
  <2>3. [act |-> "upsert", etag |-> srv[o].chg, raw |-> srv[o].raw] \in Entry
    BY <2>2 DEF Entry, ServerTypeOK, Resource
  <2>4. batch' \in [Obj -> Entry] /\ missing' \subseteq Obj
    BY <2>1, <2>2, <2>3 DEF RoundTypeOK
  <2>5. plan' \in [delete : SUBSET Obj, fetch : SUBSET Obj, token : Nat]
    BY <2>1 DEF RoundTypeOK
  <2>6. faults' \in Nat
    BY <2>1 DEF Fault
  <2> QED BY <1>5, <2>4, <2>5, <2>6 DEF Fetch, RoundTypeOK
<1>6. CASE WriteBatch
  BY <1>6 DEF WriteBatch, RoundTypeOK
<1>7. CASE Settle
  BY <1>7 DEF Settle, RoundTypeOK, Go, Phases
<1>8. CASE WriteLast
  BY <1>8 DEF WriteLast, bounds, RoundTypeOK
<1> QED BY <1>1, <1>2, <1>3, <1>4, <1>5, <1>6, <1>7, <1>8 DEF Download

LEMMA NextKeepsRestType ==
  ASSUME TypeOK, Next
  PROVE  RestTypeOK'
<1>1. CASE Replay
  BY <1>1, ReplayKeepsType
<1>2. CASE Download
  BY <1>2, DownloadKeepsType
<1>3. ASSUME NEW o \in Obj, Person(o) PROVE RestTypeOK'
  BY <1>3 DEF TypeOK, RestTypeOK, RoundTypeOK, roundVars, Person, Edit, Create, EditObject,
              Delete, BlindDelete, ResolveKeepLocal, ResolveTakeServer
<1>4. ASSUME NEW o \in Obj, Remote(o) PROVE RestTypeOK'
  BY <1>4 DEF TypeOK, RestTypeOK, RoundTypeOK, roundVars, Remote
<1>5. CASE RoundFails \/ Restart
  BY <1>5, RoundOverIsTyped DEF TypeOK, RestTypeOK, RoundFails, Restart, Fault
<1> QED BY <1>1, <1>2, <1>3, <1>4, <1>5 DEF Next

-----------------------------------------------------------------------------
(* What holds from the start and every step keeps, whatever is written.    *)

Sane == TypeOK /\ QueueInv /\ SnapshotsTaken

LEMMA InitIsSane == Init => Sane
<1> SUFFICES ASSUME Init PROVE Sane
  OBVIOUS
<1> USE TextFacts, NothingIsTyped, NothingOfARoundIsTyped, SourceFacts
<1>1. QueueTypeOK
  <2>1. [raw |-> <<"elsewhere", 1>>, mark |-> "none",
         derived |-> <<"elsewhere", 1>>, etag |-> 1] \in Row
    BY DEF Row, Marks
  <2> QED BY <2>1 DEF Init, QueueInit, QueueTypeOK
<1>2. ServerTypeOK
  <2>1. /\ [raw |-> <<"elsewhere", 1>>, chg |-> 1] \in Resource
        /\ [raw |-> NoContent, chg |-> 0] \in Resource
    BY DEF Resource
  <2> QED BY <2>1 DEF Init, ServerInit, ServerTypeOK
<1>3. RoundTypeOK
  BY DEF Init, RoundTypeOK, Phases
<1>4. TypeOK
  BY <1>1, <1>2, <1>3 DEF TypeOK, Init
<1>5. QueueInv
  <2>1. \A o \in Obj : op[o] = NoOp /\ row[o].mark = "none"
    BY DEF Init, QueueInit, NoRow
  <2> QED BY <1>1, <2>1 DEF QueueInv, RowShape, OpShape, OwnIds, MarkedRowHasOp,
              PendingEditIsShown, CopyOnlyInConflict, Stored, Queued, HasCopy, NoOp, NoEtag
<1>6. SnapshotsTaken
  BY DEF Init, SnapshotsTaken
<1> QED BY <1>4, <1>5, <1>6 DEF Sane

\* Ids are given out in order.
LEMMA IdsGrow ==
  ASSUME QueueTypeOK, QueueStep \/ UNCHANGED queueVars
  PROVE  nextId' \in {nextId, nextId + 1}
BY DEF QueueStep, queueVars, EnqueuePut, EnqueueDelete, InsertPendingOp, CompletePut,
       CompleteDelete, MarkConflict, RetryLater, StoreServerCopy,
       CountConflictFetchAttempt, KeepLocal, TakeServer, ApplyObjects

\* The round reads the queue, or goes through what it read.
LEMMA QueueShrinks ==
  ASSUME Next, ~StartRound
  PROVE  queue' \subseteq queue
<1>1. CASE Replay
  BY <1>1 DEF Replay, SkipConflict, TakeConflict, CloseUnsent, Send, ServerAnswers, Close,
              FetchServerCopy, CaptureServerCopy, EndReplay
<1>2. CASE Download
  BY <1>2 DEF Download, List, ReadLocal, Report, PushDelete, Fetch, WriteBatch, Settle,
              WriteLast, DownloadFrame, RoundOver
<1>3. ASSUME NEW o \in Obj, Person(o) \/ Remote(o) PROVE queue' = queue
  BY <1>3 DEF roundVars, Remote, Person, Edit, Create, EditObject, Delete, BlindDelete,
              ResolveKeepLocal, ResolveTakeServer
<1>4. CASE RoundFails \/ Restart
  BY <1>4 DEF RoundFails, Restart, RoundOver
<1> QED BY <1>1, <1>2, <1>3, <1>4 DEF Next

LEMMA NextIsSane == Sane /\ [Next]_vars => Sane'
<1> SUFFICES ASSUME Sane, [Next]_vars PROVE Sane'
  OBVIOUS
<1> USE DEF Sane
<1>1. CASE UNCHANGED vars
  BY <1>1 DEF vars, queueVars, serverVars, roundVars, bounds, TypeOK, QueueTypeOK, ServerTypeOK,
              RoundTypeOK, QueueInv, RowShape, OpShape, OwnIds, MarkedRowHasOp,
              PendingEditIsShown, CopyOnlyInConflict, SnapshotsTaken, Stored, Queued
<1>2. CASE Next
  <2>1. QueueStep \/ UNCHANGED queueVars
    BY <1>2, NextIsQueueStep
  <2>2. QueueInv'
    BY <2>1, QueueInvIsKept
  <2>3. TypeOK'
    BY <1>2, <2>2, NextKeepsServerType, NextKeepsRestType DEF QueueInv, TypeOK, RestTypeOK
  <2>4. SnapshotsTaken'
    <3>1. CASE StartRound
      <4>1. \A o \in Obj : Queued(o) => op[o].id \in 1 .. nextId - 1 /\ op[o].kind \in Kinds
        BY DEF QueueInv, OpShape, QueueTypeOK, Operation, Queued
      <4> QED BY <3>1, <4>1 DEF StartRound, SnapshotsTaken, queueVars
    <3>2. CASE ~StartRound
      <4>1. nextId \in Nat /\ nextId' \in {nextId, nextId + 1}
        BY <2>1, IdsGrow DEF QueueInv, QueueTypeOK
      <4>2. queue' \subseteq queue
        BY <1>2, <3>2, QueueShrinks
      <4> QED BY <4>1, <4>2 DEF SnapshotsTaken
    <3> QED BY <3>1, <3>2
  <2> QED BY <2>2, <2>3, <2>4
<1> QED BY <1>1, <1>2

LEMMA AlwaysSane == Spec => []Sane
BY InitIsSane, NextIsSane, PTL DEF Spec

\* Every variable keeps its type, for every collection and whatever the person,
\* the other clients and the failures do.
THEOREM TypeCorrect == Spec => []TypeOK
BY AlwaysSane, PTL DEF Sane

\* A marked row always has the operation that will clear its mark, and an edit
\* that waits is always shown, whatever the download brings (queue.rs,
\* apply_calendar_objects); a server copy is never that of an older edit.
THEOREM RowsMatchQueue ==
  Spec => /\ []MarkedRowHasOp
          /\ []PendingEditIsShown
          /\ []CopyOnlyInConflict
<1>1. Sane => MarkedRowHasOp /\ PendingEditIsShown /\ CopyOnlyInConflict
  BY DEF Sane, QueueInv
<1> QED BY <1>1, AlwaysSane, PTL

-----------------------------------------------------------------------------
(* What the round knows of the operations it read.  The tags of the        *)
(* operation, of its snapshot and of what the server acted on are ordered,  *)
(* and the answer that waits is about the operation it will close.         *)

Newer(t, u) == Promise!Newer(t, u)
TagOf(p)    == [id |-> p.id, rev |-> p.rev]

Arrived == {"etag", "refetch", "done"}

OneEach ==
  \A s, t \in queue : s.obj = t.obj \/ s.op.id = t.op.id => s = t

SnapshotsAreNotNewer ==
  \A s \in queue : Queued(s.obj) => ~Newer(TagOf(s.op), TagOf(op[s.obj]))

ActedIsNotNewer ==
  /\ \A o \in Obj : acted[o].id < nextId
  /\ \A o \in Obj : Queued(o) => ~Newer(acted[o], TagOf(op[o]))
  /\ \A s \in queue : ~Newer(acted[s.obj], TagOf(s.op))

AnswerMeans ==
  phase = "closing" /\ answer.kind \in Arrived =>
    \A s \in queue : Current(s) => acted[s.obj] = TagOf(s.op)

BlindIsAsked ==
  "blind_delete" \notin UserActs =>
    /\ \A o \in Obj : op[o].kind = "delete" => op[o].base # NoEtag
    /\ \A s \in queue : ~NeverUploaded(s)

RoundInv ==
  /\ OneEach
  /\ SnapshotsAreNotNewer
  /\ ActedIsNotNewer
  /\ SnapshotFaithful
  /\ AnswerMeans
  /\ BlindIsAsked

-----------------------------------------------------------------------------
(* The steps of the system, by what they do to the operations, to what the *)
(* round read and to what the server acted on.                             *)

\* The operation of o is the same edit as before.
Same(o) ==
  /\ op'[o].id = op[o].id
  /\ op'[o].rev = op[o].rev
  /\ op'[o].kind = op[o].kind
  /\ op'[o].base = op[o].base
  /\ op'[o].payload = op[o].payload

Kept == nextId' = nextId /\ \A o \in Obj : Same(o)

\* o gets a new edit.
Renewed(o) ==
  /\ IF Queued(o)
       THEN op'[o].id = op[o].id /\ op'[o].rev = op[o].rev + 1 /\ nextId' = nextId
       ELSE op'[o].id = nextId /\ op'[o].rev = 0 /\ nextId' = nextId + 1
  /\ op'[o].kind # "none"
  /\ op'[o].kind = "delete" /\ "blind_delete" \notin UserActs => op'[o].base # NoEtag
  /\ \A p \in Obj \ {o} : Same(p)

\* The edit of o is not in the queue any more.
Gone(o) ==
  /\ Queued(o)
  /\ op'[o] = NoOp
  /\ nextId' = nextId
  /\ \A p \in Obj \ {o} : Same(p)

PersonWrites == \E o \in Obj : Renewed(o) /\ UNCHANGED <<queue, acted, phase, answer>>

PersonGivesUp ==
  \E o \in Obj :
    /\ "take_server" \in UserActs
    /\ TakeServer(o)
    /\ Gone(o)
    /\ UNCHANGED <<queue, acted, phase, answer>>

RoundReads == StartRound /\ Kept

RoundSends ==
  \E s \in queue :
    /\ Current(s)
    /\ Kept
    /\ UNCHANGED queue
    /\ \/ Record(s)
       \/ UNCHANGED acted /\ answer'.kind \notin Arrived

RoundCloses ==
  \E s \in queue :
    /\ Current(s) /\ Live(s)
    /\ \/ phase = "closing" /\ answer.kind \in Arrived
       \/ NeverUploaded(s)
    /\ Gone(s.obj)
    /\ phase' # "closing"
    /\ queue' \subseteq queue
    /\ UNCHANGED acted

RoundGoesOn ==
  /\ Kept
  /\ UNCHANGED acted
  /\ queue' \subseteq queue
  /\ phase' # "closing" \/ UNCHANGED <<queue, phase, answer>>

StepKind ==
  PersonWrites \/ PersonGivesUp \/ RoundReads \/ RoundSends \/ RoundCloses \/ RoundGoesOn

LEMMA QueuedFacts ==
  ASSUME Sane
  PROVE  /\ \A o \in Obj :
               /\ op[o] \in Operation
               /\ Queued(o) => op[o].id \in 1 .. nextId - 1 /\ op[o].kind \in Kinds
               /\ ~Queued(o) => op[o] = NoOp
         /\ \A s \in queue :
               /\ s \in Taken /\ s.obj \in Obj /\ s.op \in Operation
               /\ s.op.id \in 1 .. nextId - 1
               /\ Live(s) => Queued(s.obj)
         /\ op \in [Obj -> Operation] /\ nextId \in Nat \ {0}
<1> USE DEF Sane, TypeOK, RoundTypeOK, QueueTypeOK, QueueInv, OpShape
<1>1. \A o \in Obj :
        /\ op[o] \in Operation
        /\ Queued(o) => op[o].id \in 1 .. nextId - 1 /\ op[o].kind \in Kinds
        /\ ~Queued(o) => op[o] = NoOp
  BY DEF Operation, Queued
<1>2. \A s \in queue :
        /\ s \in Taken /\ s.obj \in Obj /\ s.op \in Operation
        /\ s.op.id \in 1 .. nextId - 1
  BY DEF SnapshotsTaken, Taken, Snapshot
<1>3. \A s \in queue : Live(s) => Queued(s.obj)
  BY <1>1, <1>2 DEF Live, NoOp
<1> QED BY <1>1, <1>2, <1>3

\* An enqueue renews the operation of its object.
LEMMA EnqueueRenews ==
  ASSUME Sane, NEW o \in Obj, NEW kind \in Kinds, NEW base \in Nat, NEW payload,
         InsertPendingOp(o, kind, base, payload),
         kind = "delete" /\ "blind_delete" \notin UserActs => base # NoEtag
  PROVE  Renewed(o)
BY QueuedFacts DEF InsertPendingOp, Renewed, Same, Kinds

LEMMA PersonStepKind ==
  ASSUME Sane, NEW o \in Obj, Person(o)
  PROVE  PersonWrites \/ PersonGivesUp
<1>1. UNCHANGED <<queue, acted, phase, answer>>
  BY DEF roundVars, Person, Edit, Create, EditObject, Delete, BlindDelete,
         ResolveKeepLocal, ResolveTakeServer
<1>2. \A base \in IfMatch(o) : base \in Nat /\ base # NoEtag
  BY DEF IfMatch, Sane, TypeOK, QueueTypeOK, Row, Operation
<1>3. ASSUME Create(o) \/ EditObject(o) PROVE Renewed(o)
  BY <1>2, <1>3, EnqueueRenews, SourceFacts DEF Create, EditObject, EnqueuePut, Kinds
<1>4. ASSUME Delete(o) PROVE Renewed(o)
  BY <1>2, <1>4, EnqueueRenews DEF Delete, EnqueueDelete, Kinds
<1>5. ASSUME BlindDelete(o) PROVE Renewed(o)
  BY <1>5, EnqueueRenews, SourceFacts DEF BlindDelete, Edit, EnqueueDelete, Kinds
<1>6. ASSUME ResolveKeepLocal(o) PROVE Renewed(o)
  <2>1. Queued(o) /\ op[o].srvEtag # NoEtag /\ op[o] \in Operation /\ op \in [Obj -> Operation]
    BY <1>6, QueuedFacts DEF ResolveKeepLocal, KeepLocal, InConflict
  <2>2. /\ op'[o].id = op[o].id /\ op'[o].rev = op[o].rev + 1
        /\ op'[o].kind = op[o].kind /\ op'[o].base = op[o].srvEtag
        /\ nextId' = nextId
        /\ \A p \in Obj \ {o} : op'[p] = op[p]
    BY <1>6, <2>1 DEF ResolveKeepLocal, KeepLocal, Operation
  <2> QED BY <2>1, <2>2 DEF Renewed, Same, Queued
<1>7. ASSUME ResolveTakeServer(o) PROVE PersonGivesUp
  <2>1. "take_server" \in UserActs /\ TakeServer(o)
    BY <1>7 DEF ResolveTakeServer, Edit
  <2>2. Gone(o)
    BY <2>1, QueuedFacts DEF TakeServer, InConflict, Gone, Same
  <2> QED BY <1>1, <2>1, <2>2 DEF PersonGivesUp
<1> QED BY <1>1, <1>3, <1>4, <1>5, <1>6, <1>7 DEF Person, PersonWrites

\* A transaction that counts and notes keeps the edit.
LEMMA NotesKeepEdits ==
  ASSUME Sane, NEW s \in queue,
         \/ MarkConflict(s) \/ RetryLater(s) \/ CountConflictFetchAttempt(s)
         \/ \E etag \in Nat, raw \in Text : StoreServerCopy(s, etag, raw)
  PROVE  Kept
<1>1. /\ op \in [Obj -> Operation] /\ s.obj \in Obj
      /\ \A p \in Obj : op[p] \in Operation
  BY QueuedFacts
<1>2. CASE MarkConflict(s)
  BY <1>1, <1>2 DEF MarkConflict, Kept, Same, Operation
<1>3. CASE RetryLater(s)
  BY <1>1, <1>3 DEF RetryLater, Kept, Same, Operation
<1>4. CASE CountConflictFetchAttempt(s)
  BY <1>1, <1>4 DEF CountConflictFetchAttempt, Kept, Same, Operation
<1>5. ASSUME NEW etag \in Nat, NEW raw \in Text, StoreServerCopy(s, etag, raw) PROVE Kept
  BY <1>1, <1>5 DEF StoreServerCopy, Kept, Same, Operation
<1> QED BY <1>2, <1>3, <1>4, <1>5

\* A transaction that closes an operation removes it, or finds another edit there.
LEMMA ClosesOrKeeps ==
  ASSUME Sane, NEW s \in queue,
         CompleteDelete(s) \/ \E etag \in Nat : CompletePut(s, etag)
  PROVE  Kept \/ (Live(s) /\ Gone(s.obj))
<1>1. CASE Live(s)
  <2>1. Queued(s.obj) /\ s.obj \in Obj /\ op \in [Obj -> Operation]
    BY <1>1, QueuedFacts
  <2> QED BY <1>1, <2>1 DEF CompleteDelete, CompletePut, Gone, Same
<1>2. CASE ~Live(s)
  BY <1>2 DEF CompleteDelete, CompletePut, Kept, Same
<1> QED BY <1>1, <1>2

LEMMA ReplayStepKind ==
  ASSUME Sane, Replay
  PROVE  RoundReads \/ RoundSends \/ RoundCloses \/ RoundGoesOn
<1>0. ASSUME UNCHANGED queueVars PROVE Kept
  BY <1>0 DEF queueVars, Kept, Same
<1>1. CASE StartRound
  BY <1>0, <1>1 DEF StartRound, RoundReads
<1>2. CASE EndReplay
  BY <1>0, <1>2 DEF EndReplay, RoundGoesOn, Go
<1>3. ASSUME NEW s \in queue,
             SkipConflict(s) \/ TakeConflict(s) \/ Send(s) \/ FetchServerCopy(s)
      PROVE  RoundGoesOn
  BY <1>0, <1>3 DEF SkipConflict, TakeConflict, Send, FetchServerCopy, RoundGoesOn, Go
<1>4. ASSUME NEW s \in queue, CloseUnsent(s) PROVE RoundCloses \/ RoundGoesOn
  <2>1. Kept \/ (Live(s) /\ Gone(s.obj))
    BY <1>4, ClosesOrKeeps DEF CloseUnsent
  <2>2. phase' # "closing" /\ queue' \subseteq queue /\ UNCHANGED acted
        /\ Current(s) /\ NeverUploaded(s)
    BY <1>4 DEF CloseUnsent
  <2> QED BY <2>1, <2>2 DEF RoundCloses, RoundGoesOn
<1>5. ASSUME NEW s \in queue, ServerAnswers(s) PROVE RoundSends
  <2>1. Record(s) \/ (UNCHANGED acted /\ answer'.kind \notin Arrived)
    <3>1. CASE PutArrives(s) \/ DeleteArrives(s)
      BY <3>1 DEF PutArrives, DeleteArrives
    <3>2. CASE PreconditionFails(s) \/ AnswerLost(s) \/ PermanentError(s)
      BY <3>2 DEF PreconditionFails, AnswerLost, PermanentError, Says, Arrived
    <3> QED BY <1>5, <3>1, <3>2 DEF ServerAnswers
  <2> QED BY <1>0, <1>5, <2>1 DEF ServerAnswers, RoundSends
<1>6. ASSUME NEW s \in queue, Close(s) PROVE RoundCloses \/ RoundGoesOn
  <2>1. answer.etag \in Nat
    BY DEF Sane, TypeOK, RoundTypeOK, Answer
  <2>2. phase' # "closing" /\ queue' \subseteq queue /\ UNCHANGED acted
        /\ Current(s) /\ phase = "closing"
    BY <1>6 DEF Close, Go
  <2>3. CASE Kept
    BY <2>2, <2>3 DEF RoundGoesOn
  <2>4. CASE ~Kept
    <3>1. ~MarkConflict(s) /\ ~RetryLater(s)
      BY <2>4, NotesKeepEdits
    <3>2. answer.kind \in Arrived /\ (CompleteDelete(s) \/ CompletePut(s, answer.etag))
      BY <1>6, <3>1 DEF Close, RetryOrEscalate, Arrived
    <3>3. Live(s) /\ Gone(s.obj)
      BY <2>1, <2>4, <3>2, ClosesOrKeeps
    <3> QED BY <2>2, <3>2, <3>3 DEF RoundCloses
  <2> QED BY <2>3, <2>4
<1>7. ASSUME NEW s \in queue, CaptureServerCopy(s) PROVE RoundGoesOn
  <2>1. answer.etag \in Nat /\ answer.raw \in Text
    BY DEF Sane, TypeOK, RoundTypeOK, Answer
  <2>2. Kept
    BY <1>7, <2>1, NotesKeepEdits DEF CaptureServerCopy
  <2> QED BY <1>7, <2>2 DEF CaptureServerCopy, RoundGoesOn, Go
<1> QED BY <1>1, <1>2, <1>3, <1>4, <1>5, <1>6, <1>7 DEF Replay

LEMMA EveryStepHasKind ==
  ASSUME Sane, Next
  PROVE  StepKind
<1>1. ASSUME NEW o \in Obj, Person(o) PROVE StepKind
  BY <1>1, PersonStepKind DEF StepKind
<1>2. CASE Replay
  BY <1>2, ReplayStepKind DEF StepKind
<1>3. ASSUME UNCHANGED <<op, nextId>> PROVE Kept
  BY <1>3 DEF Kept, Same
<1>4. ASSUME NEW o \in Obj, Remote(o) PROVE RoundGoesOn
  BY <1>3, <1>4 DEF Remote, queueVars, roundVars, RoundGoesOn
<1>5. CASE Download
  <2>1. Kept
    BY <1>3, <1>5 DEF Download, List, ReadLocal, Report, PushDelete, Fetch, WriteBatch, Settle,
                      WriteLast, queueVars, ApplyObjects
  <2>2. UNCHANGED acted /\ queue' \subseteq queue
    BY <1>5 DEF Download, List, ReadLocal, Report, PushDelete, Fetch, WriteBatch, Settle,
                WriteLast, DownloadFrame, RoundOver
  <2>3. phase' # "closing"
    BY <1>5 DEF Download, List, ReadLocal, Report, PushDelete, Fetch, WriteBatch, Settle,
                WriteLast, RoundOver, Go
  <2> QED BY <2>1, <2>2, <2>3 DEF RoundGoesOn, StepKind
<1>6. CASE RoundFails \/ Restart
  <2>1. UNCHANGED <<op, nextId>> /\ UNCHANGED acted
    BY <1>6 DEF RoundFails, Restart, queueVars
  <2>2. queue' \subseteq queue /\ phase' # "closing"
    BY <1>6 DEF RoundFails, Restart, RoundOver, Go
  <2> QED BY <1>3, <2>1, <2>2 DEF RoundGoesOn, StepKind
<1> QED BY <1>1, <1>2, <1>4, <1>5, <1>6 DEF Next, StepKind

-----------------------------------------------------------------------------
(* RoundInv is kept: one lemma for each of its parts, one step for each    *)
(* kind of step.                                                           *)

LEMMA TagFacts ==
  ASSUME Sane
  PROVE  /\ \A o \in Obj : op[o].id \in Nat /\ op[o].rev \in Nat
         /\ \A o \in Obj : acted[o] \in [id : Nat, rev : Nat]
         /\ \A s \in queue : s.op.id \in Nat /\ s.op.rev \in Nat /\ s.obj \in Obj
         /\ nextId \in Nat \ {0}
<1>1. \A o \in Obj : acted[o] \in [id : Nat, rev : Nat]
  BY DEF Sane, TypeOK
<1>2. \A o \in Obj : op[o].id \in Nat /\ op[o].rev \in Nat
  BY QueuedFacts DEF Operation
<1>3. \A s \in queue : s.op.id \in Nat /\ s.op.rev \in Nat /\ s.obj \in Obj
  BY QueuedFacts DEF Operation
<1> QED BY <1>1, <1>2, <1>3, QueuedFacts

\* The snapshots a round starts with are the operations of the queue.
LEMMA SnapshotsAtStart ==
  ASSUME Sane, StartRound
  PROVE  /\ \A s \in queue' : s.obj \in Obj /\ Queued(s.obj) /\ s.op = op[s.obj]
         /\ \A s, t \in queue' : s.obj = t.obj => s = t
         /\ UNCHANGED <<op, acted>>
BY DEF StartRound, queueVars

\* Every step but the first of a round leaves the round with what it had.
LEMMA OnlyStartReads ==
  ASSUME Sane, StepKind, ~RoundReads
  PROVE  queue' \subseteq queue
BY DEF StepKind, PersonWrites, PersonGivesUp, RoundSends, RoundCloses, RoundGoesOn

LEMMA OneEachIsKept ==
  ASSUME Sane, OneEach, StepKind
  PROVE  OneEach'
<1>1. CASE RoundReads
  <2>1. \A o, p \in Obj : Queued(o) /\ Queued(p) /\ op[o].id = op[p].id => o = p
    BY DEF Sane, QueueInv, OwnIds
  <2> QED BY <1>1, <2>1, SnapshotsAtStart DEF RoundReads, OneEach
<1>2. CASE ~RoundReads
  BY <1>2, OnlyStartReads DEF OneEach
<1> QED BY <1>1, <1>2

LEMMA SnapshotsStayNotNewer ==
  ASSUME Sane, SnapshotsAreNotNewer, StepKind
  PROVE  SnapshotsAreNotNewer'
<1> USE TagFacts, QueuedFacts DEF SnapshotsAreNotNewer, Newer, Promise!Newer, TagOf
<1>1. CASE RoundReads
  BY <1>1, SnapshotsAtStart DEF RoundReads, Queued
<1>2. CASE PersonWrites
  <2>1. PICK o \in Obj : Renewed(o) /\ UNCHANGED queue
    BY <1>2 DEF PersonWrites
  <2>2. \A p \in Obj \ {o} : Same(p)
    BY <2>1 DEF Renewed
  <2>3. ASSUME NEW s \in queue, s.obj = o PROVE ~Newer(TagOf(s.op), TagOf(op'[o]))
    BY <2>1, <2>3 DEF Renewed
  <2> QED BY <2>1, <2>2, <2>3 DEF Same, Queued
<1>3. ASSUME NEW o \in Obj, Gone(o), queue' \subseteq queue PROVE SnapshotsAreNotNewer'
  BY <1>3 DEF Gone, Same, Queued, NoOp
<1>4. CASE PersonGivesUp \/ RoundCloses
  BY <1>3, <1>4 DEF PersonGivesUp, RoundCloses
<1>5. ASSUME Kept, queue' \subseteq queue PROVE SnapshotsAreNotNewer'
  BY <1>5 DEF Kept, Same, Queued
<1>6. CASE RoundSends \/ RoundGoesOn
  BY <1>5, <1>6 DEF RoundSends, RoundGoesOn
<1> QED BY <1>1, <1>2, <1>4, <1>6 DEF StepKind

LEMMA ActedStaysNotNewer ==
  ASSUME Sane, OneEach, SnapshotsAreNotNewer, ActedIsNotNewer, StepKind
  PROVE  ActedIsNotNewer'
<1> USE TagFacts, QueuedFacts DEF ActedIsNotNewer, Newer, Promise!Newer, TagOf
<1>1. CASE RoundReads
  BY <1>1, SnapshotsAtStart DEF RoundReads, Kept, Same, Queued
<1>2. CASE PersonWrites
  <2>1. PICK o \in Obj : Renewed(o) /\ UNCHANGED <<queue, acted>>
    BY <1>2 DEF PersonWrites
  <2>2. nextId' \in {nextId, nextId + 1}
    BY <2>1 DEF Renewed
  <2>3. \A p \in Obj : p # o => Same(p)
    BY <2>1 DEF Renewed
  <2>4. ~Newer(acted[o], TagOf(op'[o]))
    BY <2>1 DEF Renewed
  <2>5. \A p \in Obj : Queued(p)' => ~Newer(acted[p], TagOf(op'[p]))
    BY <2>3, <2>4 DEF Same, Queued
  <2> QED BY <2>1, <2>2, <2>5
<1>3. ASSUME NEW o \in Obj, Gone(o), queue' \subseteq queue, UNCHANGED acted
      PROVE  ActedIsNotNewer'
  BY <1>3 DEF Gone, Same, Queued, NoOp
<1>4. CASE PersonGivesUp \/ RoundCloses
  BY <1>3, <1>4 DEF PersonGivesUp, RoundCloses
<1>5. ASSUME Kept, queue' \subseteq queue, UNCHANGED acted PROVE ActedIsNotNewer'
  BY <1>5 DEF Kept, Same, Queued
<1>6. CASE RoundGoesOn
  BY <1>5, <1>6 DEF RoundGoesOn
<1>7. CASE RoundSends
  <2>1. PICK s \in queue : /\ Kept /\ UNCHANGED queue
                           /\ Record(s) \/ UNCHANGED acted
    BY <1>7 DEF RoundSends
  <2>2. CASE UNCHANGED acted
    BY <1>5, <2>1, <2>2
  <2>3. CASE Record(s)
    <3>1. /\ acted'[s.obj] = TagOf(s.op)
          /\ \A p \in Obj : p # s.obj => acted'[p] = acted[p]
      BY <2>3 DEF Record, Sane, TypeOK
    <3>2. \A t \in queue : t # s => t.obj # s.obj
      BY DEF OneEach
    <3>3. \A o \in Obj : acted'[o].id < nextId
      BY <3>1
    <3>4. \A o \in Obj : Queued(o) => ~Newer(acted'[o], TagOf(op[o]))
      BY <3>1 DEF SnapshotsAreNotNewer
    <3>5. \A t \in queue : ~Newer(acted'[t.obj], TagOf(t.op))
      BY <3>1, <3>2
    <3> QED BY <2>1, <3>3, <3>4, <3>5 DEF Kept, Same, Queued
  <2> QED BY <2>1, <2>2, <2>3
<1> QED BY <1>1, <1>2, <1>4, <1>6, <1>7 DEF StepKind

\* A new edit never passes for the one of an older snapshot.
LEMMA SnapshotStaysFaithful ==
  ASSUME Sane, SnapshotsAreNotNewer, SnapshotFaithful, StepKind
  PROVE  SnapshotFaithful'
<1> USE TagFacts, QueuedFacts DEF SnapshotFaithful, Live
<1>1. CASE RoundReads
  BY <1>1, SnapshotsAtStart DEF RoundReads
<1>2. CASE PersonWrites
  <2>1. PICK o \in Obj : Renewed(o) /\ UNCHANGED queue
    BY <1>2 DEF PersonWrites
  <2>2. \A p \in Obj : p # o => Same(p)
    BY <2>1 DEF Renewed
  <2>3. ASSUME NEW s \in queue, s.obj = o PROVE ~Live(s)'
    <3>1. CASE Queued(o)
      BY <2>1, <2>3, <3>1
         DEF Renewed, SnapshotsAreNotNewer, Newer, Promise!Newer, TagOf
    <3>2. CASE ~Queued(o)
      BY <2>1, <2>3, <3>2 DEF Renewed
    <3> QED BY <3>1, <3>2
  <2> QED BY <2>1, <2>2, <2>3 DEF Same
<1>3. ASSUME NEW o \in Obj, Gone(o), queue' \subseteq queue PROVE SnapshotFaithful'
  BY <1>3 DEF Gone, Same, NoOp
<1>4. CASE PersonGivesUp \/ RoundCloses
  BY <1>3, <1>4 DEF PersonGivesUp, RoundCloses
<1>5. ASSUME Kept, queue' \subseteq queue PROVE SnapshotFaithful'
  BY <1>5 DEF Kept, Same
<1>6. CASE RoundSends \/ RoundGoesOn
  BY <1>5, <1>6 DEF RoundSends, RoundGoesOn
<1> QED BY <1>1, <1>2, <1>4, <1>6 DEF StepKind

\* The answer that waits to close an operation is about that operation.
LEMMA AnswerStaysMeant ==
  ASSUME Sane, OneEach, AnswerMeans, StepKind
  PROVE  AnswerMeans'
<1> USE TagFacts DEF AnswerMeans
<1>1. CASE RoundReads
  BY <1>1 DEF RoundReads, StartRound, Go
<1>2. CASE PersonWrites \/ PersonGivesUp
  BY <1>2 DEF PersonWrites, PersonGivesUp, Current
<1>3. CASE RoundCloses
  BY <1>3 DEF RoundCloses
<1>4. CASE RoundGoesOn
  BY <1>4 DEF RoundGoesOn, Current
<1>5. CASE RoundSends
  <2>1. PICK s \in queue :
          /\ Current(s) /\ UNCHANGED queue
          /\ \/ Record(s)
             \/ UNCHANGED acted /\ answer'.kind \notin Arrived
    BY <1>5 DEF RoundSends
  <2>2. \A t \in queue : Current(t) => t = s
    BY <2>1 DEF Current, OneEach
  <2>3. CASE Record(s)
    <3>1. acted'[s.obj] = TagOf(s.op)
      BY <2>3 DEF Record, TagOf, Sane, TypeOK
    <3> QED BY <2>1, <2>2, <3>1 DEF Current
  <2>4. CASE answer'.kind \notin Arrived
    BY <2>4
  <2> QED BY <2>1, <2>3, <2>4
<1> QED BY <1>1, <1>2, <1>3, <1>4, <1>5 DEF StepKind

\* Without deletes that ask for no precondition, every delete has an ETag.
LEMMA BlindStaysAsked ==
  ASSUME Sane, BlindIsAsked, StepKind
  PROVE  BlindIsAsked'
<1> SUFFICES ASSUME "blind_delete" \notin UserActs
             PROVE  /\ \A o \in Obj : op'[o].kind = "delete" => op'[o].base # NoEtag
                    /\ \A s \in queue' : ~NeverUploaded(s)
  BY DEF BlindIsAsked, NeverUploaded
<1> USE TagFacts DEF BlindIsAsked, NeverUploaded
<1>1. CASE RoundReads
  BY <1>1, SnapshotsAtStart DEF RoundReads
<1>2. CASE PersonWrites
  BY <1>2 DEF PersonWrites, Renewed, Same
<1>3. CASE PersonGivesUp \/ RoundCloses
  BY <1>3 DEF PersonGivesUp, RoundCloses, Gone, Same, NoOp
<1>4. CASE RoundSends \/ RoundGoesOn
  BY <1>4 DEF RoundSends, RoundGoesOn, Kept, Same
<1> QED BY <1>1, <1>2, <1>3, <1>4 DEF StepKind

LEMMA InitIsRound == Init => RoundInv
<1> SUFFICES ASSUME Init PROVE RoundInv
  OBVIOUS
<1>1. /\ queue = {} /\ phase = "idle" /\ nextId = 1
      /\ \A o \in Obj : op[o] = NoOp /\ acted[o] = [id |-> 0, rev |-> 0]
  BY DEF Init, QueueInit
<1>2. OneEach /\ SnapshotsAreNotNewer /\ SnapshotFaithful /\ AnswerMeans
  BY <1>1 DEF OneEach, SnapshotsAreNotNewer, SnapshotFaithful, AnswerMeans
<1>3. ActedIsNotNewer
  BY <1>1 DEF ActedIsNotNewer, Queued, NoOp
<1>4. BlindIsAsked
  BY <1>1 DEF BlindIsAsked, NoOp
<1> QED BY <1>2, <1>3, <1>4 DEF RoundInv

LEMMA NextKeepsRound == Sane /\ RoundInv /\ [Next]_vars => RoundInv'
<1> SUFFICES ASSUME Sane, RoundInv, [Next]_vars PROVE RoundInv'
  OBVIOUS
<1>1. CASE Next
  <2>1. StepKind
    BY <1>1, EveryStepHasKind
  <2> QED BY <2>1, OneEachIsKept, SnapshotsStayNotNewer, ActedStaysNotNewer,
             SnapshotStaysFaithful, AnswerStaysMeant, BlindStaysAsked DEF RoundInv
<1>2. CASE UNCHANGED vars
  <2>1. RoundGoesOn
    BY <1>2 DEF vars, queueVars, roundVars, RoundGoesOn, Kept, Same
  <2> QED BY <2>1, OneEachIsKept, SnapshotsStayNotNewer, ActedStaysNotNewer,
             SnapshotStaysFaithful, AnswerStaysMeant, BlindStaysAsked DEF RoundInv, StepKind
<1> QED BY <1>1, <1>2

LEMMA AlwaysRound == Spec => [](Sane /\ RoundInv)
<1>1. Init => Sane /\ RoundInv
  BY InitIsSane, InitIsRound
<1>2. (Sane /\ RoundInv) /\ [Next]_vars => (Sane /\ RoundInv)'
  BY NextIsSane, NextKeepsRound
<1> QED BY <1>1, <1>2, PTL DEF Spec

\* What the round closes by id and revision (close_op) is the edit it sent.
THEOREM SnapshotsAreFaithful == Spec => []SnapshotFaithful
<1>1. RoundInv => SnapshotFaithful
  BY DEF RoundInv
<1> QED BY <1>1, AlwaysRound, PTL

-----------------------------------------------------------------------------
(* An edit is lost only where the code gives it up.                        *)

LEMMA ClosedEditArrived ==
  ASSUME Sane, RoundInv, NEW s \in queue, Current(s), Live(s),
         \/ phase = "closing" /\ answer.kind \in Arrived
         \/ NeverUploaded(s)
  PROVE  /\ s.obj \in Obj
         /\ \/ acted[s.obj] = TagOf(op[s.obj])
            \/ op[s.obj].kind = "delete" /\ op[s.obj].base = NoEtag
<1>1. s.obj \in Obj
  BY QueuedFacts
<1>2. CASE phase = "closing" /\ answer.kind \in Arrived
  <2>1. acted[s.obj] = TagOf(s.op)
    BY <1>2 DEF RoundInv, AnswerMeans
  <2> QED BY <1>1, <2>1 DEF Live, TagOf
<1>3. CASE NeverUploaded(s)
  BY <1>1, <1>3 DEF RoundInv, SnapshotFaithful, NeverUploaded
<1> QED BY <1>1, <1>2, <1>3

\* An edit leaves the queue only when the server has acted on that very revision
\* of it (replay.rs, close_op), when the person takes the server's version, or as
\* a delete without precondition: whatever is lost, repeated or reordered.
THEOREM NoEditIsLost == Spec => NoLostEdit
<1> DEFINE Leaves(o) ==
      EditLeaves(o) =>
        \/ acted[o] = [id |-> op[o].id, rev |-> op[o].rev]
        \/ TakeServer(o)
        \/ op[o].kind = "delete" /\ op[o].base = NoEtag
<1>1. ASSUME Sane, RoundInv, StepKind, NEW o \in Obj PROVE Leaves(o)
  <2>1. CASE PersonWrites
    BY <2>1 DEF PersonWrites, Renewed, Same, EditLeaves
  <2>2. CASE PersonGivesUp
    BY <2>2 DEF PersonGivesUp, Gone, Same, EditLeaves
  <2>3. CASE RoundCloses
    <3>1. PICK s \in queue :
            /\ Current(s) /\ Live(s) /\ Gone(s.obj)
            /\ \/ phase = "closing" /\ answer.kind \in Arrived
               \/ NeverUploaded(s)
      BY <2>3 DEF RoundCloses
    <3>2. CASE o = s.obj
      BY <1>1, <3>1, <3>2, ClosedEditArrived DEF TagOf
    <3>3. CASE o # s.obj
      BY <3>1, <3>3 DEF Gone, Same, EditLeaves
    <3> QED BY <3>2, <3>3
  <2>4. CASE RoundReads \/ RoundSends \/ RoundGoesOn
    BY <2>4 DEF RoundReads, RoundSends, RoundGoesOn, Kept, Same, EditLeaves
  <2> QED BY <1>1, <2>1, <2>2, <2>3, <2>4 DEF StepKind
<1>2. Sane /\ RoundInv /\ [Next]_vars => [\A o \in Obj : Leaves(o)]_vars
  BY <1>1, EveryStepHasKind
<1> QED BY <1>2, AlwaysRound, PTL DEF Spec, NoLostEdit

-----------------------------------------------------------------------------
(* The queue and the round implement PendingWrites.                        *)

WantOf == [o \in Obj |-> [id |-> op[o].id, rev |-> op[o].rev]]

LEMMA PromiseAtStart == Init => Promise!Init
BY DEF Init, QueueInit, Promise!Init, Promise!None, NoOp

\* While the edits stay, what is wanted stays.
LEMMA WantKept ==
  ASSUME NEW o \in Obj, Same(o)
  PROVE  WantOf'[o] = WantOf[o]
BY DEF Same, WantOf

LEMMA StepsKeepPromise ==
  ASSUME Sane, RoundInv, Sane', StepKind
  PROVE  Promise!Next \/ UNCHANGED <<WantOf, acted>>
<1> USE TagFacts DEF Newer, TagOf
<1>1. CASE PersonWrites
  <2>1. PICK o \in Obj : Renewed(o) /\ UNCHANGED acted
    BY <1>1 DEF PersonWrites
  <2>2. Promise!Newer(WantOf'[o], WantOf[o])
    <3>1. CASE Queued(o)
      BY <2>1, <3>1 DEF Renewed, WantOf, Promise!Newer
    <3>2. CASE ~Queued(o)
      BY <2>1, <3>2, QueuedFacts DEF Renewed, WantOf, Promise!Newer, NoOp
    <3> QED BY <3>1, <3>2
  <2>3. Promise!Newer(WantOf'[o], acted[o])
    <3>1. CASE Queued(o)
      BY <2>1, <3>1 DEF Renewed, WantOf, Promise!Newer, RoundInv, ActedIsNotNewer
    <3>2. CASE ~Queued(o)
      BY <2>1, <3>2 DEF Renewed, WantOf, Promise!Newer, RoundInv, ActedIsNotNewer
    <3> QED BY <3>1, <3>2
  <2>4. \A p \in Obj \ {o} : WantOf'[p] = WantOf[p]
    BY <2>1, WantKept DEF Renewed
  <2> QED BY <2>1, <2>2, <2>3, <2>4 DEF Promise!Next, Promise!Ask, Promise!Others, WantOf
<1>2. ASSUME NEW o \in Obj, Gone(o), UNCHANGED acted
      PROVE  /\ WantOf'[o] = Promise!None
             /\ \A p \in Obj \ {o} : WantOf'[p] = WantOf[p]
  BY <1>2, WantKept DEF Gone, WantOf, Promise!None, NoOp
<1>3. CASE PersonGivesUp
  <2>1. PICK o \in Obj : Gone(o) /\ UNCHANGED acted /\ "take_server" \in UserActs
    BY <1>3 DEF PersonGivesUp
  <2> QED BY <1>2, <2>1 DEF Promise!Next, Promise!Discard, Promise!Others, WantOf
<1>4. CASE RoundCloses
  <2>1. PICK s \in queue :
          /\ Current(s) /\ Live(s) /\ Gone(s.obj) /\ UNCHANGED acted
          /\ \/ phase = "closing" /\ answer.kind \in Arrived
             \/ NeverUploaded(s)
    BY <1>4 DEF RoundCloses
  <2>2. s.obj \in Obj
    BY <2>1, ClosedEditArrived
  <2>3. CASE acted[s.obj] = TagOf(op[s.obj])
    <3>1. WantOf[s.obj] # Promise!None /\ acted[s.obj] = WantOf[s.obj]
      BY <2>1, <2>2, <2>3, QueuedFacts DEF Gone, WantOf, Promise!None
    <3> QED BY <1>2, <2>1, <2>2, <3>1
            DEF Promise!Next, Promise!Forget, Promise!Others, WantOf
  <2>4. CASE op[s.obj].kind = "delete" /\ op[s.obj].base = NoEtag
    <3>1. "blind_delete" \in UserActs
      BY <2>2, <2>4 DEF RoundInv, BlindIsAsked
    <3> QED BY <1>2, <2>1, <2>2, <3>1
            DEF Promise!Next, Promise!Discard, Promise!Others, WantOf
  <2> QED BY <2>1, <2>3, <2>4, ClosedEditArrived
<1>5. ASSUME Kept PROVE UNCHANGED WantOf
  BY <1>5 DEF Kept, Same, WantOf
<1>6. CASE RoundReads \/ RoundGoesOn
  BY <1>5, <1>6 DEF RoundReads, RoundGoesOn, StartRound
<1>7. CASE RoundSends
  <2>1. PICK s \in queue : Kept /\ (Record(s) \/ UNCHANGED acted)
    BY <1>7 DEF RoundSends
  <2>2. CASE UNCHANGED acted
    BY <1>5, <2>1, <2>2
  <2>3. CASE Record(s)
    <3>1. /\ acted' = [acted EXCEPT ![s.obj] = TagOf(s.op)]
          /\ acted \in [Obj -> [id : Nat, rev : Nat]]
      BY <2>3 DEF Record, Sane, TypeOK
    <3>2. CASE acted[s.obj] = TagOf(s.op)
      <4>1. acted' = acted
        BY <3>1, <3>2
      <4> QED BY <1>5, <2>1, <4>1
    <3>3. CASE acted[s.obj] # TagOf(s.op)
      <4>1. Promise!Newer(acted'[s.obj], acted[s.obj])
        <5>1. acted'[s.obj] = TagOf(s.op)
          BY <3>1
        <5>2. ~Promise!Newer(acted[s.obj], TagOf(s.op))
          BY DEF RoundInv, ActedIsNotNewer
        <5>3. acted[s.obj].id # s.op.id \/ acted[s.obj].rev # s.op.rev
          BY <3>1, <3>3
        <5> QED BY <5>1, <5>2, <5>3 DEF Promise!Newer
      <4>2. WantOf[s.obj] # Promise!None => ~Promise!Newer(acted'[s.obj], WantOf[s.obj])
        BY <3>1, QueuedFacts
           DEF RoundInv, SnapshotsAreNotNewer, WantOf, Promise!None, Promise!Newer, NoOp
      <4>3. \A p \in Obj \ {s.obj} : acted'[p] = acted[p]
        BY <3>1
      <4> QED BY <1>5, <2>1, <4>1, <4>2, <4>3
              DEF Promise!Next, Promise!Deliver, Promise!Others, WantOf
    <3> QED BY <3>2, <3>3
  <2> QED BY <2>1, <2>2, <2>3
<1> QED BY <1>1, <1>3, <1>4, <1>6, <1>7 DEF StepKind

\* The queue, the round and every failure of them implement PendingWrites: at
\* most one write of an object waits, a later one takes its place, and it stops
\* waiting when the server has acted on it or when the person gave it up.
THEOREM QueueKeepsPromise == Spec => PromiseKept
<1>1. Sane /\ RoundInv /\ Sane' /\ [Next]_vars => [Promise!Next]_<<WantOf, acted>>
  <2> SUFFICES ASSUME Sane, RoundInv, Sane', [Next]_vars
               PROVE  Promise!Next \/ UNCHANGED <<WantOf, acted>>
    OBVIOUS
  <2>1. CASE Next
    BY <2>1, EveryStepHasKind, StepsKeepPromise
  <2>2. CASE UNCHANGED vars
    BY <2>2 DEF vars, queueVars, WantOf
  <2> QED BY <2>1, <2>2
<1> QED BY <1>1, PromiseAtStart, AlwaysRound, PTL DEF Spec, PromiseKept, Promise!Spec, WantOf
-----------------------------------------------------------------------------
(* What was read from the server, wherever it is kept, is what the server  *)
(* has or is older.                                                        *)

\* A text and its ETag, as an answer or a report gave them: the resource was there
\* with that ETag, and it has that text if it still has that ETag.
Describes(o, etag, raw) ==
  /\ srv[o].chg > 0 /\ etag <= srv[o].chg
  /\ etag = srv[o].chg => raw = srv[o].raw

RevisionsGrow ==
  \A o \in Obj : srv[o].chg <= srvRev /\ (Held(o) => srv[o].chg > 0)
RowsDescribe ==
  \A o \in Obj : Stored(o) /\ row[o].mark = "none" => Describes(o, row[o].etag, row[o].raw)
CopiesDescribe ==
  \A o \in Obj : HasCopy(op[o]) => Describes(o, op[o].srvEtag, op[o].srvRaw)
BatchDescribes ==
  \A o \in Obj : batch[o].act = "upsert" => Describes(o, batch[o].etag, batch[o].raw)
AnswerDescribes ==
  \A s \in queue : Current(s) =>
    /\ phase = "closing" /\ answer.kind \in {"etag", "refetch"} =>
         s.op.kind = "put" /\ Describes(s.obj, answer.etag, s.op.payload)
    /\ phase = "storing" /\ answer.kind = "copy" =>
         Describes(s.obj, answer.etag, answer.raw)

ReadInv == /\ RevisionsGrow /\ RowsDescribe /\ CopiesDescribe /\ BatchDescribes
           /\ AnswerDescribes

LEMMA ReadInvNamesContent == Sane /\ ReadInv => EtagNamesContent
  BY DEF ReadInv, RowsDescribe, CopiesDescribe, Describes, EtagNamesContent

\* The server stays as it is, or one object gets a new revision.
ServerMoves == \/ UNCHANGED serverVars
               \/ \E o \in Obj : \E raw \in Text : Write(o, raw)

LEMMA TextOfSnapshot ==
  ASSUME Sane, NEW s \in queue
  PROVE  s.op.payload \in Text /\ s.obj \in Obj /\ s.op \in Operation
  BY QueuedFacts DEF Operation

LEMMA RemoteTexts ==
  ASSUME Sane
  PROVE  <<"elsewhere", srvRev + 1>> \in Text /\ NoContent \in Text
  BY TextFacts DEF Sane, TypeOK, ServerTypeOK, Content, Text

LEMMA NextMovesServer ==
  ASSUME Sane, Next
  PROVE  ServerMoves
<1>1. ASSUME NEW o \in Obj, Person(o) PROVE UNCHANGED serverVars
  BY <1>1 DEF Person, Edit, Create, EditObject, Delete, BlindDelete, ResolveKeepLocal,
              ResolveTakeServer
<1>2. ASSUME NEW o \in Obj, Remote(o) PROVE ServerMoves
  BY <1>2, RemoteTexts DEF Remote, RemoteWrite, RemoteDelete, Remove, ServerMoves
<1>3. ASSUME NEW s \in queue, ServerAnswers(s) PROVE ServerMoves
  <2>1. CASE PutArrives(s)
    BY <2>1, TextOfSnapshot, RemoteTexts DEF PutArrives, RemoteWrite, ServerMoves
  <2>2. CASE DeleteArrives(s)
    BY <2>2, TextOfSnapshot, RemoteTexts DEF DeleteArrives, Remove, ServerMoves
  <2>3. CASE PreconditionFails(s) \/ PermanentError(s)
    BY <2>3 DEF PreconditionFails, PermanentError, ServerMoves
  <2>4. CASE AnswerLost(s)
    BY <2>4, TextOfSnapshot, RemoteTexts DEF AnswerLost, Remove, ServerMoves, serverVars
  <2> QED BY <1>3, <2>1, <2>2, <2>3, <2>4 DEF ServerAnswers
<1>4. CASE StartRound \/ EndReplay
  BY <1>4 DEF StartRound, EndReplay, ServerMoves
<1>5. ASSUME NEW s \in queue,
             \/ SkipConflict(s) \/ TakeConflict(s) \/ CloseUnsent(s) \/ Send(s)
             \/ Close(s) \/ FetchServerCopy(s) \/ CaptureServerCopy(s)
      PROVE  UNCHANGED serverVars
  BY <1>5 DEF SkipConflict, TakeConflict, CloseUnsent, Send, Close, FetchServerCopy,
              CaptureServerCopy
<1>6. CASE Download \/ RoundFails \/ Restart
  BY <1>6 DEF Download, List, ReadLocal, Report, PushDelete, Fetch, WriteBatch, Settle,
              WriteLast, DownloadFrame, RoundFails, Restart, ServerMoves
<1> QED BY <1>1, <1>2, <1>3, <1>4, <1>5, <1>6 DEF Next, Replay, ServerMoves

\* What a move of the server leaves.
LEMMA MoveFacts ==
  ASSUME Sane, RevisionsGrow, ServerMoves
  PROVE  /\ srvRev' \in Nat /\ srvRev <= srvRev'
         /\ \A o \in Obj : \/ srv'[o] = srv[o]
                           \/ srv'[o].chg = srvRev + 1 /\ srvRev' = srvRev + 1
         /\ \A o \in Obj : srv[o].chg \in Nat /\ srv'[o].chg \in Nat
         /\ RevisionsGrow'
<1>1. /\ srv \in [Obj -> Resource] /\ srvRev \in Nat
      /\ \A o \in Obj : srv[o].chg \in Nat /\ srv[o].chg <= srvRev
  BY DEF Sane, TypeOK, ServerTypeOK, Resource, RevisionsGrow
<1>2. CASE UNCHANGED serverVars
  BY <1>1, <1>2 DEF serverVars, RevisionsGrow, Held
<1>3. ASSUME NEW p \in Obj, NEW raw \in Text, Write(p, raw)
      PROVE  /\ srvRev' = srvRev + 1 /\ srv'[p].chg = srvRev + 1
             /\ \A o \in Obj : o # p => srv'[o] = srv[o]
  BY <1>1, <1>3 DEF Write
<1>4. CASE \E o \in Obj : \E raw \in Text : Write(o, raw)
  <2>1. PICK p \in Obj : /\ srvRev' = srvRev + 1 /\ srv'[p].chg = srvRev + 1
                         /\ \A o \in Obj : o # p => srv'[o] = srv[o]
    BY <1>3, <1>4
  <2> QED BY <1>1, <2>1 DEF RevisionsGrow, Held
<1> QED BY <1>2, <1>4 DEF ServerMoves

\* What was read stays true when the server moves.
DescribesNext(o, etag, raw) ==
  /\ srv'[o].chg > 0 /\ etag <= srv'[o].chg
  /\ etag = srv'[o].chg => raw = srv'[o].raw

LEMMA DescribesStays ==
  ASSUME Sane, RevisionsGrow, ServerMoves
  PROVE  \A o \in Obj : \A etag \in Nat : \A raw :
           Describes(o, etag, raw) => DescribesNext(o, etag, raw)
<1>1. \A o \in Obj : srv[o].chg <= srvRev /\ srvRev \in Nat
  BY DEF RevisionsGrow, Sane, TypeOK, ServerTypeOK
<1> QED BY <1>1, MoveFacts DEF Describes, DescribesNext

\* Rows, copies, batches and answers that are kept, or that are written with what
\* was read.
RowsFrom ==
  \A o \in Obj : \/ row'[o] = row[o]
                 \/ row'[o].mark # "none" \/ row'[o].raw = NoContent
                 \/ Describes(o, row'[o].etag, row'[o].raw)
CopiesFrom ==
  \A o \in Obj : \/ op'[o].srvEtag = op[o].srvEtag /\ op'[o].srvRaw = op[o].srvRaw
                 \/ op'[o].srvEtag = NoEtag /\ op'[o].srvRaw = NoContent
                 \/ Describes(o, op'[o].srvEtag, op'[o].srvRaw)
BatchFrom ==
  \A o \in Obj : \/ batch'[o] = batch[o]
                 \/ batch'[o].act # "upsert"
                 \/ Describes(o, batch'[o].etag, batch'[o].raw)
AnswerFrom == \/ UNCHANGED <<queue, answer, phase>>
              \/ phase' \notin {"closing", "storing"}
              \/ AnswerDescribes'

LEMMA RowsStay ==
  ASSUME Sane, Sane', RevisionsGrow, ServerMoves, RowsDescribe, RowsFrom
  PROVE  RowsDescribe'
<1>1. \A o \in Obj : row'[o].etag \in Nat
  BY DEF Sane, TypeOK, QueueTypeOK, Row
<1>2. \A o \in Obj : row'[o].mark = "none" /\ row'[o].raw # NoContent =>
        Describes(o, row'[o].etag, row'[o].raw)
  BY DEF RowsDescribe, RowsFrom, Stored
<1>3. \A o \in Obj : row'[o].mark = "none" /\ row'[o].raw # NoContent =>
        DescribesNext(o, row'[o].etag, row'[o].raw)
  BY <1>1, <1>2, DescribesStays
<1> QED BY <1>3 DEF RowsDescribe, Stored, Describes, DescribesNext

LEMMA CopiesStay ==
  ASSUME Sane, Sane', RevisionsGrow, ServerMoves, CopiesDescribe, CopiesFrom
  PROVE  CopiesDescribe'
<1>1. \A o \in Obj : op'[o].srvEtag \in Nat
  BY DEF Sane, TypeOK, QueueTypeOK, Operation
<1>2. \A o \in Obj : op'[o].srvEtag # NoEtag \/ op'[o].srvRaw # NoContent =>
        Describes(o, op'[o].srvEtag, op'[o].srvRaw)
  BY DEF CopiesDescribe, CopiesFrom, HasCopy
<1>3. \A o \in Obj : op'[o].srvEtag # NoEtag \/ op'[o].srvRaw # NoContent =>
        DescribesNext(o, op'[o].srvEtag, op'[o].srvRaw)
  BY <1>1, <1>2, DescribesStays
<1> QED BY <1>3 DEF CopiesDescribe, HasCopy, Describes, DescribesNext

LEMMA BatchStays ==
  ASSUME Sane, Sane', RevisionsGrow, ServerMoves, BatchDescribes, BatchFrom
  PROVE  BatchDescribes'
<1>1. \A o \in Obj : batch'[o].etag \in Nat
  BY DEF Sane, TypeOK, RoundTypeOK, Entry
<1>2. \A o \in Obj : batch'[o].act = "upsert" => Describes(o, batch'[o].etag, batch'[o].raw)
  BY DEF BatchDescribes, BatchFrom
<1>3. \A o \in Obj : batch'[o].act = "upsert" =>
        DescribesNext(o, batch'[o].etag, batch'[o].raw)
  BY <1>1, <1>2, DescribesStays
<1> QED BY <1>3 DEF BatchDescribes, Describes, DescribesNext

LEMMA AnswerStays ==
  ASSUME Sane, RevisionsGrow, ServerMoves, AnswerDescribes, AnswerFrom
  PROVE  AnswerDescribes'
<1>1. CASE phase' \notin {"closing", "storing"}
  BY <1>1 DEF AnswerDescribes
<1>2. CASE UNCHANGED <<queue, answer, phase>>
  <2>1. answer.etag \in Nat /\ \A s \in queue : s.obj \in Obj
    BY TextOfSnapshot DEF Sane, TypeOK, RoundTypeOK, Answer
  <2>2. \A s \in queue : \A raw :
          Describes(s.obj, answer.etag, raw) => DescribesNext(s.obj, answer.etag, raw)
    BY <2>1, DescribesStays
  <2>3. \A s \in queue : Current(s) =>
          /\ phase = "closing" /\ answer.kind \in {"etag", "refetch"} =>
               s.op.kind = "put" /\ DescribesNext(s.obj, answer.etag, s.op.payload)
          /\ phase = "storing" /\ answer.kind = "copy" =>
               DescribesNext(s.obj, answer.etag, answer.raw)
    BY <2>2 DEF AnswerDescribes
  <2> QED BY <1>2, <2>3 DEF AnswerDescribes, Current, Describes, DescribesNext
<1> QED BY <1>1, <1>2 DEF AnswerFrom

LEMMA ReadStays ==
  ASSUME Sane, Sane', ReadInv, ServerMoves, RowsFrom, CopiesFrom, BatchFrom, AnswerFrom
  PROVE  ReadInv'
  BY MoveFacts, RowsStay, CopiesStay, BatchStays, AnswerStays DEF ReadInv

\* What leaves the rows, the operations and the batch alone.
LEMMA KeptRows ==
  /\ row' = row => RowsFrom
  /\ op' = op => CopiesFrom
  /\ batch' = batch \/ batch' = NoBatch => BatchFrom
  BY DEF RowsFrom, CopiesFrom, BatchFrom, NoBatch, NoEntry

LEMMA PersonReads ==
  ASSUME Sane, ReadInv, NEW o \in Obj, Person(o)
  PROVE  RowsFrom /\ CopiesFrom /\ BatchFrom /\ AnswerFrom
<1>1. UNCHANGED roundVars
  BY DEF Person, Edit, Create, EditObject, Delete, BlindDelete, ResolveKeepLocal,
         ResolveTakeServer
<1>2. BatchFrom /\ AnswerFrom
  BY <1>1, KeptRows DEF roundVars, AnswerFrom
<1>3. row \in [Obj -> Row] /\ op \in [Obj -> Operation]
  BY DEF Sane, TypeOK, QueueTypeOK
<1>4. ASSUME NEW kind, NEW base, NEW payload, InsertPendingOp(o, kind, base, payload)
      PROVE  CopiesFrom
  BY <1>3, <1>4 DEF InsertPendingOp, CopiesFrom
<1>5. ASSUME NEW base, NEW raw, EnqueuePut(o, raw, base) PROVE RowsFrom /\ CopiesFrom
  BY <1>3, <1>4, <1>5 DEF EnqueuePut, RowsFrom
<1>6. ASSUME NEW base, EnqueueDelete(o, base) PROVE RowsFrom /\ CopiesFrom
  <2>1. \A p \in Obj : row'[p] = row[p] \/ row'[p].mark # "none"
    BY <1>3, <1>6 DEF EnqueueDelete, Row
  <2> QED BY <1>4, <1>6, <2>1 DEF EnqueueDelete, RowsFrom
<1>7. CASE Create(o) \/ EditObject(o)
  BY <1>2, <1>5, <1>7 DEF Create, EditObject
<1>8. CASE Delete(o) \/ BlindDelete(o)
  BY <1>2, <1>6, <1>8 DEF Delete, BlindDelete
<1>9. CASE ResolveKeepLocal(o)
  <2>1. row' = row
    BY <1>9 DEF ResolveKeepLocal, KeepLocal
  <2>2. CopiesFrom
    BY <1>3, <1>9 DEF ResolveKeepLocal, KeepLocal, CopiesFrom, Operation
  <2> QED BY <1>2, <2>1, <2>2, KeptRows
<1>10. CASE ResolveTakeServer(o)
  <2>1. /\ row'[o].raw = op[o].srvRaw /\ row'[o].etag = op[o].srvEtag
        /\ \A p \in Obj : p # o => row'[p] = row[p]
        /\ HasCopy(op[o])
    BY <1>3, <1>10 DEF ResolveTakeServer, TakeServer, HasCopy, Row
  <2>2. RowsFrom
    BY <2>1 DEF RowsFrom, ReadInv, CopiesDescribe
  <2>3. CopiesFrom
    BY <1>3, <1>10 DEF ResolveTakeServer, TakeServer, CopiesFrom, NoOp
  <2> QED BY <1>2, <2>2, <2>3
<1> QED BY <1>7, <1>8, <1>9, <1>10 DEF Person

\* The round is at one operation at a time.
LEMMA OneCurrent ==
  ASSUME Sane, RoundInv, NEW s \in queue, Current(s)
  PROVE  \A t \in queue : Current(t) => t = s
<1>1. \A t \in queue : t.op.id \in Nat
  BY QueuedFacts
<1>2. \A t \in queue : Current(t) => t.op.id = s.op.id
  BY <1>1 DEF Current
<1> QED BY <1>2 DEF RoundInv, OneEach

\* The answer to a write tells of what the server then has.
LEMMA AnswerIsRead ==
  ASSUME Sane, RoundInv, ReadInv, NEW s \in queue, ServerAnswers(s)
  PROVE  AnswerDescribes'
<1>0. queue' = queue /\ phase' = "closing" /\ Current(s)
  BY DEF ServerAnswers, Go
<1>1. \A t \in queue : Current(t) => t = s
  BY <1>0, OneCurrent
<1>2. /\ s.obj \in Obj /\ s.op.payload \in Text /\ srvRev \in Nat
      /\ srv \in [Obj -> Resource]
  BY TextOfSnapshot DEF Sane, TypeOK, ServerTypeOK
<1>3. ASSUME answer'.kind \in {"etag", "refetch"}
      PROVE  s.op.kind = "put" /\ Describes(s.obj, answer.etag, s.op.payload)'
  <2>1. PutArrives(s)
    BY <1>3 DEF ServerAnswers, DeleteArrives, PreconditionFails, AnswerLost, PermanentError, Says
  <2>2. CASE Write(s.obj, s.op.payload) /\ answer' = Says("etag", srvRev + 1, NoContent)
    BY <1>2, <2>1, <2>2 DEF PutArrives, Write, Says, Describes
  <2>3. CASE /\ Write(s.obj, s.op.payload) \/ RemoteWrite(s.obj)
             /\ answer' = Says("refetch", NoEtag, NoContent)
    <3>1. srv'[s.obj].chg = srvRev + 1
      BY <1>2, <2>3 DEF RemoteWrite, Write
    <3> QED BY <1>2, <2>1, <2>3, <3>1 DEF PutArrives, Says, Describes, NoEtag
  <2> QED BY <2>1, <2>2, <2>3 DEF PutArrives
<1> QED BY <1>0, <1>1, <1>3 DEF AnswerDescribes, Current, Describes

\* A close leaves an unmarked row only with the text it sent, under the ETag that
\* was answered.
LEMMA CloseReads ==
  ASSUME Sane, RoundInv, ReadInv, NEW s \in queue, Close(s)
  PROVE  RowsFrom /\ CopiesFrom
<1>1. /\ row \in [Obj -> Row] /\ op \in [Obj -> Operation] /\ s.obj \in Obj
      /\ phase = "closing" /\ Current(s)
  BY TextOfSnapshot DEF Sane, TypeOK, QueueTypeOK, Close
<1>2. CASE MarkConflict(s)
  BY <1>1, <1>2, KeptRows DEF MarkConflict, CopiesFrom, Operation
<1>3. CASE RetryLater(s)
  BY <1>1, <1>3, KeptRows DEF RetryLater, CopiesFrom, Operation
<1>4. CASE CompleteDelete(s)
  BY <1>1, <1>4 DEF CompleteDelete, RowsFrom, CopiesFrom, NoRow, NoOp
<1>5. CASE answer.kind \in {"etag", "refetch"} /\ CompletePut(s, answer.etag)
  <2>1. CASE ~Live(s)
    BY <1>5, <2>1, KeptRows DEF CompletePut
  <2>2. CASE Live(s)
    <3>1. s.op.kind = "put" /\ Describes(s.obj, answer.etag, s.op.payload)
      BY <1>1, <1>5 DEF ReadInv, AnswerDescribes
    <3>2. op[s.obj].kind = "put" /\ op[s.obj].payload = s.op.payload
      BY <2>2, <3>1 DEF RoundInv, SnapshotFaithful
    <3>3. row[s.obj].raw = s.op.payload
      BY <1>1, <3>2 DEF Sane, QueueInv, PendingEditIsShown
    <3>4. /\ \A p \in Obj : p # s.obj => row'[p] = row[p] /\ op'[p] = op[p]
          /\ op'[s.obj] = NoOp
          /\ row'[s.obj] = row[s.obj] \/ row'[s.obj].etag = answer.etag
          /\ row'[s.obj].raw = row[s.obj].raw
      BY <1>1, <1>5, <2>2 DEF CompletePut, Row
    <3> QED BY <3>1, <3>3, <3>4 DEF RowsFrom, CopiesFrom, NoOp
  <2> QED BY <2>1, <2>2
<1> QED BY <1>2, <1>3, <1>4, <1>5 DEF Close, RetryOrEscalate

LEMMA ReplayReads ==
  ASSUME Sane, RoundInv, ReadInv, Replay
  PROVE  RowsFrom /\ CopiesFrom /\ BatchFrom /\ AnswerFrom
<1>1. BatchFrom
  BY KeptRows DEF Replay, StartRound, SkipConflict, TakeConflict, CloseUnsent, Send,
                  ServerAnswers, Close, FetchServerCopy, CaptureServerCopy, EndReplay,
                  ReplayFrame
<1>2. CASE StartRound \/ EndReplay
  BY <1>1, <1>2, KeptRows DEF StartRound, EndReplay, Go, AnswerFrom, queueVars
<1>3. ASSUME NEW s \in queue, SkipConflict(s) \/ TakeConflict(s) \/ Send(s)
      PROVE  RowsFrom /\ CopiesFrom /\ AnswerFrom
  BY <1>3, KeptRows DEF SkipConflict, TakeConflict, Send, Go, AnswerFrom, queueVars
<1>4. ASSUME NEW s \in queue, CloseUnsent(s) PROVE RowsFrom /\ CopiesFrom /\ AnswerFrom
  <2>1. s.obj \in Obj /\ row \in [Obj -> Row] /\ op \in [Obj -> Operation]
    BY TextOfSnapshot DEF Sane, TypeOK, QueueTypeOK
  <2> QED BY <1>4, <2>1 DEF CloseUnsent, CompleteDelete, RowsFrom, CopiesFrom, AnswerFrom,
                            NoRow, NoOp
<1>5. ASSUME NEW s \in queue, ServerAnswers(s) PROVE RowsFrom /\ CopiesFrom /\ AnswerFrom
  <2>1. UNCHANGED queueVars
    BY <1>5 DEF ServerAnswers
  <2> QED BY <1>5, <2>1, AnswerIsRead, KeptRows DEF AnswerFrom, queueVars
<1>6. ASSUME NEW s \in queue, Close(s) PROVE RowsFrom /\ CopiesFrom /\ AnswerFrom
  <2>1. phase' \notin {"closing", "storing"}
    BY <1>6 DEF Close, Go
  <2> QED BY <1>6, <2>1, CloseReads DEF AnswerFrom
<1>7. ASSUME NEW s \in queue, FetchServerCopy(s) PROVE RowsFrom /\ CopiesFrom /\ AnswerFrom
  <2>1. UNCHANGED queueVars /\ UNCHANGED <<serverVars, queue>> /\ phase' = "storing" /\ Current(s)
    BY <1>7 DEF FetchServerCopy, Go
  <2>2. \A t \in queue : Current(t) => t = s
    BY <2>1, OneCurrent
  <2>3. ASSUME answer'.kind = "copy"
        PROVE  answer'.etag = srv[s.obj].chg /\ answer'.raw = srv[s.obj].raw /\ Held(s.obj)
    BY <1>7, <2>3 DEF FetchServerCopy, Says
  <2>4. s.obj \in Obj /\ srv[s.obj].chg \in Nat
    BY TextOfSnapshot DEF Sane, TypeOK, ServerTypeOK, Resource
  <2>5. answer'.kind = "copy" => Describes(s.obj, answer.etag, answer.raw)'
    BY <2>1, <2>3, <2>4 DEF ReadInv, RevisionsGrow, Describes, serverVars
  <2>6. AnswerDescribes'
    BY <2>1, <2>2, <2>5 DEF AnswerDescribes, Current, Describes
  <2> QED BY <2>1, <2>6, KeptRows DEF AnswerFrom, queueVars
<1>8. ASSUME NEW s \in queue, CaptureServerCopy(s) PROVE RowsFrom /\ CopiesFrom /\ AnswerFrom
  <2>1. /\ phase = "storing" /\ Current(s) /\ phase' = "replay"
        /\ s.obj \in Obj /\ op \in [Obj -> Operation]
    BY <1>8, TextOfSnapshot DEF CaptureServerCopy, Go, Sane, TypeOK, QueueTypeOK
  <2>2. CASE answer.kind = "copy" /\ StoreServerCopy(s, answer.etag, answer.raw)
    <3>1. Describes(s.obj, answer.etag, answer.raw)
      BY <2>1, <2>2 DEF ReadInv, AnswerDescribes
    <3>2. \A p \in Obj : \/ op'[p] = op[p]
                         \/ /\ p = s.obj
                            /\ op'[p].srvEtag = answer.etag /\ op'[p].srvRaw = answer.raw
      BY <2>1, <2>2 DEF StoreServerCopy, Operation
    <3>3. CopiesFrom
      BY <3>1, <3>2 DEF CopiesFrom
    <3> QED BY <2>1, <2>2, <3>3, KeptRows DEF StoreServerCopy, AnswerFrom
  <2>3. CASE CountConflictFetchAttempt(s)
    <3>1. CopiesFrom
      BY <2>1, <2>3 DEF CountConflictFetchAttempt, CopiesFrom, Operation
    <3> QED BY <2>1, <2>3, <3>1, KeptRows DEF CountConflictFetchAttempt, AnswerFrom
  <2> QED BY <1>8, <2>2, <2>3 DEF CaptureServerCopy
<1> QED BY <1>1, <1>2, <1>3, <1>4, <1>5, <1>6, <1>7, <1>8 DEF Replay

LEMMA DownloadReads ==
  ASSUME Sane, ReadInv, Download
  PROVE  RowsFrom /\ CopiesFrom /\ BatchFrom /\ AnswerFrom
<1>1. op' = op
  BY DEF Download, List, ReadLocal, Report, PushDelete, Fetch, WriteBatch, Settle, WriteLast,
         ApplyObjects, queueVars
<1>2. phase' \notin {"closing", "storing"}
  BY DEF Download, List, ReadLocal, Report, PushDelete, Fetch, WriteBatch, Settle, WriteLast,
         RoundOver, Go
<1>3. CopiesFrom /\ AnswerFrom
  BY <1>1, <1>2, KeptRows DEF AnswerFrom
<1>4. CASE List \/ ReadLocal \/ Report \/ Settle
  BY <1>3, <1>4, KeptRows DEF List, ReadLocal, Report, Settle, RoundOver, queueVars
<1>5. batch \in [Obj -> Entry] /\ \A o \in Obj : row[o] \in Row
  BY DEF Sane, TypeOK, RoundTypeOK, QueueTypeOK
<1>6. CASE PushDelete
  <2>1. \A o \in Obj : batch'[o] = batch[o] \/ batch'[o].act # "upsert"
    BY <1>5, <1>6 DEF PushDelete, NoEntry
  <2> QED BY <1>3, <1>6, <2>1, KeptRows DEF PushDelete, BatchFrom, queueVars
<1>7. CASE Fetch
  <2>1. srv \in [Obj -> Resource] /\ \A o \in Obj : srv[o].chg \in Nat
    BY DEF Sane, TypeOK, ServerTypeOK, Resource
  <2>2. ASSUME NEW o \in Obj, Held(o),
               batch' = [batch EXCEPT ![o] = [act |-> "upsert", etag |-> srv[o].chg,
                                              raw |-> srv[o].raw]]
        PROVE  BatchFrom
    <3>1. /\ batch'[o].etag = srv[o].chg /\ batch'[o].raw = srv[o].raw
          /\ \A p \in Obj : p # o => batch'[p] = batch[p]
      BY <1>5, <2>2
    <3> QED BY <2>1, <2>2, <3>1 DEF BatchFrom, Describes, ReadInv, RevisionsGrow
  <2>3. plan.fetch \subseteq Obj
    BY DEF Sane, TypeOK, RoundTypeOK
  <2>4. BatchFrom
    BY <1>7, <2>2, <2>3, KeptRows DEF Fetch
  <2> QED BY <1>3, <1>7, <2>4, KeptRows DEF Fetch, queueVars
<1>8. CASE WriteBatch \/ WriteLast
  <2>1. row' = [o \in Obj |-> Downloaded(row[o], batch[o])] /\ batch' = NoBatch
    BY <1>8 DEF WriteBatch, WriteLast, ApplyObjects, RoundOver
  <2>2. \A o \in Obj :
          \/ row'[o] = row[o] \/ row'[o] = NoRow
          \/ /\ batch[o].act = "upsert"
             /\ row'[o].etag = batch[o].etag /\ row'[o].raw = batch[o].raw
    BY <2>1 DEF Downloaded
  <2>3. RowsFrom
    BY <2>2 DEF RowsFrom, ReadInv, BatchDescribes, NoRow
  <2> QED BY <1>3, <2>1, <2>3, KeptRows
<1> QED BY <1>4, <1>6, <1>7, <1>8 DEF Download

LEMMA InitReads == Init => ReadInv
<1> SUFFICES ASSUME Init PROVE ReadInv
  OBVIOUS
<1>1. /\ \A o \in Obj : op[o] = NoOp /\ batch[o] = NoEntry
      /\ queue = {} /\ srvRev = 1
  BY DEF Init, QueueInit, ServerInit, NoBatch
<1>2. \A o \in Obj :
        \/ /\ srv[o].raw = <<"elsewhere", 1>> /\ srv[o].chg = 1
           /\ row[o].raw = <<"elsewhere", 1>> /\ row[o].etag = 1
        \/ srv[o].raw = NoContent /\ srv[o].chg = 0 /\ row[o] = NoRow
  BY DEF Init, QueueInit, ServerInit
<1>3. RevisionsGrow /\ RowsDescribe
  BY <1>1, <1>2 DEF RevisionsGrow, RowsDescribe, Describes, Held, Stored, NoRow
<1>4. CopiesDescribe /\ BatchDescribes /\ AnswerDescribes
  BY <1>1 DEF CopiesDescribe, BatchDescribes, AnswerDescribes, HasCopy, NoOp, NoEntry
<1> QED BY <1>3, <1>4 DEF ReadInv

LEMMA NextKeepsRead == Sane /\ Sane' /\ RoundInv /\ ReadInv /\ [Next]_vars => ReadInv'
<1> SUFFICES ASSUME Sane, Sane', RoundInv, ReadInv, [Next]_vars PROVE ReadInv'
  OBVIOUS
<1>1. ASSUME UNCHANGED <<queueVars, roundVars>> 
      PROVE  RowsFrom /\ CopiesFrom /\ BatchFrom /\ AnswerFrom
  BY <1>1, KeptRows DEF queueVars, roundVars, AnswerFrom
<1>2. CASE UNCHANGED vars
  BY <1>1, <1>2, ReadStays DEF vars, ServerMoves
<1>3. CASE Next
  <2>1. ASSUME NEW o \in Obj, Remote(o) PROVE UNCHANGED <<queueVars, roundVars>>
    BY <2>1 DEF Remote
  <2>2. ASSUME RoundFails \/ Restart PROVE RowsFrom /\ CopiesFrom /\ BatchFrom /\ AnswerFrom
    <3>1. row' = row /\ op' = op /\ batch' = NoBatch /\ phase' = "idle"
      BY <2>2 DEF RoundFails, Restart, RoundOver, Go, queueVars
    <3> QED BY <3>1, KeptRows DEF AnswerFrom
  <2>3. RowsFrom /\ CopiesFrom /\ BatchFrom /\ AnswerFrom
    BY <1>1, <1>3, <2>1, <2>2, PersonReads, ReplayReads, DownloadReads DEF Next
  <2> QED BY <1>3, <2>3, NextMovesServer, ReadStays
<1> QED BY <1>2, <1>3

LEMMA AlwaysRead == Spec => [](Sane /\ RoundInv /\ ReadInv)
<1>1. Init => ReadInv
  BY InitReads
<1>2. Sane /\ Sane' /\ RoundInv /\ ReadInv /\ [Next]_vars => ReadInv'
  BY NextKeepsRead
<1> QED BY <1>1, <1>2, AlwaysRound, PTL DEF Spec

\* An ETag that is kept, with an unmarked row or with the copy of a conflict,
\* names the text kept with it, whatever was lost, overwritten or read late: an
\* If-Match with it overwrites nothing this device has not had (dav/webdav.rs,
\* put; store/queue.rs, complete_put and store_server_copy).
THEOREM EtagsNameContent == Spec => []EtagNamesContent
BY AlwaysRead, ReadInvNamesContent, PTL

-----------------------------------------------------------------------------
(* While the person gives nothing up, what the token and the getctag say   *)
(* is up to date, is.  The plan of a round covers what the server had when *)
(* it answered, and what changes later is newer than what the round saves. *)

NothingDiscarded == {"take_server", "blind_delete"} \cap UserActs = {}

Downloading == {"local", "report", "fetch", "write"}
Planned     == {"fetch", "write"}

\* What is stored, listed or planned is of a revision the server has had.
NotAhead ==
  /\ token <= srvRev /\ ctag <= srvRev
  /\ phase \in Downloading => listed <= srvRev /\ token <= listed /\ ctag <= listed
  /\ phase \in Planned => plan.token <= srvRev

\* What the server acted on in this round is newer than the token.
AckIsNews ==
  phase = "closing" => \A s \in queue : Current(s) =>
    /\ answer.kind \in {"etag", "refetch"} => ~UpToDate(s.obj)
    /\ answer.kind = "done" => ~UpToDate(s.obj) \/ ~Held(s.obj)

\* The ETags the plan compares are still those of what nobody edited.
LocalIsRow ==
  phase = "report" => \A o \in Obj : ~Queued(o) =>
    local[o].has = Stored(o) /\ local[o].etag = row[o].etag

\* Everything the round will call up to date, and nobody edited, is about to be
\* deleted, fetched or written, did not come, or is as the server has it.
Covered(o) == srv[o].chg <= listed \/ srv[o].chg <= plan.token
InHand(o)  == o \in plan.delete \cup plan.fetch \cup missing \/ batch[o].act # "none"
PlanIsTrue(o) ==
  /\ o \in plan.delete \/ batch[o].act = "delete" => ~Held(o)
  /\ batch[o].act = "upsert" => batch[o].raw = srv[o].raw
PlanCovers ==
  IF phase \in Planned
    THEN \A o \in Obj : Covered(o) =>
           PlanIsTrue(o) /\ (Queued(o) \/ o \in gaveUp \/ InHand(o) \/ row[o].raw = srv[o].raw)
    ELSE batch = NoBatch
LastIsAll ==
  phase = "write" =>
    plan.delete = {} /\ plan.fetch = {} /\ (hold \/ missing \subseteq gaveUp)

StoredIsCurrent ==
  \A o \in Obj : UpToDate(o) /\ ~Queued(o) /\ o \notin gaveUp => row[o].raw = srv[o].raw

TokenInv == NotAhead /\ AckIsNews /\ LocalIsRow /\ PlanCovers /\ LastIsAll /\ StoredIsCurrent

LEMMA TokenInvIsCurrent == TokenInv => SettledRowsAreCurrent
  BY DEF TokenInv, StoredIsCurrent, SettledRowsAreCurrent

\* What nobody edits keeps its row.
QueueGrows == \A o \in Obj : ~Queued(o)' => ~Queued(o) /\ row'[o] = row[o]

LEMMA NumberTypes ==
  ASSUME Sane
  PROVE  /\ token \in Nat /\ ctag \in Nat /\ listed \in Nat /\ srvRev \in Nat
         /\ plan.token \in Nat /\ plan.delete \subseteq Obj /\ plan.fetch \subseteq Obj
         /\ \A o \in Obj : srv[o].chg \in Nat
         /\ batch \in [Obj -> Entry]
  BY DEF Sane, TypeOK, RoundTypeOK, ServerTypeOK, Resource

\* The person and the other clients disturb nothing of it.
LEMMA OthersKeepToken ==
  ASSUME Sane, RevisionsGrow, TokenInv, ServerMoves, QueueGrows,
         UNCHANGED <<token, ctag, roundVars, gaveUp>>
  PROVE  TokenInv'
<1>1. /\ UNCHANGED <<token, ctag, gaveUp>>
      /\ UNCHANGED <<phase, queue, answer, listed, local, plan, batch, missing, hold>>
  BY DEF roundVars
<1>2. NotAhead'
  BY <1>1, MoveFacts, NumberTypes DEF TokenInv, NotAhead
<1>3. \A o \in Obj : \/ srv'[o] = srv[o]
                     \/ ~UpToDate(o)' /\ (phase \in Planned => ~Covered(o)')
  BY <1>1, MoveFacts, NumberTypes DEF TokenInv, NotAhead, UpToDate, Covered, Downloading, Planned
<1>4. AckIsNews'
  <2>1. \A s \in queue : s.obj \in Obj /\ (Current(s)' <=> Current(s))
    BY <1>1, TextOfSnapshot DEF Current
  <2>2. \A o \in Obj : ~UpToDate(o) => ~UpToDate(o)'
    BY <1>1, <1>3 DEF UpToDate
  <2>3. \A o \in Obj : ~Held(o) => ~Held(o)' \/ ~UpToDate(o)'
    BY <1>3 DEF Held
  <2> QED BY <1>1, <2>1, <2>2, <2>3 DEF TokenInv, AckIsNews
<1>5. LocalIsRow'
  BY <1>1 DEF TokenInv, LocalIsRow, QueueGrows, Stored
<1>6. PlanCovers'
  <2>1. CASE phase \notin Planned
    BY <1>1, <2>1 DEF TokenInv, PlanCovers
  <2>2. CASE phase \in Planned
    <3>1. ASSUME NEW o \in Obj, Covered(o)'
          PROVE  /\ PlanIsTrue(o)'
                 /\ (Queued(o) \/ o \in gaveUp \/ InHand(o) \/ row[o].raw = srv[o].raw)'
      <4>1. srv'[o] = srv[o]
        BY <1>3, <2>2, <3>1
      <4>2. Covered(o)
        BY <1>1, <3>1, <4>1 DEF Covered
      <4> QED BY <1>1, <2>2, <4>1, <4>2
              DEF TokenInv, PlanCovers, PlanIsTrue, InHand, QueueGrows, Held
    <3> QED BY <1>1, <2>2, <3>1 DEF PlanCovers
  <2> QED BY <2>1, <2>2
<1>7. LastIsAll'
  BY <1>1 DEF TokenInv, LastIsAll
<1>8. StoredIsCurrent'
  BY <1>1, <1>3 DEF TokenInv, StoredIsCurrent, QueueGrows, UpToDate
<1> QED BY <1>2, <1>4, <1>5, <1>6, <1>7, <1>8 DEF TokenInv

LEMMA PersonGrows ==
  ASSUME Sane, NothingDiscarded, NEW o \in Obj, Person(o)
  PROVE  QueueGrows /\ UNCHANGED <<token, ctag, roundVars, gaveUp>>
<1>1. UNCHANGED <<token, ctag, roundVars, gaveUp>>
  BY DEF Person, Edit, Create, EditObject, Delete, BlindDelete, ResolveKeepLocal,
         ResolveTakeServer
<1>2. row \in [Obj -> Row] /\ op \in [Obj -> Operation]
  BY DEF Sane, TypeOK, QueueTypeOK
<1>3. ASSUME NEW kind \in Kinds, NEW base, NEW payload, InsertPendingOp(o, kind, base, payload)
      PROVE  op'[o].kind # "none" /\ \A p \in Obj : p # o => op'[p] = op[p]
  BY <1>2, <1>3 DEF InsertPendingOp, Kinds
<1>4. "put" \in Kinds /\ "delete" \in Kinds
  BY DEF Kinds
<1>5. ASSUME NEW base, NEW raw, EnqueuePut(o, raw, base) PROVE QueueGrows
  <2>1. \A p \in Obj : p # o => row'[p] = row[p]
    BY <1>2, <1>5 DEF EnqueuePut
  <2> QED BY <1>3, <1>4, <1>5, <2>1 DEF EnqueuePut, QueueGrows, Queued
<1>6. ASSUME NEW base, EnqueueDelete(o, base) PROVE QueueGrows
  <2>1. \A p \in Obj : p # o => row'[p] = row[p]
    BY <1>2, <1>6 DEF EnqueueDelete
  <2> QED BY <1>3, <1>4, <1>6, <2>1 DEF EnqueueDelete, QueueGrows, Queued
<1>7. CASE Create(o) \/ EditObject(o)
  BY <1>1, <1>5, <1>7 DEF Create, EditObject
<1>8. CASE Delete(o)
  BY <1>1, <1>6, <1>8 DEF Delete
<1>9. CASE ResolveKeepLocal(o)
  <2>1. row' = row /\ \A p \in Obj : op'[p].kind = op[p].kind
    BY <1>2, <1>9 DEF ResolveKeepLocal, KeepLocal, Operation
  <2> QED BY <1>1, <2>1 DEF QueueGrows, Queued
<1>10. ~BlindDelete(o) /\ ~ResolveTakeServer(o)
  BY DEF BlindDelete, ResolveTakeServer, Edit, NothingDiscarded
<1> QED BY <1>7, <1>8, <1>9, <1>10 DEF Person

\* Neither does the first half of a round: what it closes is newer than the token,
\* or as the server has it.
SettlesRight ==
  \A o \in Obj : ~Queued(o)' =>
    \/ ~Queued(o) /\ row'[o] = row[o]
    \/ ~UpToDate(o) \/ (row'[o].raw = NoContent /\ ~Held(o))

LEMMA ReplayStays ==
  ASSUME Sane, RevisionsGrow, TokenInv, ServerMoves, SettlesRight, AckIsNews',
         UNCHANGED <<token, ctag, batch, gaveUp>>,
         phase \notin Downloading, phase' \notin Downloading
  PROVE  TokenInv'
<1>1. PlanCovers'
  BY DEF TokenInv, PlanCovers, Planned, Downloading
<1>2. LocalIsRow' /\ LastIsAll'
  BY DEF LocalIsRow, LastIsAll, Downloading
<1>3. \A o \in Obj : srv'[o] = srv[o] \/ ~UpToDate(o)'
  BY MoveFacts, NumberTypes DEF TokenInv, NotAhead, UpToDate
<1>4. StoredIsCurrent'
  BY <1>3 DEF TokenInv, StoredIsCurrent, SettlesRight, UpToDate, Held
<1>5. NotAhead'
  BY MoveFacts, NumberTypes DEF TokenInv, NotAhead, Downloading, Planned
<1> QED BY <1>1, <1>2, <1>4, <1>5 DEF TokenInv

\* What an answer says has a revision of its own, newer than any the store has.
LEMMA AnswerIsNews ==
  ASSUME Sane, RoundInv, ReadInv, TokenInv, NEW s \in queue, ServerAnswers(s)
  PROVE  AckIsNews'
<1>1. /\ queue' = queue /\ phase' = "closing" /\ Current(s)
      /\ UNCHANGED <<token, ctag>>
  BY DEF ServerAnswers, Go, ReplayFrame
<1>2. \A t \in queue : Current(t) => t = s
  BY <1>1, OneCurrent
<1>3. s.obj \in Obj /\ srv \in [Obj -> Resource] /\ srvRev \in Nat /\ token \in Nat /\ ctag \in Nat
  BY TextOfSnapshot, NumberTypes DEF Sane, TypeOK, ServerTypeOK
<1>4. token <= srvRev /\ ctag <= srvRev
  BY DEF TokenInv, NotAhead
<1>5. ASSUME NEW raw, Write(s.obj, raw) PROVE ~UpToDate(s.obj)'
  <2>1. srv'[s.obj].chg = srvRev + 1
    BY <1>3, <1>5 DEF Write
  <2> QED BY <1>1, <1>3, <1>4, <2>1 DEF UpToDate
<1>6. ASSUME answer'.kind \in {"etag", "refetch"} PROVE ~UpToDate(s.obj)'
  <2>1. PutArrives(s)
    BY <1>6 DEF ServerAnswers, DeleteArrives, PreconditionFails, AnswerLost, PermanentError, Says
  <2> QED BY <1>5, <2>1 DEF PutArrives, RemoteWrite
<1>7. ASSUME answer'.kind = "done" PROVE ~UpToDate(s.obj)' \/ ~Held(s.obj)'
  <2>1. DeleteArrives(s)
    BY <1>7 DEF ServerAnswers, PutArrives, PreconditionFails, AnswerLost, PermanentError, Says
  <2> QED BY <1>5, <2>1 DEF DeleteArrives, Remove, serverVars, Held
<1> QED BY <1>1, <1>2, <1>6, <1>7 DEF AckIsNews, Current

LEMMA CloseSettles ==
  ASSUME Sane, TokenInv, NEW s \in queue, Close(s)
  PROVE  SettlesRight
<1>1. /\ row \in [Obj -> Row] /\ op \in [Obj -> Operation] /\ s.obj \in Obj
      /\ phase = "closing" /\ Current(s)
  BY TextOfSnapshot DEF Sane, TypeOK, QueueTypeOK, Close
<1>2. CASE MarkConflict(s)
  <2>1. row' = row /\ \A p \in Obj : op'[p].kind = op[p].kind
    BY <1>1, <1>2 DEF MarkConflict, Operation
  <2> QED BY <2>1 DEF SettlesRight, Queued
<1>3. CASE RetryLater(s)
  <2>1. row' = row /\ \A p \in Obj : op'[p].kind = op[p].kind
    BY <1>1, <1>3 DEF RetryLater, Operation
  <2> QED BY <2>1 DEF SettlesRight, Queued
<1>4. ASSUME \A p \in Obj : p # s.obj => row'[p] = row[p] /\ op'[p] = op[p],
             ~UpToDate(s.obj) \/ (row'[s.obj].raw = NoContent /\ ~Held(s.obj))
      PROVE  SettlesRight
  BY <1>4 DEF SettlesRight, Queued
<1>5. CASE answer.kind = "done" /\ CompleteDelete(s)
  <2>1. ~UpToDate(s.obj) \/ ~Held(s.obj)
    BY <1>1, <1>5 DEF TokenInv, AckIsNews
  <2>2. CASE Live(s)
    BY <1>1, <1>4, <1>5, <2>1, <2>2 DEF CompleteDelete, NoRow
  <2>3. CASE ~Live(s)
    BY <1>5, <2>3 DEF CompleteDelete, SettlesRight, Queued
  <2> QED BY <2>2, <2>3
<1>6. CASE answer.kind \in {"etag", "refetch"} /\ CompletePut(s, answer.etag)
  <2>1. ~UpToDate(s.obj)
    BY <1>1, <1>6 DEF TokenInv, AckIsNews
  <2>2. CASE Live(s)
    <3>1. \A p \in Obj : p # s.obj => row'[p] = row[p] /\ op'[p] = op[p]
      BY <1>1, <1>6, <2>2 DEF CompletePut
    <3> QED BY <1>4, <2>1, <3>1
  <2>3. CASE ~Live(s)
    BY <1>6, <2>3 DEF CompletePut, SettlesRight, Queued
  <2> QED BY <2>2, <2>3
<1> QED BY <1>2, <1>3, <1>5, <1>6 DEF Close, RetryOrEscalate

LEMMA ReplayKeepsToken ==
  ASSUME Sane, RoundInv, ReadInv, TokenInv, NothingDiscarded, ServerMoves, Replay
  PROVE  TokenInv'
<1>1. /\ UNCHANGED <<token, ctag, batch, gaveUp>>
      /\ phase \notin Downloading /\ phase' \notin Downloading
  <2>1. UNCHANGED <<token, ctag, batch, gaveUp>>
    BY DEF Replay, StartRound, SkipConflict, TakeConflict, CloseUnsent, Send, ServerAnswers,
           Close, FetchServerCopy, CaptureServerCopy, EndReplay, ReplayFrame
  <2>2. phase \notin Downloading
    BY DEF Replay, StartRound, SkipConflict, TakeConflict, CloseUnsent, Send, ServerAnswers,
           Close, FetchServerCopy, CaptureServerCopy, EndReplay, Downloading
  <2>3. phase' \notin Downloading
    BY DEF Replay, StartRound, SkipConflict, TakeConflict, CloseUnsent, Send, ServerAnswers,
           Close, FetchServerCopy, CaptureServerCopy, EndReplay, Downloading, Go
  <2> QED BY <2>1, <2>2, <2>3
<1>2. ASSUME SettlesRight, AckIsNews' PROVE TokenInv'
  BY <1>1, <1>2, ReplayStays DEF ReadInv
<1>3. ASSUME UNCHANGED queueVars PROVE SettlesRight
  BY <1>3 DEF queueVars, SettlesRight, Queued
<1>4. CASE StartRound \/ EndReplay
  <2>1. AckIsNews' /\ UNCHANGED queueVars
    BY <1>4 DEF StartRound, EndReplay, AckIsNews, Go
  <2> QED BY <1>2, <1>3, <2>1
<1>5. ASSUME NEW s \in queue,
             SkipConflict(s) \/ TakeConflict(s) \/ Send(s) \/ FetchServerCopy(s)
      PROVE  TokenInv'
  <2>1. AckIsNews' /\ UNCHANGED queueVars
    BY <1>5 DEF SkipConflict, TakeConflict, Send, FetchServerCopy, AckIsNews, Go
  <2> QED BY <1>2, <1>3, <2>1
<1>6. ASSUME NEW s \in queue PROVE ~CloseUnsent(s)
  BY <1>6 DEF CloseUnsent, RoundInv, BlindIsAsked, NothingDiscarded
<1>7. ASSUME NEW s \in queue, ServerAnswers(s) PROVE TokenInv'
  <2>1. UNCHANGED queueVars
    BY <1>7 DEF ServerAnswers
  <2> QED BY <1>2, <1>3, <1>7, <2>1, AnswerIsNews
<1>8. ASSUME NEW s \in queue, Close(s) PROVE TokenInv'
  <2>1. AckIsNews'
    BY <1>8 DEF Close, AckIsNews, Go
  <2> QED BY <1>2, <1>8, <2>1, CloseSettles
<1>9. ASSUME NEW s \in queue, CaptureServerCopy(s) PROVE TokenInv'
  <2>1. AckIsNews'
    BY <1>9 DEF CaptureServerCopy, AckIsNews, Go
  <2>2. op \in [Obj -> Operation]
    BY DEF Sane, TypeOK, QueueTypeOK
  <2>3. row' = row /\ \A p \in Obj : op'[p].kind = op[p].kind
    BY <1>9, <2>2 DEF CaptureServerCopy, StoreServerCopy, CountConflictFetchAttempt, Operation
  <2>4. SettlesRight
    BY <2>3 DEF SettlesRight, Queued
  <2> QED BY <1>2, <2>1, <2>4
<1> QED BY <1>4, <1>5, <1>6, <1>7, <1>8, <1>9 DEF Replay

\* The steps of the second half of a round, one by one.
LEMMA ListKeepsToken ==
  ASSUME Sane, TokenInv, List
  PROVE  TokenInv'
<1>1. /\ phase = "list" /\ phase' \in {"idle", "local"}
      /\ phase' = "local" => listed' = srvRev
      /\ batch' = NoBatch
      /\ UNCHANGED <<row, op, srv, srvRev, token, ctag, gaveUp>>
  BY DEF List, RoundOver, Go, TokenInv, PlanCovers, Planned, queueVars, serverVars
<1> QED BY <1>1, NumberTypes
        DEF TokenInv, NotAhead, AckIsNews, LocalIsRow, PlanCovers, LastIsAll, StoredIsCurrent,
            UpToDate, Queued, Planned, Downloading

LEMMA ReadLocalKeepsToken ==
  ASSUME Sane, TokenInv, ReadLocal
  PROVE  TokenInv'
<1>1. /\ phase = "local" /\ phase' = "report"
      /\ \A o \in Obj : local'[o].has = Stored(o) /\ local'[o].etag = row[o].etag
      /\ UNCHANGED <<row, op, srv, srvRev, token, ctag, gaveUp, listed, batch, plan>>
  BY DEF ReadLocal, Go, DownloadFrame, queueVars, serverVars
<1>2. LocalIsRow'
  BY <1>1 DEF LocalIsRow, Stored
<1> QED BY <1>1, <1>2, NumberTypes
        DEF TokenInv, NotAhead, AckIsNews, PlanCovers, LastIsAll, StoredIsCurrent,
            UpToDate, Queued, Planned, Downloading

\* The plan, whichever way it is made, misses nothing.
LEMMA ReportKeepsToken ==
  ASSUME Sane, ReadInv, TokenInv, Report
  PROVE  TokenInv'
<1>1. /\ phase = "report" /\ phase' = "fetch"
      /\ UNCHANGED <<row, op, srv, srvRev, token, ctag, gaveUp, listed, local, batch>>
      /\ batch = NoBatch
  BY DEF Report, Go, DownloadFrame, queueVars, serverVars, TokenInv, PlanCovers, Planned
<1>2. plan'.token \in {0, srvRev}
  BY DEF Report, PlanDelta, PlanFull, PlanByEtag
<1>3. \A o \in Obj : o \in plan'.delete => ~Held(o)
  BY DEF Report, PlanDelta, PlanFull, PlanByEtag, AllHeld
<1>4. ASSUME NEW o \in Obj, ~Queued(o), o \notin gaveUp
      PROVE  o \in plan'.delete \cup plan'.fetch \/ row[o].raw = srv[o].raw
  <2>1. local[o].has = Stored(o) /\ local[o].etag = row[o].etag
    BY <1>1, <1>4 DEF TokenInv, LocalIsRow
  <2>2. row[o].mark = "none"
    BY <1>4 DEF Sane, QueueInv, MarkedRowHasOp, Queued
  <2>3. Stored(o) /\ row[o].etag = srv[o].chg => row[o].raw = srv[o].raw
    BY <2>2, ReadInvNamesContent DEF EtagNamesContent
  <2>4. ~Held(o) /\ ~Stored(o) => row[o].raw = srv[o].raw
    BY DEF Held, Stored
  <2>5. Held(o) => o \in ToFetch(AllHeld) \/ row[o].raw = srv[o].raw
    BY <2>1, <2>3 DEF ToFetch, AllHeld
  <2>6. CASE PlanFull \/ PlanByEtag
    BY <2>1, <2>4, <2>5, <2>6 DEF PlanFull, PlanByEtag, AllHeld
  <2>7. CASE PlanDelta
    <3>1. CASE o \in ChangedSince(token)
      <4>1. Held(o) => o \in ToFetch(ChangedSince(token) \cap AllHeld) \/ row[o].raw = srv[o].raw
        BY <2>5, <3>1 DEF ToFetch
      <4> QED BY <2>1, <2>4, <2>7, <3>1, <4>1 DEF PlanDelta, AllHeld
    <3>2. CASE o \notin ChangedSince(token)
      BY <1>4, <3>2, NumberTypes DEF ChangedSince, TokenInv, StoredIsCurrent, UpToDate
    <3> QED BY <3>1, <3>2
  <2> QED BY <2>6, <2>7 DEF Report
<1>5. PlanCovers'
  <2>1. \A o \in Obj : batch[o].act = "none"
    BY <1>1 DEF NoBatch, NoEntry
  <2> QED BY <1>1, <1>3, <1>4, <2>1
          DEF PlanCovers, PlanIsTrue, InHand, Planned, Held, Queued
<1>6. NotAhead'
  BY <1>1, <1>2, NumberTypes DEF TokenInv, NotAhead, Downloading, Planned
<1> QED BY <1>1, <1>5, <1>6
        DEF TokenInv, AckIsNews, LocalIsRow, LastIsAll, StoredIsCurrent, UpToDate, Queued

LEMMA FetchingKeepsToken ==
  ASSUME Sane, TokenInv, PushDelete \/ Fetch
  PROVE  TokenInv'
<1>1. /\ phase = "fetch" /\ phase' = "fetch"
      /\ UNCHANGED <<row, op, srv, srvRev, token, ctag, gaveUp, listed>>
  BY DEF PushDelete, Fetch, DownloadFrame, queueVars, serverVars
<1>2. plan \in [delete : SUBSET Obj, fetch : SUBSET Obj, token : Nat] /\ batch \in [Obj -> Entry]
  BY DEF Sane, TypeOK, RoundTypeOK
<1>3. PICK o \in Obj :
        /\ \A p \in Obj : p # o => batch'[p] = batch[p]
        /\ plan'.token = plan.token
        /\ plan'.delete \subseteq plan.delete /\ plan.delete \subseteq plan'.delete \cup {o}
        /\ plan'.fetch \subseteq plan.fetch /\ plan.fetch \subseteq plan'.fetch \cup {o}
        /\ missing \subseteq missing'
        /\ \/ o \in plan.delete /\ batch'[o].act = "delete"
           \/ batch'[o].act = "upsert" /\ batch'[o].raw = srv[o].raw
           \/ batch' = batch /\ o \in missing' /\ plan'.delete = plan.delete
  <2>1. CASE PushDelete
    <3>1. PICK o \in plan.delete :
            /\ batch' = [batch EXCEPT ![o] = [NoEntry EXCEPT !.act = "delete"]]
            /\ plan' = [plan EXCEPT !.delete = plan.delete \ {o}]
            /\ missing' = missing
      BY <2>1 DEF PushDelete
    <3>2. batch'[o].act = "delete" /\ \A p \in Obj : p # o => batch'[p] = batch[p]
      BY <1>2, <3>1 DEF NoEntry
    <3> QED BY <1>2, <3>1, <3>2
  <2>2. CASE Fetch
    <3>1. PICK o \in plan.fetch :
            /\ \/ /\ batch' = [batch EXCEPT ![o] =
                       [act |-> "upsert", etag |-> srv[o].chg, raw |-> srv[o].raw]]
                  /\ missing' = missing
               \/ missing' = missing \cup {o} /\ batch' = batch
            /\ plan' = [plan EXCEPT !.fetch = plan.fetch \ {o}]
      BY <2>2 DEF Fetch
    <3>2. /\ plan'.token = plan.token /\ plan'.delete = plan.delete
          /\ plan'.fetch = plan.fetch \ {o} /\ o \in Obj
      BY <1>2, <3>1
    <3>3. CASE missing' = missing \cup {o} /\ batch' = batch
      BY <3>2, <3>3
    <3>4. CASE /\ batch' = [batch EXCEPT ![o] =
                    [act |-> "upsert", etag |-> srv[o].chg, raw |-> srv[o].raw]]
               /\ missing' = missing
      <4>1. /\ batch'[o].act = "upsert" /\ batch'[o].raw = srv[o].raw
            /\ \A p \in Obj : p # o => batch'[p] = batch[p]
        BY <1>2, <3>2, <3>4
      <4> QED BY <3>2, <3>4, <4>1
    <3> QED BY <3>1, <3>3, <3>4
  <2> QED BY <2>1, <2>2
<1>4. PlanCovers'
  <2>1. ASSUME NEW p \in Obj, Covered(p)'
        PROVE  /\ PlanIsTrue(p)'
               /\ (Queued(p) \/ p \in gaveUp \/ InHand(p) \/ row[p].raw = srv[p].raw)'
    <3>1. Covered(p)
      BY <1>1, <1>3, <2>1 DEF Covered
    <3>2. /\ PlanIsTrue(p)
          /\ Queued(p) \/ p \in gaveUp \/ InHand(p) \/ row[p].raw = srv[p].raw
      BY <1>1, <3>1 DEF TokenInv, PlanCovers, Planned
    <3>3. PlanIsTrue(p)'
      BY <1>1, <1>3, <3>2 DEF PlanIsTrue, Held
    <3>4. InHand(p) => InHand(p)'
      BY <1>3 DEF InHand
    <3> QED BY <1>1, <3>2, <3>3, <3>4 DEF Queued
  <2> QED BY <1>1, <2>1 DEF PlanCovers, Planned
<1>5. NotAhead'
  BY <1>1, <1>3 DEF TokenInv, NotAhead, Planned, Downloading
<1> QED BY <1>1, <1>4, <1>5
        DEF TokenInv, AckIsNews, LocalIsRow, LastIsAll, StoredIsCurrent, UpToDate, Queued

\* A write leaves what nobody edited as the server has it, where it leaves anything.
LEMMA WriteFacts ==
  ASSUME Sane, TokenInv, phase \in Planned, ApplyObjects(batch), NEW o \in Obj, ~Queued(o),
         Covered(o)
  PROVE  IF batch[o].act = "none" THEN row'[o] = row[o] ELSE row'[o].raw = srv[o].raw
<1>1. row[o].mark = "none"
  BY DEF Sane, QueueInv, MarkedRowHasOp, Queued
<1>2. row'[o] = Downloaded(row[o], batch[o])
  BY DEF ApplyObjects
<1>3. batch[o].act \in {"none", "delete", "upsert"}
  BY NumberTypes DEF Entry
<1>4. /\ batch[o].act = "delete" => srv[o].raw = NoContent
      /\ batch[o].act = "upsert" => batch[o].raw = srv[o].raw
  BY DEF TokenInv, PlanCovers, PlanIsTrue, Held
<1> QED BY <1>1, <1>2, <1>3, <1>4 DEF Downloaded, NoRow

LEMMA UpToDateIsCovered ==
  ASSUME Sane, TokenInv, phase \in Planned, NEW o \in Obj, UpToDate(o)
  PROVE  Covered(o)
  BY NumberTypes DEF TokenInv, NotAhead, Planned, Downloading, UpToDate, Covered

LEMMA WriteBatchKeepsToken ==
  ASSUME Sane, TokenInv, WriteBatch
  PROVE  TokenInv'
<1>1. /\ phase = "fetch" /\ phase' = "fetch" /\ ApplyObjects(batch) /\ batch' = NoBatch
      /\ UNCHANGED <<op, srv, srvRev, token, ctag, gaveUp, listed, plan, missing>>
  BY DEF WriteBatch, ApplyObjects, DownloadFrame, serverVars
<1>2. ASSUME NEW o \in Obj, Covered(o), ~Queued(o)
      PROVE  IF batch[o].act = "none" THEN row'[o] = row[o] ELSE row'[o].raw = srv[o].raw
  BY <1>1, <1>2, WriteFacts DEF Planned
<1>3. ASSUME NEW o \in Obj, Covered(o)'
      PROVE  PlanIsTrue(o)' /\ (Queued(o) \/ o \in gaveUp \/ InHand(o) \/ row[o].raw = srv[o].raw)'
  <2>1. Covered(o)
    BY <1>1, <1>3 DEF Covered
  <2>2. /\ PlanIsTrue(o)
        /\ Queued(o) \/ o \in gaveUp \/ InHand(o) \/ row[o].raw = srv[o].raw
    BY <1>1, <2>1 DEF TokenInv, PlanCovers, Planned
  <2>3. batch'[o].act = "none"
    BY <1>1 DEF NoBatch, NoEntry
  <2> QED BY <1>1, <1>2, <2>1, <2>2, <2>3 DEF PlanIsTrue, InHand, Queued, Held
<1>4. PlanCovers'
  BY <1>1, <1>3 DEF PlanCovers, Planned
<1>5. StoredIsCurrent'
  <2>1. \A o \in Obj : UpToDate(o) => Covered(o)
    BY <1>1, UpToDateIsCovered DEF Planned
  <2> QED BY <1>1, <1>2, <2>1 DEF TokenInv, StoredIsCurrent, UpToDate, Queued
<1>6. NotAhead'
  BY <1>1 DEF TokenInv, NotAhead, Planned, Downloading
<1> QED BY <1>1, <1>4, <1>5, <1>6 DEF TokenInv, AckIsNews, LocalIsRow, LastIsAll

LEMMA SettleKeepsToken ==
  ASSUME Sane, TokenInv, Settle
  PROVE  TokenInv'
<1>1. /\ phase = "fetch" /\ phase' = "write" /\ plan.delete = {} /\ plan.fetch = {}
      /\ UNCHANGED <<row, op, srv, srvRev, token, ctag, listed, plan, batch, missing>>
  BY DEF Settle, Go, DownloadFrame, queueVars, serverVars
<1>2. gaveUp \subseteq gaveUp' /\ (hold' \/ missing \subseteq gaveUp')
  BY DEF Settle
<1>3. hold' \in BOOLEAN
  BY DEF Settle, Sane, TypeOK, RoundTypeOK
<1>4. LastIsAll'
  BY <1>1, <1>2, <1>3 DEF LastIsAll
<1>5. PlanCovers'
  BY <1>1, <1>2
     DEF TokenInv, PlanCovers, PlanIsTrue, InHand, Planned, Covered, Queued, Held
<1>6. NotAhead'
  BY <1>1 DEF TokenInv, NotAhead, Planned, Downloading
<1> QED BY <1>1, <1>2, <1>4, <1>5, <1>6
        DEF TokenInv, AckIsNews, LocalIsRow, StoredIsCurrent, UpToDate, Queued

\* The last write saves the token only when all it covers was written.
LEMMA WriteLastKeepsToken ==
  ASSUME Sane, TokenInv, WriteLast
  PROVE  TokenInv'
<1>1. /\ phase = "write" /\ phase' = "idle" /\ ApplyObjects(batch) /\ batch' = NoBatch
      /\ UNCHANGED <<op, srv, srvRev, gaveUp>>
      /\ \/ hold /\ token' = token /\ ctag' = ctag
         \/ ~hold /\ token' = plan.token /\ ctag' = listed
  BY DEF WriteLast, ApplyObjects, RoundOver, Go, serverVars
<1>2. ASSUME NEW o \in Obj, Covered(o), ~Queued(o)
      PROVE  IF batch[o].act = "none" THEN row'[o] = row[o] ELSE row'[o].raw = srv[o].raw
  BY <1>1, <1>2, WriteFacts DEF Planned
<1>3. ASSUME NEW o \in Obj, UpToDate(o)', ~Queued(o), o \notin gaveUp
      PROVE  row'[o].raw = srv[o].raw
  <2>1. CASE hold
    <3>1. UpToDate(o) /\ Covered(o)
      BY <1>1, <1>3, <2>1, UpToDateIsCovered DEF UpToDate, Planned
    <3> QED BY <1>2, <1>3, <3>1 DEF TokenInv, StoredIsCurrent
  <2>2. CASE ~hold
    <3>1. Covered(o)
      BY <1>1, <1>3, <2>2 DEF UpToDate, Covered
    <3>2. InHand(o) \/ row[o].raw = srv[o].raw
      BY <1>1, <1>3, <3>1 DEF TokenInv, PlanCovers, Planned
    <3>3. InHand(o) => batch[o].act # "none"
      BY <1>1, <1>3, <2>2 DEF TokenInv, LastIsAll, InHand
    <3> QED BY <1>2, <1>3, <3>1, <3>2, <3>3
  <2> QED BY <2>1, <2>2
<1>4. StoredIsCurrent'
  BY <1>1, <1>3 DEF StoredIsCurrent, Queued
<1>5. NotAhead'
  BY <1>1, NumberTypes DEF TokenInv, NotAhead, Planned, Downloading
<1> QED BY <1>1, <1>4, <1>5
        DEF TokenInv, AckIsNews, LocalIsRow, LastIsAll, PlanCovers, Planned

\* A round that is cut short leaves the token where it was.
LEMMA CutKeepsToken ==
  ASSUME Sane, TokenInv, RoundFails \/ Restart
  PROVE  TokenInv'
<1>1. /\ phase' = "idle" /\ batch' = NoBatch
      /\ UNCHANGED <<row, op, srv, srvRev, token, ctag, gaveUp>>
  BY DEF RoundFails, Restart, RoundOver, Go, queueVars, serverVars
<1> QED BY <1>1 DEF TokenInv, NotAhead, AckIsNews, LocalIsRow, PlanCovers, LastIsAll,
                    StoredIsCurrent, UpToDate, Queued, Planned, Downloading

LEMMA InitToken == Init => TokenInv
<1> SUFFICES ASSUME Init PROVE TokenInv
  OBVIOUS
<1>1. phase = "idle" /\ batch = NoBatch /\ token \in {0, 1} /\ ctag = 1 /\ srvRev = 1
  BY DEF Init, ServerInit
<1>2. \A o \in Obj : row[o].raw = srv[o].raw
  BY DEF Init, QueueInit, ServerInit, NoRow
<1> QED BY <1>1, <1>2 DEF TokenInv, NotAhead, AckIsNews, LocalIsRow, PlanCovers, LastIsAll,
                          StoredIsCurrent, Planned, Downloading

LEMMA NextKeepsToken ==
  NothingDiscarded /\ Sane /\ RoundInv /\ ReadInv /\ TokenInv /\ [Next]_vars => TokenInv'
<1> SUFFICES ASSUME NothingDiscarded, Sane, RoundInv, ReadInv, TokenInv, [Next]_vars
             PROVE  TokenInv'
  OBVIOUS
<1>1. RevisionsGrow
  BY DEF ReadInv
<1>2. CASE UNCHANGED vars
  <2>1. QueueGrows
    BY <1>2 DEF vars, queueVars, QueueGrows, Queued
  <2> QED BY <1>1, <1>2, <2>1, OthersKeepToken DEF vars, ServerMoves
<1>3. CASE Next
  <2>1. ServerMoves
    BY <1>3, NextMovesServer
  <2>2. ASSUME NEW o \in Obj, Person(o) PROVE TokenInv'
    BY <1>1, <2>1, <2>2, PersonGrows, OthersKeepToken
  <2>3. ASSUME NEW o \in Obj, Remote(o) PROVE TokenInv'
    <3>1. QueueGrows /\ UNCHANGED <<token, ctag, roundVars, gaveUp>>
      BY <2>3 DEF Remote, queueVars, QueueGrows, Queued
    <3> QED BY <1>1, <2>1, <3>1, OthersKeepToken
  <2>4. CASE Replay
    BY <2>1, <2>4, ReplayKeepsToken
  <2>5. CASE Download
    BY <2>5, ListKeepsToken, ReadLocalKeepsToken, ReportKeepsToken, FetchingKeepsToken,
       WriteBatchKeepsToken, SettleKeepsToken, WriteLastKeepsToken DEF Download
  <2> QED BY <1>3, <2>2, <2>3, <2>4, <2>5, CutKeepsToken DEF Next
<1> QED BY <1>2, <1>3

\* While the person neither takes the server's version of a conflict nor asks for
\* a delete without if_match, the token and the getctag (calendar_sync.rs, sync_calendar)
\* never say more than the rows show: what nobody is editing and the server has not
\* changed since then is stored as it is, unless a round gave it up.
THEOREM TokenIsCovered == NothingDiscarded => (Spec => []SettledRowsAreCurrent)
<1> SUFFICES ASSUME NothingDiscarded PROVE Spec => []SettledRowsAreCurrent
  OBVIOUS
<1>1. Init => TokenInv
  BY InitToken
<1>2. Sane /\ RoundInv /\ ReadInv /\ TokenInv /\ [Next]_vars => TokenInv'
  BY NextKeepsToken
<1>3. TokenInv => SettledRowsAreCurrent
  BY TokenInvIsCurrent
<1> QED BY <1>1, <1>2, <1>3, AlwaysRead, PTL DEF Spec
=============================================================================
