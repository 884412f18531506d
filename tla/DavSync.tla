------------------------------- MODULE DavSync -------------------------------
(***************************************************************************)
(* One collection of one account, from the person to the server and back:  *)
(* the write queue (WriteQueue), the round that drains it (sync/src/       *)
(* replay.rs) and then downloads (sync/src/calendar_sync.rs and            *)
(* dav_sync.rs), the D-Bus methods that write (sync/src/store_api.rs) and  *)
(* a server other clients write to (DavServer).                            *)
(*                                                                         *)
(* The store gives one transaction at a time and the round awaits the      *)
(* network without it, so every transaction and every request is a step of *)
(* its own, and the person and the other clients act between any two.  The *)
(* round is volatile: it fails, or the process dies, at any step of it.    *)
(***************************************************************************)
EXTENDS WriteQueue, DavServer

CONSTANTS
  InitStored,       \* the objects downloaded before the first step
  UserActs,         \* what the person does, of UserActKinds
  Reports,          \* what the server answers, from one round to another: the sync-
                    \* collection, the list of ETags only, or now one and now the other
  BatchRows,        \* WRITE_BATCH_ROWS
  MissingRounds,    \* MISSING_ROUNDS
  MaxEdits,         \* bound on what the person does
  MaxRemote,        \* bound on what the other clients do
  MaxFaults         \* bound on failures, lost answers and restarts

UserActKinds ==
  {"create", "edit", "delete", "blind_delete", "keep_local", "take_server"}

ASSUME DavSyncAssumption ==
  /\ InitStored \subseteq Obj
  /\ UserActs \subseteq UserActKinds
  /\ Reports # {} /\ Reports \subseteq {"token", "etag"}
  /\ BatchRows \in Nat \ {0}
  /\ MissingRounds \in Nat \ {0}
  /\ MaxEdits \in Nat /\ MaxRemote \in Nat /\ MaxFaults \in Nat

VARIABLES
  token,    \* the sync token stored with the collection
  ctag,     \* the getctag stored with the collection
  phase,    \* where the round is; "idle" between two rounds
  queue,    \* the operations the round read and has not been through
  answer,   \* what the server answered to the last request
  listed,   \* the getctag of the listing
  local,    \* the stored ETags as the plan read them
  plan,     \* what the plan says: objects to delete and to fetch, next token
  batch,    \* what the next write to the store holds, by object
  missing,  \* what was asked for and did not come back
  hold,     \* the round may not save the token
  streak,   \* MissingStreaks: rounds in a row with something missing
  acted,    \* history: the last revision of each object the server acted on
  gaveUp,   \* history: objects a round went on without, after MissingRounds
  edits, remotes, faults   \* counters of the bounds

roundVars == <<phase, queue, answer, listed, local, plan, batch, missing, hold>>
bounds    == <<edits, remotes, faults>>
vars == <<queueVars, serverVars, token, ctag, roundVars, streak, acted, gaveUp, bounds>>

-----------------------------------------------------------------------------
Phases == {"idle", "replay", "sending", "closing", "copying", "storing", "list",
           "local", "report", "fetch", "write"}

\* DavClient's answers: the ETag of a write, a write without ETag, a delete that
\* arrived, a 412, an error worth another try, any other error; and for a copy,
\* the resource or nothing.
AnswerKinds == {"none", "etag", "refetch", "done", "clash", "retry", "fatal",
                "copy", "nocopy"}
Answer   == [kind : AnswerKinds, etag : Nat, raw : Text]
Says(k, e, raw) == [kind |-> k, etag |-> e, raw |-> raw]
NoAnswer == Says("none", NoEtag, NoContent)

NoLocal == [o \in Obj |-> [has |-> FALSE, etag |-> NoEtag]]
NoPlan  == [delete |-> {}, fetch |-> {}, token |-> 0]
NoBatch == [o \in Obj |-> NoEntry]

RoundTypeOK ==
  /\ phase \in Phases
  /\ queue \subseteq Snapshot
  /\ answer \in Answer
  /\ listed \in Nat
  /\ local \in [Obj -> [has : BOOLEAN, etag : Nat]]
  /\ plan \in [delete : SUBSET Obj, fetch : SUBSET Obj, token : Nat]
  /\ batch \in [Obj -> Entry]
  /\ missing \subseteq Obj
  /\ hold \in BOOLEAN

TypeOK ==
  /\ QueueTypeOK
  /\ ServerTypeOK
  /\ RoundTypeOK
  /\ token \in Nat /\ ctag \in Nat
  /\ streak \in Nat
  /\ acted \in [Obj -> [id : Nat, rev : Nat]]
  /\ gaveUp \subseteq Obj
  /\ edits \in Nat /\ remotes \in Nat /\ faults \in Nat

Init ==
  /\ ServerInit(InitStored)
  /\ QueueInit([o \in Obj |-> IF o \in InitStored
                                THEN [raw |-> <<"elsewhere", 1>>, mark |-> "none",
                                      derived |-> <<"elsewhere", 1>>, etag |-> 1]
                                ELSE NoRow])
  /\ token = (IF "token" \in Reports THEN 1 ELSE 0) /\ ctag = 1
  /\ phase = "idle" /\ queue = {} /\ answer = NoAnswer /\ listed = 0
  /\ local = NoLocal /\ plan = NoPlan /\ batch = NoBatch
  /\ missing = {} /\ hold = FALSE
  /\ streak = 0 /\ gaveUp = {}
  /\ acted = [o \in Obj |-> [id |-> 0, rev |-> 0]]
  /\ edits = 0 /\ remotes = 0 /\ faults = 0

-----------------------------------------------------------------------------
(* The person, at any moment.                                              *)

Edit(kind) ==
  /\ kind \in UserActs
  /\ edits < MaxEdits
  /\ edits' = edits + 1
  /\ UNCHANGED <<serverVars, token, ctag, roundVars, streak, acted, gaveUp, remotes,
                 faults>>

\* An href nobody has used: the uid of a new object is random.
Fresh(o) == ~Stored(o) /\ ~Queued(o) /\ srv[o].chg = 0

\* The if_match a client sends: the ETag it reads now, that of the server copy
\* of a conflict, or one it read before.
IfMatch(o) == {row[o].etag, op[o].srvEtag, 1} \ {NoEtag}

\* PutEvent without if_match
Create(o) ==
  /\ Edit("create")
  /\ Fresh(o)
  /\ EnqueuePut(o, <<"here", edits + 1>>, NoEtag)

\* PutEvent with if_match
EditObject(o) ==
  /\ Edit("edit")
  /\ Stored(o)
  /\ \E base \in IfMatch(o) : EnqueuePut(o, <<"here", edits + 1>>, base)

\* DeleteEvent with if_match
Delete(o) ==
  /\ Edit("delete")
  /\ Stored(o)
  /\ \E base \in IfMatch(o) : EnqueueDelete(o, base)

\* DeleteEvent with an empty if_match: without precondition
BlindDelete(o) ==
  /\ Edit("blind_delete")
  /\ Stored(o)
  /\ EnqueueDelete(o, NoEtag)

\* ResolveConflict
ResolveKeepLocal(o)  == Edit("keep_local") /\ KeepLocal(o)
ResolveTakeServer(o) == Edit("take_server") /\ TakeServer(o)

Person(o) ==
  \/ Create(o)
  \/ EditObject(o)
  \/ Delete(o)
  \/ BlindDelete(o)
  \/ ResolveKeepLocal(o)
  \/ ResolveTakeServer(o)

(* The other clients.  They do not guess an href nobody has published.     *)
Remote(o) ==
  /\ remotes < MaxRemote
  /\ remotes' = remotes + 1
  /\ \/ (srv[o].chg > 0 \/ Fresh(o)) /\ RemoteWrite(o)
     \/ RemoteDelete(o)
  /\ UNCHANGED <<queueVars, token, ctag, roundVars, streak, acted, gaveUp, edits,
                 faults>>

-----------------------------------------------------------------------------
(* The round, first half: replay_area drains the queue.                    *)

Fault == faults < MaxFaults /\ faults' = faults + 1

\* What no step of replay_area but a few touches.
ReplayFrame == UNCHANGED <<token, ctag, listed, local, plan, batch, missing,
                           streak, gaveUp, edits, remotes>>

\* replay_area goes through the operations by id.
Current(s) == s \in queue /\ \A t \in queue : s.op.id <= t.op.id

Go(p) == phase' = p

StartRound ==
  /\ phase = "idle"
  /\ Go("replay")
  /\ queue' = {[obj |-> o, op |-> op[o]] : o \in {o \in Obj : Queued(o)}}
  /\ UNCHANGED <<queueVars, serverVars, answer, hold, acted, faults>>
  /\ ReplayFrame

\* A conflict is not tried again; only its copy is, while it has attempts left.
WantsCopy(s) == ~HasCopy(s.op) /\ s.op.attempts < MaxAttempts

SkipConflict(s) ==
  /\ phase = "replay" /\ Current(s)
  /\ s.op.state = "conflict" /\ ~WantsCopy(s)
  /\ queue' = queue \ {s}
  /\ UNCHANGED <<queueVars, serverVars, phase, answer, hold, acted, faults>>
  /\ ReplayFrame

TakeConflict(s) ==
  /\ phase = "replay" /\ Current(s)
  /\ s.op.state = "conflict" /\ WantsCopy(s)
  /\ Go("copying")
  /\ UNCHANGED <<queueVars, serverVars, queue, answer, hold, acted, faults>>
  /\ ReplayFrame

\* A delete without ETag is closed without asking the server.
NeverUploaded(s) == s.op.kind = "delete" /\ s.op.base = NoEtag

CloseUnsent(s) ==
  /\ phase = "replay" /\ Current(s)
  /\ s.op.state = "ready" /\ NeverUploaded(s)
  /\ CompleteDelete(s)
  /\ queue' = queue \ {s}
  /\ UNCHANGED <<serverVars, phase, answer, hold, acted, faults>>
  /\ ReplayFrame

Send(s) ==
  /\ phase = "replay" /\ Current(s)
  /\ s.op.state = "ready" /\ ~NeverUploaded(s)
  /\ Go("sending")
  /\ UNCHANGED <<queueVars, serverVars, queue, answer, hold, acted, faults>>
  /\ ReplayFrame

Record(s) == acted' = [acted EXCEPT ![s.obj] = [id |-> s.op.id, rev |-> s.op.rev]]

\* The server takes the write.  Without an ETag in its answer it may have
\* stored a form of its own.
PutArrives(s) ==
  /\ s.op.kind = "put" /\ PutAccepted(s.obj, s.op.base)
  /\ Record(s)
  /\ \/ /\ Write(s.obj, s.op.payload)
        /\ answer' = Says("etag", srvRev + 1, NoContent)
     \/ /\ Write(s.obj, s.op.payload) \/ RemoteWrite(s.obj)
        /\ answer' = Says("refetch", NoEtag, NoContent)
  /\ UNCHANGED faults

\* A 404 counts as done: the resource is not there any more.
DeleteArrives(s) ==
  /\ s.op.kind = "delete"
  /\ \/ DeleteAccepted(s.obj, s.op.base) /\ Remove(s.obj)
     \/ ~Held(s.obj) /\ UNCHANGED serverVars
  /\ Record(s)
  /\ answer' = Says("done", NoEtag, NoContent)
  /\ UNCHANGED faults

PreconditionFails(s) ==
  /\ IF s.op.kind = "put" THEN ~PutAccepted(s.obj, s.op.base)
                          ELSE Held(s.obj) /\ ~DeleteAccepted(s.obj, s.op.base)
  /\ answer' = Says("clash", NoEtag, NoContent)
  /\ UNCHANGED <<serverVars, acted, faults>>

\* No answer before the deadline, or a network error: the server may have taken
\* the write all the same.
AnswerLost(s) ==
  /\ Fault
  /\ answer' = Says("retry", NoEtag, NoContent)
  /\ \/ UNCHANGED <<serverVars, acted>>
     \/ /\ s.op.kind = "put" /\ PutAccepted(s.obj, s.op.base)
        /\ Write(s.obj, s.op.payload) /\ Record(s)
     \/ /\ s.op.kind = "delete" /\ DeleteAccepted(s.obj, s.op.base)
        /\ Remove(s.obj) /\ Record(s)

\* A credential, a redirection, an unexpected status: not worth another try.
PermanentError(s) ==
  /\ Fault
  /\ answer' = Says("fatal", NoEtag, NoContent)
  /\ UNCHANGED <<serverVars, acted>>

ServerAnswers(s) ==
  /\ phase = "sending" /\ Current(s)
  /\ \/ PutArrives(s)
     \/ DeleteArrives(s)
     \/ PreconditionFails(s)
     \/ AnswerLost(s)
     \/ PermanentError(s)
  /\ Go("closing")
  /\ UNCHANGED <<queueVars, queue, hold>>
  /\ ReplayFrame

\* close: one transaction, by the answer.  A 412 goes on to fetch the copy.
Close(s) ==
  /\ phase = "closing" /\ Current(s)
  /\ \/ answer.kind \in {"etag", "refetch"} /\ CompletePut(s, answer.etag)
     \/ answer.kind = "done" /\ CompleteDelete(s)
     \/ answer.kind \in {"clash", "fatal"} /\ MarkConflict(s)
     \/ answer.kind = "retry" /\ RetryOrEscalate(s)
  /\ IF answer.kind = "clash"
       THEN Go("copying") /\ UNCHANGED queue
       ELSE Go("replay") /\ queue' = queue \ {s}
  /\ answer' = NoAnswer
  /\ UNCHANGED <<serverVars, hold, acted, faults>>
  /\ ReplayFrame

\* fetch_server_copy
FetchServerCopy(s) ==
  /\ phase = "copying" /\ Current(s)
  /\ \/ /\ Held(s.obj)
        /\ answer' = Says("copy", srv[s.obj].chg, srv[s.obj].raw)
        /\ UNCHANGED faults
     \/ /\ ~Held(s.obj)
        /\ answer' = Says("nocopy", NoEtag, NoContent)
        /\ UNCHANGED faults
     \/ Fault /\ answer' = Says("nocopy", NoEtag, NoContent)
  /\ Go("storing")
  /\ UNCHANGED <<queueVars, serverVars, queue, hold, acted>>
  /\ ReplayFrame

\* capture_server_copy: with the copy, or one attempt more
CaptureServerCopy(s) ==
  /\ phase = "storing" /\ Current(s)
  /\ IF answer.kind = "copy" THEN StoreServerCopy(s, answer.etag, answer.raw)
                             ELSE CountConflictFetchAttempt(s)
  /\ Go("replay")
  /\ queue' = queue \ {s}
  /\ answer' = NoAnswer
  /\ UNCHANGED <<serverVars, hold, acted, faults>>
  /\ ReplayFrame

\* pending_collections: with an operation still to be tried, the collection is
\* not up to date after this round.
EndReplay ==
  /\ phase = "replay" /\ queue = {}
  /\ hold' = (\E o \in Obj : Queued(o) /\ op[o].state = "ready")
  /\ Go("list")
  /\ UNCHANGED <<queueVars, serverVars, queue, answer, acted, faults>>
  /\ ReplayFrame

Replay ==
  \/ StartRound
  \/ \E s \in queue : \/ SkipConflict(s) \/ TakeConflict(s)
                      \/ CloseUnsent(s) \/ Send(s)
                      \/ ServerAnswers(s) \/ Close(s)
                      \/ FetchServerCopy(s) \/ CaptureServerCopy(s)
  \/ EndReplay

-----------------------------------------------------------------------------
(* The round, second half: sync_calendar downloads.                        *)

DownloadFrame == UNCHANGED <<serverVars, queue, answer, acted, edits, remotes>>

\* The round is over and leaves nothing in memory but the streak.
RoundOver ==
  /\ Go("idle")
  /\ queue' = {} /\ answer' = NoAnswer /\ listed' = 0
  /\ local' = NoLocal /\ plan' = NoPlan /\ batch' = NoBatch
  /\ missing' = {} /\ hold' = FALSE

\* list_calendars: the getctag, and nothing to do when it has not moved.
List ==
  /\ phase = "list"
  /\ IF ctag = srvRev
       THEN RoundOver
       ELSE /\ Go("local")
            /\ listed' = srvRev
            /\ UNCHANGED <<queue, answer, local, plan, batch, missing, hold>>
  /\ UNCHANGED <<queueVars, serverVars, token, ctag, streak, acted, gaveUp, bounds>>

\* calendar_sync_token and calendar_object_etags, in one transaction
ReadLocal ==
  /\ phase = "local"
  /\ local' = [o \in Obj |-> [has |-> Stored(o), etag |-> row[o].etag]]
  /\ Go("report")
  /\ UNCHANGED <<queueVars, token, ctag, listed, plan, batch, missing, hold, streak,
                 gaveUp, faults>>
  /\ DownloadFrame

\* to_fetch: what is new and what has another ETag
ToFetch(objs) ==
  {o \in objs : ~(local[o].has /\ local[o].etag # NoEtag /\ local[o].etag = srv[o].chg)}

\* Mutant: what the delta says was deleted is not.
MutantPlanDelta ==
  /\ "token" \in Reports /\ token # 0
  /\ plan' = [delete |-> {}, fetch |-> ToFetch(ChangedSince(token) \cap AllHeld),
              token  |-> srvRev]

\* plan_by_token with a token the server still knows
PlanDelta ==
  /\ "token" \in Reports /\ token # 0
  /\ plan' = [delete |-> {o \in ChangedSince(token) \ AllHeld : local[o].has},
              fetch  |-> ToFetch(ChangedSince(token) \cap AllHeld),
              token  |-> srvRev]

\* plan_by_token without a token, or with one the server no longer knows: what
\* is stored and did not come is gone
PlanFull ==
  /\ "token" \in Reports
  /\ plan' = [delete |-> {o \in Obj \ AllHeld : local[o].has},
              fetch  |-> ToFetch(AllHeld), token |-> srvRev]

\* plan_by_etag
PlanByEtag ==
  /\ "etag" \in Reports
  /\ plan' = [delete |-> {o \in Obj \ AllHeld : local[o].has},
              fetch  |-> ToFetch(AllHeld), token |-> 0]

\* plan_collection
Report ==
  /\ phase = "report"
  /\ PlanDelta \/ PlanFull \/ PlanByEtag
  /\ Go("fetch")
  /\ UNCHANGED <<queueVars, token, ctag, listed, local, batch, missing, hold, streak,
                 gaveUp, faults>>
  /\ DownloadFrame

\* Batch::full
Full == Cardinality({o \in Obj : batch[o].act # "none"}) >= BatchRows

PushDelete ==
  /\ phase = "fetch" /\ ~Full
  /\ \E o \in plan.delete :
       /\ batch' = [batch EXCEPT ![o] = [NoEntry EXCEPT !.act = "delete"]]
       /\ plan' = [plan EXCEPT !.delete = @ \ {o}]
  /\ UNCHANGED <<queueVars, token, ctag, phase, listed, local, missing, hold, streak,
                 gaveUp, faults>>
  /\ DownloadFrame

\* fetch_objects, one object of the multiget at a time: it comes as it is now,
\* or does not come.
Fetch ==
  /\ phase = "fetch" /\ plan.delete = {} /\ ~Full
  /\ \E o \in plan.fetch :
       /\ \/ /\ Held(o)
             /\ batch' = [batch EXCEPT ![o] =
                  [act |-> "upsert", etag |-> srv[o].chg, raw |-> srv[o].raw]]
             /\ UNCHANGED <<missing, faults>>
          \/ ~Held(o) /\ missing' = missing \cup {o} /\ UNCHANGED <<batch, faults>>
          \/ Fault /\ missing' = missing \cup {o} /\ UNCHANGED batch
       /\ plan' = [plan EXCEPT !.fetch = @ \ {o}]
  /\ UNCHANGED <<queueVars, token, ctag, phase, listed, local, hold, streak, gaveUp>>
  /\ DownloadFrame

\* A full batch is written before anything else.
WriteBatch ==
  /\ phase = "fetch" /\ Full
  /\ ApplyObjects(batch)
  /\ batch' = NoBatch
  /\ UNCHANGED <<token, ctag, phase, listed, local, plan, missing, hold, streak, gaveUp,
                 faults>>
  /\ DownloadFrame

\* Mutant: what did not come back holds nothing.
MutantSettle ==
  /\ phase = "fetch" /\ plan.delete = {} /\ plan.fetch = {} /\ ~Full
  /\ Go("write")
  /\ UNCHANGED <<queueVars, token, ctag, listed, local, plan, batch, missing, hold,
                 streak, gaveUp, faults>>
  /\ DownloadFrame

\* MissingStreaks::settle: with something missing the collection is not up to
\* date, until MissingRounds rounds in a row.
Settle ==
  /\ phase = "fetch" /\ plan.delete = {} /\ plan.fetch = {} /\ ~Full
  /\ LET retry == missing # {} /\ streak + 1 < MissingRounds
     IN /\ streak' = IF retry THEN streak + 1 ELSE 0
        /\ hold' = (hold \/ retry)
        /\ gaveUp' = IF retry THEN gaveUp ELSE gaveUp \cup missing
  /\ Go("write")
  /\ UNCHANGED <<queueVars, token, ctag, listed, local, plan, batch, missing, faults>>
  /\ DownloadFrame

\* The last write carries the token and the getctag, unless the round holds them.
WriteLast ==
  /\ phase = "write"
  /\ ApplyObjects(batch)
  /\ token' = IF hold THEN token ELSE plan.token
  /\ ctag' = IF hold THEN ctag ELSE listed
  /\ RoundOver
  /\ UNCHANGED <<serverVars, streak, acted, gaveUp, bounds>>

Download ==
  \/ List \/ ReadLocal \/ Report \/ PushDelete \/ Fetch \/ WriteBatch \/ Settle
  \/ WriteLast

-----------------------------------------------------------------------------
(* Failures.                                                               *)

\* A request fails, the deadline of the round passes, or the store closes.
RoundFails ==
  /\ phase # "idle"
  /\ Fault
  /\ RoundOver
  /\ UNCHANGED <<queueVars, serverVars, token, ctag, streak, acted, gaveUp, edits,
                 remotes>>

\* The process dies: the streak goes too.
Restart ==
  /\ Fault
  /\ RoundOver
  /\ streak' = 0
  /\ UNCHANGED <<queueVars, serverVars, token, ctag, acted, gaveUp, edits, remotes>>

Next ==
  \/ \E o \in Obj : Person(o) \/ Remote(o)
  \/ Replay
  \/ Download
  \/ RoundFails
  \/ Restart

Spec == Init /\ [][Next]_vars

\* The scheduler starts a round at every interval and the round goes on; what
\* fails a round, and the person, owe nothing.
FairSpec == Spec /\ WF_vars(Replay) /\ WF_vars(Download)

-----------------------------------------------------------------------------
(* Properties.                                                             *)

\* A snapshot whose id and revision are still those of the queue is the same
\* operation but for what the round itself counts: closing it closes the edit
\* that was sent.
SnapshotFaithful ==
  \A s \in queue : Live(s) =>
    /\ op[s.obj].kind = s.op.kind
    /\ op[s.obj].base = s.op.base
    /\ op[s.obj].payload = s.op.payload

\* The ETag kept with an unmarked row names the text kept with it: an If-Match
\* sent with it never overwrites what this device has not had.
EtagNamesContent ==
  \A o \in Obj :
    /\ Stored(o) /\ row[o].mark = "none" /\ row[o].etag = srv[o].chg
         => row[o].raw = srv[o].raw
    /\ HasCopy(op[o]) /\ op[o].srvEtag = srv[o].chg => op[o].srvRaw = srv[o].raw

\* What the stored token or getctag says is up to date, is.  An object without
\* mark nor operation that has not changed since then is stored as it is, but for
\* those a round gave up on.
UpToDate(o) == srv[o].chg <= token \/ srv[o].chg <= ctag

SettledRowsAreCurrent ==
  \A o \in Obj :
    UpToDate(o) /\ ~Queued(o) /\ row[o].mark = "none" /\ o \notin gaveUp =>
      row[o].raw = srv[o].raw

\* An edit leaves the queue only when the server has acted on that very
\* revision of it, unless the person takes the server's version instead, or asked
\* for a delete without if_match.
EditLeaves(o) == Queued(o) /\ op'[o].id # op[o].id

NoLostEdit ==
  [][\A o \in Obj : EditLeaves(o) =>
       \/ acted[o] = [id |-> op[o].id, rev |-> op[o].rev]
       \/ TakeServer(o)
       \/ op[o].kind = "delete" /\ op[o].base = NoEtag]_vars

\* The queue and the round keep the promise of PendingWrites: the write that
\* waits is the operation of the object, tagged by its id and its revision.
Promise ==
  INSTANCE PendingWrites WITH
    want <- [o \in Obj |-> [id |-> op[o].id, rev |-> op[o].rev]],
    done <- acted,
    MayDiscard <- UserActs \cap {"take_server", "blind_delete"} # {}

PromiseKept == Promise!Spec

\* Whatever fails, an operation does not wait for ever to be tried: it leaves
\* the queue, or it becomes a conflict the person sees.
ReadyIsResolved ==
  \A o \in Obj : (Queued(o) /\ op[o].state = "ready")
                   ~> ~(Queued(o) /\ op[o].state = "ready")

\* When everybody stops writing and nothing fails any more, every object
\* without an operation ends up as the server has it, but for those a round gave
\* up on.
EventuallyCurrent ==
  <>[](\A o \in Obj : ~Queued(o) /\ o \notin gaveUp => row[o].raw = srv[o].raw)
=============================================================================
