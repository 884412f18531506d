---------------------------- MODULE MailboxSync ----------------------------
(***************************************************************************)
(* The round of one mailbox of an IMAP account (email_sync.rs) over its    *)
(* rows (store/email.rs): what it reads and writes, in the order of the    *)
(* code, while messages come and go, another client marks them, the server *)
(* renumbers them, the person marks and moves them through the bus         *)
(* (main.rs) and makes rules (rules.rs) that the round carries out on what *)
(* it has just stored.                                                     *)
(*                                                                         *)
(* A message is the number of its arrival; a UID is a number within one    *)
(* UIDVALIDITY.  Of the flags the model keeps one, \Seen; bodies are left  *)
(* out, and so are the other mailboxes, which share only the session.      *)
(***************************************************************************)
EXTENDS Integers, FiniteSets, Sequences

CONSTANTS
  NMsgs,        \* messages that ever arrive
  First,        \* those of them that were there at first
  Kinds,        \* kinds of server: see kind
  Window,       \* window_for: the newest messages a round looks at
  Batch,        \* WRITE_BATCH_ROWS
  Chunk,        \* HEADER_CHUNK
  MaxEvents     \* bound on what happens besides arrivals and rounds: what another
                \* client marks or expunges, changes of UIDVALIDITY, the person's
                \* calls, rules made, rounds cut, stores rebuilt, writes that fail

ASSUME MailboxAssumption ==
  /\ NMsgs \in Nat /\ First \in 0..NMsgs /\ MaxEvents \in Nat
  /\ Window \in Nat \ {0} /\ Batch \in Nat \ {0} /\ Chunk \in Nat \ {0}
  /\ Kinds \subseteq {"plain", "condstore", "qresync"} /\ Kinds # {}

VARIABLES
  kind,   \* plain: without CONDSTORE; condstore: with it, but an expunge does not
          \* raise HIGHESTMODSEQ; qresync: it does (RFC 7162)
  inbox,  \* whether it is the mailbox of arrivals
  srv,    \* the mailbox: validity, given (the message of each UID ever given),
          \* present (the UIDs still there), seen (messages marked), modseq
  came,   \* how many messages arrived
  rows,   \* messages: what is stored of each UID
  token,  \* mailboxes.modseq, decoded
  round,  \* the round under way
  call,   \* a call that changed the server and has not reached the store yet
  rules,  \* the ruleset: its watermark; or what CreateRule read for one
  hist,   \* history, see below
  bound   \* what is left of MaxEvents

service == <<rows, token, round, call, rules>>
vars == <<kind, inbox, srv, came, service, hist, bound>>
-----------------------------------------------------------------------------
Msgs == 1..NMsgs
Uids == 1..NMsgs
Empty == [u \in {} |-> 0]
Without(f, S) == [u \in DOMAIN f \ S |-> f[u]]
With(f, g) == [u \in DOMAIN f \cup DOMAIN g |-> IF u \in DOMAIN g THEN g[u] ELSE f[u]]
\* Mutant: one too many.
MutantNewest(n, S) == {u \in S : Cardinality({v \in S : v > u}) <= n}
Newest(n, S) == {u \in S : Cardinality({v \in S : v > u}) < n}
Oldest(n, S) == {u \in S : Cardinality({v \in S : v < u}) < n}
Held(f) == {f[u].msg : u \in DOMAIN f}

NoToken == [validity |-> 0]
NoMark  == [validity |-> 0, from |-> 0]
Idle    == [pc |-> "idle"]
NoCall  == [op |-> "none"]

\* HIGHESTMODSEQ after a change; a server without CONDSTORE has none.
Raised(n) == IF kind = "plain" THEN n ELSE n + 1

\* What EXAMINE answers.  UIDNEXT is the one after the last UID given.
Status == [validity |-> srv.validity, modseq |-> srv.modseq,
           next |-> Len(srv.given) + 1, exists |-> Cardinality(srv.present)]

\* decide.
\* Mutant: a change of UIDVALIDITY is compared like any other.
MutantDecide(previous, now) ==
  IF previous = NoToken THEN "diff"
  ELSE IF previous.modseq = now.modseq THEN "skip" ELSE "diff"
Unchanged(previous, now) ==
  IF kind = "plain"
  THEN previous.next = now.next /\ previous.exists = now.exists /\ ~inbox
  ELSE previous.modseq = now.modseq
Decide(previous, now) ==
  CASE previous = NoToken                                -> "diff"
    [] previous # NoToken /\ previous.validity # now.validity -> "reset"
    [] OTHER -> IF Unchanged(previous, now) THEN "skip" ELSE "diff"

\* plan_mailbox, of the flags read of the server's window: what to fetch, what to
\* change and what to delete.
\* Mutant: nothing is ever gone.
MutantGone(flags) == {}
New(flags)     == DOMAIN flags \ DOMAIN rows
Changed(flags) == {u \in DOMAIN flags \cap DOMAIN rows : rows[u].seen # flags[u]}
Gone(flags)    == DOMAIN rows \ DOMAIN flags

\* is_eligible.
\* Mutant: without looking at UIDVALIDITY.
MutantEligible(mark, validity, u) == mark.from >= 1 /\ u >= mark.from
Eligible(mark, validity, u) == mark.validity = validity /\ mark.from >= 1 /\ u >= mark.from

\* plan_ops: of what was just stored, whom the rules act on.
PlanOps(mark, validity, S) == {u \in S : Eligible(mark, validity, u)}

\* The rows of round.rec, keyed by UID: message_row.
Fetched(S) == [u \in S |-> [msg |-> srv.given[u], seen |-> srv.given[u] \in srv.seen]]

\* The session of a round dies with the UIDVALIDITY it opened.
Alive == round.pc # "idle" /\ round.now.validity = srv.validity
-----------------------------------------------------------------------------
(***************************************************************************)
(* History.  acted: messages a rule acted on; twice: on more than once;    *)
(* swept: though they were stored when the last rule of the ruleset that   *)
(* acted was made; backlog and round.old keep which those are.             *)
(* dropped: messages whose row was deleted while the server had them.      *)
(* late: a call wrote in the store what the server no longer said.         *)
(* mixed: a mailbox without token has, or gets, rows of before the server  *)
(* renumbered.                                                             *)
(***************************************************************************)
NoHistory == [acted |-> {}, twice |-> {}, swept |-> {}, backlog |-> {}, dropped |-> {},
              late |-> FALSE, mixed |-> FALSE]

Drop(S) == [hist EXCEPT !.dropped = @ \cup {rows[u].msg : u \in S \cap DOMAIN rows}]

Init ==
  /\ kind \in Kinds /\ inbox \in BOOLEAN
  /\ srv = [validity |-> 1, given |-> [u \in 1..First |-> u], present |-> 1..First, seen |-> {},
            modseq |-> 1]
  /\ came = First
  /\ rows = Empty /\ token = NoToken /\ round = Idle /\ call = NoCall
  /\ rules = [mark |-> NoMark, read |-> NoMark, asking |-> FALSE]
  /\ hist = NoHistory
  /\ bound = MaxEvents

Event == bound > 0 /\ bound' = bound - 1
-----------------------------------------------------------------------------
\* The server and its other clients.
Arrive ==
  /\ came < NMsgs /\ came' = came + 1
  /\ srv' = [srv EXCEPT !.given = Append(@, came + 1), !.present = @ \cup {Len(srv.given) + 1},
                        !.modseq = Raised(@)]
  /\ UNCHANGED <<kind, inbox, service, hist, bound>>

Flip(u) ==
  /\ Event
  /\ LET m == srv.given[u] IN
     srv' = [srv EXCEPT !.seen = IF m \in @ THEN @ \ {m} ELSE @ \cup {m}, !.modseq = Raised(@)]
  /\ UNCHANGED <<kind, inbox, came, service, hist>>

\* Taking a message out, by whoever does it.
Expunged(s, u) ==
  [s EXCEPT !.present = @ \ {u}, !.modseq = IF kind = "condstore" THEN @ ELSE Raised(@)]

Expunge(u) ==
  /\ Event
  /\ srv' = Expunged(srv, u)
  /\ UNCHANGED <<kind, inbox, came, service, hist>>

\* The messages keep their order and take UIDs from 1.
Renumber ==
  /\ Event
  /\ \E left \in [1..Cardinality(srv.present) -> srv.present] :
       /\ \A i, j \in DOMAIN left : i < j => left[i] < left[j]
       /\ srv' = [srv EXCEPT !.validity = @ + 1, !.modseq = Raised(@), !.present = DOMAIN left,
                             !.given = [i \in DOMAIN left |-> srv.given[left[i]]]]
  /\ hist' = [hist EXCEPT !.mixed = @ \/ (token = NoToken /\ DOMAIN rows # {})]
  /\ UNCHANGED <<kind, inbox, came, service>>
-----------------------------------------------------------------------------
(***************************************************************************)
(* The round.  Each step is what runs up to the next await that matters.   *)
(***************************************************************************)
\* EXAMINE and decide.  "skip" writes nothing.
Examine ==
  /\ round = Idle
  /\ Decide(token, Status) # "skip"
  /\ round' = [pc |-> IF Decide(token, Status) = "reset" THEN "clear" ELSE "window",
               now |-> Status, view |-> srv.present]
  /\ UNCHANGED <<kind, inbox, srv, came, rows, token, call, rules, hist, bound>>

\* Reset: a batch of rows, whichever, until there is none.
ClearChunk ==
  /\ round.pc = "clear"
  /\ IF rows = Empty
     THEN round' = [round EXCEPT !.pc = "window"] /\ UNCHANGED rows
     ELSE /\ \E S \in SUBSET DOMAIN rows :
               /\ S # {} /\ (Cardinality(S) = Batch \/ S = DOMAIN rows) /\ Cardinality(S) <= Batch
               /\ rows' = Without(rows, S)
          /\ UNCHANGED round
  /\ UNCHANGED <<kind, inbox, srv, came, token, call, rules, hist, bound>>

\* uid_flags of last_range: the sequence numbers are those of EXAMINE, and what was
\* expunged since answers nothing.
ReadWindow ==
  /\ round.pc = "window" /\ Alive
  /\ round' = [pc |-> "compare", now |-> round.now,
               flags |-> [u \in Newest(Window, round.view) \cap srv.present
                            |-> srv.given[u] \in srv.seen]]
  /\ UNCHANGED <<kind, inbox, srv, came, rows, token, call, rules, hist, bound>>

\* stored_flags and plan_mailbox.
Compare ==
  /\ round.pc = "compare"
  /\ round' = [pc |-> "gone", now |-> round.now, new |-> New(round.flags),
               gone |-> Gone(round.flags),
               set |-> [u \in Changed(round.flags) |-> round.flags[u]]]
  /\ UNCHANGED <<kind, inbox, srv, came, rows, token, call, rules, hist, bound>>

\* What went away, in batches, before anything is added.
DropGone ==
  /\ round.pc = "gone" /\ round.gone # {}
  /\ LET S == Oldest(Batch, round.gone) IN
     /\ rows' = Without(rows, S)
     /\ round' = [round EXCEPT !.gone = @ \ S]
     /\ hist' = Drop(S)
  /\ UNCHANGED <<kind, inbox, srv, came, token, call, rules, bound>>

\* update_flags; then the rules are loaded, once for the round and only for INBOX.
UpdateFlags ==
  /\ round.pc = "gone" /\ round.gone = {}
  /\ rows' = [u \in DOMAIN rows |->
                IF u \in DOMAIN round.set THEN [rows[u] EXCEPT !.seen = round.set[u]] ELSE rows[u]]
  /\ round' = [pc |-> "chunks", now |-> round.now, new |-> round.new, ops |-> {},
               mark |-> IF inbox THEN rules.mark ELSE NoMark, old |-> hist.backlog]
  /\ UNCHANGED <<kind, inbox, srv, came, token, call, rules, hist, bound>>

\* header_records of the next chunk, the newest first.
Headers ==
  /\ round.pc = "chunks" /\ round.ops = {} /\ round.new # {} /\ Alive
  /\ LET S == Newest(Chunk, round.new) IN
     round' = [pc |-> "apply", now |-> round.now, new |-> round.new \ S, mark |-> round.mark,
               old |-> round.old, rec |-> Fetched(S \cap srv.present)]
  /\ UNCHANGED <<kind, inbox, srv, came, rows, token, call, rules, hist, bound>>

\* apply_messages, and plan_ops of what was stored.
Apply ==
  /\ round.pc = "apply"
  /\ rows' = With(rows, round.rec)
  /\ round' = [pc |-> "chunks", now |-> round.now, new |-> round.new, mark |-> round.mark,
               old |-> round.old,
               ops |-> PlanOps(round.mark, round.now.validity, DOMAIN round.rec)]
  /\ hist' = [hist EXCEPT !.mixed = @ \/ (token = NoToken /\ ~Alive)]
  /\ UNCHANGED <<kind, inbox, srv, came, token, call, rules, bound>>

\* execute_ops of one message: it is marked read and moved, in this order; the
\* server may refuse the move, and it stays.
RuleActs(u) ==
  /\ round.pc = "chunks" /\ u \in round.ops /\ Alive
  /\ round' = [round EXCEPT !.ops = @ \ {u}]
  /\ LET m == srv.given[u]
         read == IF m \in srv.seen \/ u \notin srv.present THEN srv
                 ELSE [srv EXCEPT !.seen = @ \cup {m}, !.modseq = Raised(@)] IN
     /\ srv' \in {read} \cup {Expunged(read, v) : v \in {u} \cap srv.present}
     /\ hist' = [hist EXCEPT !.acted = @ \cup {m},
                             !.twice = IF m \in hist.acted THEN @ \cup {m} ELSE @,
                             !.swept = IF m \in round.old THEN @ \cup {m} ELSE @]
  /\ UNCHANGED <<kind, inbox, came, rows, token, call, rules, bound>>

\* set_mailbox_modseq, with what EXAMINE said.
\* Mutant: with what the server says now.
MutantSaved == Status
Saved == round.now
SaveToken ==
  /\ round.pc = "chunks" /\ round.ops = {} /\ round.new = {}
  /\ token' = Saved
  /\ round' = Idle
  /\ UNCHANGED <<kind, inbox, srv, came, rows, call, rules, hist, bound>>

\* A round is cut by the connection, a deadline or the store; or at no cost to the
\* bound when its session died.  A crash also loses the calls under way.
Cut ==
  /\ round # Idle
  /\ round' = Idle
  /\ \/ Event /\ UNCHANGED <<call, rules>>
     \/ Event /\ call' = NoCall /\ rules' = [rules EXCEPT !.asking = FALSE, !.read = NoMark]
     \/ ~Alive /\ UNCHANGED <<bound, call, rules>>
  /\ UNCHANGED <<kind, inbox, srv, came, rows, token, hist>>

\* The store is made again: StoreLifecycle.
Rebuild ==
  /\ Event
  /\ round' = Idle /\ rows' = Empty /\ token' = NoToken
  /\ hist' = Drop(DOMAIN rows)
  /\ UNCHANGED <<kind, inbox, srv, came, call, rules>>
-----------------------------------------------------------------------------
(***************************************************************************)
(* The person.  MarkRead and MoveMessage act on the server by the UID the  *)
(* application read of a row, and then on the row.                         *)
(***************************************************************************)
MarkRead(u) ==
  /\ call = NoCall /\ Event
  /\ srv' = IF u \in srv.present /\ srv.given[u] \notin srv.seen
            THEN [srv EXCEPT !.seen = @ \cup {srv.given[u]}, !.modseq = Raised(@)]
            ELSE srv
  /\ call' = [op |-> "seen", uid |-> u]
  /\ UNCHANGED <<kind, inbox, came, rows, token, round, rules, hist>>

MoveMessage(u) ==
  /\ call = NoCall /\ Event
  /\ srv' = IF u \in srv.present THEN Expunged(srv, u) ELSE srv
  /\ call' = [op |-> "forget", uid |-> u]
  /\ UNCHANGED <<kind, inbox, came, rows, token, round, rules, hist>>

\* store_mark_seen: mark_seen.
StoreMarkSeen ==
  /\ call.op = "seen"
  /\ LET u == call.uid
         stale == u \in DOMAIN rows /\ ~rows[u].seen /\ u \in srv.present
                  /\ srv.given[u] \notin srv.seen IN
     /\ rows' = IF u \in DOMAIN rows THEN [rows EXCEPT ![u].seen = TRUE] ELSE rows
     /\ hist' = [hist EXCEPT !.late = @ \/ stale]
  /\ call' = NoCall
  /\ UNCHANGED <<kind, inbox, srv, came, token, round, rules, bound>>

\* store_forget: forget_message.
StoreForget ==
  /\ call.op = "forget"
  /\ LET u == call.uid IN
     /\ rows' = Without(rows, {u})
     /\ hist' = [Drop({u}) EXCEPT !.late = @ \/ u \in DOMAIN rows \cap srv.present]
  /\ call' = NoCall
  /\ UNCHANGED <<kind, inbox, srv, came, token, round, rules, bound>>

\* The store is closed: it is logged and the next round puts it right.
StoreFails ==
  /\ call # NoCall /\ Event
  /\ call' = NoCall
  /\ UNCHANGED <<kind, inbox, srv, came, rows, token, round, rules, hist>>

\* CreateRule: inbox_token, and then ensure_watermark with the rules locked; it is
\* refused where there is no token to fix the first one with.
AskRule ==
  /\ inbox /\ ~rules.asking /\ Event
  /\ rules' = [rules EXCEPT !.asking = TRUE,
                             !.read = IF token = NoToken THEN NoMark
                                      ELSE [validity |-> token.validity, from |-> token.next]]
  /\ UNCHANGED <<kind, inbox, srv, came, rows, token, round, call, hist>>

MakeRule ==
  /\ rules.asking
  /\ LET mark == IF rules.mark = NoMark THEN rules.read ELSE rules.mark IN
     /\ rules' = [asking |-> FALSE, read |-> NoMark, mark |-> mark]
     /\ hist' = IF mark # NoMark THEN [hist EXCEPT !.backlog = @ \cup Held(rows)] ELSE hist
  /\ UNCHANGED <<kind, inbox, srv, came, rows, token, round, call, bound>>
-----------------------------------------------------------------------------
RoundSteps ==
  \/ Examine \/ ClearChunk \/ ReadWindow \/ Compare \/ DropGone \/ UpdateFlags
  \/ Headers \/ Apply \/ (\E u \in Uids : RuleActs(u)) \/ SaveToken
  \/ (~Alive /\ Cut)
CallSteps == StoreMarkSeen \/ StoreForget \/ MakeRule

Next ==
  \/ Arrive \/ Renumber \/ (\E u \in srv.present : Flip(u) \/ Expunge(u))
  \/ RoundSteps \/ CallSteps \/ Cut \/ Rebuild \/ StoreFails \/ AskRule
  \/ \E u \in DOMAIN rows : MarkRead(u) \/ MoveMessage(u)

\* The scheduler runs rounds for as long as the account is there, every call ends,
\* and a session that died is noticed.
Spec == Init /\ [][Next]_vars /\ WF_vars(RoundSteps) /\ WF_vars(CallSteps)
-----------------------------------------------------------------------------
Token == {NoToken} \cup [validity : 1..MaxEvents + 1, modseq : Nat, next : 1..NMsgs + 1,
                         exists : 0..NMsgs]
StoredRow == [msg : Msgs, seen : BOOLEAN]
PartialFn(S, T) == UNION {[D -> T] : D \in SUBSET S}
Planned == {S \in SUBSET Uids : Cardinality(S) <= Window}
Mark == {NoMark} \cup [validity : 1..MaxEvents + 1, from : 1..NMsgs + 1]

\* Each variable holds what the code's types let it hold, and no round plans to fetch
\* more than the window of its mailbox, nor holds more records than a chunk.
RoundOK ==
  CASE round.pc = "idle"    -> round = Idle
    [] round.pc \in {"clear", "window"} -> round.view \subseteq Uids
    [] round.pc = "compare" -> round.flags \in PartialFn(Uids, BOOLEAN)
    [] round.pc = "gone"    -> /\ round.new \in Planned /\ round.gone \subseteq Uids
                               /\ round.set \in PartialFn(Uids, BOOLEAN)
    [] round.pc = "apply"   -> /\ round.new \in Planned /\ round.mark \in Mark
                               /\ round.rec \in PartialFn(Uids, StoredRow)
                               /\ Cardinality(DOMAIN round.rec) <= Chunk
    [] round.pc = "chunks"  -> /\ round.new \in Planned /\ round.mark \in Mark
                               /\ round.ops \subseteq Uids
    [] OTHER -> FALSE

TypeOK ==
  /\ kind \in Kinds /\ inbox \in BOOLEAN /\ came \in 0..NMsgs
  /\ srv.validity \in 1..MaxEvents + 1 /\ srv.given \in Seq(Msgs)
  /\ srv.present \subseteq 1..Len(srv.given) /\ srv.seen \subseteq Msgs /\ srv.modseq \in Nat
  /\ rows \in PartialFn(Uids, StoredRow)
  /\ token \in Token
  /\ RoundOK
  /\ call \in {NoCall} \cup [op : {"seen", "forget"}, uid : Uids]
  /\ rules.mark \in Mark /\ rules.read \in Mark /\ rules.asking \in BOOLEAN
  /\ hist.acted \cup hist.twice \cup hist.swept \cup hist.backlog \cup hist.dropped \subseteq Msgs
-----------------------------------------------------------------------------
\* A server with CONDSTORE and without QRESYNC need not raise HIGHESTMODSEQ when a
\* message is expunged, and decide looks at nothing else there.
Unnoticed == kind = "condstore" /\ token # NoToken /\ token.exists # Cardinality(srv.present)

\* The rows are the server's window.  Flags count, except where the round does not
\* promise them: a mailbox without CONDSTORE that is not INBOX.
Current ==
  /\ DOMAIN rows = Newest(Window, srv.present)
  /\ (kind # "plain" \/ inbox) =>
       \A u \in DOMAIN rows : rows[u].seen = (srv.given[u] \in srv.seen)

\* A mailbox the next round would skip is right: whatever order the round, the
\* server's changes, cut rounds and the calls' writes came in, its token is never
\* newer than what its rows show (email_sync.rs: a round cut half way does not leave
\* the mailbox as up to date).  Late: a call wrote to the store after a round had
\* already seen the server change again.
SettledIsCurrent ==
  (token # NoToken /\ Decide(token, Status) = "skip" /\ ~hist.late /\ ~Unnoticed) => Current

\* A mailbox whose token is of the server's UIDVALIDITY has no row of another one:
\* each row shows the message its UID names now, also after rounds cut in the middle
\* of starting again.  Mixed: rows of a round cut before the mailbox had its first
\* token pass for the new ones, for nothing says of what validity they are.
RowsNameTheirMessages ==
  (token.validity = srv.validity /\ ~hist.mixed) =>
     \A u \in DOMAIN rows : rows[u].msg = srv.given[u]

\* Rules touch what arrives after they are made, once, and never what was stored by
\* then, nor what is downloaded again because the server renumbered or a round was
\* cut (is_eligible, "la guarda que impide el barrido retroactivo"; sync_mailbox,
\* "guardar-primero-actuar-después"), unless the row of the message was deleted and
\* it came back.
RulesActOnNewsOnce == hist.swept \cup hist.twice \subseteq hist.dropped

\* Once the mailbox is left alone the rows end as the server's window and stay so,
\* through rounds cut, stores rebuilt and renumberings.
EventuallyCurrent == <>[](Current \/ hist.late \/ Unnoticed)
=============================================================================
