------------------------------- MODULE Snooze -------------------------------
(***************************************************************************)
(* Snoozed mail of one account: SnoozeMessage and CancelSnooze (main.rs),  *)
(* the rows that say when each message comes back (store/snooze.rs,        *)
(* store_api.rs) and the loop that brings it (due_loop.rs,                 *)
(* snooze_return.rs), over a server that moves by MOVE or by COPY.         *)
(*                                                                         *)
(* What a call does with the reader locked is one step: nobody else of     *)
(* this program uses that session meanwhile, and what another client does  *)
(* in the middle ends as if it had done it after.                          *)
(***************************************************************************)
EXTENDS Integers, FiniteSets

CONSTANTS
  Msgs,        \* the messages, all of them with a Message-ID
  Stuck,       \* those whose return the server always refuses
  Calls,       \* the calls of the bus that may be under way at once
  Batch,       \* BATCH: the rows of one pass
  MaxTime,     \* bound on the clock, and on the hours asked for
  MaxSleep,    \* MAX_SLEEP, in hours of the clock
  MaxSnoozes,  \* bound on snoozes asked for
  MaxCancels,  \* bound on cancellations
  MaxAccidents \* bound on commands that fail, closures of the store, crashes, and
               \* messages somebody moves out of Pospuestos, all together

ASSUME SnoozeAssumption ==
  /\ IsFiniteSet(Msgs) /\ Stuck \subseteq Msgs
  /\ Calls # {} /\ IsFiniteSet(Calls)
  /\ Batch \in Nat /\ Cardinality(Stuck) < Batch
  /\ MaxTime \in Nat /\ MaxSleep \in Nat \ {0} /\ MaxSnoozes \in Nat
  /\ MaxCancels \in Nat /\ MaxAccidents \in Nat

VARIABLES
  server,   \* which extensions of IMAP it announces
  home,     \* the messages that are in the mailbox they were snoozed from
  there,    \* the UIDs each message has in Pospuestos
  last,     \* the last UID Pospuestos gave
  row,      \* snoozed_messages
  open,     \* whether the store of the account is open and its key ring too
  call,     \* the calls under way
  loop,     \* the return loop
  nudged,   \* the permit of WAKE
  now,      \* the clock
  left,     \* history: messages that may be in Pospuestos and nothing brings back
  bound     \* what is left of each bound

mailboxes == <<server, home, there, last>>
vars == <<mailboxes, row, open, call, loop, nudged, now, left, bound>>
-----------------------------------------------------------------------------
NoRow == [at |-> -1]
Idle  == [op |-> "idle"]
Hours == 0..MaxTime
\* uid is the one the message took; told is whether COPYUID said it, which is
\* when the row keeps it.
Uids  == 1..(2 * MaxSnoozes)
Row   == [at : Hours, uid : Uids, told : BOOLEAN]
Call  == {Idle}
         \cup [op : {"snooze"}, pc : {"move"}, m : Msgs, at : Hours]
         \cup [op : {"snooze"}, pc : {"commit", "nudge"}, m : Msgs, at : Hours, uid : Uids]
         \cup [op : {"cancel"}, pc : {"return", "delete"}, m : Msgs, row : Row]

\* due_snoozed has no lower edge: what was not answered stays due.
\* Mutant: it has one, as the reminders do.
MutantDue == {m \in Msgs : row[m] # NoRow /\ row[m].at \in loop.started..now}
Due == {m \in Msgs : row[m] # NoRow /\ row[m].at <= now}
Least(S) == CHOOSE x \in S : \A y \in S : x <= y

\* due_snoozed and snooze_due_all_in: the rows whose hour came, the first ones
\* first, as many as fit.  The rows are read once: the pass works on the copy.
Batches ==
  {[m \in S |-> row[m]] : S \in {S \in SUBSET Due :
     /\ Cardinality(S) = Least({Batch, Cardinality(Due)})
     /\ \A m \in S, n \in Due \ S : row[m].at <= row[n].at}}

\* next_snooze_at: how long until the first hour after t; next_after.
\* Mutant: the hours that passed count too.
MutantSleep(t) ==
  LET set == {row[m].at : m \in {n \in Msgs : row[n] # NoRow}}
  IN  IF open /\ set # {} THEN Least({MaxSleep, Least(set) - t}) ELSE MaxSleep
Sleep(t) ==
  LET after == {row[m].at : m \in {n \in Msgs : row[n] # NoRow /\ row[n].at > t}}
  IN  IF open /\ after # {} THEN Least({MaxSleep, Least(after) - t}) ELSE MaxSleep

Init ==
  /\ server \in [move : BOOLEAN, uidplus : BOOLEAN]
  /\ home = Msgs
  /\ there = [m \in Msgs |-> {}]
  /\ last = 0
  /\ row = [m \in Msgs |-> NoRow]
  /\ open \in BOOLEAN
  /\ call = [c \in Calls |-> Idle]
  /\ loop = [pc |-> "asleep", started |-> 0, lag |-> 0, saw |-> FALSE, sleep |-> 0,
             todo |-> <<>>]
  /\ nudged = FALSE
  /\ now = 0
  /\ left = {}
  /\ bound = [snoozes |-> MaxSnoozes, cancels |-> MaxCancels,
              accidents |-> MaxAccidents]

Spend(b) == bound[b] > 0 /\ bound' = [bound EXCEPT ![b] = @ - 1]

\* History: of the messages of S, and of those left before, the ones that are
\* still in Pospuestos.
Strands(S) == left' = {m \in left \cup S : there'[m] # {}}
-----------------------------------------------------------------------------
(* The server: Session::move_to.                                           *)

\* The message goes whole: MOVE, or COPY, STORE and EXPUNGE.  Without MOVE nor
\* UIDPLUS the old copy stays where it was (OldCopyKept).
Moves == server.move \/ server.uidplus
Tells == server.uidplus

Arrives(m, n) == there' = [there EXCEPT ![m] = @ \cup ((last + 1)..(last + n))]
                 /\ last' = last + n

\* Out of Pospuestos by UID.  One that is not there is not an error.
Leaves(m, uid) ==
  /\ there' = [there EXCEPT ![m] = IF Moves THEN @ \ {uid} ELSE @]
  /\ home' = IF uid \in there[m] THEN home \cup {m} ELSE home
  /\ UNCHANGED <<server, last>>

\* The copy first: what a failure halfway leaves is in both mailboxes.
HalfOut(m, uid) ==
  /\ ~server.move
  /\ home' = IF uid \in there[m] THEN home \cup {m} ELSE home
  /\ UNCHANGED <<server, there, last>>
HalfIn(m) ==
  /\ ~server.move
  /\ Arrives(m, 1)
  /\ UNCHANGED <<server, home>>

\* return_from_snooze: by the UID the row keeps, or by Message-ID.  None: it is
\* not in Pospuestos any more, which is not an error.
NoUid == 0
FindUid(m, r) == IF r.told THEN r.uid
                 ELSE IF there[m] = {} THEN NoUid ELSE Least(there[m])

\* The return answers well: it was moved, or there was nothing to move.
Returns(m, r) ==
  /\ m \notin Stuck
  /\ IF FindUid(m, r) = NoUid THEN UNCHANGED mailboxes ELSE Leaves(m, FindUid(m, r))

\* Or it fails: before doing anything, halfway, or with the answer lost.
ReturnFails(m, r) ==
  \/ m \in Stuck /\ UNCHANGED <<mailboxes, bound>>
  \/ Spend("accidents") /\ UNCHANGED mailboxes
  \/ Spend("accidents") /\ m \notin Stuck /\ FindUid(m, r) # NoUid
     /\ (Leaves(m, FindUid(m, r)) \/ HalfOut(m, FindUid(m, r)))
-----------------------------------------------------------------------------
(* SnoozeMessage.                                                          *)

Set(c, v) == call' = [call EXCEPT ![c] = v]
Ends(c) == Set(c, Idle)

\* snooze_store_ready: the store is looked at before the server is touched.
SnoozeMessage(c) == \E m \in Msgs, at \in Hours :
  /\ call[c] = Idle /\ open
  /\ Spend("snoozes")
  /\ Set(c, [op |-> "snooze", pc |-> "move", m |-> m, at |-> at])
  /\ UNCHANGED <<mailboxes, row, open, loop, nudged, now, left>>

At(c, op, pc) == call[c].op = op /\ call[c].pc = pc

\* snooze_to: the message is moved, and the call goes on to write its row.  A
\* command that failed on a session kept from before is tried once more, and then
\* a server without MOVE ends up with two copies; so does one that has a copy from
\* a return that failed halfway.
Snoozed(c) ==
  LET m == call[c].m IN
  /\ At(c, "snooze", "move") /\ m \in home
  /\ \/ Arrives(m, 1) /\ UNCHANGED bound
     \/ ~server.move /\ Arrives(m, 2) /\ Spend("accidents")
  /\ home' = IF Moves THEN home \ {m} ELSE home
  /\ Strands(IF last' = last + 2 \/ there[m] # {} THEN {m} ELSE {})
  /\ Set(c, [op |-> "snooze", pc |-> "commit", m |-> m, at |-> call[c].at, uid |-> last'])
  /\ UNCHANGED <<server, row, open, loop, nudged, now>>

\* It is not in the mailbox any more, or the server fails: nothing is moved, or it
\* is and nobody knows, or half of it is.
SnoozeFails(c) ==
  LET m == call[c].m IN
  /\ At(c, "snooze", "move")
  /\ \/ m \notin home /\ UNCHANGED <<mailboxes, bound>>
     \/ Spend("accidents") /\ UNCHANGED mailboxes
     \/ Spend("accidents") /\ m \in home /\ HalfIn(m)
     \/ Spend("accidents") /\ m \in home /\ Arrives(m, 1)
        /\ home' = (IF Moves THEN home \ {m} ELSE home) /\ UNCHANGED server
  /\ Strands({m})
  /\ Ends(c)
  /\ UNCHANGED <<row, open, loop, nudged, now>>

\* snooze_commit_in: refused when the old copy stays, or when the store closed
\* meanwhile; the copy of Pospuestos stays there.  A row written late, over that
\* of a later snooze, names the UID of the older one.
SnoozeCommit(c) ==
  LET m == call[c].m IN
  /\ At(c, "snooze", "commit")
  /\ IF Moves /\ open
       THEN /\ row' = [row EXCEPT ![m] = [at |-> call[c].at, uid |-> call[c].uid,
                                          told |-> Tells]]
            /\ Set(c, [call[c] EXCEPT !.pc = "nudge"])
            /\ left' = IF Tells /\ there[m] # {} /\ call[c].uid \notin there[m]
                       THEN left \cup {m} ELSE left
       ELSE Ends(c) /\ left' = {n \in left \cup {m} : there[n] # {}} /\ UNCHANGED row
  /\ UNCHANGED <<mailboxes, open, loop, nudged, now, bound>>

\* nudge_snooze, after store_forget and nudge_email.
\* Mutant: the loop is not woken.
MutantNudge(c) ==
  /\ At(c, "snooze", "nudge")
  /\ Ends(c)
  /\ UNCHANGED <<mailboxes, row, open, loop, nudged, now, left, bound>>
Nudge(c) ==
  /\ At(c, "snooze", "nudge")
  /\ nudged' = TRUE
  /\ Ends(c)
  /\ UNCHANGED <<mailboxes, row, open, loop, now, left, bound>>
-----------------------------------------------------------------------------
(* CancelSnooze.                                                           *)

\* Without a row (no_estaba), or with the store closed, the call ends here.
CancelSnooze(c) == \E m \in Msgs :
  /\ call[c] = Idle /\ open /\ row[m] # NoRow
  /\ Spend("cancels")
  /\ Set(c, [op |-> "cancel", pc |-> "return", m |-> m, row |-> row[m]])
  /\ UNCHANGED <<mailboxes, row, open, loop, nudged, now, left>>

CancelReturns(c) ==
  LET m == call[c].m  r == call[c].row IN
  /\ At(c, "cancel", "return")
  /\ \/ Returns(m, r) /\ UNCHANGED bound /\ Set(c, [call[c] EXCEPT !.pc = "delete"])
     \/ ReturnFails(m, r) /\ Ends(c)
  /\ Strands({})
  /\ UNCHANGED <<row, open, loop, nudged, now>>

\* snooze_delete_in: by Message-ID, whatever row is there by now; with the store
\* closed it fails and the row stays.  A row written meanwhile goes too, and its
\* message is left.
DeleteRow(m, r) ==
  /\ row' = IF open THEN [row EXCEPT ![m] = NoRow] ELSE row
  /\ left' = IF open /\ row[m] \notin {r, NoRow} /\ there[m] # {} THEN left \cup {m} ELSE left

CancelDeletes(c) ==
  /\ At(c, "cancel", "delete")
  /\ DeleteRow(call[c].m, call[c].row)
  /\ Ends(c)
  /\ UNCHANGED <<mailboxes, open, loop, nudged, now, bound>>
-----------------------------------------------------------------------------
(* The return loop: due_loop::run and step.                                *)

\* It wakes because its sleep is over or because it was nudged, and reads what is
\* due.  A store that is closed gives nothing.
LoopWakes ==
  /\ loop.pc = "asleep"
  /\ \/ loop.sleep = 0 /\ UNCHANGED nudged
     \/ nudged /\ nudged' = FALSE
  /\ \E todo \in IF open THEN Batches ELSE {<<>>} :
       loop' = [loop EXCEPT !.pc = "pass", !.started = now, !.todo = todo]
  /\ UNCHANGED <<mailboxes, row, open, call, now, left, bound>>

Turn == CHOOSE m \in DOMAIN loop.todo :
          \A n \in DOMAIN loop.todo : loop.todo[m].at <= loop.todo[n].at
Rest(todo) == [m \in (DOMAIN todo) \ {Turn} |-> todo[m]]

\* return_due, for the first row of the copy: an error leaves its row.
\* Mutant: an error of the server is taken for a message that is not there.
MutantLoopReturns ==
  /\ loop.pc = "pass" /\ DOMAIN loop.todo # {}
  /\ \/ Returns(Turn, loop.todo[Turn]) /\ UNCHANGED bound
     \/ ReturnFails(Turn, loop.todo[Turn])
  /\ loop' = [loop EXCEPT !.pc = "delete"]
  /\ Strands({})
  /\ UNCHANGED <<row, open, call, nudged, now>>
LoopReturns ==
  /\ loop.pc = "pass" /\ DOMAIN loop.todo # {}
  /\ \/ Returns(Turn, loop.todo[Turn]) /\ UNCHANGED bound
        /\ loop' = [loop EXCEPT !.pc = "delete"]
     \/ ReturnFails(Turn, loop.todo[Turn])
        /\ loop' = [loop EXCEPT !.todo = Rest(loop.todo)]
  /\ Strands({})
  /\ UNCHANGED <<row, open, call, nudged, now>>

\* apply_return_in, with the return answered.
LoopDeletes ==
  /\ loop.pc = "delete"
  /\ DeleteRow(Turn, loop.todo[Turn])
  /\ loop' = [loop EXCEPT !.pc = "pass", !.todo = Rest(loop.todo)]
  /\ UNCHANGED <<mailboxes, open, call, nudged, now, bound>>

\* The sleep is counted from the hour the pass began and slept from the one it
\* ends.
LoopSleeps ==
  /\ loop.pc = "pass" /\ DOMAIN loop.todo = {}
  /\ loop' = [loop EXCEPT !.pc = "asleep", !.sleep = Sleep(loop.started), !.saw = open,
                          !.lag = now - loop.started]
  /\ UNCHANGED <<mailboxes, row, open, call, nudged, now, left, bound>>
-----------------------------------------------------------------------------
(* What happens around them.                                               *)

Tick ==
  /\ now < MaxTime \/ (loop.pc = "asleep" /\ loop.sleep > 0)
  /\ now' = Least({now + 1, MaxTime})
  /\ loop' = [loop EXCEPT !.sleep = IF loop.pc = "asleep" /\ @ > 0 THEN @ - 1 ELSE @]
  /\ UNCHANGED <<mailboxes, row, open, call, nudged, left, bound>>

\* The key ring is locked, or the mail of the account is turned off, and back.
StoreCloses ==
  /\ open /\ open' = FALSE
  /\ Spend("accidents")
  /\ UNCHANGED <<mailboxes, row, call, loop, nudged, now, left>>
StoreOpens ==
  /\ ~open /\ open' = TRUE
  /\ UNCHANGED <<mailboxes, row, call, loop, nudged, now, left, bound>>

\* Another device, or MoveMessage, takes it out of Pospuestos, back to where it was.
TakenOut(m) ==
  /\ there[m] # {} /\ there' = [there EXCEPT ![m] = {}]
  /\ home' = home \cup {m}
  /\ Spend("accidents")
  /\ Strands({})
  /\ UNCHANGED <<server, last, row, open, call, loop, nudged, now>>

\* The rows and the server outlive the process.  What was moved and not yet
\* written in its row is left.
Crash ==
  /\ Spend("accidents")
  /\ call' = [c \in Calls |-> Idle]
  /\ loop' = [loop EXCEPT !.pc = "asleep", !.sleep = 0, !.lag = 0, !.saw = FALSE, !.todo = <<>>]
  /\ nudged' = FALSE
  /\ left' = {m \in left \cup {call[c].m : c \in {c \in Calls : At(c, "snooze", "commit")}} :
                there[m] # {}}
  /\ UNCHANGED <<mailboxes, row, open, now>>

Goes(c) ==
  \/ Snoozed(c) \/ SnoozeFails(c) \/ SnoozeCommit(c) \/ Nudge(c)
  \/ CancelReturns(c) \/ CancelDeletes(c)
LoopStep == LoopWakes \/ LoopReturns \/ LoopDeletes \/ LoopSleeps

Next ==
  \/ \E c \in Calls : SnoozeMessage(c) \/ CancelSnooze(c) \/ Goes(c)
  \/ LoopStep \/ Tick
  \/ StoreCloses \/ StoreOpens \/ Crash
  \/ \E m \in Msgs : TakenOut(m)

Spec == Init /\ [][Next]_vars

\* The runtime polls the calls and the loop, the clock goes on and the key ring
\* is unlocked some day.
Fairness ==
  /\ \A c \in Calls : WF_vars(Goes(c))
  /\ WF_vars(LoopStep) /\ WF_vars(Tick) /\ WF_vars(StoreOpens)
FairSpec == Spec /\ Fairness
-----------------------------------------------------------------------------
\* The type of the state.
TypeOK ==
  /\ server \in [move : BOOLEAN, uidplus : BOOLEAN]
  /\ home \subseteq Msgs /\ left \subseteq Msgs
  /\ last \in 0..(2 * MaxSnoozes) /\ \A m \in Msgs : there[m] \subseteq 1..last
  /\ row \in [Msgs -> Row \cup {NoRow}]
  /\ open \in BOOLEAN /\ nudged \in BOOLEAN /\ now \in Hours
  /\ call \in [Calls -> Call]
  /\ loop.pc \in {"asleep", "pass", "delete"} /\ loop.sleep \in 0..MaxSleep
  /\ loop.started \in 0..now /\ DOMAIN loop.todo \subseteq Msgs
  /\ \A m \in DOMAIN loop.todo : loop.todo[m] \in Row
  /\ \A b \in DOMAIN bound : bound[b] \in Nat

Writing(m) == \E c \in Calls : At(c, "snooze", "commit") /\ call[c].m = m

\* "Para no dejar un pospuesto que no vuelve" (SnoozeMessage): a message is where it
\* was or in Pospuestos, after a move that fails halfway too; and what is in
\* Pospuestos has the row that brings it back, unless the call that moved it was
\* cut, refused or not answered, its new row was deleted for an old one or written
\* over by one that names an older UID, or there are two copies of it.
SnoozedHasRow ==
  \A m \in Msgs : IF there[m] = {} THEN m \in home
                 ELSE row[m] # NoRow \/ Writing(m) \/ m \in left

\* No row is slept through: while the loop sleeps and nobody nudged it, it wakes
\* at the hour of the next row, late only by what its last pass took.
AlarmIsSet ==
  loop.pc = "asleep" /\ ~nudged /\ loop.saw =>
    \A m \in Msgs :
      \/ row[m] = NoRow \/ row[m].at <= now
      \/ loop.sleep <= row[m].at - now + loop.lag
      \/ \E c \in Calls : At(c, "snooze", "nudge") /\ call[c].m = m

\* Every snoozed message comes back and its row is answered, also when somebody else
\* moved the message: neither another row that always fails, nor a store that was
\* closed at its hour, nor a failure keeps it in Pospuestos.
SnoozedComesBack ==
  \A m \in Msgs \ Stuck :
    /\ there[m] # {} ~> (there[m] = {} \/ m \in left)
    /\ row[m] # NoRow ~> row[m] = NoRow
=============================================================================
