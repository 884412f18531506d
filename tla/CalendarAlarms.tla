--------------------------- MODULE CalendarAlarms ---------------------------
(***************************************************************************)
(* The series of a calendar as they are kept expanded in a window of days  *)
(* (store/calendar.rs), the task that moves the window every day           *)
(* (calendar_sync.rs, shift_window), the writes of the person and of the   *)
(* download that meet it, and the loop that shows the reminders            *)
(* (reminders.rs), with the clock, the key ring and restarts against it.   *)
(*                                                                         *)
(* A series happens every day at its hour, with a reminder at that very    *)
(* hour; what the person or another client edits is the hour.  One account *)
(* and one calendar.  Each call of the store is one step: it holds the     *)
(* lock of the store.                                                      *)
(***************************************************************************)
EXTENDS Integers, FiniteSets

CONSTANTS
  MaxSeries,   \* bound on the ids of the rows
  DayHours,    \* hours of a day
  MaxNow,      \* bound on the clock
  Back, Ahead, \* the window: days before today, and from today on
  ShiftBatch,  \* SHIFT_BATCH_ROWS
  Batch,       \* BATCH: reminders of one pass
  MaxSleep,    \* MAX_SLEEP
  MaxEvents    \* bound on writes of the person, rounds, failed calls, closures of
               \* the store, restarts and clocks set, all together

ASSUME AlarmsAssumption ==
  /\ MaxSeries \in Nat
  /\ MaxNow \in Nat /\ DayHours \in 1..MaxNow /\ Back \in Nat /\ Ahead \in Nat \ {0}
  /\ ShiftBatch \in Nat \ {0} /\ Batch \in Nat \ {0} /\ MaxSleep \in Nat \ {0}
  /\ MaxEvents \in Nat

VARIABLES
  now,     \* the clock of the wall
  open,    \* whether the store is open
  row,     \* calendar_objects, with the occurrences (and alarms) of each
  window,  \* store_meta, calendar.window: the day it is around
  job,     \* what the scheduler has under way: a shift, a round or nothing
  loop,    \* the loop of reminders
  woken,   \* the permit of wake
  shown,   \* history: the reminders that were shown
  missed,  \* history: those the last pass left behind, for the reasons the code has
  mixed,   \* history: series a shift completed with the hours of another text
  behind,  \* history: series a shift did not reach, or that one which went back left
  rewound, \* history: the process restarted with the clock behind its edge
  events   \* how much has happened

store == <<row, window>>
history == <<shown, missed, mixed, behind, rewound>>
vars == <<now, open, store, job, loop, woken, history, events>>
-----------------------------------------------------------------------------
None  == -1
Series == 1..MaxSeries
Times == 0..MaxNow
Hours == 0..(DayHours - 1)
Day(t) == t \div DayHours
Today  == Day(now)

\* Window::around: its two ends move a day when the day does.
Covers(w, t) == w - Back <= Day(t) /\ Day(t) < w + Ahead
Meet(v, w) == v - Back < w + Ahead /\ w - Back < v + Ahead
Fires(hour, w) == {t \in Times : t % DayHours = hour /\ Covers(w, t)}

NoRow == [hour |-> None, win |-> None, occ |-> {}, mark |-> "none"]
\* derive_with_occurrences.
Derived(hour, w, mark) ==
  [hour |-> hour, win |-> w, occ |-> Fires(hour, w), mark |-> mark]
Present(s) == row[s] # NoRow

\* due_reminders leaves out what is marked to be deleted.
Alarms(r) == IF r.mark = "delete" THEN {} ELSE r.occ
AlarmsOf(since, at) ==
  {a \in Series \X Times : a[2] \in Alarms(row[a[1]]) /\ since < a[2] /\ a[2] <= at}

Idle == [pc |-> "idle"]
Jobs == {Idle}
        \cup [pc : {"read"}, target : Nat, after : Nat]
        \cup [pc : {"apply"}, target : Nat, after : Nat, last : BOOLEAN,
              stale : SUBSET [id : Series, hour : Hours, win : Nat]]
        \cup [pc : {"round"}, window : Nat, s : Series, hour : Hours \cup {None}]

\* Nothing old at the start: the edge is the hour it is.
Starting == [pc |-> "asleep", since |-> now, at |-> now, batch |-> {}, sleep |-> 0,
             lag |-> None]

\* The last hour of a day.
Init ==
  /\ now = DayHours - 1 /\ open = TRUE
  /\ \/ window = Today /\ row = [s \in Series |-> Derived(0, Today, "none")]
     \/ window = None /\ row = [s \in Series |-> NoRow]
  /\ job = Idle
  /\ loop = Starting
  /\ woken = FALSE
  /\ shown = {} /\ missed = {} /\ mixed = {} /\ behind = {} /\ rewound = FALSE
  /\ events = 0

Happens == events < MaxEvents /\ events' = events + 1
-----------------------------------------------------------------------------
(* What every write of the calendar does.                                  *)

\* A reminder that appears behind the back of a pass that already read is late.
Late(rows) ==
  {a \in Series \X Times :
     /\ loop.pc = "show" /\ loop.since < a[2] /\ a[2] <= loop.at
     /\ a[2] \in Alarms(rows[a[1]]) \ Alarms(row[a[1]])}

\* The rows change and, if the reminders do, the loop is woken (note_change,
\* forward_changes).
\* Mutant: nobody tells the loop.
MutantBecomes(rows) ==
  /\ row' = rows
  /\ missed' = missed \cup Late(rows)
  /\ UNCHANGED woken
Becomes(rows) ==
  /\ row' = rows
  /\ missed' = missed \cup Late(rows)
  /\ woken' = (woken \/ \E s \in Series : Alarms(rows[s]) # Alarms(row[s]))

\* A row written whole is of one text and of one window.
Rewrites(s, r) ==
  /\ Becomes([row EXCEPT ![s] = r])
  /\ mixed' = mixed \ {s}
  /\ behind' = IF r # NoRow /\ job.pc \in {"read", "apply"} THEN behind \cup {s}
               ELSE behind \ {s}
  /\ UNCHANGED <<shown, rewound>>

\* The window the writers use: the one of the store, or today's the first time.
Using == IF window = None THEN Today ELSE window

\* A row that is there, or the id a new one takes: one more than the largest.
Fits(s) == \/ Present(s)
           \/ /\ \A r \in Series : Present(r) => r < s
              /\ \A r \in Series : r = s - 1 => Present(r)
-----------------------------------------------------------------------------
(* The person: PutEvent and DeleteEvent.                                   *)

PutEvent(s) ==
  /\ open /\ Happens /\ Fits(s)
  /\ \E hour \in Hours : Rewrites(s, Derived(hour, Using, "put"))
  /\ window' = Using
  /\ UNCHANGED <<now, open, job, loop>>

DeleteEvent(s) ==
  /\ open /\ Present(s) /\ Happens
  /\ Becomes([row EXCEPT ![s].mark = "delete"])
  /\ UNCHANGED <<now, open, window, job, loop, shown, mixed, behind, rewound>>
-----------------------------------------------------------------------------
(* The scheduler: one thing at a time.                                     *)

\* maintain, shift_window: only with a window that is not that of today.
\* Mutant: only with one that is ahead.
MutantMaintain ==
  /\ open /\ job = Idle /\ window > Today
  /\ job' = [pc |-> "read", target |-> Today, after |-> 0]
  /\ UNCHANGED <<now, open, store, loop, woken, history, events>>
Maintain ==
  /\ open /\ job = Idle /\ window \notin {None, Today}
  /\ job' = [pc |-> "read", target |-> Today, after |-> 0]
  /\ UNCHANGED <<now, open, store, loop, woken, history, events>>

\* stale_series: the first ones after the last that was read.
Stale == {s \in Series : Present(s) /\ s > job.after /\ row[s].win # job.target}
ShiftReads ==
  /\ open /\ job.pc = "read"
  /\ \E S \in SUBSET Stale :
       /\ Cardinality(S) <= ShiftBatch
       /\ S = Stale \/ Cardinality(S) = ShiftBatch
       /\ \A s \in S, r \in Stale \ S : s < r
       /\ job' = [pc |-> "apply", target |-> job.target,
                  after |-> IF S = {} THEN job.after
                            ELSE CHOOSE s \in S : \A r \in S : r <= s,
                  last |-> Cardinality(S) < ShiftBatch,
                  stale |-> {[id |-> s, hour |-> row[s].hour, win |-> row[s].win] : s \in S}]
  /\ UNCHANGED <<now, open, store, loop, woken, history, events>>

\* shift_series, on the text that was read: only what came in, if the windows
\* meet; the rest of the row stays, but for what went out.
Shifted(r, c) ==
  [r EXCEPT !.win = job.target,
            !.occ = IF Meet(c.win, job.target)
                    THEN {t \in r.occ : Covers(job.target, t)}
                         \cup (Fires(c.hour, job.target) \ Fires(c.hour, c.win))
                    ELSE Fires(c.hour, job.target)]

\* apply_window_shift: a series that is not expanded as it was read is skipped.
\* Mutant: none is.
MutantShiftable(c) == Present(c.id)
Shiftable(c) == Present(c.id) /\ row[c.id].win = c.win

ShiftApplies ==
  LET shifts == {c \in job.stale : Shiftable(c)}
      ids    == {c.id : c \in shifts} IN
  /\ open /\ job.pc = "apply"
  /\ Becomes([s \in Series |->
       IF s \in ids THEN Shifted(row[s], CHOOSE c \in shifts : c.id = s) ELSE row[s]])
  /\ window' = IF job.last THEN job.target ELSE window
  /\ job' = IF job.last THEN Idle
            ELSE [pc |-> "read", target |-> job.target, after |-> job.after]
  /\ mixed' = mixed \cup {c.id : c \in {d \in shifts :
                             row[d.id].win = d.win /\ row[d.id].hour # d.hour}}
  /\ behind' = behind \ ids
  /\ UNCHANGED <<now, open, loop, shown, rewound, events>>

\* A round: what the queue holds goes to the server, or not, and what another
\* client changed is asked for with the window the store has now.
RoundStarts ==
  /\ open /\ job = Idle /\ Happens
  /\ \E s \in Series, hour \in Hours \cup {None}, pushed \in {{}, Series} :
       /\ Fits(s)
       /\ Becomes([r \in Series |->
            IF r \notin pushed THEN row[r]
            ELSE IF row[r].mark = "delete" THEN NoRow ELSE [row[r] EXCEPT !.mark = "none"]])
       /\ job' = [pc |-> "round", window |-> Using, s |-> s, hour |-> hour]
  /\ UNCHANGED <<now, open, window, loop, shown, mixed, behind, rewound>>

\* apply_calendar_objects: nothing with a window that is not the store's any more
\* (WindowMoved), and nothing over what the person wrote meanwhile.
RoundApplies ==
  /\ open /\ job.pc = "round"
  /\ job' = Idle
  /\ \/ /\ window \in {None, job.window}
        /\ window' = job.window
        /\ \/ job.hour = None /\ row[job.s].mark # "put" /\ Rewrites(job.s, NoRow)
           \/ /\ job.hour # None /\ row[job.s].mark = "none"
              /\ Rewrites(job.s, Derived(job.hour, job.window, "none"))
           \/ /\ row[job.s].mark \in (IF job.hour = None THEN {"put"} ELSE {"put", "delete"})
              /\ UNCHANGED <<row, woken, history>>
     \/ window \notin {None, job.window} /\ UNCHANGED <<store, woken, history>>
  /\ UNCHANGED <<now, open, loop, events>>

\* History: what is lost of a shift that went back to the window of a day before,
\* because the clock did.
Abandons ==
  behind' = behind \cup
    {s \in Series : /\ job.pc \in {"read", "apply"} /\ job.target < window
                   /\ row[s].win = job.target}

\* A call to the store or to the network fails, the deadline passes, there is no
\* room, or the store is closed: what is under way is left where it is.
JobFails ==
  /\ job # Idle
  /\ IF open THEN Happens ELSE UNCHANGED events
  /\ job' = Idle /\ Abandons
  /\ UNCHANGED <<now, open, store, loop, woken, shown, missed, mixed, rewound>>
-----------------------------------------------------------------------------
(* The loop of reminders: run and step.                                    *)

\* due: what fell since the edge, the first ones first, as many as fit.  A store
\* that is closed has nothing.
LoopReads ==
  /\ loop.pc = "asleep"
  /\ \/ loop.sleep = 0 /\ UNCHANGED woken
     \/ woken /\ woken' = FALSE
  /\ LET due == AlarmsOf(loop.since, now) IN
       \E B \in SUBSET due :
         /\ IF open THEN /\ Cardinality(B) <= Batch
                         /\ B = due \/ Cardinality(B) = Batch
                    ELSE B = {}
         /\ \A a \in B, b \in due \ B : a[2] < b[2] \/ (a[2] = b[2] /\ a[1] < b[1])
         /\ loop' = [pc |-> "show", since |-> loop.since, at |-> now, batch |-> B, sleep |-> 0,
                     lag |-> None]
         /\ missed' = due \ B
  /\ UNCHANGED <<now, open, store, job, shown, mixed, behind, rewound, events>>

\* next_after: how long until the first reminder after t.  next_reminder_at does
\* count what is marked to be deleted.
Least(S) == CHOOSE x \in S : \A y \in S : x <= y
\* Mutant: the hours that passed count too.
MutantSleep(t) ==
  LET hours == UNION {row[s].occ : s \in Series} IN
  IF open /\ hours # {} THEN Least({MaxSleep, Least(hours) - t}) ELSE MaxSleep
Sleep(t) ==
  LET after == {u \in UNION {row[s].occ : s \in Series} : u > t} IN
  IF open /\ after # {} THEN Least({MaxSleep, Least(after) - t}) ELSE MaxSleep

\* step: the edge goes to the hour the pass began, and never back.
\* Mutant: it goes to the hour it is.
MutantEdge == IF now > loop.since THEN now ELSE loop.since
Edge == IF loop.at > loop.since THEN loop.at ELSE loop.since
LoopShows ==
  /\ loop.pc = "show"
  /\ shown' = shown \cup loop.batch
  /\ loop' = [loop EXCEPT !.pc = "asleep", !.since = Edge, !.batch = {},
                          !.sleep = Sleep(loop.at),
                          !.lag = IF open /\ now >= loop.at THEN now - loop.at ELSE None]
  /\ UNCHANGED <<now, open, store, job, woken, missed, mixed, behind, rewound, events>>
-----------------------------------------------------------------------------
(* The clock, the key ring and the process.                                *)

\* After the last hour of the model only the timer goes on.
Tick ==
  /\ now < MaxNow \/ loop.sleep > 0
  /\ now' = IF now < MaxNow THEN now + 1 ELSE now
  /\ loop' = [loop EXCEPT !.sleep = IF @ > 0 THEN @ - 1 ELSE 0]
  /\ UNCHANGED <<open, store, job, woken, history, events>>

\* The machine sleeps, which the timer does not see; the clock is set back.
ClockIsSet ==
  /\ Happens
  /\ now' \in {now - 1, now + 1} \cap Times
  /\ loop' = [loop EXCEPT !.lag = None]
  /\ UNCHANGED <<open, store, job, woken, history>>

StoreCloses ==
  /\ open /\ Happens /\ open' = FALSE
  /\ UNCHANGED <<now, store, job, loop, woken, history>>
StoreOpens ==
  /\ ~open /\ open' = TRUE
  /\ UNCHANGED <<now, store, job, loop, woken, history, events>>

Restart ==
  /\ Happens
  /\ job' = Idle /\ Abandons /\ woken' = FALSE
  /\ loop' = Starting
  /\ missed' = AlarmsOf(loop.since, now)
  /\ rewound' = (rewound \/ now < loop.since)
  /\ UNCHANGED <<now, open, store, shown, mixed>>

LoopSteps == LoopReads \/ LoopShows
JobSteps == ShiftReads \/ ShiftApplies \/ RoundApplies \/ JobFails
Next ==
  \/ \E s \in Series : PutEvent(s) \/ DeleteEvent(s)
  \/ Maintain \/ RoundStarts \/ JobSteps
  \/ LoopSteps
  \/ Tick \/ ClockIsSet \/ StoreCloses \/ StoreOpens \/ Restart

Spec == Init /\ [][Next]_vars
\* Clocks go on, the loop and the scheduler run when they can, and what the
\* scheduler began comes to an end.
FairSpec == Spec /\ WF_vars(Tick) /\ WF_vars(LoopSteps) /\ WF_vars(Maintain) /\ WF_vars(JobSteps)
-----------------------------------------------------------------------------
(* Properties.                                                             *)

TypeOK ==
  /\ now \in Times /\ open \in BOOLEAN /\ woken \in BOOLEAN /\ rewound \in BOOLEAN
  /\ row \in [Series -> {NoRow} \cup
        [hour : Hours, win : Nat, occ : SUBSET Times, mark : {"none", "put", "delete"}]]
  /\ window \in Nat \cup {None}
  /\ job \in Jobs
  /\ loop \in [pc : {"asleep", "show"}, since : Times, at : Times,
               batch : SUBSET (Series \X Times), sleep : 0..MaxSleep, lag : Times \cup {None}]
  /\ shown \subseteq Series \X Times /\ missed \subseteq Series \X Times
  /\ mixed \subseteq Series /\ behind \subseteq Series
  /\ events \in 0..MaxEvents

\* The occurrences a row has are those of its text in the window it says, unless
\* a shift met an edit (store/calendar.rs, the window).
RowSaysItsText ==
  \A s \in Series : Present(s) /\ s \notin mixed => row[s].occ = Fires(row[s].hour, row[s].win)

\* "Sin repetir al resincronizar" (reminders.rs): between an edge and the next one
\* every reminder is shown, and for the first time, whatever was written or moved
\* meanwhile; but for those a pass leaves behind: more than fit, a store that was
\* closed, a write that came after its hour.
EachOnce ==
  [][LoopShows /\ ~rewound =>
       /\ loop.batch \cap shown = {}
       /\ AlarmsOf(loop.since, loop'.since) \subseteq loop.batch \cup missed]_vars

\* No reminder is slept through: the loop wakes at its hour, late only by what its
\* last pass took, unless the clock was set or the store was closed.
AlarmIsSet ==
  loop.pc = "asleep" /\ ~woken /\ loop.lag # None =>
    \A a \in AlarmsOf(loop.since, MaxNow) :
      loop.sleep = 0 \/ loop.sleep <= a[2] + loop.lag - now

\* The window comes to be that of today and every series is expanded for it, but
\* those that were written in the middle of a shift, until the next one.
WindowCatchesUp ==
  <>[]open => <>[](window # None =>
    /\ window = Today
    /\ \A s \in Series : Present(s) /\ s \notin behind => row[s].win = window)
=============================================================================
