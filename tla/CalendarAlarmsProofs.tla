------------------------ MODULE CalendarAlarmsProofs ------------------------
(***************************************************************************)
(* Theorems of CalendarAlarms, for any number of series, any window, any   *)
(* length of a day and of a batch, and any bound on what happens.          *)
(***************************************************************************)
EXTENDS CalendarAlarms, WellFoundedInduction, TLAPS

Filled == [hour : Hours, win : Nat, occ : SUBSET Times, mark : {"none", "put", "delete"}]

\* What every step keeps of the types: of the job and of the loop, what
\* the rows and the edge need.
Shape ==
  /\ now \in Times
  /\ row \in [Series -> {NoRow} \cup Filled]
  /\ window \in Nat \cup {None}
  /\ job.pc \in {"read", "apply"} => job.target \in Nat
  /\ job.pc = "round" => /\ job.window \in Nat /\ job.s \in Series
                         /\ job.hour \in Hours \cup {None}
  /\ DOMAIN loop = {"pc", "since", "at", "batch", "sleep", "lag"}
  /\ loop.pc \in {"asleep", "show"}
  /\ loop.since \in Times /\ loop.at \in Times

\* What was shown is not after the edge, and a pass has in its hand, or has left
\* behind, whatever fell between its edge and its hour.
EdgeInv ==
  /\ ~rewound => \A a \in shown : a \in Series \X Times /\ a[2] <= loop.since
  /\ loop.pc = "show" =>
       /\ loop.batch \subseteq Series \X Times
       /\ \A a \in loop.batch : loop.since < a[2] /\ a[2] <= loop.at
       /\ AlarmsOf(loop.since, loop.at) \subseteq loop.batch \cup missed

Inv == Shape /\ RowSaysItsText /\ EdgeInv
-----------------------------------------------------------------------------
LEMMA TimesAreNat == \A t \in Times : t \in Nat
BY AlarmsAssumption DEF Times

LEMMA TodayIsNat == ASSUME now \in Times PROVE Today \in Nat
BY AlarmsAssumption DEF Times, Today, Day

LEMMA DerivedIsFilled ==
  ASSUME NEW hour \in Hours, NEW w \in Nat, NEW mark \in {"none", "put", "delete"}
  PROVE  /\ Derived(hour, w, mark) \in Filled
         /\ Derived(hour, w, mark).occ = Fires(hour, w)
         /\ Derived(hour, w, mark).hour = hour
         /\ Derived(hour, w, mark).win = w
BY DEF Derived, Filled, Fires

LEMMA NoRowIsNotFilled == NoRow \notin Filled
BY AlarmsAssumption DEF NoRow, Filled, None, Hours

\* A series shifted from its own text says the hours of that text in the new
\* window: what stays and what came in are, together, all of them.
LEMMA ShiftedSaysItsText ==
  ASSUME NEW r \in Filled, NEW c, job.target \in Nat,
         c.win = r.win, c.hour = r.hour, r.occ = Fires(r.hour, r.win)
  PROVE  /\ Shifted(r, c).occ = Fires(r.hour, job.target)
         /\ Shifted(r, c).win = job.target
         /\ Shifted(r, c).hour = r.hour
<1>1. /\ Shifted(r, c).win = job.target /\ Shifted(r, c).hour = r.hour
      /\ Shifted(r, c).occ = IF Meet(c.win, job.target)
                      THEN {t \in r.occ : Covers(job.target, t)}
                           \cup (Fires(c.hour, job.target) \ Fires(c.hour, c.win))
                      ELSE Fires(c.hour, job.target)
  BY DEF Shifted, Filled
<1>2. {t \in Fires(r.hour, r.win) : Covers(job.target, t)}
        \cup (Fires(r.hour, job.target) \ Fires(r.hour, r.win)) = Fires(r.hour, job.target)
  BY DEF Fires
<1> QED BY <1>1, <1>2

\* Whatever is read, a shifted row is a row.
LEMMA ShiftedIsFilled ==
  ASSUME NEW r \in Filled, NEW c, job.target \in Nat
  PROVE  Shifted(r, c) \in Filled
<1>1. Fires(c.hour, job.target) \subseteq Times
  BY DEF Fires
<1> QED BY <1>1 DEF Shifted, Filled
-----------------------------------------------------------------------------
LEMMA InitHasShape == Init => Shape
<1> SUFFICES ASSUME Init PROVE Shape
  OBVIOUS
<1>1. now \in Times
  BY AlarmsAssumption DEF Init, Times
<1>2. Today \in Nat
  BY <1>1, TodayIsNat
<1>3. window \in Nat \cup {None}
  BY <1>2 DEF Init
<1>4. row \in [Series -> {NoRow} \cup Filled]
  <2>1. 0 \in Hours
    BY AlarmsAssumption DEF Hours
  <2>2. Derived(0, Today, "none") \in Filled
    BY <1>2, <2>1, DerivedIsFilled
  <2> QED BY <2>2 DEF Init
<1> QED BY <1>1, <1>3, <1>4 DEF Init, Shape, Idle, Starting

\* The window a writer uses is a day.
LEMMA UsingIsNat == ASSUME Shape PROVE Using \in Nat
BY TodayIsNat DEF Shape, Using

LEMMA HoursOfRows ==
  ASSUME Shape, NEW s \in Series, Present(s)
  PROVE  row[s] \in Filled
BY DEF Shape, Present

\* The types, one action at a time.
LEMMA NextKeepsShape == Shape /\ [Next]_vars => Shape'
<1> SUFFICES ASSUME Shape, [Next]_vars PROVE Shape'
  OBVIOUS
<1> USE DEF Shape
<1>1. CASE UNCHANGED vars
  BY <1>1 DEF vars, store, history, Jobs
<1>2. ASSUME NEW s \in Series, PutEvent(s) PROVE Shape'
  <2>1. PICK hour \in Hours : Rewrites(s, Derived(hour, Using, "put"))
    BY <1>2 DEF PutEvent
  <2>2. Derived(hour, Using, "put") \in Filled
    BY UsingIsNat, DerivedIsFilled
  <2>3. row' \in [Series -> {NoRow} \cup Filled]
    BY <2>1, <2>2 DEF Rewrites, Becomes
  <2> QED BY <1>2, <2>3, UsingIsNat DEF PutEvent
<1>3. ASSUME NEW s \in Series, DeleteEvent(s) PROVE Shape'
  <2>1. row[s] \in Filled
    BY <1>3, HoursOfRows DEF DeleteEvent
  <2>2. [row[s] EXCEPT !.mark = "delete"] \in Filled
    BY <2>1 DEF Filled
  <2>3. row' = [row EXCEPT ![s] = [row[s] EXCEPT !.mark = "delete"]]
    BY <1>3 DEF DeleteEvent, Becomes
  <2> QED BY <1>3, <2>2, <2>3 DEF DeleteEvent
<1>4. CASE Maintain
  BY <1>4, TodayIsNat DEF Maintain, store
<1>5. CASE ShiftReads
  BY <1>5 DEF ShiftReads, store
<1>6. CASE ShiftApplies
  <2> DEFINE shifts == {c \in job.stale : Shiftable(c)}
             ids    == {c.id : c \in shifts}
             rows   == [s \in Series |->
               IF s \in ids THEN Shifted(row[s], CHOOSE c \in shifts : c.id = s) ELSE row[s]]
  <2>1. row' = rows /\ job.target \in Nat
    BY <1>6 DEF ShiftApplies, Becomes
  <2>2. ASSUME NEW s \in Series PROVE rows[s] \in {NoRow} \cup Filled
    <3>1. CASE s \in ids
      <4>1. Present(s)
        BY <3>1 DEF Shiftable
      <4> QED BY <2>1, <3>1, <4>1, HoursOfRows, ShiftedIsFilled
    <3> QED BY <3>1
  <2>3. row' \in [Series -> {NoRow} \cup Filled]
    BY <2>1, <2>2
  <2>4. window' \in Nat \cup {None}
    BY <1>6, <2>1 DEF ShiftApplies
  <2> QED BY <1>6, <2>1, <2>3, <2>4 DEF ShiftApplies, Idle
<1>7. CASE RoundStarts
  <2>1. PICK s \in Series, hour \in Hours \cup {None}, pushed \in {{}, Series} :
          /\ row' = [r \in Series |->
               IF r \notin pushed THEN row[r]
               ELSE IF row[r].mark = "delete" THEN NoRow ELSE [row[r] EXCEPT !.mark = "none"]]
          /\ job' = [pc |-> "round", window |-> Using, s |-> s, hour |-> hour]
    BY <1>7 DEF RoundStarts, Becomes
  <2>2. \A r \in Filled : [r EXCEPT !.mark = "none"] \in Filled
    BY DEF Filled
  <2>3. [NoRow EXCEPT !.mark = "none"] = NoRow
    BY DEF NoRow
  <2>4. row' \in [Series -> {NoRow} \cup Filled]
    BY <2>1, <2>2, <2>3
  <2> QED BY <1>7, <2>1, <2>4, UsingIsNat DEF RoundStarts
<1>8. CASE RoundApplies
  <2>1. CASE /\ job.hour # None /\ window' = job.window
             /\ Rewrites(job.s, Derived(job.hour, job.window, "none"))
    <3>1. Derived(job.hour, job.window, "none") \in Filled
      BY <1>8, <2>1, DerivedIsFilled DEF RoundApplies
    <3>2. row' \in [Series -> {NoRow} \cup Filled]
      BY <2>1, <3>1 DEF Rewrites, Becomes
    <3> QED BY <1>8, <2>1, <3>2 DEF RoundApplies, Idle
  <2>2. CASE window' = job.window /\ Rewrites(job.s, NoRow)
    <3>1. row' \in [Series -> {NoRow} \cup Filled]
      BY <2>2 DEF Rewrites, Becomes
    <3> QED BY <1>8, <2>2, <3>1 DEF RoundApplies, Idle
  <2>3. CASE row' = row /\ window' \in {window, job.window}
    BY <1>8, <2>3 DEF RoundApplies, Idle
  <2> QED BY <1>8, <2>1, <2>2, <2>3 DEF RoundApplies, store
<1>9. CASE JobFails
  BY <1>9 DEF JobFails, store, Idle
<1>10. CASE LoopReads
  BY <1>10 DEF LoopReads, store
<1>11. CASE LoopShows
  <2>1. Edge \in Times
    BY DEF Edge
  <2> QED BY <1>11, <2>1 DEF LoopShows, store
<1>12. CASE Tick
  <2>1. now' \in Times
    BY <1>12, AlarmsAssumption DEF Tick, Times
  <2> QED BY <1>12, <2>1 DEF Tick, store
<1>13. CASE ClockIsSet
  BY <1>13 DEF ClockIsSet, store
<1>14. CASE StoreCloses \/ StoreOpens
  BY <1>14 DEF StoreCloses, StoreOpens, store
<1>15. CASE Restart
  BY <1>15 DEF Restart, store, Idle, Starting
<1> QED BY <1>1, <1>2, <1>3, <1>4, <1>5, <1>6, <1>7, <1>8, <1>9, <1>10, <1>11, <1>12, <1>13,
           <1>14, <1>15 DEF Next, JobSteps, LoopSteps
-----------------------------------------------------------------------------
(* The rows and their text.                                                *)

SaysItsText(r) == r.occ = Fires(r.hour, r.win)

LEMMA RewritesKeepTheText ==
  ASSUME Shape, RowSaysItsText, NEW s \in Series, NEW r,
         r = NoRow \/ SaysItsText(r), Rewrites(s, r)
  PROVE  RowSaysItsText'
<1>1. row' = [row EXCEPT ![s] = r] /\ mixed' = mixed \ {s}
  BY DEF Rewrites, Becomes
<1> QED BY <1>1 DEF Shape, RowSaysItsText, SaysItsText, Present

LEMMA NextKeepsTheText == Shape /\ RowSaysItsText /\ [Next]_vars => RowSaysItsText'
<1> SUFFICES ASSUME Shape, RowSaysItsText, [Next]_vars PROVE RowSaysItsText'
  OBVIOUS
<1>1. ASSUME row' = row, mixed' = mixed PROVE RowSaysItsText'
  BY <1>1 DEF RowSaysItsText, Present
<1>2. ASSUME NEW s \in Series, PutEvent(s) PROVE RowSaysItsText'
  <2>1. PICK hour \in Hours : Rewrites(s, Derived(hour, Using, "put"))
    BY <1>2 DEF PutEvent
  <2>2. SaysItsText(Derived(hour, Using, "put"))
    BY UsingIsNat, DerivedIsFilled DEF SaysItsText
  <2> QED BY <2>1, <2>2, RewritesKeepTheText
<1>3. ASSUME NEW s \in Series, DeleteEvent(s) PROVE RowSaysItsText'
  <2>1. row[s] \in Filled /\ Present(s)
    BY <1>3, HoursOfRows DEF DeleteEvent
  <2>2. row' = [row EXCEPT ![s].mark = "delete"] /\ mixed' = mixed
    BY <1>3 DEF DeleteEvent, Becomes
  <2> QED BY <2>1, <2>2 DEF Shape, Filled, RowSaysItsText, Present
<1>4. CASE ShiftApplies
  <2> DEFINE shifts == {c \in job.stale : Shiftable(c)}
             ids    == {c.id : c \in shifts}
             of(s)  == CHOOSE c \in shifts : c.id = s
  <2>1. /\ row' = [s \in Series |-> IF s \in ids THEN Shifted(row[s], of(s)) ELSE row[s]]
        /\ mixed' = mixed \cup {c.id : c \in {d \in shifts :
                               row[d.id].win = d.win /\ row[d.id].hour # d.hour}}
        /\ job.target \in Nat
    BY <1>4 DEF ShiftApplies, Becomes, Shape
  <2>2. ASSUME NEW s \in Series, s \in ids, s \notin mixed'
        PROVE  row'[s].occ = Fires(row'[s].hour, row'[s].win)
    <3>1. of(s) \in shifts /\ of(s).id = s
      BY <2>2
    <3>2. Present(s) /\ row[s].win = of(s).win
      BY <3>1 DEF Shiftable
    <3>3. row[s].hour = of(s).hour /\ s \notin mixed
      BY <2>1, <2>2, <3>1, <3>2
    <3>4. row[s] \in Filled /\ row[s].occ = Fires(row[s].hour, row[s].win)
      BY <3>2, <3>3, HoursOfRows DEF RowSaysItsText
    <3>5. row'[s] = Shifted(row[s], of(s))
      BY <2>1, <2>2
    <3> HIDE DEF of, shifts, ids
    <3> QED BY <2>1, <3>2, <3>3, <3>4, <3>5, ShiftedSaysItsText
  <2>3. ASSUME NEW s \in Series, s \notin ids, Present(s)', s \notin mixed'
        PROVE  row'[s].occ = Fires(row'[s].hour, row'[s].win)
    <3>1. row'[s] = row[s] /\ s \notin mixed
      BY <2>1, <2>3
    <3> QED BY <2>3, <3>1 DEF RowSaysItsText, Present
  <2> QED BY <2>2, <2>3 DEF RowSaysItsText
<1>5. CASE RoundStarts
  <2>1. PICK pushed \in {{}, Series} :
          row' = [r \in Series |->
               IF r \notin pushed THEN row[r]
               ELSE IF row[r].mark = "delete" THEN NoRow ELSE [row[r] EXCEPT !.mark = "none"]]
    BY <1>5 DEF RoundStarts, Becomes
  <2>2. ASSUME NEW s \in Series, Present(s)', s \notin mixed
        PROVE  row'[s].occ = Fires(row'[s].hour, row'[s].win)
    <3>1. CASE row'[s] = row[s]
      BY <2>2, <3>1 DEF RowSaysItsText, Present
    <3>2. CASE row'[s] = [row[s] EXCEPT !.mark = "none"]
      <4>1. [NoRow EXCEPT !.mark = "none"] = NoRow
        BY DEF NoRow
      <4>2. Present(s)
        BY <2>2, <3>2, <4>1 DEF Present
      <4>3. row[s] \in Filled
        BY <4>2, HoursOfRows
      <4> QED BY <2>2, <3>2, <4>2, <4>3 DEF RowSaysItsText, Filled
    <3> QED BY <2>1, <2>2, <3>1, <3>2 DEF Present
  <2>3. mixed' = mixed
    BY <1>5 DEF RoundStarts
  <2> QED BY <2>2, <2>3 DEF RowSaysItsText
<1>6. CASE RoundApplies
  <2>1. job.pc = "round" /\ job.s \in Series /\ job.window \in Nat
    BY <1>6 DEF RoundApplies, Shape
  <2>2. CASE job.hour # None /\ Rewrites(job.s, Derived(job.hour, job.window, "none"))
    <3>1. job.hour \in Hours
      BY <2>1, <2>2 DEF Shape
    <3>2. SaysItsText(Derived(job.hour, job.window, "none"))
      BY <2>1, <3>1, DerivedIsFilled DEF SaysItsText
    <3> QED BY <2>1, <2>2, <3>2, RewritesKeepTheText
  <2>3. CASE Rewrites(job.s, NoRow)
    BY <2>1, <2>3, RewritesKeepTheText
  <2>4. CASE row' = row /\ mixed' = mixed
    BY <1>1, <2>4
  <2> QED BY <1>6, <2>2, <2>3, <2>4 DEF RoundApplies, store, history
<1>7. CASE UNCHANGED vars
  BY <1>1, <1>7 DEF vars, store, history
<1>8. CASE Maintain \/ ShiftReads \/ JobFails \/ LoopSteps
  BY <1>1, <1>8 DEF Maintain, ShiftReads, JobFails, LoopSteps, LoopReads, LoopShows, store, history
<1>9. CASE Tick \/ ClockIsSet \/ StoreCloses \/ StoreOpens \/ Restart
  BY <1>1, <1>9 DEF Tick, ClockIsSet, StoreCloses, StoreOpens, Restart, store, history
<1> QED BY <1>2, <1>3, <1>4, <1>5, <1>6, <1>7, <1>8, <1>9 DEF Next, JobSteps
-----------------------------------------------------------------------------
(* The edge of the loop.                                                   *)

\* Whatever is written, what it adds to the pass under way is noted as late.
LEMMA WritesKeepTheEdge ==
  ASSUME EdgeInv, NEW rows, Becomes(rows) \/ (row' = row /\ missed' = missed),
         loop' = loop, shown' = shown, rewound' = rewound
  PROVE  EdgeInv'
BY DEF Becomes, Late, EdgeInv, AlarmsOf

LEMMA NextKeepsTheEdge == Shape /\ Shape' /\ EdgeInv /\ [Next]_vars => EdgeInv'
<1> SUFFICES ASSUME Shape, Shape', EdgeInv, [Next]_vars PROVE EdgeInv'
  OBVIOUS
<1>1. ASSUME row' = row, missed' = missed, loop' = loop, shown' = shown, rewound' = rewound
      PROVE  EdgeInv'
  BY <1>1, WritesKeepTheEdge
<1>2. ASSUME NEW s \in Series, PutEvent(s) PROVE EdgeInv'
  BY <1>2, WritesKeepTheEdge DEF PutEvent, Rewrites
<1>3. ASSUME NEW s \in Series, DeleteEvent(s) PROVE EdgeInv'
  BY <1>3, WritesKeepTheEdge DEF DeleteEvent
<1>4. CASE ShiftApplies
  BY <1>4, WritesKeepTheEdge DEF ShiftApplies
<1>5. CASE RoundStarts
  BY <1>5, WritesKeepTheEdge DEF RoundStarts
<1>6. CASE RoundApplies
  BY <1>1, <1>6, WritesKeepTheEdge DEF RoundApplies, Rewrites, store, history
<1>7. CASE LoopReads
  <2>1. PICK B \in SUBSET AlarmsOf(loop.since, now) :
          /\ loop' = [pc |-> "show", since |-> loop.since, at |-> now, batch |-> B, sleep |-> 0,
                      lag |-> None]
          /\ missed' = AlarmsOf(loop.since, now) \ B
    BY <1>7 DEF LoopReads
  <2>2. shown' = shown /\ rewound' = rewound /\ row' = row
    BY <1>7 DEF LoopReads, store
  <2> QED BY <2>1, <2>2 DEF EdgeInv, AlarmsOf
<1>8. CASE LoopShows
  <2>1. /\ loop'.pc = "asleep" /\ loop'.since = Edge
        /\ shown' = shown \cup loop.batch /\ rewound' = rewound
    BY <1>8 DEF LoopShows, Shape
  <2>2. loop.since <= Edge /\ loop.at <= Edge
    BY TimesAreNat DEF Edge, Shape
  <2>3. ASSUME ~rewound, NEW a \in shown \cup loop.batch
        PROVE  a \in Series \X Times /\ a[2] <= Edge
    <3>1. a \in Series \X Times /\ (a[2] <= loop.since \/ a[2] <= loop.at)
      BY <1>8, <2>3 DEF EdgeInv, LoopShows
    <3>2. a[2] \in Times
      BY <3>1
    <3>3. Edge \in Times
      BY DEF Edge, Shape
    <3> QED BY <2>2, <3>1, <3>2, <3>3, TimesAreNat DEF Shape
  <2> QED BY <2>1, <2>3 DEF EdgeInv
<1>9. CASE Restart
  <2>1. /\ loop'.pc = "asleep" /\ loop'.since = now /\ shown' = shown
        /\ rewound' = (rewound \/ now < loop.since)
    BY <1>9 DEF Restart, Starting
  <2>2. ASSUME ~rewound', NEW a \in shown PROVE a \in Series \X Times /\ a[2] <= now
    <3>1. ~rewound /\ ~(now < loop.since)
      BY <2>1, <2>2
    <3>2. a \in Series \X Times /\ a[2] <= loop.since
      BY <2>2, <3>1 DEF EdgeInv
    <3>3. a[2] \in Times
      BY <3>2
    <3> QED BY <3>1, <3>2, <3>3, TimesAreNat DEF Shape
  <2> QED BY <2>1, <2>2 DEF EdgeInv
<1>10. CASE Tick \/ ClockIsSet
  <2>1. /\ loop'.pc = loop.pc /\ loop'.since = loop.since /\ loop'.at = loop.at
        /\ loop'.batch = loop.batch
    BY <1>10 DEF Tick, ClockIsSet, Shape
  <2>2. row' = row /\ missed' = missed /\ shown' = shown /\ rewound' = rewound
    BY <1>10 DEF Tick, ClockIsSet, store, history
  <2> QED BY <2>1, <2>2 DEF EdgeInv, AlarmsOf
<1>11. CASE UNCHANGED vars
  BY <1>1, <1>11 DEF vars, store, history
<1>12. CASE Maintain \/ ShiftReads \/ JobFails \/ StoreCloses \/ StoreOpens
  BY <1>1, <1>12 DEF Maintain, ShiftReads, JobFails, StoreCloses, StoreOpens, store, history
<1> QED BY <1>2, <1>3, <1>4, <1>5, <1>6, <1>7, <1>8, <1>9, <1>10, <1>11, <1>12
        DEF Next, JobSteps, LoopSteps

\* What a pass shows is after the edge it started from, and so is new; and nothing
\* up to the edge it leaves was in neither of its two hands.
LEMMA APassIsExact ==
  Shape /\ EdgeInv /\ LoopShows /\ ~rewound =>
    /\ loop.batch \cap shown = {}
    /\ AlarmsOf(loop.since, loop'.since) \subseteq loop.batch \cup missed
<1> SUFFICES ASSUME Shape, EdgeInv, LoopShows, ~rewound
             PROVE  /\ loop.batch \cap shown = {}
                    /\ AlarmsOf(loop.since, loop'.since) \subseteq loop.batch \cup missed
  OBVIOUS
<1>1. loop.pc = "show" /\ loop'.since = Edge
  BY DEF LoopShows, Shape
<1>2. ASSUME NEW a \in loop.batch PROVE a \notin shown
  <2>1. a \in Series \X Times /\ loop.since < a[2]
    BY <1>1 DEF EdgeInv
  <2>2. a \in shown => a[2] <= loop.since
    BY DEF EdgeInv
  <2>3. a[2] \in Times
    BY <2>1
  <2> QED BY <2>1, <2>2, <2>3, TimesAreNat DEF Shape
<1>3. CASE loop.at > loop.since
  BY <1>1, <1>2, <1>3 DEF EdgeInv, Edge
<1>4. CASE ~(loop.at > loop.since)
  <2>1. loop'.since = loop.since
    BY <1>1, <1>4 DEF Edge
  <2>2. ASSUME NEW a \in AlarmsOf(loop.since, loop.since) PROVE FALSE
    <3>1. a[2] \in Times /\ loop.since < a[2] /\ a[2] <= loop.since
      BY <2>2 DEF AlarmsOf
    <3> QED BY <3>1, TimesAreNat DEF Shape
  <2> QED BY <1>2, <2>1, <2>2
<1> QED BY <1>3, <1>4
-----------------------------------------------------------------------------
LEMMA AlwaysInv == Spec => []Inv
<1>1. Init => Inv
  <2> SUFFICES ASSUME Init PROVE Inv
    OBVIOUS
  <2>1. Shape
    BY InitHasShape
  <2>2. RowSaysItsText
    <3>1. 0 \in Hours /\ Today \in Nat
      BY <2>1, AlarmsAssumption, TodayIsNat DEF Hours, Shape
    <3> QED BY <3>1, DerivedIsFilled DEF Init, RowSaysItsText, Present
  <2>3. EdgeInv
    BY DEF Init, Starting, EdgeInv
  <2> QED BY <2>1, <2>2, <2>3 DEF Inv
<1>2. Inv /\ [Next]_vars => Inv'
  BY NextKeepsShape, NextKeepsTheText, NextKeepsTheEdge DEF Inv
<1> QED BY <1>1, <1>2, PTL DEF Spec

\* The occurrences of a row are those of its text in the window it says, whatever
\* shifts, rounds, edits and failures it went through, but for a series whose shift
\* met an edit (store/calendar.rs, apply_window_shift).
THEOREM RowsSayTheirText == Spec => []RowSaysItsText
BY AlwaysInv, PTL DEF Inv

\* From an edge to the next one every reminder is shown, and for the first time, but
\* for those the pass leaves behind (reminders.rs, step).
THEOREM RemindersOnce == Spec => EachOnce
<1>1. Inv /\ [Next]_vars =>
        [LoopShows /\ ~rewound =>
           /\ loop.batch \cap shown = {}
           /\ AlarmsOf(loop.since, loop'.since) \subseteq loop.batch \cup missed]_vars
  BY APassIsExact DEF Inv
<1> QED BY <1>1, AlwaysInv, PTL DEF Spec, EachOnce
-----------------------------------------------------------------------------
(* The rest of the types.                                                  *)

Todo == [id : Series, hour : Hours, win : Nat]
Loops == [pc : {"asleep", "show"}, since : Times, at : Times,
          batch : SUBSET (Series \X Times), sleep : 0..MaxSleep, lag : Times \cup {None}]
Histories ==
  /\ shown \subseteq Series \X Times /\ missed \subseteq Series \X Times
  /\ mixed \subseteq Series /\ behind \subseteq Series /\ rewound \in BOOLEAN
Typed ==
  /\ Shape /\ job \in Jobs /\ loop \in Loops /\ Histories
  /\ open \in BOOLEAN /\ woken \in BOOLEAN /\ events \in 0..MaxEvents

\* A set of natural numbers has a least element.
LEMMA LeastNat ==
  ASSUME NEW S, S \subseteq Nat, S # {}
  PROVE  Least(S) \in S /\ \A y \in S : Least(S) <= y
<1>1. \E x \in S : \A y \in S : ~(<<y, x>> \in OpToRel(<, Nat))
  BY NatLessThanWellFounded, WFMin, Zenon
<1>2. ASSUME NEW x \in S, \A y \in S : ~(<<y, x>> \in OpToRel(<, Nat)), NEW y \in S
      PROVE  x <= y
  <2>1. ~(<<y, x>> \in {ss \in Nat \X Nat : ss[1] < ss[2]})
    BY <1>2, Zenon DEF OpToRel
  <2>2. x \in Nat /\ y \in Nat
    OBVIOUS
  <2> QED BY <2>1, <2>2
<1>3. \E x \in S : \A y \in S : x <= y
  BY <1>1, <1>2
<1> QED BY <1>3, Zenon DEF Least

\* Among some series there is a last one.
LEMMA LastSeries ==
  ASSUME NEW S \in SUBSET Series, S # {}
  PROVE  (CHOOSE s \in S : \A r \in S : r <= s) \in Nat
<1> DEFINE T == {MaxSeries - s : s \in S}
<1>1. \A s \in S : s \in Nat /\ s <= MaxSeries /\ MaxSeries - s \in Nat
  BY AlarmsAssumption DEF Series, AlarmsAssumption
<1>2. T \subseteq Nat /\ T # {}
  BY <1>1
<1>3. PICK x \in T : \A y \in T : x <= y
  BY <1>2, LeastNat, Zenon
<1>4. PICK s \in S : x = MaxSeries - s
  OBVIOUS
<1>5. \A r \in S : MaxSeries - r \in T
  OBVIOUS
<1>6. \A r \in S : r <= s
  <2>1. ASSUME NEW r \in S PROVE r <= s
    <3>1. x <= MaxSeries - r
      BY <1>3, <1>5, Zenon
    <3> HIDE DEF T
    <3> QED BY <1>1, <1>4, <3>1, AlarmsAssumption DEF AlarmsAssumption
  <2> QED BY <2>1
<1>7. (CHOOSE s_1 \in S : \A r \in S : r <= s_1) \in S
  BY <1>6, Zenon
<1> QED BY <1>1, <1>7

LEMMA SleepType ==
  ASSUME Shape, NEW t \in Times
  PROVE  /\ Sleep(t) \in 0..MaxSleep
         /\ open => \A s \in Series : \A u \in row[s].occ : u > t => Sleep(t) <= u - t
<1> DEFINE after == {u \in UNION {row[s].occ : s \in Series} : u > t}
<1>0. MaxSleep \in Nat /\ t \in Nat
  BY AlarmsAssumption, TimesAreNat DEF AlarmsAssumption
<1>1. \A s \in Series : \A u \in row[s].occ : u \in Nat
  <2>1. ASSUME NEW s \in Series PROVE row[s].occ \subseteq Times
    <3>1. row[s] \in Filled \/ row[s] = NoRow
      BY DEF Shape
    <3> QED BY <3>1 DEF Filled, NoRow
  <2> QED BY <2>1, TimesAreNat
<1>2. after \subseteq Nat /\ \A u \in after : u > t
  BY <1>1
<1>3. \A s \in Series : \A u \in row[s].occ : u > t => u \in after
  OBVIOUS
<1>4. CASE open /\ after # {}
  <2>1. PICK u : u = Least(after)
    OBVIOUS
  <2>2. Sleep(t) = Least({MaxSleep, u - t})
    BY <1>4, <2>1, Zenon DEF Sleep
  <2> HIDE DEF after
  <2>3. u \in after /\ \A x \in after : u <= x
    BY <1>2, <1>4, <2>1, LeastNat
  <2>4. u \in Nat /\ u - t \in Nat
    BY <1>0, <1>2, <2>3
  <2>5. Sleep(t) \in Nat /\ Sleep(t) <= MaxSleep /\ Sleep(t) <= u - t
    <3>1. {MaxSleep, u - t} \subseteq Nat /\ {MaxSleep, u - t} # {}
      BY <1>0, <2>4
    <3> QED BY <2>2, <3>1, LeastNat
  <2>6. \A s \in Series : \A x \in row[s].occ : x > t => u <= x
    BY <1>3, <2>3
  <2> QED BY <1>0, <1>1, <2>4, <2>5, <2>6
<1>5. CASE ~(open /\ after # {})
  <2>1. Sleep(t) = MaxSleep
    BY <1>5, Zenon DEF Sleep
  <2> HIDE DEF after
  <2> QED BY <1>0, <1>3, <1>5, <2>1
<1> QED BY <1>4, <1>5

LEMMA BecomesType ==
  ASSUME Typed, NEW rows, Becomes(rows)
  PROVE  woken' \in BOOLEAN /\ missed' \subseteq Series \X Times
BY DEF Typed, Histories, Becomes, Late

LEMMA HappensType ==
  ASSUME Typed, Happens \/ UNCHANGED events
  PROVE  events' \in 0..MaxEvents
BY AlarmsAssumption DEF Typed, Happens, AlarmsAssumption

LEMMA RewritesType ==
  ASSUME Typed, NEW s \in Series, NEW r, Rewrites(s, r)
  PROVE  woken' \in BOOLEAN /\ Histories'
<1>1. woken' \in BOOLEAN /\ missed' \subseteq Series \X Times
  BY BecomesType DEF Rewrites
<1>2. mixed' \subseteq Series /\ behind' \subseteq Series /\ UNCHANGED <<shown, rewound>>
  BY DEF Rewrites, Typed, Histories
<1> QED BY <1>1, <1>2 DEF Typed, Histories

LEMMA StartingType ==
  ASSUME now \in Times
  PROVE  Starting \in Loops /\ Starting.pc = "asleep"
<1>1. 0 \in 0..MaxSleep
  BY AlarmsAssumption DEF AlarmsAssumption
<1> QED BY <1>1 DEF Starting, Loops

LEMMA JobsOfAll ==
  /\ Idle \in Jobs
  /\ \A target \in Nat, after \in Nat : [pc |-> "read", target |-> target, after |-> after] \in Jobs
  /\ \A target \in Nat, after \in Nat, last \in BOOLEAN, stale \in SUBSET Todo :
       [pc |-> "apply", target |-> target, after |-> after, last |-> last, stale |-> stale] \in Jobs
  /\ \A w \in Nat, s \in Series, hour \in Hours \cup {None} :
       [pc |-> "round", window |-> w, s |-> s, hour |-> hour] \in Jobs
BY DEF Jobs, Todo

LEMMA JobFacts ==
  ASSUME job \in Jobs
  PROVE  /\ job.pc = "read" => job \in [pc : {"read"}, target : Nat, after : Nat]
         /\ job.pc = "apply" => job \in [pc : {"apply"}, target : Nat, after : Nat,
                                         last : BOOLEAN, stale : SUBSET Todo]
         /\ job.pc = "round" => job \in [pc : {"round"}, window : Nat, s : Series,
                                         hour : Hours \cup {None}]
BY DEF Jobs, Todo, Idle

\* The types, one action at a time; Shape is kept already.
LEMMA NextKeepsTypes == Typed /\ Shape' /\ [Next]_vars => Typed'
<1> SUFFICES ASSUME Typed, Shape', [Next]_vars PROVE Typed'
  OBVIOUS
<1>0. Shape /\ job \in Jobs /\ loop \in Loops /\ Histories
  BY DEF Typed
<1>1. CASE UNCHANGED vars
  BY <1>1 DEF vars, history, Typed, Histories
<1>2. ASSUME NEW s \in Series, PutEvent(s) PROVE Typed'
  <2>1. woken' \in BOOLEAN /\ Histories' /\ events' \in 0..MaxEvents
    BY <1>2, RewritesType, HappensType DEF PutEvent
  <2> QED BY <1>2, <2>1 DEF PutEvent, Typed
<1>3. ASSUME NEW s \in Series, DeleteEvent(s) PROVE Typed'
  <2>1. woken' \in BOOLEAN /\ missed' \subseteq Series \X Times /\ events' \in 0..MaxEvents
    BY <1>3, BecomesType, HappensType DEF DeleteEvent
  <2> QED BY <1>3, <2>1 DEF DeleteEvent, Typed, Histories
<1>4. CASE Maintain
  <2>1. Today \in Nat /\ 0 \in Nat
    BY <1>0, TodayIsNat DEF Shape
  <2>2. job' \in Jobs
    BY <1>4, <2>1, JobsOfAll DEF Maintain
  <2> QED BY <1>4, <2>2 DEF Maintain, Typed, Histories, history
<1>5. CASE ShiftReads
  <2>1. job \in [pc : {"read"}, target : Nat, after : Nat]
    BY <1>0, <1>5, JobFacts DEF ShiftReads
  <2>2. PICK S \in SUBSET Stale :
          job' = [pc |-> "apply", target |-> job.target,
                  after |-> IF S = {} THEN job.after
                            ELSE CHOOSE s \in S : \A r \in S : r <= s,
                  last |-> Cardinality(S) < ShiftBatch,
                  stale |-> {[id |-> s, hour |-> row[s].hour, win |-> row[s].win] : s \in S}]
    BY <1>5, Zenon DEF ShiftReads
  <2>3. \A s \in S : s \in Series /\ row[s] \in Filled
    BY <1>0, <2>2, HoursOfRows DEF Stale
  <2>4. {[id |-> s, hour |-> row[s].hour, win |-> row[s].win] : s \in S} \in SUBSET Todo
    BY <2>3 DEF Filled, Todo
  <2>5. (IF S = {} THEN job.after ELSE CHOOSE s \in S : \A r \in S : r <= s) \in Nat
    <3>1. S # {} => (CHOOSE s \in S : \A r \in S : r <= s) \in Nat
      BY <2>3, LastSeries
    <3> QED BY <2>1, <3>1
  <2>6. (Cardinality(S) < ShiftBatch) \in BOOLEAN
    OBVIOUS
  <2>7. job' \in Jobs
    BY <2>1, <2>2, <2>4, <2>5, <2>6, JobsOfAll, Zenon
  <2> QED BY <1>5, <2>7 DEF ShiftReads, Typed, Histories, history
<1>6. CASE ShiftApplies
  <2>1. job \in [pc : {"apply"}, target : Nat, after : Nat, last : BOOLEAN, stale : SUBSET Todo]
    BY <1>0, <1>6, JobFacts DEF ShiftApplies
  <2>2. job' \in Jobs
    <3>1. [pc |-> "read", target |-> job.target, after |-> job.after] \in Jobs
      BY <2>1, JobsOfAll
    <3>2. job' = Idle \/ job' = [pc |-> "read", target |-> job.target, after |-> job.after]
      BY <1>6 DEF ShiftApplies
    <3> QED BY <3>1, <3>2, JobsOfAll
  <2>3. woken' \in BOOLEAN /\ missed' \subseteq Series \X Times
    BY <1>6, BecomesType DEF ShiftApplies
  <2>4. mixed' \subseteq Series /\ behind' \subseteq Series
    <3>1. mixed' \subseteq mixed \cup {c.id : c \in job.stale} /\ behind' \subseteq behind
      BY <1>6 DEF ShiftApplies
    <3>2. \A c \in job.stale : c.id \in Series
      BY <2>1 DEF Todo
    <3> QED BY <3>1, <3>2 DEF Typed, Histories
  <2> QED BY <1>6, <2>2, <2>3, <2>4 DEF ShiftApplies, Typed, Histories
<1>7. CASE RoundStarts
  <2>1. PICK s \in Series, hour \in Hours \cup {None} :
          job' = [pc |-> "round", window |-> Using, s |-> s, hour |-> hour]
    BY <1>7, Zenon DEF RoundStarts
  <2>2. job' \in Jobs
    BY <1>0, <2>1, UsingIsNat, JobsOfAll
  <2>3. woken' \in BOOLEAN /\ missed' \subseteq Series \X Times /\ events' \in 0..MaxEvents
    <3>1. \E rows : Becomes(rows)
      BY <1>7, Zenon DEF RoundStarts
    <3> QED BY <1>7, <3>1, BecomesType, HappensType DEF RoundStarts
  <2> QED BY <1>7, <2>2, <2>3 DEF RoundStarts, Typed, Histories
<1>8. CASE RoundApplies
  <2>1. job.s \in Series /\ job' = Idle /\ UNCHANGED <<open, loop, events>>
    BY <1>0, <1>8, JobFacts DEF RoundApplies
  <2>2. woken' \in BOOLEAN /\ Histories'
    <3>1. (\E r : Rewrites(job.s, r)) \/ UNCHANGED <<woken, history>>
      BY <1>8, Zenon DEF RoundApplies, store
    <3>2. CASE UNCHANGED <<woken, history>>
      BY <3>2 DEF Typed, Histories, history
    <3> QED BY <2>1, <3>1, <3>2, RewritesType
  <2> QED BY <2>1, <2>2, JobsOfAll DEF Typed
<1>9. CASE JobFails
  <2>1. behind' \subseteq Series /\ events' \in 0..MaxEvents
    <3>1. behind' \subseteq Series
      BY <1>9 DEF JobFails, Abandons, Typed, Histories
    <3>2. Happens \/ UNCHANGED events
      BY <1>9 DEF JobFails
    <3> QED BY <3>1, <3>2, HappensType
  <2> QED BY <1>9, <2>1, JobsOfAll DEF JobFails, Typed, Histories
<1>10. CASE LoopReads
  <2>1. PICK B \in SUBSET AlarmsOf(loop.since, now) :
          /\ loop' = [pc |-> "show", since |-> loop.since, at |-> now, batch |-> B, sleep |-> 0,
                      lag |-> None]
          /\ missed' = AlarmsOf(loop.since, now) \ B
    BY <1>10 DEF LoopReads
  <2>2. AlarmsOf(loop.since, now) \subseteq Series \X Times
    BY DEF AlarmsOf
  <2>3. loop' \in Loops
    <3>1. loop.since \in Times /\ now \in Times /\ 0 \in 0..MaxSleep
      BY <1>0, AlarmsAssumption DEF Shape, AlarmsAssumption
    <3> QED BY <2>1, <2>2, <3>1 DEF Loops
  <2>4. woken' \in BOOLEAN
    BY <1>10 DEF LoopReads, Typed
  <2> QED BY <1>10, <2>1, <2>2, <2>3, <2>4 DEF LoopReads, Typed, Histories
<1>11. CASE LoopShows
  <2>1. Edge \in Times /\ Sleep(loop.at) \in 0..MaxSleep
    BY <1>0, SleepType DEF Edge, Shape
  <2>2. PICK lag \in Times \cup {None} :
          /\ lag = IF open /\ now >= loop.at THEN now - loop.at ELSE None
    <3>1. now \in 0..MaxNow /\ loop.at \in 0..MaxNow /\ MaxNow \in Nat
      BY <1>0, AlarmsAssumption DEF Shape, Times, AlarmsAssumption
    <3>2. open /\ now >= loop.at => now - loop.at \in Times
      BY <3>1 DEF Times
    <3> QED BY <3>2
  <2>3. loop' = [loop EXCEPT !.pc = "asleep", !.since = Edge, !.batch = {},
                             !.sleep = Sleep(loop.at), !.lag = lag]
    BY <1>11, <2>2, Zenon DEF LoopShows
  <2>4. loop' \in Loops
    BY <1>0, <2>1, <2>2, <2>3 DEF Loops
  <2>5. shown' \subseteq Series \X Times
    BY <1>0, <1>11 DEF LoopShows, Histories, Loops
  <2> QED BY <1>11, <2>4, <2>5 DEF LoopShows, Typed, Histories
<1>12. CASE Tick
  <2>1. loop' = [loop EXCEPT !.sleep = IF loop.sleep > 0 THEN loop.sleep - 1 ELSE 0]
    BY <1>12, Zenon DEF Tick
  <2>2. loop' \in Loops
    BY <1>0, <2>1, AlarmsAssumption DEF Loops, AlarmsAssumption
  <2> QED BY <1>12, <2>2 DEF Tick, Typed, Histories, history
<1>13. CASE ClockIsSet
  <2>1. loop' \in Loops
    BY <1>0, <1>13 DEF ClockIsSet, Loops
  <2> QED BY <1>13, <2>1, HappensType DEF ClockIsSet, Typed, Histories, history
<1>14. CASE StoreCloses \/ StoreOpens
  <2>1. events' \in 0..MaxEvents
    BY <1>14, HappensType DEF StoreCloses, StoreOpens
  <2> QED BY <1>14, <2>1 DEF StoreCloses, StoreOpens, Typed, Histories, history
<1>15. CASE Restart
  <2>1. behind' \subseteq Series /\ missed' \subseteq Series \X Times /\ rewound' \in BOOLEAN
    BY <1>15 DEF Restart, Abandons, AlarmsOf, Typed, Histories
  <2>2. loop' \in Loops
    BY <1>0, <1>15, StartingType DEF Restart, Shape
  <2> QED BY <1>15, <2>1, <2>2, HappensType, JobsOfAll DEF Restart, Typed, Histories
<1> QED BY <1>1, <1>2, <1>3, <1>4, <1>5, <1>6, <1>7, <1>8, <1>9, <1>10, <1>11, <1>12, <1>13,
           <1>14, <1>15 DEF Next, JobSteps, LoopSteps
-----------------------------------------------------------------------------
(* The alarm.                                                              *)

\* The steps that touch neither the loop nor the clock: if the reminders change,
\* the loop is woken.
LEMMA AlarmQuiet ==
  ASSUME AlarmIsSet, UNCHANGED <<loop, now>>,
         (UNCHANGED <<row, woken>>) \/ \E rows : Becomes(rows)
  PROVE  AlarmIsSet'
<1>1. CASE UNCHANGED <<row, woken>>
  BY <1>1 DEF AlarmIsSet, AlarmsOf
<1>2. ASSUME NEW rows, Becomes(rows) PROVE AlarmIsSet'
  <2>1. CASE \A s \in Series : Alarms(rows[s]) = Alarms(row[s])
    <3>1. AlarmsOf(loop.since, MaxNow)' = AlarmsOf(loop.since, MaxNow)
      BY <1>2, <2>1 DEF Becomes, AlarmsOf
    <3>2. woken => woken'
      BY <1>2 DEF Becomes
    <3> QED BY <3>1, <3>2 DEF AlarmIsSet
  <2>2. CASE \E s \in Series : Alarms(rows[s]) # Alarms(row[s])
    BY <1>2, <2>2 DEF Becomes, AlarmIsSet
  <2> QED BY <2>1, <2>2
<1> QED BY <1>1, <1>2

\* The loop goes to sleep until the first reminder after the hour of its pass.
LEMMA AlarmShows ==
  ASSUME Typed, LoopShows
  PROVE  AlarmIsSet'
<1>1. /\ loop'.pc = "asleep" /\ loop'.since = Edge /\ loop'.sleep = Sleep(loop.at)
      /\ loop'.lag = IF open /\ now >= loop.at THEN now - loop.at ELSE None
      /\ UNCHANGED <<row, now, open>>
  BY DEF LoopShows, Typed, Loops, store
<1>2. /\ Sleep(loop.at) \in 0..MaxSleep /\ loop.at \in Times /\ Edge \in Times /\ now \in Times
      /\ open => \A s \in Series : \A u \in row[s].occ : u > loop.at => Sleep(loop.at) <= u - loop.at
  BY SleepType DEF Typed, Shape, Edge
<1>3. loop.at <= Edge
  BY <1>2, TimesAreNat DEF Edge, Typed, Shape
<1>4. MaxSleep \in Nat
  BY AlarmsAssumption DEF AlarmsAssumption
<1> SUFFICES ASSUME loop'.lag # None, NEW a \in AlarmsOf(Edge, MaxNow)
             PROVE  Sleep(loop.at) <= a[2] + loop'.lag - now
  BY <1>1 DEF AlarmIsSet, AlarmsOf
<1>5. open /\ loop'.lag = now - loop.at
  BY <1>1
<1>6. PICK s \in Series, u \in Times : a = <<s, u>> /\ u \in row[s].occ /\ Edge < u
  BY DEF AlarmsOf, Alarms
<1>7. Sleep(loop.at) <= u - loop.at
  BY <1>2, <1>3, <1>5, <1>6, TimesAreNat
<1> QED BY <1>2, <1>4, <1>5, <1>6, <1>7, TimesAreNat

LEMMA AlarmTick ==
  ASSUME Typed, AlarmIsSet, Tick
  PROVE  AlarmIsSet'
<1>1. /\ loop'.pc = loop.pc /\ loop'.since = loop.since /\ loop'.lag = loop.lag
      /\ loop'.sleep = (IF loop.sleep > 0 THEN loop.sleep - 1 ELSE 0)
      /\ UNCHANGED <<row, woken>> /\ now' = IF now < MaxNow THEN now + 1 ELSE now
  BY DEF Tick, Typed, Loops, store
<1>2. /\ loop.sleep \in Nat /\ now \in Nat /\ loop.lag \in Nat \cup {None} /\ MaxNow \in Nat
      /\ now <= MaxNow
  <2>1. MaxSleep \in Nat /\ MaxNow \in Nat
    BY AlarmsAssumption DEF AlarmsAssumption
  <2> QED BY <2>1 DEF Typed, Shape, Loops, Times
<1>3. AlarmsOf(loop.since, MaxNow)' = AlarmsOf(loop.since, MaxNow)
  BY <1>1 DEF AlarmsOf
<1>4. ASSUME loop.lag # None, NEW u \in Nat,
             loop.sleep = 0 \/ loop.sleep <= u + loop.lag - now
      PROVE  loop'.sleep = 0 \/ loop'.sleep <= u + loop.lag - now'
  BY <1>1, <1>2, <1>4
<1>5. \A a \in AlarmsOf(loop.since, MaxNow) : a[2] \in Nat
  BY TimesAreNat DEF AlarmsOf
<1> SUFFICES ASSUME loop'.pc = "asleep", ~woken', loop'.lag # None,
                    NEW a \in AlarmsOf(loop.since, MaxNow)
             PROVE  loop'.sleep = 0 \/ loop'.sleep <= a[2] + loop'.lag - now'
  BY <1>3, Zenon DEF AlarmIsSet
<1>6. loop.pc = "asleep" /\ ~woken /\ loop.lag # None
  BY <1>1
<1>7. loop.sleep = 0 \/ loop.sleep <= a[2] + loop.lag - now
  BY <1>6, Zenon DEF AlarmIsSet
<1> QED BY <1>1, <1>4, <1>5, <1>6, <1>7

LEMMA NextKeepsTheAlarm == Typed /\ AlarmIsSet /\ [Next]_vars => AlarmIsSet'
<1> SUFFICES ASSUME Typed, AlarmIsSet, [Next]_vars PROVE AlarmIsSet'
  OBVIOUS
<1>1. ASSUME NEW s \in Series, PutEvent(s) \/ DeleteEvent(s) PROVE AlarmIsSet'
  <2>1. \E rows : Becomes(rows)
    BY <1>1, Zenon DEF PutEvent, DeleteEvent, Rewrites
  <2> QED BY <1>1, <2>1, AlarmQuiet DEF PutEvent, DeleteEvent
<1>2. CASE ShiftApplies \/ RoundStarts
  <2>1. \E rows : Becomes(rows)
    BY <1>2, Zenon DEF ShiftApplies, RoundStarts
  <2> QED BY <1>2, <2>1, AlarmQuiet DEF ShiftApplies, RoundStarts
<1>3. CASE RoundApplies
  <2>1. (UNCHANGED <<row, woken>>) \/ \E rows : Becomes(rows)
    BY <1>3, Zenon DEF RoundApplies, Rewrites, store
  <2> QED BY <1>3, <2>1, AlarmQuiet DEF RoundApplies
<1>4. CASE Maintain \/ ShiftReads \/ JobFails \/ StoreCloses \/ StoreOpens
  BY <1>4, AlarmQuiet DEF Maintain, ShiftReads, JobFails, StoreCloses, StoreOpens, store
<1>5. CASE LoopReads
  <2>1. loop'.pc = "show"
    BY <1>5 DEF LoopReads
  <2> QED BY <2>1 DEF AlarmIsSet
<1>6. CASE LoopShows
  BY <1>6, AlarmShows
<1>7. CASE Tick
  BY <1>7, AlarmTick
<1>8. CASE ClockIsSet \/ Restart
  <2>1. loop'.lag = None
    BY <1>8 DEF ClockIsSet, Restart, Starting, Typed, Loops
  <2> QED BY <2>1 DEF AlarmIsSet
<1>9. CASE UNCHANGED vars
  BY <1>9, AlarmQuiet DEF vars, store
<1> QED BY <1>1, <1>2, <1>3, <1>4, <1>5, <1>6, <1>7, <1>8, <1>9 DEF Next, JobSteps, LoopSteps

LEMMA AlwaysTyped == Spec => []Typed
<1>1. Init => Typed
  <2> SUFFICES ASSUME Init PROVE Typed
    OBVIOUS
  <2>1. Shape /\ 0 \in 0..MaxEvents
    BY InitHasShape, AlarmsAssumption DEF AlarmsAssumption
  <2>2. loop \in Loops
    BY <2>1, StartingType DEF Init, Shape
  <2> QED BY <2>1, <2>2, JobsOfAll DEF Init, Typed, Histories
<1>2. Typed /\ [Next]_vars => Typed'
  BY NextKeepsShape, NextKeepsTypes DEF Typed
<1> QED BY <1>1, <1>2, PTL DEF Spec

\* The type of the state.
THEOREM AlarmsTypeOK == Spec => []TypeOK
<1>1. Typed => TypeOK
  BY DEF Typed, Shape, Filled, Loops, Histories, TypeOK
<1> QED BY <1>1, AlwaysTyped, PTL

\* No reminder is slept through: the loop wakes at the hour of the next one, however
\* the rows change, unless the clock was set or the store was closed (next_after,
\* note_change, due_loop.rs).
THEOREM AlarmStaysSet == Spec => []AlarmIsSet
<1>1. Init => AlarmIsSet
  BY DEF Init, Starting, AlarmIsSet
<1> QED BY <1>1, AlwaysTyped, NextKeepsTheAlarm, PTL DEF Spec
=============================================================================
