------------------------ MODULE CalendarAlarmsClaims ------------------------
(* What the comment of apply_window_shift says of it.                      *)
EXTENDS CalendarAlarms

\* "Una serie que no está como se la leyó —la reescribió la sincronización, o se
\* borró— no se toca": a shift leaves alone a series whose text is another one
\* since it was read.
ChangedIsNotTouched ==
  [][ShiftApplies => \A c \in job.stale : row[c.id].hour # c.hour => row'[c.id] = row[c.id]]_vars
=============================================================================
