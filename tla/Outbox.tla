------------------------------- MODULE Outbox -------------------------------
(***************************************************************************)
(* The outbox: messages the person sent and no server has taken yet, one   *)
(* file each (sync/src/outbox.rs), the D-Bus methods that put and discard  *)
(* them, the one task that tries to deliver them (sync/src/main.rs) and    *)
(* the move from the folder an earlier version kept them in.               *)
(*                                                                         *)
(* The dispatcher reads the whole folder, then awaits the network once per *)
(* message holding only its copy: the person acts meanwhile, and a pass    *)
(* ends at any point when the process dies.  Moments are kept as the time  *)
(* that is left to them, so the clock needs no bound.                      *)
(***************************************************************************)
EXTENDS Naturals, FiniteSets

CONSTANTS
  Msg,           \* the messages: numbers, as their identifiers sort by age
  MaxQueued,     \* MAX_QUEUED
  MaxAttempts,   \* MAX_ATTEMPTS
  MaxWait,       \* the longest backoff, in minutes
  MaxHold,       \* bound on the hour the person asks for, in minutes
  MaxFaults      \* bound on crashes, lost replies and failures of the disk

ASSUME OutboxAssumption ==
  /\ Msg \subseteq Nat /\ IsFiniteSet(Msg)
  /\ MaxQueued \in Nat /\ MaxAttempts \in Nat \ {0}
  /\ MaxWait \in Nat \ {0} /\ MaxHold \in Nat /\ MaxFaults \in Nat

VARIABLES
  file,     \* file[m]: the file of m in outbox/, or None
  legacy,   \* legacy[m]: its file in salientes/, or None
  folder,   \* whether outbox/ exists
  phase,    \* "off", "moving" the old folder, or "up"
  left,     \* while moving: the files still to look at
  pass,     \* the copies the dispatcher has not been through yet
  taken,    \* the server took the first of them and has not answered
  asked,    \* asked[m]: how far send_message is with m
  dropped,  \* history: when the person discarded m, before its hour or later
  hours,    \* history: what is left to the hour the person asked for
  sent,     \* history: how many times a server took m
  excuse,   \* history: how many times it was out of our hands to know
  faults    \* counter of the bound

vars == <<file, legacy, folder, phase, left, pass, taken, asked, dropped, hours,
          sent, excuse, faults>>

-----------------------------------------------------------------------------
\* Why an attempt failed, as last_error tells it.
Cause == {"no_accounts", "no_account", "no_permission", "no_token",
          "cannot_compose", "network", "later", "never"}

\* What send_one and classify_reply make of each cause: only Temporary is
\* worth another attempt.
Retryable(cause) == cause \in {"no_token", "network", "later"}

Entry == [attempts : Nat, state : {"pending", "stuck"},
          error : Cause \cup {"none"}, hold : Nat, wait : Nat]
None  == [attempts |-> 0, state |-> "none", error |-> "none", hold |-> 0, wait |-> 0]

\* Mutant: one moment for the person's hour and for the wait of a failure.
MutantDue(e) == e.hold = 0 \/ e.wait = 0

Queued(m)  == file[m] # None
Stuck(m)   == file[m].state = "stuck"
Due(e)     == e.hold = 0 /\ e.wait = 0
Ready(e)   == e # None /\ e.state # "stuck" /\ Due(e)
Count      == Cardinality({m \in Msg : Queued(m)})

Fresh(h) == [attempts |-> 0, state |-> "pending", error |-> "none", hold |-> h, wait |-> 0]

\* Half a minute doubled with every attempt, up to the longest.
Doubled    == <<1, 2, 4, 8, 16, 32>>
Backoff(n) == IF n \in DOMAIN Doubled /\ Doubled[n] < MaxWait THEN Doubled[n] ELSE MaxWait

RecordFailure(e, cause) ==
  LET n == e.attempts + 1 IN
  [e EXCEPT !.attempts = n, !.error = cause, !.wait = Backoff(n),
            !.state = IF ~Retryable(cause) \/ n >= MaxAttempts THEN "stuck" ELSE @]

TypeOK ==
  /\ file \in [Msg -> Entry \cup {None}]
  /\ legacy \in [Msg -> Entry \cup {None}]
  /\ folder \in BOOLEAN /\ taken \in BOOLEAN
  /\ phase \in {"off", "moving", "up"}
  /\ left \subseteq Msg
  /\ pass \subseteq [id : Msg, entry : Entry]
  /\ asked \in [Msg -> {"no", "asking", "accepted", "refused", "unsure"}]
  /\ dropped \in [Msg -> {"no", "early", "late"}]
  /\ hours \in [Msg -> Nat]
  /\ sent \in [Msg -> Nat] /\ excuse \in [Msg -> Nat] /\ faults \in Nat

\* Before the first start: messages in outbox/, in salientes/ or in both.
Init ==
  \E inNew, inOld \in SUBSET Msg :
    /\ hours \in [Msg -> 0..MaxHold]
    /\ \A m \in Msg \ (inNew \cup inOld) : hours[m] = 0
    /\ file = [m \in Msg |-> IF m \in inNew THEN Fresh(hours[m]) ELSE None]
    /\ legacy = [m \in Msg |-> IF m \in inOld THEN Fresh(hours[m]) ELSE None]
    /\ folder = (inNew # {})
    /\ phase = "off" /\ left = {} /\ pass = {} /\ taken = FALSE
    /\ asked = [m \in Msg |-> IF m \in inNew \cup inOld THEN "accepted" ELSE "no"]
    /\ dropped = [m \in Msg |-> "no"]
    /\ sent = [m \in Msg |-> 0]
    /\ excuse = [m \in Msg |-> IF m \in inNew \cap inOld THEN 1 ELSE 0]
    /\ faults = 0

\* A failure is one of the bounded number of them.
Fault == faults < MaxFaults /\ faults' = faults + 1
Fine  == UNCHANGED faults

dispatcher == <<pass, taken>>
person     == <<asked, dropped, hours>>
mail       == <<sent, excuse>>

-----------------------------------------------------------------------------
(* The start: what the old folder holds moves to the new one.              *)

Start ==
  /\ phase = "off"
  /\ \/ \* nothing to move
        /\ \A m \in Msg : legacy[m] = None
        /\ phase' = "up"
        /\ UNCHANGED <<file, legacy, folder, left>> /\ Fine
     \/ \* one rename takes the whole folder
        /\ \E m \in Msg : legacy[m] # None
        /\ ~folder
        /\ file' = legacy
        /\ legacy' = [m \in Msg |-> None]
        /\ folder' = TRUE
        /\ phase' = "up"
        /\ UNCHANGED left /\ Fine
     \/ \* both are there: file by file
        /\ \E m \in Msg : legacy[m] # None
        /\ folder
        /\ left' = {m \in Msg : legacy[m] # None}
        /\ phase' = "moving"
        /\ UNCHANGED <<file, legacy, folder>> /\ Fine
     \/ \* an error is noted and the service starts all the same
        /\ \E m \in Msg : legacy[m] # None
        /\ phase' = "up"
        /\ UNCHANGED <<file, legacy, folder, left>> /\ Fault
  /\ UNCHANGED <<dispatcher, person, mail>>

\* What is already in outbox/ is not replaced.  Without RENAME_NOREPLACE it is
\* a link and an unlink, and the second may fail.
MoveWithoutReplacing(m) ==
  /\ phase = "moving" /\ m \in left
  /\ left' = left \ {m}
  /\ \/ /\ ~Queued(m)
        /\ file' = [file EXCEPT ![m] = legacy[m]]
        /\ \/ legacy' = [legacy EXCEPT ![m] = None] /\ UNCHANGED excuse /\ Fine
           \/ UNCHANGED legacy /\ excuse' = [excuse EXCEPT ![m] = @ + 1] /\ Fault
     \/ Queued(m) /\ UNCHANGED <<file, legacy, excuse>> /\ Fine
     \/ UNCHANGED <<file, legacy, excuse>> /\ Fault
  /\ UNCHANGED <<folder, phase, dispatcher, person, sent>>

Moved ==
  /\ phase = "moving" /\ left = {}
  /\ phase' = "up"
  /\ UNCHANGED <<file, legacy, folder, left, dispatcher, person, mail, faults>>

-----------------------------------------------------------------------------
(* The person.  Two calls run at once: between count and save anything.    *)

SendMessage(m, h) ==
  /\ phase = "up" /\ asked[m] = "no"
  /\ hours' = [hours EXCEPT ![m] = h]
  /\ folder' = TRUE
  /\ asked' = [asked EXCEPT ![m] = IF Count >= MaxQueued THEN "refused" ELSE "asking"]
  /\ UNCHANGED <<file, legacy, phase, left, dispatcher, dropped, mail, faults>>

\* The rename is one step; what may fail is what comes before it, and the
\* fsync of the folder that comes after.
Enqueue(m) ==
  /\ phase = "up" /\ asked[m] = "asking"
  /\ \/ /\ file' = [file EXCEPT ![m] = Fresh(hours[m])]
        /\ \/ asked' = [asked EXCEPT ![m] = "accepted"] /\ Fine
           \/ asked' = [asked EXCEPT ![m] = "unsure"] /\ Fault
     \/ asked' = [asked EXCEPT ![m] = "refused"] /\ Fault /\ UNCHANGED file
  /\ UNCHANGED <<legacy, folder, phase, left, dispatcher, dropped, hours, mail>>

DiscardOutgoing(m) ==
  /\ phase = "up" /\ Queued(m)
  /\ file' = [file EXCEPT ![m] = None]
  /\ dropped' = [dropped EXCEPT ![m] = IF hours[m] > 0 THEN "early" ELSE "late"]
  /\ UNCHANGED <<legacy, folder, phase, left, dispatcher, asked, hours, mail, faults>>

-----------------------------------------------------------------------------
(* The dispatcher.                                                         *)

\* Woken by the clock or by a new message: it reads the folder once.
ReadyToSend == {[id |-> m, entry |-> file[m]] : m \in {n \in Msg : Ready(file[n])}}

FlushOutbox ==
  /\ phase = "up" /\ pass = {}
  /\ folder' = TRUE
  /\ pass' = ReadyToSend
  /\ UNCHANGED <<file, legacy, phase, left, taken, person, mail, faults>>

\* The oldest goes first.
First(c) == c \in pass /\ \A d \in pass : c.id <= d.id

\* The server takes responsibility for the message, and has not said so yet.
ServerTakes(c) ==
  /\ First(c) /\ ~taken
  /\ taken' = TRUE
  /\ sent' = [sent EXCEPT ![c.id] = @ + 1]
  /\ UNCHANGED <<file, legacy, folder, phase, left, pass, person, excuse, faults>>

\* The attempt at c is over.
NextMessage(c) == pass' = pass \ {c} /\ taken' = FALSE

\* Mutant: a delivered message stays in the folder.
MutantRemoveFile(m) == UNCHANGED <<file, excuse>> /\ Fine

RemoveFile(m) ==
  \/ /\ file' = [file EXCEPT ![m] = None]
     /\ UNCHANGED excuse /\ Fine
  \/ /\ Queued(m)
     /\ excuse' = [excuse EXCEPT ![m] = @ + 1]
     /\ UNCHANGED file /\ Fault

Delivered(c) ==
  /\ First(c) /\ taken
  /\ RemoveFile(c.id)
  /\ NextMessage(c)
  /\ UNCHANGED <<legacy, folder, phase, left, person, sent>>

\* Mutant: in place, not through a temporary file and a rename.
MutantSave(m, entry) ==
  \/ file' = [file EXCEPT ![m] = entry] /\ Fine
  \/ file' = [file EXCEPT ![m] = None] /\ Fault

\* Mutant: the attempt is counted in the dispatcher's copy and nowhere else.
MutantSaveNowhere(m, entry) == UNCHANGED file /\ Fine

\* The copy is written back over whatever is there; a failure to write it is
\* let go.
Save(m, entry) ==
  \/ file' = [file EXCEPT ![m] = entry] /\ Fine
  \/ UNCHANGED file /\ Fault

NotDelivered(c, cause) ==
  /\ First(c) /\ ~taken
  /\ Save(c.id, RecordFailure(c.entry, cause))
  /\ NextMessage(c)
  /\ UNCHANGED <<legacy, folder, phase, left, person, mail>>

\* The server took it and its reply never came: as a failure of the network.
ReplyLost(c) ==
  /\ First(c) /\ taken /\ Fault
  /\ \/ file' = [file EXCEPT ![c.id] = RecordFailure(c.entry, "network")]
     \/ UNCHANGED file
  /\ excuse' = [excuse EXCEPT ![c.id] = @ + 1]
  /\ NextMessage(c)
  /\ UNCHANGED <<legacy, folder, phase, left, person, sent>>

-----------------------------------------------------------------------------
(* The clock, and the process dying.                                       *)

\* Mutant: a moment that has passed keeps running.
MutantOneLess(n) == n - 1

OneLess(n)   == IF n > 0 THEN n - 1 ELSE 0
Later(e)     ==
  IF e = None THEN None ELSE [e EXCEPT !.hold = OneLess(@), !.wait = OneLess(@)]
AMinute(f)   == [m \in Msg |-> Later(f[m])]

Tick ==
  /\ file' = AMinute(file) /\ legacy' = AMinute(legacy)
  /\ hours' = [m \in Msg |-> OneLess(hours[m])]
  /\ UNCHANGED <<folder, phase, left, dispatcher, asked, dropped, mail, faults>>

\* The server took m and the dispatcher does not know.
InFlight(m) == taken /\ \E c \in pass : First(c) /\ c.id = m

Crash ==
  /\ phase # "off" /\ Fault
  /\ phase' = "off" /\ left' = {} /\ pass' = {} /\ taken' = FALSE
  /\ asked' = [m \in Msg |-> IF asked[m] = "asking" THEN "refused" ELSE asked[m]]
  /\ excuse' = [m \in Msg |-> IF InFlight(m) THEN excuse[m] + 1 ELSE excuse[m]]
  /\ UNCHANGED <<file, legacy, folder, dropped, hours, sent>>

-----------------------------------------------------------------------------
Attempt ==
  \E c \in pass :
    ServerTakes(c) \/ Delivered(c) \/ ReplyLost(c) \/ \E w \in Cause : NotDelivered(c, w)

Next ==
  \/ Start \/ Moved \/ FlushOutbox \/ Attempt \/ Tick \/ Crash
  \/ \E m \in Msg : MoveWithoutReplacing(m) \/ Enqueue(m) \/ DiscardOutgoing(m)
  \/ \E m \in Msg, h \in 0..MaxHold : SendMessage(m, h)

Spec == Init /\ [][Next]_vars

\* The service is started again (Restart=on-failure), the dispatcher's timer
\* wakes it and every exchange with the server ends, if only by a timeout.
Fairness ==
  /\ WF_vars(Start) /\ WF_vars(Moved)
  /\ \A m \in Msg : WF_vars(MoveWithoutReplacing(m))
  /\ WF_vars(FlushOutbox) /\ WF_vars(Attempt) /\ WF_vars(Tick)

FairSpec == Spec /\ Fairness

-----------------------------------------------------------------------------
(* What must hold.                                                         *)

\* A message that send_message accepted is never lost: it waits in one of the
\* two folders until a server takes it or the person discards it, through
\* retries, crashes, failed writes and the move of the old folder.
NoMessageLost ==
  \A m \in Msg : asked[m] = "accepted" =>
    \/ Queued(m) \/ legacy[m] # None
    \/ sent[m] > 0 \/ dropped[m] # "no"

\* A server takes a message twice only where the program could not know that
\* it had taken it, or could not note it: a lost reply, a crash before the
\* file was removed, a failed removal, a second copy in the old folder.
SentOnce == \A m \in Msg : sent[m] <= 1 + excuse[m]

\* The window to undo: a message discarded before its hour was in no pass and
\* never leaves (but for a second copy of it in the old folder).
UndoHolds ==
  \A m \in Msg : dropped[m] = "early" =>
    sent[m] = 0 \/ excuse[m] > 0

\* No message leaves before the hour the person asked for, whatever failures,
\* waits and restarts it goes through; nor once it is stuck, without the
\* person.
OnlyWhenItMay ==
  [][\A m \in Msg : sent'[m] > sent[m] => hours[m] = 0 /\ ~Stuck(m)]_vars

\* What still waits has attempts left, in the file and in the copies: the one
\* that uses the last one up leaves it stuck.
AttemptsLeft ==
  /\ \A m \in Msg : file[m].state = "pending" => file[m].attempts < MaxAttempts
  /\ \A c \in pass : c.entry.attempts < MaxAttempts

\* Every message in the queue leaves it or ends stuck, where the person sees
\* it: no failure, wait or restart leaves it pending for ever.
EveryMessageSettles ==
  \A m \in Msg : Queued(m) ~> (~Queued(m) \/ Stuck(m))
=============================================================================
