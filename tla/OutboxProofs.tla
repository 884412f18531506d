---------------------------- MODULE OutboxProofs ----------------------------
(***************************************************************************)
(* Theorems of Outbox, for every set of messages and every bound.          *)
(***************************************************************************)
EXTENDS Outbox, TLAPS

-----------------------------------------------------------------------------
(* Files.                                                                  *)

LEMMA BackoffType == \A n \in Nat : Backoff(n) \in Nat
<1>1. ASSUME NEW n \in DOMAIN Doubled PROVE Doubled[n] \in Nat
  BY <1>1 DEF Doubled
<1> QED BY <1>1, OutboxAssumption DEF Backoff

LEMMA FreshFacts ==
  ASSUME NEW h \in Nat
  PROVE  /\ Fresh(h) \in Entry /\ Fresh(h) # None
         /\ Fresh(h).hold = h /\ Fresh(h).state = "pending" /\ Fresh(h).attempts = 0
BY DEF Fresh, Entry, None

LEMMA NoneFacts == None \notin Entry /\ None.state = "none"
BY DEF None, Entry

LEMMA FailureFacts ==
  ASSUME NEW e \in Entry, NEW w \in Cause
  PROVE  LET f == RecordFailure(e, w) IN
         /\ f \in Entry /\ f # None
         /\ f.hold = e.hold
         /\ f.state = "pending" => f.attempts < MaxAttempts
<1> DEFINE f == RecordFailure(e, w)
<1>1. e.attempts + 1 \in Nat /\ Backoff(e.attempts + 1) \in Nat
  BY BackoffType DEF Entry
<1>2. f \in Entry /\ f.hold = e.hold
  BY <1>1 DEF RecordFailure, Entry
<1>3. f.state = "pending" => f.attempts < MaxAttempts
  BY <1>1, OutboxAssumption DEF RecordFailure, Entry
<1> QED BY <1>2, <1>3, NoneFacts

LEMMA LaterFacts ==
  ASSUME NEW e \in Entry \cup {None}
  PROVE  /\ Later(e) \in Entry \cup {None}
         /\ Later(e) = None <=> e = None
         /\ Later(e).state = e.state /\ Later(e).attempts = e.attempts
         /\ Later(e).hold = OneLess(e.hold)
<1>1. CASE e \in Entry
  <2>1. OneLess(e.hold) \in Nat /\ OneLess(e.wait) \in Nat
    BY <1>1 DEF Entry, OneLess
  <2> QED BY <1>1, <2>1, NoneFacts DEF Later, Entry
<1>2. CASE e = None
  <2>1. OneLess(0) = 0
    BY DEF OneLess
  <2>2. Later(None) = None /\ None.hold = 0
    BY DEF Later, None
  <2> QED BY <1>2, <2>1, <2>2
<1> QED BY <1>1, <1>2

-----------------------------------------------------------------------------
(* Types.                                                                  *)

\* Every reachable state of the outbox is of its type.
LEMMA TypeStep == TypeOK /\ [Next]_vars => TypeOK'
<1> SUFFICES ASSUME TypeOK, [Next]_vars PROVE TypeOK'
  OBVIOUS
<1> USE DEF TypeOK, Fault, Fine, dispatcher, person, mail
<1>1. CASE Start
  <2>1. CASE \A m \in Msg : legacy[m] = None
    BY <1>1, <2>1 DEF Start
  <2>2. CASE legacy' = [m \in Msg |-> None] /\ file' = legacy
    BY <1>1, <2>2 DEF Start
  <2>3. CASE UNCHANGED <<legacy, file, folder>>
    BY <1>1, <2>3 DEF Start
  <2> QED BY <1>1, <2>1, <2>2, <2>3 DEF Start
<1>2. ASSUME NEW m \in Msg, MoveWithoutReplacing(m) PROVE TypeOK'
  BY <1>2 DEF MoveWithoutReplacing
<1>3. CASE Moved
  BY <1>3 DEF Moved
<1>4. ASSUME NEW m \in Msg, NEW h \in 0..MaxHold, SendMessage(m, h) PROVE TypeOK'
  BY <1>4, OutboxAssumption DEF SendMessage
<1>5. ASSUME NEW m \in Msg, Enqueue(m) PROVE TypeOK'
  BY <1>5, FreshFacts DEF Enqueue
<1>6. ASSUME NEW m \in Msg, DiscardOutgoing(m) PROVE TypeOK'
  BY <1>6 DEF DiscardOutgoing
<1>7. CASE FlushOutbox
  <2>1. \A m \in Msg : Ready(file[m]) => file[m] \in Entry
    BY DEF Ready
  <2> QED BY <1>7, <2>1 DEF FlushOutbox, ReadyToSend
<1>8. ASSUME NEW c \in pass, ServerTakes(c) PROVE TypeOK'
  BY <1>8 DEF ServerTakes
<1>9. ASSUME NEW c \in pass, Delivered(c) PROVE TypeOK'
  <2>1. pass' \subseteq [id : Msg, entry : Entry] /\ taken' \in BOOLEAN
    BY <1>9 DEF Delivered, NextMessage
  <2>2. /\ file' \in [Msg -> Entry \cup {None}] /\ excuse' \in [Msg -> Nat]
        /\ faults' \in Nat
    BY <1>9 DEF Delivered, RemoveFile
  <2> QED BY <1>9, <2>1, <2>2 DEF Delivered
<1>10. ASSUME NEW c \in pass, NEW w \in Cause, NotDelivered(c, w) PROVE TypeOK'
  <2>1. RecordFailure(c.entry, w) \in Entry /\ c.id \in Msg
    BY FailureFacts
  <2>2. pass' \subseteq [id : Msg, entry : Entry] /\ taken' \in BOOLEAN
    BY <1>10 DEF NotDelivered, NextMessage
  <2>3. file' \in [Msg -> Entry \cup {None}] /\ faults' \in Nat
    BY <1>10, <2>1 DEF NotDelivered, Save
  <2> QED BY <1>10, <2>2, <2>3 DEF NotDelivered
<1>11. ASSUME NEW c \in pass, ReplyLost(c) PROVE TypeOK'
  <2>1. RecordFailure(c.entry, "network") \in Entry /\ c.id \in Msg
    BY FailureFacts DEF Cause
  <2>2. pass' \subseteq [id : Msg, entry : Entry] /\ taken' \in BOOLEAN
    BY <1>11 DEF ReplyLost, NextMessage
  <2>3. /\ file' \in [Msg -> Entry \cup {None}] /\ excuse' \in [Msg -> Nat]
        /\ faults' \in Nat
    BY <1>11, <2>1 DEF ReplyLost
  <2> QED BY <1>11, <2>2, <2>3 DEF ReplyLost
<1>12. CASE Tick
  <2>1. \A n \in Nat : OneLess(n) \in Nat
    BY DEF OneLess
  <2> QED BY <1>12, <2>1, LaterFacts DEF Tick, AMinute
<1>13. CASE Crash
  <2>1. /\ phase' = "off" /\ left' = {} /\ pass' = {} /\ taken' = FALSE
        /\ UNCHANGED <<file, legacy, folder, dropped, hours, sent>>
        /\ faults' = faults + 1
    BY <1>13 DEF Crash
  <2>2. asked' \in [Msg -> {"no", "asking", "accepted", "refused", "unsure"}]
    BY <1>13 DEF Crash
  <2>3. excuse' \in [Msg -> Nat]
    <3>1. excuse' = [m \in Msg |-> IF InFlight(m) THEN excuse[m] + 1 ELSE excuse[m]]
      BY <1>13 DEF Crash
    <3> DEFINE more(m) == IF InFlight(m) THEN excuse[m] + 1 ELSE excuse[m]
    <3>2. \A m \in Msg : more(m) \in Nat
      OBVIOUS
    <3> HIDE DEF more
    <3>3. excuse' = [m \in Msg |-> more(m)]
      BY <3>1 DEF more
    <3> QED BY <3>2, <3>3
  <2>4. /\ phase' \in {"off", "moving", "up"} /\ left' \subseteq Msg
        /\ pass' \subseteq [id : Msg, entry : Entry] /\ taken' \in BOOLEAN
        /\ faults' \in Nat
    <3>1. left' \subseteq Msg /\ pass' \subseteq [id : Msg, entry : Entry]
      BY <2>1
    <3>2. phase' \in {"off", "moving", "up"} /\ faults' \in Nat
      BY <2>1
    <3>3. taken' \in BOOLEAN
      BY <2>1
    <3> QED BY <3>1, <3>2, <3>3
  <2>5. /\ file' \in [Msg -> Entry \cup {None}] /\ legacy' \in [Msg -> Entry \cup {None}]
        /\ folder' \in BOOLEAN /\ sent' \in [Msg -> Nat] /\ hours' \in [Msg -> Nat]
        /\ dropped' \in [Msg -> {"no", "early", "late"}]
    BY <2>1
  <2> QED BY <2>2, <2>3, <2>4, <2>5
<1>14. CASE UNCHANGED vars
  BY <1>14 DEF vars
<1> QED
  BY <1>1, <1>2, <1>3, <1>4, <1>5, <1>6, <1>7, <1>8, <1>9, <1>10, <1>11, <1>12, <1>13, <1>14
  DEF Next, Attempt

LEMMA TypeInit == Init => TypeOK
<1> SUFFICES ASSUME Init PROVE TypeOK
  OBVIOUS
<1>1. \A m \in Msg : hours[m] \in Nat /\ Fresh(hours[m]) \in Entry
  BY OutboxAssumption, FreshFacts DEF Init
<1>2. hours \in [Msg -> Nat]
  BY OutboxAssumption DEF Init
<1>3. /\ file \in [Msg -> Entry \cup {None}]
      /\ legacy \in [Msg -> Entry \cup {None}]
  BY <1>1 DEF Init
<1>4. /\ folder \in BOOLEAN
      /\ asked \in [Msg -> {"no", "asking", "accepted", "refused", "unsure"}]
  BY DEF Init
<1>5. /\ dropped \in [Msg -> {"no", "early", "late"}]
      /\ sent \in [Msg -> Nat] /\ excuse \in [Msg -> Nat]
  BY DEF Init
<1>6. phase = "off" /\ left = {} /\ pass = {} /\ taken = FALSE /\ faults = 0
  BY DEF Init
<1> QED BY <1>2, <1>3, <1>4, <1>5, <1>6 DEF TypeOK

THEOREM OutboxTypes == Spec => []TypeOK
BY TypeInit, TypeStep, PTL DEF Spec

-----------------------------------------------------------------------------
(* The inductive invariant.                                                *)

Waiting(m) == asked[m] \in {"no", "asking"}
InPass(m)  == \E c \in pass : c.id = m
Kept(m)    == legacy[m] # None

\* A pass exists only while the service is up, and holds one copy of a message.
PassShape ==
  /\ ~folder => \A m \in Msg : ~Queued(m)
  /\ phase = "moving" \/ (\E m \in Msg : asked[m] = "asking") => folder
  /\ phase # "up" \/ ~folder => pass = {}
  /\ pass = {} => ~taken
  /\ \A c, d \in pass : c.id = d.id => c = d

\* Nothing is known yet of a message whose call has not written it.
Unwritten(m) ==
  Waiting(m) => ~Queued(m) /\ ~Kept(m) /\ ~InPass(m) /\ sent[m] = 0 /\ dropped[m] = "no"

\* The program's hour is the person's, and no copy was read before it.
HourKept(m) ==
  /\ Queued(m) => file[m].hold = hours[m]
  /\ Kept(m) => legacy[m].hold = hours[m]
  /\ sent[m] > 0 => hours[m] = 0

CopyIsOfNow(c) ==
  /\ hours[c.id] = 0 /\ c.entry.hold = 0
  /\ c.entry.state = "pending" /\ c.entry.attempts < MaxAttempts /\ ~Stuck(c.id)
  /\ taken /\ First(c) => sent[c.id] > 0

\* How many times m may still be sent with what is on disk and in memory.
Slot(m)    == IF Waiting(m) \/ (~InFlight(m) /\ (Queued(m) \/ InPass(m))) THEN 1 ELSE 0
OldSlot(m) == IF Kept(m) THEN 1 ELSE 0
Budget(m)  == sent[m] + Slot(m) + OldSlot(m) <= 1 + excuse[m]

\* A message discarded in time left nothing behind.
Undone(m) ==
  dropped[m] = "early" => \/ excuse[m] > 0
                          \/ ~Queued(m) /\ ~Kept(m) /\ ~InPass(m) /\ ~Waiting(m) /\ sent[m] = 0

NotLost(m) ==
  asked[m] = "accepted" => Queued(m) \/ Kept(m) \/ sent[m] > 0 \/ dropped[m] # "no"

TriesLeft(m) ==
  /\ file[m].state = "pending" => file[m].attempts < MaxAttempts
  /\ legacy[m].state = "pending" => legacy[m].attempts < MaxAttempts

Sound(m) ==
  Unwritten(m) /\ HourKept(m) /\ Budget(m) /\ Undone(m) /\ NotLost(m) /\ TriesLeft(m)

IInv ==
  /\ PassShape
  /\ \A m \in Msg : Sound(m)
  /\ \A c \in pass : CopyIsOfNow(c)

LEMMA InitIInv == Init => IInv
<1> SUFFICES ASSUME Init PROVE IInv
  OBVIOUS
<1>1. TypeOK
  BY TypeInit
<1>2. \A m \in Msg : hours[m] \in Nat
  BY <1>1 DEF TypeOK
<1>3. PassShape
  BY NoneFacts DEF Init, PassShape, Queued
<1>4. ASSUME NEW m \in Msg PROVE Sound(m)
  <2>1. /\ file[m] \in {Fresh(hours[m]), None} /\ legacy[m] \in {Fresh(hours[m]), None}
        /\ asked[m] = IF Queued(m) \/ Kept(m) THEN "accepted" ELSE "no"
        /\ sent[m] = 0 /\ dropped[m] = "no"
        /\ excuse[m] = IF Queued(m) /\ Kept(m) THEN 1 ELSE 0
        /\ ~InPass(m) /\ ~InFlight(m)
    BY <1>2, FreshFacts DEF Init, InPass, InFlight, Queued, Kept
  <2>2. /\ Fresh(hours[m]) # None /\ Fresh(hours[m]).hold = hours[m]
        /\ Fresh(hours[m]).attempts = 0 /\ None.state # "pending" /\ 0 < MaxAttempts
    BY <1>2, FreshFacts, NoneFacts, OutboxAssumption
  <2>3. Unwritten(m) /\ HourKept(m) /\ Undone(m) /\ NotLost(m)
    BY <2>1, <2>2 DEF Unwritten, HourKept, Undone, NotLost, Waiting, Queued, Kept
  <2>4. Budget(m)
    BY <2>1, <2>2 DEF Budget, Slot, OldSlot, Waiting, Queued, Kept
  <2>5. TriesLeft(m)
    BY <2>1, <2>2 DEF TriesLeft
  <2> QED BY <2>3, <2>4, <2>5 DEF Sound
<1>5. pass = {}
  BY DEF Init
<1> QED BY <1>3, <1>4, <1>5 DEF IInv

-----------------------------------------------------------------------------
(* Every step keeps it.                                                    *)

\* What a step does not touch stays sound.
LEMMA Untouched ==
  ASSUME NEW m \in Msg, Sound(m),
         file'[m] = file[m], legacy'[m] = legacy[m], asked'[m] = asked[m],
         dropped'[m] = dropped[m], hours'[m] = hours[m], sent'[m] = sent[m],
         excuse'[m] = excuse[m],
         InPass(m)' <=> InPass(m), InFlight(m)' <=> InFlight(m)
  PROVE  Sound(m)'
<1>1. Unwritten(m)' /\ HourKept(m)' /\ Undone(m)' /\ NotLost(m)'
  BY DEF Sound, Unwritten, HourKept, Undone, NotLost, Waiting, Queued, Kept
<1>2. Budget(m)'
  BY DEF Sound, Budget, Slot, OldSlot, Waiting, Queued, Kept
<1>3. TriesLeft(m)'
  BY DEF Sound, TriesLeft
<1> QED BY <1>1, <1>2, <1>3 DEF Sound

LEMMA StartKeeps == ASSUME TypeOK, IInv, Start PROVE IInv'
<1>1. /\ pass = {} /\ pass' = {} /\ taken = FALSE /\ taken' = FALSE
      /\ UNCHANGED <<asked, dropped, hours, sent, excuse>>
  BY DEF Start, IInv, PassShape, TypeOK, dispatcher, person, mail
<1>2. \A m \in Msg : ~InPass(m) /\ ~InPass(m)' /\ ~InFlight(m) /\ ~InFlight(m)'
  BY <1>1 DEF InPass, InFlight
<1>3. CASE UNCHANGED <<file, legacy, folder>>
  <2>1. \A m \in Msg : Sound(m)'
    BY <1>1, <1>2, <1>3, Untouched DEF IInv
  <2>2. phase' = "moving" => folder'
    BY <1>3 DEF Start, TypeOK
  <2>3. PassShape'
    BY <1>1, <1>3, <2>2 DEF IInv, PassShape, Queued
  <2> QED BY <1>1, <2>1, <2>3 DEF IInv
<1>4. CASE ~folder /\ file' = legacy /\ legacy' = [m \in Msg |-> None] /\ folder' = TRUE
  <2>1. ASSUME NEW m \in Msg PROVE Sound(m)'
    <3>1. /\ file[m] = None /\ file'[m] = legacy[m] /\ legacy'[m] = None
          /\ None.state = "none"
      BY <1>4, NoneFacts DEF IInv, PassShape, Queued
    <3>2. sent[m] \in Nat /\ excuse[m] \in Nat
      BY DEF TypeOK
    <3>3. Sound(m)
      BY DEF IInv
    <3>4. Unwritten(m)' /\ HourKept(m)' /\ Undone(m)' /\ NotLost(m)'
      BY <1>1, <1>2, <3>1, <3>3
      DEF Sound, Unwritten, HourKept, Undone, NotLost, Waiting, Queued, Kept
    <3>5. Budget(m)'
      BY <1>1, <1>2, <3>1, <3>2, <3>3
      DEF Sound, Unwritten, Budget, Slot, OldSlot, Waiting, Queued, Kept
    <3>6. TriesLeft(m)'
      BY <3>1, <3>3 DEF Sound, TriesLeft
    <3> QED BY <3>4, <3>5, <3>6 DEF Sound
  <2>2. PassShape'
    BY <1>1, <1>4 DEF PassShape
  <2> QED BY <1>1, <2>1, <2>2 DEF IInv
<1> QED BY <1>3, <1>4 DEF Start

LEMMA MoveKeeps ==
  ASSUME TypeOK, IInv, NEW x \in Msg, MoveWithoutReplacing(x)
  PROVE  IInv'
<1>1. /\ pass = {} /\ pass' = {} /\ taken = FALSE /\ taken' = FALSE
      /\ UNCHANGED <<asked, dropped, hours, sent, phase, folder>>
  BY DEF MoveWithoutReplacing, IInv, PassShape, TypeOK, dispatcher, person
<1>2. \A m \in Msg : ~InPass(m) /\ ~InPass(m)' /\ ~InFlight(m) /\ ~InFlight(m)'
  BY <1>1 DEF InPass, InFlight
<1>3. ASSUME NEW m \in Msg,
             file'[m] = file[m], legacy'[m] = legacy[m], excuse'[m] = excuse[m]
      PROVE  Sound(m)'
  BY <1>1, <1>2, <1>3, Untouched DEF IInv
<1>4. CASE UNCHANGED <<file, legacy, excuse>>
  <2>1. PassShape'
    BY <1>1, <1>4 DEF IInv, PassShape, Queued
  <2> QED BY <1>1, <1>3, <1>4, <2>1 DEF IInv
<1>5. CASE /\ ~Queued(x) /\ file' = [file EXCEPT ![x] = legacy[x]]
           /\ \/ legacy' = [legacy EXCEPT ![x] = None] /\ UNCHANGED excuse
              \/ UNCHANGED legacy /\ excuse' = [excuse EXCEPT ![x] = @ + 1]
  <2>1. Sound(x)'
    <3>1. /\ file[x] = None /\ file'[x] = legacy[x]
          /\ \/ legacy'[x] = None /\ excuse'[x] = excuse[x]
             \/ legacy'[x] = legacy[x] /\ excuse'[x] = excuse[x] + 1
          /\ None.state = "none"
      BY <1>5, NoneFacts DEF TypeOK, Queued
    <3>2. sent[x] \in Nat /\ excuse[x] \in Nat
      BY DEF TypeOK
    <3>3. Sound(x)
      BY DEF IInv
    <3>4. Unwritten(x)' /\ HourKept(x)' /\ Undone(x)' /\ NotLost(x)'
      BY <1>1, <1>2, <3>1, <3>2, <3>3
      DEF Sound, Unwritten, HourKept, Undone, NotLost, Waiting, Queued, Kept
    <3>5. Budget(x)'
      BY <1>1, <1>2, <3>1, <3>2, <3>3
      DEF Sound, Unwritten, Budget, Slot, OldSlot, Waiting, Queued, Kept
    <3>6. TriesLeft(x)'
      BY <3>1, <3>3 DEF Sound, TriesLeft
    <3> QED BY <3>4, <3>5, <3>6 DEF Sound
  <2>2. \A m \in Msg \ {x} : Sound(m)'
    BY <1>3, <1>5 DEF TypeOK
  <2>3. folder
    BY DEF IInv, PassShape, MoveWithoutReplacing
  <2>4. PassShape'
    BY <1>1, <2>3 DEF PassShape
  <2> QED BY <1>1, <2>1, <2>2, <2>4 DEF IInv
<1> QED BY <1>4, <1>5 DEF MoveWithoutReplacing

\* A step of the person changes one message and leaves the pass alone.
LEMMA PersonFrame ==
  ASSUME TypeOK, IInv, NEW x \in Msg,
         UNCHANGED <<legacy, phase, pass, taken, sent, excuse>>, folder',
         \A m \in Msg \ {x} : /\ file'[m] = file[m] /\ asked'[m] = asked[m]
                              /\ dropped'[m] = dropped[m] /\ hours'[m] = hours[m],
         Sound(x)', ~Stuck(x)' \/ ~InPass(x),
         hours'[x] = hours[x] \/ ~InPass(x)
  PROVE  IInv'
<1>1. \A m \in Msg : (InPass(m)' <=> InPass(m)) /\ (InFlight(m)' <=> InFlight(m))
  BY DEF InPass, InFlight, First
<1>2. ASSUME NEW m \in Msg PROVE Sound(m)'
  BY <1>1, Untouched DEF IInv
<1>3. ASSUME NEW c \in pass PROVE CopyIsOfNow(c)'
  <2>1. c.id \in Msg /\ InPass(c.id)
    BY DEF TypeOK, InPass
  <2>2. CopyIsOfNow(c)
    BY DEF IInv
  <2>3. ~Stuck(c.id)' /\ hours'[c.id] = hours[c.id]
    BY <2>1, <2>2 DEF CopyIsOfNow, Stuck
  <2>4. First(c)' <=> First(c)
    BY DEF First
  <2> QED BY <2>2, <2>3, <2>4 DEF CopyIsOfNow
<1>4. PassShape'
  BY DEF IInv, PassShape
<1> QED BY <1>2, <1>3, <1>4 DEF IInv

LEMMA SendMessageKeeps ==
  ASSUME TypeOK, IInv, NEW x \in Msg, NEW h \in 0..MaxHold, SendMessage(x, h)
  PROVE  IInv'
<1>1. /\ UNCHANGED <<file, legacy, phase, pass, taken, dropped, sent, excuse>> /\ folder'
      /\ asked[x] = "no" /\ asked'[x] \in {"asking", "refused"}
      /\ \A m \in Msg \ {x} : asked'[m] = asked[m] /\ hours'[m] = hours[m]
  BY DEF SendMessage, TypeOK, dispatcher, mail
<1>2. Sound(x) /\ Unwritten(x) /\ Waiting(x)
  BY <1>1 DEF IInv, Sound, Waiting
<1>3. ~Queued(x) /\ ~Kept(x) /\ ~InPass(x) /\ ~InPass(x)' /\ sent[x] = 0 /\ dropped[x] = "no"
  BY <1>1, <1>2 DEF Unwritten, InPass
<1>4. Sound(x)'
  <2>1. Unwritten(x)' /\ HourKept(x)' /\ Undone(x)' /\ NotLost(x)' /\ TriesLeft(x)'
    BY <1>1, <1>2, <1>3
    DEF Sound, Unwritten, HourKept, Undone, NotLost, TriesLeft, Queued, Kept
  <2>2. excuse[x] \in Nat
    BY DEF TypeOK
  <2>3. Budget(x)'
    BY <1>1, <1>3, <2>2 DEF Budget, Slot, OldSlot, Queued, Kept
  <2> QED BY <2>1, <2>3 DEF Sound
<1> QED BY <1>1, <1>3, <1>4, PersonFrame

LEMMA EnqueueKeeps ==
  ASSUME TypeOK, IInv, NEW x \in Msg, Enqueue(x)
  PROVE  IInv'
<1>1. /\ UNCHANGED <<legacy, folder, phase, pass, taken, dropped, hours, sent, excuse>>
      /\ asked[x] = "asking"
      /\ \A m \in Msg \ {x} : asked'[m] = asked[m] /\ file'[m] = file[m]
      /\ \/ file'[x] = Fresh(hours[x]) /\ asked'[x] \in {"accepted", "unsure"}
         \/ file'[x] = file[x] /\ asked'[x] = "refused"
  BY DEF Enqueue, TypeOK, dispatcher, mail
<1>2. Sound(x) /\ Unwritten(x) /\ Waiting(x)
  BY <1>1 DEF IInv, Sound, Waiting
<1>3. ~Queued(x) /\ ~Kept(x) /\ ~InPass(x) /\ ~InPass(x)' /\ sent[x] = 0 /\ dropped[x] = "no"
  BY <1>1, <1>2 DEF Unwritten, InPass
<1>4. /\ Fresh(hours[x]) # None /\ Fresh(hours[x]).hold = hours[x]
      /\ Fresh(hours[x]).attempts = 0 /\ 0 < MaxAttempts
  BY FreshFacts, OutboxAssumption DEF TypeOK
<1>5. Sound(x)'
  <2>1. Unwritten(x)' /\ HourKept(x)' /\ Undone(x)' /\ NotLost(x)' /\ TriesLeft(x)'
    BY <1>1, <1>2, <1>3, <1>4
    DEF Sound, Unwritten, HourKept, Undone, NotLost, TriesLeft, Waiting, Queued, Kept
  <2>2. excuse[x] \in Nat
    BY DEF TypeOK
  <2>3. Budget(x)'
    BY <1>1, <1>3, <2>2 DEF Budget, Slot, OldSlot, Queued, Kept
  <2> QED BY <2>1, <2>3 DEF Sound
<1>6. folder
  BY <1>1 DEF IInv, PassShape
<1> QED BY <1>1, <1>3, <1>5, <1>6, PersonFrame

LEMMA DiscardKeeps ==
  ASSUME TypeOK, IInv, NEW x \in Msg, DiscardOutgoing(x)
  PROVE  IInv'
<1>1. /\ UNCHANGED <<legacy, folder, phase, pass, taken, asked, hours, sent, excuse>>
      /\ Queued(x) /\ file'[x] = None
      /\ \A m \in Msg \ {x} : dropped'[m] = dropped[m] /\ file'[m] = file[m]
      /\ dropped'[x] = IF hours[x] > 0 THEN "early" ELSE "late"
  BY DEF DiscardOutgoing, TypeOK, dispatcher, mail
<1>2. (InPass(x)' <=> InPass(x)) /\ (InFlight(x)' <=> InFlight(x))
  BY <1>1 DEF InPass, InFlight, First
<1>3. Sound(x) /\ ~Waiting(x)
  BY <1>1 DEF IInv, Sound, Unwritten
<1>4. sent[x] \in Nat /\ excuse[x] \in Nat /\ hours[x] \in Nat
  BY DEF TypeOK
<1>5. Budget(x)'
  BY <1>1, <1>2, <1>3, <1>4 DEF Sound, Budget, Slot, OldSlot, Waiting, Queued, Kept
\* In time: it is in no pass, no server has it, and only an excuse lets the
\* old folder hold another one.
<1>6. Undone(x)'
  <2>1. CASE hours[x] > 0
    <3>1. ~InPass(x) /\ sent[x] = 0
      BY <2>1, <1>3, <1>4 DEF InPass, IInv, CopyIsOfNow, Sound, HourKept
    <3>2. ~InFlight(x)
      BY <3>1 DEF InPass, InFlight
    <3>3. excuse[x] > 0 \/ ~Kept(x)
      BY <1>1, <1>3, <1>4, <3>1, <3>2 DEF Sound, Budget, Slot, OldSlot
    <3> QED BY <1>1, <1>2, <1>3, <1>4, <3>1, <3>3 DEF Undone, Waiting, Queued, Kept
  <2>2. CASE ~(hours[x] > 0)
    BY <1>1, <2>2 DEF Undone
  <2> QED BY <2>1, <2>2
<1>7. Unwritten(x)' /\ HourKept(x)' /\ NotLost(x)' /\ TriesLeft(x)'
  BY <1>1, <1>3, NoneFacts
  DEF Sound, Unwritten, HourKept, NotLost, TriesLeft, Waiting, Queued, Kept
<1>8. Sound(x)' /\ ~Stuck(x)'
  BY <1>1, <1>5, <1>6, <1>7, NoneFacts DEF Sound, Stuck
<1>9. folder
  BY <1>1 DEF IInv, PassShape
<1> QED BY <1>1, <1>8, <1>9, PersonFrame

LEMMA FlushKeeps == ASSUME TypeOK, IInv, FlushOutbox PROVE IInv'
<1>1. /\ UNCHANGED <<file, legacy, phase, asked, dropped, hours, sent, excuse>>
      /\ phase = "up" /\ pass = {} /\ taken = FALSE /\ taken' = FALSE /\ folder' = TRUE
  BY DEF FlushOutbox, IInv, PassShape, TypeOK, person, mail
<1>2. ASSUME NEW c \in pass'
      PROVE  /\ c.id \in Msg /\ c = [id |-> c.id, entry |-> file[c.id]]
             /\ file[c.id] # None /\ ~Stuck(c.id)
             /\ file[c.id].hold = 0
  BY <1>2 DEF FlushOutbox, ReadyToSend, Ready, Due, Stuck
<1>3. ASSUME NEW m \in Msg PROVE Sound(m)'
  <2>1. ~InPass(m) /\ ~InFlight(m) /\ ~InFlight(m)' /\ (InPass(m)' => Queued(m))
    BY <1>1, <1>2 DEF InPass, InFlight, Queued
  <2>2. Sound(m)
    BY DEF IInv
  <2>3. Unwritten(m)' /\ HourKept(m)' /\ Undone(m)' /\ NotLost(m)' /\ TriesLeft(m)'
    BY <1>1, <2>1, <2>2
    DEF Sound, Unwritten, HourKept, Undone, NotLost, TriesLeft, Waiting, Queued, Kept
  <2>4. Budget(m)'
    BY <1>1, <2>1, <2>2 DEF Sound, Budget, Slot, OldSlot, Waiting, Queued, Kept
  <2> QED BY <2>3, <2>4 DEF Sound
<1>4. ASSUME NEW c \in pass' PROVE CopyIsOfNow(c)'
  <2>1. HourKept(c.id) /\ TriesLeft(c.id)
    BY <1>2, <1>4 DEF IInv, Sound
  <2>2. file[c.id] \in Entry /\ file[c.id].state = "pending"
    BY <1>2, <1>4 DEF TypeOK, Entry, Stuck
  <2>3. c.entry = file[c.id]
    BY <1>2, <1>4
  <2> QED BY <1>1, <1>2, <1>4, <2>1, <2>2, <2>3 DEF CopyIsOfNow, HourKept, TriesLeft, Queued, Stuck
<1>5. PassShape'
  BY <1>1, <1>2 DEF PassShape
<1> QED BY <1>3, <1>4, <1>5 DEF IInv

\* The copy the dispatcher is at is the only one of its message.
LEMMA FirstFacts ==
  ASSUME TypeOK, IInv, NEW c \in pass, First(c)
  PROVE  /\ c.id \in Msg /\ c.entry \in Entry /\ InPass(c.id)
         /\ folder
         /\ \A d \in pass : First(d) => d = c
         /\ \A m \in Msg : InFlight(m) <=> taken /\ m = c.id
<1>1. c.id \in Msg /\ c.entry \in Entry /\ InPass(c.id) /\ folder
  BY DEF TypeOK, InPass, IInv, PassShape
<1>2. ASSUME NEW d \in pass, First(d) PROVE d = c
  <2>1. c.id \in Nat /\ d.id \in Nat /\ c.id <= d.id /\ d.id <= c.id
    BY <1>2, OutboxAssumption DEF First, TypeOK
  <2> QED BY <2>1 DEF IInv, PassShape
<1> QED BY <1>1, <1>2 DEF InFlight

LEMMA ServerTakesKeeps ==
  ASSUME TypeOK, IInv, NEW c \in pass, ServerTakes(c)
  PROVE  IInv'
<1> DEFINE x == c.id
<1>1. /\ UNCHANGED <<file, legacy, folder, phase, pass, asked, dropped, hours, excuse>>
      /\ ~taken /\ taken' /\ First(c)
      /\ sent'[x] = sent[x] + 1 /\ \A m \in Msg \ {x} : sent'[m] = sent[m]
  BY DEF ServerTakes, TypeOK, person
<1>2. /\ x \in Msg /\ InPass(x) /\ \A m \in Msg : ~InFlight(m)
      /\ \A d \in pass : First(d) => d = c
  BY <1>1, FirstFacts
<1>3. \A m \in Msg : (InPass(m)' <=> InPass(m)) /\ (InFlight(m)' <=> m = x)
  BY <1>1, <1>2 DEF InPass, InFlight, First
<1>4. \A m \in Msg \ {x} : Sound(m)'
  BY <1>1, <1>2, <1>3, Untouched DEF IInv
<1>5. Sound(x)'
  <2>1. Sound(x) /\ ~Waiting(x) /\ hours[x] = 0 /\ sent[x] \in Nat /\ excuse[x] \in Nat
    BY <1>2 DEF IInv, CopyIsOfNow, Sound, Unwritten, TypeOK
  <2>2. Unwritten(x)' /\ HourKept(x)' /\ Undone(x)' /\ NotLost(x)' /\ TriesLeft(x)'
    BY <1>1, <1>2, <1>3, <2>1
    DEF Sound, Unwritten, HourKept, Undone, NotLost, TriesLeft, Waiting, Queued, Kept
  <2>3. Budget(x)'
    BY <1>1, <1>2, <1>3, <2>1 DEF Sound, Budget, Slot, OldSlot, Waiting, Queued, Kept
  <2> QED BY <2>2, <2>3 DEF Sound
<1>6. ASSUME NEW d \in pass PROVE CopyIsOfNow(d)'
  <2>1. d.id \in Msg /\ CopyIsOfNow(d) /\ (First(d)' <=> First(d)) /\ sent[x] \in Nat
    BY <1>1, <1>2 DEF TypeOK, IInv, First
  <2>2. First(d) => sent'[d.id] > 0
    BY <1>1, <1>2, <2>1
  <2> QED BY <1>1, <2>1, <2>2 DEF CopyIsOfNow, Stuck
<1>7. PassShape'
  BY <1>1, <1>2 DEF IInv, PassShape, Queued
<1> QED BY <1>1, <1>4, <1>5, <1>6, <1>7 DEF IInv

\* The end of an attempt changes its message and drops its copy.
LEMMA AttemptEnds ==
  ASSUME TypeOK, IInv, NEW c \in pass, First(c), NextMessage(c),
         UNCHANGED <<legacy, folder, phase, asked, dropped, hours, sent>>,
         \A m \in Msg \ {c.id} : file'[m] = file[m] /\ excuse'[m] = excuse[m],
         Sound(c.id)'
  PROVE  IInv'
<1> DEFINE x == c.id
<1>1. x \in Msg /\ folder /\ \A m \in Msg : InFlight(m) <=> taken /\ m = x
  BY FirstFacts
<1>2. pass' = pass \ {c} /\ taken' = FALSE
  BY DEF NextMessage
<1>3. \A d \in pass' : d \in pass /\ d.id # x /\ d.id \in Msg
  BY <1>2 DEF IInv, PassShape, TypeOK
<1>4. ASSUME NEW m \in Msg \ {x} PROVE Sound(m)'
  <2>1. ~InFlight(m) /\ ~InFlight(m)' /\ (InPass(m)' <=> InPass(m))
    BY <1>1, <1>2 DEF InFlight, InPass
  <2> QED BY <2>1, Untouched DEF IInv
<1>5. ASSUME NEW d \in pass' PROVE CopyIsOfNow(d)'
  BY <1>2, <1>3, <1>5 DEF IInv, CopyIsOfNow, Stuck
<1>6. PassShape'
  BY <1>1, <1>2, <1>3 DEF IInv, PassShape
<1> QED BY <1>4, <1>5, <1>6 DEF IInv

LEMMA AttemptKeeps ==
  ASSUME TypeOK, IInv, NEW c \in pass,
         Delivered(c) \/ ReplyLost(c) \/ \E w \in Cause : NotDelivered(c, w)
  PROVE  IInv'
<1> DEFINE x == c.id
<1>1. First(c) /\ NextMessage(c)
      /\ UNCHANGED <<legacy, folder, phase, asked, dropped, hours, sent>>
  BY DEF Delivered, ReplyLost, NotDelivered, person, mail
<1>2. x \in Msg /\ c.entry \in Entry /\ InPass(x) /\ (InFlight(x) <=> taken)
  BY <1>1, FirstFacts
<1>3. ~InPass(x)' /\ ~InFlight(x)'
  BY <1>1 DEF NextMessage, InPass, InFlight, IInv, PassShape
<1>4. /\ Sound(x) /\ ~Waiting(x) /\ hours[x] = 0 /\ c.entry.hold = 0
      /\ sent[x] \in Nat /\ excuse[x] \in Nat /\ (taken => sent[x] > 0)
  BY <1>1, <1>2 DEF IInv, CopyIsOfNow, Sound, Unwritten, TypeOK
\* What the end of an attempt may leave.
<1> DEFINE Failure(f) == /\ f # None /\ f.hold = 0
                         /\ f.state = "pending" => f.attempts < MaxAttempts
<1>5. \A w \in Cause : Failure(RecordFailure(c.entry, w))
  BY <1>2, <1>4, FailureFacts
<1>6. /\ \A m \in Msg \ {x} : file'[m] = file[m] /\ excuse'[m] = excuse[m]
      /\ \/ taken /\ file'[x] = None /\ excuse'[x] = excuse[x]
         \/ file'[x] = file[x] /\ ~taken /\ excuse'[x] = excuse[x]
         \/ Failure(file'[x]) /\ ~taken /\ excuse'[x] = excuse[x]
         \/ file'[x] = file[x] /\ excuse'[x] = excuse[x] + 1
         \/ Failure(file'[x]) /\ excuse'[x] = excuse[x] + 1
  <2>1. CASE Delivered(c)
    BY <1>2, <2>1 DEF Delivered, RemoveFile, TypeOK
  <2>2. CASE ReplyLost(c)
    <3>1. Failure(RecordFailure(c.entry, "network"))
      BY <1>5 DEF Cause
    <3> HIDE DEF Failure
    <3> QED BY <1>2, <2>2, <3>1 DEF ReplyLost, TypeOK
  <2>3. ASSUME NEW w \in Cause, NotDelivered(c, w)
        PROVE  /\ ~taken /\ \A m \in Msg \ {x} : file'[m] = file[m] /\ excuse'[m] = excuse[m]
               /\ file'[x] = file[x] \/ Failure(file'[x])
               /\ excuse'[x] = excuse[x]
    <3>1. Failure(RecordFailure(c.entry, w))
      BY <1>5
    <3> HIDE DEF Failure
    <3> QED BY <1>2, <2>3, <3>1 DEF NotDelivered, Save, TypeOK, mail
  <2> QED BY <2>1, <2>2, <2>3
<1>7. Unwritten(x)' /\ HourKept(x)' /\ Undone(x)' /\ NotLost(x)' /\ TriesLeft(x)'
  BY <1>1, <1>2, <1>3, <1>4, <1>6, NoneFacts
  DEF Sound, Unwritten, HourKept, Undone, NotLost, TriesLeft, Waiting, Queued, Kept
<1>8. Budget(x)'
  BY <1>1, <1>2, <1>3, <1>4, <1>6 DEF Sound, Budget, Slot, OldSlot, Waiting, Queued, Kept
<1>9. Sound(x)'
  BY <1>7, <1>8 DEF Sound
<1> QED BY <1>1, <1>6, <1>9, AttemptEnds

LEMMA TickKeeps == ASSUME TypeOK, IInv, Tick PROVE IInv'
<1>1. /\ UNCHANGED <<folder, phase, pass, taken, asked, dropped, sent, excuse>>
      /\ \A m \in Msg : /\ file'[m] = Later(file[m]) /\ legacy'[m] = Later(legacy[m])
                        /\ hours'[m] = OneLess(hours[m])
  BY DEF Tick, AMinute, dispatcher, mail
<1>2. OneLess(0) = 0
  BY DEF OneLess
<1>3. \A m \in Msg : (InPass(m)' <=> InPass(m)) /\ (InFlight(m)' <=> InFlight(m))
  BY <1>1 DEF InPass, InFlight, First
<1>4. ASSUME NEW m \in Msg
      PROVE  /\ Queued(m)' <=> Queued(m)
             /\ Kept(m)' <=> Kept(m)
             /\ Stuck(m)' <=> Stuck(m)
             /\ Sound(m)'
  <2>1. file[m] \in Entry \cup {None} /\ legacy[m] \in Entry \cup {None}
    BY DEF TypeOK
  <2>2. /\ file'[m] = None <=> file[m] = None
        /\ file'[m].state = file[m].state /\ file'[m].attempts = file[m].attempts
        /\ file'[m].hold = OneLess(file[m].hold)
    BY <1>1, <2>1, LaterFacts
  <2>3. /\ legacy'[m] = None <=> legacy[m] = None
        /\ legacy'[m].state = legacy[m].state /\ legacy'[m].attempts = legacy[m].attempts
        /\ legacy'[m].hold = OneLess(legacy[m].hold)
    BY <1>1, <2>1, LaterFacts
  <2>4. Sound(m)
    BY DEF IInv
  <2>5. (Queued(m)' <=> Queued(m)) /\ (Kept(m)' <=> Kept(m)) /\ (Stuck(m)' <=> Stuck(m))
    BY <2>2, <2>3 DEF Queued, Kept, Stuck
  <2>6. Unwritten(m)' /\ Undone(m)' /\ NotLost(m)' /\ TriesLeft(m)'
    BY <1>1, <1>3, <2>2, <2>3, <2>4, <2>5
    DEF Sound, Unwritten, Undone, NotLost, TriesLeft, Waiting
  <2>7. HourKept(m)'
    BY <1>1, <1>2, <2>2, <2>3, <2>4, <2>5 DEF Sound, HourKept
  <2>8. Budget(m)'
    BY <1>1, <1>3, <2>4, <2>5 DEF Sound, Budget, Slot, OldSlot, Waiting
  <2> QED BY <2>5, <2>6, <2>7, <2>8 DEF Sound
<1>5. ASSUME NEW c \in pass PROVE CopyIsOfNow(c)'
  <2>1. c.id \in Msg /\ CopyIsOfNow(c) /\ (First(c)' <=> First(c))
    BY <1>1 DEF TypeOK, IInv, First
  <2> QED BY <1>1, <1>2, <1>4, <2>1 DEF CopyIsOfNow
<1>6. PassShape'
  BY <1>1, <1>4 DEF IInv, PassShape
<1> QED BY <1>1, <1>4, <1>5, <1>6 DEF IInv

LEMMA CrashKeeps == ASSUME TypeOK, IInv, Crash PROVE IInv'
<1>1. /\ UNCHANGED <<file, legacy, folder, dropped, hours, sent>>
      /\ phase' = "off" /\ pass' = {} /\ taken' = FALSE
      /\ \A m \in Msg :
           asked'[m] = IF asked[m] = "asking" THEN "refused" ELSE asked[m]
  BY DEF Crash
<1>2. \A m \in Msg : excuse'[m] = IF InFlight(m) THEN excuse[m] + 1 ELSE excuse[m]
  <2> DEFINE more(m) == IF InFlight(m) THEN excuse[m] + 1 ELSE excuse[m]
  <2>1. excuse' = [m \in Msg |-> more(m)]
    BY DEF Crash
  <2> HIDE DEF more
  <2>2. \A m \in Msg : excuse'[m] = more(m)
    BY <2>1
  <2> QED BY <2>2 DEF more
<1>3. ASSUME NEW m \in Msg PROVE Sound(m)'
  <2>1. ~InPass(m)' /\ ~InFlight(m)' /\ sent[m] \in Nat /\ excuse[m] \in Nat /\ Sound(m)
    BY <1>1 DEF InPass, InFlight, TypeOK, IInv
  <2>2. Unwritten(m)' /\ HourKept(m)' /\ Undone(m)' /\ NotLost(m)' /\ TriesLeft(m)'
    BY <1>1, <1>2, <2>1
    DEF Sound, Unwritten, HourKept, Undone, NotLost, TriesLeft, Waiting, Queued, Kept
  <2>3. Budget(m)'
    BY <1>1, <1>2, <2>1 DEF Sound, Budget, Slot, OldSlot, Waiting, Queued, Kept
  <2> QED BY <2>2, <2>3 DEF Sound
<1>4. PassShape'
  <2>1. \A m \in Msg : asked'[m] # "asking"
    BY <1>1
  <2> QED BY <1>1, <2>1 DEF IInv, PassShape, Queued
<1> QED BY <1>1, <1>3, <1>4 DEF IInv

LEMMA NextKeeps == TypeOK /\ IInv /\ [Next]_vars => IInv'
<1> SUFFICES ASSUME TypeOK, IInv, [Next]_vars PROVE IInv'
  OBVIOUS
<1>1. CASE Moved
  <2>1. /\ UNCHANGED <<file, legacy, folder, pass, taken, asked, dropped, hours, sent, excuse>>
        /\ phase' = "up" /\ pass = {}
    BY <1>1 DEF Moved, dispatcher, person, mail, IInv, PassShape
  <2>2. \A m \in Msg : (InPass(m)' <=> InPass(m)) /\ (InFlight(m)' <=> InFlight(m))
    BY <2>1 DEF InPass, InFlight, First
  <2>3. \A m \in Msg : Sound(m)'
    BY <2>1, <2>2, Untouched DEF IInv
  <2>4. PassShape'
    BY <2>1 DEF IInv, PassShape, Queued
  <2> QED BY <2>1, <2>3, <2>4 DEF IInv
<1>2. CASE Attempt
  BY <1>2, ServerTakesKeeps, AttemptKeeps DEF Attempt
<1>3. CASE UNCHANGED vars
  <2>1. \A m \in Msg : (InPass(m)' <=> InPass(m)) /\ (InFlight(m)' <=> InFlight(m))
    BY <1>3 DEF vars, InPass, InFlight, First
  <2>2. \A m \in Msg : Sound(m)'
    BY <1>3, <2>1, Untouched DEF vars, IInv
  <2>3. ASSUME NEW c \in pass PROVE CopyIsOfNow(c)'
    BY <1>3 DEF vars, IInv, CopyIsOfNow, First, Stuck
  <2>4. PassShape'
    BY <1>3 DEF vars, IInv, PassShape, Queued
  <2> QED BY <1>3, <2>2, <2>3, <2>4 DEF vars, IInv
<1> QED
  BY <1>1, <1>2, <1>3, StartKeeps, MoveKeeps, SendMessageKeeps, EnqueueKeeps, DiscardKeeps,
     FlushKeeps, TickKeeps, CrashKeeps
  DEF Next

LEMMA Reachable == Spec => [](TypeOK /\ IInv)
<1>1. Init => TypeOK /\ IInv
  BY TypeInit, InitIInv
<1>2. TypeOK /\ IInv /\ [Next]_vars => TypeOK' /\ IInv'
  BY TypeStep, NextKeeps
<1> QED BY <1>1, <1>2, PTL DEF Spec

-----------------------------------------------------------------------------
(* What it shows.                                                          *)

\* A message that send_message accepted waits in a folder until a server takes
\* it or the person discards it.
THEOREM AcceptedIsNotLost == Spec => []NoMessageLost
<1>1. IInv => NoMessageLost
  BY DEF IInv, Sound, NotLost, NoMessageLost, Kept
<1> QED BY <1>1, Reachable, PTL

\* No message is sent twice but for what the program could not know or note.
THEOREM SentOnlyOnce == Spec => []SentOnce
<1>1. TypeOK /\ IInv => SentOnce
  <2> SUFFICES ASSUME TypeOK, IInv, NEW m \in Msg PROVE sent[m] <= 1 + excuse[m]
    BY DEF SentOnce
  <2>1. sent[m] \in Nat /\ excuse[m] \in Nat /\ Slot(m) \in {0, 1} /\ OldSlot(m) \in {0, 1}
    BY DEF TypeOK, Slot, OldSlot
  <2>2. sent[m] + Slot(m) + OldSlot(m) <= 1 + excuse[m]
    BY DEF IInv, Sound, Budget
  <2> QED BY <2>1, <2>2
<1> QED BY <1>1, Reachable, PTL

\* A message discarded before its hour never leaves.
THEOREM UndoIsKept == Spec => []UndoHolds
<1>1. IInv => UndoHolds
  BY DEF IInv, Sound, Undone, UndoHolds
<1> QED BY <1>1, Reachable, PTL

\* What is still pending has attempts left, on disk and in the dispatcher.
THEOREM PendingHasAttempts == Spec => []AttemptsLeft
<1>1. IInv => AttemptsLeft
  BY DEF IInv, Sound, TriesLeft, AttemptsLeft, CopyIsOfNow
<1> QED BY <1>1, Reachable, PTL

\* A server takes no message before its hour, nor one that is stuck.
THEOREM SentWhenItMay == Spec => OnlyWhenItMay
<1>1. TypeOK /\ IInv /\ [Next]_vars =>
        [\A m \in Msg : sent'[m] > sent[m] => hours[m] = 0 /\ ~Stuck(m)]_vars
  <2> SUFFICES ASSUME TypeOK, IInv, Next, NEW m \in Msg, sent'[m] > sent[m]
               PROVE  hours[m] = 0 /\ ~Stuck(m)
    OBVIOUS
  <2>1. \A n \in Nat : ~(n > n)
    OBVIOUS
  <2>2. sent[m] \in Nat /\ sent' # sent
    BY <2>1 DEF TypeOK
  <2>3. PICK c \in pass : ServerTakes(c)
    BY <2>2 DEF Next, Start, Moved, FlushOutbox, Attempt, Delivered, ReplyLost, NotDelivered,
       Tick, Crash, MoveWithoutReplacing, Enqueue, DiscardOutgoing, SendMessage, mail
  <2>4. m = c.id
    BY <2>1, <2>2, <2>3 DEF ServerTakes, TypeOK
  <2> QED BY <2>4 DEF IInv, CopyIsOfNow
<1> QED BY <1>1, Reachable, PTL DEF Spec, OnlyWhenItMay
=============================================================================
