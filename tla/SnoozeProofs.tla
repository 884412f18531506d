----------------------------- MODULE SnoozeProofs -----------------------------
(***************************************************************************)
(* What is proved of the snoozed mail, for any messages, calls and bounds: *)
(* the types, that what is in Pospuestos has the row that brings it back,  *)
(* and that no row is slept through.                                       *)
(***************************************************************************)
EXTENDS Snooze, WellFoundedInduction, FiniteSetTheorems, TLAPS

\* A set of natural numbers has a least element.
LEMMA LeastNat ==
  ASSUME NEW S, S \subseteq Nat, S # {}
  PROVE  Least(S) \in S /\ \A y \in S : Least(S) <= y
  <1>1. \E x \in S : \A y \in S : ~(<<y, x>> \in OpToRel(<, Nat))
    BY NatLessThanWellFounded, WFMin, Zenon
  <1>2. ASSUME NEW x \in S, \A y \in S : ~(<<y, x>> \in OpToRel(<, Nat)), NEW y \in S
        PROVE  x <= y
    <2>1. ~(<<y, x>> \in {ss \in Nat \X Nat : ss[1] < ss[2]})
      BY <1>2, Zenon DEF OpToRel
    <2>2. x \in Nat /\ y \in Nat
      OBVIOUS
    <2>3. QED
      BY <2>1, <2>2
  <1>3. \E x \in S : \A y \in S : x <= y
    BY <1>1, <1>2
  <1>4. QED
    BY <1>3, Zenon DEF Least

\* The lesser of two.
LEMMA LeastOfTwo ==
  ASSUME NEW x \in Nat, NEW y \in Nat
  PROVE  /\ Least({x, y}) \in {x, y} /\ Least({x, y}) <= x /\ Least({x, y}) <= y
         /\ Least({x, y}) \in Nat
  BY LeastNat
-----------------------------------------------------------------------------
\* The types.  What a pass works on is a copy of some rows.
Todos == UNION {[S -> Row] : S \in SUBSET Msgs}
LoopType == [pc : {"asleep", "pass", "delete"}, started : Hours, lag : Nat, saw : BOOLEAN,
             sleep : 0..MaxSleep, todo : Todos]
BoundType == [snoozes : Nat, cancels : Nat, accidents : Nat]

\* The calls that may still move a message to Pospuestos; each may take two UIDs.
Moving == {c \in Calls : At(c, "snooze", "move")}

MailTyped ==
  /\ server \in [move : BOOLEAN, uidplus : BOOLEAN]
  /\ home \subseteq Msgs
  /\ last \in Nat /\ there \in [Msgs -> SUBSET (1..last)]
RowTyped ==
  /\ row \in [Msgs -> Row \cup {NoRow}] /\ left \subseteq Msgs
  /\ open \in BOOLEAN /\ nudged \in BOOLEAN
CallTyped == call \in [Calls -> Call]
LoopTyped == now \in Hours /\ loop \in LoopType /\ loop.started <= now
BoundTyped == bound \in BoundType
Shape == MailTyped /\ RowTyped /\ CallTyped /\ LoopTyped /\ BoundTyped

UidsLast == last + 2 * (bound.snoozes + Cardinality(Moving)) <= 2 * MaxSnoozes

LEMMA TodoFacts ==
  /\ <<>> \in Todos /\ DOMAIN (<<>>) = {}
  /\ \A todo \in Todos : /\ DOMAIN todo \subseteq Msgs
                         /\ \A m \in DOMAIN todo : todo[m] \in Row
  /\ \A S \in SUBSET Msgs : \A f \in [S -> Row] : f \in Todos /\ DOMAIN f = S
  <1>1. <<>> \in [{} -> Row] /\ DOMAIN (<<>>) = {}
    OBVIOUS
  <1>2. \A S \in SUBSET Msgs : \A f \in [S -> Row] : f \in Todos /\ DOMAIN f = S
    BY DEF Todos
  <1>3. \A todo \in Todos : DOMAIN todo \subseteq Msgs /\ \A m \in DOMAIN todo : todo[m] \in Row
    BY DEF Todos
  <1>4. QED
    BY <1>1, <1>2, <1>3

LEMMA RowFacts ==
  /\ \A r \in Row : /\ r.at \in Hours /\ r.uid \in Uids /\ r.told \in BOOLEAN /\ r # NoRow
                    /\ r.uid # NoUid /\ r.at \in Nat
  /\ \A h \in Hours : h \in Nat
  BY SnoozeAssumption DEF SnoozeAssumption, Row, Hours, Uids, NoRow, NoUid

\* What each call is at each step.
LEMMA CallFacts ==
  ASSUME NEW c \in Calls, call[c] \in Call
  PROVE  /\ At(c, "snooze", "move") => call[c] \in [op : {"snooze"}, pc : {"move"}, m : Msgs, at : Hours]
         /\ At(c, "snooze", "commit") \/ At(c, "snooze", "nudge") =>
              call[c] \in [op : {"snooze"}, pc : {"commit", "nudge"}, m : Msgs, at : Hours, uid : Uids]
         /\ call[c].op = "cancel" =>
              call[c] \in [op : {"cancel"}, pc : {"return", "delete"}, m : Msgs, row : Row]
         /\ call[c] # Idle => call[c].m \in Msgs
  BY DEF Call, At, Idle

LEMMA TurnIsNext ==
  ASSUME loop \in LoopType, DOMAIN loop.todo # {}
  PROVE  Turn \in DOMAIN loop.todo /\ Turn \in Msgs /\ loop.todo[Turn] \in Row
  <1> DEFINE hours == {loop.todo[m].at : m \in DOMAIN loop.todo}
  <1>1. loop.todo \in Todos
    BY DEF LoopType
  <1>2. /\ DOMAIN loop.todo \subseteq Msgs
        /\ \A m \in DOMAIN loop.todo : loop.todo[m] \in Row /\ loop.todo[m].at \in Nat
    BY <1>1, TodoFacts, RowFacts
  <1>3. hours # {} /\ hours \subseteq Nat
    BY <1>2
  <1>4. Least(hours) \in hours /\ \A h \in hours : Least(hours) <= h
    BY <1>3, LeastNat
  <1>5. \E m \in DOMAIN loop.todo : \A n \in DOMAIN loop.todo : loop.todo[m].at <= loop.todo[n].at
    <2>1. PICK h \in hours : \A x \in hours : h <= x
      BY <1>4, Zenon
    <2>2. PICK m \in DOMAIN loop.todo : h = loop.todo[m].at
      OBVIOUS
    <2>3. \A n \in DOMAIN loop.todo : loop.todo[n].at \in hours
      OBVIOUS
    <2>4. QED
      BY <2>1, <2>2, <2>3, Zenon
  <1>6. Turn \in DOMAIN loop.todo
    BY <1>5, Zenon DEF Turn
  <1>7. QED
    BY <1>2, <1>6

LEMMA SleepType ==
  ASSUME Shape, NEW t \in Hours
  PROVE  /\ Sleep(t) \in 0..MaxSleep
         /\ open => \A m \in Msgs : row[m] # NoRow /\ row[m].at > t => Sleep(t) <= row[m].at - t
  <1> DEFINE after == {row[m].at : m \in {n \in Msgs : row[n] # NoRow /\ row[n].at > t}}
  <1>0. MaxSleep \in Nat /\ t \in Nat
    BY SnoozeAssumption, RowFacts DEF SnoozeAssumption
  <1>1. \A m \in Msgs : row[m] # NoRow => row[m] \in Row /\ row[m].at \in Nat
    BY RowFacts DEF Shape, RowTyped
  <1>2. after \subseteq Nat /\ \A h \in after : h > t
    BY <1>1
  <1>3. \A m \in Msgs : row[m] # NoRow /\ row[m].at > t => row[m].at \in after
    OBVIOUS
  <1>4. CASE open /\ after # {}
    <2>1. PICK h : h = Least(after)
      OBVIOUS
    <2>2. Sleep(t) = Least({MaxSleep, h - t})
      BY <1>4, <2>1, Zenon DEF Sleep
    <2> HIDE DEF after
    <2>3. h \in after /\ \A x \in after : h <= x
      BY <1>2, <1>4, <2>1, LeastNat
    <2>4. h \in Nat /\ h - t \in Nat
      BY <1>0, <1>2, <2>3
    <2>5. Sleep(t) \in Nat /\ Sleep(t) <= MaxSleep /\ Sleep(t) <= h - t
      BY <1>0, <2>2, <2>4, LeastOfTwo
    <2>6. \A m \in Msgs : row[m] # NoRow /\ row[m].at > t => h <= row[m].at
      BY <1>3, <2>3
    <2>7. QED
      BY <1>0, <1>1, <2>4, <2>5, <2>6
  <1>5. CASE ~(open /\ after # {})
    <2>1. Sleep(t) = MaxSleep
      BY <1>5, Zenon DEF Sleep
    <2> HIDE DEF after
    <2>2. QED
      BY <1>0, <1>3, <1>5, <2>1
  <1>6. QED
    BY <1>4, <1>5
-----------------------------------------------------------------------------
(* The steps keep the types.                                               *)

LEMMA CallMoves ==
  ASSUME CallTyped, NEW c \in Calls, NEW v \in Call, Set(c, v)
  PROVE  CallTyped' /\ call'[c] = v /\ \A d \in Calls : d # c => call'[d] = call[d]
  BY DEF CallTyped, Set

LEMMA CallEnds ==
  ASSUME CallTyped, NEW c \in Calls, Ends(c)
  PROVE  CallTyped' /\ call'[c] = Idle /\ \A d \in Calls : d # c => call'[d] = call[d]
  <1>1. Idle \in Call
    BY DEF Call
  <1>2. QED
    BY <1>1, CallMoves DEF Ends

LEMMA Spends ==
  ASSUME BoundTyped, NEW b \in {"snoozes", "cancels", "accidents"}, Spend(b)
  PROVE  /\ BoundTyped' /\ bound'.snoozes <= bound.snoozes
         /\ b = "snoozes" => bound'.snoozes = bound.snoozes - 1
  <1>1. bound' = [bound EXCEPT ![b] = bound[b] - 1] /\ bound[b] > 0
    BY DEF Spend
  <1>2. QED
    BY <1>1 DEF BoundTyped, BoundType

LEMMA MovingIsFinite == IsFiniteSet(Moving) /\ Cardinality(Moving) \in Nat
  <1>1. Moving \subseteq Calls
    BY DEF Moving
  <1>2. QED
    BY <1>1, SnoozeAssumption, FS_Subset, FS_CardinalityType DEF SnoozeAssumption

\* A step that gives no UID leaves room for those still to be given.
LEMMA RoomStays ==
  ASSUME Shape, UidsLast, last' = last, bound'.snoozes \in Nat,
         bound'.snoozes <= bound.snoozes, Moving' \subseteq Moving
  PROVE  UidsLast'
  <1>1. Cardinality(Moving') <= Cardinality(Moving) /\ Cardinality(Moving') \in Nat
    BY MovingIsFinite, FS_Subset, FS_CardinalityType
  <1>2. last \in Nat /\ bound.snoozes \in Nat /\ MaxSnoozes \in Nat
    BY SnoozeAssumption DEF Shape, MailTyped, BoundTyped, BoundType, SnoozeAssumption
  <1>3. last + 2 * (bound.snoozes + Cardinality(Moving)) <= 2 * MaxSnoozes
    BY DEF UidsLast
  <1>4. last + 2 * (bound'.snoozes + Cardinality(Moving')) <= 2 * MaxSnoozes
    BY <1>1, <1>2, <1>3, MovingIsFinite
  <1>5. QED
    BY <1>4 DEF UidsLast

LEMMA ArrivesType ==
  ASSUME MailTyped, NEW m \in Msgs, NEW n \in {1, 2}, Arrives(m, n),
         server' = server, home' \subseteq Msgs
  PROVE  /\ MailTyped' /\ last' = last + n
         /\ there'[m] = there[m] \cup ((last + 1)..(last + n))
         /\ \A k \in Msgs : k # m => there'[k] = there[k]
  <1>1. last' = last + n /\ last \in Nat
    BY DEF Arrives, MailTyped
  <1>2. there' = [there EXCEPT ![m] = there[m] \cup ((last + 1)..(last + n))]
    BY DEF Arrives
  <1>3. there[m] \cup ((last + 1)..(last + n)) \in SUBSET (1..last')
    BY <1>1 DEF MailTyped
  <1>4. \A k \in Msgs : there[k] \in SUBSET (1..last')
    BY <1>1 DEF MailTyped
  <1>5. there' \in [Msgs -> SUBSET (1..last')]
    BY <1>2, <1>3, <1>4 DEF MailTyped
  <1>6. QED
    BY <1>1, <1>2, <1>5 DEF MailTyped

\* What a return does to the mailboxes, whether it ends well or not.
Shrinks ==
  /\ UNCHANGED <<server, last>>
  /\ \A m \in Msgs : /\ there'[m] \subseteq there[m]
                     /\ there[m] # {} /\ there'[m] = {} => m \in home'
  /\ home \subseteq home'

LEMMA SameMailboxes ==
  ASSUME MailTyped, UNCHANGED mailboxes
  PROVE  MailTyped' /\ Shrinks
  BY DEF mailboxes, MailTyped, Shrinks

LEMMA LeavesType ==
  ASSUME MailTyped, NEW m \in Msgs, NEW uid, Leaves(m, uid)
  PROVE  /\ MailTyped' /\ Shrinks
         /\ Moves => there'[m] = there[m] \ {uid}
  <1>1. there' = [there EXCEPT ![m] = IF Moves THEN there[m] \ {uid} ELSE there[m]]
    BY DEF Leaves
  <1>2. UNCHANGED <<server, last>> /\ home' = IF uid \in there[m] THEN home \cup {m} ELSE home
    BY DEF Leaves
  <1>3. MailTyped'
    BY <1>1, <1>2 DEF MailTyped
  <1>4. /\ there'[m] = IF Moves THEN there[m] \ {uid} ELSE there[m]
        /\ \A k \in Msgs : k # m => there'[k] = there[k]
    BY <1>1 DEF MailTyped
  <1>5. there[m] # {} /\ there'[m] = {} => m \in home'
    BY <1>2, <1>4
  <1>6. QED
    BY <1>2, <1>3, <1>4, <1>5 DEF Shrinks

LEMMA HalfOutType ==
  ASSUME MailTyped, NEW m \in Msgs, NEW uid, HalfOut(m, uid)
  PROVE  MailTyped' /\ Shrinks
  BY DEF MailTyped, HalfOut, Shrinks

LEMMA ReturnsType ==
  ASSUME MailTyped, NEW m \in Msgs, NEW r, Returns(m, r)
  PROVE  MailTyped' /\ Shrinks
  <1>1. UNCHANGED mailboxes \/ Leaves(m, FindUid(m, r))
    BY DEF Returns
  <1>2. QED
    BY <1>1, SameMailboxes, LeavesType, Zenon

LEMMA ReturnFailsType ==
  ASSUME MailTyped, BoundTyped, NEW m \in Msgs, NEW r, ReturnFails(m, r)
  PROVE  MailTyped' /\ Shrinks /\ BoundTyped' /\ bound'.snoozes <= bound.snoozes
  <1>1. UNCHANGED mailboxes \/ Leaves(m, FindUid(m, r)) \/ HalfOut(m, FindUid(m, r))
    BY DEF ReturnFails
  <1>2. MailTyped' /\ Shrinks
    BY <1>1, SameMailboxes, LeavesType, HalfOutType, Zenon
  <1>3. bound' = bound \/ Spend("accidents")
    BY Zenon DEF ReturnFails
  <1>4. BoundTyped' /\ bound'.snoozes <= bound.snoozes
    <2>1. CASE bound' = bound
      BY <2>1 DEF BoundTyped, BoundType
    <2>2. CASE Spend("accidents")
      BY <2>2, Spends
    <2>3. QED
      BY <1>3, <2>1, <2>2
  <1>5. QED
    BY <1>2, <1>4

\* A call that takes a step, and not the first one of SnoozeMessage.
LEMMA CallGoes ==
  ASSUME Shape, UidsLast, NEW c \in Calls, NEW v \in Call, Set(c, v),
         v.op # "snooze" \/ v.pc # "move", last' = last,
         BoundTyped', bound'.snoozes <= bound.snoozes
  PROVE  CallTyped' /\ UidsLast'
  <1>1. CallTyped' /\ call'[c] = v /\ \A d \in Calls : d # c => call'[d] = call[d]
    BY CallMoves DEF Shape
  <1>2. Moving' \subseteq Moving
    BY <1>1 DEF Moving, At
  <1>3. bound'.snoozes \in Nat
    BY DEF BoundTyped, BoundType
  <1>4. QED
    BY <1>1, <1>2, <1>3, RoomStays

LEMMA IdleCall == Idle \in Call /\ Idle.op # "snooze" /\ Idle.op # "cancel"
  BY DEF Idle, Call

LEMMA RestIsCopy ==
  ASSUME loop \in LoopType, DOMAIN loop.todo # {}
  PROVE  /\ Rest(loop.todo) \in Todos
         /\ DOMAIN Rest(loop.todo) = (DOMAIN loop.todo) \ {Turn}
         /\ \A m \in (DOMAIN loop.todo) \ {Turn} : Rest(loop.todo)[m] = loop.todo[m]
  <1>1. loop.todo \in Todos
    BY DEF LoopType
  <1>2. DOMAIN loop.todo \subseteq Msgs /\ \A m \in DOMAIN loop.todo : loop.todo[m] \in Row
    BY <1>1, TodoFacts
  <1>3. Rest(loop.todo) = [m \in (DOMAIN loop.todo) \ {Turn} |-> loop.todo[m]]
    BY Zenon DEF Rest
  <1>4. Rest(loop.todo) \in [(DOMAIN loop.todo) \ {Turn} -> Row]
    BY <1>2, <1>3
  <1>5. (DOMAIN loop.todo) \ {Turn} \in SUBSET Msgs
    BY <1>2
  <1>6. Rest(loop.todo) \in Todos
    BY <1>4, <1>5, TodoFacts, Zenon
  <1>7. QED
    BY <1>3, <1>6

LEMMA SnoozeMessageType ==
  ASSUME Shape, UidsLast, NEW c \in Calls, SnoozeMessage(c)
  PROVE  Shape' /\ UidsLast'
  <1>1. PICK m \in Msgs, at \in Hours :
          /\ call[c] = Idle /\ Spend("snoozes")
          /\ Set(c, [op |-> "snooze", pc |-> "move", m |-> m, at |-> at])
          /\ UNCHANGED <<mailboxes, row, open, loop, nudged, now, left>>
    BY Zenon DEF SnoozeMessage
  <1>2. [op |-> "snooze", pc |-> "move", m |-> m, at |-> at] \in Call
    BY DEF Call
  <1>3. CallTyped' /\ \A d \in Calls : d # c => call'[d] = call[d]
    BY <1>1, <1>2, CallMoves, Zenon DEF Shape
  <1>4. BoundTyped' /\ bound'.snoozes = bound.snoozes - 1
    BY <1>1, Spends DEF Shape
  <1>5. UNCHANGED <<server, home, there, last, row, open, loop, nudged, now, left>>
    BY <1>1 DEF mailboxes
  <1>6. Shape'
    BY <1>3, <1>4, <1>5 DEF Shape, MailTyped, RowTyped, LoopTyped
  <1>7. UidsLast'
    <2>1. Moving' \subseteq Moving \cup {c}
      BY <1>3 DEF Moving, At
    <2>2. /\ IsFiniteSet(Moving \cup {c})
          /\ Cardinality(Moving \cup {c}) = IF c \in Moving THEN Cardinality(Moving)
                                            ELSE Cardinality(Moving) + 1
      BY MovingIsFinite, FS_AddElement, Zenon
    <2>3. Cardinality(Moving') <= Cardinality(Moving) + 1 /\ Cardinality(Moving') \in Nat
      BY <2>1, <2>2, MovingIsFinite, FS_Subset, FS_CardinalityType
    <2>4. last \in Nat /\ bound.snoozes \in Nat /\ bound'.snoozes \in Nat /\ MaxSnoozes \in Nat
      BY <1>4, SnoozeAssumption
         DEF Shape, MailTyped, BoundTyped, BoundType, SnoozeAssumption
    <2>5. last + 2 * (bound.snoozes + Cardinality(Moving)) <= 2 * MaxSnoozes
      BY DEF UidsLast
    <2>6. last + 2 * (bound'.snoozes + Cardinality(Moving')) <= 2 * MaxSnoozes
      BY <1>4, <2>3, <2>4, <2>5, MovingIsFinite
    <2>7. QED
      BY <1>5, <2>6 DEF UidsLast
  <1>8. QED
    BY <1>6, <1>7

\* What a move to Pospuestos gives: one UID or two.
LEMMA SnoozedGives ==
  ASSUME Shape, UidsLast, NEW c \in Calls, Snoozed(c)
  PROVE  /\ call[c].m \in Msgs /\ call[c].at \in Hours /\ last' \in Uids
         /\ \E n \in {1, 2} : Arrives(call[c].m, n)
         /\ last' = last + 1 \/ last' = last + 2
         /\ BoundTyped' /\ bound'.snoozes <= bound.snoozes
         /\ c \in Moving
  <1>1. c \in Moving /\ At(c, "snooze", "move")
    BY DEF Moving, Snoozed
  <1>2. call[c] \in [op : {"snooze"}, pc : {"move"}, m : Msgs, at : Hours]
    BY <1>1, CallFacts DEF Shape, CallTyped
  <1>3. \/ Arrives(call[c].m, 1) /\ UNCHANGED bound
        \/ Arrives(call[c].m, 2) /\ Spend("accidents")
    BY Zenon DEF Snoozed
  <1>4. BoundTyped' /\ bound'.snoozes <= bound.snoozes
    <2>1. CASE bound' = bound
      BY <2>1 DEF Shape, BoundTyped, BoundType
    <2>2. CASE Spend("accidents")
      BY <2>2, Spends DEF Shape
    <2>3. QED
      BY <1>3, <2>1, <2>2
  <1>5. last' = last + 1 \/ last' = last + 2
    BY <1>3 DEF Arrives
  <1>6. \E n \in {1, 2} : Arrives(call[c].m, n)
    BY <1>3, Zenon
  <1>7. last' \in Uids
    <2>1. Cardinality(Moving) >= 1
      BY <1>1, MovingIsFinite, FS_EmptySet
    <2>2. last \in Nat /\ bound.snoozes \in Nat /\ MaxSnoozes \in Nat
      BY SnoozeAssumption DEF Shape, MailTyped, BoundTyped, BoundType, SnoozeAssumption
    <2>3. last + 2 <= 2 * MaxSnoozes
      BY <2>1, <2>2, MovingIsFinite DEF UidsLast
    <2>4. QED
      BY <1>5, <2>2, <2>3 DEF Uids
  <1>8. QED
    BY <1>1, <1>2, <1>4, <1>5, <1>6, <1>7

LEMMA SnoozedType ==
  ASSUME Shape, UidsLast, NEW c \in Calls, Snoozed(c)
  PROVE  /\ Shape' /\ UidsLast'
         /\ call' = [call EXCEPT ![c] = [op |-> "snooze", pc |-> "commit", m |-> call[c].m,
                                         at |-> call[c].at, uid |-> last']]
  <1> DEFINE v == [op |-> "snooze", pc |-> "commit", m |-> call[c].m, at |-> call[c].at,
                   uid |-> last']
  <1>1. /\ call[c].m \in Msgs /\ call[c].at \in Hours /\ last' \in Uids /\ c \in Moving
        /\ \E n \in {1, 2} : Arrives(call[c].m, n)
        /\ last' = last + 1 \/ last' = last + 2
        /\ BoundTyped' /\ bound'.snoozes <= bound.snoozes
    BY SnoozedGives
  <1>2. Set(c, v) /\ UNCHANGED <<server, row, open, loop, nudged, now>>
    BY Zenon DEF Snoozed
  <1>3. v \in Call
    BY <1>1 DEF Call
  <1>4. v.op = "snooze" /\ v.pc = "commit"
    OBVIOUS
  <1>5. home' \subseteq Msgs /\ left' \subseteq Msgs
    <2>1. home' = IF Moves THEN home \ {call[c].m} ELSE home
      BY Zenon DEF Snoozed
    <2>2. left' \subseteq left \cup {call[c].m}
      BY DEF Snoozed, Strands
    <2>3. QED
      BY <1>1, <2>1, <2>2 DEF Shape, MailTyped, RowTyped
  <1>6. MailTyped'
    BY <1>1, <1>2, <1>5, ArrivesType DEF Shape
  <1> HIDE DEF v
  <1>7. CallTyped' /\ call'[c] = v /\ \A d \in Calls : d # c => call'[d] = call[d]
    BY <1>2, <1>3, CallMoves DEF Shape
  <1>8. Shape'
    BY <1>1, <1>2, <1>5, <1>6, <1>7 DEF Shape, RowTyped, LoopTyped
  <1>9. UidsLast'
    <2>1. Moving' \subseteq Moving \ {c}
      BY <1>4, <1>7 DEF Moving, At
    <2>2. IsFiniteSet(Moving \ {c}) /\ Cardinality(Moving \ {c}) = Cardinality(Moving) - 1
      BY <1>1, MovingIsFinite, FS_RemoveElement, Zenon
    <2>3. Cardinality(Moving') <= Cardinality(Moving) - 1 /\ Cardinality(Moving') \in Nat
      BY <2>1, <2>2, MovingIsFinite, FS_Subset, FS_CardinalityType
    <2>4. last \in Nat /\ bound.snoozes \in Nat /\ bound'.snoozes \in Nat /\ MaxSnoozes \in Nat
      BY <1>1, SnoozeAssumption
         DEF Shape, MailTyped, BoundTyped, BoundType, SnoozeAssumption
    <2>5. last + 2 * (bound.snoozes + Cardinality(Moving)) <= 2 * MaxSnoozes
      BY DEF UidsLast
    <2>6. last' + 2 * (bound'.snoozes + Cardinality(Moving')) <= 2 * MaxSnoozes
      BY <1>1, <2>3, <2>4, <2>5, MovingIsFinite
    <2>7. QED
      BY <2>6 DEF UidsLast
  <1>10. call' = [call EXCEPT ![c] = v]
    BY <1>2, Zenon DEF Set
  <1>11. QED
    BY <1>8, <1>9, <1>10 DEF v

LEMMA SnoozeFailsType ==
  ASSUME Shape, UidsLast, NEW c \in Calls, SnoozeFails(c)
  PROVE  /\ Shape' /\ UidsLast' /\ call[c].m \in Msgs
         /\ UNCHANGED mailboxes \/ (Arrives(call[c].m, 1) /\ call[c].m \in home)
         /\ UNCHANGED server
         /\ UNCHANGED mailboxes \/ home' = home
            \/ home' = (IF Moves THEN home \ {call[c].m} ELSE home)
  <1>0. c \in Moving /\ At(c, "snooze", "move")
    BY DEF Moving, SnoozeFails
  <1>1. call[c].m \in Msgs
    BY <1>0, CallFacts DEF Shape, CallTyped
  <1>2. UNCHANGED mailboxes \/ (Arrives(call[c].m, 1) /\ call[c].m \in home)
    BY Zenon DEF SnoozeFails, HalfIn
  <1>3. /\ UNCHANGED server
        /\ \/ UNCHANGED mailboxes
           \/ home' = home \/ home' = (IF Moves THEN home \ {call[c].m} ELSE home)
    BY DEF SnoozeFails, HalfIn, mailboxes
  <1>4. home' \subseteq Msgs /\ left' \subseteq Msgs
    <2>1. left' \subseteq left \cup {call[c].m}
      BY DEF SnoozeFails, Strands
    <2>2. home' \subseteq home
      BY <1>3 DEF mailboxes
    <2>3. QED
      BY <1>1, <2>1, <2>2 DEF Shape, MailTyped, RowTyped
  <1>5. MailTyped'
    <2>1. CASE UNCHANGED mailboxes
      BY <2>1, SameMailboxes DEF Shape
    <2>2. CASE Arrives(call[c].m, 1)
      BY <1>1, <1>3, <1>4, <2>2, ArrivesType DEF Shape
    <2>3. QED
      BY <1>2, <2>1, <2>2
  <1>6. bound' = bound \/ Spend("accidents")
    BY Zenon DEF SnoozeFails
  <1>7. BoundTyped' /\ bound'.snoozes <= bound.snoozes
    <2>1. CASE bound' = bound
      BY <2>1 DEF Shape, BoundTyped, BoundType
    <2>2. CASE Spend("accidents")
      BY <2>2, Spends DEF Shape
    <2>3. QED
      BY <1>6, <2>1, <2>2
  <1>8. Ends(c) /\ UNCHANGED <<row, open, loop, nudged, now>>
    BY Zenon DEF SnoozeFails
  <1>9. CallTyped' /\ call'[c] = Idle /\ \A d \in Calls : d # c => call'[d] = call[d]
    BY <1>8, CallEnds DEF Shape
  <1>10. Shape'
    BY <1>4, <1>5, <1>7, <1>8, <1>9 DEF Shape, RowTyped, LoopTyped
  <1>11. UidsLast'
    <2>1. Moving' \subseteq Moving \ {c}
      BY <1>9, IdleCall DEF Moving, At
    <2>2. IsFiniteSet(Moving \ {c}) /\ Cardinality(Moving \ {c}) = Cardinality(Moving) - 1
      BY <1>0, MovingIsFinite, FS_RemoveElement, Zenon
    <2>3. Cardinality(Moving') <= Cardinality(Moving) - 1 /\ Cardinality(Moving') \in Nat
      BY <2>1, <2>2, MovingIsFinite, FS_Subset, FS_CardinalityType
    <2>4. last \in Nat /\ bound.snoozes \in Nat /\ bound'.snoozes \in Nat /\ MaxSnoozes \in Nat
      BY <1>7, SnoozeAssumption
         DEF Shape, MailTyped, BoundTyped, BoundType, SnoozeAssumption
    <2>5. last + 2 * (bound.snoozes + Cardinality(Moving)) <= 2 * MaxSnoozes
      BY DEF UidsLast
    <2>6. last' = last \/ last' = last + 1
      BY <1>2 DEF Arrives, mailboxes
    <2>7. last' + 2 * (bound'.snoozes + Cardinality(Moving')) <= 2 * MaxSnoozes
      BY <1>7, <2>3, <2>4, <2>5, <2>6, MovingIsFinite
    <2>8. QED
      BY <2>7 DEF UidsLast
  <1>12. QED
    BY <1>1, <1>2, <1>3, <1>10, <1>11

LEMMA SnoozeCommitType ==
  ASSUME Shape, UidsLast, NEW c \in Calls, SnoozeCommit(c)
  PROVE  /\ Shape' /\ UidsLast'
         /\ call[c].m \in Msgs /\ call[c].uid \in Uids
         /\ call'[c] = Idle \/ (call'[c].op = "snooze" /\ call'[c].pc = "nudge"
                                /\ call'[c].m = call[c].m)
         /\ \A d \in Calls : d # c => call'[d] = call[d]
  <1>1. call[c] \in [op : {"snooze"}, pc : {"commit", "nudge"}, m : Msgs, at : Hours, uid : Uids]
    BY CallFacts DEF SnoozeCommit, Shape, CallTyped
  <1>2. UNCHANGED <<server, home, there, last, open, loop, nudged, now, bound>>
    BY DEF SnoozeCommit, mailboxes
  <1>3. \E v \in {Idle, [call[c] EXCEPT !.pc = "nudge"]} : Set(c, v)
    BY Zenon DEF SnoozeCommit, Ends
  <1>4. /\ [call[c] EXCEPT !.pc = "nudge"] \in Call
        /\ [call[c] EXCEPT !.pc = "nudge"].op = "snooze"
        /\ [call[c] EXCEPT !.pc = "nudge"].pc = "nudge"
        /\ [call[c] EXCEPT !.pc = "nudge"].m = call[c].m
    BY <1>1 DEF Call
  <1>5. PICK v \in Call : /\ Set(c, v) /\ (v = Idle \/ v = [call[c] EXCEPT !.pc = "nudge"])
                          /\ v.op # "snooze" \/ v.pc # "move"
    BY <1>3, <1>4, IdleCall
  <1>6. CallTyped' /\ UidsLast'
    BY <1>2, <1>5, CallGoes DEF Shape, BoundTyped, BoundType
  <1>7. call'[c] = v /\ \A d \in Calls : d # c => call'[d] = call[d]
    BY <1>5, CallMoves DEF Shape
  <1>8. RowTyped'
    <2>1. left' \subseteq left \cup {call[c].m}
      BY DEF SnoozeCommit
    <2>2. CASE Moves /\ open
      <3>1. row' = [row EXCEPT ![call[c].m] = [at |-> call[c].at, uid |-> call[c].uid,
                                               told |-> Tells]]
        BY <2>2, Zenon DEF SnoozeCommit
      <3>2. Tells \in BOOLEAN
        BY DEF Shape, MailTyped, Tells
      <3>3. [at |-> call[c].at, uid |-> call[c].uid, told |-> Tells] \in Row
        BY <1>1, <3>2 DEF Row
      <3>4. row' \in [Msgs -> Row \cup {NoRow}]
        BY <3>1, <3>3 DEF Shape, RowTyped
      <3>5. QED
        BY <1>1, <1>2, <2>1, <3>4 DEF Shape, RowTyped
    <2>3. CASE ~(Moves /\ open)
      <3>1. row' = row
        BY <2>3, Zenon DEF SnoozeCommit
      <3>2. QED
        BY <1>1, <1>2, <2>1, <3>1 DEF Shape, RowTyped
    <2>4. QED
      BY <2>2, <2>3
  <1>9. Shape'
    BY <1>2, <1>6, <1>8 DEF Shape, MailTyped, LoopTyped, BoundTyped
  <1>10. QED
    BY <1>1, <1>4, <1>5, <1>6, <1>7, <1>9

LEMMA NudgeType ==
  ASSUME Shape, UidsLast, NEW c \in Calls, Nudge(c)
  PROVE  /\ Shape' /\ UidsLast' /\ call'[c] = Idle
         /\ \A d \in Calls : d # c => call'[d] = call[d]
  <1>1. UNCHANGED <<server, home, there, last, row, open, loop, now, left, bound>> /\ nudged' = TRUE
    BY DEF Nudge, mailboxes
  <1>2. Ends(c) /\ Set(c, Idle)
    BY DEF Nudge, Ends
  <1>3. CallTyped' /\ UidsLast'
    BY <1>1, <1>2, IdleCall, CallGoes DEF Shape, BoundTyped, BoundType
  <1>4. Shape'
    BY <1>1, <1>3 DEF Shape, MailTyped, RowTyped, LoopTyped, BoundTyped
  <1>5. QED
    BY <1>2, <1>3, <1>4, CallEnds DEF Shape

LEMMA CancelSnoozeType ==
  ASSUME Shape, UidsLast, NEW c \in Calls, CancelSnooze(c)
  PROVE  /\ Shape' /\ UidsLast'
         /\ UNCHANGED <<mailboxes, row, open, loop, nudged, now, left>>
         /\ call[c] = Idle
         /\ call'[c].op = "cancel" /\ call'[c].pc = "return" /\ call'[c].m \in Msgs
         /\ call'[c].row = row[call'[c].m] /\ row[call'[c].m] \in Row
         /\ \A d \in Calls : d # c => call'[d] = call[d]
  <1>1. PICK m \in Msgs :
          /\ call[c] = Idle /\ row[m] # NoRow /\ Spend("cancels")
          /\ Set(c, [op |-> "cancel", pc |-> "return", m |-> m, row |-> row[m]])
          /\ UNCHANGED <<mailboxes, row, open, loop, nudged, now, left>>
    BY Zenon DEF CancelSnooze
  <1>2. row[m] \in Row
    BY <1>1 DEF Shape, RowTyped
  <1> DEFINE v == [op |-> "cancel", pc |-> "return", m |-> m, row |-> row[m]]
  <1>3. v \in Call
    BY <1>2 DEF Call
  <1>4. v.op = "cancel" /\ v.pc = "return" /\ v.m = m /\ v.row = row[m]
    OBVIOUS
  <1> HIDE DEF v
  <1>5. Set(c, v)
    BY <1>1 DEF v
  <1>6. call'[c] = v /\ \A d \in Calls : d # c => call'[d] = call[d]
    BY <1>3, <1>5, CallMoves DEF Shape
  <1>7. BoundTyped' /\ bound'.snoozes <= bound.snoozes
    BY <1>1, Spends DEF Shape
  <1>8. UNCHANGED <<server, home, there, last, row, open, loop, nudged, now, left>>
    BY <1>1 DEF mailboxes
  <1>9. CallTyped' /\ UidsLast'
    BY <1>3, <1>4, <1>5, <1>7, <1>8, CallGoes
  <1>10. Shape'
    BY <1>7, <1>8, <1>9 DEF Shape, MailTyped, RowTyped, LoopTyped
  <1>11. QED
    BY <1>1, <1>2, <1>4, <1>6, <1>9, <1>10

LEMMA CancelReturnsType ==
  ASSUME Shape, UidsLast, NEW c \in Calls, CancelReturns(c)
  PROVE  /\ Shape' /\ UidsLast' /\ Shrinks
         /\ call[c].op = "cancel" /\ call[c].m \in Msgs /\ call[c].row \in Row
         /\ \A d \in Calls : d # c => call'[d] = call[d]
         /\ \/ call'[c] = Idle
            \/ /\ Returns(call[c].m, call[c].row)
               /\ call'[c].op = "cancel" /\ call'[c].pc = "delete"
               /\ call'[c].m = call[c].m /\ call'[c].row = call[c].row
  <1>1. call[c].op = "cancel"
    BY DEF CancelReturns, At
  <1>2. call[c] \in [op : {"cancel"}, pc : {"return", "delete"}, m : Msgs, row : Row]
    BY <1>1, CallFacts DEF Shape, CallTyped
  <1>3. UNCHANGED <<row, open, loop, nudged, now>> /\ left' \subseteq left
    BY DEF CancelReturns, Strands
  <1>4. /\ [call[c] EXCEPT !.pc = "delete"] \in Call
        /\ [call[c] EXCEPT !.pc = "delete"].op = "cancel"
        /\ [call[c] EXCEPT !.pc = "delete"].pc = "delete"
        /\ [call[c] EXCEPT !.pc = "delete"].m = call[c].m
        /\ [call[c] EXCEPT !.pc = "delete"].row = call[c].row
    BY <1>2 DEF Call
  <1>5. \/ /\ Returns(call[c].m, call[c].row) /\ UNCHANGED bound
           /\ Set(c, [call[c] EXCEPT !.pc = "delete"])
        \/ ReturnFails(call[c].m, call[c].row) /\ Set(c, Idle)
    BY Zenon DEF CancelReturns, Ends
  <1>6. MailTyped' /\ Shrinks /\ BoundTyped' /\ bound'.snoozes <= bound.snoozes
    <2>1. CASE Returns(call[c].m, call[c].row) /\ UNCHANGED bound
      BY <1>2, <2>1, ReturnsType DEF Shape, BoundTyped, BoundType
    <2>2. CASE ReturnFails(call[c].m, call[c].row)
      BY <1>2, <2>2, ReturnFailsType DEF Shape
    <2>3. QED
      BY <1>5, <2>1, <2>2
  <1>7. last' = last
    BY <1>6 DEF Shrinks
  <1>8. CallTyped' /\ UidsLast'
    BY <1>4, <1>5, <1>6, <1>7, CallGoes, IdleCall
  <1>9. Shape'
    BY <1>3, <1>6, <1>8 DEF Shape, RowTyped, LoopTyped
  <1>10. QED
    BY <1>1, <1>2, <1>4, <1>5, <1>6, <1>8, <1>9, CallMoves, IdleCall DEF Shape

LEMMA DeleteRowType ==
  ASSUME RowTyped, NEW m \in Msgs, NEW r, DeleteRow(m, r), UNCHANGED <<open, nudged>>
  PROVE  /\ RowTyped' /\ left \subseteq left'
         /\ row'[m] = row[m] \/ row'[m] = NoRow
         /\ \A k \in Msgs : k # m => row'[k] = row[k] /\ (k \in left' => k \in left)
  <1>1. /\ row' = IF open THEN [row EXCEPT ![m] = NoRow] ELSE row
        /\ left' = left \/ left' = left \cup {m}
    BY DEF DeleteRow
  <1>2. QED
    BY <1>1 DEF RowTyped

LEMMA CancelDeletesType ==
  ASSUME Shape, UidsLast, NEW c \in Calls, CancelDeletes(c)
  PROVE  /\ Shape' /\ UidsLast' /\ call'[c] = Idle
         /\ call[c].op = "cancel" /\ call[c].m \in Msgs /\ call[c].row \in Row
         /\ \A d \in Calls : d # c => call'[d] = call[d]
  <1>1. call[c].op = "cancel" /\ Set(c, Idle) /\ DeleteRow(call[c].m, call[c].row)
        /\ UNCHANGED <<mailboxes, open, loop, nudged, now, bound>>
    BY DEF CancelDeletes, At, Ends
  <1>2. call[c].m \in Msgs /\ call[c].row \in Row
    BY <1>1, CallFacts DEF Shape, CallTyped
  <1>3. UNCHANGED <<server, home, there, last, open, loop, nudged, now, bound>>
    BY <1>1 DEF mailboxes
  <1>4. CallTyped' /\ UidsLast'
    BY <1>1, <1>3, CallGoes, IdleCall DEF Shape, BoundTyped, BoundType
  <1>5. RowTyped'
    BY <1>1, <1>2, <1>3, DeleteRowType DEF Shape
  <1>6. Shape'
    BY <1>3, <1>4, <1>5 DEF Shape, MailTyped, LoopTyped, BoundTyped
  <1>7. QED
    BY <1>1, <1>2, <1>4, <1>6, CallMoves, IdleCall DEF Shape

\* The steps that leave the calls as they were.
LEMMA SameCalls ==
  ASSUME Shape, UidsLast, UNCHANGED call, last' = last, BoundTyped',
         bound'.snoozes <= bound.snoozes
  PROVE  CallTyped' /\ UidsLast'
  <1>1. Moving' = Moving
    BY DEF Moving, At
  <1>2. bound'.snoozes \in Nat
    BY DEF BoundTyped, BoundType
  <1>3. QED
    BY <1>1, <1>2, RoomStays DEF Shape, CallTyped

LEMMA BatchIsCopy ==
  ASSUME RowTyped, NEW todo \in IF open THEN Batches ELSE {<<>>}
  PROVE  todo \in Todos /\ \A m \in DOMAIN todo : m \in Msgs /\ todo[m] = row[m]
  <1>1. CASE todo = <<>>
    BY <1>1, TodoFacts
  <1>2. CASE todo \in Batches
    <2>1. PICK S \in SUBSET Due : todo = [m \in S |-> row[m]]
      BY <1>2, Zenon DEF Batches
    <2>2. S \in SUBSET Msgs /\ \A m \in S : row[m] \in Row
      BY <2>1 DEF Due, RowTyped
    <2>3. todo \in [S -> Row] /\ \A m \in S : todo[m] = row[m]
      BY <2>1, <2>2
    <2>4. todo \in Todos /\ DOMAIN todo = S
      BY <2>2, <2>3, TodoFacts
    <2>5. QED
      BY <2>2, <2>3, <2>4
  <1>3. QED
    BY <1>1, <1>2

LEMMA LoopWakesType ==
  ASSUME Shape, UidsLast, LoopWakes
  PROVE  /\ Shape' /\ UidsLast' /\ loop'.pc = "pass"
         /\ \A m \in DOMAIN loop'.todo : m \in Msgs /\ loop'.todo[m] = row[m]
  <1>1. UNCHANGED <<server, home, there, last, row, open, call, now, left, bound>>
    BY DEF LoopWakes, mailboxes
  <1>2. nudged' \in BOOLEAN
    BY DEF LoopWakes, Shape, RowTyped
  <1>3. PICK todo \in IF open THEN Batches ELSE {<<>>} :
          loop' = [loop EXCEPT !.pc = "pass", !.started = now, !.todo = todo]
    BY Zenon DEF LoopWakes
  <1>4. todo \in Todos /\ \A m \in DOMAIN todo : m \in Msgs /\ todo[m] = row[m]
    BY <1>3, BatchIsCopy DEF Shape
  <1>5. loop' \in LoopType /\ loop'.pc = "pass" /\ loop'.started = now /\ loop'.todo = todo
    BY <1>3, <1>4 DEF Shape, LoopTyped, LoopType
  <1>6. LoopTyped'
    BY <1>1, <1>5, RowFacts DEF Shape, LoopTyped
  <1>7. CallTyped' /\ UidsLast'
    BY <1>1, SameCalls DEF Shape, BoundTyped, BoundType
  <1>8. Shape'
    BY <1>1, <1>2, <1>6, <1>7 DEF Shape, MailTyped, RowTyped, BoundTyped
  <1>9. QED
    BY <1>4, <1>5, <1>7, <1>8

LEMMA LoopReturnsType ==
  ASSUME Shape, UidsLast, LoopReturns
  PROVE  /\ Shape' /\ UidsLast' /\ Shrinks
         /\ Turn \in DOMAIN loop.todo /\ Turn \in Msgs /\ loop.todo[Turn] \in Row
         /\ \/ Returns(Turn, loop.todo[Turn]) /\ loop'.pc = "delete" /\ loop'.todo = loop.todo
            \/ /\ loop'.pc = "pass"
               /\ DOMAIN loop'.todo = (DOMAIN loop.todo) \ {Turn}
               /\ \A m \in DOMAIN loop'.todo : loop'.todo[m] = loop.todo[m]
  <1>1. UNCHANGED <<row, open, call, nudged, now>> /\ left' \subseteq left
    BY DEF LoopReturns, Strands
  <1>2. loop \in LoopType /\ DOMAIN loop.todo # {} /\ loop.pc = "pass"
    BY DEF LoopReturns, Shape, LoopTyped
  <1>3. Turn \in DOMAIN loop.todo /\ Turn \in Msgs /\ loop.todo[Turn] \in Row
    BY <1>2, TurnIsNext
  <1>4. \/ /\ Returns(Turn, loop.todo[Turn]) /\ UNCHANGED bound
           /\ loop' = [loop EXCEPT !.pc = "delete"]
        \/ ReturnFails(Turn, loop.todo[Turn]) /\ loop' = [loop EXCEPT !.todo = Rest(loop.todo)]
    BY Zenon DEF LoopReturns
  <1>5. MailTyped' /\ Shrinks /\ BoundTyped' /\ bound'.snoozes <= bound.snoozes
    <2>1. CASE Returns(Turn, loop.todo[Turn]) /\ UNCHANGED bound
      BY <1>3, <2>1, ReturnsType DEF Shape, BoundTyped, BoundType
    <2>2. CASE ReturnFails(Turn, loop.todo[Turn])
      BY <1>3, <2>2, ReturnFailsType DEF Shape
    <2>3. QED
      BY <1>4, <2>1, <2>2
  <1>6. /\ Rest(loop.todo) \in Todos /\ DOMAIN Rest(loop.todo) = (DOMAIN loop.todo) \ {Turn}
        /\ \A m \in (DOMAIN loop.todo) \ {Turn} : Rest(loop.todo)[m] = loop.todo[m]
    BY <1>2, RestIsCopy
  <1>7. loop' \in LoopType /\ loop'.started = loop.started
    BY <1>2, <1>4, <1>6 DEF LoopType
  <1>8. \/ Returns(Turn, loop.todo[Turn]) /\ loop'.pc = "delete" /\ loop'.todo = loop.todo
        \/ loop'.pc = "pass" /\ loop'.todo = Rest(loop.todo)
    BY <1>2, <1>4 DEF LoopType
  <1>9. last' = last
    BY <1>5 DEF Shrinks
  <1>10. CallTyped' /\ UidsLast'
    BY <1>1, <1>5, <1>9, SameCalls
  <1>11. Shape'
    BY <1>1, <1>5, <1>7, <1>10 DEF Shape, RowTyped, LoopTyped
  <1>12. QED
    BY <1>3, <1>5, <1>6, <1>8, <1>10, <1>11

LEMMA LoopDeletesType ==
  ASSUME Shape, UidsLast, LoopDeletes, DOMAIN loop.todo # {}
  PROVE  /\ Shape' /\ UidsLast'
         /\ Turn \in DOMAIN loop.todo /\ Turn \in Msgs /\ loop.todo[Turn] \in Row
         /\ loop'.pc = "pass"
         /\ DOMAIN loop'.todo = (DOMAIN loop.todo) \ {Turn}
         /\ \A m \in DOMAIN loop'.todo : loop'.todo[m] = loop.todo[m]
  <1>1. UNCHANGED <<server, home, there, last, open, call, nudged, now, bound>>
    BY DEF LoopDeletes, mailboxes
  <1>2. loop \in LoopType
    BY DEF Shape, LoopTyped
  <1>3. Turn \in DOMAIN loop.todo /\ Turn \in Msgs /\ loop.todo[Turn] \in Row
    BY <1>2, TurnIsNext
  <1>4. /\ DeleteRow(Turn, loop.todo[Turn])
        /\ loop' = [loop EXCEPT !.pc = "pass", !.todo = Rest(loop.todo)]
    BY Zenon DEF LoopDeletes
  <1>5. RowTyped'
    BY <1>1, <1>3, <1>4, DeleteRowType DEF Shape
  <1>6. /\ Rest(loop.todo) \in Todos /\ DOMAIN Rest(loop.todo) = (DOMAIN loop.todo) \ {Turn}
        /\ \A m \in (DOMAIN loop.todo) \ {Turn} : Rest(loop.todo)[m] = loop.todo[m]
    BY <1>2, RestIsCopy
  <1>7. /\ loop' \in LoopType /\ loop'.started = loop.started
        /\ loop'.pc = "pass" /\ loop'.todo = Rest(loop.todo)
    BY <1>2, <1>4, <1>6 DEF LoopType
  <1>8. CallTyped' /\ UidsLast'
    BY <1>1, SameCalls DEF Shape, BoundTyped, BoundType
  <1>9. Shape'
    BY <1>1, <1>5, <1>7, <1>8 DEF Shape, MailTyped, LoopTyped, BoundTyped
  <1>10. QED
    BY <1>3, <1>6, <1>7, <1>8, <1>9

LEMMA LoopSleepsType ==
  ASSUME Shape, UidsLast, LoopSleeps
  PROVE  /\ Shape' /\ UidsLast' /\ DOMAIN loop'.todo = {} /\ loop'.pc = "asleep"
         /\ loop'.sleep = Sleep(loop.started) /\ loop'.saw = open
         /\ loop'.lag = now - loop.started /\ loop.started \in Hours
  <1>1. UNCHANGED <<server, home, there, last, row, open, call, nudged, now, left, bound>>
    BY DEF LoopSleeps, mailboxes
  <1>2. loop \in LoopType /\ loop.started \in Hours /\ DOMAIN loop.todo = {}
        /\ now - loop.started \in Nat
    BY RowFacts DEF LoopSleeps, Shape, LoopTyped, LoopType
  <1>3. Sleep(loop.started) \in 0..MaxSleep
    BY <1>2, SleepType
  <1>4. loop' = [loop EXCEPT !.pc = "asleep", !.sleep = Sleep(loop.started), !.saw = open,
                             !.lag = now - loop.started]
    BY Zenon DEF LoopSleeps
  <1>5. /\ loop' \in LoopType /\ loop'.started = loop.started /\ loop'.todo = loop.todo
        /\ loop'.pc = "asleep" /\ loop'.sleep = Sleep(loop.started) /\ loop'.saw = open
        /\ loop'.lag = now - loop.started
    BY <1>2, <1>3, <1>4 DEF LoopType, Shape, RowTyped
  <1>6. CallTyped' /\ UidsLast'
    BY <1>1, SameCalls DEF Shape, BoundTyped, BoundType
  <1>7. Shape'
    BY <1>1, <1>5, <1>6 DEF Shape, MailTyped, RowTyped, LoopTyped, BoundTyped
  <1>8. QED
    BY <1>2, <1>5, <1>6, <1>7

LEMMA TickType ==
  ASSUME Shape, UidsLast, Tick
  PROVE  /\ Shape' /\ UidsLast' /\ loop'.todo = loop.todo /\ loop'.pc = loop.pc
         /\ loop'.saw = loop.saw /\ loop'.lag = loop.lag
         /\ loop'.sleep = IF loop.pc = "asleep" /\ loop.sleep > 0 THEN loop.sleep - 1
                          ELSE loop.sleep
         /\ now' = IF now < MaxTime THEN now + 1 ELSE MaxTime
  <1>1. UNCHANGED <<server, home, there, last, row, open, call, nudged, left, bound>>
    BY DEF Tick, mailboxes
  <1>2. loop' = [loop EXCEPT !.sleep = IF loop.pc = "asleep" /\ loop.sleep > 0
                                       THEN loop.sleep - 1 ELSE loop.sleep]
    BY Zenon DEF Tick
  <1>3. now \in 0..MaxTime /\ MaxTime \in Nat /\ MaxSleep \in Nat
    BY SnoozeAssumption DEF SnoozeAssumption, Shape, LoopTyped, Hours
  <1>4. now' \in {now + 1, MaxTime} /\ now' <= now + 1 /\ now' <= MaxTime
    <2>1. now + 1 \in Nat
      BY <1>3
    <2>2. now' = Least({now + 1, MaxTime})
      BY Zenon DEF Tick
    <2>3. QED
      BY <1>3, <2>1, <2>2, LeastOfTwo, Zenon
  <1>5. now' = IF now < MaxTime THEN now + 1 ELSE MaxTime
    BY <1>3, <1>4
  <1>6. /\ loop' \in LoopType /\ loop'.started = loop.started /\ loop'.todo = loop.todo
        /\ loop'.pc = loop.pc /\ loop'.saw = loop.saw /\ loop'.lag = loop.lag
        /\ loop'.sleep = IF loop.pc = "asleep" /\ loop.sleep > 0 THEN loop.sleep - 1
                         ELSE loop.sleep
    BY <1>2, <1>3 DEF LoopType, Shape, LoopTyped
  <1>7. LoopTyped'
    BY <1>3, <1>5, <1>6 DEF Shape, LoopTyped, LoopType, Hours
  <1>8. CallTyped' /\ UidsLast'
    BY <1>1, SameCalls DEF Shape, BoundTyped, BoundType
  <1>9. Shape'
    BY <1>1, <1>7, <1>8 DEF Shape, MailTyped, RowTyped, BoundTyped
  <1>10. QED
    BY <1>5, <1>6, <1>8, <1>9

LEMMA StoreType ==
  ASSUME Shape, UidsLast, StoreCloses \/ StoreOpens
  PROVE  Shape' /\ UidsLast' /\ UNCHANGED <<mailboxes, row, call, loop, nudged, now, left>>
  <1>1. UNCHANGED <<mailboxes, row, call, loop, nudged, now, left>> /\ open' \in BOOLEAN
    BY DEF StoreCloses, StoreOpens
  <1>2. bound' = bound \/ Spend("accidents")
    BY DEF StoreCloses, StoreOpens
  <1>3. BoundTyped' /\ bound'.snoozes <= bound.snoozes
    <2>1. CASE bound' = bound
      BY <2>1 DEF Shape, BoundTyped, BoundType
    <2>2. CASE Spend("accidents")
      BY <2>2, Spends DEF Shape
    <2>3. QED
      BY <1>2, <2>1, <2>2
  <1>4. UNCHANGED <<server, home, there, last>>
    BY <1>1 DEF mailboxes
  <1>5. CallTyped' /\ UidsLast'
    BY <1>1, <1>3, <1>4, SameCalls
  <1>6. Shape'
    BY <1>1, <1>3, <1>4, <1>5 DEF Shape, MailTyped, RowTyped, LoopTyped
  <1>7. QED
    BY <1>1, <1>5, <1>6

LEMMA TakenOutType ==
  ASSUME Shape, UidsLast, NEW m \in Msgs, TakenOut(m)
  PROVE  Shape' /\ UidsLast' /\ Shrinks
  <1>1. UNCHANGED <<server, last, row, open, call, loop, nudged, now>> /\ left' \subseteq left
    BY DEF TakenOut, Strands
  <1>2. there' = [there EXCEPT ![m] = {}] /\ home' = home \cup {m} /\ Spend("accidents")
    BY DEF TakenOut
  <1>3. MailTyped' /\ Shrinks
    BY <1>1, <1>2 DEF Shape, MailTyped, Shrinks
  <1>4. BoundTyped' /\ bound'.snoozes <= bound.snoozes
    BY <1>2, Spends DEF Shape
  <1>5. CallTyped' /\ UidsLast'
    BY <1>1, <1>4, SameCalls
  <1>6. Shape'
    BY <1>1, <1>3, <1>4, <1>5 DEF Shape, RowTyped, LoopTyped
  <1>7. QED
    BY <1>3, <1>5, <1>6

LEMMA CrashType ==
  ASSUME Shape, UidsLast, Crash
  PROVE  /\ Shape' /\ UidsLast' /\ \A c \in Calls : call'[c] = Idle
         /\ DOMAIN loop'.todo = {} /\ loop'.pc = "asleep" /\ loop'.saw = FALSE
  <1>1. UNCHANGED <<server, home, there, last, row, open, now>> /\ nudged' = FALSE
    BY DEF Crash, mailboxes
  <1>2. call' = [c \in Calls |-> Idle]
    BY DEF Crash
  <1>3. BoundTyped' /\ bound'.snoozes <= bound.snoozes
    BY Spends DEF Crash, Shape
  <1>4. CallTyped' /\ \A c \in Calls : call'[c] = Idle
    BY <1>2, IdleCall DEF CallTyped
  <1>5. Moving' = {}
    BY <1>4, IdleCall DEF Moving, At
  <1>6. UidsLast'
    BY <1>1, <1>3, <1>5, RoomStays DEF BoundTyped, BoundType
  <1>7. left' \subseteq Msgs
    <2>1. \A c \in Calls : At(c, "snooze", "commit") => call[c].m \in Msgs
      BY CallFacts DEF Shape, CallTyped
    <2>2. left' \subseteq left \cup {call[c].m : c \in {c \in Calls : At(c, "snooze", "commit")}}
      BY DEF Crash
    <2>3. QED
      BY <2>1, <2>2 DEF Shape, RowTyped
  <1>8. PICK none \in Todos :
          /\ DOMAIN none = {}
          /\ loop' = [loop EXCEPT !.pc = "asleep", !.sleep = 0, !.lag = 0, !.saw = FALSE,
                                  !.todo = none]
    BY TodoFacts, Zenon DEF Crash
  <1>9. /\ loop' \in LoopType /\ loop'.started = loop.started /\ DOMAIN loop'.todo = {}
        /\ loop'.pc = "asleep" /\ loop'.saw = FALSE
    <2>1. loop \in LoopType /\ 0 \in 0..MaxSleep /\ 0 \in Nat /\ FALSE \in BOOLEAN
      BY SnoozeAssumption DEF Shape, LoopTyped, SnoozeAssumption
    <2>2. PICK no \in BOOLEAN : no = FALSE
      BY <2>1
    <2>3. loop' = [loop EXCEPT !.pc = "asleep", !.sleep = 0, !.lag = 0, !.saw = no,
                               !.todo = none]
      BY <1>8, <2>2, Zenon
    <2>4. /\ loop' \in LoopType /\ loop'.started = loop.started /\ loop'.todo = none
          /\ loop'.pc = "asleep" /\ loop'.saw = no
      BY <2>1, <2>3 DEF LoopType
    <2>5. QED
      BY <1>8, <2>2, <2>4, Zenon
  <1>10. Shape'
    BY <1>1, <1>3, <1>4, <1>7, <1>9 DEF Shape, MailTyped, RowTyped, LoopTyped
  <1>11. QED
    BY <1>4, <1>6, <1>9, <1>10
-----------------------------------------------------------------------------
(* The invariant.                                                          *)

Plain(m) == \A u, v \in there[m] : u = v
Safe(m) == m \in left \/ Writing(m)

\* What was read of a row and may still be acted on.
CallHolds(m, r) == \E c \in Calls : call[c].op = "cancel" /\ call[c].m = m /\ call[c].row = r
LoopHolds(m, r) == m \in DOMAIN loop.todo /\ loop.todo[m] = r
Held(m, r) == row[m] = r \/ CallHolds(m, r) \/ LoopHolds(m, r)

\* The ones whose return was answered, and whose row is about to go.
CallAnswers(m, r) == \E c \in Calls : At(c, "cancel", "delete") /\ call[c].m = m /\ call[c].row = r
LoopAnswers(m, r) == loop.pc = "delete" /\ m = Turn /\ loop.todo[Turn] = r
Answering(m, r) == CallAnswers(m, r) \/ LoopAnswers(m, r)

\* A row is only written by a server that takes the old copy away, with the UID
\* that COPYUID said if it says it.
HeldInv == \A m \in Msgs, r \in Row : Held(m, r) => Moves /\ r.uid <= last /\ r.told = Tells

\* The UID a call is about to write is in no row yet, and no other call has it.
Writes(c, m, u) == At(c, "snooze", "commit") /\ call[c].m = m /\ call[c].uid = u
FreshInv ==
  \A c \in Calls, m \in Msgs, u \in Uids : Writes(c, m, u) =>
    /\ u <= last
    /\ \A r \in Row : Held(m, r) => r.uid # u
    /\ \A d \in Calls, n \in Msgs : Writes(d, n, u) => d = c

\* The row that was answered goes when its message is out, or was left before.
Answered(m, r) == row[m] = r => there[m] = {} \/ Safe(m)
AnsweredInv ==
  /\ \A m \in Msgs, r \in Row : Answering(m, r) => Answered(m, r)
  /\ loop.pc = "delete" => DOMAIN loop.todo # {}

\* Where a message is, how many copies, which row brings it back and by which UID.
Placed(m) == m \in home \/ there[m] # {}
Single(m) == m \in left \/ Plain(m)
Rowed(m) == there[m] # {} => row[m] # NoRow \/ Safe(m)
Named(m) == row[m] # NoRow /\ row[m].told => Safe(m) \/ there[m] \subseteq {row[m].uid}
MsgInv == \A m \in Msgs : Placed(m) /\ Single(m) /\ Rowed(m) /\ Named(m)

IInv == Shape /\ UidsLast /\ HeldInv /\ FreshInv /\ AnsweredInv /\ MsgInv

\* No call starts or ends the writing of a row.
SameWrites ==
  \A d \in Calls : \/ call'[d] = call[d]
                   \/ ~At(d, "snooze", "commit") /\ ~At(d, "snooze", "commit")'
NoNewHeld == \A m \in Msgs, r \in Row : Held(m, r)' => Held(m, r)

LEMMA SameWritesWrites ==
  ASSUME SameWrites, NEW m \in Msgs
  PROVE  Writing(m)' <=> Writing(m)
  BY DEF SameWrites, Writing, At

LEMMA OneCallWrites ==
  ASSUME NEW c \in Calls, \A d \in Calls : d # c => call'[d] = call[d],
         call[c].op # "snooze" \/ call[c].pc # "commit",
         call'[c].op # "snooze" \/ call'[c].pc # "commit"
  PROVE  SameWrites
  BY DEF SameWrites, At

LEMMA HeldStays ==
  ASSUME HeldInv, NoNewHeld, UNCHANGED server, last \in Nat, last' \in Nat, last <= last'
  PROVE  HeldInv'
  <1> SUFFICES ASSUME NEW m \in Msgs, NEW r \in Row, Held(m, r)'
               PROVE  (Moves /\ r.uid <= last /\ r.told = Tells)'
    BY DEF HeldInv
  <1>1. Held(m, r)
    BY DEF NoNewHeld
  <1>2. Moves /\ r.uid <= last /\ r.told = Tells
    BY <1>1, Zenon DEF HeldInv
  <1>3. Moves' = Moves /\ Tells' = Tells
    BY DEF Moves, Tells
  <1>4. r.uid <= last'
    BY <1>2, RowFacts DEF Uids
  <1>5. QED
    BY <1>2, <1>3, <1>4, Zenon

LEMMA FreshStays ==
  ASSUME FreshInv, NoNewHeld, SameWrites, last \in Nat, last' \in Nat, last <= last'
  PROVE  FreshInv'
  <1>1. \A c \in Calls, m \in Msgs, u \in Uids : Writes(c, m, u)' => Writes(c, m, u)
    BY DEF SameWrites, At, Writes
  <1>2. \A u \in Uids : u <= last => u <= last'
    BY DEF Uids
  <1>3. QED
    BY <1>1, <1>2, Zenon DEF FreshInv, NoNewHeld

LEMMA SafeStays ==
  ASSUME SameWrites, left \subseteq left', NEW m \in Msgs, Safe(m)
  PROVE  Safe(m)'
  BY SameWritesWrites, Zenon DEF Safe

LEMMA SafeStrands ==
  ASSUME SameWrites, NEW S, Strands(S), NEW m \in Msgs, Safe(m)
  PROVE  Safe(m)' \/ there'[m] = {}
  <1>1. m \in left => m \in left' \/ there'[m] = {}
    BY DEF Strands
  <1>2. QED
    BY <1>1, SameWritesWrites, Zenon DEF Safe

\* What a return does to the messages.
LEMMA ShrinksMsgInv ==
  ASSUME MsgInv, Shrinks, SameWrites, Strands({}), UNCHANGED row
  PROVE  MsgInv'
  <1> SUFFICES ASSUME NEW m \in Msgs
               PROVE  (Placed(m) /\ Single(m) /\ Rowed(m) /\ Named(m))'
    BY Zenon DEF MsgInv
  <1>1. Placed(m) /\ Single(m) /\ Rowed(m) /\ Named(m)
    BY Zenon DEF MsgInv
  <1>2. /\ there'[m] \subseteq there[m] /\ (there[m] # {} /\ there'[m] = {} => m \in home')
        /\ home \subseteq home'
    BY DEF Shrinks
  <1>3. Safe(m) => Safe(m)' \/ there'[m] = {}
    BY SafeStrands
  <1>4. m \in left => m \in left' \/ there'[m] = {}
    BY DEF Strands
  <1>5. Placed(m)'
    BY <1>1, <1>2 DEF Placed
  <1>6. Single(m)'
    BY <1>1, <1>2, <1>4 DEF Single, Plain
  <1>7. Rowed(m)'
    BY <1>1, <1>2, <1>3, Zenon DEF Rowed
  <1>8. Named(m)'
    BY <1>1, <1>2, <1>3 DEF Named
  <1>9. QED
    BY <1>5, <1>6, <1>7, <1>8

LEMMA ShrinksAnswered ==
  ASSUME Shrinks, SameWrites, Strands({}), UNCHANGED row,
         NEW m \in Msgs, NEW r \in Row, Answered(m, r)
  PROVE  Answered(m, r)'
  <1>1. there'[m] \subseteq there[m]
    BY DEF Shrinks
  <1>2. Safe(m) => Safe(m)' \/ there'[m] = {}
    BY SafeStrands
  <1>3. QED
    BY <1>1, <1>2 DEF Answered

\* A return that is answered leaves the message out of Pospuestos, when the row
\* that was read is still the message's.
LEMMA ReturnsAnswers ==
  ASSUME Shape, HeldInv, MsgInv, SameWrites, Strands({}), UNCHANGED row,
         NEW m \in Msgs, NEW r \in Row, Held(m, r), Returns(m, r)
  PROVE  Answered(m, r)'
  <1> SUFFICES ASSUME row[m] = r, ~Safe(m)
               PROVE  there'[m] = {}
    <2>1. Safe(m) => Safe(m)' \/ there'[m] = {}
      BY SafeStrands
    <2>2. QED
      BY <2>1 DEF Answered
  <1>1. Moves /\ r.told = Tells
    BY Zenon DEF HeldInv
  <1>2. Plain(m) /\ (r.told => there[m] \subseteq {r.uid})
    <2>1. m \notin left
      BY DEF Safe
    <2>2. row[m] # NoRow
      BY RowFacts
    <2>3. QED
      BY <2>1, <2>2 DEF MsgInv, Single, Named
  <1>3. there[m] \subseteq Nat
    BY DEF Shape, MailTyped
  <1>4. CASE there[m] = {}
    <2>1. UNCHANGED mailboxes \/ Leaves(m, FindUid(m, r))
      BY DEF Returns
    <2>2. MailTyped' /\ Shrinks
      BY <2>1, SameMailboxes, LeavesType, Zenon DEF Shape
    <2>3. QED
      BY <1>4, <2>2 DEF Shrinks
  <1>5. CASE there[m] # {}
    <2>1. PICK u \in there[m] : there[m] = {u}
      BY <1>2, <1>5 DEF Plain
    <2>2. u \in Nat /\ u # NoUid
      BY <2>1 DEF Shape, MailTyped, NoUid
    <2>3. FindUid(m, r) = u
      <3>1. CASE r.told
        BY <1>2, <2>1, <3>1 DEF FindUid
      <3>2. CASE ~r.told
        <4>1. Least(there[m]) = u
          BY <1>3, <1>5, <2>1, LeastNat
        <4>2. QED
          BY <1>5, <3>2, <4>1, Zenon DEF FindUid
      <3>3. QED
        BY <3>1, <3>2
    <2>4. Leaves(m, u)
      BY <2>2, <2>3, Zenon DEF Returns
    <2>5. there'[m] = there[m] \ {u}
      BY <1>1, <2>4, LeavesType DEF Shape
    <2>6. QED
      BY <2>1, <2>5
  <1>6. QED
    BY <1>4, <1>5

\* One call takes a step: what it may newly hold is what it says.
LEMMA OneCallHolds ==
  ASSUME NEW c \in Calls, \A d \in Calls : d # c => call'[d] = call[d],
         NEW m \in Msgs, NEW r \in Row, CallHolds(m, r)'
  PROVE  \/ CallHolds(m, r)
         \/ call'[c].op = "cancel" /\ call'[c].m = m /\ call'[c].row = r
  BY DEF CallHolds

LEMMA OneCallAnswers ==
  ASSUME NEW c \in Calls, \A d \in Calls : d # c => call'[d] = call[d],
         NEW m \in Msgs, NEW r \in Row, CallAnswers(m, r)'
  PROVE  \/ CallAnswers(m, r)
         \/ call'[c].op = "cancel" /\ call'[c].pc = "delete"
            /\ call'[c].m = m /\ call'[c].row = r
  BY DEF CallAnswers, At

LEMMA SameCallHolds ==
  ASSUME UNCHANGED call, NEW m \in Msgs, NEW r \in Row
  PROVE  (CallHolds(m, r)' <=> CallHolds(m, r)) /\ (CallAnswers(m, r)' <=> CallAnswers(m, r))
  BY DEF CallHolds, CallAnswers, At

LEMMA SameLoopHolds ==
  ASSUME loop'.todo = loop.todo, loop'.pc = loop.pc, NEW m \in Msgs, NEW r \in Row
  PROVE  (LoopHolds(m, r)' <=> LoopHolds(m, r)) /\ (LoopAnswers(m, r)' <=> LoopAnswers(m, r))
  <1>1. LoopHolds(m, r)' <=> LoopHolds(m, r)
    BY DEF LoopHolds
  <1>2. Turn' = Turn
    BY DEF Turn
  <1>3. LoopAnswers(m, r)' <=> LoopAnswers(m, r)
    BY <1>2 DEF LoopAnswers
  <1>4. QED
    BY <1>1, <1>3

\* An answered row was held until then.
LEMMA AnsweringIsHeld ==
  ASSUME Shape, AnsweredInv, NEW m \in Msgs, NEW r \in Row, Answering(m, r)
  PROVE  Held(m, r)
  <1>1. CASE CallAnswers(m, r)
    BY <1>1 DEF CallAnswers, At, Held, CallHolds
  <1>2. CASE LoopAnswers(m, r)
    <2>1. loop \in LoopType /\ DOMAIN loop.todo # {}
      BY <1>2 DEF LoopAnswers, AnsweredInv, Shape, LoopTyped
    <2>2. Turn \in DOMAIN loop.todo
      BY <2>1, TurnIsNext
    <2>3. QED
      BY <1>2, <2>2 DEF LoopAnswers, Held, LoopHolds
  <1>3. QED
    BY <1>1, <1>2 DEF Answering

NoNewAnswering == \A m \in Msgs, r \in Row : Answering(m, r)' => Answering(m, r)
LoopHasTurn == loop.pc = "delete" => DOMAIN loop.todo # {}

\* What neither moves a message nor writes a row.
LEMMA QuietKeeps ==
  ASSUME IInv, UNCHANGED <<mailboxes, row, left>>, SameWrites, NoNewHeld, NoNewAnswering,
         LoopHasTurn', Shape', UidsLast'
  PROVE  IInv'
  <1>1. UNCHANGED <<server, home, there, last>> /\ last \in Nat
    BY DEF mailboxes, IInv, Shape, MailTyped
  <1>2. last <= last' /\ last' \in Nat
    BY <1>1
  <1>3. HeldInv' /\ FreshInv'
    BY <1>1, <1>2, HeldStays, FreshStays DEF IInv
  <1>4. \A m \in Msgs : Writing(m)' <=> Writing(m)
    BY SameWritesWrites
  <1>5. \A m \in Msgs, r \in Row : Answered(m, r) => Answered(m, r)'
    BY <1>1, <1>4, Zenon DEF Answered, Safe
  <1>6. AnsweredInv'
    BY <1>5, Zenon DEF IInv, AnsweredInv, NoNewAnswering, LoopHasTurn
  <1>7. MsgInv'
    BY <1>1, <1>4, Zenon DEF IInv, MsgInv, Placed, Single, Rowed, Named, Safe, Plain
  <1>8. QED
    BY <1>3, <1>6, <1>7, Zenon DEF IInv

\* What takes messages out and writes no row.
LEMMA ShrinksKeeps ==
  ASSUME IInv, Shrinks, Strands({}), UNCHANGED row, SameWrites, NoNewHeld,
         \A m \in Msgs, r \in Row : Answering(m, r)' => Answering(m, r) \/ Answered(m, r)',
         LoopHasTurn', Shape', UidsLast'
  PROVE  IInv'
  <1>1. UNCHANGED <<server, last>> /\ last \in Nat
    BY DEF Shrinks, IInv, Shape, MailTyped
  <1>2. last <= last' /\ last' \in Nat
    BY <1>1
  <1>3. HeldInv' /\ FreshInv'
    BY <1>1, <1>2, HeldStays, FreshStays DEF IInv
  <1>4. \A m \in Msgs, r \in Row : Answered(m, r) => Answered(m, r)'
    BY ShrinksAnswered
  <1>5. AnsweredInv'
    BY <1>4, Zenon DEF IInv, AnsweredInv, LoopHasTurn
  <1>6. MsgInv'
    BY ShrinksMsgInv DEF IInv
  <1>7. QED
    BY <1>3, <1>5, <1>6, Zenon DEF IInv
-----------------------------------------------------------------------------
(* The steps keep the invariant.                                           *)

LEMMA SnoozeMessageStep ==
  ASSUME IInv, NEW c \in Calls, SnoozeMessage(c)
  PROVE  IInv'
  <1>1. Shape' /\ UidsLast'
    BY SnoozeMessageType DEF IInv
  <1>2. PICK m \in Msgs, at \in Hours :
          /\ call[c] = Idle
          /\ Set(c, [op |-> "snooze", pc |-> "move", m |-> m, at |-> at])
          /\ UNCHANGED <<mailboxes, row, loop, left>>
    BY Zenon DEF SnoozeMessage
  <1> DEFINE v == [op |-> "snooze", pc |-> "move", m |-> m, at |-> at]
  <1>3. v \in Call /\ v.op = "snooze" /\ v.pc = "move"
    BY DEF Call
  <1> HIDE DEF v
  <1>4. Set(c, v)
    BY <1>2 DEF v
  <1>5. call'[c] = v /\ \A d \in Calls : d # c => call'[d] = call[d]
    BY <1>3, <1>4, CallMoves DEF IInv, Shape
  <1>6. SameWrites
    BY <1>2, <1>3, <1>5, OneCallWrites, IdleCall
  <1>7. /\ \A k \in Msgs, r \in Row : CallHolds(k, r)' => CallHolds(k, r)
        /\ \A k \in Msgs, r \in Row : CallAnswers(k, r)' => CallAnswers(k, r)
    BY <1>3, <1>5, OneCallHolds, OneCallAnswers
  <1>8. NoNewHeld /\ NoNewAnswering
    BY <1>2, <1>7, SameLoopHolds DEF NoNewHeld, NoNewAnswering, Held, Answering
  <1>9. LoopHasTurn'
    BY <1>2 DEF IInv, AnsweredInv, LoopHasTurn
  <1>10. UNCHANGED <<mailboxes, row, left>>
    BY <1>2
  <1>11. QED
    BY <1>1, <1>6, <1>8, <1>9, <1>10, QuietKeeps

LEMMA NudgeStep ==
  ASSUME IInv, NEW c \in Calls, Nudge(c)
  PROVE  IInv'
  <1>1. Shape' /\ UidsLast' /\ call'[c] = Idle /\ \A d \in Calls : d # c => call'[d] = call[d]
    BY NudgeType DEF IInv
  <1>2. UNCHANGED <<mailboxes, row, loop, left>> /\ call[c].pc = "nudge"
    BY DEF Nudge, At
  <1>3. SameWrites
    BY <1>1, <1>2, OneCallWrites, IdleCall
  <1>4. /\ \A k \in Msgs, r \in Row : CallHolds(k, r)' => CallHolds(k, r)
        /\ \A k \in Msgs, r \in Row : CallAnswers(k, r)' => CallAnswers(k, r)
    BY <1>1, OneCallHolds, OneCallAnswers, IdleCall
  <1>5. NoNewHeld /\ NoNewAnswering
    BY <1>2, <1>4, SameLoopHolds DEF NoNewHeld, NoNewAnswering, Held, Answering
  <1>6. LoopHasTurn'
    BY <1>2 DEF IInv, AnsweredInv, LoopHasTurn
  <1>7. UNCHANGED <<mailboxes, row, left>>
    BY <1>2
  <1>8. QED
    BY <1>1, <1>3, <1>5, <1>6, <1>7, QuietKeeps

LEMMA CancelSnoozeStep ==
  ASSUME IInv, NEW c \in Calls, CancelSnooze(c)
  PROVE  IInv'
  <1>1. /\ Shape' /\ UidsLast'
        /\ UNCHANGED <<mailboxes, row, open, loop, nudged, now, left>>
        /\ call[c] = Idle
        /\ call'[c].op = "cancel" /\ call'[c].pc = "return" /\ call'[c].m \in Msgs
        /\ call'[c].row = row[call'[c].m]
        /\ \A d \in Calls : d # c => call'[d] = call[d]
    BY CancelSnoozeType DEF IInv
  <1>2. SameWrites
    BY <1>1, OneCallWrites, IdleCall
  <1>3. \A k \in Msgs, r \in Row : CallHolds(k, r)' => CallHolds(k, r) \/ row[k] = r
    BY <1>1, OneCallHolds
  <1>4. \A k \in Msgs, r \in Row : CallAnswers(k, r)' => CallAnswers(k, r)
    BY <1>1, OneCallAnswers
  <1>5. NoNewHeld /\ NoNewAnswering
    BY <1>1, <1>3, <1>4, SameLoopHolds DEF NoNewHeld, NoNewAnswering, Held, Answering
  <1>6. LoopHasTurn'
    BY <1>1 DEF IInv, AnsweredInv, LoopHasTurn
  <1>7. UNCHANGED <<mailboxes, row, left>>
    BY <1>1
  <1>8. QED
    BY <1>1, <1>2, <1>5, <1>6, <1>7, QuietKeeps

\* The steps of the loop and of the clock that leave the calls and the rows.
LEMMA LoopQuiet ==
  ASSUME IInv, UNCHANGED <<mailboxes, row, call, left>>, Shape', UidsLast', LoopHasTurn',
         \A m \in Msgs, r \in Row :
           /\ LoopHolds(m, r)' => LoopHolds(m, r) \/ row[m] = r
           /\ LoopAnswers(m, r)' => LoopAnswers(m, r)
  PROVE  IInv'
  <1>1. SameWrites
    BY DEF SameWrites
  <1>2. NoNewHeld /\ NoNewAnswering
    BY SameCallHolds DEF NoNewHeld, NoNewAnswering, Held, Answering
  <1>3. UNCHANGED <<mailboxes, row, left>>
    OBVIOUS
  <1>4. QED
    BY <1>1, <1>2, <1>3, QuietKeeps

LEMMA LoopWakesStep ==
  ASSUME IInv, LoopWakes
  PROVE  IInv'
  <1>1. /\ Shape' /\ UidsLast' /\ loop'.pc = "pass"
        /\ \A m \in DOMAIN loop'.todo : loop'.todo[m] = row[m]
    BY LoopWakesType DEF IInv
  <1>2. UNCHANGED <<mailboxes, row, call, left>>
    BY DEF LoopWakes
  <1>3. QED
    BY <1>1, <1>2, LoopQuiet DEF LoopHolds, LoopAnswers, LoopHasTurn

LEMMA LoopSleepsStep ==
  ASSUME IInv, LoopSleeps
  PROVE  IInv'
  <1>1. Shape' /\ UidsLast' /\ loop'.pc = "asleep" /\ DOMAIN loop'.todo = {}
    BY LoopSleepsType DEF IInv
  <1>2. UNCHANGED <<mailboxes, row, call, left>>
    BY DEF LoopSleeps
  <1>3. QED
    BY <1>1, <1>2, LoopQuiet DEF LoopHolds, LoopAnswers, LoopHasTurn

LEMMA TickStep ==
  ASSUME IInv, Tick
  PROVE  IInv'
  <1>1. Shape' /\ UidsLast' /\ loop'.todo = loop.todo /\ loop'.pc = loop.pc
    BY TickType DEF IInv
  <1>2. UNCHANGED <<mailboxes, row, call, left>>
    BY DEF Tick
  <1>3. LoopHasTurn'
    BY <1>1 DEF IInv, AnsweredInv, LoopHasTurn
  <1>4. QED
    BY <1>1, <1>2, <1>3, LoopQuiet, SameLoopHolds

LEMMA StoreStep ==
  ASSUME IInv, StoreCloses \/ StoreOpens
  PROVE  IInv'
  <1>1. Shape' /\ UidsLast' /\ UNCHANGED <<mailboxes, row, call, loop, nudged, now, left>>
    BY StoreType DEF IInv
  <1>2. LoopHasTurn'
    BY <1>1 DEF IInv, AnsweredInv, LoopHasTurn
  <1>3. UNCHANGED <<mailboxes, row, call, left>> /\ loop' = loop
    BY <1>1
  <1>4. QED
    BY <1>1, <1>2, <1>3, LoopQuiet, SameLoopHolds

LEMMA TakenOutStep ==
  ASSUME IInv, NEW m \in Msgs, TakenOut(m)
  PROVE  IInv'
  <1>1. Shape' /\ UidsLast' /\ Shrinks
    BY TakenOutType DEF IInv
  <1>2. UNCHANGED <<row, call, loop>> /\ Strands({})
    BY DEF TakenOut
  <1>3. SameWrites
    BY <1>2 DEF SameWrites
  <1>4. NoNewHeld /\ NoNewAnswering
    BY <1>2, SameCallHolds, SameLoopHolds
       DEF NoNewHeld, NoNewAnswering, Held, Answering
  <1>5. LoopHasTurn'
    BY <1>2 DEF IInv, AnsweredInv, LoopHasTurn
  <1>6. QED
    BY <1>1, <1>2, <1>3, <1>4, <1>5, ShrinksKeeps DEF NoNewAnswering

LEMMA CancelReturnsStep ==
  ASSUME IInv, NEW c \in Calls, CancelReturns(c)
  PROVE  IInv'
  <1>1. /\ Shape' /\ UidsLast' /\ Shrinks
        /\ call[c].op = "cancel" /\ call[c].m \in Msgs /\ call[c].row \in Row
        /\ \A d \in Calls : d # c => call'[d] = call[d]
        /\ \/ call'[c] = Idle
           \/ /\ Returns(call[c].m, call[c].row)
              /\ call'[c].op = "cancel" /\ call'[c].pc = "delete"
              /\ call'[c].m = call[c].m /\ call'[c].row = call[c].row
    BY CancelReturnsType DEF IInv
  <1>2. UNCHANGED <<row, loop>> /\ Strands({})
    BY DEF CancelReturns
  <1>3. SameWrites
    BY <1>1, OneCallWrites, IdleCall
  <1>4. \A k \in Msgs, r \in Row : CallHolds(k, r)' => CallHolds(k, r)
    BY <1>1, OneCallHolds, IdleCall DEF CallHolds
  <1>5. NoNewHeld
    BY <1>2, <1>4, SameLoopHolds DEF NoNewHeld, Held
  <1>6. ASSUME NEW k \in Msgs, NEW r \in Row, CallAnswers(k, r)'
        PROVE  CallAnswers(k, r) \/ Answered(k, r)'
    <2>1. CallAnswers(k, r) \/ (Returns(k, r) /\ call[c].m = k /\ call[c].row = r)
      BY <1>1, <1>6, OneCallAnswers, IdleCall
    <2>2. CASE Returns(k, r) /\ call[c].m = k /\ call[c].row = r
      <3>1. Held(k, r)
        BY <1>1, <2>2 DEF Held, CallHolds
      <3>2. QED
        BY <1>2, <1>3, <2>2, <3>1, ReturnsAnswers DEF IInv
    <2>3. QED
      BY <2>1, <2>2
  <1>7. \A k \in Msgs, r \in Row : Answering(k, r)' => Answering(k, r) \/ Answered(k, r)'
    BY <1>2, <1>6, SameLoopHolds DEF Answering
  <1>8. LoopHasTurn'
    BY <1>2 DEF IInv, AnsweredInv, LoopHasTurn
  <1>9. QED
    BY <1>1, <1>2, <1>3, <1>5, <1>7, <1>8, ShrinksKeeps

LEMMA LoopReturnsStep ==
  ASSUME IInv, LoopReturns
  PROVE  IInv'
  <1>1. /\ Shape' /\ UidsLast' /\ Shrinks
        /\ Turn \in DOMAIN loop.todo /\ Turn \in Msgs /\ loop.todo[Turn] \in Row
        /\ \/ Returns(Turn, loop.todo[Turn]) /\ loop'.pc = "delete" /\ loop'.todo = loop.todo
           \/ /\ loop'.pc = "pass"
              /\ DOMAIN loop'.todo = (DOMAIN loop.todo) \ {Turn}
              /\ \A m \in DOMAIN loop'.todo : loop'.todo[m] = loop.todo[m]
    BY LoopReturnsType DEF IInv
  <1>2. UNCHANGED <<row, call>> /\ Strands({})
    BY DEF LoopReturns
  <1>3. SameWrites
    BY <1>2 DEF SameWrites
  <1>4. \A m \in Msgs, r \in Row : LoopHolds(m, r)' => LoopHolds(m, r)
    BY <1>1 DEF LoopHolds
  <1>5. NoNewHeld
    BY <1>2, <1>4, SameCallHolds DEF NoNewHeld, Held
  <1>6. ASSUME NEW m \in Msgs, NEW r \in Row, LoopAnswers(m, r)'
        PROVE  Answered(m, r)'
    <2>1. Returns(Turn, loop.todo[Turn]) /\ loop'.todo = loop.todo
      BY <1>1, <1>6 DEF LoopAnswers
    <2>2. Turn' = Turn
      BY <2>1 DEF Turn
    <2>3. m = Turn /\ r = loop.todo[Turn]
      BY <1>6, <2>1, <2>2 DEF LoopAnswers
    <2>4. Held(m, r) /\ Returns(m, r)
      BY <1>1, <2>1, <2>3 DEF Held, LoopHolds
    <2>5. QED
      BY <1>2, <1>3, <2>4, ReturnsAnswers DEF IInv
  <1>7. \A m \in Msgs, r \in Row : Answering(m, r)' => Answering(m, r) \/ Answered(m, r)'
    BY <1>2, <1>6, SameCallHolds DEF Answering
  <1>8. LoopHasTurn'
    BY <1>1 DEF LoopHasTurn
  <1>9. QED
    BY <1>1, <1>2, <1>3, <1>5, <1>7, <1>8, ShrinksKeeps

\* A row that was answered is deleted, whatever row is there by now.
LEMMA DeleteKeeps ==
  ASSUME IInv, NEW m \in Msgs, NEW r \in Row, Answering(m, r), DeleteRow(m, r),
         UNCHANGED <<mailboxes, open, nudged>>, SameWrites,
         \A k \in Msgs, q \in Row :
           /\ CallHolds(k, q)' => CallHolds(k, q)
           /\ LoopHolds(k, q)' => LoopHolds(k, q),
         NoNewAnswering, LoopHasTurn', Shape', UidsLast'
  PROVE  IInv'
  <1>1. UNCHANGED <<server, home, there, last>> /\ last \in Nat
    BY DEF mailboxes, IInv, Shape, MailTyped
  <1>2. last <= last' /\ last' \in Nat
    BY <1>1
  <1>3. /\ left \subseteq left'
        /\ row'[m] = row[m] \/ row'[m] = NoRow
        /\ \A k \in Msgs : k # m => row'[k] = row[k] /\ (k \in left' => k \in left)
    BY DeleteRowType DEF IInv, Shape
  <1>4. NoNewHeld
    BY <1>3, RowFacts DEF NoNewHeld, Held
  <1>5. HeldInv' /\ FreshInv'
    BY <1>1, <1>2, <1>4, HeldStays, FreshStays DEF IInv
  <1>6. \A k \in Msgs : Safe(k) => Safe(k)'
    BY <1>3, SafeStays
  <1>7. \A k \in Msgs, q \in Row : Answered(k, q) => Answered(k, q)'
    BY <1>1, <1>3, <1>6, RowFacts DEF Answered
  <1>8. AnsweredInv'
    BY <1>7, Zenon DEF IInv, AnsweredInv, NoNewAnswering, LoopHasTurn
  <1>9. \A k \in Msgs : Placed(k)' /\ Single(k)'
    BY <1>1, <1>3 DEF IInv, MsgInv, Placed, Single, Plain
  <1>10. \A k \in Msgs : Named(k)'
    BY <1>1, <1>3, <1>6 DEF IInv, MsgInv, Named
  <1>11. ASSUME NEW k \in Msgs PROVE Rowed(k)'
    <2>1. Rowed(k)
      BY Zenon DEF IInv, MsgInv
    <2>2. CASE row'[k] = row[k]
      BY <1>1, <1>6, <2>1, <2>2 DEF Rowed
    <2>3. CASE row'[k] # row[k]
      <3>1. k = m /\ open
        BY <1>3, <2>3 DEF DeleteRow
      <3>2. row[m] # NoRow
        BY <1>3, <2>3, <3>1
      <3>3. CASE row[m] = r
        BY <1>1, <1>6, <3>1, <3>3 DEF IInv, AnsweredInv, Answered, Rowed
      <3>4. CASE row[m] # r
        BY <1>1, <3>1, <3>2, <3>4 DEF DeleteRow, Rowed, Safe
      <3>5. QED
        BY <3>3, <3>4
    <2>4. QED
      BY <2>2, <2>3
  <1>12. MsgInv'
    BY <1>9, <1>10, <1>11, Zenon DEF MsgInv
  <1>13. QED
    BY <1>5, <1>8, <1>12, Zenon DEF IInv

LEMMA CancelDeletesStep ==
  ASSUME IInv, NEW c \in Calls, CancelDeletes(c)
  PROVE  IInv'
  <1>1. /\ Shape' /\ UidsLast' /\ call'[c] = Idle
        /\ call[c].op = "cancel" /\ call[c].m \in Msgs /\ call[c].row \in Row
        /\ \A d \in Calls : d # c => call'[d] = call[d]
    BY CancelDeletesType DEF IInv
  <1>2. /\ DeleteRow(call[c].m, call[c].row) /\ UNCHANGED loop
        /\ UNCHANGED <<mailboxes, open, nudged>>
    BY DEF CancelDeletes
  <1>3. SameWrites
    BY <1>1, OneCallWrites, IdleCall
  <1>4. /\ \A k \in Msgs, r \in Row : CallHolds(k, r)' => CallHolds(k, r)
        /\ \A k \in Msgs, r \in Row : CallAnswers(k, r)' => CallAnswers(k, r)
    BY <1>1, OneCallHolds, OneCallAnswers, IdleCall
  <1>5. /\ NoNewAnswering
        /\ \A k \in Msgs, q \in Row : LoopHolds(k, q)' => LoopHolds(k, q)
    BY <1>2, <1>4, SameLoopHolds DEF NoNewAnswering, Answering
  <1>6. Answering(call[c].m, call[c].row)
    BY <1>1 DEF CancelDeletes, Answering, CallAnswers
  <1>7. LoopHasTurn'
    BY <1>2 DEF IInv, AnsweredInv, LoopHasTurn
  <1>8. QED
    BY <1>1, <1>2, <1>3, <1>4, <1>5, <1>6, <1>7, DeleteKeeps

LEMMA LoopDeletesStep ==
  ASSUME IInv, LoopDeletes
  PROVE  IInv'
  <1>1. DOMAIN loop.todo # {} /\ loop.pc = "delete"
    BY DEF LoopDeletes, IInv, AnsweredInv
  <1>2. /\ Shape' /\ UidsLast'
        /\ Turn \in DOMAIN loop.todo /\ Turn \in Msgs /\ loop.todo[Turn] \in Row
        /\ loop'.pc = "pass"
        /\ DOMAIN loop'.todo = (DOMAIN loop.todo) \ {Turn}
        /\ \A m \in DOMAIN loop'.todo : loop'.todo[m] = loop.todo[m]
    BY <1>1, LoopDeletesType DEF IInv
  <1>3. /\ DeleteRow(Turn, loop.todo[Turn]) /\ UNCHANGED call
        /\ UNCHANGED <<mailboxes, open, nudged>>
    BY DEF LoopDeletes
  <1>4. SameWrites
    BY <1>3 DEF SameWrites
  <1>5. \A m \in Msgs, r \in Row : /\ LoopHolds(m, r)' => LoopHolds(m, r)
                                   /\ ~LoopAnswers(m, r)'
    BY <1>2 DEF LoopHolds, LoopAnswers
  <1>6. /\ NoNewAnswering
        /\ \A k \in Msgs, q \in Row : CallHolds(k, q)' => CallHolds(k, q)
    BY <1>3, <1>5, SameCallHolds DEF NoNewAnswering, Answering
  <1>7. Answering(Turn, loop.todo[Turn])
    BY <1>1 DEF Answering, LoopAnswers
  <1>8. LoopHasTurn'
    BY <1>2 DEF LoopHasTurn
  <1>9. QED
    BY <1>2, <1>3, <1>4, <1>5, <1>6, <1>7, <1>8, DeleteKeeps

\* A message arrives in Pospuestos: it is written down for a call that goes on to
\* write its row, or left.
LEMMA ArrivesKeeps ==
  ASSUME IInv, NEW m \in Msgs, NEW n \in {1, 2}, Arrives(m, n),
         UNCHANGED <<server, row>>, NoNewHeld, NoNewAnswering, LoopHasTurn',
         \A k \in Msgs : Writing(k) => Writing(k)',
         \A k \in Msgs : k \in left => k \in left' \/ there'[k] = {},
         home \subseteq home' \cup {m}, m \in left' \/ (Writing(m)' /\ Plain(m)'),
         FreshInv', Shape', UidsLast'
  PROVE  IInv'
  <1>1. /\ last' = last + n
        /\ there'[m] = there[m] \cup ((last + 1)..(last + n))
        /\ \A k \in Msgs : k # m => there'[k] = there[k]
    <2>1. home' \subseteq Msgs
      BY DEF Shape, MailTyped
    <2>2. QED
      BY <2>1, ArrivesType DEF IInv, Shape
  <1>2. last \in Nat /\ last' \in Nat /\ last <= last' /\ there'[m] # {}
    BY <1>1 DEF IInv, Shape, MailTyped
  <1>3. HeldInv'
    BY <1>2, HeldStays DEF IInv
  <1>4. (\A k \in Msgs : Safe(k) => Safe(k)' \/ there'[k] = {}) /\ Safe(m)'
    BY Zenon DEF Safe
  <1>5. \A k \in Msgs, r \in Row : Answered(k, r) => Answered(k, r)'
    BY <1>1, <1>4 DEF Answered
  <1>6. AnsweredInv'
    BY <1>5, Zenon DEF IInv, AnsweredInv, NoNewAnswering, LoopHasTurn
  <1>7. ASSUME NEW k \in Msgs
        PROVE  (Placed(k) /\ Single(k) /\ Rowed(k) /\ Named(k))'
    <2>1. Placed(k) /\ Single(k) /\ Rowed(k) /\ Named(k)
      BY Zenon DEF IInv, MsgInv
    <2>2. CASE k = m
      BY <1>2, <1>4, <2>2 DEF Placed, Single, Rowed, Named
    <2>3. CASE k # m
      <3>1. there'[k] = there[k] /\ (k \in home => k \in home')
        BY <1>1, <2>3
      <3>2. QED
        BY <1>4, <2>1, <3>1 DEF Placed, Single, Rowed, Named, Plain
    <2>4. QED
      BY <2>2, <2>3
  <1>8. QED
    BY <1>3, <1>6, <1>7, Zenon DEF IInv, MsgInv

\* A call ends with the message where it was: what is in Pospuestos without the
\* row of that call is left.
LEMMA SettledKeeps ==
  ASSUME IInv, UNCHANGED <<mailboxes, row>>, NoNewHeld, NoNewAnswering, LoopHasTurn',
         \A k \in Msgs : k \in left => k \in left' \/ there[k] = {},
         \A k \in Msgs : Safe(k) => Safe(k)' \/ there[k] = {},
         FreshInv', Shape', UidsLast'
  PROVE  IInv'
  <1>1. UNCHANGED <<server, home, there, last>> /\ last \in Nat
    BY DEF mailboxes, IInv, Shape, MailTyped
  <1>2. last' \in Nat /\ last <= last'
    BY <1>1
  <1>3. HeldInv'
    BY <1>1, <1>2, HeldStays DEF IInv
  <1>4. \A k \in Msgs, r \in Row : Answered(k, r) => Answered(k, r)'
    BY <1>1 DEF Answered
  <1>5. AnsweredInv'
    BY <1>4, Zenon DEF IInv, AnsweredInv, NoNewAnswering, LoopHasTurn
  <1>6. ASSUME NEW k \in Msgs
        PROVE  (Placed(k) /\ Single(k) /\ Rowed(k) /\ Named(k))'
    <2>1. Placed(k) /\ Single(k) /\ Rowed(k) /\ Named(k)
      BY Zenon DEF IInv, MsgInv
    <2>2. QED
      BY <1>1, <2>1 DEF Placed, Single, Rowed, Named, Plain
  <1>7. QED
    BY <1>3, <1>5, <1>6, Zenon DEF IInv, MsgInv

LEMMA SnoozedStep ==
  ASSUME IInv, NEW c \in Calls, Snoozed(c)
  PROVE  IInv'
  <1> DEFINE v == [op |-> "snooze", pc |-> "commit", m |-> call[c].m, at |-> call[c].at,
                   uid |-> last']
  <1>1. /\ call[c].m \in Msgs /\ call[c].at \in Hours /\ last' \in Uids
        /\ \E n \in {1, 2} : Arrives(call[c].m, n)
        /\ last' = last + 1 \/ last' = last + 2
    BY SnoozedGives DEF IInv
  <1>2. Shape' /\ UidsLast' /\ call' = [call EXCEPT ![c] = v]
    BY SnoozedType DEF IInv
  <1>3. /\ UNCHANGED <<server, row, loop>> /\ At(c, "snooze", "move")
        /\ home' = IF Moves THEN home \ {call[c].m} ELSE home
        /\ Strands(IF last' = last + 2 \/ there[call[c].m] # {} THEN {call[c].m} ELSE {})
    BY Zenon DEF Snoozed
  <1>4. PICK m \in Msgs : m = call[c].m
    BY <1>1
  <1>5. v.op = "snooze" /\ v.pc = "commit" /\ v.m = m /\ v.uid = last'
    BY <1>4
  <1> HIDE DEF v
  <1>6. call'[c] = v /\ \A d \in Calls : d # c => call'[d] = call[d]
    BY <1>2 DEF IInv, Shape, CallTyped
  <1>7. last \in Nat /\ last' \in Nat /\ last < last'
    BY <1>1 DEF IInv, Shape, MailTyped
  <1>8. PICK n \in {1, 2} : Arrives(m, n)
    BY <1>1, <1>4
  <1>9. /\ last' = last + n
        /\ there'[m] = there[m] \cup ((last + 1)..(last + n))
        /\ \A k \in Msgs : k # m => there'[k] = there[k]
    <2>1. home' \subseteq Msgs
      BY <1>2 DEF Shape, MailTyped
    <2>2. QED
      BY <1>3, <1>8, <2>1, ArrivesType DEF IInv, Shape
  <1>10. there'[m] # {}
    BY <1>7, <1>9
  <1>11. /\ \A k \in Msgs, r \in Row : CallHolds(k, r)' => CallHolds(k, r)
         /\ \A k \in Msgs, r \in Row : CallAnswers(k, r)' => CallAnswers(k, r)
    BY <1>5, <1>6, OneCallHolds, OneCallAnswers
  <1>12. NoNewHeld /\ NoNewAnswering
    BY <1>3, <1>11, SameLoopHolds DEF NoNewHeld, NoNewAnswering, Held, Answering
  <1>13. LoopHasTurn'
    BY <1>3 DEF IInv, AnsweredInv, LoopHasTurn
  <1>14. /\ \A k \in Msgs : Writing(k) => Writing(k)'
         /\ Writing(m)'
    BY <1>3, <1>5, <1>6 DEF Writing, At
  <1>15. \A k \in Msgs : k \in left => k \in left' \/ there'[k] = {}
    BY <1>3 DEF Strands
  <1>16. m \in left' \/ (Writing(m)' /\ Plain(m)')
    <2>1. CASE last' = last + 2 \/ there[m] # {}
      BY <1>3, <1>4, <1>10, <2>1 DEF Strands
    <2>2. CASE ~(last' = last + 2 \/ there[m] # {})
      <3>1. there'[m] = {last + 1}
        BY <1>7, <1>9, <2>2
      <3>2. QED
        BY <1>14, <3>1 DEF Plain
    <2>3. QED
      BY <2>1, <2>2
  <1>17. FreshInv'
    <2>1. ASSUME NEW d \in Calls, NEW k \in Msgs, NEW u \in Uids, Writes(d, k, u)'
          PROVE  Writes(d, k, u) \/ (d = c /\ u = last')
      BY <1>5, <1>6, <2>1 DEF Writes, At
    <2>2. \A d \in Calls, k \in Msgs : ~Writes(d, k, last')
      BY <1>1, <1>7 DEF IInv, FreshInv
    <2>3. \A k \in Msgs, r \in Row : Held(k, r) => r.uid # last'
      BY <1>7, RowFacts DEF IInv, HeldInv, Uids
    <2>4. ASSUME NEW d \in Calls, NEW k \in Msgs, NEW u \in Uids, Writes(d, k, u)'
          PROVE  /\ u <= last'
                 /\ \A r \in Row : Held(k, r)' => r.uid # u
                 /\ \A e \in Calls, j \in Msgs : Writes(e, j, u)' => e = d
      <3>1. CASE Writes(d, k, u) /\ u # last'
        <4>1. /\ u <= last /\ \A r \in Row : Held(k, r) => r.uid # u
              /\ \A e \in Calls, j \in Msgs : Writes(e, j, u) => e = d
          BY <3>1, Zenon DEF IInv, FreshInv
        <4>2. u <= last'
          BY <1>7, <4>1 DEF Uids
        <4>3. QED
          BY <1>12, <2>1, <3>1, <4>1, <4>2 DEF NoNewHeld
      <3>2. CASE d = c /\ u = last'
        <4>1. u <= last'
          BY <1>7, <3>2
        <4>2. QED
          BY <1>12, <2>1, <2>2, <2>3, <3>2, <4>1 DEF NoNewHeld
      <3>3. QED
        BY <2>1, <2>2, <2>4, <3>1, <3>2
    <2>5. QED
      BY <2>4 DEF FreshInv
  <1>18. home \subseteq home' \cup {m}
    BY <1>3, <1>4
  <1>19. UNCHANGED <<server, row>>
    BY <1>3
  <1>20. QED
    BY <1>2, <1>8, <1>12, <1>13, <1>14, <1>15, <1>16, <1>17, <1>18, <1>19, ArrivesKeeps

LEMMA SnoozeFailsStep ==
  ASSUME IInv, NEW c \in Calls, SnoozeFails(c)
  PROVE  IInv'
  <1>1. /\ Shape' /\ UidsLast' /\ call[c].m \in Msgs
        /\ UNCHANGED mailboxes \/ (Arrives(call[c].m, 1) /\ call[c].m \in home)
        /\ UNCHANGED server
        /\ UNCHANGED mailboxes \/ home' = home
           \/ home' = (IF Moves THEN home \ {call[c].m} ELSE home)
    BY SnoozeFailsType DEF IInv
  <1>2. UNCHANGED <<row, loop>> /\ At(c, "snooze", "move") /\ Strands({call[c].m}) /\ Ends(c)
    BY Zenon DEF SnoozeFails
  <1>3. PICK m \in Msgs : m = call[c].m
    BY <1>1
  <1>4. call'[c] = Idle /\ \A d \in Calls : d # c => call'[d] = call[d]
    BY <1>2, CallEnds DEF IInv, Shape
  <1>5. SameWrites
    BY <1>2, <1>4, OneCallWrites, IdleCall DEF At
  <1>6. /\ \A k \in Msgs, r \in Row : CallHolds(k, r)' => CallHolds(k, r)
        /\ \A k \in Msgs, r \in Row : CallAnswers(k, r)' => CallAnswers(k, r)
    BY <1>4, OneCallHolds, OneCallAnswers, IdleCall
  <1>7. NoNewHeld /\ NoNewAnswering
    BY <1>2, <1>6, SameLoopHolds DEF NoNewHeld, NoNewAnswering, Held, Answering
  <1>8. LoopHasTurn'
    BY <1>2 DEF IInv, AnsweredInv, LoopHasTurn
  <1>9. \A k \in Msgs : Writing(k)' <=> Writing(k)
    BY <1>5, SameWritesWrites
  <1>10. CASE UNCHANGED mailboxes
    <2>1. UNCHANGED <<server, home, there, last>>
      BY <1>10 DEF mailboxes
    <2>2. \A k \in Msgs : k \in left => k \in left' \/ there[k] = {}
      BY <1>2, <2>1 DEF Strands
    <2>3. \A k \in Msgs : Safe(k) => Safe(k)' \/ there[k] = {}
      BY <1>9, <2>2, Zenon DEF Safe
    <2>4. FreshInv'
      BY <1>5, <1>7, <2>1, FreshStays DEF IInv, Shape, MailTyped
    <2>5. UNCHANGED <<mailboxes, row>>
      BY <1>2, <1>10
    <2>6. QED
      BY <1>1, <1>7, <1>8, <2>2, <2>3, <2>4, <2>5, SettledKeeps
  <1>11. CASE Arrives(m, 1)
    <2>1. /\ last' = last + 1
          /\ there'[m] = there[m] \cup ((last + 1)..(last + 1))
          /\ \A k \in Msgs : k # m => there'[k] = there[k]
      <3>1. home' \subseteq Msgs
        BY <1>1 DEF Shape, MailTyped
      <3>2. QED
        BY <1>1, <1>11, <3>1, ArrivesType DEF IInv, Shape
    <2>2. last \in Nat /\ there'[m] # {} /\ last' \in Nat /\ last <= last'
      BY <2>1 DEF IInv, Shape, MailTyped
    <2>3. \A k \in Msgs : k \in left => k \in left' \/ there'[k] = {}
      BY <1>2 DEF Strands
    <2>4. m \in left'
      BY <1>2, <1>3, <2>2 DEF Strands
    <2>5. FreshInv'
      BY <1>5, <1>7, <2>2, FreshStays DEF IInv
    <2>6. home \subseteq home' \cup {m} /\ UNCHANGED <<server, row>>
      BY <1>1, <1>2, <1>3 DEF mailboxes
    <2>7. QED
      BY <1>1, <1>7, <1>8, <1>9, <1>11, <2>3, <2>4, <2>5, <2>6, ArrivesKeeps
  <1>12. QED
    BY <1>1, <1>3, <1>10, <1>11

\* What a step of a call that was writing leaves of the other writers.
LEMMA OtherWrites ==
  ASSUME NEW c \in Calls, \A d \in Calls : d # c => call'[d] = call[d],
         call'[c].op # "snooze" \/ call'[c].pc # "commit",
         NEW d \in Calls, NEW k \in Msgs, NEW u \in Uids
  PROVE  Writes(d, k, u)' <=> Writes(d, k, u) /\ d # c
  BY DEF Writes, At

LEMMA SnoozeCommitStep ==
  ASSUME IInv, NEW c \in Calls, SnoozeCommit(c)
  PROVE  IInv'
  <1>1. /\ Shape' /\ UidsLast'
        /\ call[c].m \in Msgs /\ call[c].uid \in Uids
        /\ call'[c] = Idle \/ (call'[c].op = "snooze" /\ call'[c].pc = "nudge"
                               /\ call'[c].m = call[c].m)
        /\ \A d \in Calls : d # c => call'[d] = call[d]
    BY SnoozeCommitType DEF IInv
  <1>2. PICK m \in Msgs, u \in Uids : m = call[c].m /\ u = call[c].uid
    BY <1>1
  <1>3. UNCHANGED <<server, home, there, last, open, loop>> /\ At(c, "snooze", "commit")
    BY DEF SnoozeCommit, mailboxes
  <1>4. Writes(c, m, u)
    BY <1>2, <1>3 DEF Writes
  <1>5. /\ u <= last
        /\ \A r \in Row : Held(m, r) => r.uid # u
        /\ \A d \in Calls, n \in Msgs : Writes(d, n, u) => d = c
    BY <1>4, Zenon DEF IInv, FreshInv
  <1>6. /\ \A k \in Msgs, r \in Row : CallHolds(k, r)' => CallHolds(k, r)
        /\ \A k \in Msgs, r \in Row : CallAnswers(k, r)' => CallAnswers(k, r)
    BY <1>1, OneCallHolds, OneCallAnswers, IdleCall
  <1>7. NoNewAnswering
    BY <1>3, <1>6, SameLoopHolds DEF NoNewAnswering, Answering
  <1>8. LoopHasTurn'
    BY <1>3 DEF IInv, AnsweredInv, LoopHasTurn
  <1>9. \A d \in Calls, k \in Msgs, w \in Uids : Writes(d, k, w)' => Writes(d, k, w) /\ d # c
    BY <1>1, OtherWrites, IdleCall
  <1>10. \A k \in Msgs : k # m => (Writing(k) => Writing(k)')
    BY <1>1, <1>2 DEF Writing, At
  <1>11. CASE Moves /\ open
    <2> DEFINE new == [at |-> call[c].at, uid |-> u, told |-> Tells]
    <2>1. row' = [row EXCEPT ![m] = new]
      BY <1>2, <1>11, Zenon DEF SnoozeCommit
    <2>2. left' = IF Tells /\ there[m] # {} /\ u \notin there[m] THEN left \cup {m} ELSE left
      BY <1>2, <1>11, Zenon DEF SnoozeCommit
    <2>3. new.uid = u /\ new.told = Tells
      OBVIOUS
    <2> HIDE DEF new
    <2>4. row'[m] = new /\ \A k \in Msgs : k # m => row'[k] = row[k]
      BY <2>1 DEF IInv, Shape, RowTyped
    <2>5. \A k \in Msgs, r \in Row : Held(k, r)' => Held(k, r) \/ (k = m /\ r = new)
      BY <1>3, <1>6, <2>4, SameLoopHolds DEF Held
    <2>6. HeldInv'
      <3>1. Moves' = Moves /\ Tells' = Tells /\ last' = last
        BY <1>3 DEF Moves, Tells
      <3>2. QED
        BY <1>5, <1>11, <2>3, <2>5, <3>1, Zenon DEF IInv, HeldInv
    <2>7. FreshInv'
      <3>1. ASSUME NEW d \in Calls, NEW k \in Msgs, NEW w \in Uids, Writes(d, k, w)'
            PROVE  /\ w <= last'
                   /\ \A r \in Row : Held(k, r)' => r.uid # w
                   /\ \A e \in Calls, j \in Msgs : Writes(e, j, w)' => e = d
        <4>1. Writes(d, k, w) /\ d # c
          BY <1>9, <3>1
        <4>2. /\ w <= last /\ \A r \in Row : Held(k, r) => r.uid # w
              /\ \A e \in Calls, j \in Msgs : Writes(e, j, w) => e = d
          BY <4>1, Zenon DEF IInv, FreshInv
        <4>3. w # u
          BY <1>5, <4>1, Zenon
        <4>4. \A r \in Row : Held(k, r)' => r.uid # w
          BY <2>3, <2>5, <4>2, <4>3, Zenon
        <4>5. QED
          BY <1>3, <1>9, <4>2, <4>4
      <3>2. QED
        BY <3>1 DEF FreshInv
    <2>8. left \subseteq left' /\ \A k \in Msgs : k # m => (Safe(k) => Safe(k)')
      BY <1>10, <2>2 DEF Safe
    <2>9. AnsweredInv'
      <3>1. ASSUME NEW k \in Msgs, NEW r \in Row, Answering(k, r)'
            PROVE  Answered(k, r)'
        <4>1. Answering(k, r)
          BY <1>7, <3>1 DEF NoNewAnswering
        <4>2. Held(k, r) /\ Answered(k, r)
          BY <4>1, AnsweringIsHeld, Zenon DEF IInv, AnsweredInv
        <4>3. CASE k = m
          BY <1>5, <2>3, <2>4, <4>2, <4>3 DEF Answered
        <4>4. CASE k # m
          BY <1>3, <2>4, <2>8, <4>2, <4>4 DEF Answered
        <4>5. QED
          BY <4>3, <4>4
      <3>2. QED
        BY <1>8, <3>1, Zenon DEF AnsweredInv, LoopHasTurn
    <2>10. ASSUME NEW k \in Msgs
           PROVE  (Placed(k) /\ Single(k) /\ Rowed(k) /\ Named(k))'
      <3>1. Placed(k) /\ Single(k) /\ Rowed(k) /\ Named(k)
        BY Zenon DEF IInv, MsgInv
      <3>2. Placed(k)' /\ Single(k)'
        BY <1>3, <2>8, <3>1 DEF Placed, Single, Plain
      <3>3. CASE k # m
        BY <1>3, <2>4, <2>8, <3>1, <3>2, <3>3 DEF Rowed, Named
      <3>4. CASE k = m
        <4>1. Rowed(k)'
          <5>1. new # NoRow
            BY DEF new, NoRow
          <5>2. QED
            BY <2>4, <3>4, <5>1 DEF Rowed
        <4>2. Named(k)'
          BY <1>3, <2>2, <2>3, <2>4, <3>1, <3>4 DEF Named, Safe, Single, Plain
        <4>3. QED
          BY <3>2, <4>1, <4>2
      <3>5. QED
        BY <3>3, <3>4
    <2>11. QED
      BY <1>1, <2>6, <2>7, <2>9, <2>10, Zenon DEF IInv, MsgInv
  <1>12. CASE ~(Moves /\ open)
    <2>1. UNCHANGED <<mailboxes, row>>
      BY <1>12 DEF SnoozeCommit
    <2>2. left' = {n \in left \cup {m} : there[n] # {}}
      BY <1>2, <1>12, Zenon DEF SnoozeCommit
    <2>3. NoNewHeld
      BY <1>3, <1>6, <2>1, SameLoopHolds DEF NoNewHeld, Held
    <2>4. /\ \A k \in Msgs : k \in left => k \in left' \/ there[k] = {}
          /\ \A k \in Msgs : Safe(k) => Safe(k)' \/ there[k] = {}
      BY <1>10, <2>2 DEF Safe
    <2>5. FreshInv'
      BY <1>3, <1>9, <2>3, Zenon DEF IInv, FreshInv, NoNewHeld
    <2>6. QED
      BY <1>1, <1>7, <1>8, <2>1, <2>3, <2>4, <2>5, SettledKeeps
  <1>13. QED
    BY <1>11, <1>12

LEMMA CrashStep ==
  ASSUME IInv, Crash
  PROVE  IInv'
  <1>1. /\ Shape' /\ UidsLast' /\ \A c \in Calls : call'[c] = Idle
        /\ DOMAIN loop'.todo = {} /\ loop'.pc = "asleep"
    BY CrashType DEF IInv
  <1>2. UNCHANGED <<mailboxes, row>>
    BY DEF Crash
  <1>3. \A k \in Msgs, r \in Row : ~CallHolds(k, r)' /\ ~CallAnswers(k, r)'
    BY <1>1, IdleCall DEF CallHolds, CallAnswers, At
  <1>4. \A k \in Msgs, r \in Row : ~LoopHolds(k, r)' /\ ~LoopAnswers(k, r)'
    BY <1>1 DEF LoopHolds, LoopAnswers
  <1>5. NoNewHeld /\ NoNewAnswering
    BY <1>2, <1>3, <1>4 DEF NoNewHeld, NoNewAnswering, Held, Answering
  <1>6. LoopHasTurn'
    BY <1>1 DEF LoopHasTurn
  <1>7. left' = {m \in left \cup {call[c].m : c \in {c \in Calls : At(c, "snooze", "commit")}} :
                   there[m] # {}}
    BY DEF Crash
  <1>8. \A k \in Msgs : k \in left => k \in left' \/ there[k] = {}
    BY <1>7
  <1>9. \A k \in Msgs : Writing(k) => k \in left' \/ there[k] = {}
    BY <1>7 DEF Writing
  <1>10. \A k \in Msgs : Safe(k) => Safe(k)' \/ there[k] = {}
    BY <1>8, <1>9, Zenon DEF Safe
  <1>11. FreshInv'
    BY <1>1, IdleCall DEF FreshInv, Writes, At
  <1>12. QED
    BY <1>1, <1>2, <1>5, <1>6, <1>8, <1>10, <1>11, SettledKeeps

LEMMA InitHolds == Init => IInv
  <1> SUFFICES ASSUME Init PROVE IInv
    OBVIOUS
  <1>1. \A c \in Calls : call[c] = Idle
    BY DEF Init
  <1>2. \A m \in Msgs : row[m] = NoRow /\ there[m] = {} /\ m \in home
    BY DEF Init
  <1>3. PICK none \in Todos :
          /\ DOMAIN none = {}
          /\ loop = [pc |-> "asleep", started |-> 0, lag |-> 0, saw |-> FALSE, sleep |-> 0,
                     todo |-> none]
    BY TodoFacts, Zenon DEF Init
  <1>4. loop \in LoopType /\ loop.started = 0 /\ loop.pc = "asleep" /\ DOMAIN loop.todo = {}
    <2>1. 0 \in 0..MaxSleep /\ 0 \in Hours
      BY SnoozeAssumption DEF SnoozeAssumption, Hours
    <2>2. QED
      BY <1>3, <2>1 DEF LoopType
  <1>5. Shape
    <2>1. MailTyped /\ RowTyped /\ CallTyped
      BY IdleCall DEF Init, MailTyped, RowTyped, CallTyped
    <2>2. LoopTyped /\ BoundTyped
      BY <1>4, SnoozeAssumption
         DEF Init, LoopTyped, BoundTyped, BoundType, Hours, SnoozeAssumption
    <2>3. QED
      BY <2>1, <2>2 DEF Shape
  <1>6. UidsLast
    <2>1. Moving = {}
      BY <1>1, IdleCall DEF Moving, At
    <2>2. Cardinality(Moving) = 0
      BY <2>1, FS_EmptySet
    <2>3. last = 0 /\ bound.snoozes = MaxSnoozes /\ MaxSnoozes \in Nat
      BY SnoozeAssumption DEF Init, SnoozeAssumption
    <2>4. QED
      BY <2>2, <2>3 DEF UidsLast
  <1>7. \A m \in Msgs, r \in Row : ~Held(m, r) /\ ~Answering(m, r)
    BY <1>1, <1>2, <1>4, IdleCall, RowFacts
       DEF Held, Answering, CallHolds, CallAnswers, LoopHolds, LoopAnswers, At
  <1>8. HeldInv /\ AnsweredInv
    BY <1>4, <1>7 DEF HeldInv, AnsweredInv
  <1>9. FreshInv
    BY <1>1, IdleCall DEF FreshInv, Writes, At
  <1>10. MsgInv
    BY <1>2 DEF MsgInv, Placed, Single, Rowed, Named, Plain
  <1>11. QED
    BY <1>5, <1>6, <1>8, <1>9, <1>10 DEF IInv

LEMMA StepHolds == IInv /\ [Next]_vars => IInv'
  <1> SUFFICES ASSUME IInv, [Next]_vars PROVE IInv'
    OBVIOUS
  <1>1. ASSUME NEW c \in Calls, SnoozeMessage(c) \/ CancelSnooze(c) \/ Goes(c)
        PROVE  IInv'
    BY <1>1, SnoozeMessageStep, CancelSnoozeStep, SnoozedStep, SnoozeFailsStep,
       SnoozeCommitStep, NudgeStep, CancelReturnsStep, CancelDeletesStep, Zenon DEF Goes
  <1>2. CASE LoopStep
    BY <1>2, LoopWakesStep, LoopReturnsStep, LoopDeletesStep, LoopSleepsStep, Zenon DEF LoopStep
  <1>3. CASE Tick
    BY <1>3, TickStep
  <1>4. CASE StoreCloses \/ StoreOpens
    BY <1>4, StoreStep
  <1>5. CASE Crash
    BY <1>5, CrashStep
  <1>6. ASSUME NEW m \in Msgs, TakenOut(m) PROVE IInv'
    BY <1>6, TakenOutStep
  <1>7. CASE UNCHANGED vars
    <2>1. UNCHANGED <<mailboxes, row, call, left, loop>>
      BY <1>7 DEF vars
    <2>2. UNCHANGED <<mailboxes, row, call, left>> /\ loop' = loop
      BY <2>1
    <2>3. Shape' /\ UidsLast'
      <3>1. UNCHANGED <<server, home, there, last, row, open, call, loop, nudged, now, left,
                        bound>>
        BY <1>7 DEF vars, mailboxes
      <3>2. CallTyped' /\ UidsLast'
        BY <3>1, SameCalls DEF IInv, Shape, BoundTyped, BoundType
      <3>3. QED
        BY <3>1, <3>2 DEF IInv, Shape, MailTyped, RowTyped, LoopTyped, BoundTyped
    <2>4. LoopHasTurn'
      BY <2>2 DEF IInv, AnsweredInv, LoopHasTurn
    <2>5. QED
      BY <2>2, <2>3, <2>4, LoopQuiet, SameLoopHolds
  <1>8. QED
    BY <1>1, <1>2, <1>3, <1>4, <1>5, <1>6, <1>7, Zenon DEF Next

\* The type of the state.
THEOREM SnoozeTypeOK == Spec => []TypeOK
  <1>1. IInv => TypeOK
    <2> SUFFICES ASSUME IInv PROVE TypeOK
      OBVIOUS
    <2>1. last \in 0..(2 * MaxSnoozes)
      <3>1. last + 2 * (bound.snoozes + Cardinality(Moving)) <= 2 * MaxSnoozes
        BY DEF IInv, UidsLast
      <3>2. last \in Nat /\ bound.snoozes \in Nat /\ MaxSnoozes \in Nat
        BY SnoozeAssumption
           DEF IInv, Shape, MailTyped, BoundTyped, BoundType, SnoozeAssumption
      <3>3. QED
        BY <3>1, <3>2, MovingIsFinite
    <2>2. loop.todo \in Todos /\ loop.started \in Nat /\ now \in Nat /\ loop.started <= now
      BY RowFacts DEF IInv, Shape, LoopTyped, LoopType
    <2>3. /\ DOMAIN loop.todo \subseteq Msgs
          /\ \A m \in DOMAIN loop.todo : loop.todo[m] \in Row
      BY <2>2, TodoFacts
    <2>4. /\ loop.pc \in {"asleep", "pass", "delete"} /\ loop.sleep \in 0..MaxSleep
          /\ loop.started \in 0..now
      BY <2>2 DEF IInv, Shape, LoopTyped, LoopType
    <2>5. \A b \in DOMAIN bound : bound[b] \in Nat
      BY DEF IInv, Shape, BoundTyped, BoundType
    <2>6. QED
      BY <2>1, <2>3, <2>4, <2>5
         DEF IInv, Shape, MailTyped, RowTyped, CallTyped, LoopTyped, TypeOK
  <1>2. QED
    BY InitHolds, StepHolds, <1>1, PTL DEF Spec

\* A message is where it was or in Pospuestos, and what is in Pospuestos has the row
\* that brings it back, or a call is about to write it, or it was left: whatever the
\* calls, the loop, the server and the key ring do (SnoozeMessage, CancelSnooze,
\* snooze_due_all_in, apply_return_in).
THEOREM SnoozeHasRow == Spec => []SnoozedHasRow
  <1>1. IInv => SnoozedHasRow
    BY DEF IInv, MsgInv, Placed, Rowed, Safe, SnoozedHasRow
  <1>2. QED
    BY InitHolds, StepHolds, <1>1, PTL DEF Spec
-----------------------------------------------------------------------------
(* The alarm.                                                              *)

Nudges(m) == \E c \in Calls : At(c, "snooze", "nudge") /\ call[c].m = m

\* The steps that write no row and touch neither the loop nor the clock.
LEMMA AlarmQuiet ==
  ASSUME AlarmIsSet, UNCHANGED now,
         loop'.pc = loop.pc, loop'.saw = loop.saw, loop'.lag = loop.lag, loop'.sleep = loop.sleep,
         nudged => nudged',
         \A m \in Msgs : /\ Nudges(m) => Nudges(m)'
                         /\ row'[m] = row[m] \/ row'[m] = NoRow \/ Nudges(m)'
  PROVE  AlarmIsSet'
  <1> SUFFICES ASSUME loop'.pc = "asleep", ~nudged', loop'.saw, NEW m \in Msgs
               PROVE  \/ row'[m] = NoRow \/ row'[m].at <= now'
                      \/ loop'.sleep <= row'[m].at - now' + loop'.lag
                      \/ Nudges(m)'
    BY Zenon DEF AlarmIsSet, Nudges
  <1>1. loop.pc = "asleep" /\ ~nudged /\ loop.saw
    BY Zenon
  <1>2. \/ row[m] = NoRow \/ row[m].at <= now
        \/ loop.sleep <= row[m].at - now + loop.lag
        \/ Nudges(m)
    BY <1>1, Zenon DEF AlarmIsSet, Nudges
  <1>3. QED
    BY <1>2

\* A step of a call that was not about to nudge.
LEMMA OneCallNudges ==
  ASSUME NEW c \in Calls, \A d \in Calls : d # c => call'[d] = call[d],
         call[c].op # "snooze" \/ call[c].pc # "nudge", NEW m \in Msgs, Nudges(m)
  PROVE  Nudges(m)'
  BY DEF Nudges, At

LEMMA AlarmCall ==
  ASSUME IInv, AlarmIsSet, NEW c \in Calls, SnoozeMessage(c) \/ CancelSnooze(c) \/ Goes(c)
  PROVE  AlarmIsSet'
  <1>1. CASE SnoozeMessage(c)
    <2>1. UNCHANGED <<row, loop, nudged, now>> /\ call[c] = Idle
      BY <1>1 DEF SnoozeMessage
    <2>2. \A d \in Calls : d # c => call'[d] = call[d]
      BY <1>1 DEF SnoozeMessage, Set, IInv, Shape, CallTyped
    <2>3. \A m \in Msgs : Nudges(m) => Nudges(m)'
      BY <2>1, <2>2, OneCallNudges, IdleCall
    <2>4. QED
      BY <2>1, <2>3, AlarmQuiet
  <1>2. CASE CancelSnooze(c)
    <2>1. UNCHANGED <<row, loop, nudged, now>> /\ call[c] = Idle
      BY <1>2 DEF CancelSnooze
    <2>2. \A d \in Calls : d # c => call'[d] = call[d]
      BY <1>2, CancelSnoozeType DEF IInv
    <2>3. \A m \in Msgs : Nudges(m) => Nudges(m)'
      BY <2>1, <2>2, OneCallNudges, IdleCall
    <2>4. QED
      BY <2>1, <2>3, AlarmQuiet
  <1>3. CASE Snoozed(c) \/ SnoozeFails(c)
    <2>1. UNCHANGED <<row, loop, nudged, now>> /\ At(c, "snooze", "move")
      BY <1>3 DEF Snoozed, SnoozeFails
    <2>2. \A d \in Calls : d # c => call'[d] = call[d]
      BY <1>3 DEF Snoozed, SnoozeFails, Ends, Set, IInv, Shape, CallTyped
    <2>3. \A m \in Msgs : Nudges(m) => Nudges(m)'
      BY <2>1, <2>2, OneCallNudges DEF At
    <2>4. QED
      BY <2>1, <2>3, AlarmQuiet
  <1>4. CASE SnoozeCommit(c)
    <2>1. UNCHANGED <<loop, nudged, now>> /\ At(c, "snooze", "commit")
      BY <1>4 DEF SnoozeCommit
    <2>2. /\ \A d \in Calls : d # c => call'[d] = call[d]
          /\ call[c].m \in Msgs
          /\ call'[c] = Idle \/ (call'[c].op = "snooze" /\ call'[c].pc = "nudge"
                                 /\ call'[c].m = call[c].m)
      BY <1>4, SnoozeCommitType DEF IInv
    <2>3. \A m \in Msgs : Nudges(m) => Nudges(m)'
      BY <2>1, <2>2, OneCallNudges DEF At
    <2>4. \A m \in Msgs : row'[m] = row[m] \/ Nudges(m)'
      <3>1. CASE Moves /\ open
        <4>1. row' = [row EXCEPT ![call[c].m] = [at |-> call[c].at, uid |-> call[c].uid,
                                                 told |-> Tells]]
              /\ Set(c, [call[c] EXCEPT !.pc = "nudge"])
          BY <1>4, <3>1, Zenon DEF SnoozeCommit
        <4>2. call'[c] = [call[c] EXCEPT !.pc = "nudge"]
          BY <4>1 DEF Set, IInv, Shape, CallTyped
        <4>3. call'[c] # Idle
          <5>1. call[c] \in [op : {"snooze"}, pc : {"commit", "nudge"}, m : Msgs, at : Hours,
                             uid : Uids]
            BY <2>1, CallFacts DEF IInv, Shape, CallTyped
          <5>2. call'[c].op = "snooze"
            BY <4>2, <5>1
          <5>3. QED
            BY <5>2, IdleCall
        <4>4. \A m \in Msgs : m = call[c].m => Nudges(m)'
          BY <2>2, <4>3 DEF Nudges, At
        <4>5. \A m \in Msgs : m # call[c].m => row'[m] = row[m]
          BY <4>1 DEF IInv, Shape, RowTyped
        <4>6. QED
          BY <4>4, <4>5
      <3>2. CASE ~(Moves /\ open)
        BY <1>4, <3>2 DEF SnoozeCommit
      <3>3. QED
        BY <3>1, <3>2
    <2>5. QED
      BY <2>1, <2>3, <2>4, AlarmQuiet
  <1>5. CASE Nudge(c)
    <2>1. nudged' = TRUE
      BY <1>5 DEF Nudge
    <2>2. QED
      BY <2>1 DEF AlarmIsSet
  <1>6. CASE CancelReturns(c)
    <2>1. UNCHANGED <<row, loop, nudged, now>> /\ At(c, "cancel", "return")
      BY <1>6 DEF CancelReturns
    <2>2. \A d \in Calls : d # c => call'[d] = call[d]
      BY <1>6, CancelReturnsType DEF IInv
    <2>3. \A m \in Msgs : Nudges(m) => Nudges(m)'
      BY <2>1, <2>2, OneCallNudges DEF At
    <2>4. QED
      BY <2>1, <2>3, AlarmQuiet
  <1>7. CASE CancelDeletes(c)
    <2>1. UNCHANGED <<loop, nudged, now, open>> /\ At(c, "cancel", "delete")
          /\ DeleteRow(call[c].m, call[c].row)
      BY <1>7 DEF CancelDeletes
    <2>2. (\A d \in Calls : d # c => call'[d] = call[d]) /\ call[c].m \in Msgs
      BY <1>7, CancelDeletesType DEF IInv
    <2>3. \A m \in Msgs : Nudges(m) => Nudges(m)'
      BY <2>1, <2>2, OneCallNudges DEF At
    <2>4. \A m \in Msgs : row'[m] = row[m] \/ row'[m] = NoRow
      BY <2>1, <2>2, DeleteRowType DEF IInv, Shape
    <2>5. QED
      BY <2>1, <2>3, <2>4, AlarmQuiet
  <1>8. QED
    BY <1>1, <1>2, <1>3, <1>4, <1>5, <1>6, <1>7, Zenon DEF Goes

LEMMA AlarmSleeps ==
  ASSUME IInv, LoopSleeps
  PROVE  AlarmIsSet'
  <1>1. UNCHANGED <<row, call, now, nudged>>
    BY DEF LoopSleeps
  <1>2. /\ loop'.sleep = Sleep(loop.started) /\ loop'.saw = open
        /\ loop'.lag = now - loop.started /\ loop.started \in Hours
    BY LoopSleepsType DEF IInv
  <1>3. /\ Sleep(loop.started) \in 0..MaxSleep
        /\ open => \A m \in Msgs : row[m] # NoRow /\ row[m].at > loop.started =>
                     Sleep(loop.started) <= row[m].at - loop.started
    BY <1>2, SleepType DEF IInv
  <1>4. now \in Nat /\ loop.started \in Nat /\ loop.started <= now /\ MaxSleep \in Nat
    BY <1>2, RowFacts, SnoozeAssumption DEF IInv, Shape, LoopTyped, SnoozeAssumption
  <1>5. \A m \in Msgs : row[m] = NoRow \/ row[m].at \in Nat
    BY RowFacts DEF IInv, Shape, RowTyped
  <1>6. ASSUME open, NEW m \in Msgs
        PROVE  row[m] = NoRow \/ row[m].at <= now \/ loop'.sleep <= row[m].at - now + loop'.lag
    <2>1. CASE row[m] = NoRow
      BY <2>1
    <2>2. CASE row[m] # NoRow /\ row[m].at > loop.started
      <3>1. Sleep(loop.started) <= row[m].at - loop.started
        BY <1>3, <1>6, <2>2
      <3>2. QED
        BY <1>2, <1>3, <1>4, <1>5, <2>2, <3>1
    <2>3. CASE row[m] # NoRow /\ ~(row[m].at > loop.started)
      BY <1>4, <1>5, <2>3
    <2>4. QED
      BY <2>1, <2>2, <2>3
  <1>7. loop'.saw => \A m \in Msgs :
          row'[m] = NoRow \/ row'[m].at <= now' \/ loop'.sleep <= row'[m].at - now' + loop'.lag
    BY <1>1, <1>2, <1>6
  <1>8. QED
    BY <1>7, Zenon DEF AlarmIsSet

LEMMA AlarmTick ==
  ASSUME IInv, AlarmIsSet, Tick
  PROVE  AlarmIsSet'
  <1>1. UNCHANGED <<row, call, nudged>>
    BY DEF Tick
  <1>2. /\ loop'.pc = loop.pc /\ loop'.saw = loop.saw /\ loop'.lag = loop.lag
        /\ loop'.sleep = IF loop.pc = "asleep" /\ loop.sleep > 0 THEN loop.sleep - 1
                         ELSE loop.sleep
        /\ now' = IF now < MaxTime THEN now + 1 ELSE MaxTime
    BY TickType DEF IInv
  <1>3. now \in 0..MaxTime /\ MaxTime \in Nat /\ loop.lag \in Nat /\ loop.sleep \in Nat
    <2>1. now \in 0..MaxTime /\ MaxTime \in Nat /\ MaxSleep \in Nat
      BY SnoozeAssumption DEF SnoozeAssumption, IInv, Shape, LoopTyped, Hours
    <2>2. QED
      BY <2>1 DEF IInv, Shape, LoopTyped, LoopType
  <1>4. \A m \in Msgs : row[m] = NoRow \/ row[m].at \in 0..MaxTime
    BY RowFacts DEF IInv, Shape, RowTyped, Hours
  <1> SUFFICES ASSUME loop'.pc = "asleep", ~nudged', loop'.saw, NEW m \in Msgs
               PROVE  \/ row'[m] = NoRow \/ row'[m].at <= now'
                      \/ loop'.sleep <= row'[m].at - now' + loop'.lag
                      \/ Nudges(m)'
    BY Zenon DEF AlarmIsSet, Nudges
  <1>5. loop.pc = "asleep" /\ ~nudged /\ loop.saw
    BY <1>1, <1>2, Zenon
  <1>6. \/ row[m] = NoRow \/ row[m].at <= now
        \/ loop.sleep <= row[m].at - now + loop.lag
        \/ Nudges(m)
    BY <1>5, Zenon DEF AlarmIsSet, Nudges
  <1>7. CASE Nudges(m)
    BY <1>1, <1>7 DEF Nudges, At
  <1>8. CASE row[m] = NoRow
    BY <1>1, <1>8
  <1>9. CASE row[m] # NoRow /\ ~Nudges(m)
    <2>1. row[m].at <= now \/ loop.sleep <= row[m].at - now + loop.lag
      BY <1>6, <1>9
    <2>2. row[m].at <= now' \/ loop'.sleep <= row[m].at - now' + loop.lag
      BY <1>2, <1>3, <1>4, <1>5, <1>9, <2>1
    <2>3. QED
      BY <1>1, <1>2, <2>2
  <1>10. QED
    BY <1>7, <1>8, <1>9

\* No row is slept through: the loop wakes at the hour of the next one, or it was
\* nudged, or the call that wrote it is about to (next_snooze_at, next_after,
\* nudge_snooze, due_loop::run).
THEOREM SnoozeAlarm == Spec => []AlarmIsSet
  <1>1. Init => AlarmIsSet
    BY DEF Init, AlarmIsSet
  <1>2. IInv /\ AlarmIsSet /\ [Next]_vars => AlarmIsSet'
    <2> SUFFICES ASSUME IInv, AlarmIsSet, [Next]_vars PROVE AlarmIsSet'
      OBVIOUS
    <2>1. ASSUME NEW c \in Calls, SnoozeMessage(c) \/ CancelSnooze(c) \/ Goes(c)
          PROVE  AlarmIsSet'
      BY <2>1, AlarmCall
    <2>2. CASE LoopWakes \/ LoopReturns \/ LoopDeletes
      <3>1. loop'.pc # "asleep"
        <4>1. CASE LoopWakes
          BY <4>1, LoopWakesType DEF IInv
        <4>2. CASE LoopReturns
          BY <4>2, LoopReturnsType DEF IInv
        <4>3. CASE LoopDeletes
          BY <4>3, LoopDeletesType DEF LoopDeletes, IInv, AnsweredInv
        <4>4. QED
          BY <2>2, <4>1, <4>2, <4>3
      <3>2. QED
        BY <3>1 DEF AlarmIsSet
    <2>3. CASE LoopSleeps
      BY <2>3, AlarmSleeps
    <2>4. CASE Tick
      BY <2>4, AlarmTick
    <2>5. CASE StoreCloses \/ StoreOpens
      BY <2>5, AlarmQuiet DEF StoreCloses, StoreOpens, Nudges, At
    <2>6. CASE Crash
      BY <2>6, CrashType DEF IInv, AlarmIsSet
    <2>7. ASSUME NEW m \in Msgs, TakenOut(m) PROVE AlarmIsSet'
      BY <2>7, AlarmQuiet DEF TakenOut, Nudges, At
    <2>8. CASE UNCHANGED vars
      BY <2>8, AlarmQuiet DEF vars, Nudges, At
    <2>9. QED
      BY <2>1, <2>2, <2>3, <2>4, <2>5, <2>6, <2>7, <2>8, Zenon DEF Next, LoopStep
  <1>3. QED
    BY InitHolds, StepHolds, <1>1, <1>2, PTL DEF Spec
=============================================================================
