------------------------ MODULE StoreLifecycleProofs ------------------------
(***************************************************************************)
(* What is proved of the life of the store, for any collections, keys and  *)
(* bounds: the types, that an open store has a key that is somewhere and   *)
(* is not one of before it was cleared, and that no step destroys a store  *)
(* whose key can be found.                                                 *)
(*                                                                         *)
(* First the types; then the inductive invariant IInv, kept action by      *)
(* action; then what each action does to a good store.                     *)
(***************************************************************************)
EXTENDS StoreLifecycle, TLAPS

\* The types, with the parts that no step takes apart under a name.
Pcs == Calls \cup {"idle"}
Kinds == {"none", "listed", "round", "disable", "clear"}
Colls == Collections \cup {Unrecorded, PendingAdoption}
BoundType == [faults : Nat, switches : Nat, meddling : Nat, crashes : Nat]
OpType == [pc : Pcs, kind : Kinds, mem : Settings, pin : Collections, same : BOOLEAN,
           cleared : BOOLEAN, key : Keys \cup {NoKey}, rebuild : BOOLEAN,
           adopted : BOOLEAN, hidden : Nat]

RingTyped == coll \in Collections /\ item \in [Collections -> Answers]
             /\ lock \in {"open", "locked", "away"}
FileTyped == disk \in Settings /\ dir \in BOOLEAN /\ db \in Answers
EntryTyped == /\ seen \in {"none", "wanted", "other", "missing", "gone"}
              /\ keyring \in {"unknown", "locked", "unlocked", "unavailable"}
              /\ open \in BOOLEAN /\ readers \in BOOLEAN
HistoryTyped == burned \subseteq Keys /\ spoiled \subseteq Collections /\ unsaved \in BOOLEAN
Typed == RingTyped /\ FileTyped /\ EntryTyped /\ HistoryTyped /\ op \in OpType /\ bound \in BoundType

LEMMA TypedIsTypeOK == Typed <=> TypeOK
  BY DEF Typed, TypeOK, RingTyped, FileTyped, EntryTyped, HistoryTyped, OpType, Operation, Pcs,
         Kinds, BoundType

LEMMA PcType == \A pc \in Calls : pc \in Pcs
  BY DEF Pcs

LEMMA KeyFacts ==
  /\ NoKey \notin Keys /\ Junk \notin Keys /\ NoKey # Junk
  /\ NoKey \in Answers /\ Junk \in Answers /\ \A k \in Keys : k \in Answers
  /\ \A k \in Answers : k \in Keys \/ k = NoKey \/ k = Junk
  BY LifecycleAssumption DEF LifecycleAssumption, Keys, NoKey, Junk, Answers

LEMMA SettingsFacts ==
  /\ Fresh \in Settings /\ Fresh.enabled /\ ~Fresh.pending /\ Fresh.coll = Unrecorded
  /\ Unrecorded \in Colls /\ PendingAdoption \in Colls /\ Unrecorded # PendingAdoption
  /\ Unrecorded \notin Collections /\ PendingAdoption \notin Collections
  /\ \A c \in Collections : c \in Colls
  /\ Settings = [enabled : BOOLEAN, pending : BOOLEAN, coll : Colls]
  BY LifecycleAssumption DEF LifecycleAssumption, Settings, Fresh, Colls, Unrecorded, PendingAdoption

LEMMA IdleFacts ==
  /\ Idle \in OpType
  /\ Idle.pc = "idle" /\ ~Idle.same /\ ~Idle.adopted /\ Idle.mem = Fresh /\ Idle.key = NoKey
  /\ Idle.hidden = 0 /\ Idle.kind = "none" /\ ~Idle.cleared
  <1>1. PICK c : c = CHOOSE x \in Collections : TRUE
    OBVIOUS
  <1>2. c \in Collections
    BY <1>1, LifecycleAssumption DEF LifecycleAssumption
  <1>3. "idle" \in Pcs
    BY DEF Pcs
  <1>4. QED
    BY <1>1, <1>2, <1>3, SettingsFacts DEF Idle, OpType, Kinds

LEMMA StartFacts ==
  ASSUME NEW kind \in Kinds, NEW pc \in Pcs, NEW settings \in Settings
  PROVE  /\ Start(kind, pc, settings) \in OpType
         /\ Start(kind, pc, settings).pc = pc /\ Start(kind, pc, settings).kind = kind
         /\ Start(kind, pc, settings).mem = settings /\ ~Start(kind, pc, settings).same
         /\ ~Start(kind, pc, settings).adopted /\ Start(kind, pc, settings).key = NoKey
         /\ Start(kind, pc, settings).hidden = 0 /\ ~Start(kind, pc, settings).cleared
  <1>1. PICK i : i = Idle
    OBVIOUS
  <1>2. Start(kind, pc, settings) = [i EXCEPT !.kind = kind, !.pc = pc, !.mem = settings]
    BY <1>1, Zenon DEF Start
  <1>3. i \in OpType /\ ~i.same /\ ~i.adopted /\ i.key = NoKey /\ i.hidden = 0 /\ ~i.cleared
    BY <1>1, IdleFacts
  <1>4. QED
    BY <1>2, <1>3 DEF OpType

\* Nothing of the operation but the call it awaits.
Only(pc) ==
  /\ op' \in OpType
  /\ op'.pc = pc /\ op'.kind = op.kind /\ op'.mem = op.mem /\ op'.pin = op.pin
  /\ op'.same = op.same /\ op'.cleared = op.cleared /\ op'.key = op.key
  /\ op'.adopted = op.adopted /\ op'.hidden = op.hidden

LEMMA GotoFacts ==
  ASSUME op \in OpType, NEW pc \in Pcs, Goto(pc)
  PROVE  Only(pc)
  BY DEF OpType, Goto, Only

\* The operation is done, or what is left of it is to prune.
Ended ==
  /\ op' \in OpType
  /\ op'.pc \in {"idle", "pruneKey"}
  /\ op'.pc = "pruneKey" => seen = "gone"
  /\ op'.same => op.same /\ op'.pin = op.pin

LEMMA AfterFacts ==
  ASSUME NEW o \in OpType
  PROVE  /\ AfterRound(o) \in OpType
         /\ AfterRound(o).pc \in {"idle", "pruneKey"}
         /\ AfterRound(o).pc = "pruneKey" => seen = "gone"
         /\ AfterRound(o).same => o.same /\ AfterRound(o).pin = o.pin
  <1>1. "pruneKey" \in Pcs
    BY DEF Pcs, Calls
  <1>2. CASE o.kind = "listed" /\ seen = "gone"
    <2>1. AfterRound(o) = [o EXCEPT !.pc = "pruneKey"]
      BY <1>2 DEF AfterRound
    <2>2. QED
      BY <1>1, <1>2, <2>1 DEF OpType
  <1>3. CASE ~(o.kind = "listed" /\ seen = "gone")
    BY <1>3, IdleFacts DEF AfterRound
  <1>4. QED
    BY <1>2, <1>3

LEMMA EndFacts == op \in OpType /\ EndRound => Ended
  BY AfterFacts DEF EndRound, Ended
-----------------------------------------------------------------------------
\* What the key ring and the disk answer leaves the types alone.
LEMMA FaultTyped == bound \in BoundType /\ Fault => bound' \in BoundType
  BY DEF Fault, BoundType

LEMMA AnswerTyped ==
  ASSUME bound \in BoundType
  PROVE  /\ CallFails \/ CallWorks \/ NoAnswer \/ Unlocked \/ NotUnlocked => bound' \in BoundType
         /\ SamePin \/ NotSamePin => bound' \in BoundType
         /\ \A b \in BOOLEAN : Says(TRUE, b) \/ Says(FALSE, b) => bound' \in BoundType
         /\ \A k \in Answers : FindAnswers(k) => bound' \in BoundType
  BY FaultTyped
  DEF CallFails, CallWorks, NoAnswer, Unlocked, NotUnlocked, SamePin, NotSamePin, Says, FindAnswers

\* A delete takes the item of the collection there is, or nothing.
Takes == item' = [item EXCEPT ![coll] = NoKey] \/ item' = item

LEMMA DeleteFacts ==
  ASSUME Typed, Deletes \/ RefusesDelete
  PROVE  Takes /\ item' \in [Collections -> Answers] /\ bound' \in BoundType
  <1>1. Takes /\ bound' \in BoundType
    BY FaultTyped, AnswerTyped DEF Typed, Deletes, RefusesDelete, CallWorks, Takes
  <1>2. item' \in [Collections -> Answers]
    BY <1>1, KeyFacts DEF Takes, Typed, RingTyped
  <1>3. QED
    BY <1>1, <1>2

\* A note is saved, or it is known to be lost.
Noting(settings) == \/ disk' = settings /\ unsaved' = unsaved
                    \/ disk' = disk /\ unsaved' = TRUE

LEMMA SaveFacts ==
  ASSUME Typed, NEW settings \in Settings, Saves(settings)
  PROVE  /\ Noting(settings) /\ disk' \in Settings /\ unsaved' \in BOOLEAN
         /\ bound' \in BoundType /\ (unsaved => unsaved')
  BY FaultTyped DEF Typed, Saves, Noting, FileTyped, HistoryTyped

\* Files are taken away, or kept.
LEMMA FilesFacts ==
  ASSUME Typed, RemovesFiles \/ KeepsSomeFiles
  PROVE  /\ dir' \in BOOLEAN /\ db' \in {db, NoKey} /\ db' \in Answers /\ bound' \in BoundType
         /\ RemovesFiles => db' = NoKey
  BY FaultTyped, KeyFacts DEF Typed, RemovesFiles, KeepsSomeFiles, FileTyped

LEMMA GiveUpFacts ==
  ASSUME Typed, GiveUp
  PROVE  Ended /\ keyring' \in {"unknown", "locked", "unlocked", "unavailable"}
  BY EndFacts DEF GiveUp, Typed, EntryTyped

LEMMA CloseFacts == Close => ~open' /\ ~readers' /\ open' \in BOOLEAN /\ readers' \in BOOLEAN
  BY DEF Close

\* The other records an operation may become.
LEMMA OpFacts ==
  ASSUME NEW o \in OpType
  PROVE  /\ \A pc \in Pcs : [o EXCEPT !.pc = pc] \in OpType
         /\ \A s \in Settings : [o EXCEPT !.mem = s] \in OpType
         /\ \A k \in Keys \cup {NoKey} : [o EXCEPT !.key = k] \in OpType
         /\ \A b \in BOOLEAN : /\ [o EXCEPT !.same = b] \in OpType
                               /\ [o EXCEPT !.cleared = b] \in OpType
                               /\ [o EXCEPT !.rebuild = b] \in OpType
                               /\ [o EXCEPT !.adopted = b] \in OpType
  <1>1. \A s \in Settings : [o EXCEPT !.mem = s] \in OpType
    <2> HIDE DEF Settings
    <2>1. QED
      BY Zenon DEF OpType
  <1>2. QED
    BY <1>1 DEF OpType
-----------------------------------------------------------------------------
\* What an operation becomes with a key, or without one.
LEMMA WithKeyFacts ==
  ASSUME NEW o \in OpType
  PROVE  /\ WithKey(o) \in OpType
         /\ WithKey(o).pc = IF db = NoKey THEN "clean" ELSE "rebuildAsk"
         /\ WithKey(o).kind = o.kind /\ WithKey(o).mem = o.mem /\ WithKey(o).pin = o.pin
         /\ WithKey(o).same = o.same /\ WithKey(o).cleared = o.cleared
         /\ WithKey(o).adopted = o.adopted /\ WithKey(o).hidden = o.hidden
         /\ WithKey(o).key = o.key
  <1>1. {"clean", "rebuildAsk"} \subseteq Pcs
    BY DEF Pcs, Calls
  <1>2. CASE db = NoKey
    BY <1>1, <1>2 DEF WithKey, OpType
  <1>3. CASE db # NoKey
    <2>1. WithKey(o) = [o EXCEPT !.pc = "rebuildAsk", !.rebuild = TRUE]
      BY <1>3 DEF WithKey
    <2>2. QED
      BY <1>1, <1>3, <2>1 DEF OpType
  <1>4. QED
    BY <1>2, <1>3

LEMMA WithoutKeyFacts ==
  ASSUME NEW o \in OpType
  PROVE  /\ WithoutKey(o) \in OpType
         /\ WithoutKey(o).pc = IF db = NoKey THEN "newAsk" ELSE "rebuildAsk"
         /\ WithoutKey(o).kind = o.kind /\ WithoutKey(o).mem = o.mem /\ WithoutKey(o).pin = o.pin
         /\ WithoutKey(o).same = o.same /\ WithoutKey(o).cleared = o.cleared
         /\ WithoutKey(o).adopted = o.adopted /\ WithoutKey(o).hidden = o.hidden
         /\ WithoutKey(o).key = NoKey
  <1>1. {"newAsk", "rebuildAsk"} \subseteq Pcs
    BY DEF Pcs, Calls
  <1>2. CASE db = NoKey
    <2>1. WithoutKey(o) = [o EXCEPT !.pc = "newAsk", !.key = NoKey]
      BY <1>2 DEF WithoutKey
    <2>2. QED
      BY <1>1, <1>2, <2>1 DEF OpType
  <1>3. CASE db # NoKey
    <2>1. WithoutKey(o) = [o EXCEPT !.pc = "rebuildAsk", !.rebuild = TRUE, !.key = NoKey]
      BY <1>3 DEF WithoutKey
    <2>2. QED
      BY <1>1, <1>3, <2>1 DEF OpType
  <1>4. QED
    BY <1>2, <1>3

\* The key in hand while it is looked for, and how often it was hidden.
Found(k) ==
  [op EXCEPT !.hidden = @ + Hides(k), !.key = IF k \in Keys THEN k ELSE NoKey]

LEMMA FoundFacts ==
  ASSUME op \in OpType, NEW k \in Answers
  PROVE  /\ Found(k) \in OpType /\ Hides(k) \in {0, 1}
         /\ k # item[op.pin] => Hides(k) = 1
         /\ Found(k).pc = op.pc /\ Found(k).kind = op.kind /\ Found(k).mem = op.mem
         /\ Found(k).pin = op.pin /\ Found(k).same = op.same /\ Found(k).cleared = op.cleared
         /\ Found(k).adopted = op.adopted /\ Found(k).hidden = op.hidden + Hides(k)
         /\ Found(k).key = IF k \in Keys THEN k ELSE NoKey
  <1>1. Hides(k) \in {0, 1} /\ (k # item[op.pin] => Hides(k) = 1)
    BY DEF Hides
  <1>2. PICK h : h = op.hidden + Hides(k)
    OBVIOUS
  <1>3. PICK key : key = IF k \in Keys THEN k ELSE NoKey
    OBVIOUS
  <1>4. Found(k) = [op EXCEPT !.hidden = h, !.key = key]
    BY <1>2, <1>3, Zenon DEF Found
  <1>5. h \in Nat /\ key \in Keys \cup {NoKey}
    BY <1>1, <1>2, <1>3 DEF OpType
  <1>6. QED
    BY <1>1, <1>2, <1>3, <1>4, <1>5 DEF OpType
-----------------------------------------------------------------------------
\* Each step keeps the types.  First the steps that only ask.
LEMMA AskStepsTyped ==
  ASSUME Typed,
         \/ JunkUnlocked \/ JunkSamePin \/ RebuildUnlocked \/ RebuildSamePin \/ LastSamePin
         \/ FindNewKey \/ RemoveAsk \/ ForgetGone \/ WithStore \/ Refresh \/ Read
  PROVE  Typed'
  <1>1. {"junkSame", "junkDelete", "rebuildSame", "lastSame", "newAsk", "rebuildFind", "clean",
         "rmKey", "rmNote", "forgetAsk", "bring", "pin", "write"} \subseteq Pcs
    BY DEF Pcs, Calls
  <1>2. "round" \in Kinds /\ disk \in Settings /\ op \in OpType /\ bound \in BoundType
    BY DEF Kinds, Typed, FileTyped
  <1>3. \A pc \in Pcs : Goto(pc) => op' \in OpType
    BY <1>2, GotoFacts DEF Only
  <1>4. EndRound => op' \in OpType
    BY <1>2, EndFacts DEF Ended
  <1>5. GiveUp => op' \in OpType /\ keyring' \in {"unknown", "locked", "unlocked", "unavailable"}
    BY GiveUpFacts DEF Ended
  <1>6. \A pc \in Pcs : Start("round", pc, disk) \in OpType
    BY <1>2, StartFacts
  <1>7. op' \in OpType
    BY <1>1, <1>2, <1>3, <1>4, <1>5, <1>6
    DEF JunkUnlocked, JunkSamePin, RebuildUnlocked, RebuildSamePin, LastSamePin, FindNewKey,
        RemoveAsk, ForgetGone, WithStore, Refresh, Read
  <1>8. bound' \in BoundType
    BY <1>2, AnswerTyped, KeyFacts
    DEF JunkUnlocked, JunkSamePin, RebuildUnlocked, RebuildSamePin, LastSamePin, FindNewKey,
        RemoveAsk, ForgetGone, WithStore, Refresh, Read, Typed, RingTyped
  <1>9. keyring' \in {"unknown", "locked", "unlocked", "unavailable"} /\ readers' \in BOOLEAN
    BY <1>5
    DEF JunkUnlocked, JunkSamePin, RebuildUnlocked, RebuildSamePin, LastSamePin, FindNewKey,
        RemoveAsk, ForgetGone, WithStore, Refresh, Read, Typed, EntryTyped, entry
  <1>10. UNCHANGED <<ring, disk, files, seen, open, history>>
    BY DEF JunkUnlocked, JunkSamePin, RebuildUnlocked, RebuildSamePin, LastSamePin, FindNewKey,
        RemoveAsk, ForgetGone, WithStore, Refresh, Read, entry
  <1>11. QED
    BY <1>7, <1>8, <1>9, <1>10
    DEF Typed, RingTyped, FileTyped, EntryTyped, HistoryTyped, ring, files, history

\* The writes of the settings.
LEMMA SettingsTyped ==
  ASSUME NEW s \in Settings
  PROVE  /\ \A b \in BOOLEAN : [s EXCEPT !.enabled = b] \in Settings
         /\ \A b \in BOOLEAN : [s EXCEPT !.pending = b] \in Settings
         /\ \A c \in Colls : [s EXCEPT !.coll = c] \in Settings
         /\ [s EXCEPT !.pending = TRUE, !.coll = Unrecorded] \in Settings
         /\ [Fresh EXCEPT !.pending = s.pending] \in Settings
  BY SettingsFacts

\* The calls that start an operation, and the end of a batch.
LEMMA StartStepsTyped ==
  ASSUME Typed,
         \/ \E listing \in Listings, enough \in BOOLEAN : AccountsListed(listing, enough)
         \/ Enable \/ Disable \/ Clear \/ WriteEnds
  PROVE  Typed'
  <1>1. {"pin", "rmAsk"} \subseteq Pcs /\ Kinds = {"none", "listed", "round", "disable", "clear"}
    BY DEF Pcs, Calls, Kinds
  <1>2. disk \in Settings /\ op \in OpType /\ bound \in BoundType
    BY DEF Typed, FileTyped
  <1>3. disk' \in Settings
    BY <1>2, SettingsTyped DEF AccountsListed, Enable, Disable, Clear, WriteEnds
  <1>4. op' \in OpType
    BY <1>1, <1>2, <1>3, StartFacts, IdleFacts
    DEF AccountsListed, Enable, Disable, Clear, WriteEnds
  <1>5. bound' \in BoundType
    BY <1>2, FaultTyped DEF AccountsListed, Enable, Disable, Clear, WriteEnds
  <1>6. open' \in BOOLEAN /\ readers' \in BOOLEAN
    BY CloseFacts
    DEF AccountsListed, Enable, Disable, Clear, WriteEnds, entry, Typed, EntryTyped
  <1>7. seen' \in {"none", "wanted", "other", "missing", "gone"}
    BY DEF AccountsListed, Enable, Disable, Clear, WriteEnds, Listings, Observe, Typed, EntryTyped
  <1>8. UNCHANGED <<ring, files, keyring, history>>
    BY DEF AccountsListed, Enable, Disable, Clear, WriteEnds
  <1>9. QED
    BY <1>3, <1>4, <1>5, <1>6, <1>7, <1>8
    DEF Typed, RingTyped, FileTyped, EntryTyped, HistoryTyped, ring, files, history

\* The round, to the account.
LEMMA RoundStepsTyped ==
  ASSUME Typed, PinCollection \/ AskLocked \/ FlushPending \/ SweepOrphans \/ BringAccount
  PROVE  Typed'
  <1>1. {"ask", "rmNote", "flush", "sweep", "bring", "forget", "rmKey", "adopt", "up"} \subseteq Pcs
    BY DEF Pcs, Calls
  <1>2. op \in OpType /\ bound \in BoundType /\ coll \in Collections
    BY DEF Typed, RingTyped
  <1>3. EndRound => op' \in OpType
    BY <1>2, EndFacts DEF Ended
  <1>4. \A pc \in Pcs : Goto(pc) => op' \in OpType
    BY <1>2, GotoFacts DEF Only
  <1>5. NoRing => /\ op' \in OpType /\ keyring' = "unavailable"
                  /\ open' \in BOOLEAN /\ readers' \in BOOLEAN
    BY <1>3, CloseFacts DEF NoRing
  <1>6. \A o \in OpType : SweepOrBring(o) \in OpType
    BY <1>1, OpFacts DEF SweepOrBring
  <1>7. op' \in OpType
    <2>1. [op EXCEPT !.pc = "ask", !.pin = coll, !.same = TRUE] \in OpType
      BY <1>1, <1>2 DEF OpType
    <2>2. PinCollection => op' \in OpType
      BY <1>3, <1>5, <2>1, Zenon DEF PinCollection
    <2>5. AskLocked => op' \in OpType
      BY <1>1, <1>2, <1>3, <1>4, <1>5, <1>6, OpFacts DEF AskLocked
    <2>6. BringAccount => op' \in OpType
      BY <1>1, <1>3, <1>4 DEF BringAccount
    <2>3. FlushPending \/ SweepOrphans => op' \in OpType
      BY <1>1, <1>2, <1>6, OpFacts DEF FlushPending, SweepOrphans
    <2>4. QED
      BY <2>2, <2>3, <2>5, <2>6
  <1>8. bound' \in BoundType /\ item' \in [Collections -> Answers]
    <2>1. Deletes \/ RefusesDelete => bound' \in BoundType /\ item' \in [Collections -> Answers]
      BY DeleteFacts
    <2>2. UNCHANGED item => item' \in [Collections -> Answers]
      BY DEF Typed, RingTyped
    <2>3. FlushPending \/ SweepOrphans => bound' \in BoundType /\ item' \in [Collections -> Answers]
      BY <1>2, <2>1, <2>2, AnswerTyped DEF FlushPending, SweepOrphans
    <2>4. PinCollection \/ AskLocked \/ BringAccount =>
            bound' \in BoundType /\ item' \in [Collections -> Answers]
      BY <1>2, <2>2, AnswerTyped, FaultTyped DEF PinCollection, AskLocked, BringAccount, NoRing, ring
    <2>5. QED
      BY <2>3, <2>4
  <1>9. /\ open' \in BOOLEAN /\ readers' \in BOOLEAN
        /\ keyring' \in {"unknown", "locked", "unlocked", "unavailable"}
    <2>1. PinCollection =>
            /\ open' \in BOOLEAN /\ readers' \in BOOLEAN
            /\ keyring' \in {"unknown", "locked", "unlocked", "unavailable"}
      <3>1. PinCollection => \/ UNCHANGED <<open, readers, keyring>> \/ NoRing
                             \/ Close /\ UNCHANGED keyring
        BY DEF PinCollection, entry
      <3>2. QED
        BY <1>5, <3>1, CloseFacts DEF Typed, EntryTyped
    <2>5. AskLocked =>
            /\ open' \in BOOLEAN /\ readers' \in BOOLEAN
            /\ keyring' \in {"unknown", "locked", "unlocked", "unavailable"}
      <3>1. AskLocked => \/ NoRing
                         \/ Close /\ keyring' = "locked"
                         \/ /\ UNCHANGED <<ring, disk, files, seen, entry, history>>
                            /\ keyring' = "unlocked"
        BY DEF AskLocked
      <3>2. QED
        BY <1>5, <3>1, CloseFacts DEF Typed, EntryTyped, entry
    <2>2. FlushPending \/ SweepOrphans =>
            /\ open' \in BOOLEAN /\ readers' \in BOOLEAN
            /\ keyring' \in {"unknown", "locked", "unlocked", "unavailable"}
      BY DEF FlushPending, SweepOrphans, entry, Typed, EntryTyped
    <2>3. BringAccount =>
            /\ open' \in BOOLEAN /\ readers' \in BOOLEAN
            /\ keyring' \in {"unknown", "locked", "unlocked", "unavailable"}
      BY CloseFacts DEF BringAccount, entry, Typed, EntryTyped
    <2>4. QED
      BY <2>1, <2>2, <2>3, <2>5
  <1>10. UNCHANGED <<coll, lock, disk, files, seen, history>>
    BY DEF PinCollection, AskLocked, FlushPending, SweepOrphans, BringAccount, NoRing, ring
  <1>11. QED
    BY <1>7, <1>8, <1>9, <1>10
    DEF Typed, RingTyped, FileTyped, EntryTyped, HistoryTyped, files, history

\* The adoption of another collection, and the start of bring_up.
LEMMA AdoptStepsTyped ==
  ASSUME Typed, Adopt \/ AdoptIfSame \/ ForgetGoneUnlocked \/ BringUp
  PROVE  Typed'
  <1>1. {"adoptSame", "up", "record", "find", "bring", "newAsk", "rebuildAsk"} \subseteq Pcs
    BY DEF Pcs, Calls
  <1>2. op \in OpType /\ bound \in BoundType /\ op.pin \in Collections /\ op.mem \in Settings
        /\ op.key \in Answers
    BY KeyFacts DEF Typed, RingTyped, OpType
  <1>3. EndRound => op' \in OpType
    BY <1>2, EndFacts DEF Ended
  <1>4. \A pc \in Pcs : Goto(pc) => op' \in OpType
    BY <1>2, GotoFacts DEF Only
  <1>5. AdoptEnds => op' \in OpType
    BY <1>1, <1>3, <1>4 DEF AdoptEnds
  <1>6. Adopt => Typed'
    <2>1. SUFFICES ASSUME Adopt PROVE Typed'
      OBVIOUS
    <2>2. \A k \in Keys : [op EXCEPT !.pc = "adoptSame", !.key = k] \in OpType
      BY <1>1, <1>2 DEF OpType
    <2>3. op' \in OpType /\ bound' \in BoundType
      BY <1>2, <1>5, <2>1, <2>2, AnswerTyped, KeyFacts DEF Adopt
    <2>4. QED
      BY <2>1, <2>3 DEF Adopt, Typed, RingTyped, FileTyped, EntryTyped, HistoryTyped, ring, files,
                        entry, history
  <1>7. AdoptIfSame => Typed'
    <2>1. SUFFICES ASSUME AdoptIfSame PROVE Typed'
      OBVIOUS
    <2>2. PICK s \in Settings : s = [op.mem EXCEPT !.coll = op.pin]
      BY <1>2, SettingsTyped, SettingsFacts
    <2>3. PICK o : o = [op EXCEPT !.mem.coll = op.pin, !.adopted = TRUE]
      OBVIOUS
    <2>4. o = [op EXCEPT !.mem = s, !.adopted = TRUE]
      BY <2>2, <2>3, Zenon
    <2>5. o \in OpType /\ o.mem = s
      <3> HIDE DEF Settings
      <3>1. QED
        BY <1>2, <2>4 DEF OpType
    <2>6. [o EXCEPT !.pc = "up"] \in OpType /\ AfterRound(o) \in OpType
      BY <1>1, <2>5, OpFacts, AfterFacts
    <2>7. op' \in OpType /\ bound' \in BoundType /\ disk' \in Settings /\ unsaved' \in BOOLEAN
      <3>1. CASE NotSamePin /\ AdoptEnds /\ UNCHANGED <<disk, unsaved>>
        BY <1>2, <1>5, <3>1, AnswerTyped DEF Typed, FileTyped, HistoryTyped
      <3>2. CASE Saves(o.mem) /\ op' = IF open THEN AfterRound(o) ELSE [o EXCEPT !.pc = "up"]
        BY <2>5, <2>6, <3>2, SaveFacts
      <3>3. QED
        BY <2>1, <2>3, <3>1, <3>2, Zenon DEF AdoptIfSame
    <2>8. QED
      BY <2>1, <2>7 DEF AdoptIfSame, Typed, RingTyped, FileTyped, EntryTyped, HistoryTyped, ring,
                        files, entry
  <1>8. ForgetGoneUnlocked => Typed'
    <2>1. SUFFICES ASSUME ForgetGoneUnlocked PROVE Typed'
      OBVIOUS
    <2>2. [op EXCEPT !.pc = "bring", !.mem = Fresh] \in OpType
      <3>1. Fresh \in Settings
        BY SettingsFacts
      <3>2. QED
        BY <1>1, <1>2, <3>1 DEF OpType
    <2>3. /\ op' \in OpType /\ bound' \in BoundType /\ disk' \in Settings /\ unsaved' \in BOOLEAN
          /\ burned' \subseteq Keys
      BY <1>1, <1>2, <1>4, <2>1, <2>2, SaveFacts, SettingsFacts, AnswerTyped
      DEF ForgetGoneUnlocked, Typed, FileTyped, HistoryTyped
    <2>4. QED
      BY <2>1, <2>3 DEF ForgetGoneUnlocked, Typed, RingTyped, FileTyped, EntryTyped, HistoryTyped,
                        ring, files, entry
  <1>9. BringUp => Typed'
    <2>1. SUFFICES ASSUME BringUp PROVE Typed'
      OBVIOUS
    <2>2. op' \in OpType /\ db' \in Answers
      BY <1>1, <1>2, <1>3, <1>4, <2>1, WithoutKeyFacts, OpFacts DEF BringUp, Typed, FileTyped
    <2>3. QED
      BY <2>1, <2>2 DEF BringUp, Typed, RingTyped, FileTyped, EntryTyped, HistoryTyped, ring,
                        entry, history
  <1>10. QED
    BY <1>6, <1>7, <1>8, <1>9

\* The search of the key.
LEMMA FindKeyCases ==
  ASSUME Typed, FindKey
  PROVE  /\ bound' \in BoundType /\ UNCHANGED <<ring, disk, dir, seen, entry, history>>
         /\ \/ \E k \in Answers :
                /\ FindAnswers(k) /\ UNCHANGED keyring
                /\ \/ k = Junk /\ op' = [Found(k) EXCEPT !.pc = "junkAsk"] /\ UNCHANGED db
                   \/ k = NoKey /\ op' = WithoutKey(Found(k)) /\ UNCHANGED db
                   \/ /\ k \in Keys /\ Opens(k) /\ db' = k
                      /\ op' = [Found(k) EXCEPT !.pc = "record"]
                   \/ k \in Keys /\ ~Opens(k) /\ op' = WithKey(Found(k)) /\ UNCHANGED db
            \/ CallFails /\ GiveUp /\ UNCHANGED db
  <1>1. bound' \in BoundType
    BY AnswerTyped DEF FindKey, Typed
  <1>2. ASSUME NEW k \in Answers, FindAnswers(k), UNCHANGED keyring,
               CASE k = Junk -> op' = [Found(k) EXCEPT !.pc = "junkAsk"] /\ UNCHANGED db
                 [] k = NoKey -> op' = WithoutKey(Found(k)) /\ UNCHANGED db
                 [] k \in Keys /\ Opens(k) -> op' = [Found(k) EXCEPT !.pc = "record"] /\ db' = k
                 [] OTHER -> op' = WithKey(Found(k)) /\ UNCHANGED db
        PROVE  \/ k = Junk /\ op' = [Found(k) EXCEPT !.pc = "junkAsk"] /\ UNCHANGED db
               \/ k = NoKey /\ op' = WithoutKey(Found(k)) /\ UNCHANGED db
               \/ /\ k \in Keys /\ Opens(k) /\ db' = k
                  /\ op' = [Found(k) EXCEPT !.pc = "record"]
               \/ k \in Keys /\ ~Opens(k) /\ op' = WithKey(Found(k)) /\ UNCHANGED db
    BY <1>2, KeyFacts
  <1>3. UNCHANGED <<ring, disk, dir, seen, entry, history>>
    BY DEF FindKey
  <1>4. \/ CallFails /\ GiveUp /\ UNCHANGED db
        \/ \E k \in Answers :
             /\ FindAnswers(k) /\ UNCHANGED keyring
             /\ CASE k = Junk -> op' = [Found(k) EXCEPT !.pc = "junkAsk"] /\ UNCHANGED db
                  [] k = NoKey -> op' = WithoutKey(Found(k)) /\ UNCHANGED db
                  [] k \in Keys /\ Opens(k) -> op' = [Found(k) EXCEPT !.pc = "record"] /\ db' = k
                  [] OTHER -> op' = WithKey(Found(k)) /\ UNCHANGED db
    BY Zenon DEF FindKey, Found
  <1>5. QED
    BY <1>1, <1>2, <1>3, <1>4, Zenon

LEMMA FindKeyTyped ==
  ASSUME Typed, FindKey
  PROVE  Typed'
  <1>1. {"junkAsk", "record"} \subseteq Pcs /\ op \in OpType
    BY DEF Pcs, Calls, Typed
  <1>2. op' \in OpType /\ db' \in Answers
    BY <1>1, FindKeyCases, FoundFacts, WithKeyFacts, WithoutKeyFacts, OpFacts, GiveUpFacts
    DEF Ended, Typed, FileTyped
  <1>3. keyring' \in {"unknown", "locked", "unlocked", "unavailable"}
    BY FindKeyCases, GiveUpFacts DEF Typed, EntryTyped
  <1>4. QED
    BY <1>2, <1>3, FindKeyCases
    DEF Typed, RingTyped, FileTyped, EntryTyped, HistoryTyped, ring, entry, history

LEMMA SearchStepsTyped ==
  ASSUME Typed, DeleteJunk \/ RebuildFind \/ NewKey \/ StoreNewKey
  PROVE  Typed'
  <1>1. {"newAsk", "newStore", "newFind"} \subseteq Pcs /\ op \in OpType /\ bound \in BoundType
        /\ coll \in Collections /\ item \in [Collections -> Answers]
    BY DEF Pcs, Calls, Typed, RingTyped
  <1>2. EndRound => op' \in OpType
    BY <1>1, EndFacts DEF Ended
  <1>3. GiveUp => op' \in OpType /\ keyring' \in {"unknown", "locked", "unlocked", "unavailable"}
    BY GiveUpFacts DEF Ended
  <1>4. DeleteJunk => Typed'
    <2>1. SUFFICES ASSUME DeleteJunk PROVE Typed'
      OBVIOUS
    <2>2. item' \in [Collections -> Answers] /\ bound' \in BoundType
      BY <2>1, DeleteFacts DEF DeleteJunk
    <2>3. op' \in OpType /\ keyring' \in {"unknown", "locked", "unlocked", "unavailable"}
      BY <1>1, <1>3, <2>1, WithoutKeyFacts DEF DeleteJunk, Typed, EntryTyped
    <2>4. QED
      BY <2>1, <2>2, <2>3
      DEF DeleteJunk, Typed, RingTyped, FileTyped, EntryTyped, HistoryTyped, files, entry, history
  <1>5. RebuildFind => Typed'
    <2>1. SUFFICES ASSUME RebuildFind PROVE Typed'
      OBVIOUS
    <2>2. \A k \in Answers : [op EXCEPT !.pc = "newAsk", !.hidden = @ + Hides(k)] \in OpType
      <3>1. TAKE k \in Answers
      <3>2. PICK h \in Nat : h = op.hidden + Hides(k)
        BY <1>1, FoundFacts DEF OpType
      <3>3. [op EXCEPT !.pc = "newAsk", !.hidden = @ + Hides(k)]
              = [op EXCEPT !.pc = "newAsk", !.hidden = h]
        BY <3>2, Zenon
      <3>4. QED
        BY <1>1, <3>3 DEF OpType
    <2>3. /\ op' \in OpType /\ keyring' \in {"unknown", "locked", "unlocked", "unavailable"}
          /\ bound' \in BoundType
      BY <1>1, <1>2, <1>3, <2>1, <2>2, AnswerTyped DEF RebuildFind, Typed, EntryTyped
    <2>4. QED
      BY <2>1, <2>3 DEF RebuildFind, Typed, RingTyped, FileTyped, EntryTyped, HistoryTyped, ring,
                        files, entry, history
  <1>6. NewKey => Typed'
    <2>1. SUFFICES ASSUME NewKey PROVE Typed'
      OBVIOUS
    <2>2. \A k \in Keys : [op EXCEPT !.pc = "newStore", !.key = k] \in OpType
      BY <1>1 DEF OpType
    <2>3. /\ op' \in OpType /\ keyring' \in {"unknown", "locked", "unlocked", "unavailable"}
          /\ bound' \in BoundType /\ burned' \subseteq Keys
      BY <1>1, <1>3, <2>1, <2>2, AnswerTyped DEF NewKey, Typed, EntryTyped, HistoryTyped
    <2>4. QED
      BY <2>1, <2>3 DEF NewKey, Typed, RingTyped, FileTyped, EntryTyped, HistoryTyped, ring,
                        files, entry
  <1>7. StoreNewKey => Typed'
    <2>1. SUFFICES ASSUME StoreNewKey PROVE Typed'
      OBVIOUS
    <2>2. op.key \in Answers
      BY <1>1, KeyFacts DEF OpType
    <2>3. Goto("newFind") => op' \in OpType
      BY <1>1, GotoFacts DEF Only
    <2>4. bound' \in BoundType
      BY <1>1, <2>1, AnswerTyped, FaultTyped DEF StoreNewKey
    <2>5. /\ op' \in OpType /\ keyring' \in {"unknown", "locked", "unlocked", "unavailable"}
      BY <1>3, <2>1, <2>3 DEF StoreNewKey, Typed, EntryTyped
    <2>6. item' \in [Collections -> Answers] /\ spoiled' \subseteq Collections
      BY <1>1, <2>1, <2>2 DEF StoreNewKey, Typed, HistoryTyped
    <2>7. QED
      BY <2>1, <2>4, <2>5, <2>6
      DEF StoreNewKey, Typed, RingTyped, FileTyped, EntryTyped, HistoryTyped, files, entry
  <1>8. QED
    BY <1>4, <1>5, <1>6, <1>7

\* What the note of a collection may say.
LEMMA RecordFacts ==
  ASSUME Typed, RecordCollection
  PROVE  /\ bound' \in BoundType
         /\ \E s \in Settings :
              /\ op' = [op EXCEPT !.pc = "unnote", !.mem = s]
              /\ op' \in OpType /\ op'.mem = s /\ op'.pc = "unnote"
              /\ op'.pin = op.pin /\ op'.same = op.same /\ op'.key = op.key
              /\ op'.adopted = op.adopted /\ op'.cleared = op.cleared
              /\ op'.hidden = op.hidden /\ op'.kind = op.kind
              /\ s.pending = op.mem.pending /\ s.enabled = op.mem.enabled
              /\ \/ s = op.mem /\ op.mem.coll = op.pin /\ UNCHANGED <<disk, unsaved>>
                 \/ /\ op.mem.coll # op.pin /\ Noting(s)
                    /\ (s.coll = op.pin /\ op.same) \/ s.coll = PendingAdoption
  <1>1. "unnote" \in Pcs /\ op \in OpType /\ op.mem \in Settings /\ op.pin \in Colls
    BY SettingsFacts DEF Pcs, Calls, Typed, OpType
  <1>2. ASSUME NEW c \in {op.pin, PendingAdoption}
        PROVE  \E s \in Settings :
                 /\ s = [op.mem EXCEPT !.coll = c] /\ s.pending = op.mem.pending
                 /\ s.enabled = op.mem.enabled /\ s.coll = c
                 /\ [op EXCEPT !.pc = "unnote", !.mem.coll = c] = [op EXCEPT !.pc = "unnote", !.mem = s]
    <2>1. PICK s : s = [op.mem EXCEPT !.coll = c]
      OBVIOUS
    <2>2. [op EXCEPT !.pc = "unnote", !.mem.coll = c] = [op EXCEPT !.pc = "unnote", !.mem = s]
      BY <2>1, Zenon
    <2>3. c \in Colls
      BY <1>1, SettingsFacts
    <2>4. s \in Settings /\ s.pending = op.mem.pending /\ s.enabled = op.mem.enabled /\ s.coll = c
      BY <1>1, <2>1, <2>3, SettingsFacts
    <2>5. QED
      BY <2>1, <2>2, <2>4, Zenon
  <1>3. ASSUME NEW s \in Settings, op' = [op EXCEPT !.pc = "unnote", !.mem = s]
        PROVE  /\ op' \in OpType /\ op'.mem = s /\ op'.pc = "unnote"
               /\ op'.pin = op.pin /\ op'.same = op.same /\ op'.key = op.key
               /\ op'.adopted = op.adopted /\ op'.cleared = op.cleared
               /\ op'.hidden = op.hidden /\ op'.kind = op.kind
    BY <1>1, <1>3 DEF OpType
  <1>4. CASE op.mem.coll = op.pin /\ Goto("unnote") /\ UNCHANGED <<disk, bound, unsaved>>
    <2>1. op' = [op EXCEPT !.pc = "unnote", !.mem = op.mem]
      BY <1>1, <1>4 DEF Goto, OpType
    <2>2. bound' \in BoundType
      BY <1>4 DEF Typed
    <2>3. QED
      BY <1>1, <1>3, <1>4, <2>1, <2>2
  <1>5. ASSUME NEW c \in {op.pin, PendingAdoption}, op.mem.coll # op.pin, c = op.pin => op.same,
               op' = [op EXCEPT !.pc = "unnote", !.mem.coll = c],
               \/ Saves(op'.mem)
               \/ Fault /\ disk' = op'.mem /\ UNCHANGED unsaved
        PROVE  /\ bound' \in BoundType
               /\ \E s \in Settings :
                    /\ op' = [op EXCEPT !.pc = "unnote", !.mem = s]
                    /\ s.pending = op.mem.pending /\ s.enabled = op.mem.enabled /\ Noting(s)
                    /\ (s.coll = op.pin /\ op.same) \/ s.coll = PendingAdoption
    <2>1. PICK s \in Settings :
            /\ s = [op.mem EXCEPT !.coll = c] /\ s.pending = op.mem.pending
            /\ s.enabled = op.mem.enabled /\ s.coll = c
            /\ [op EXCEPT !.pc = "unnote", !.mem.coll = c] = [op EXCEPT !.pc = "unnote", !.mem = s]
      BY <1>2, Zenon
    <2>2. op' = [op EXCEPT !.pc = "unnote", !.mem = s]
      BY <1>5, <2>1, Zenon
    <2>3. op'.mem = s
      BY <1>3, <2>2
    <2>4. Noting(s) /\ bound' \in BoundType
      BY <1>5, <2>3, SaveFacts, FaultTyped DEF Typed, Noting
    <2>5. (s.coll = op.pin /\ op.same) \/ s.coll = PendingAdoption
      BY <1>5, <2>1
    <2>6. QED
      BY <2>1, <2>2, <2>4, <2>5, Zenon
  <1>6. CASE op.mem.coll # op.pin
    <2>1. \E c \in {op.pin, PendingAdoption} :
            /\ c = op.pin => op.same
            /\ op' = [op EXCEPT !.pc = "unnote", !.mem.coll = c]
            /\ \/ Saves(op'.mem)
               \/ Fault /\ disk' = op'.mem /\ UNCHANGED unsaved
      BY <1>6, Zenon DEF RecordCollection
    <2>2. /\ bound' \in BoundType
          /\ \E s \in Settings :
               /\ op' = [op EXCEPT !.pc = "unnote", !.mem = s]
               /\ s.pending = op.mem.pending /\ s.enabled = op.mem.enabled /\ Noting(s)
               /\ (s.coll = op.pin /\ op.same) \/ s.coll = PendingAdoption
      BY <1>5, <1>6, <2>1, Zenon
    <2>3. QED
      BY <1>3, <1>6, <2>2, Zenon
  <1>7. QED
    BY <1>4, <1>6 DEF RecordCollection

LEMMA RecordTyped ==
  ASSUME Typed, RecordCollection
  PROVE  Typed'
  <1>1. bound' \in BoundType /\ op' \in OpType /\ disk' \in Settings /\ unsaved' \in BOOLEAN
    BY RecordFacts DEF Noting, Typed, FileTyped, HistoryTyped
  <1>2. QED
    BY <1>1 DEF RecordCollection, Typed, RingTyped, FileTyped, EntryTyped, HistoryTyped, ring,
                files, entry

LEMMA CreateStepsTyped ==
  ASSUME Typed, CleanDir \/ CreateStore \/ UnnotePending
  PROVE  Typed'
  <1>1. {"create", "record"} \subseteq Pcs /\ op \in OpType /\ bound \in BoundType
        /\ op.key \in Answers /\ op.mem \in Settings
    BY KeyFacts DEF Pcs, Calls, Typed, OpType
  <1>2. \A pc \in {"create", "record"} : Goto(pc) => op' \in OpType
    BY <1>1, GotoFacts DEF Only
  <1>3. EndRound => op' \in OpType
    BY <1>1, EndFacts DEF Ended
  <1>4. CleanDir => Typed'
    <2>1. SUFFICES ASSUME CleanDir PROVE Typed'
      OBVIOUS
    <2>2. op' \in OpType /\ dir' \in BOOLEAN /\ db' \in Answers /\ bound' \in BoundType
      BY <1>2, <1>3, <2>1, FilesFacts DEF CleanDir
    <2>3. QED
      BY <2>1, <2>2 DEF CleanDir, Typed, RingTyped, FileTyped, EntryTyped, HistoryTyped, ring,
                        entry, history
  <1>5. CreateStore => Typed'
    <2>1. SUFFICES ASSUME CreateStore PROVE Typed'
      OBVIOUS
    <2>2. op' \in OpType /\ dir' \in BOOLEAN /\ db' \in Answers /\ bound' \in BoundType
      BY <1>1, <1>2, <1>3, <2>1, KeyFacts, FaultTyped DEF CreateStore
    <2>3. QED
      BY <2>1, <2>2 DEF CreateStore, Typed, RingTyped, FileTyped, EntryTyped, HistoryTyped, ring,
                        entry, history
  <1>6. UnnotePending => Typed'
    <2>1. SUFFICES ASSUME UnnotePending PROVE Typed'
      OBVIOUS
    <2>2. [op.mem EXCEPT !.pending = FALSE] \in Settings
      BY <1>1, SettingsTyped
    <2>3. op' \in OpType /\ disk' \in Settings /\ unsaved' \in BOOLEAN /\ bound' \in BoundType
      BY <1>3, <2>1, <2>2, SaveFacts DEF UnnotePending, Typed, FileTyped, HistoryTyped
    <2>4. open' \in BOOLEAN /\ readers' \in BOOLEAN
      BY <2>1 DEF UnnotePending
    <2>5. QED
      BY <2>1, <2>3, <2>4 DEF UnnotePending, Typed, RingTyped, FileTyped, EntryTyped,
                              HistoryTyped, ring, files
  <1>7. QED
    BY <1>4, <1>5, <1>6

\* What the note of a removal says.
Removal == [op.mem EXCEPT !.pending = TRUE, !.coll = Unrecorded]

LEMMA NoteRemovalFacts ==
  ASSUME Typed, NoteRemoval
  PROVE  /\ Removal \in Settings /\ Removal.enabled = op.mem.enabled /\ Removal.pending
         /\ Removal.coll = Unrecorded
         /\ op' \in OpType /\ op'.pc = "rmFiles" /\ op'.kind = op.kind /\ op'.pin = op.pin
         /\ op'.same = op.same /\ op'.adopted = op.adopted /\ op'.mem = Removal
         /\ Saves(Removal)
         /\ burned' = IF disk' = Removal THEN burned \cup (Held \cap Keys) ELSE burned
  <1>1. op \in OpType /\ op.mem \in Settings /\ "rmFiles" \in Pcs
    BY DEF Typed, OpType, Pcs, Calls
  <1>2. /\ Removal \in Settings /\ Removal.enabled = op.mem.enabled /\ Removal.pending
        /\ Removal.coll = Unrecorded
    BY <1>1, SettingsFacts DEF Removal
  <1>3. PICK s \in Settings : s = Removal
    BY <1>2
  <1>4. /\ op' = [op EXCEPT !.pc = "rmFiles", !.mem = s] /\ Saves(Removal)
        /\ burned' = IF disk' = Removal THEN burned \cup (Held \cap Keys) ELSE burned
    BY <1>3, Zenon DEF NoteRemoval, Removal
  <1>5. /\ op' \in OpType /\ op'.pc = "rmFiles" /\ op'.kind = op.kind /\ op'.pin = op.pin
        /\ op'.same = op.same /\ op'.adopted = op.adopted /\ op'.mem = s
    <2> HIDE DEF Settings
    <2>1. QED
      BY <1>1, <1>4 DEF OpType
  <1>6. QED
    BY <1>2, <1>3, <1>4, <1>5, Zenon

LEMMA RemoveStepsTyped ==
  ASSUME Typed, RemoveKey \/ NoteRemoval \/ RemoveFiles \/ PruneKey \/ PruneFiles
  PROVE  Typed'
  <1>1. /\ {"rmNote", "rmFiles", "pin", "pruneFiles"} \subseteq Pcs /\ op \in OpType
        /\ bound \in BoundType /\ disk \in Settings /\ "round" \in Kinds
    BY DEF Pcs, Calls, Kinds, Typed, FileTyped
  <1>2. RemoveKey => Typed'
    BY <1>1, DeleteFacts, GotoFacts
    DEF RemoveKey, Only, Typed, RingTyped, FileTyped, EntryTyped, HistoryTyped, files, entry, history
  <1>3. NoteRemoval => Typed'
    <2>1. SUFFICES ASSUME NoteRemoval PROVE Typed'
      OBVIOUS
    <2>2. /\ op' \in OpType /\ disk' \in Settings /\ unsaved' \in BOOLEAN /\ bound' \in BoundType
          /\ burned' \subseteq Keys
      BY <2>1, NoteRemovalFacts, SaveFacts DEF Typed, HistoryTyped
    <2>3. QED
      BY <2>1, <2>2 DEF NoteRemoval, Typed, RingTyped, FileTyped, EntryTyped, HistoryTyped, ring,
                        files, entry
  <1>4. RemoveFiles => Typed'
    <2>1. SUFFICES ASSUME RemoveFiles PROVE Typed'
      OBVIOUS
    <2>2. op' \in OpType /\ dir' \in BOOLEAN /\ db' \in Answers /\ bound' \in BoundType
      BY <1>1, <2>1, FilesFacts, StartFacts, AfterFacts, EndFacts DEF RemoveFiles, Ended
    <2>3. QED
      BY <2>1, <2>2 DEF RemoveFiles, Typed, RingTyped, FileTyped, EntryTyped, HistoryTyped, ring,
                        entry, history
  <1>5. PruneKey => Typed'
    <2>1. SUFFICES ASSUME PruneKey PROVE Typed'
      OBVIOUS
    <2>2. op' \in OpType /\ item' \in [Collections -> Answers] /\ bound' \in BoundType
      BY <1>1, <2>1, DeleteFacts, GotoFacts DEF PruneKey, Only, Typed, RingTyped
    <2>3. QED
      BY <2>1, <2>2 DEF PruneKey, Typed, RingTyped, FileTyped, EntryTyped, HistoryTyped, files,
                        entry, history
  <1>6. PruneFiles => Typed'
    <2>1. SUFFICES ASSUME PruneFiles PROVE Typed'
      OBVIOUS
    <2>2. /\ op' \in OpType /\ dir' \in BOOLEAN /\ db' \in Answers /\ bound' \in BoundType
          /\ disk' \in Settings /\ unsaved' \in BOOLEAN
      BY <1>1, <2>1, IdleFacts, FilesFacts, SettingsTyped, FaultTyped, KeyFacts
      DEF PruneFiles, Typed, FileTyped, HistoryTyped
    <2>3. QED
      BY <2>1, <2>2 DEF PruneFiles, Typed, RingTyped, FileTyped, EntryTyped, HistoryTyped, ring,
                        entry
  <1>7. QED
    BY <1>2, <1>3, <1>4, <1>5, <1>6

LEMMA AroundTyped ==
  ASSUME Typed, Around
  PROVE  Typed'
  <1>1. op \in OpType /\ bound \in BoundType /\ item \in [Collections -> Answers]
    BY DEF Typed, RingTyped
  <1>2. RingChanges => Typed'
    BY DEF RingChanges, Typed, RingTyped, FileTyped, EntryTyped, HistoryTyped, files, entry, history
  <1>3. ASSUME NEW c \in Collections, NEW copied \in BOOLEAN, Switch(c, copied)
        PROVE  Typed'
    <2>1. op' \in OpType /\ bound' \in BoundType
      <3>1. /\ bound.switches > 0 /\ bound' = [bound EXCEPT !.switches = @ - 1]
            /\ op' = [op EXCEPT !.same = FALSE]
        BY <1>3, Zenon DEF Switch
      <3>2. bound' \in BoundType
        BY <1>1, <3>1 DEF BoundType
      <3>3. op' \in OpType
        BY <1>1, <3>1, OpFacts
      <3>4. QED
        BY <3>2, <3>3
    <2>2. item' \in [Collections -> Answers] /\ coll' \in Collections
      BY <1>1, <1>3 DEF Switch, Typed, RingTyped
    <2>3. burned' \subseteq Keys /\ spoiled' \subseteq Collections
      BY <1>3 DEF Switch, Typed, HistoryTyped
    <2>4. QED
      BY <1>3, <2>1, <2>2, <2>3
      DEF Switch, Typed, RingTyped, FileTyped, EntryTyped, HistoryTyped, files, entry
  <1>4. Meddle => Typed'
    <2>1. SUFFICES ASSUME Meddle PROVE Typed'
      OBVIOUS
    <2>2. bound' \in BoundType
      BY <1>1, <2>1 DEF Meddle, BoundType
    <2>3. item' \in [Collections -> Answers] /\ spoiled' \subseteq Collections
      BY <1>1, <2>1, KeyFacts DEF Meddle, Typed, RingTyped, HistoryTyped
    <2>4. QED
      BY <2>1, <2>2, <2>3
      DEF Meddle, Typed, RingTyped, FileTyped, EntryTyped, HistoryTyped, files, entry
  <1>5. Crash => Typed'
    <2>1. SUFFICES ASSUME Crash PROVE Typed'
      OBVIOUS
    <2>2. bound' \in BoundType /\ op' \in OpType /\ open' \in BOOLEAN /\ readers' \in BOOLEAN
      BY <1>1, <2>1, IdleFacts, CloseFacts DEF Crash, BoundType
    <2>3. QED
      BY <2>1, <2>2
      DEF Crash, Typed, RingTyped, FileTyped, EntryTyped, HistoryTyped, ring, files, history
  <1>6. QED
    BY <1>2, <1>3, <1>4, <1>5 DEF Around

LEMMA InitTyped == Init => Typed
  <1> SUFFICES ASSUME Init PROVE Typed
    OBVIOUS
  <1>1. bound \in BoundType
    BY LifecycleAssumption DEF LifecycleAssumption, Init, BoundType
  <1>2. QED
    BY <1>1, IdleFacts, KeyFacts, SettingsFacts
    DEF Init, Typed, RingTyped, FileTyped, EntryTyped, HistoryTyped

LEMMA StepTyped == Typed /\ [Next]_vars => Typed'
  <1> SUFFICES ASSUME Typed, [Next]_vars PROVE Typed'
    OBVIOUS
  <1>1. CASE Step
    BY <1>1, AskStepsTyped, RoundStepsTyped, AdoptStepsTyped, FindKeyTyped, SearchStepsTyped,
       RecordTyped, CreateStepsTyped, RemoveStepsTyped, StartStepsTyped, Zenon DEF Step
  <1>2. CASE Asked
    BY <1>2, AskStepsTyped, StartStepsTyped, Zenon DEF Asked
  <1>3. CASE Around
    BY <1>3, AroundTyped
  <1>4. CASE UNCHANGED vars
    BY <1>4 DEF vars, Typed, RingTyped, FileTyped, EntryTyped, HistoryTyped, ring, files, entry, history
  <1>5. QED
    BY <1>1, <1>2, <1>3, <1>4 DEF Next

\* The types, at every step of the store of any account.
THEOREM LifecycleTypeOK == Spec => []TypeOK
  <1>1. Spec => []Typed
    BY InitTyped, StepTyped, PTL DEF Spec
  <1>2. QED
    BY <1>1, TypedIsTypeOK, PTL
-----------------------------------------------------------------------------
(* The inductive invariant.                                                *)

Early == {"pin", "ask", "flush", "sweep", "forget", "forgetAsk", "bring", "adopt", "adoptSame"}
Search == {"find", "junkAsk", "junkSame", "junkDelete", "rebuildAsk", "rebuildSame",
           "rebuildFind", "newAsk", "newStore", "newFind", "lastSame", "clean", "create"}
Opening == Search \cup {"up", "record", "unnote"}
Removing == {"rmAsk", "rmKey", "rmNote", "rmFiles"}
Pruning == {"pruneKey", "pruneFiles"}

\* What is known of the account at each call: while a store is looked for, made
\* or removed none is open, and the one that is open is wanted.
PhaseInv ==
  /\ op.pc \in Opening \cup Removing \cup Pruning => ~open
  /\ op.pc \in Opening => seen = "wanted"
  /\ op.pc \in Pruning \cup {"sweep", "forget", "forgetAsk"} => seen = "gone"
  /\ op.pc \in {"adopt", "adoptSame"} => seen = "wanted"
  /\ open => seen = "wanted"
  /\ op.pc \in Removing => ~disk.enabled \/ op.kind = "clear"
  /\ op.adopted => op.pc \in {"idle", "up", "record", "unnote"} \cup Pruning

\* The pinned collection is the one there is, if it did not change.
PinInv == op.same => coll = op.pin

\* The settings in hand are those of stores.json: but for what the adoption and
\* the opening note, and what was not saved.
MemInv ==
  /\ op.pc \in (Early \ {"bring"}) \cup Search \cup (Removing \ {"rmFiles"}) => op.mem = disk
  /\ op.pc = "bring" => op.mem = disk \/ seen = "gone"
  /\ op.pc = "flush" => op.mem.pending
  /\ op.pc = "find" => ~op.mem.pending
  /\ op.pc = "adopt" => open \/ op.mem.coll # Unrecorded
  /\ op.pc \in {"up", "record"} =>
       op.mem = disk \/ (op.adopted /\ op.mem.pending = disk.pending)
  /\ op.pc = "unnote" => op.mem.pending = disk.pending
  /\ op.pc \in {"up", "record", "unnote"} /\ op.adopted => op.mem.coll = op.pin
  /\ op.pc \in Search => op.mem.coll \in {Unrecorded, op.pin} \/ db = NoKey

\* The key in hand is the one the store is opened with, or created: it is in some
\* collection, the pinned one if that did not change, and it is not a burned one.
Sure ==
  \/ op.pc \in {"adoptSame", "lastSame", "clean", "create", "record", "unnote"}
  \/ op.pc = "up" /\ op.adopted
  \/ op.pc \in {"rebuildAsk", "rebuildSame"} /\ op.key # NoKey
Excused == spoiled # {} \/ unsaved
SureInv == Sure =>
  /\ op.key \in Keys /\ op.key \notin burned /\ item[coll] \notin burned
  /\ Excused \/ \E c \in Collections : item[c] = op.key
  /\ op.same => item[op.pin] = op.key \/ op.pin \in spoiled
KeyInv ==
  /\ op.pc \in {"newStore", "newFind"} => op.key \in Keys /\ op.key \notin burned
  /\ op.pc = "newStore" => op.key # db /\ \A c \in Collections : item[c] # op.key
  /\ op.pc \in {"record", "unnote"} => db = op.key
  /\ op.pc = "adoptSame" => Opens(op.key)
  /\ op.pc = "up" /\ op.adopted => Opens(op.key)

\* An open store has a key that is somewhere and is not burned, and no key that
\* the key ring would now give is.
OpenInv == open =>
  /\ Excused \/ \E c \in Collections : item[c] = db
  /\ db \notin burned /\ item[coll] \notin burned
  /\ disk.pending => unsaved

\* A burned key that the key ring would give is one whose delete is still pending.
BurnedInv == item[coll] \in burned => disk.pending /\ disk.coll = Unrecorded

\* A store whose key can be found, that nobody wants to go, is on the way to be
\* destroyed only if the key ring hid the key: once to look again, twice to rebuild.
Safe == Good /\ ~disk.pending /\ Noted \cap spoiled = {}
Guarded ==
  /\ op.pc \in {"junkAsk", "junkSame"} => ~op.same
  /\ op.pc \notin {"junkDelete", "create"}
  /\ op.pc \in {"rebuildAsk", "rebuildSame"} =>
       IF op.key = NoKey THEN op.hidden > 0 ELSE ~op.same
  /\ op.pc = "rebuildFind" => op.hidden > 0
  /\ op.pc \in {"newAsk", "newStore", "newFind", "clean"} => op.hidden > 1
  /\ op.pc = "lastSame" => op.hidden > 1 \/ ~op.same
GuardInv == Safe => Guarded

IInv == /\ Typed /\ PhaseInv /\ PinInv /\ MemInv /\ SureInv /\ KeyInv
        /\ OpenInv /\ BurnedInv /\ GuardInv

\* An operation that is over, or only begins, disturbs no other part of it.
LEMMA RestKeeps ==
  ASSUME op'.pc \in {"idle", "pruneKey", "pin", "write"},
         op'.pc = "pruneKey" => seen' = "gone",
         op'.pc = "pin" => op'.mem = disk',
         op'.adopted => op'.pc \in {"idle", "pruneKey"},
         op'.same => coll' = op'.pin,
         open' => seen' = "wanted"
  PROVE  PhaseInv' /\ PinInv' /\ MemInv' /\ SureInv' /\ KeyInv' /\ GuardInv'
  <1>1. PhaseInv'
    BY DEF PhaseInv, Opening, Search, Removing, Pruning
  <1>2. PinInv' /\ MemInv'
    BY DEF PinInv, MemInv, Early, Search, Removing
  <1>3. SureInv' /\ KeyInv'
    BY DEF SureInv, Sure, KeyInv
  <1>4. GuardInv'
    BY DEF GuardInv, Guarded
  <1>5. QED
    BY <1>1, <1>2, <1>3, <1>4

LEMMA EndedKeeps ==
  ASSUME PinInv, PhaseInv, Ended, seen' = seen, coll' = coll, open' => open
  PROVE  PhaseInv' /\ PinInv' /\ MemInv' /\ SureInv' /\ KeyInv' /\ GuardInv'
  <1>1. op'.pc \in {"idle", "pruneKey"} /\ (op'.pc = "pruneKey" => seen' = "gone")
    BY DEF Ended
  <1>2. op'.same => coll' = op'.pin
    BY DEF Ended, PinInv
  <1>3. open' => seen' = "wanted"
    BY DEF PhaseInv
  <1>4. QED
    BY <1>1, <1>2, <1>3, RestKeeps

LEMMA StillKeeps ==
  ASSUME OpenInv, BurnedInv, UNCHANGED <<ring, disk, db, history>>, open' => open
  PROVE  OpenInv' /\ BurnedInv'
  BY DEF OpenInv, BurnedInv, Excused, ring, history
-----------------------------------------------------------------------------
(* Each step keeps the invariant.  The steps that only ask, ...            *)

Asks(p, q) ==
  \/ p = "junkAsk" /\ q = "junkSame"
  \/ p = "junkSame" /\ q = "junkDelete" /\ op.same
  \/ p = "rebuildAsk" /\ q = "rebuildSame"
  \/ p = "rebuildSame" /\ q = "lastSame" /\ op.same /\ op.key # NoKey
  \/ p = "rebuildSame" /\ q = "newAsk" /\ op.key = NoKey /\ op.mem.pending
  \/ p = "rebuildSame" /\ q = "rebuildFind" /\ op.key = NoKey
  \/ p = "newFind" /\ q \in {"lastSame", "clean"} /\ item[coll] = op.key
  \/ p = "lastSame" /\ q = "clean" /\ op.same
  \/ p = "rmAsk" /\ q \in {"rmKey", "rmNote"}
  \/ p = "forget" /\ q \in {"forgetAsk", "bring"}

LEMMA AskPhase ==
  ASSUME IInv, NEW q \in Pcs, Only(q), Asks(op.pc, q),
         UNCHANGED <<ring, disk, files, seen, entry, history>>
  PROVE  PhaseInv' /\ PinInv' /\ MemInv'
  <1>1. op'.pc = q /\ op'.kind = op.kind /\ op'.mem = op.mem /\ op'.pin = op.pin
        /\ op'.same = op.same /\ op'.adopted = op.adopted
    BY DEF Only
  <1>2. coll' = coll /\ disk' = disk /\ seen' = seen /\ open' = open /\ db' = db
    BY DEF ring, files, entry
  <1>3. PhaseInv'
    BY <1>1, <1>2 DEF IInv, PhaseInv, Asks, Opening, Search, Removing, Pruning
  <1>4. PinInv'
    BY <1>1, <1>2 DEF IInv, PinInv
  <1>5. MemInv'
    BY <1>1, <1>2 DEF IInv, MemInv, Asks, Early, Search, Removing
  <1>6. QED
    BY <1>3, <1>4, <1>5

LEMMA AskKey ==
  ASSUME IInv, NEW q \in Pcs, Only(q), Asks(op.pc, q),
         UNCHANGED <<ring, disk, files, seen, entry, history>>
  PROVE  SureInv' /\ KeyInv'
  <1>1. op'.pc = q /\ op'.pin = op.pin /\ op'.same = op.same /\ op'.adopted = op.adopted
        /\ op'.key = op.key
    BY DEF Only
  <1>2. coll' = coll /\ item' = item /\ db' = db /\ burned' = burned /\ spoiled' = spoiled
        /\ unsaved' = unsaved /\ coll \in Collections
    BY DEF ring, files, history, IInv, Typed, RingTyped
  <1>3. CASE op.pc = "newFind" /\ item[coll] = op.key
    <2>1. op.key \in Keys /\ op.key \notin burned /\ (op.same => coll = op.pin)
      BY <1>3 DEF IInv, KeyInv, PinInv
    <2>2. QED
      BY <1>1, <1>2, <1>3, <2>1 DEF SureInv, Sure, KeyInv, Asks, Excused
  <1>4. CASE op.pc \in {"junkAsk", "junkSame", "rmAsk", "forget"}
    BY <1>1, <1>4 DEF SureInv, Sure, KeyInv, Asks
  <1>5. CASE op.pc \in {"rebuildAsk", "rebuildSame", "lastSame"}
    <2>1. Sure' => Sure
      BY <1>1, <1>5 DEF Sure, Asks
    <2>2. SureInv'
      BY <1>1, <1>2, <2>1 DEF IInv, SureInv, Excused
    <2>3. KeyInv'
      BY <1>1, <1>5 DEF KeyInv, Asks
    <2>4. QED
      BY <2>2, <2>3
  <1>6. QED
    BY <1>3, <1>4, <1>5 DEF Asks

LEMMA AskGuard ==
  ASSUME IInv, NEW q \in Pcs, Only(q), Asks(op.pc, q),
         UNCHANGED <<ring, disk, files, seen, entry, history>>
  PROVE  GuardInv'
  <1>1. op'.pc = q /\ op'.mem = op.mem /\ op'.same = op.same /\ op'.key = op.key
        /\ op'.hidden = op.hidden
    BY DEF Only
  <1>2. Safe' => Safe
    BY DEF Safe, Good, Noted, ring, files, history
  <1>3. op.pc = "rebuildSame" => op.mem = disk
    BY DEF IInv, MemInv, Search
  <1>4. Safe => Guarded'
    BY <1>1, <1>3 DEF IInv, GuardInv, Guarded, Asks, Safe
  <1>5. QED
    BY <1>2, <1>4 DEF GuardInv

LEMMA AskKeeps ==
  ASSUME IInv, Typed',
         \/ JunkUnlocked \/ JunkSamePin \/ RebuildUnlocked \/ RebuildSamePin \/ LastSamePin
         \/ FindNewKey \/ RemoveAsk \/ ForgetGone
  PROVE  IInv'
  <1>1. {"junkSame", "junkDelete", "rebuildSame", "lastSame", "newAsk", "rebuildFind", "clean",
         "rmKey", "rmNote", "forgetAsk", "bring"} \subseteq Pcs /\ op \in OpType
    BY DEF Pcs, Calls, IInv, Typed
  <1>2. UNCHANGED <<ring, disk, files, seen, entry, history>>
    BY DEF JunkUnlocked, JunkSamePin, RebuildUnlocked, RebuildSamePin, LastSamePin,
           FindNewKey, RemoveAsk, ForgetGone
  <1>3. OpenInv' /\ BurnedInv'
    BY <1>2, StillKeeps DEF IInv, files, entry
  <1>4. Ended \/ \E q \in Pcs : Goto(q) /\ Asks(op.pc, q)
    <2>1. GiveUp \/ EndRound => Ended
      BY <1>1, EndFacts DEF GiveUp
    <2>2. JunkUnlocked \/ RebuildUnlocked \/ RemoveAsk =>
            Ended \/ \E q \in Pcs : Goto(q) /\ Asks(op.pc, q)
      BY <1>1, <2>1 DEF JunkUnlocked, RebuildUnlocked, RemoveAsk, Asks
    <2>3. JunkSamePin \/ LastSamePin => Ended \/ \E q \in Pcs : Goto(q) /\ Asks(op.pc, q)
      BY <1>1, <2>1 DEF JunkSamePin, LastSamePin, Asks, SamePin, Says
    <2>4. RebuildSamePin => Ended \/ \E q \in Pcs : Goto(q) /\ Asks(op.pc, q)
      BY <1>1, <2>1 DEF RebuildSamePin, Asks, SamePin, Says
    <2>5. FindNewKey => Ended \/ \E q \in Pcs : Goto(q) /\ Asks(op.pc, q)
      <3>1. op.pc = "newFind" => op.key # NoKey
        BY KeyFacts DEF IInv, KeyInv
      <3>2. QED
        BY <1>1, <2>1, <3>1 DEF FindNewKey, Asks, FindAnswers
    <2>6. ForgetGone => \E q \in Pcs : Goto(q) /\ Asks(op.pc, q)
      BY <1>1 DEF ForgetGone, Asks
    <2>7. QED
      BY <2>2, <2>3, <2>4, <2>5, <2>6
  <1>5. CASE Ended
    <2>1. PhaseInv' /\ PinInv' /\ MemInv' /\ SureInv' /\ KeyInv' /\ GuardInv'
      BY <1>2, <1>5, EndedKeeps DEF IInv, ring, entry
    <2>2. QED
      BY <1>3, <2>1 DEF IInv
  <1>6. CASE \E q \in Pcs : Goto(q) /\ Asks(op.pc, q)
    <2>1. PICK q \in Pcs : Goto(q) /\ Asks(op.pc, q)
      BY <1>6
    <2>2. Only(q)
      BY <1>1, <2>1, GotoFacts
    <2>3. PhaseInv' /\ PinInv' /\ MemInv' /\ SureInv' /\ KeyInv' /\ GuardInv'
      BY <1>2, <2>1, <2>2, AskPhase, AskKey, AskGuard
    <2>4. QED
      BY <1>3, <2>3 DEF IInv
  <1>7. QED
    BY <1>4, <1>5, <1>6

LEMMA StartKeeps ==
  ASSUME IInv, Typed',
         \/ \E listing \in Listings, enough \in BOOLEAN : AccountsListed(listing, enough)
         \/ Refresh \/ Enable \/ Disable \/ Clear \/ WithStore \/ WriteEnds
  PROVE  IInv'
  <1>1. {"pin", "rmAsk", "write"} \subseteq Pcs /\ disk' \in Settings
        /\ Kinds = {"none", "listed", "round", "disable", "clear"}
    BY DEF Pcs, Calls, Kinds, Typed, FileTyped
  <1>2. OpenInv' /\ BurnedInv'
    <2>1. open' => open
      BY DEF AccountsListed, Refresh, Enable, Disable, Clear, WithStore, WriteEnds, Close, entry
    <2>2. UNCHANGED <<ring, db, history>> /\ disk'.pending = disk.pending /\ disk'.coll = disk.coll
      <3>1. disk \in Settings
        BY DEF IInv, Typed, FileTyped
      <3>2. QED
        BY <3>1, SettingsFacts
        DEF AccountsListed, Refresh, Enable, Disable, Clear, WithStore, WriteEnds, files
    <2>3. QED
      BY <2>1, <2>2 DEF IInv, OpenInv, BurnedInv, Excused, ring, history
  <1>3. CASE Disable \/ Clear
    <2>1. ~open' /\ seen' = seen /\ op'.pc = "rmAsk" /\ ~op'.same /\ ~op'.adopted
          /\ op'.key = NoKey /\ op'.mem = disk'
      BY <1>1, <1>3, StartFacts, CloseFacts DEF Disable, Clear
    <2>2. ~disk'.enabled \/ op'.kind = "clear"
      <3>1. disk \in Settings
        BY DEF IInv, Typed, FileTyped
      <3>2. QED
        BY <1>1, <1>3, <3>1, StartFacts, SettingsFacts DEF Disable, Clear
    <2>3. PhaseInv' /\ PinInv' /\ MemInv'
      BY <2>1, <2>2 DEF PhaseInv, PinInv, MemInv, Opening, Search, Removing, Pruning, Early
    <2>4. SureInv' /\ KeyInv' /\ GuardInv'
      BY <2>1 DEF SureInv, Sure, KeyInv, GuardInv, Guarded
    <2>5. QED
      BY <1>2, <2>3, <2>4 DEF IInv
  <1>4. CASE ~(Disable \/ Clear)
    <2>1. open' => seen' = "wanted"
      BY <1>4 DEF IInv, PhaseInv, AccountsListed, Refresh, Enable, WithStore, WriteEnds, Close,
                  Observe, entry
    <2>2. /\ op'.pc \in {"idle", "pin", "write"} /\ ~op'.same /\ ~op'.adopted
          /\ op'.pc = "pin" => op'.mem = disk'
      BY <1>1, <1>4, StartFacts, IdleFacts DEF AccountsListed, Refresh, Enable, WithStore, WriteEnds
    <2>3. PhaseInv' /\ PinInv' /\ MemInv' /\ SureInv' /\ KeyInv' /\ GuardInv'
      BY <2>1, <2>2, RestKeeps
    <2>4. QED
      BY <1>2, <2>3 DEF IInv
  <1>5. QED
    BY <1>3, <1>4

\* A reader closes the pool; the store stays open.
LEMMA ReadKeeps ==
  ASSUME IInv, Typed', Read
  PROVE  IInv'
  <1>1. UNCHANGED <<ring, disk, files, seen, open, history>>
    BY DEF Read
  <1>2. OpenInv' /\ BurnedInv'
    BY <1>1, StillKeeps DEF IInv, files
  <1>3. CASE op.pc = "idle"
    <2>1. op' = Start("round", "pin", disk)
      BY <1>3 DEF Read
    <2>2. op'.pc = "pin" /\ op'.mem = disk' /\ ~op'.same /\ ~op'.adopted
      BY <1>1, <2>1, StartFacts DEF Pcs, Calls, Kinds, IInv, Typed, FileTyped
    <2>3. open' => seen' = "wanted"
      BY <1>1 DEF IInv, PhaseInv
    <2>4. PhaseInv' /\ PinInv' /\ MemInv' /\ SureInv' /\ KeyInv' /\ GuardInv'
      BY <2>2, <2>3, RestKeeps
    <2>5. QED
      BY <1>2, <2>4 DEF IInv
  <1>4. CASE op.pc # "idle"
    <2>1. op' = op
      BY <1>4 DEF Read
    <2>2. PhaseInv' /\ PinInv' /\ MemInv'
      BY <1>1, <2>1 DEF IInv, PhaseInv, PinInv, MemInv, ring, files
    <2>3. SureInv' /\ KeyInv' /\ GuardInv'
      BY <1>1, <2>1 DEF IInv, SureInv, Sure, Excused, KeyInv, Opens, GuardInv, Guarded, Safe, Good,
                        Noted, ring, files, history
    <2>4. QED
      BY <1>2, <2>2, <2>3 DEF IInv
  <1>5. QED
    BY <1>3, <1>4

\* ... the round, ...
LEMMA PinKeeps ==
  ASSUME IInv, Typed', PinCollection
  PROVE  IInv'
  <1>1. op \in OpType /\ "ask" \in Pcs /\ coll \in Collections
    BY DEF IInv, Typed, RingTyped, Pcs, Calls
  <1>2. UNCHANGED <<ring, disk, files, seen, history>> /\ (open' => open)
    BY DEF PinCollection, NoRing, Close, entry
  <1>3. OpenInv' /\ BurnedInv'
    BY <1>2, StillKeeps DEF IInv, files
  <1>4. CASE EndRound
    BY <1>1, <1>2, <1>3, <1>4, EndFacts, EndedKeeps DEF IInv, ring
  <1>5. CASE /\ op' = [op EXCEPT !.pc = "ask", !.pin = coll, !.same = TRUE]
    <2>1. op'.pc = "ask" /\ op'.pin = coll /\ op'.mem = op.mem /\ op'.adopted = op.adopted
      BY <1>1, <1>5 DEF OpType
    <2>2. op.pc = "pin"
      BY DEF PinCollection
    <2>3. PhaseInv' /\ PinInv' /\ MemInv'
      BY <1>2, <2>1, <2>2 DEF IInv, PhaseInv, PinInv, MemInv, Opening, Search, Removing, Pruning,
                             Early, ring
    <2>4. SureInv' /\ KeyInv' /\ GuardInv'
      BY <2>1 DEF SureInv, Sure, KeyInv, GuardInv, Guarded
    <2>5. QED
      BY <1>3, <2>3, <2>4 DEF IInv
  <1>6. QED
    BY <1>4, <1>5 DEF PinCollection, NoRing

\* A step from one call of the round to another.
LEMMA EarlyKeeps ==
  ASSUME IInv, OpenInv', BurnedInv', UNCHANGED <<coll, seen, disk>>, open' => open,
         op'.pc \in {"flush", "sweep", "bring", "forget", "rmKey", "rmNote", "adopt"},
         op'.pin = op.pin /\ op'.same = op.same /\ op'.mem = op.mem /\ ~op'.adopted,
         op.mem = disk \/ (op'.pc = "bring" /\ seen = "gone"),
         op'.pc \in {"sweep", "forget"} => seen = "gone",
         op'.pc = "flush" => op'.mem.pending,
         op'.pc = "adopt" => seen = "wanted" /\ (open' \/ op'.mem.coll # Unrecorded),
         op'.pc \in {"rmKey", "rmNote"} => ~open' /\ ~disk.enabled,
         Typed'
  PROVE  IInv'
  <1>1. PhaseInv' /\ PinInv'
    BY DEF IInv, PhaseInv, PinInv, Opening, Search, Removing, Pruning
  <1>2. MemInv'
    BY DEF MemInv, Early, Search, Removing
  <1>3. SureInv' /\ KeyInv' /\ GuardInv'
    BY DEF SureInv, Sure, KeyInv, GuardInv, Guarded
  <1>4. QED
    BY <1>1, <1>2, <1>3 DEF IInv

\* What comes after the deletions that are pending.
LEMMA SweepOrBringFacts ==
  ASSUME NEW o \in OpType
  PROVE  /\ SweepOrBring(o).pc = IF seen = "gone" THEN "sweep" ELSE "bring"
         /\ SweepOrBring(o).mem = o.mem /\ SweepOrBring(o).pin = o.pin
         /\ SweepOrBring(o).same = o.same /\ SweepOrBring(o).adopted = o.adopted
  BY DEF SweepOrBring, OpType

LEMMA AskLockedKeeps ==
  ASSUME IInv, Typed', AskLocked
  PROVE  IInv'
  <1>1. op \in OpType /\ {"flush", "rmNote"} \subseteq Pcs
    BY DEF IInv, Typed, Pcs, Calls
  <1>2. op.pc = "ask" /\ op.mem = disk /\ ~op.adopted
    BY DEF AskLocked, IInv, MemInv, PhaseInv, Early, Pruning
  <1>3. UNCHANGED <<ring, disk, files, seen, history>> /\ (open' => open)
    <2>1. \/ NoRing
          \/ Close /\ UNCHANGED <<ring, disk, files, seen, history>>
          \/ UNCHANGED <<ring, disk, files, seen, entry, history>>
      BY Zenon DEF AskLocked
    <2>2. QED
      BY <2>1 DEF NoRing, Close, entry
  <1>4. OpenInv' /\ BurnedInv'
    BY <1>3, StillKeeps DEF IInv, files
  <1>5. CASE EndRound
    BY <1>1, <1>3, <1>4, <1>5, EndFacts, EndedKeeps DEF IInv, ring
  <1>6. CASE Goto("rmNote") /\ ~op.mem.enabled /\ Close
    <2>1. Only("rmNote")
      BY <1>1, <1>6, GotoFacts
    <2>2. ~open' /\ ~disk.enabled
      BY <1>2, <1>6 DEF Close
    <2>3. QED
      BY <1>2, <1>3, <1>4, <2>1, <2>2, EarlyKeeps DEF Only, ring
  <1>7. CASE op' = IF op.mem.pending THEN [op EXCEPT !.pc = "flush"] ELSE SweepOrBring(op)
    <2>1. /\ op'.pc \in {"flush", "sweep", "bring"} /\ (op'.pc = "sweep" => seen = "gone")
          /\ op'.pin = op.pin /\ op'.same = op.same /\ op'.mem = op.mem /\ op'.adopted = op.adopted
          /\ op'.pc = "flush" => op'.mem.pending
      BY <1>1, <1>7, SweepOrBringFacts DEF OpType
    <2>2. QED
      BY <1>2, <1>3, <1>4, <2>1, EarlyKeeps DEF ring
  <1>8. \/ EndRound
        \/ Goto("rmNote") /\ ~op.mem.enabled /\ Close
        \/ op' = IF op.mem.pending THEN [op EXCEPT !.pc = "flush"] ELSE SweepOrBring(op)
    BY Zenon DEF AskLocked, NoRing
  <1>9. QED
    BY <1>5, <1>6, <1>7, <1>8

\* A delete while nothing is sure takes the key of a store that is open only if
\* the note of its opening was lost.
LEMMA DeleteKeeps ==
  ASSUME IInv, Takes, UNCHANGED <<coll, lock, disk, db, history>>, open' => open,
         open => disk.pending
  PROVE  OpenInv' /\ BurnedInv'
  <1>1. item \in [Collections -> Answers] /\ burned \subseteq Keys
    BY DEF IInv, Typed, RingTyped, HistoryTyped
  <1>2. item'[coll] \in burned => item[coll] \in burned
    BY <1>1, KeyFacts DEF Takes, IInv, Typed, RingTyped
  <1>3. BurnedInv'
    BY <1>2 DEF IInv, BurnedInv, history
  <1>4. OpenInv'
    BY <1>2 DEF IInv, OpenInv, Excused, history
  <1>5. QED
    BY <1>3, <1>4

LEMMA FlushKeeps ==
  ASSUME IInv, Typed', FlushPending \/ SweepOrphans
  PROVE  IInv'
  <1>1. op \in OpType /\ "forget" \in Pcs /\ "bring" \in Pcs
    BY DEF IInv, Typed, Pcs, Calls
  <1>2. /\ op.pc \in {"flush", "sweep"} /\ op.mem = disk /\ ~op.adopted
        /\ op.pc = "flush" => op.mem.pending
        /\ op.pc = "sweep" => seen = "gone" /\ ~open
    BY DEF FlushPending, SweepOrphans, IInv, MemInv, PhaseInv, Early, Pruning
  <1>3. UNCHANGED <<coll, lock, disk, files, seen, keyring, entry, history>>
    BY DEF FlushPending, SweepOrphans
  <1>4. Takes
    BY <1>3, DeleteFacts DEF IInv, FlushPending, SweepOrphans, Takes
  <1>5. OpenInv' /\ BurnedInv'
    BY <1>2, <1>3, <1>4, DeleteKeeps DEF files, entry
  <1>6. /\ op'.pc \in {"sweep", "bring", "forget"}
        /\ op'.pc \in {"sweep", "forget"} => seen = "gone"
        /\ op'.pin = op.pin /\ op'.same = op.same /\ op'.mem = op.mem /\ op'.adopted = op.adopted
    <2>1. CASE FlushPending
      <3>1. PICK o \in {[op EXCEPT !.cleared = TRUE], op} : op' = SweepOrBring(o)
        BY <2>1 DEF FlushPending
      <3>2. o \in OpType /\ o.pin = op.pin /\ o.same = op.same /\ o.mem = op.mem
            /\ o.adopted = op.adopted
        BY <1>1 DEF OpType
      <3>3. QED
        BY <3>1, <3>2, SweepOrBringFacts
    <2>2. CASE SweepOrphans
      BY <1>1, <1>2, <2>2 DEF SweepOrphans, OpType
    <2>3. QED
      BY <2>1, <2>2
  <1>7. QED
    BY <1>2, <1>3, <1>5, <1>6, EarlyKeeps DEF entry

LEMMA BringKeeps ==
  ASSUME IInv, Typed', BringAccount
  PROVE  IInv'
  <1>1. op \in OpType /\ {"rmKey", "adopt", "up"} \subseteq Pcs
    BY DEF IInv, Typed, Pcs, Calls
  <1>2. op.pc = "bring" /\ (seen = "wanted" => op.mem = disk) /\ ~op.adopted
    BY DEF BringAccount, IInv, MemInv, PhaseInv, Pruning
  <1>3. UNCHANGED <<ring, disk, files, seen, history>> /\ (open' => open)
    BY DEF BringAccount, Close, entry
  <1>4. OpenInv' /\ BurnedInv'
    BY <1>3, StillKeeps DEF IInv, files
  <1>5. CASE EndRound
    BY <1>1, <1>3, <1>4, <1>5, EndFacts, EndedKeeps DEF IInv, ring
  <1>6. CASE Goto("rmKey") /\ Close /\ ~op.mem.enabled /\ seen = "wanted"
    <2>1. Only("rmKey") /\ ~open' /\ ~disk.enabled
      BY <1>1, <1>2, <1>6, GotoFacts DEF Close
    <2>2. QED
      BY <1>2, <1>3, <1>4, <1>6, <2>1, EarlyKeeps DEF Only, ring
  <1>7. CASE Goto("adopt") /\ UNCHANGED entry /\ seen = "wanted" /\ (open \/ op.mem.coll # Unrecorded)
    <2>1. Only("adopt") /\ open' = open
      BY <1>1, <1>7, GotoFacts DEF entry
    <2>2. QED
      BY <1>2, <1>3, <1>4, <1>7, <2>1, EarlyKeeps DEF Only, ring
  <1>8. CASE Goto("up") /\ UNCHANGED entry /\ seen = "wanted" /\ ~open
    <2>1. Only("up") /\ open' = open
      BY <1>1, <1>8, GotoFacts DEF entry
    <2>2. PhaseInv' /\ PinInv'
      BY <1>2, <1>3, <1>8, <2>1
      DEF IInv, PhaseInv, PinInv, Only, Opening, Search, Removing, Pruning, ring
    <2>3. MemInv'
      BY <1>2, <1>3, <1>8, <2>1 DEF MemInv, Only, Early, Search, Removing
    <2>4. SureInv' /\ KeyInv' /\ GuardInv'
      BY <1>2, <2>1 DEF Only, SureInv, Sure, KeyInv, GuardInv, Guarded
    <2>5. QED
      BY <1>4, <2>2, <2>3, <2>4 DEF IInv
  <1>9. \/ EndRound
        \/ Goto("rmKey") /\ Close /\ ~op.mem.enabled /\ seen = "wanted"
        \/ Goto("adopt") /\ UNCHANGED entry /\ seen = "wanted" /\ (open \/ op.mem.coll # Unrecorded)
        \/ Goto("up") /\ UNCHANGED entry /\ seen = "wanted" /\ ~open
    BY DEF BringAccount
  <1>10. QED
    BY <1>5, <1>6, <1>7, <1>8, <1>9

LEMMA ForgetKeeps ==
  ASSUME IInv, Typed', ForgetGoneUnlocked
  PROVE  IInv'
  <1>1. op \in OpType /\ "bring" \in Pcs /\ Fresh \in Settings
    BY SettingsFacts DEF IInv, Typed, Pcs, Calls
  <1>2. op.pc = "forgetAsk" /\ seen = "gone" /\ ~open /\ ~op.adopted
    BY DEF ForgetGoneUnlocked, IInv, PhaseInv, Pruning
  <1>3. UNCHANGED <<ring, files, seen, entry>>
    BY DEF ForgetGoneUnlocked
  <1>4. burned' = {} \/ (burned' = burned /\ disk' = disk)
    BY DEF ForgetGoneUnlocked
  <1>5. OpenInv' /\ BurnedInv'
    BY <1>2, <1>3, <1>4 DEF IInv, OpenInv, BurnedInv, ring, entry
  <1>6. op'.pc = "bring" /\ op'.pin = op.pin /\ op'.same = op.same /\ op'.adopted = op.adopted
    BY <1>1, GotoFacts DEF ForgetGoneUnlocked, Only, OpType
  <1>7. PhaseInv' /\ PinInv' /\ MemInv'
    BY <1>2, <1>3, <1>6
    DEF IInv, PhaseInv, PinInv, MemInv, Opening, Search, Removing, Pruning, Early, ring, entry
  <1>8. SureInv' /\ KeyInv' /\ GuardInv'
    BY <1>6 DEF SureInv, Sure, KeyInv, GuardInv, Guarded
  <1>9. QED
    BY <1>5, <1>7, <1>8 DEF IInv

\* ... the adoption, ...

\* bring_up begins, from the adoption.
LEMMA UpKeeps ==
  ASSUME IInv, op.pc \in {"adopt", "adoptSame"}, UNCHANGED <<ring, disk, files, seen, entry, history>>,
         AdoptEnds
  PROVE  PhaseInv' /\ PinInv' /\ MemInv' /\ SureInv' /\ KeyInv' /\ GuardInv'
  <1>1. op \in OpType /\ "up" \in Pcs
    BY DEF IInv, Typed, Pcs, Calls
  <1>2. CASE open
    BY <1>1, <1>2, EndFacts, EndedKeeps DEF AdoptEnds, IInv, ring, entry
  <1>3. CASE ~open
    <2>1. Only("up")
      BY <1>1, <1>3, GotoFacts DEF AdoptEnds
    <2>2. ~op.adopted /\ op.mem = disk /\ seen = "wanted"
      BY DEF IInv, PhaseInv, MemInv, Early, Pruning
    <2>3. PhaseInv' /\ PinInv'
      BY <1>3, <2>1, <2>2
      DEF IInv, PhaseInv, PinInv, Only, Opening, Search, Removing, Pruning, ring, entry
    <2>4. MemInv'
      BY <2>1, <2>2 DEF MemInv, Only, Early, Search, Removing
    <2>5. SureInv' /\ KeyInv' /\ GuardInv'
      BY <2>1, <2>2 DEF Only, SureInv, Sure, KeyInv, GuardInv, Guarded
    <2>6. QED
      BY <2>3, <2>4, <2>5
  <1>4. QED
    BY <1>2, <1>3

LEMMA AdoptKeeps ==
  ASSUME IInv, Typed', Adopt
  PROVE  IInv'
  <1>1. op \in OpType /\ "adoptSame" \in Pcs /\ coll \in Collections
    BY DEF IInv, Typed, RingTyped, Pcs, Calls
  <1>2. op.pc = "adopt" /\ ~op.adopted /\ op.mem = disk /\ seen = "wanted"
        /\ (open \/ op.mem.coll # Unrecorded)
    BY DEF Adopt, IInv, PhaseInv, MemInv, Early, Pruning
  <1>3. UNCHANGED <<ring, disk, files, seen, keyring, entry, history>>
    BY DEF Adopt
  <1>4. OpenInv' /\ BurnedInv'
    BY <1>3, StillKeeps DEF IInv, files, entry
  <1>5. CASE AdoptEnds
    BY <1>2, <1>3, <1>4, <1>5, UpKeeps DEF IInv
  <1>6. ASSUME NEW k \in Keys, FindAnswers(k), Opens(k),
               op' = [op EXCEPT !.pc = "adoptSame", !.key = k]
        PROVE  IInv'
    <2>1. /\ op'.pc = "adoptSame" /\ op'.key = k /\ op'.mem = op.mem /\ op'.pin = op.pin
          /\ op'.same = op.same /\ op'.adopted = op.adopted
      BY <1>1, <1>6 DEF OpType
    <2>2. k = item[coll]
      BY <1>6, KeyFacts DEF FindAnswers
    <2>3. item[coll] \notin burned
      BY <1>2 DEF IInv, OpenInv, BurnedInv
    <2>4. PhaseInv' /\ PinInv'
      BY <1>2, <1>3, <2>1
      DEF IInv, PhaseInv, PinInv, Opening, Search, Removing, Pruning, ring, entry
    <2>5. MemInv'
      BY <1>2, <1>3, <2>1 DEF MemInv, Early, Search, Removing
    <2>6. SureInv'
      BY <1>1, <1>3, <1>6, <2>1, <2>2, <2>3 DEF IInv, PinInv, SureInv, Excused, ring, history
    <2>7. KeyInv' /\ GuardInv'
      BY <1>3, <1>6, <2>1 DEF KeyInv, GuardInv, Guarded, Opens, files
    <2>8. QED
      BY <1>4, <2>4, <2>5, <2>6, <2>7 DEF IInv
  <1>7. QED
    BY <1>5, <1>6 DEF Adopt

LEMMA AdoptIfSameKeeps ==
  ASSUME IInv, Typed', AdoptIfSame
  PROVE  IInv'
  <1>1. op \in OpType /\ "up" \in Pcs /\ op.mem \in Settings /\ op.pin \in Collections
        /\ coll \in Collections
    BY DEF IInv, Typed, RingTyped, Pcs, Calls, OpType
  <1>2. op.pc = "adoptSame" /\ ~op.adopted /\ op.mem = disk /\ seen = "wanted" /\ Sure
    BY DEF AdoptIfSame, IInv, PhaseInv, MemInv, Early, Pruning, Sure
  <1>3. UNCHANGED <<ring, files, seen, keyring, entry, burned, spoiled>>
    BY DEF AdoptIfSame
  <1>4. CASE NotSamePin /\ AdoptEnds /\ UNCHANGED <<disk, unsaved>>
    <2>1. UNCHANGED <<ring, disk, files, seen, entry, history>>
      BY <1>3, <1>4 DEF history
    <2>2. OpenInv' /\ BurnedInv'
      BY <2>1, StillKeeps DEF IInv, files, entry
    <2>3. QED
      BY <1>2, <1>4, <2>1, <2>2, UpKeeps DEF IInv
  <1>5. CASE /\ op.same /\ lock # "away"
             /\ LET o == [op EXCEPT !.mem.coll = op.pin, !.adopted = TRUE] IN
                /\ Saves(o.mem)
                /\ op' = IF open THEN AfterRound(o) ELSE [o EXCEPT !.pc = "up"]
    <2>1. PICK s : s = [op.mem EXCEPT !.coll = op.pin]
      OBVIOUS
    <2>2. s \in Settings /\ s.coll = op.pin /\ s.pending = op.mem.pending
      BY <1>1, <2>1, SettingsFacts
    <2>3. PICK o : o = [op EXCEPT !.mem.coll = op.pin, !.adopted = TRUE]
      OBVIOUS
    <2>4. o = [op EXCEPT !.mem = s, !.adopted = TRUE]
      BY <2>1, <2>3, Zenon
    <2>5. /\ o \in OpType /\ o.mem = s /\ o.adopted /\ o.pin = op.pin /\ o.same = op.same
          /\ o.key = op.key
      <3> HIDE DEF Settings
      <3>1. QED
        BY <1>1, <2>2, <2>4 DEF OpType
    <2>6. Saves(o.mem) /\ op' = IF open THEN AfterRound(o) ELSE [o EXCEPT !.pc = "up"]
      BY <1>5, <2>3, Zenon
    <2>7. Noting(s) /\ (unsaved => unsaved')
      BY <2>2, <2>5, <2>6, SaveFacts DEF IInv
    <2>8. item[coll] \notin burned /\ disk'.pending = disk.pending
      BY <1>2, <2>2, <2>7 DEF IInv, SureInv, Noting
    <2>9. BurnedInv' /\ OpenInv'
      BY <1>3, <2>7, <2>8 DEF IInv, OpenInv, BurnedInv, Excused, ring, files, entry
    <2>10. CASE open
      <3>1. /\ op'.pc \in {"idle", "pruneKey"} /\ (op'.pc = "pruneKey" => seen' = "gone")
            /\ op'.same => coll' = op'.pin
            /\ open' => seen' = "wanted"
        BY <1>2, <1>3, <2>5, <2>6, <2>10, AfterFacts DEF IInv, PinInv, ring
      <3>2. QED
        BY <2>9, <3>1, RestKeeps DEF IInv
    <2>11. CASE ~open
      <3>1. /\ op'.pc = "up" /\ op'.mem = s /\ op'.adopted /\ op'.pin = op.pin
            /\ op'.same = op.same /\ op'.key = op.key
        BY <1>1, <2>5, <2>6, <2>11 DEF OpType
      <3>2. PhaseInv' /\ PinInv'
        BY <1>2, <1>3, <2>11, <3>1
        DEF IInv, PhaseInv, PinInv, Opening, Search, Removing, Pruning, ring, entry
      <3>3. MemInv'
        BY <1>2, <2>2, <2>8, <3>1 DEF MemInv, Early, Search, Removing
      <3>4. SureInv'
        BY <1>2, <1>3, <2>7, <3>1 DEF IInv, SureInv, Excused, ring
      <3>5. KeyInv' /\ GuardInv'
        BY <1>2, <1>3, <3>1 DEF IInv, KeyInv, GuardInv, Guarded, Opens, files
      <3>6. QED
        BY <2>9, <3>2, <3>3, <3>4, <3>5 DEF IInv
    <2>12. QED
      BY <2>10, <2>11
  <1>6. QED
    BY <1>4, <1>5, Zenon DEF AdoptIfSame

\* ... the search of the key, ...

\* When a store is safe while its key is looked for, its key is in the pinned
\* collection.
LEMMA SafeFacts ==
  ASSUME IInv, op.pc \in Search, Safe
  PROVE  /\ db \in Keys /\ db # NoKey /\ op.mem = disk /\ ~op.mem.pending
         /\ disk.coll = op.pin /\ item[op.pin] = db /\ op.pin \notin spoiled
         /\ Noted = {op.pin}
  <1>1. db \in Keys /\ db # NoKey /\ op.mem = disk /\ ~op.mem.pending
    BY KeyFacts DEF IInv, MemInv, Safe, Good
  <1>2. disk.coll \in {Unrecorded, op.pin} /\ op.pin \in Collections
    BY <1>1 DEF IInv, MemInv, Typed, OpType
  <1>3. PICK c \in Noted : item[c] = db
    BY DEF Safe, Good
  <1>4. disk.coll = op.pin /\ Noted = {op.pin}
    BY <1>2, <1>3, SettingsFacts DEF Noted
  <1>5. QED
    BY <1>1, <1>3, <1>4 DEF Safe

LEMMA BringUpKeeps ==
  ASSUME IInv, Typed', BringUp
  PROVE  IInv'
  <1>1. op \in OpType /\ {"record", "find"} \subseteq Pcs
    BY DEF IInv, Typed, Pcs, Calls
  <1>2. op.pc = "up" /\ ~open /\ seen = "wanted" /\ (op.adopted => op.mem.coll = op.pin)
        /\ (~op.adopted => op.mem = disk)
        /\ (op.mem = disk \/ (op.adopted /\ op.mem.pending = disk.pending))
    BY DEF BringUp, IInv, PhaseInv, MemInv, Opening
  <1>3. UNCHANGED <<ring, disk, dir, seen, keyring, entry, history>>
    BY DEF BringUp
  <1>4. OpenInv' /\ BurnedInv'
    BY <1>2, <1>3 DEF IInv, OpenInv, BurnedInv, ring, entry, history
  <1>5. CASE EndRound
    BY <1>1, <1>3, <1>4, <1>5, EndFacts, EndedKeeps DEF IInv, ring, entry
  <1>6. CASE op.adopted /\ Opens(op.key) /\ Goto("record") /\ db' = op.key
    <2>1. Only("record")
      BY <1>1, <1>6, GotoFacts
    <2>2. PhaseInv' /\ PinInv'
      BY <1>2, <1>3, <2>1
      DEF IInv, PhaseInv, PinInv, Only, Opening, Search, Removing, Pruning, ring, entry
    <2>3. MemInv'
      BY <1>2, <1>3, <1>6, <2>1 DEF MemInv, Only, Early, Search, Removing
    <2>4. SureInv'
      BY <1>2, <1>3, <1>6, <2>1 DEF IInv, SureInv, Sure, Excused, Only, ring, history
    <2>5. KeyInv' /\ GuardInv'
      BY <1>6, <2>1 DEF Only, KeyInv, GuardInv, Guarded
    <2>6. QED
      BY <1>4, <2>2, <2>3, <2>4, <2>5 DEF IInv
  <1>7. CASE /\ op.mem.coll \in {Unrecorded, op.pin} \/ db = NoKey
             /\ ~op.adopted /\ UNCHANGED db
             /\ op' = IF op.mem.pending THEN WithoutKey(op) ELSE [op EXCEPT !.pc = "find"]
    <2>1. /\ op'.pc \in {"find", "newAsk", "rebuildAsk"} /\ op'.mem = op.mem /\ op'.pin = op.pin
          /\ op'.same = op.same /\ op'.adopted = op.adopted
          /\ op'.pc = "find" => ~op.mem.pending
          /\ op'.pc # "find" => op.mem.pending /\ op'.key = NoKey
      BY <1>1, <1>7, WithoutKeyFacts DEF OpType
    <2>2. PhaseInv' /\ PinInv'
      BY <1>2, <1>3, <1>7, <2>1
      DEF IInv, PhaseInv, PinInv, Opening, Search, Removing, Pruning, ring, entry
    <2>3. MemInv'
      BY <1>2, <1>3, <1>7, <2>1 DEF MemInv, Early, Search, Removing
    <2>4. SureInv' /\ KeyInv'
      BY <2>1, <1>7 DEF SureInv, Sure, KeyInv
    <2>5. GuardInv'
      BY <1>2, <1>3, <1>7, <2>1 DEF GuardInv, Guarded, Safe
    <2>6. QED
      BY <1>4, <2>2, <2>3, <2>4, <2>5 DEF IInv
  <1>8. \/ EndRound
        \/ op.adopted /\ Opens(op.key) /\ Goto("record") /\ db' = op.key
        \/ /\ op.mem.coll \in {Unrecorded, op.pin} \/ db = NoKey
           /\ ~op.adopted /\ UNCHANGED db
           /\ op' = IF op.mem.pending THEN WithoutKey(op) ELSE [op EXCEPT !.pc = "find"]
    BY <1>2 DEF BringUp
  <1>9. QED
    BY <1>5, <1>6, <1>7, <1>8

LEMMA FindKeyKeeps ==
  ASSUME IInv, Typed', FindKey
  PROVE  IInv'
  <1>1. op \in OpType /\ {"junkAsk", "record"} \subseteq Pcs /\ coll \in Collections
    BY DEF IInv, Typed, RingTyped, Pcs, Calls
  <1>2. op.pc = "find" /\ ~open /\ seen = "wanted" /\ ~op.adopted /\ op.mem = disk
        /\ ~op.mem.pending /\ (op.mem.coll \in {Unrecorded, op.pin} \/ db = NoKey)
    BY DEF FindKey, IInv, PhaseInv, MemInv, Opening, Search, Pruning
  <1>3. UNCHANGED <<ring, disk, dir, seen, entry, history>>
    BY FindKeyCases DEF IInv
  <1>4. OpenInv' /\ BurnedInv' /\ item[coll] \notin burned
    BY <1>2, <1>3 DEF IInv, OpenInv, BurnedInv, ring, entry, history
  <1>5. CASE CallFails /\ GiveUp /\ UNCHANGED db
    BY <1>1, <1>3, <1>4, <1>5, EndFacts, EndedKeeps DEF GiveUp, IInv, ring, entry
  <1>6. ASSUME NEW k \in Answers, FindAnswers(k),
               \/ k = Junk /\ op' = [Found(k) EXCEPT !.pc = "junkAsk"] /\ UNCHANGED db
               \/ k = NoKey /\ op' = WithoutKey(Found(k)) /\ UNCHANGED db
               \/ /\ k \in Keys /\ Opens(k) /\ db' = k
                  /\ op' = [Found(k) EXCEPT !.pc = "record"]
               \/ k \in Keys /\ ~Opens(k) /\ op' = WithKey(Found(k)) /\ UNCHANGED db
        PROVE  IInv'
    <2>1. PICK o : o = Found(k)
      OBVIOUS
    <2>2. /\ o \in OpType /\ o.mem = op.mem /\ o.pin = op.pin /\ o.same = op.same
          /\ o.adopted = op.adopted /\ (k # item[op.pin] => o.hidden > 0)
          /\ o.key = IF k \in Keys THEN k ELSE NoKey
      BY <1>1, <2>1, FoundFacts DEF OpType
    <2>3. /\ op'.mem = op.mem /\ op'.pin = op.pin /\ op'.same = op.same
          /\ op'.adopted = op.adopted /\ (k # item[op.pin] => op'.hidden > 0)
          /\ op'.key = IF k \in Keys THEN k ELSE NoKey
          /\ \/ k = Junk /\ op'.pc = "junkAsk" /\ UNCHANGED db
             \/ k = NoKey /\ op'.pc = (IF db = NoKey THEN "newAsk" ELSE "rebuildAsk") /\ UNCHANGED db
             \/ k \in Keys /\ Opens(k) /\ db' = k /\ op'.pc = "record"
             \/ /\ k \in Keys /\ ~Opens(k) /\ UNCHANGED db
                /\ op'.pc = IF db = NoKey THEN "clean" ELSE "rebuildAsk"
      <3>1. CASE k = Junk /\ op' = [o EXCEPT !.pc = "junkAsk"] /\ UNCHANGED db
        BY <1>1, <2>2, <3>1 DEF OpType
      <3>2. CASE k = NoKey /\ op' = WithoutKey(o) /\ UNCHANGED db
        BY <2>2, <3>2, WithoutKeyFacts, KeyFacts
      <3>3. CASE /\ k \in Keys /\ Opens(k) /\ db' = k /\ op' = [o EXCEPT !.pc = "record"]
        BY <1>1, <2>2, <3>3 DEF OpType
      <3>4. CASE k \in Keys /\ ~Opens(k) /\ op' = WithKey(o) /\ UNCHANGED db
        BY <2>2, <3>4, WithKeyFacts
      <3>5. QED
        BY <1>6, <2>1, <3>1, <3>2, <3>3, <3>4, Zenon
    <2>4. op'.pc \in {"junkAsk", "newAsk", "rebuildAsk", "record", "clean"}
      BY <2>3
    <2>5. k = item[coll] \/ k = NoKey
      BY <1>6 DEF FindAnswers
    <2>6. PhaseInv' /\ PinInv'
      BY <1>2, <1>3, <2>3, <2>4
      DEF IInv, PhaseInv, PinInv, Opening, Search, Removing, Pruning, ring, entry
    <2>7. MemInv'
      BY <1>2, <1>3, <2>3, <2>4 DEF MemInv, Early, Search, Removing
    <2>8. KeyInv'
      BY <2>3, <2>4 DEF KeyInv
    <2>9. SureInv'
      <3>1. Sure' => k \in Keys /\ op'.key = k
        BY <2>3, KeyFacts DEF Sure
      <3>2. k \in Keys => k = item[coll] /\ k \notin burned
        BY <1>4, <2>5, KeyFacts
      <3>3. op'.same => item[op'.pin] = item[coll]
        BY <2>3 DEF IInv, PinInv
      <3>4. QED
        BY <1>1, <1>3, <3>1, <3>2, <3>3 DEF SureInv, Excused, ring, history
    <2>10. GuardInv'
      <3>1. CASE op'.pc = "record"
        BY <3>1 DEF GuardInv, Guarded
      <3>2. CASE op'.pc # "record"
        <4>1. Safe' => Safe
          BY <1>3, <2>3, <3>2 DEF Safe, Good, Noted, ring, history
        <4>2. Safe => db \in Keys /\ db # NoKey /\ item[op.pin] = db
          BY <1>2, SafeFacts DEF Search, IInv
        <4>3. op.same => coll = op.pin
          BY DEF IInv, PinInv
        <4>4. ASSUME Safe PROVE Guarded'
          <5>1. db \in Keys /\ db # NoKey /\ item[op.pin] = db
            BY <4>2, <4>4
          <5>2. k = Junk => ~op.same
            BY <2>5, <4>3, <5>1, KeyFacts
          <5>3. k = NoKey => op'.hidden > 0
            BY <2>3, <5>1
          <5>4. k \in Keys /\ ~Opens(k) => ~op.same
            BY <2>5, <4>3, <5>1, KeyFacts DEF Opens
          <5>5. QED
            BY <2>3, <3>2, <5>1, <5>2, <5>3, <5>4, KeyFacts DEF Guarded
        <4>5. QED
          BY <4>1, <4>4 DEF GuardInv
      <3>3. QED
        BY <3>1, <3>2
    <2>11. QED
      BY <1>4, <2>6, <2>7, <2>8, <2>9, <2>10 DEF IInv
  <1>7. QED
    BY <1>5, <1>6, FindKeyCases DEF IInv

LEMMA DeleteJunkKeeps ==
  ASSUME IInv, Typed', DeleteJunk
  PROVE  IInv'
  <1>1. op \in OpType
    BY DEF IInv, Typed
  <1>2. op.pc = "junkDelete" /\ ~open /\ seen = "wanted" /\ ~op.adopted /\ op.mem = disk
        /\ (op.mem.coll \in {Unrecorded, op.pin} \/ db = NoKey)
    BY DEF DeleteJunk, IInv, PhaseInv, MemInv, Opening, Search, Pruning
  <1>3. UNCHANGED <<coll, lock, disk, files, seen, entry, history>>
    BY DEF DeleteJunk
  <1>4. Takes
    BY DeleteFacts DEF DeleteJunk, IInv
  <1>5. OpenInv' /\ BurnedInv'
    BY <1>2, <1>3, <1>4, DeleteKeeps DEF files, entry
  <1>6. CASE EndRound
    BY <1>1, <1>3, <1>5, <1>6, EndFacts, EndedKeeps DEF IInv, entry
  <1>7. CASE op' = WithoutKey(op)
    <2>1. /\ op'.pc \in {"newAsk", "rebuildAsk"} /\ op'.mem = op.mem /\ op'.pin = op.pin
          /\ op'.same = op.same /\ op'.adopted = op.adopted /\ op'.key = NoKey
      BY <1>1, <1>7, WithoutKeyFacts
    <2>2. PhaseInv' /\ PinInv'
      BY <1>2, <1>3, <2>1
      DEF IInv, PhaseInv, PinInv, Opening, Search, Removing, Pruning, entry
    <2>3. MemInv'
      BY <1>2, <1>3, <2>1 DEF MemInv, Early, Search, Removing, files
    <2>4. SureInv' /\ KeyInv'
      BY <2>1 DEF SureInv, Sure, KeyInv
    <2>5. ~Safe
      BY <1>2 DEF IInv, GuardInv, Guarded
    <2>6. ~Safe'
      <3>1. item \in [Collections -> Answers] /\ coll \in Collections
        BY DEF IInv, Typed, RingTyped
      <3>2. \A c \in Collections : item'[c] \in Keys => item[c] = item'[c]
        BY <1>4, <3>1, KeyFacts DEF Takes
      <3>3. Noted \subseteq Collections /\ Noted' = Noted
        BY <1>3, SettingsFacts DEF Noted
      <3>4. Good' => Good
        BY <1>3, <3>2, <3>3 DEF Good, files
      <3>5. QED
        BY <1>3, <2>5, <3>3, <3>4 DEF Safe, history
    <2>7. QED
      BY <1>5, <2>2, <2>3, <2>4, <2>6 DEF IInv, GuardInv
  <1>8. QED
    BY <1>6, <1>7 DEF DeleteJunk, GiveUp

LEMMA RebuildFindKeeps ==
  ASSUME IInv, Typed', RebuildFind
  PROVE  IInv'
  <1>1. op \in OpType /\ "newAsk" \in Pcs
    BY DEF IInv, Typed, Pcs, Calls
  <1>2. op.pc = "rebuildFind" /\ ~open /\ seen = "wanted" /\ ~op.adopted /\ op.mem = disk
        /\ (op.mem.coll \in {Unrecorded, op.pin} \/ db = NoKey)
    BY DEF RebuildFind, IInv, PhaseInv, MemInv, Opening, Search, Pruning
  <1>3. UNCHANGED <<ring, disk, files, seen, entry, history>>
    BY DEF RebuildFind
  <1>4. OpenInv' /\ BurnedInv'
    BY <1>3, StillKeeps DEF IInv, files, entry
  <1>5. CASE EndRound
    BY <1>1, <1>3, <1>4, <1>5, EndFacts, EndedKeeps DEF IInv, ring, entry
  <1>6. CASE op' = [op EXCEPT !.pc = "newAsk", !.hidden = @ + Hides(NoKey)]
    <2>1. PICK h \in Nat : h = op.hidden + Hides(NoKey)
      BY <1>1, FoundFacts, KeyFacts DEF OpType
    <2>2. op' = [op EXCEPT !.pc = "newAsk", !.hidden = h]
      BY <1>6, <2>1, Zenon
    <2>3. /\ op'.pc = "newAsk" /\ op'.mem = op.mem /\ op'.pin = op.pin
          /\ op'.same = op.same /\ op'.adopted = op.adopted /\ op'.hidden = h
      BY <1>1, <2>2 DEF OpType
    <2>4. PhaseInv' /\ PinInv'
      BY <1>2, <1>3, <2>3
      DEF IInv, PhaseInv, PinInv, Opening, Search, Removing, Pruning, ring, entry
    <2>5. MemInv'
      BY <1>2, <1>3, <2>3 DEF MemInv, Early, Search, Removing, files
    <2>6. SureInv' /\ KeyInv'
      BY <2>3 DEF SureInv, Sure, KeyInv
    <2>7. Safe' => Safe
      BY <1>3 DEF Safe, Good, Noted, ring, files, history
    <2>8. Safe => h > 1
      <3>1. Safe => op.hidden > 0 /\ Hides(NoKey) = 1
        BY <1>1, <1>2, SafeFacts, FoundFacts, KeyFacts DEF IInv, GuardInv, Guarded, Search
      <3>2. QED
        BY <1>1, <2>1, <3>1 DEF OpType
    <2>9. GuardInv'
      BY <2>3, <2>7, <2>8 DEF GuardInv, Guarded
    <2>10. QED
      BY <1>4, <2>4, <2>5, <2>6, <2>9 DEF IInv
  <1>7. QED
    <2>1. \/ EndRound
          \/ op' = [op EXCEPT !.pc = "newAsk", !.hidden = @ + Hides(NoKey)]
      BY Zenon DEF RebuildFind, GiveUp
    <2>2. QED
      BY <1>5, <1>6, <2>1

\* ... the new key, ...
LEMMA NewKeyKeeps ==
  ASSUME IInv, Typed', NewKey
  PROVE  IInv'
  <1>1. op \in OpType /\ "newStore" \in Pcs
    BY DEF IInv, Typed, Pcs, Calls
  <1>2. op.pc = "newAsk" /\ ~open /\ seen = "wanted" /\ ~op.adopted /\ op.mem = disk
        /\ (op.mem.coll \in {Unrecorded, op.pin} \/ db = NoKey)
    BY DEF NewKey, IInv, PhaseInv, MemInv, Opening, Search, Pruning
  <1>3. UNCHANGED <<ring, disk, files, seen, entry, spoiled, unsaved>> /\ burned' \subseteq burned
    BY DEF NewKey
  <1>4. OpenInv' /\ BurnedInv'
    BY <1>2, <1>3 DEF IInv, OpenInv, BurnedInv, ring, files, entry
  <1>5. CASE EndRound
    BY <1>1, <1>3, <1>4, <1>5, EndFacts, EndedKeeps DEF IInv, ring, entry
  <1>6. ASSUME NEW k \in Keys \ Held, op' = [op EXCEPT !.pc = "newStore", !.key = k],
               burned' = burned \ {k}
        PROVE  IInv'
    <2>1. /\ op'.pc = "newStore" /\ op'.mem = op.mem /\ op'.pin = op.pin /\ op'.key = k
          /\ op'.same = op.same /\ op'.adopted = op.adopted /\ op'.hidden = op.hidden
      BY <1>1, <1>6 DEF OpType
    <2>2. PhaseInv' /\ PinInv'
      BY <1>2, <1>3, <2>1
      DEF IInv, PhaseInv, PinInv, Opening, Search, Removing, Pruning, ring, entry
    <2>3. MemInv'
      BY <1>2, <1>3, <2>1 DEF MemInv, Early, Search, Removing, files
    <2>4. k # db /\ \A c \in Collections : item[c] # k
      BY <1>6 DEF Held
    <2>5. SureInv' /\ KeyInv'
      BY <1>3, <1>6, <2>1, <2>4 DEF SureInv, Sure, KeyInv, ring, files
    <2>6. Safe' => Safe
      BY <1>3 DEF Safe, Good, Noted, ring, files
    <2>7. GuardInv'
      BY <1>2, <2>1, <2>6 DEF IInv, GuardInv, Guarded
    <2>8. QED
      BY <1>4, <2>2, <2>3, <2>5, <2>7 DEF IInv
  <1>7. QED
    BY <1>5, <1>6 DEF NewKey, GiveUp

LEMMA StoreNewKeyKeeps ==
  ASSUME IInv, Typed', StoreNewKey
  PROVE  IInv'
  <1>1. op \in OpType /\ "newFind" \in Pcs /\ coll \in Collections
        /\ item \in [Collections -> Answers] /\ op.pin \in Collections
    BY DEF IInv, Typed, RingTyped, Pcs, Calls, OpType
  <1>2. op.pc = "newStore" /\ ~open /\ seen = "wanted" /\ ~op.adopted /\ op.mem = disk
        /\ (op.mem.coll \in {Unrecorded, op.pin} \/ db = NoKey)
    BY DEF StoreNewKey, IInv, PhaseInv, MemInv, Opening, Search, Pruning
  <1>3. UNCHANGED <<coll, lock, disk, files, seen, entry, burned, unsaved>>
    BY DEF StoreNewKey
  <1>4. op.key \in Keys /\ op.key \notin burned /\ op.key # db
    BY <1>2 DEF IInv, KeyInv
  <1>5. \/ item' = [item EXCEPT ![coll] = op.key] /\ spoiled' = spoiled \ {coll}
        \/ UNCHANGED <<item, spoiled>>
    BY DEF StoreNewKey
  <1>6. OpenInv' /\ BurnedInv'
    BY <1>1, <1>2, <1>3, <1>4, <1>5 DEF IInv, OpenInv, BurnedInv, files, entry
  <1>7. CASE EndRound
    BY <1>1, <1>3, <1>6, <1>7, EndFacts, EndedKeeps DEF IInv, entry
  <1>8. CASE Goto("newFind")
    <2>1. Only("newFind")
      BY <1>1, <1>8, GotoFacts
    <2>2. PhaseInv' /\ PinInv'
      BY <1>2, <1>3, <2>1
      DEF IInv, PhaseInv, PinInv, Only, Opening, Search, Removing, Pruning, entry
    <2>3. MemInv'
      BY <1>2, <1>3, <2>1 DEF MemInv, Only, Early, Search, Removing, files
    <2>4. SureInv' /\ KeyInv'
      BY <1>3, <1>4, <2>1 DEF SureInv, Sure, KeyInv, Only
    <2>5. Safe' => Safe
      <3>1. SUFFICES ASSUME Safe' PROVE Safe
        OBVIOUS
      <3>2. db \in Keys /\ Noted' = Noted /\ Noted \subseteq Collections
        BY <1>3, <3>1, SettingsFacts DEF Safe, Good, Noted, files
      <3>3. PICK c \in Noted : item'[c] = db
        BY <1>3, <3>1, <3>2 DEF Safe, Good, files
      <3>4. Noted = {c}
        <4>1. disk.coll \in {Unrecorded, op.pin}
          BY <1>2, <3>2, KeyFacts
        <4>2. QED
          BY <1>1, <3>3, <4>1, SettingsFacts DEF Noted
      <3>5. item[c] = db /\ c \notin spoiled
        BY <1>1, <1>4, <1>5, <3>1, <3>2, <3>3, <3>4 DEF Safe
      <3>6. QED
        BY <1>3, <3>1, <3>2, <3>4, <3>5 DEF Safe, Good
    <2>6. GuardInv'
      BY <1>2, <2>1, <2>5 DEF IInv, GuardInv, Guarded, Only
    <2>7. QED
      BY <1>6, <2>2, <2>3, <2>4, <2>6 DEF IInv
  <1>9. QED
    BY <1>7, <1>8 DEF StoreNewKey, GiveUp

LEMMA CleanKeeps ==
  ASSUME IInv, Typed', CleanDir
  PROVE  IInv'
  <1>1. op \in OpType /\ "create" \in Pcs
    BY DEF IInv, Typed, Pcs, Calls
  <1>2. op.pc = "clean" /\ ~open /\ seen = "wanted" /\ ~op.adopted /\ op.mem = disk
    BY DEF CleanDir, IInv, PhaseInv, MemInv, Opening, Search, Pruning
  <1>3. UNCHANGED <<ring, disk, seen, keyring, entry, history>>
    BY DEF CleanDir
  <1>4. OpenInv' /\ BurnedInv'
    BY <1>2, <1>3 DEF IInv, OpenInv, BurnedInv, ring, entry, history
  <1>5. CASE EndRound
    BY <1>1, <1>3, <1>4, <1>5, EndFacts, EndedKeeps DEF IInv, ring, entry
  <1>6. CASE RemovesFiles /\ Goto("create")
    <2>1. Only("create") /\ db' = NoKey
      BY <1>1, <1>6, GotoFacts, FilesFacts DEF IInv
    <2>2. PhaseInv' /\ PinInv'
      BY <1>2, <1>3, <2>1
      DEF IInv, PhaseInv, PinInv, Only, Opening, Search, Removing, Pruning, ring, entry
    <2>3. MemInv'
      BY <1>2, <1>3, <2>1 DEF MemInv, Only, Early, Search, Removing
    <2>4. SureInv'
      BY <1>2, <1>3, <2>1 DEF IInv, SureInv, Sure, Excused, Only, ring, history
    <2>5. KeyInv' /\ GuardInv'
      BY <2>1, KeyFacts DEF KeyInv, GuardInv, Safe, Good, Only
    <2>6. QED
      BY <1>4, <2>2, <2>3, <2>4, <2>5 DEF IInv
  <1>7. QED
    BY <1>5, <1>6 DEF CleanDir

LEMMA CreateKeeps ==
  ASSUME IInv, Typed', CreateStore
  PROVE  IInv'
  <1>1. op \in OpType /\ "record" \in Pcs
    BY DEF IInv, Typed, Pcs, Calls
  <1>2. op.pc = "create" /\ ~open /\ seen = "wanted" /\ ~op.adopted /\ op.mem = disk
    BY DEF CreateStore, IInv, PhaseInv, MemInv, Opening, Search, Pruning
  <1>3. UNCHANGED <<ring, disk, seen, keyring, entry, history>>
    BY DEF CreateStore
  <1>4. OpenInv' /\ BurnedInv'
    BY <1>2, <1>3 DEF IInv, OpenInv, BurnedInv, ring, entry, history
  <1>5. CASE EndRound
    BY <1>1, <1>3, <1>4, <1>5, EndFacts, EndedKeeps DEF IInv, ring, entry
  <1>6. CASE db' = op.key /\ Goto("record")
    <2>1. Only("record")
      BY <1>1, <1>6, GotoFacts
    <2>2. PhaseInv' /\ PinInv'
      BY <1>2, <1>3, <2>1
      DEF IInv, PhaseInv, PinInv, Only, Opening, Search, Removing, Pruning, ring, entry
    <2>3. MemInv'
      BY <1>2, <1>3, <2>1 DEF MemInv, Only, Early, Search, Removing
    <2>4. SureInv'
      BY <1>2, <1>3, <2>1 DEF IInv, SureInv, Sure, Excused, Only, ring, history
    <2>5. KeyInv' /\ GuardInv'
      BY <1>6, <2>1 DEF KeyInv, GuardInv, Guarded, Only
    <2>6. QED
      BY <1>4, <2>2, <2>3, <2>4, <2>5 DEF IInv
  <1>7. QED
    BY <1>5, <1>6 DEF CreateStore

LEMMA RecordKeeps ==
  ASSUME IInv, Typed', RecordCollection
  PROVE  IInv'
  <1>1. op.pc = "record" /\ ~open /\ seen = "wanted"
        /\ op.mem.pending = disk.pending /\ (op.adopted => op.mem.coll = op.pin)
    BY DEF RecordCollection, IInv, PhaseInv, MemInv, Opening
  <1>2. UNCHANGED <<ring, files, seen, keyring, entry, burned, spoiled>>
    BY DEF RecordCollection
  <1>3. PICK s \in Settings :
          /\ op'.mem = s /\ op'.pc = "unnote" /\ op'.pin = op.pin /\ op'.same = op.same
          /\ op'.key = op.key /\ op'.adopted = op.adopted
          /\ s.pending = op.mem.pending
          /\ \/ s = op.mem /\ op.mem.coll = op.pin /\ UNCHANGED <<disk, unsaved>>
             \/ op.mem.coll # op.pin /\ Noting(s)
    BY RecordFacts DEF IInv
  <1>4. unsaved => unsaved'
    BY <1>3 DEF Noting
  <1>5. disk'.pending = disk.pending /\ (op.adopted => s.coll = op.pin)
    BY <1>1, <1>3 DEF Noting
  <1>6. OpenInv' /\ BurnedInv'
    <2>1. item[coll] \notin burned
      BY <1>1 DEF IInv, SureInv, Sure
    <2>2. QED
      BY <1>1, <1>2, <2>1 DEF OpenInv, BurnedInv, ring, entry
  <1>7. PhaseInv' /\ PinInv'
    BY <1>1, <1>2, <1>3
    DEF IInv, PhaseInv, PinInv, Opening, Search, Removing, Pruning, ring, entry
  <1>8. MemInv'
    BY <1>1, <1>3, <1>5 DEF MemInv, Early, Search, Removing
  <1>9. SureInv'
    BY <1>1, <1>2, <1>3, <1>4 DEF IInv, SureInv, Sure, Excused, ring
  <1>10. KeyInv' /\ GuardInv'
    BY <1>1, <1>2, <1>3 DEF IInv, KeyInv, GuardInv, Guarded, files
  <1>11. QED
    BY <1>6, <1>7, <1>8, <1>9, <1>10 DEF IInv

LEMMA UnnoteKeeps ==
  ASSUME IInv, Typed', UnnotePending
  PROVE  IInv'
  <1>1. op \in OpType /\ op.mem \in Settings
    BY DEF IInv, Typed, OpType
  <1>2. op.pc = "unnote" /\ seen = "wanted" /\ op.mem.pending = disk.pending /\ db = op.key
    BY DEF UnnotePending, IInv, PhaseInv, MemInv, KeyInv, Opening
  <1>3. UNCHANGED <<ring, files, seen, keyring, burned, spoiled>> /\ EndRound
    BY DEF UnnotePending
  <1>4. (disk'.pending => unsaved') /\ (unsaved => unsaved')
    <2>1. CASE op.mem.pending
      <3>1. PICK s \in Settings : s = [op.mem EXCEPT !.pending = FALSE]
        BY <1>1, SettingsTyped
      <3>2. ~s.pending
        BY <1>1, <3>1, SettingsFacts
      <3>3. Saves(s)
        BY <2>1, <3>1, Zenon DEF UnnotePending
      <3>4. QED
        BY <3>2, <3>3, SaveFacts DEF Noting, IInv
    <2>2. CASE ~op.mem.pending
      BY <1>2, <2>2 DEF UnnotePending
    <2>3. QED
      BY <2>1, <2>2
  <1>5. /\ op.key \notin burned /\ item[coll] \notin burned
        /\ Excused \/ \E c \in Collections : item[c] = op.key
    BY <1>2 DEF IInv, SureInv, Sure
  <1>6. OpenInv' /\ BurnedInv'
    BY <1>2, <1>3, <1>4, <1>5 DEF OpenInv, BurnedInv, Excused, ring, files
  <1>7. Ended
    BY <1>1, <1>3, EndFacts
  <1>8. /\ op'.pc \in {"idle", "pruneKey"} /\ (op'.pc = "pruneKey" => seen' = "gone")
        /\ op'.same => coll' = op'.pin
        /\ seen' = "wanted"
    BY <1>2, <1>3, <1>7 DEF Ended, IInv, PinInv, ring
  <1>9. PhaseInv' /\ PinInv' /\ MemInv' /\ SureInv' /\ KeyInv' /\ GuardInv'
    BY <1>8, RestKeeps
  <1>10. QED
    BY <1>6, <1>9 DEF IInv

\* ... the removal, ...
LEMMA RemoveKeeps ==
  ASSUME IInv, Typed', RemoveKey \/ NoteRemoval \/ RemoveFiles \/ PruneKey \/ PruneFiles
  PROVE  IInv'
  <1>1. op \in OpType /\ {"rmNote", "pruneFiles", "pin"} \subseteq Pcs /\ "round" \in Kinds
        /\ disk \in Settings
    BY DEF IInv, Typed, FileTyped, Pcs, Calls, Kinds
  <1>2. ~open
    BY DEF RemoveKey, NoteRemoval, RemoveFiles, PruneKey, PruneFiles, IInv, PhaseInv, Removing,
           Pruning
  <1>3. UNCHANGED <<coll, seen, open>>
    BY DEF RemoveKey, NoteRemoval, RemoveFiles, PruneKey, PruneFiles, ring, entry
  <1>4. OpenInv'
    BY <1>2, <1>3 DEF OpenInv
  <1>5. CASE RemoveKey
    <2>1. UNCHANGED <<coll, lock, disk, files, seen, keyring, entry, history>> /\ op.pc = "rmKey"
      BY <1>5 DEF RemoveKey
    <2>2. Takes /\ Only("rmNote")
      BY <1>1, <1>5, DeleteFacts, GotoFacts DEF RemoveKey, IInv
    <2>3. BurnedInv'
      BY <1>2, <2>1, <2>2, DeleteKeeps DEF files, entry
    <2>4. ~op.adopted /\ op.mem = disk /\ (~disk.enabled \/ op.kind = "clear")
      BY <2>1 DEF IInv, PhaseInv, MemInv, Removing, Pruning
    <2>5. PhaseInv' /\ PinInv' /\ MemInv'
      BY <1>2, <2>1, <2>2, <2>4 DEF IInv, PhaseInv, PinInv, MemInv, Only, Opening, Search, Removing,
                                    Pruning, Early, entry
    <2>6. SureInv' /\ KeyInv' /\ GuardInv'
      BY <2>2 DEF Only, SureInv, Sure, KeyInv, GuardInv, Guarded
    <2>7. QED
      BY <1>4, <2>3, <2>5, <2>6 DEF IInv
  <1>6. CASE NoteRemoval
    <2>1. UNCHANGED <<ring, files, seen, keyring, entry, spoiled>> /\ op.pc = "rmNote"
      BY <1>6 DEF NoteRemoval
    <2>2. /\ Removal.enabled = op.mem.enabled /\ Removal.pending /\ Removal.coll = Unrecorded
          /\ op'.pc = "rmFiles" /\ op'.kind = op.kind /\ op'.pin = op.pin
          /\ op'.same = op.same /\ op'.adopted = op.adopted /\ Noting(Removal)
          /\ burned' = IF disk' = Removal THEN burned \cup (Held \cap Keys) ELSE burned
      BY <1>6, NoteRemovalFacts, SaveFacts DEF IInv
    <2>3. BurnedInv'
      BY <2>1, <2>2 DEF IInv, BurnedInv, Noting, ring
    <2>4. ~op.adopted /\ op.mem = disk /\ (~disk.enabled \/ op.kind = "clear")
      BY <2>1 DEF IInv, PhaseInv, MemInv, Removing, Pruning
    <2>5. PhaseInv' /\ PinInv' /\ MemInv'
      BY <1>2, <2>1, <2>2, <2>4 DEF IInv, PhaseInv, PinInv, MemInv, Noting, Opening, Search,
                                    Removing, Pruning, Early, ring, entry
    <2>6. SureInv' /\ KeyInv' /\ GuardInv'
      BY <2>2 DEF SureInv, Sure, KeyInv, GuardInv, Guarded
    <2>7. QED
      BY <1>4, <2>3, <2>5, <2>6 DEF IInv
  <1>7. CASE RemoveFiles
    <2>1. UNCHANGED <<ring, disk, seen, keyring, entry, history>>
      BY <1>7 DEF RemoveFiles
    <2>2. BurnedInv'
      BY <2>1 DEF IInv, BurnedInv, ring, history
    <2>3. CASE op' = Start("round", "pin", disk)
      <3>1. op'.pc = "pin" /\ op'.mem = disk' /\ ~op'.same /\ ~op'.adopted
        BY <1>1, <2>1, <2>3, StartFacts
      <3>2. QED
        BY <1>2, <1>3, <1>4, <2>2, <3>1, RestKeeps DEF IInv
    <2>4. CASE EndRound
      BY <1>1, <1>2, <1>3, <1>4, <2>2, <2>4, EndFacts, EndedKeeps DEF IInv
    <2>5. QED
      BY <1>7, <2>3, <2>4 DEF RemoveFiles, EndRound
  <1>8. CASE PruneKey
    <2>1. UNCHANGED <<coll, lock, disk, files, seen, keyring, entry, history>> /\ op.pc = "pruneKey"
      BY <1>8 DEF PruneKey
    <2>2. Takes /\ Only("pruneFiles")
      BY <1>1, <1>8, DeleteFacts, GotoFacts DEF PruneKey, IInv, Takes
    <2>3. BurnedInv'
      BY <1>2, <2>1, <2>2, DeleteKeeps DEF files, entry
    <2>4. PhaseInv' /\ PinInv' /\ MemInv'
      BY <1>2, <2>1, <2>2 DEF IInv, PhaseInv, PinInv, MemInv, Only, Opening, Search, Removing,
                              Pruning, Early, entry
    <2>5. SureInv' /\ KeyInv' /\ GuardInv'
      BY <2>2 DEF Only, SureInv, Sure, KeyInv, GuardInv, Guarded
    <2>6. QED
      BY <1>4, <2>3, <2>4, <2>5 DEF IInv
  <1>9. CASE PruneFiles
    <2>1. UNCHANGED <<ring, burned>> /\ op' = Idle
      BY <1>9 DEF PruneFiles
    <2>2. disk' = disk \/ (disk'.pending = disk.pending /\ disk'.coll = Unrecorded)
      BY <1>1, <1>9, SettingsFacts DEF PruneFiles
    <2>3. BurnedInv'
      BY <2>1, <2>2 DEF IInv, BurnedInv, ring
    <2>4. QED
      BY <1>2, <1>3, <1>4, <2>1, <2>3, IdleFacts, RestKeeps DEF IInv
  <1>10. QED
    BY <1>5, <1>6, <1>7, <1>8, <1>9

\* ... and the key ring, the others and the end of the process.
LEMMA RingKeeps ==
  ASSUME IInv, Typed', RingChanges \/ UNCHANGED vars
  PROVE  IInv'
  <1>1. UNCHANGED <<coll, item, disk, files, seen, open, op, history>>
    BY DEF RingChanges, vars, ring, files, entry, history
  <1>2. PhaseInv' /\ PinInv' /\ MemInv'
    BY <1>1 DEF IInv, PhaseInv, PinInv, MemInv, files
  <1>3. SureInv' /\ KeyInv' /\ OpenInv' /\ BurnedInv'
    BY <1>1 DEF IInv, SureInv, Sure, Excused, KeyInv, Opens, OpenInv, BurnedInv, files, history
  <1>4. GuardInv'
    BY <1>1 DEF IInv, GuardInv, Guarded, Safe, Good, Noted, files, history
  <1>5. QED
    BY <1>2, <1>3, <1>4 DEF IInv

\* What a change of the items does to the invariant, when it takes no key but
\* those of collections that count as spoiled.
LEMMA ItemsKeep ==
  ASSUME IInv, Typed', UNCHANGED <<disk, files, seen, open, unsaved>>,
         /\ op'.pc = op.pc /\ op'.kind = op.kind /\ op'.mem = op.mem /\ op'.pin = op.pin
         /\ op'.key = op.key /\ op'.adopted = op.adopted /\ op'.hidden = op.hidden,
         op'.same => op.same /\ coll' = coll,
         burned' \subseteq burned, spoiled \subseteq spoiled',
         item'[coll'] \in burned' => item[coll] \in burned,
         \A c \in Collections : item'[c] # item[c] => c \in spoiled',
         \A c \in Collections : item'[c] \in {NoKey, Junk} \cup {item[x] : x \in Collections}
  PROVE  IInv'
  <1>1. PhaseInv' /\ PinInv' /\ MemInv'
    BY DEF IInv, PhaseInv, PinInv, MemInv, files
  <1>2. OpenInv' /\ BurnedInv'
    BY DEF IInv, OpenInv, BurnedInv, Excused, files
  <1>3. op.pin \in Collections
    BY DEF IInv, Typed, OpType
  <1>4. SureInv'
    BY <1>3 DEF IInv, SureInv, Sure, Excused
  <1>5. KeyInv'
    BY KeyFacts DEF IInv, KeyInv, Opens, files
  <1>6. GuardInv'
    <2>1. Noted' = Noted /\ Noted \subseteq Collections
      BY SettingsFacts DEF Noted
    <2>2. Safe' => Safe
      BY <2>1 DEF Safe, Good, files
    <2>3. QED
      BY <2>2 DEF IInv, GuardInv, Guarded
  <1>7. QED
    BY <1>1, <1>2, <1>4, <1>5, <1>6 DEF IInv

LEMMA SwitchKeeps ==
  ASSUME IInv, Typed', NEW c \in Collections, NEW copied \in BOOLEAN, Switch(c, copied)
  PROVE  IInv'
  <1>1. op \in OpType /\ item \in [Collections -> Answers] /\ coll \in Collections
    BY DEF IInv, Typed, RingTyped
  <1>2. UNCHANGED <<lock, disk, files, seen, keyring, entry, unsaved>>
    BY DEF Switch
  <1>3. /\ op'.pc = op.pc /\ op'.kind = op.kind /\ op'.mem = op.mem /\ op'.pin = op.pin
        /\ op'.key = op.key /\ op'.adopted = op.adopted /\ op'.hidden = op.hidden /\ ~op'.same
    BY <1>1 DEF Switch, OpType
  <1>4. /\ coll' = c
        /\ item' = IF copied THEN [item EXCEPT ![c] = item[coll]] ELSE item
        /\ spoiled' = IF item' # item THEN spoiled \cup {c} ELSE spoiled
        /\ burned' = IF copied \/ c = coll THEN burned ELSE burned \ {item[c]}
    BY Zenon DEF Switch
  <1>5. burned' \subseteq burned /\ spoiled \subseteq spoiled'
    BY <1>4
  <1>6. item'[coll'] \in burned' => item[coll] \in burned
    BY <1>1, <1>4
  <1>7. \A x \in Collections : /\ item'[x] # item[x] => x \in spoiled'
                               /\ item'[x] \in {item[y] : y \in Collections}
    <2>1. CASE copied
      BY <1>1, <1>4, <2>1
    <2>2. CASE ~copied
      BY <1>4, <2>2
    <2>3. QED
      BY <2>1, <2>2
  <1>8. QED
    BY <1>2, <1>3, <1>5, <1>6, <1>7, ItemsKeep DEF entry

LEMMA MeddleKeeps ==
  ASSUME IInv, Typed', Meddle
  PROVE  IInv'
  <1>1. item \in [Collections -> Answers] /\ coll \in Collections /\ burned \subseteq Keys
    BY DEF IInv, Typed, RingTyped, HistoryTyped
  <1>2. UNCHANGED <<coll, lock, disk, files, seen, keyring, entry, op, burned, unsaved>>
        /\ spoiled' = spoiled \cup {coll}
    BY DEF Meddle
  <1>3. PICK k \in {NoKey, Junk} : item' = [item EXCEPT ![coll] = k]
    BY DEF Meddle
  <1>4. item'[coll'] \notin burned'
    BY <1>1, <1>2, <1>3, KeyFacts
  <1>5. \A x \in Collections : /\ item'[x] # item[x] => x \in spoiled'
                               /\ item'[x] \in {NoKey, Junk} \cup {item[y] : y \in Collections}
    BY <1>1, <1>2, <1>3
  <1>6. QED
    BY <1>2, <1>4, <1>5, ItemsKeep DEF entry

LEMMA CrashKeeps ==
  ASSUME IInv, Typed', Crash
  PROVE  IInv'
  <1>1. UNCHANGED <<ring, disk, files, history>> /\ ~open' /\ op' = Idle
    BY DEF Crash, Close
  <1>2. OpenInv' /\ BurnedInv'
    BY <1>1 DEF IInv, OpenInv, BurnedInv, ring, history
  <1>3. QED
    BY <1>1, <1>2, IdleFacts, RestKeeps DEF IInv
-----------------------------------------------------------------------------
LEMMA InitIInv == Init => IInv
  <1> SUFFICES ASSUME Init PROVE IInv
    OBVIOUS
  <1>1. op = Idle /\ ~open /\ burned = {}
    BY DEF Init
  <1>2. PhaseInv /\ PinInv /\ MemInv
    BY <1>1, IdleFacts DEF PhaseInv, PinInv, MemInv, Opening, Search, Removing, Pruning, Early
  <1>3. SureInv /\ KeyInv /\ GuardInv
    BY <1>1, IdleFacts DEF SureInv, Sure, KeyInv, GuardInv, Guarded
  <1>4. OpenInv /\ BurnedInv
    BY <1>1 DEF OpenInv, BurnedInv
  <1>5. QED
    BY <1>2, <1>3, <1>4, InitTyped DEF IInv

LEMMA StepIInv == IInv /\ [Next]_vars => IInv'
  <1> SUFFICES ASSUME IInv, [Next]_vars PROVE IInv'
    OBVIOUS
  <1>1. Typed'
    BY StepTyped DEF IInv
  <1>2. CASE Step
    BY <1>1, <1>2, AskKeeps, PinKeeps, AskLockedKeeps, FlushKeeps, BringKeeps, ForgetKeeps,
       AdoptKeeps, AdoptIfSameKeeps, BringUpKeeps, FindKeyKeeps, DeleteJunkKeeps, RebuildFindKeeps,
       NewKeyKeeps, StoreNewKeyKeeps, CleanKeeps, CreateKeeps, RecordKeeps, UnnoteKeeps,
       RemoveKeeps, StartKeeps, Zenon DEF Step
  <1>3. CASE Asked
    BY <1>1, <1>3, StartKeeps, ReadKeeps, Zenon DEF Asked
  <1>4. CASE Around
    BY <1>1, <1>4, RingKeeps, MeddleKeeps, CrashKeeps, SwitchKeeps DEF Around
  <1>5. CASE UNCHANGED vars
    BY <1>1, <1>5, RingKeeps
  <1>6. QED
    BY <1>2, <1>3, <1>4, <1>5 DEF Next

LEMMA AlwaysIInv == Spec => []IInv
  BY InitIInv, StepIInv, PTL DEF Spec

\* Whatever the key ring, the collections and the crashes do, the key of an open
\* store is in some collection, or was taken by somebody else, or the note of an
\* old one was lost; and it is not a key that was to go.
THEOREM LifecycleOpenKey == Spec => []OpenStoreHasItsKey
  <1>1. IInv => OpenStoreHasItsKey
    BY DEF IInv, OpenInv, Excused, OpenStoreHasItsKey
  <1>2. QED
    BY <1>1, AlwaysIInv, PTL
-----------------------------------------------------------------------------
(* GoodStoreSurvives.                                                      *)

Kept == (Good /\ ~Good') => Unwanted \/ op.hidden > 1 \/ Noted' \cap (spoiled \cup spoiled') # {}

\* Nothing is lost by who takes no key and no file, and notes nothing.
LEMMA StillGood ==
  ASSUME item' = item, disk'.coll = disk.coll, db' = db
  PROVE  Kept
  BY DEF Kept, Good, Noted

LEMMA UnwantedKept ==
  ASSUME Unwanted
  PROVE  Kept
  BY DEF Kept

LEMMA PlainKept ==
  ASSUME IInv,
         \/ PinCollection \/ AskLocked \/ ForgetGone \/ BringAccount \/ Adopt \/ JunkUnlocked
         \/ JunkSamePin \/ RebuildUnlocked \/ RebuildSamePin \/ RebuildFind \/ NewKey
         \/ FindNewKey \/ LastSamePin \/ RemoveAsk \/ WriteEnds \/ Asked \/ RingChanges \/ Crash
         \/ UNCHANGED vars
  PROVE  Kept
  <1>1. UNCHANGED <<item, db>> /\ disk'.coll = disk.coll
    <2>1. disk \in Settings
      BY DEF IInv, Typed, FileTyped
    <2>2. CASE \/ PinCollection \/ ForgetGone \/ BringAccount \/ Adopt \/ JunkUnlocked
               \/ JunkSamePin \/ RebuildUnlocked \/ RebuildSamePin \/ RebuildFind \/ NewKey
               \/ FindNewKey \/ LastSamePin \/ RemoveAsk \/ WriteEnds \/ RingChanges \/ Crash
               \/ UNCHANGED vars
      BY <2>2 DEF PinCollection, ForgetGone, BringAccount, Adopt, JunkUnlocked, JunkSamePin,
                  RebuildUnlocked, RebuildSamePin, RebuildFind, NewKey, FindNewKey, LastSamePin,
                  RemoveAsk, WriteEnds, RingChanges, Crash, NoRing, ring, files, vars
    <2>3. CASE Asked
      BY <2>1, <2>3, SettingsFacts
      DEF Asked, AccountsListed, Refresh, Enable, Disable, Clear, WithStore, Read, ring, files
    <2>4. CASE AskLocked
      <3>1. NoRing \/ UNCHANGED <<ring, disk, files>>
        BY <2>4 DEF AskLocked
      <3>2. QED
        BY <3>1 DEF NoRing, ring, files
    <2>5. QED
      BY <2>2, <2>3, <2>4
  <1>2. QED
    BY <1>1, StillGood

\* The key of a store that is wanted goes only with the store of nobody.
LEMMA WantedKept ==
  ASSUME IInv,
         \/ FlushPending \/ SweepOrphans \/ ForgetGoneUnlocked \/ RemoveKey \/ NoteRemoval
         \/ RemoveFiles \/ PruneKey \/ PruneFiles
         \/ UnnotePending /\ op.mem.pending
  PROVE  Kept
  <1>1. CASE FlushPending
    BY <1>1, UnwantedKept DEF FlushPending, IInv, MemInv, Early, Unwanted
  <1>2. CASE SweepOrphans \/ ForgetGoneUnlocked \/ PruneKey \/ PruneFiles
    BY <1>2, UnwantedKept
    DEF SweepOrphans, ForgetGoneUnlocked, PruneKey, PruneFiles, IInv, PhaseInv, Pruning, Unwanted
  <1>3. CASE RemoveKey \/ NoteRemoval \/ RemoveFiles
    BY <1>3, UnwantedKept
    DEF RemoveKey, NoteRemoval, RemoveFiles, IInv, PhaseInv, Removing, Unwanted
  <1>4. CASE UnnotePending /\ op.mem.pending
    BY <1>4, UnwantedKept DEF UnnotePending, IInv, MemInv, Unwanted
  <1>5. QED
    BY <1>1, <1>2, <1>3, <1>4

\* A key adopted, or one that opens, is the one that was there.
LEMMA OpeningKept ==
  ASSUME IInv, Typed',
         \/ AdoptIfSame \/ BringUp \/ FindKey \/ RecordCollection
         \/ UnnotePending /\ ~op.mem.pending
  PROVE  Kept
  <1>1. CASE UnnotePending /\ ~op.mem.pending
    BY <1>1, StillGood DEF UnnotePending, ring, files
  <1>2. CASE BringUp \/ FindKey
    <2>1. UNCHANGED <<item, disk>> /\ (db' = db \/ db \notin Keys)
      <3>1. CASE BringUp
        <4>1. op.pc = "up"
          BY <3>1 DEF BringUp
        <4>2. op.adopted => Opens(op.key)
          BY <4>1 DEF IInv, KeyInv
        <4>3. UNCHANGED db \/ (Opens(op.key) /\ db' = op.key)
          BY <3>1 DEF BringUp
        <4>4. QED
          BY <3>1, <4>3, KeyFacts DEF BringUp, Opens, ring
      <3>2. CASE FindKey
        BY <3>2, FindKeyCases, KeyFacts DEF IInv, Opens, ring
      <3>3. QED
        BY <1>2, <3>1, <3>2
    <2>2. QED
      BY <2>1, StillGood DEF Kept, Good
  <1>3. CASE AdoptIfSame
    <2>1. UNCHANGED <<ring, files, spoiled>> /\ op.pc = "adoptSame" /\ op.mem = disk
      BY <1>3 DEF AdoptIfSame, IInv, MemInv, Early
    <2>2. op \in OpType /\ op.mem \in Settings /\ op.pin \in Collections
      BY DEF IInv, Typed, OpType
    <2>3. CASE UNCHANGED disk
      BY <2>1, <2>3, StillGood DEF ring, files
    <2>4. CASE op.same /\ disk' = [op EXCEPT !.mem.coll = op.pin, !.adopted = TRUE].mem
      <3>1. PICK s : s = [op.mem EXCEPT !.coll = op.pin]
        OBVIOUS
      <3>2. [op EXCEPT !.mem.coll = op.pin, !.adopted = TRUE] = [op EXCEPT !.mem = s, !.adopted = TRUE]
        BY <3>1, Zenon
      <3>3. s \in Settings /\ s.coll = op.pin
        BY <2>2, <3>1, SettingsFacts
      <3>4. disk' = s
        <4> HIDE DEF Settings
        <4>1. QED
          BY <2>2, <2>4, <3>2, <3>3 DEF OpType
      <3>5. Noted' = {op.pin}
        BY <2>2, <3>3, <3>4, SettingsFacts DEF Noted
      <3>6. item[op.pin] = op.key \/ op.pin \in spoiled
        BY <2>1, <2>4 DEF IInv, SureInv, Sure
      <3>7. db \in Keys => db = op.key
        BY <2>1, KeyFacts DEF IInv, KeyInv, Opens
      <3>8. QED
        BY <2>1, <3>5, <3>6, <3>7 DEF Kept, Good, ring, files
    <2>5. QED
      <3>1. \/ UNCHANGED disk
            \/ op.same /\ disk' = [op EXCEPT !.mem.coll = op.pin, !.adopted = TRUE].mem
        BY <1>3, Zenon DEF AdoptIfSame, Saves
      <3>2. QED
        BY <2>3, <2>4, <3>1
  <1>4. CASE RecordCollection
    <2>1. UNCHANGED <<ring, files, spoiled>> /\ op.pc = "record"
      BY <1>4 DEF RecordCollection
    <2>2. op.pin \in Collections
      BY DEF IInv, Typed, OpType
    <2>3. PICK s \in Settings :
            \/ UNCHANGED disk
            \/ Noting(s) /\ ((s.coll = op.pin /\ op.same) \/ s.coll = PendingAdoption)
      BY <1>4, RecordFacts DEF IInv
    <2>4. CASE UNCHANGED disk
      BY <2>1, <2>4, StillGood DEF ring, files
    <2>5. CASE disk' = s /\ s.coll = PendingAdoption
      BY <2>1, <2>5, SettingsFacts DEF Kept, Good, Noted, ring, files
    <2>6. CASE disk' = s /\ s.coll = op.pin /\ op.same
      <3>1. Noted' = {op.pin}
        BY <2>2, <2>6, SettingsFacts DEF Noted
      <3>2. item[op.pin] = op.key \/ op.pin \in spoiled
        BY <2>1, <2>6 DEF IInv, SureInv, Sure
      <3>3. db = op.key
        BY <2>1 DEF IInv, KeyInv
      <3>4. QED
        BY <2>1, <3>1, <3>2, <3>3 DEF Kept, Good, ring, files
    <2>7. QED
      BY <2>3, <2>4, <2>5, <2>6 DEF Noting
  <1>5. QED
    BY <1>1, <1>2, <1>3, <1>4

\* What destroys or overwrites: only a store that is not safe, or whose key was
\* hidden twice.
LEMMA RebuildKept ==
  ASSUME IInv, DeleteJunk \/ StoreNewKey \/ CleanDir \/ CreateStore
  PROVE  Kept
  <1>1. SUFFICES ASSUME Good, ~disk.pending, ~(op.hidden > 1), Noted' \cap spoiled = {}
        PROVE  FALSE
    BY DEF Kept, Unwanted
  <1>2. op.pc \in {"junkDelete", "newStore", "clean", "create"}
    BY DEF DeleteJunk, StoreNewKey, CleanDir, CreateStore
  <1>3. Noted' = Noted
    BY DEF Noted, DeleteJunk, StoreNewKey, CleanDir, CreateStore
  <1>4. Guarded
    BY <1>1, <1>3 DEF IInv, GuardInv, Safe
  <1>5. QED
    BY <1>1, <1>2, <1>4 DEF Guarded

\* What others do to an item marks its collection.
LEMMA AroundKept ==
  ASSUME IInv, Meddle \/ \E c \in Collections, copied \in BOOLEAN : Switch(c, copied)
  PROVE  Kept
  <1>1. item \in [Collections -> Answers] /\ coll \in Collections
    BY DEF IInv, Typed, RingTyped
  <1>2. UNCHANGED <<disk, db>>
    BY DEF Meddle, Switch, files
  <1>3. \A c \in Collections : item'[c] # item[c] => c \in spoiled'
    <2>1. CASE Meddle
      BY <1>1, <2>1 DEF Meddle
    <2>2. ASSUME NEW x \in Collections, NEW copied \in BOOLEAN, Switch(x, copied)
          PROVE  \A c \in Collections : item'[c] # item[c] => c \in spoiled'
      <3>1. /\ item' = IF copied THEN [item EXCEPT ![x] = item[coll]] ELSE item
            /\ spoiled' = IF item' # item THEN spoiled \cup {x} ELSE spoiled
        BY <2>2, Zenon DEF Switch
      <3>2. QED
        BY <1>1, <3>1
    <2>3. QED
      BY <2>1, <2>2
  <1>4. Noted \subseteq Collections /\ Noted' = Noted
    BY <1>2, SettingsFacts DEF Noted
  <1>5. QED
    BY <1>2, <1>3, <1>4 DEF Kept, Good

\* No step takes a store whose key can be found from who wants it: only one that
\* somebody wanted to go, or whose key the key ring hid twice in one round, or
\* somebody else touched.
THEOREM LifecycleGoodStore == Spec => GoodStoreSurvives
  <1>1. IInv /\ IInv' /\ [Next]_vars => [Kept]_vars
    <2> SUFFICES ASSUME IInv, IInv', [Next]_vars PROVE Kept
      OBVIOUS
    <2>1. Typed'
      BY DEF IInv
    <2>2. CASE Step
      BY <2>1, <2>2, PlainKept, WantedKept, OpeningKept, RebuildKept, Zenon DEF Step
    <2>3. CASE Asked
      BY <2>3, PlainKept
    <2>4. CASE Around
      BY <2>4, PlainKept, AroundKept, Zenon DEF Around
    <2>5. CASE UNCHANGED vars
      BY <2>5, PlainKept
    <2>6. QED
      BY <2>2, <2>3, <2>4, <2>5 DEF Next
  <1>2. Spec => [][Kept]_vars
    BY <1>1, AlwaysIInv, PTL DEF Spec
  <1>3. QED
    BY <1>2, Zenon DEF Kept, GoodStoreSurvives
=============================================================================
