--------------------------- MODULE StoreLifecycle ---------------------------
(***************************************************************************)
(* The life of the encrypted store of one account: when it is created,     *)
(* opened, closed, rebuilt and removed, and where its key is               *)
(* (store/lifecycle.rs, with store/key.rs, store/paths.rs and              *)
(* store/readers.rs).                                                      *)
(*                                                                         *)
(* One lock serializes the operations of the manager, so one of them runs  *)
(* at a time; but it awaits the key ring at each call, and between two     *)
(* calls the key ring locks, goes away, is restarted with another          *)
(* collection, or answers what is not true; readers come without the lock; *)
(* and the process may die.  Each call to the key ring and each change of  *)
(* a file is a step.                                                       *)
(***************************************************************************)
EXTENDS Integers, FiniteSets

CONSTANTS
  Collections,   \* the identities (path#Created) the default collection may have
  MaxKeys,       \* how many different keys there may be at a time
  MaxFaults,     \* bound on lies and failures of the key ring and of the disk
  MaxSwitches,   \* bound on changes of the collection
  MaxMeddling,   \* bound on what others do to the item of the account
  MaxCrashes     \* bound on crashes

\* key_collections has no entry for the account, or the mark of one whose key
\* went to a collection nobody identified yet.
Unrecorded == "none"
PendingAdoption == "?pending-adoption"

ASSUME LifecycleAssumption ==
  /\ Collections # {} /\ IsFiniteSet(Collections)
  /\ {Unrecorded, PendingAdoption} \cap Collections = {}
  /\ MaxKeys \in Nat \ {0}
  /\ MaxFaults \in Nat /\ MaxSwitches \in Nat /\ MaxMeddling \in Nat /\ MaxCrashes \in Nat

VARIABLES
  coll,      \* the collection the key ring serves now
  item,      \* item[c]: the key the account has in collection c
  lock,      \* the key ring: "open", "locked", or "away" from the bus
  disk,      \* stores.json
  dir,       \* whether the directory of the store exists
  db,        \* the key its database is encrypted with, NoKey if there is none
  seen,      \* what the listings of the accounts service have said
  keyring,   \* KeyringState, as the last round left it
  open,      \* entries[account].store is some
  readers,   \* the pool of readers takes readings
  op,        \* the operation that has the lock
  burned,    \* history: the keys of stores that were to go, and did not come back
  spoiled,   \* history: the collections whose item somebody else touched
  unsaved,   \* history: a note of stores.json was lost
  bound      \* what is left of each bound

ring == <<coll, item, lock>>
vars == <<ring, disk, dir, db, seen, keyring, open, readers, op, burned, spoiled,
          unsaved, bound>>
entry   == <<open, readers>>
files   == <<dir, db>>
history == <<burned, spoiled, unsaved>>

-----------------------------------------------------------------------------
Keys  == 1..MaxKeys
NoKey == 0
Junk  == -1      \* an item that is not a key; a database file still empty

Settings == [enabled : BOOLEAN, pending : BOOLEAN,
             coll : Collections \cup {Unrecorded, PendingAdoption}]

Calls == {"pin", "ask", "flush", "sweep", "forget", "forgetAsk", "bring",
          "adopt", "adoptSame", "up", "find", "junkAsk", "junkSame", "junkDelete",
          "rebuildAsk", "rebuildSame", "rebuildFind", "newAsk", "newStore",
          "newFind", "lastSame", "clean", "create", "record", "unnote",
          "rmAsk", "rmKey", "rmNote", "rmFiles", "pruneKey", "pruneFiles", "write"}

\* The operation under way: the call it awaits, the settings it loaded, the
\* collection it pinned (and whether it is still the one pinned), whether the
\* delete of a pending key answered well, the key in hand, whether the files
\* that are there must go first, and how many answers hid a key.
Operation == [pc : Calls \cup {"idle"},
              kind : {"none", "listed", "round", "disable", "clear"},
              mem : Settings, pin : Collections, same : BOOLEAN,
              cleared : BOOLEAN, key : Keys \cup {NoKey}, rebuild : BOOLEAN,
              adopted : BOOLEAN, hidden : Nat]

Fresh == [enabled |-> TRUE, pending |-> FALSE, coll |-> Unrecorded]

Idle == [pc |-> "idle", kind |-> "none", mem |-> Fresh,
         pin |-> CHOOSE c \in Collections : TRUE, same |-> FALSE,
         cleared |-> FALSE, key |-> NoKey, rebuild |-> FALSE,
         adopted |-> FALSE, hidden |-> 0]

Start(kind, pc, settings) ==
  [Idle EXCEPT !.kind = kind, !.pc = pc, !.mem = settings]

Listed == seen \in {"wanted", "other"}

\* Store::key_opens, and what Store::open makes of a key: an empty file left by
\* a creation that was cut short is opened by any.
Opens(k) == db \in {k, Junk}

\* The database is there and stores.json tells where its key is, which is true.
Noted == IF disk.coll = PendingAdoption THEN Collections ELSE {disk.coll} \cap Collections
Good  == db \in Keys /\ \E c \in Noted : item[c] = db

\* Keys that something is encrypted with or that an item holds.
Held == {item[c] : c \in Collections} \cup {db}

\* Mutant: nobody prunes after the round.
MutantAfterRound(o) == Idle

\* The operation is done: what accounts_listed does after its round is to prune.
AfterRound(o) ==
  IF o.kind = "listed" /\ seen = "gone" THEN [o EXCEPT !.pc = "pruneKey"] ELSE Idle

Init ==
  /\ coll \in Collections /\ item = [c \in Collections |-> NoKey]
  /\ lock = "locked" /\ disk = Fresh /\ dir = FALSE /\ db = NoKey
  /\ seen = "none" /\ keyring = "unknown" /\ open = FALSE /\ readers = FALSE
  /\ op = Idle /\ burned = {} /\ spoiled = {} /\ unsaved = FALSE
  /\ bound = [faults |-> MaxFaults, switches |-> MaxSwitches,
              meddling |-> MaxMeddling, crashes |-> MaxCrashes]
-----------------------------------------------------------------------------
(* What the key ring and the disk answer.                                  *)

Fault == bound.faults > 0 /\ bound' = [bound EXCEPT !.faults = @ - 1]

\* A call that needs the collection unlocked.
CallFails == (lock # "open" /\ UNCHANGED bound) \/ (lock = "open" /\ Fault)
CallWorks == lock = "open" /\ UNCHANGED bound

\* KeySource::is_locked and pinned_is_unchanged: they answer while it is locked.
Says(answer, truth) == lock # "away" /\ answer = truth /\ UNCHANGED bound
NoAnswer == (lock = "away" /\ UNCHANGED bound) \/ (lock # "away" /\ Fault)
Unlocked     == Says(TRUE, lock = "open")
NotUnlocked  == Says(TRUE, lock = "locked") \/ NoAnswer
SamePin      == Says(TRUE, op.same)
NotSamePin   == Says(FALSE, op.same) \/ NoAnswer

\* KeySource::find with the collection unlocked: the item, or nothing although
\* there is one, from a key ring that has decrypted nothing.
FindAnswers(k) ==
  /\ lock = "open"
  /\ \/ k = item[coll] /\ UNCHANGED bound
     \/ k = NoKey /\ item[coll] # NoKey /\ Fault
\* The answer is not what the pinned collection holds.
Hides(k) == IF k # item[op.pin] THEN 1 ELSE 0

Answers == Keys \cup {NoKey, Junk}

\* KeySource::delete: done, said to be done, or refused.
Deletes ==
  \/ CallWorks /\ item' = [item EXCEPT ![coll] = NoKey]
  \/ lock = "open" /\ item[coll] # NoKey /\ Fault /\ UNCHANGED item
RefusesDelete == CallFails /\ UNCHANGED item

\* StoreSettings::save: the whole file, or nothing.  Its failure is only logged.
Saves(settings) ==
  \/ disk' = settings /\ UNCHANGED <<bound, unsaved>>
  \/ disk # settings /\ Fault /\ unsaved' = TRUE /\ UNCHANGED disk

\* StorePaths::remove: file after file, then the directory.
RemovesFiles == dir' = FALSE /\ db' = NoKey /\ UNCHANGED bound
KeepsSomeFiles == dir /\ Fault /\ UNCHANGED dir /\ db' \in {db, NoKey}

Close == open' = FALSE /\ readers' = FALSE

Goto(pc) == op' = [op EXCEPT !.pc = pc]
EndRound == op' = AfterRound(op)

\* bring_up failed: a key ring that said it is locked is noted.
GiveUp ==
  /\ EndRound
  /\ keyring' = IF lock = "locked" THEN "locked" ELSE keyring

-----------------------------------------------------------------------------
(* The operations of the manager.                                          *)

\* Mutant: what the listing says is taken as it is.
MutantObserve(listing, enough) == listing

\* Listings::observe.  Between two absences there may not be enough time.
Observe(listing, enough) ==
  IF listing # "absent" THEN listing
  ELSE IF seen = "gone" \/ (seen = "missing" /\ enough) THEN "gone" ELSE "missing"

\* accounts_listed with a good answer; a failed one changes nothing.
AccountsListed(listing, enough) ==
  /\ op.pc = "idle"
  /\ seen' = Observe(listing, enough)
  /\ IF listing = "wanted" THEN UNCHANGED entry ELSE Close
  /\ op' = Start("listed", "pin", disk)
  /\ UNCHANGED <<ring, disk, files, keyring, history, bound>>

\* refresh, request_sync and prepare_for_sync.
Refresh ==
  /\ op.pc = "idle"
  /\ op' = Start("round", "pin", disk)
  /\ UNCHANGED <<ring, disk, files, seen, keyring, entry, history, bound>>

\* set_enabled(true): without the note nothing happens.
Enable ==
  /\ op.pc = "idle" /\ Listed
  /\ disk' = [disk EXCEPT !.enabled = TRUE]
  /\ op' = Start("round", "pin", disk')
  /\ UNCHANGED <<ring, files, seen, keyring, entry, history, bound>>

\* set_enabled(false), to the removal of the store.
Disable ==
  /\ op.pc = "idle" /\ Listed
  /\ disk' = [disk EXCEPT !.enabled = FALSE]
  /\ Close
  /\ op' = Start("disable", "rmAsk", disk')
  /\ UNCHANGED <<ring, files, seen, keyring, history, bound>>

Clear ==
  /\ op.pc = "idle" /\ Listed
  /\ Close
  /\ op' = Start("clear", "rmAsk", disk)
  /\ UNCHANGED <<ring, disk, files, seen, keyring, history, bound>>

\* with_store: the key ring is asked again before each batch.
WithStore ==
  /\ op.pc = "idle"
  /\ \/ Unlocked /\ open /\ op' = Start("round", "write", disk)
     \/ NotUnlocked /\ op' = Start("round", "pin", disk)
  /\ UNCHANGED <<ring, disk, files, seen, keyring, entry, history>>

\* The batch ends, or its task dies with the store in it.
WriteEnds ==
  /\ op.pc = "write"
  /\ op' = Idle
  /\ \/ UNCHANGED <<bound, entry>>
     \/ Fault /\ Close
  /\ UNCHANGED <<ring, disk, files, seen, keyring, history>>

\* open_readers, which takes no lock: it closes the pool and runs the table
\* only if nobody has the lock.
Read ==
  /\ readers
  /\ NotUnlocked
  /\ readers' = FALSE
  /\ op' = IF op.pc = "idle" THEN Start("round", "pin", disk) ELSE op
  /\ UNCHANGED <<ring, disk, files, seen, keyring, open, history>>
-----------------------------------------------------------------------------
(* run: the table, once.                                                   *)

NoRing ==
  /\ Close /\ EndRound
  /\ keyring' = "unavailable"
  /\ UNCHANGED <<ring, disk, files, seen, history>>

PinCollection ==
  /\ op.pc = "pin"
  /\ \/ /\ lock # "away"
        /\ op' = [op EXCEPT !.pc = "ask", !.pin = coll, !.same = TRUE]
        /\ UNCHANGED <<ring, disk, files, seen, keyring, entry, history, bound>>
     \/ NoAnswer /\ NoRing
     \/ /\ Fault     \* stores.json cannot be read: nothing is decided
        /\ Close /\ EndRound
        /\ UNCHANGED <<ring, disk, files, seen, keyring, history>>

\* What comes after the deletions that are pending.
SweepOrBring(o) == [o EXCEPT !.pc = IF seen = "gone" THEN "sweep" ELSE "bring"]

\* Mutant: with the key ring locked, the round leaves things as they are.
MutantAskLocked ==
  /\ op.pc = "ask"
  /\ \/ NoAnswer /\ NoRing
     \/ /\ Says(TRUE, lock = "locked")
        /\ keyring' = "locked" /\ EndRound
        /\ UNCHANGED <<ring, disk, files, seen, entry, history>>
     \/ /\ Unlocked
        /\ keyring' = "unlocked"
        /\ op' = IF op.mem.pending THEN [op EXCEPT !.pc = "flush"] ELSE SweepOrBring(op)
        /\ UNCHANGED <<ring, disk, files, seen, entry, history>>

\* is_locked: rows 1 and 6 of the table close what is open; a store that is
\* disabled is removed all the same.
AskLocked ==
  /\ op.pc = "ask"
  /\ \/ NoAnswer /\ NoRing
     \/ /\ Says(TRUE, lock = "locked")
        /\ keyring' = "locked" /\ Close
        /\ IF seen = "wanted" /\ ~op.mem.enabled /\ dir THEN Goto("rmNote") ELSE EndRound
        /\ UNCHANGED <<ring, disk, files, seen, history>>
     \/ /\ Unlocked
        /\ keyring' = "unlocked"
        /\ op' = IF op.mem.pending THEN [op EXCEPT !.pc = "flush"] ELSE SweepOrBring(op)
        /\ UNCHANGED <<ring, disk, files, seen, entry, history>>

\* flush_pending_deletions.
FlushPending ==
  /\ op.pc = "flush"
  /\ \/ Deletes /\ op' = SweepOrBring([op EXCEPT !.cleared = TRUE])
     \/ RefusesDelete /\ op' = SweepOrBring(op)
  /\ UNCHANGED <<coll, lock, disk, files, seen, keyring, entry, history>>

\* sweep_orphan_keys: key_accounts and delete, for an account confirmed gone.
SweepOrphans ==
  /\ op.pc = "sweep"
  /\ \/ item[coll] = NoKey /\ CallWorks /\ UNCHANGED item
     \/ Deletes
     \/ RefusesDelete
  /\ op' = [op EXCEPT !.pc = IF op.mem.pending /\ op.cleared THEN "forget" ELSE "bring"]
  /\ UNCHANGED <<coll, lock, disk, files, seen, keyring, entry, history>>

\* forget_gone_accounts: the key does not appear, and the key ring was open.
ForgetGone ==
  /\ op.pc = "forget"
  /\ \/ FindAnswers(NoKey) /\ Goto("forgetAsk")
     \/ item[coll] # NoKey /\ FindAnswers(item[coll]) /\ Goto("bring")
     \/ CallFails /\ Goto("bring")
  /\ UNCHANGED <<ring, disk, files, seen, keyring, entry, history>>

ForgetGoneUnlocked ==
  /\ op.pc = "forgetAsk"
  /\ \/ /\ lock = "open"
        /\ Saves(Fresh)
        /\ op' = [op EXCEPT !.pc = "bring", !.mem = Fresh]
        /\ burned' = {}
     \/ NotUnlocked /\ Goto("bring") /\ UNCHANGED <<disk, burned, unsaved>>
  /\ UNCHANGED <<ring, files, seen, keyring, entry, spoiled>>

\* bring_account, up to the calls it makes.
BringAccount ==
  /\ op.pc = "bring"
  /\ \/ seen # "wanted" /\ EndRound /\ UNCHANGED entry
     \/ /\ seen = "wanted" /\ ~op.mem.enabled
        /\ Close
        /\ IF dir THEN Goto("rmKey") ELSE EndRound
     \/ /\ seen = "wanted" /\ op.mem.enabled /\ op.mem.pending /\ ~op.cleared
        /\ Close /\ EndRound
     \/ /\ seen = "wanted" /\ op.mem.enabled /\ (op.mem.pending => op.cleared)
        /\ CASE open /\ op.mem.coll = op.pin -> EndRound
             [] open /\ op.mem.coll # op.pin -> Goto("adopt")
             [] ~open /\ op.mem.coll \in {Unrecorded, op.pin} -> Goto("up")
             [] OTHER -> Goto("adopt")
        /\ UNCHANGED entry
  /\ UNCHANGED <<ring, disk, files, seen, keyring, history, bound>>

\* adopt_collection: the key of the pinned collection is tried on the file.
AdoptEnds == IF open THEN EndRound ELSE Goto("up")

Adopt ==
  /\ op.pc = "adopt"
  /\ \/ \E k \in Answers :
          /\ FindAnswers(k)
          /\ IF k \in Keys /\ dir /\ Opens(k)
             THEN op' = [op EXCEPT !.pc = "adoptSame", !.key = k] ELSE AdoptEnds
     \/ CallFails /\ AdoptEnds
  /\ UNCHANGED <<ring, disk, files, seen, keyring, entry, history>>

AdoptIfSame ==
  /\ op.pc = "adoptSame"
  /\ \/ /\ op.same /\ lock # "away"
        /\ LET o == [op EXCEPT !.mem.coll = op.pin, !.adopted = TRUE] IN
           /\ Saves(o.mem)
           /\ op' = IF open THEN AfterRound(o) ELSE [o EXCEPT !.pc = "up"]
     \/ NotSamePin /\ AdoptEnds /\ UNCHANGED <<disk, unsaved>>
  /\ UNCHANGED <<ring, files, seen, keyring, entry, burned, spoiled>>

\* Rows 2 to 5, with the key that was found.
WithKey(o) ==
  IF db = NoKey THEN [o EXCEPT !.pc = "clean"]
  ELSE [o EXCEPT !.pc = "rebuildAsk", !.rebuild = TRUE]
WithoutKey(o) ==
  IF db = NoKey THEN [o EXCEPT !.pc = "newAsk", !.key = NoKey]
  ELSE [o EXCEPT !.pc = "rebuildAsk", !.rebuild = TRUE, !.key = NoKey]

\* The start of bring_up: a store whose key went to another collection is not
\* touched; an adopted key is the one to open with; the key of a store that was
\* cleared is not looked for.
BringUp ==
  /\ op.pc = "up"
  /\ CASE op.mem.coll \notin {Unrecorded, op.pin} /\ db # NoKey ->
            EndRound /\ UNCHANGED db
       [] op.mem.coll = op.pin /\ op.adopted ->
            IF Opens(op.key) THEN Goto("record") /\ db' = op.key
            ELSE EndRound /\ UNCHANGED db
       [] OTHER ->
            /\ op' = IF op.mem.pending THEN WithoutKey(op) ELSE [op EXCEPT !.pc = "find"]
            /\ UNCHANGED db
  /\ UNCHANGED <<ring, disk, dir, seen, keyring, entry, history, bound>>

FindKey ==
  /\ op.pc = "find"
  /\ \/ \E k \in Answers :
          /\ FindAnswers(k)
          /\ LET o == [op EXCEPT !.hidden = @ + Hides(k),
                                 !.key = IF k \in Keys THEN k ELSE NoKey] IN
             CASE k = Junk -> op' = [o EXCEPT !.pc = "junkAsk"] /\ UNCHANGED db
               [] k = NoKey -> op' = WithoutKey(o) /\ UNCHANGED db
               [] k \in Keys /\ Opens(k) -> op' = [o EXCEPT !.pc = "record"] /\ db' = k
               [] OTHER -> op' = WithKey(o) /\ UNCHANGED db
        /\ UNCHANGED keyring
     \/ CallFails /\ GiveUp /\ UNCHANGED db
  /\ UNCHANGED <<ring, disk, dir, seen, entry, history>>
\* What is kept is not a key: it is deleted, and there is none.
JunkUnlocked ==
  /\ op.pc = "junkAsk"
  /\ \/ Unlocked /\ Goto("junkSame") /\ UNCHANGED keyring
     \/ NotUnlocked /\ GiveUp
  /\ UNCHANGED <<ring, disk, files, seen, entry, history>>

JunkSamePin ==
  /\ op.pc = "junkSame"
  /\ \/ SamePin /\ Goto("junkDelete")
     \/ NotSamePin /\ EndRound
  /\ UNCHANGED <<ring, disk, files, seen, keyring, entry, history>>

DeleteJunk ==
  /\ op.pc = "junkDelete"
  /\ \/ Deletes /\ op' = WithoutKey(op) /\ UNCHANGED keyring
     \/ RefusesDelete /\ GiveUp
  /\ UNCHANGED <<coll, lock, disk, files, seen, entry, history>>

-----------------------------------------------------------------------------
(* rebuild, new_key and create_fresh.                                      *)

RebuildUnlocked ==
  /\ op.pc = "rebuildAsk"
  /\ \/ Unlocked /\ Goto("rebuildSame") /\ UNCHANGED keyring
     \/ NotUnlocked /\ GiveUp
  /\ UNCHANGED <<ring, disk, files, seen, entry, history>>

RebuildSamePin ==
  /\ op.pc = "rebuildSame"
  /\ \/ /\ SamePin
        /\ Goto(IF op.key # NoKey THEN "lastSame"
                ELSE IF op.mem.pending THEN "newAsk" ELSE "rebuildFind")
     \/ NotSamePin /\ EndRound
  /\ UNCHANGED <<ring, disk, files, seen, keyring, entry, history>>

\* Mutant: one answer is enough to rebuild.
MutantRebuildFind ==
  /\ op.pc = "rebuildFind"
  /\ Goto("newAsk")
  /\ UNCHANGED <<ring, disk, files, seen, keyring, entry, history, bound>>

\* The key is looked for again: if it appears nothing is rebuilt.
RebuildFind ==
  /\ op.pc = "rebuildFind"
  /\ \/ \E k \in Answers :
          /\ FindAnswers(k)
          /\ IF k = NoKey
             THEN op' = [op EXCEPT !.pc = "newAsk", !.hidden = @ + Hides(k)]
             ELSE EndRound
        /\ UNCHANGED keyring
     \/ CallFails /\ GiveUp
  /\ UNCHANGED <<ring, disk, files, seen, entry, history>>

\* new_key: it is generated only with the key ring unlocked, ...
NewKey ==
  /\ op.pc = "newAsk"
  /\ \/ /\ Unlocked
        /\ \E k \in Keys \ Held :
             /\ \A j \in Keys \ Held : k <= j
             /\ op' = [op EXCEPT !.pc = "newStore", !.key = k]
             /\ burned' = burned \ {k}
        /\ UNCHANGED keyring
     \/ NotUnlocked /\ GiveUp /\ UNCHANGED burned
  /\ UNCHANGED <<ring, disk, files, seen, entry, spoiled, unsaved>>

\* ... stored, which may be lost, ...
StoreNewKey ==
  /\ op.pc = "newStore"
  /\ \/ /\ CallWorks
        /\ item' = [item EXCEPT ![coll] = op.key] /\ spoiled' = spoiled \ {coll}
        /\ Goto("newFind") /\ UNCHANGED keyring
     \/ /\ lock = "open" /\ Fault
        /\ Goto("newFind") /\ UNCHANGED <<item, spoiled, keyring>>
     \/ CallFails /\ GiveUp /\ UNCHANGED <<item, spoiled>>
  /\ UNCHANGED <<coll, lock, disk, files, seen, entry, burned, unsaved>>

\* Mutant: the key ring is believed when it says that it stored the key.
MutantFindNewKey ==
  /\ op.pc = "newFind"
  /\ Goto(IF op.rebuild THEN "lastSame" ELSE "clean")
  /\ UNCHANGED <<ring, disk, files, seen, keyring, entry, history, bound>>

\* ... and read again.
FindNewKey ==
  /\ op.pc = "newFind"
  /\ \/ \E k \in Answers :
          /\ FindAnswers(k)
          /\ IF k = op.key THEN Goto(IF op.rebuild THEN "lastSame" ELSE "clean") ELSE EndRound
        /\ UNCHANGED keyring
     \/ CallFails /\ GiveUp
  /\ UNCHANGED <<ring, disk, files, seen, entry, history>>

\* rebuild asks once more, just before what destroys.
LastSamePin ==
  /\ op.pc = "lastSame"
  /\ \/ SamePin /\ Goto("clean")
     \/ NotSamePin /\ EndRound
  /\ UNCHANGED <<ring, disk, files, seen, keyring, entry, history>>

\* create_fresh: what remains in the directory goes, ...
CleanDir ==
  /\ op.pc = "clean"
  /\ \/ RemovesFiles /\ Goto("create")
     \/ KeepsSomeFiles /\ EndRound
  /\ UNCHANGED <<ring, disk, seen, keyring, entry, history>>

\* ... and Store::create makes a new database, or leaves one half made.
CreateStore ==
  /\ op.pc = "create"
  /\ dir' = TRUE
  /\ \/ db' = op.key /\ Goto("record") /\ UNCHANGED bound
     \/ db' \in {NoKey, Junk, op.key} /\ EndRound /\ Fault
  /\ UNCHANGED <<ring, disk, seen, keyring, entry, history>>

\* The store is open: the collection of its key is noted, the pinned one if it
\* is still that.
RecordCollection ==
  /\ op.pc = "record"
  /\ \/ op.mem.coll = op.pin /\ Goto("unnote") /\ UNCHANGED <<disk, bound, unsaved>>
     \/ /\ op.mem.coll # op.pin
        /\ \E c \in {op.pin, PendingAdoption} :
             /\ c = op.pin => op.same /\ lock # "away"
             /\ c = PendingAdoption => ~op.same \/ lock = "away"
             /\ op' = [op EXCEPT !.pc = "unnote", !.mem.coll = c]
             /\ Saves(op'.mem)
     \/ /\ op.mem.coll # op.pin /\ op.same /\ lock # "away"
        /\ op' = [op EXCEPT !.pc = "unnote", !.mem.coll = PendingAdoption]
        /\ Fault /\ disk' = op'.mem /\ UNCHANGED unsaved
  /\ UNCHANGED <<ring, files, seen, keyring, entry, burned, spoiled>>

\* Only now, with a new key stored and read, the old one is not pending.
UnnotePending ==
  /\ op.pc = "unnote"
  /\ open' = TRUE /\ readers' = TRUE
  /\ IF op.mem.pending THEN Saves([op.mem EXCEPT !.pending = FALSE])
     ELSE UNCHANGED <<disk, bound, unsaved>>
  /\ EndRound
  /\ UNCHANGED <<ring, files, seen, keyring, burned, spoiled>>

-----------------------------------------------------------------------------
(* remove_store and prune.                                                 *)

RemoveAsk ==
  /\ op.pc = "rmAsk"
  /\ \/ Unlocked /\ Goto("rmKey")
     \/ NotUnlocked /\ Goto("rmNote")
  /\ UNCHANGED <<ring, disk, files, seen, keyring, entry, history>>

RemoveKey ==
  /\ op.pc = "rmKey"
  /\ Deletes \/ RefusesDelete
  /\ Goto("rmNote")
  /\ UNCHANGED <<coll, lock, disk, files, seen, keyring, entry, history>>

\* The account is noted always: a delete that answered well proves nothing.
NoteRemoval ==
  /\ op.pc = "rmNote"
  /\ LET settings == [op.mem EXCEPT !.pending = TRUE, !.coll = Unrecorded] IN
     /\ op' = [op EXCEPT !.pc = "rmFiles", !.mem = settings]
     /\ Saves(settings)
     /\ burned' = IF disk' = settings THEN burned \cup (Held \cap Keys) ELSE burned
  /\ UNCHANGED <<ring, files, seen, keyring, entry, spoiled>>

\* The files go even when the key could not; clear then brings the account up.
RemoveFiles ==
  /\ op.pc = "rmFiles"
  /\ \/ /\ RemovesFiles
        /\ op' = IF op.kind = "clear" /\ seen = "wanted" THEN Start("round", "pin", disk)
                 ELSE AfterRound(op)
     \/ KeepsSomeFiles /\ EndRound
  /\ UNCHANGED <<ring, disk, seen, keyring, entry, history>>

\* prune, of an account confirmed gone: the key if the round found the key ring
\* unlocked, ...
PruneKey ==
  /\ op.pc = "pruneKey"
  /\ IF dir /\ keyring = "unlocked" THEN Deletes \/ RefusesDelete ELSE UNCHANGED <<item, bound>>
  /\ Goto("pruneFiles")
  /\ UNCHANGED <<coll, lock, disk, files, seen, keyring, entry, history>>

\* ... the files, and what was decided for it.  pending stays.
PruneFiles ==
  /\ op.pc = "pruneFiles"
  /\ \/ RemovesFiles /\ disk' = [Fresh EXCEPT !.pending = disk.pending] /\ UNCHANGED unsaved
     \/ KeepsSomeFiles /\ disk' = [Fresh EXCEPT !.pending = disk.pending] /\ UNCHANGED unsaved
     \/ /\ disk # [Fresh EXCEPT !.pending = disk.pending]
        /\ dir' = FALSE /\ db' = NoKey /\ Fault
        /\ unsaved' = TRUE /\ UNCHANGED disk
  /\ op' = Idle
  /\ UNCHANGED <<ring, seen, keyring, entry, burned, spoiled>>

-----------------------------------------------------------------------------
(* The key ring, other programs and the end of the process.                *)

\* The person locks and unlocks; the service comes and goes.
RingChanges ==
  /\ lock' \in {"open", "locked", "away"} \ {lock}
  /\ UNCHANGED <<coll, item, disk, files, seen, keyring, entry, op, history, bound>>

\* Another collection is the default, or the key ring restarts: with the items
\* of this one, if it was recreated from it.  A key that was to go and is in the
\* other collection was never deleted there: it is a key again.
Switch(c, copied) ==
  /\ bound.switches > 0
  /\ bound' = [bound EXCEPT !.switches = @ - 1]
  /\ coll' = c
  /\ item' = IF copied THEN [item EXCEPT ![c] = item[coll]] ELSE item
  /\ spoiled' = IF item' # item THEN spoiled \cup {c} ELSE spoiled
  /\ op' = [op EXCEPT !.same = FALSE]
  /\ burned' = IF copied \/ c = coll THEN burned ELSE burned \ {item[c]}
  /\ UNCHANGED <<lock, disk, files, seen, keyring, entry, unsaved>>

\* Somebody deletes the item, or stores there what is not a key.
Meddle ==
  /\ bound.meddling > 0
  /\ bound' = [bound EXCEPT !.meddling = @ - 1]
  /\ item[coll] # NoKey
  /\ \E k \in {NoKey, Junk} : item' = [item EXCEPT ![coll] = k]
  /\ spoiled' = spoiled \cup {coll}
  /\ UNCHANGED <<coll, lock, disk, files, seen, keyring, entry, op, burned, unsaved>>

Crash ==
  /\ bound.crashes > 0
  /\ bound' = [bound EXCEPT !.crashes = @ - 1]
  /\ Close
  /\ seen' = "none" /\ keyring' = "unknown" /\ op' = Idle
  /\ UNCHANGED <<ring, disk, files, history>>

-----------------------------------------------------------------------------
\* The operation that has the lock takes its next step.
Step ==
  \/ PinCollection \/ AskLocked \/ FlushPending \/ SweepOrphans \/ ForgetGone
  \/ ForgetGoneUnlocked \/ BringAccount \/ Adopt \/ AdoptIfSame \/ BringUp \/ FindKey
  \/ JunkUnlocked \/ JunkSamePin \/ DeleteJunk \/ RebuildUnlocked \/ RebuildSamePin
  \/ RebuildFind \/ NewKey \/ StoreNewKey \/ FindNewKey \/ LastSamePin \/ CleanDir
  \/ CreateStore \/ RecordCollection \/ UnnotePending \/ RemoveAsk \/ RemoveKey
  \/ NoteRemoval \/ RemoveFiles \/ PruneKey \/ PruneFiles \/ WriteEnds

Listings == {"wanted", "other", "absent"}

Asked ==
  \/ \E listing \in Listings, enough \in BOOLEAN : AccountsListed(listing, enough)
  \/ Refresh \/ Enable \/ Disable \/ Clear \/ WithStore \/ Read

Around ==
  \/ RingChanges \/ Meddle \/ Crash
  \/ \E c \in Collections, copied \in BOOLEAN : Switch(c, copied)

Next == Step \/ Asked \/ Around

Spec == Init /\ [][Next]_vars

\* The awaited calls return, and who waits for the lock gets its turn: the
\* mutex is FIFO, each round of the synchronizer prepares the store, and the
\* accounts are listed again and again.
FairSpec ==
  /\ Spec
  /\ WF_vars(Step)
  /\ SF_vars(Refresh)
  /\ SF_vars(\E listing \in Listings : AccountsListed(listing, TRUE))
-----------------------------------------------------------------------------
(* Properties.                                                             *)

TypeOK ==
  /\ coll \in Collections /\ item \in [Collections -> Answers]
  /\ lock \in {"open", "locked", "away"}
  /\ disk \in Settings /\ dir \in BOOLEAN /\ db \in Answers
  /\ seen \in {"none", "wanted", "other", "missing", "gone"}
  /\ keyring \in {"unknown", "locked", "unlocked", "unavailable"}
  /\ open \in BOOLEAN /\ readers \in BOOLEAN /\ op \in Operation
  /\ burned \subseteq Keys /\ spoiled \subseteq Collections /\ unsaved \in BOOLEAN
  /\ bound \in [faults : Nat, switches : Nat, meddling : Nat, crashes : Nat]

\* Somebody wanted the store to go: the person, or the account is gone.
Unwanted ==
  \/ disk.pending \/ ~disk.enabled \/ seen = "gone"
  \/ op.kind = "clear" /\ op.pc \in {"rmAsk", "rmKey", "rmNote", "rmFiles"}

\* A store whose key can be found is destroyed only because somebody wanted it,
\* or when the key ring hid the key twice in the same round, or somebody else had
\* touched it.
GoodStoreSurvives ==
  [][(Good /\ ~Good') => Unwanted \/ op.hidden > 1 \/ Noted' \cap (spoiled \cup spoiled') # {}]_vars

\* The key of an open store is in some collection, unless somebody else took it or
\* the note of an old one could not be saved; and it is not one of before the store
\* was cleared or disabled, unless a change of collection brought that back.
OpenStoreHasItsKey ==
  open => /\ spoiled # {} \/ unsaved \/ \E c \in Collections : item[c] = db
          /\ db \notin burned

\* When the key ring stays locked, the store ends up closed (rows 1 and 6).  When it
\* stays open, the store of an enabled account opens, unless its key went to another
\* collection.
FollowsKeyRing ==
  /\ <>[](lock # "open") => <>[]~open
  /\ <>[](seen = "wanted" /\ disk.enabled /\ lock = "open") =>
       []<>(open \/ (db # NoKey /\ disk.coll \notin {Unrecorded, coll}))

\* Of an account that is gone nothing is left, once the key ring opens: neither
\* the files nor, in the collection there is, the key.  A store that was disabled
\* goes, with the key ring open or locked.
UnwantedIsRemoved ==
  /\ <>[](seen = "gone") => <>[]~dir
  /\ <>[](seen = "gone" /\ lock = "open") => <>[](item[coll] = NoKey)
  /\ <>[](seen = "wanted" /\ ~disk.enabled /\ lock # "away") => <>[]~dir
=============================================================================
