# Verification of vasak-accounts

This directory holds TLA+ specifications of vasak-accounts, the TLC
configurations that model-check them and the proofs that TLAPS checks. They
live beside the code and say, for its core, what it promises, how the code keeps
it, and where the code and its comments disagree.

## The system

vasak-accounts is two services of one desktop session, and a small crate they
share:

- **the accounts service** (`daemon/`), which runs as a system service and keeps
  the accounts of every user, their secrets and their OAuth tokens;
- **the synchronizer** (`sync/`), which runs as the user, keeps one encrypted
  SQLite store per account (calendar, contacts, email), talks to CalDAV, CardDAV,
  Google, Graph, LDAP, IMAP and SMTP servers, and serves the stored data, and
  accepts writes, over D-Bus;
- **common** (`common/`): D-Bus introspection and process helpers.

### Components

| Component | State it keeps | Operations | Hard behaviour | What makes it correct |
|---|---|---|---|---|
| Offline write queue (`store/queue.rs`, write side of `store/calendar.rs`) | a row per object with its mark, a `pending_dav_ops` row per object | enqueue put/delete, close, mark conflict, store copy, count attempt, retry, resolve, download batch | the person edits while a write is in flight; a close must not touch a newer edit | an edit leaves only when it arrived; a marked row has its operation; what waits is shown |
| Replay (`replay.rs`) | nothing: the snapshot it reads | drain the queue in order of id, one request and one transaction per operation | an answer lost after the server acted; retry limit; 412 | the promise of `PendingWrites` |
| CalDAV round (`calendar_sync.rs`, `dav_sync.rs`) | sync token, getctag, `MissingStreaks` | list, plan by token or by ETag, multiget, batches, last write with the token | the server changes under the plan; objects that do not come back; stop in the middle | what the token covers is current; the collection converges |
| DAV client (`dav/`) | none | conditional PUT and DELETE, REPORTs, PROPFIND | errors worth a retry or not | every write has a precondition |
| Store interface (`store_api.rs`) | rate limits | `PutEvent`, `DeleteEvent`, `ResolveConflict`, ..., readers | stale `if_match` | - |
| Store lifecycle (`store/lifecycle.rs`, `key.rs`, `paths.rs`) | open stores, keys in the key ring, `stores.json` | bring up, adopt, enable, clear, rebuild, remove, sweep, prune | the key ring locks, changes or lies between two calls; a crash between key and file | a store whose key can be found is not destroyed; what must go goes |
| Window shift (`calendar_sync.rs:879`, `ical/`) | the expansion window, the occurrences and alarms of each row | derive occurrences again in batches | an edit or a round between the read of a batch and its write | a row says the hours of its text; the window is that of today |
| Contacts rounds (`contacts_sync/`) | as the calendar's; Google and Graph tokens | download; CardDAV also drains the queue | as above | as above |
| Graph push (`graph_write.rs`) | as the queue | create with the server's id (`complete_create`) | the new id is already in the store | one row per object |
| Email round and session (`email_sync.rs`, `imap.rs`, `main.rs:3704`) | rows by UID, flags, a token per mailbox | compare with the server, fetch, rules, save the token; mark read, move | the mailbox is renumbered; the server changes meanwhile; the round is cut | a row names its message; a mailbox that is skipped is right; rules act once |
| Outbox (`outbox.rs`, `main.rs:2760`) | a file per message | enqueue, undo, dispatch, retry, give up | discard during a pass, crash after delivery | a message is sent once, or reported |
| Snooze and follow-up (`store/snooze.rs`, `snooze_return.rs`, `followup_notify.rs`, `due_loop.rs`) | rows due at a time | snooze, cancel, return, notify | crash between the move and the row; the loop and a call on the same row | what is in Pospuestos has its row; a snoozed message comes back |
| Reminders (`reminders.rs`, `notifications.rs`) | the hour up to which it showed | read what is due, show, sleep | writes during a pass, a lost wake-up, the clock set | an alarm is shown once, and at its hour |
| Access (`access.rs`, `broker.rs`) | decisions remembered for 30 s | ask, remember, limit | permission withdrawn meanwhile | - |
| Accounts service (`daemon/main.rs`, `polkit.rs`, `permissions.rs`, `providers.rs`) | a lock per user | connect, remove, serve tokens | concurrent calls of one user | no secret outlives its account |
| Pending authorizations (`daemon/pending.rs`) | states with an expiry | insert, take, peek, cancel, purge | taken twice or late | single use |
| Account storage (`daemon/storage.rs`) | a file per user | modify under lock | concurrent modify | no lost update |
| OAuth tokens (`protocols/oauth2.rs`) | a lock per account | get, refresh, persist, revoke | rotation, removal in mid-refresh, a crash before it is written | a date describes its token; an account asks to be connected again only when it must |
| Rules (`rules.rs`) | the mark from which they apply | make, plan, act | messages downloaded again | what was there before a rule is not touched |
| Cryptography, parsing, composition, preferences | keys, peers | - | - | - |

How they interact: a D-Bus method of the synchronizer asks `access` for
permission, then runs one transaction in the account's store
(`StoreManager::with_store` holds its only writer) and asks the scheduler
(`DavScheduler::run`) for a round. The round asks the accounts service for a
credential, drains the queue (`replay_area`) and then downloads
(`sync_calendar`); it holds the store only within a transaction, so that the
person and the network move between any two of its steps. Nothing of a round but
`MissingStreaks` survives it in memory.

## The modules

| Module | What it is |
|---|---|
| `DavData` | the objects, contents and ETags that the other modules share |
| `WriteQueue` | every store transaction on rows and operations, one atomic action each |
| `DavServer` | the CalDAV server as the client takes it to be (not in the repository) |
| `DavSync` | one collection from the person to the server: `WriteQueue` and `DavServer` composed with the D-Bus methods, the round and its failures |
| `PendingWrites` | the abstract specification: what the queue promises the person |
| `Outbox` | the folder of unsent messages, the D-Bus methods on it, the dispatcher, the move of the old folder and the death of the process |
| `StoreLifecycle` | the life of the store of an account: the manager, the key ring, `stores.json` and the files |
| `StoreLifecycleClaims` | what a comment of the code says and `StoreLifecycle` does not do |
| `CalendarAlarms` | the series of a calendar expanded in a window, the shift of the window, the writes that meet it, and the loop of reminders over it |
| `CalendarAlarmsClaims` | what a comment of the code says and `CalendarAlarms` does not do |
| `MailboxSync` | the round of a mailbox against the server, the rules it carries out and the calls that write to its rows |
| `Snooze` | snoozing, cancelling and the loop that brings messages back |
| `AccountsService` | the accounts service for one person: flows, tokens, secrets, removal |
| `MCAccountsService` | the same for the run `Accounts`, with the symmetry of its calls |
| `WriteQueueProofs`, `DavSyncProofs`, `OutboxProofs`, `CalendarAlarmsProofs`, `SnoozeProofs`, `StoreLifecycleProofs`, `AccountsServiceProofs`, `MailboxSyncProofs` | the theorems of each, with the inductive invariants they rest on |

`DavSync` and `CalendarAlarms` look at the same rows from two sides: what of them has to
reach the server, and what is derived from them; their product is out of TLC's reach, so
`CalendarAlarms` keeps of a round only what it does to derived rows (it takes the marks of
what was sent, and writes with the window it read), and `DavSync` leaves the window out.
In the same way `StoreLifecycle` has the whole of what opens and closes a store, and the
others a variable `open` that changes at any moment.
`Outbox` and `AccountsService` share no state with the others: the queue of messages lives in
files of its own, and the accounts service is another process, whose answers the rounds
take as a credential or a failure.

### State and code

| TLA+ | Code |
|---|---|
| `row[o]` | a row of `calendar_objects`: `raw` is `raw_ical`, `derived` the text its indexed columns and occurrences were made from, `etag`, `mark` is `pending_op` |
| `op[o]` | the row of `pending_dav_ops` of the object: `base` is `base_etag`, `rev` is `revision`, `srvEtag`/`srvRaw` the server copy |
| `nextId` | the AUTOINCREMENT of that table |
| `srv[o]`, `srvRev` | the resource of the server with the revision that last changed it, and the collection's getctag and sync token |
| `token`, `ctag` | the columns of `calendars` |
| `phase`, `queue`, `answer` | the point reached in `replay_area`, the operations it read and has not been through, the answer not yet closed |
| `listed`, `local`, `plan`, `batch`, `missing`, `hold` | the local variables of `sync_calendar` and `execute` |
| `streak` | `MissingStreaks` |
| `acted`, `gaveUp` | history only: the last revision the server acted on; the objects a round went on without |
| `edits`, `remotes`, `faults` | the counters of the bounds |

And in `Outbox`:

| TLA+ | Code |
|---|---|
| `file[m]`, `folder` | `<id>.json` in `outbox/`, as `Outgoing`; whether the folder is there |
| `legacy[m]` | the file in `salientes/`, where versions up to 0.16.0 kept it |
| `hold`, `wait` of an entry | `scheduled_for` and `next_attempt`, as the minutes left until them |
| `phase`, `left` | whether the service runs, and what `migrate_legacy_outbox` has still to look at |
| `pass` | the copies `flush_outbox` read from the folder and has not been through |
| `taken` | the final dot was sent and accepted; its reply is not read yet |
| `asked[m]` | whether `send_message` has counted the queue, has answered, and how; `unsure` is an error after the rename |
| `hours`, `sent`, `dropped`, `excuse` | history only: the hour asked for, how often a server took `m`, when it was discarded, and how often the program could not know or could not note what became of it |

In `StoreLifecycle`:

| TLA+ | Code |
|---|---|
| `coll`, `item`, `lock` | the key ring: the collection it serves, the key of the account in each, whether it answers |
| `disk` | the entry of the account in `stores.json`, and its `key_collections` |
| `dir`, `db` | the directory of the store; the key its database was made with |
| `seen`, `keyring` | `Listings` for the account; `KeyringState` |
| `open`, `readers` | `entries[account].store` and the pool of `store/readers.rs` |
| `op` | the operation that has the lock of the manager, with the settings it loaded, the collection it pinned and the key in its hand |
| `burned`, `spoiled`, `unsaved` | history: keys of stores that were to go, but for one that a change of collection brought back; collections whose item somebody else touched; a lost write of `stores.json` |

In `CalendarAlarms`:

| TLA+ | Code |
|---|---|
| `row[s]` | a row of `calendar_objects` with `expanded_from`/`expanded_to` (`win`), its text (`hour`) and its `occurrences` and `alarms` (`occ`) |
| `window` | `calendar.window` in `store_meta`, by the day it is around |
| `job` | what the scheduler has under way: `shift_window` with the batch it read, or a round with the window it read |
| `loop`, `woken` | `since`, `now` and the sleep of `reminders::run`; the permit of `wake` |
| `shown`, `missed`, `mixed`, `behind`, `rewound` | history: what was shown; what the last pass left; a series a shift completed with the hours of another text; a series written in the middle of a shift; a restart with the clock behind the edge |

In `MailboxSync`:

| TLA+ | Code |
|---|---|
| `srv`, `kind`, `inbox` | the mailbox of the server, the extensions it announces, whether it is the one of arrivals |
| `rows`, `token` | `messages` by UID; `mailboxes.modseq` decoded (`MailboxToken`) |
| `round` | the local variables of `sync_mailbox`: what EXAMINE said, the flags read, the plan, the chunk, the rules to carry out |
| `call`, `rules` | a `MarkRead` or `MoveMessage` between the server and the store; the watermark of `rules.rs` |
| `hist` | history: what rules touched, once and twice; what was there when the last rule was made; rows cut before the first token; a write of a call that came after the round saw the server change again |

In `Snooze`: `home` and `there` are the mailbox and Pospuestos with its UIDs, `row` is
`snoozed_messages`, `loop` and `nudged` are `due_loop::run` and its `WAKE`, and `left` is the
history of the messages that nothing will bring back. In `AccountsService`: `pending` is
`PendingAuths`, `account` and `secret` are `accounts.json` and `secrets.json`, `candado` is the lock
of a person and `candados` the lock of each account, `grant` is what the provider accepts, and a
token, a date or a flow is the life it has left. A call at the step `silence` waits for an answer that
never comes, with the lock it has. `rushed` and `misread` are the accounts whose secrets a call looked for
before they were stored, or had there and could not read; `short` those whose token went without its date;
`left` those that were removed and not forgotten.

An action is one transaction, one request, or one decision between them. The
answer of the server and the transaction that uses it are two actions
(`ServerAnswers`, `Close`; `FetchServerCopy`, `CaptureServerCopy`; `Fetch`,
`WriteBatch`), as are the read of the stored ETags and the report that is compared
with them (`ReadLocal`, `Report`): that is where other actors come between.
`RoundFails` stands for every early return of the round with an error, the
deadline included; `Restart` for the end of the process. `AnswerLost` lets the
server take the write, or not. What a person does takes its `if_match` from what
a client can have read: the row, the server copy of a conflict, or the first
ETag.

Abstractions: a content is its author and a number; an ETag is the revision that
wrote the resource; the sync token and the getctag are the same counter. The
collection is one, so that the scoping of a close by collection
(`complete_put_scoped`) always holds. The multiget brings one object per step,
which lets the server change between any two: more behaviours than one
request has, never fewer.

In `Outbox` the actions are cut where the code awaits or where two tasks may run
at once: the count and the save of `enqueue` (`SendMessage`, `Enqueue`), the read of
the folder (`FlushOutbox`), what the server does (`ServerTakes`) and what the
dispatcher learns of it (`Delivered`, `ReplyLost`, `NotDelivered`). The pass is a set:
it goes in the order of the identifiers, which are numbers here. The causes of a
failure are the branches of `send_one`: the steps of the SMTP dialogue before
the last dot, and the composition of the message, are the cause they end in.
The wake-up of `send_message` is not a variable: a pass may start at any time.
Not modelled: ownership, permissions and symbolic links of the files, unreadable files,
a clock set back, and a loss of power that undoes a rename whose fsync failed.

In `StoreLifecycle` each call to the key ring and each change of a file is a step. One
operation runs at a time, because the manager's lock says so; what moves between its steps
are the key ring, which may lock, go away, come back with another collection (with the
items copied or not) or answer what is not true, the readers, which do not take the lock, and the
death of the process. A key is a number that is used again once nothing holds it.

In `CalendarAlarms` a series happens every day at its hour and its reminder is at that hour; the
clock counts `DayHours` to a day, and an edit changes the hour, which is what tells a text from
another. One account and one calendar. The limit of occurrences is a failure of the shift;
truncated expansions, objects that do not repeat (a shift never reads them) and
`take_server`, which writes a text and derives nothing, are not modelled.

In `MailboxSync` a message is the number of its arrival, a UID a number within one UIDVALIDITY,
and the one flag is `\Seen`. A server without CONDSTORE, with it, and with QRESYNC differ in when
HIGHESTMODSEQ rises, as RFC 7162 allows. The session of a round ends with the UIDVALIDITY
it opened. Bodies, the other mailboxes, a refused EXAMINE and the conditions of a rule are
not modelled. In `Snooze` what is done with the reader locked is one step, and a move is MOVE, or
COPY and EXPUNGE in two halves that may fail; UIDVALIDITY of Pospuestos does not change. In
`AccountsService` a step is what a call does between two awaits, or one write of a file.

Not modelled in the modules of the calendar's queue: sizes and too many objects (`check_total`, the caps
of `apply_calendar_objects`), resources of other origins, truncated reports (507
pages), several collections in a round and their removal
(`remove_calendar_chunk`), servers without getctag or without ETags,
and `complete_create`, which only Graph uses.

## What the runs check

| Run | Instance | Properties |
|---|---|---|
| `EveryAct` | one object, everything a person can do three times, 2 remote changes, 3 failures, 2 rounds until a missing object is given up | `PendingEditIsShown`, `EtagNamesContent`, `NoLostEdit` |
| `Live` | two objects, one stored; create, edit, delete, keep-local; a server that answers by token or by ETag, from one round to another; 2 edits, 1 remote change, 1 failure; fair rounds | `TypeOK`, `SettledRowsAreCurrent`, `PromiseKept`, `ReadyIsResolved`, `EventuallyCurrent` |
| `Mail` | two messages, each new or left in `outbox/`, in `salientes/` or in both; a queue of one, an hour to wait, 2 attempts, 1 failure; fair passes | `TypeOK`, `NoMessageLost`, `SentOnce`, `UndoHolds`, `OnlyWhenItMay`, `EveryMessageSettles` |
| `Store` | one account, two collections, four keys; one lie or failure, one change of collection, one crash | `TypeOK`, `OpenStoreHasItsKey`, `GoodStoreSurvives` |
| `StoreLive` | the same with one failure and one thing that somebody else does to the item, no change of collection and no crash, under fairness | `FollowsKeyRing`, `UnwantedIsRemoved` |
| `Calendar` | two series, three days of two hours, a window of a day back and two ahead, batches of one; 2 events; fair loop and scheduler | `TypeOK`, `RowSaysItsText`, `AlarmIsSet`, `EachOnce`, `WindowCatchesUp` |
| `Mailbox` | three messages, two there at first, a window of two, chunks and batches of one, the three kinds of server, INBOX or not; 3 events; fair rounds | `TypeOK`, `SettledIsCurrent`, `RowsNameTheirMessages`, `RulesActOnNewsOnce`, `EventuallyCurrent` |
| `Snooze` | two messages, one of which never comes back; 2 snoozes, 1 cancellation, 2 accidents, servers with and without MOVE and UIDPLUS; fair loop | `TypeOK`, `SnoozedHasRow`, `AlarmIsSet`, `SnoozedComesBack` |
| `Accounts` | one account by any of its flows, two calls at once, two resources, one crash, one failure: a write or a read of a file, a request that fails, is lost on its way back or is never answered | `TypeOK`, `SecretsHaveAccount`, `ReauthIsTrue`, `DateDescribesToken`, `DiscardedMakesNone` |
| `AccountsLive` | the same with one resource and one revocation, under fairness | `EveryCallEnds`, `RevokedIsMarked` |
| `ClaimReaders`, `ClaimShift` | the smallest instance that shows each | one claim each, violated |

What the properties say:

- `PromiseKept`, `NoLostEdit`: an edit stops waiting only when the server acted on
  that revision; the exceptions are `take_server` and a delete without `if_match`.
- `PendingEditIsShown`: while an edit waits, its row is there with its text, whatever the
  download brings.
- `SettledRowsAreCurrent`: the token and the getctag never run ahead of the rows,
  but for objects given up after `MissingRounds`. It does not hold with
  `take_server`: see below.
- `EtagNamesContent`: a stored ETag names the text stored with it, so that the next
  `If-Match` cannot overwrite what this device has not had.
- `ReadyIsResolved`, `EventuallyCurrent`: nothing waits for ever to be tried; a
  quiet collection converges.

- `NoMessageLost`: a message that was accepted stays in one of the two folders until
  a server takes it or the person discards it. A write that fails, a crash at
  any point and an interrupted move change nothing.
- `SentOnce`: a message is sent again only where the program could not know that
  it had gone (a lost reply, a crash), or could not note it (a failed removal,
  a second copy in the old folder); once more for each of these and no more.
- `UndoHolds`, `OnlyWhenItMay`: nothing leaves before the hour it was asked for,
  whatever failed meanwhile, so that what is discarded before its hour never leaves; and
  nothing that is stuck leaves.
- `EveryMessageSettles`: retries end, and no message is left pending for ever.

- `GoodStoreSurvives`: a store whose key can be found is destroyed only because somebody
  wanted it gone, or when the key ring hid the key twice in one round.
- `OpenStoreHasItsKey`: the key of an open store is kept in some collection, and is not one of
  before the store was cleared, but where somebody else took it, the note of an old key was lost,
  or a change of collection brought an old one back.
- `FollowsKeyRing`, `UnwantedIsRemoved`: a locked key ring closes the store, an open one opens it;
  what is gone or disabled leaves no files, and what is gone no key.

- `RowSaysItsText`: the occurrences of a row are those of its text in the window it says.
- `EachOnce`: from an edge to the next one the loop shows every reminder, and for the first time.
- `AlarmIsSet`: while it sleeps, it wakes at the hour of the next reminder, whatever was
  written meanwhile; late by no more than its last pass took.
- `WindowCatchesUp`: the window comes to be that of today, with every series expanded for it.

- `SettledIsCurrent`: a mailbox that the next round would skip shows what the server has; its token
  is never newer than what its rows show.
- `RowsNameTheirMessages`: no row of another UIDVALIDITY passes for a message of this one.
- `RulesActOnNewsOnce`: rules touch a message once, and never what was there before them.
- `EventuallyCurrent` (`MailboxSync`): left alone, the rows end as the window of the server.

- `SnoozedHasRow`: a message is where it was, or in Pospuestos with the row that brings it back.
- `SnoozedComesBack`: it comes back, and its row is answered, though another row always fails.

- `SecretsHaveAccount`: no secret outlives its account. `ReauthIsTrue`: an account is sent to be
  connected again only when its refresh token is not the one the provider accepts, or its application
  password is not there, unless its secrets were looked for too early or could not be read.
  `DateDescribesToken`: no date is later than that of its token. `DiscardedMakesNone`: what was
  discarded makes no account, and no account comes back.
- `EveryCallEnds`: every call ends but one that the provider never answers and those that wait for the
  lock of its account; the two locks never wait for each other. `RevokedIsMarked`: an account whose
  authorization is over comes to say so, unless its lock is kept by a renewal that is never answered.

Where a property has an exception, the exception is a history variable, raised in the very step
where the code gives the promise up: `mixed`, `behind`, `missed` and `rewound` of `CalendarAlarms`,
the fields of `hist` of `MailboxSync`, `left` of `Snooze`, `rushed`, `misread`, `short` and `left` of
`AccountsService`, `spoiled` and `unsaved` of `StoreLifecycle`. Each is a case of the list of
disagreements below, or something no program of this kind can know.

### Bounds

Two objects are the least at which one can be written while another is read,
fetched or removed, and at which a batch of one row fills before the plan is done;
nothing in the code relates more than two. `MaxAttempts` is 10 in the code: 2 keeps the
same first try, last try and escalation. `MissingRounds` is 3 as in the code, and 2 in
`EveryAct` so that giving up is reached. Two edits are enough for an edit in
the middle of the write of another; three for an edit, its conflict and its
resolution. A failure is a lost answer, a failed request, a failed copy, an
object that does not come back, a failed round or a restart: `Live` has one of
them at any step, `EveryAct` three, which is one more than the attempts. The counters `edits`, `remotes` and `faults`
are the only artificial bounds and appear only in `Edit`, `Remote` and `Fault`.
In `Outbox`, two messages are one ahead of the other in a pass, with the
dispatcher at the first and the person acting on the second; messages share nothing else but
the limit. Two attempts are a first and a last one. Times are what is left to
them, so that the clock runs without a bound; `MaxWait` 2 and `MaxHold` 1 let either moment
come before the other. One failure is a lost reply, a failed write, a failed removal or a
crash at any step.
`MaxFaults` appears only in `Fault`.

The other modules count in the same way, each in one place of its module, and nothing else bounds
them. `Store` has two collections because a change has a before and an after; four keys are the
one of the database, one in each collection and a new one. Two series in `Calendar` are one that
a shift has been through and one that it has not; with a batch of one there is a write between
the two; the clock reaches the third day, so that the window moves twice. In
`Mailbox` a window of two of three messages lets one leave by arriving another; chunks of one
let a round be cut between the two. In `Snooze` a batch of two holds the row that always fails and
the one behind it; the model assumes, as the code must, that fewer rows fail for ever than fit in a
batch. In `Accounts` two calls are enough for any pair of operations to meet; each account is on its
own but for the lock of the person, which two calls already contend for.
Its two calls are symmetric: each begins as `Idle`, no action, constant or property names one
of them, and the run has no liveness; `AccountsLive`, which has, does without the symmetry.
Deadlock is not checked in `DavSync`: with everything spent and the getctag unmoved a bounded
instance may only repeat empty rounds, and `Live` is the check that it does not stop. In `MailboxSync`
and `Snooze` everything may be spent and at rest; `EventuallyCurrent` and `SnoozedComesBack` are the
checks there.

### Fairness

`FairSpec` assumes weak fairness of `Replay` and of `Download`: the scheduler's loop
(`DavScheduler::run`) starts a round at each interval for as long as the process
lives, and each await in a round has a deadline (`net`, `run`), after which it goes on
or fails. Nothing is assumed of the person, of the other clients or of
failures; failures are bounded by `MaxFaults`, which is the assumption that they stop.

`FairSpec` of `Outbox` assumes weak fairness of the start (systemd starts the service again:
`Restart=on-failure`) and of the move, of a pass (the clock of `dispatch_outbox`
wakes it every `OUTBOX_CHECK`), of the attempt at a message and of time. The exchanges with an SMTP
server have deadlines. The D-Bus calls to the accounts service that come before
(main.rs:2838-2856) have none of their own: that they answer or fail is an assumption.
Nothing is assumed of the person.

`StoreLifecycle`: weak fairness of the step of the operation that has the lock (its awaits end), and
strong fairness of `Refresh` and of a listing that is confirmed, since the mutex of tokio is FIFO
and rounds go on. `CalendarAlarms`: weak fairness of the clock, of the loop of reminders, of
`Maintain` and of what the scheduler began (every await has a deadline). `MailboxSync`: weak
fairness of the steps of a round and of a call. `Snooze`: weak fairness of each call, of the loop, of
the clock and of the unlocking of the key ring. `AccountsService`: weak fairness of each call and
of time, strong fairness of getting a lock (FIFO) and of the programs that ask for tokens. That a
provider answers is not assumed of `exchange_code` and `refresh`, whose client has no deadline
(oauth2.rs:60-65): either may end at `silence`, where no action is left to the call; one that is answered
or fails goes on. The identity, the revocation and the poll of Nextcloud have
deadlines (oauth2.rs:786, main.rs:1213-1295, nextcloud.rs:171), and end. What is assumed is that the bus
and polkit answer the service.

## Where the code and its comments disagree

Two have a run that shows them:

1. **A shift of the window writes hours of a text that is not there any more** (`ClaimShift`).
   `apply_window_shift` says "Una serie que no está como se la leyó —la reescribió la
   sincronización, o se borró— no se toca" (calendar.rs:1119), and compares `expanded_from` and
   `expanded_to`. What is written in the middle of a shift is derived for the window the store
   still has, which is the one that was read: the row gets the hours of the old text
   that came in, not those of the new one, and is taken for expanded until something
   rewrites it. The tests rewrite it with the new window only.
2. **A read can close the readers for good** (`ClaimReaders`). `open_readers` closes the pool when
   it meets the key ring locked. If a batch has the lock nobody closes the store, and if the key
   ring is open again by the next round, `bring_account` finds the store open and leaves:
   every read answers that there is no store until something else closes it
   (lifecycle.rs:761, readers.rs:12).

The rest were met while modelling. Where a property depends on one it says so by name.

Calendar:

- A delete without ETag is closed without asking the server (replay.rs:223, "Sin ETag no hubo nunca
  recurso en el servidor"), but `DeleteEvent` with an empty `if_match` is documented as a
  delete without precondition (store_api.rs:1320), and an object whose create is on its way,
  or was answered without an ETag, has none either: the row goes and the server keeps the resource.
  `NoLostEdit` and `PendingWrites` except it by name.
- `take_server` can leave an object stale for ever: the copy is of the round that noted the
  conflict, later rounds save the token past it, and nothing asks for it again
  (store_api.rs:1629, "deja la cuenta al día"; queue.rs:789). `Live` leaves it out of `UserActs`.
- `take_server` writes the text and the ETag, not what is derived from them (queue.rs:803;
  calendar.rs:9).
- An escalated conflict has spent the attempts that fetching its copy needs, and without it
  `ResolveConflict` refuses both choices (replay.rs:103; replay.rs:287, "para que M3 lo resuelva").
- When the server deletes it too, the download removes the row of a delete in conflict, which can then
  be neither listed nor resolved (calendar.rs:846).
- More reminders than `BATCH` "espera la siguiente vuelta" (reminders.rs:61), but `step` moves its edge
  to the hour of the pass: those beyond it, and those of a store that was closed, are never shown
  (`missed`). When a store opens nobody wakes the loop, which is late by up to `MAX_SLEEP`.
- A series written in the middle of a shift stays expanded for the window that went until the next day
  (`behind`); so does, for the window that came, one that was shifted back with the clock when that shift fails.

Outbox:

- A pass holds copies: what the person discards meanwhile is tried all the same, and when its attempt
  fails `save` creates the file again (main.rs:2823), against "Saca un mensaje de la cola sin
  mandarlo" (main.rs:2489). Before its hour a message is in no pass: `UndoHolds` is the part that does hold.
- `send_one` takes every error of `account` for permanent (main.rs:2841), a bus that does not answer
  included, while stuck means "Se le acabaron los intentos, o el servidor dijo que no
  definitivamente" (outbox.rs:70).
- `enqueue` counts and then writes (outbox.rs:607): two calls at once can leave more than `MAX_QUEUED`.
- The follow-up row of a message is written when it is queued (main.rs:2112), and outlives its being
  discarded; the notice is shown before its row is deleted (main.rs:3645), and a crash repeats it.

Store:

- When the note that the old key must be deleted cannot be taken out of `stores.json`
  (lifecycle.rs:1550), the next round deletes the new one, against "la cuenta sale de acá recién cuando
  tiene una clave nueva guardada" (lifecycle.rs:406). This is `unsaved`.
- A key that was to go is deleted only from the collection that is the default when its turn comes
  (`flush_pending_deletions`). One that is also in another collection, since the default changed while
  a store was made, stays there with nothing that remembers it: when that collection is the default again
  the key passes for that of the account, and the next store is made with it. It takes two changes
  of collection, which the run does not reach and the proof of `OpenStoreHasItsKey` found; `burned`
  lets go of such a key when the change brings it. The record of the collection stays what it was
  when a change in the middle of a round stores the new key elsewhere (lifecycle.rs:1510).
- Somebody else who puts a key back where the round has already decided to make a new one loses the
  store of that key: `GoodStoreSurvives` excuses what was touched before the step as well as in it.

Email:

- The rows of a round cut before the first token have no UIDVALIDITY: if the server renumbers then,
  they pass for the new messages for ever (`mixed`; email_sync.rs:205 says a mailbox without a
  token "se sincroniza entera").
- A rule acts again on what is downloaded again in the same UIDVALIDITY after a rebuild, or when a message
  comes back into the window (`dropped`; rules.rs:359, "la guarda que impide el barrido retroactivo"). After
  the UIDVALIDITY changes, rules stay inert for ever: `ensure_watermark` writes the mark once.
- With CONDSTORE and without QRESYNC an expunge need not change what `decide` looks at, and may go
  unnoticed (`Unnoticed`). A write of `MarkRead` or `MoveMessage` that reaches the store after a
  round saw the server change again stays wrong until the next change (`late`).
- `MarkRead` and `MoveMessage` act by UID without comparing the UIDVALIDITY, which imap.rs:740 says
  must be done. A round cut after it stored a chunk loses the rules for it.

Snooze:

- A crash, a closed store or a lost answer between the move and the row leaves a message in
  Pospuestos that nothing brings back (main.rs:1562 names two of the ways and refuses them). A copy that
  was not erased (`OldCopyKept`) is left there though the call is refused.
- The loop deletes by identifier after awaiting IMAP: a message that was snoozed again
  meanwhile loses its new row (snooze_return.rs:69, "sólo si salió de Pospuestos, borrar su fila").
- Two `SnoozeMessage` of the same message, with a return between their moves, may write their rows in the other
  order: the row that stays names a UID that is not there any more, and the loop takes the message for one
  that somebody moved and deletes the row. One call at a time, as in the run, does not reach it; the
  proof of `SnoozedHasRow`, for any number of calls, did not go through without it in `left`.
- `CancelSnooze` says the message was returned when the server moved nothing.

Accounts:

- One failed read of `secrets.json` sends a healthy account to be connected again. `refresh` turns every error of
  `get_secret`, also one of input/output or of the parser (storage.rs:806-810), into
  `TokenError::Revoked` (oauth2.rs:560), and `GetAccessToken` marks the account. The doc of `Revoked` says it is "el único caso
  en que la cuenta hay que marcarla para volver a autorizar", and that what passes must not be
  treated so (oauth2.rs:34-37). `ReauthIsTrue` excepts it by name (`misread`): without `misread` in it, the run `Accounts`
  finds it violated by one failure.
- An account with an application password is marked when the read of `secrets.json` fails at the look under the
  lock (oauth2.rs:462): it has no refresh token to fall back on (`misread`).
- `http_client` sets no deadline (oauth2.rs:60-65): a provider that takes the connection and never answers keeps
  `exchange_code` for ever, and `refresh` with the lock of the account (oauth2.rs:528), so that no token of it is renewed until
  the service starts again. The doc of `PLAZO_IDENTIDAD` says of such a server why there must be a deadline (oauth2.rs:786-794).
- A secret that cannot be read when an account is removed leaves its authorization alive at the provider: `revocar`
  skips it.
- An account is in `accounts.json` before its refresh token is in `secrets.json`: a
  `GetAccessToken` in between marks it to be connected again (`rushed`; oauth2.rs:560).
- `RemoveAccount` does not take the lock of the account, and may revoke a token that a renewal under way has
  just rotated. A Nextcloud flow that is cancelled while its poll is under way still makes its
  account (main.rs:828, "descarta un flujo"). A token served from memory takes the mark off an account
  whose refresh token is over. An account whose provider tells no expiry is never marked.

## What is proved

For every set of objects, retry limit, batch size and bound, and whatever
the person, the other clients and the failures do:

- `QueueInvIsKept` (`WriteQueueProofs`): every transaction of the queue, with any
  arguments, keeps `QueueInv`: the types, `MarkedRowHasOp`, `PendingEditIsShown` and
  `CopyOnlyInConflict`. They are not inductive alone: `RowShape` (what is not stored
  has no mark), `OpShape` (what is not queued is `NoOp`; a queued operation has an id
  already given out) and `OwnIds` (no two have the same id) complete them.
- `TypeCorrect` and `RowsMatchQueue` (`DavSyncProofs`): every step of the composed
  system is, for the queue, one of those transactions or none
  (`NextIsQueueStep`), for which what the round read must be operations
  that were given an id (`SnapshotsTaken`).
- `SnapshotsAreFaithful`, `NoEditIsLost` and `QueueKeepsPromise`: from `RoundInv`,
  which orders the tags (id, revision) of the operation, of its snapshot and
  of what the server acted on. A snapshot is never newer than the operation
  (`SnapshotsAreNotNewer`), what the server acted on is never newer than either
  (`ActedIsNotNewer`), there is one snapshot per object (`OneEach`), and an
  answer that says a write arrived is about the operation it will close
  (`AnswerMeans`). Each step of the system is one of six kinds (`StepKind`), by what
  it does to the edits; each part of `RoundInv` is kept by each kind, and each kind
  is a step of `PendingWrites` or a stutter.
- `EtagsNameContent`: from `ReadInv`. What was read of the server, in an answer, in a snapshot, in the plan,
  in a row or in the copy of a conflict, is what the server has or had, with the ETag of that
  text and no other, so that whichever of them is stored, and however late, names its text.
- `TokenIsCovered`: from `TokenInv`, which follows the revision up to which the round knows the server from
  the listing to the plan, to the batch and to the token. It has one hypothesis, `NothingDiscarded`: the person
  neither takes the server's version of a conflict nor deletes without `if_match`. Both leave the
  object stale behind the token, as the list of disagreements says, and without the
  hypothesis the property is false. Editing, creating, deleting and keeping the local version are unrestricted.

For every set of messages, limit, wait and bound (`OutboxProofs`): `OutboxTypes`,
`AcceptedIsNotLost`, `SentOnlyOnce`, `UndoIsKept`, `PendingHasAttempts` and
`SentWhenItMay`. They are parts of one invariant, since none is inductive alone:

- there is at most one copy of a message in a pass, and a pass only while the service is up
  (`PassShape`); the message is past its hour, not stuck and has attempts left
  (`CopyIsOfNow`), so that what a failure writes back is no earlier than it may be;
- the hour in each file is the one the person asked for (`HourKept`), so that a pass
  takes nothing before it, and what is discarded before it is nowhere else (`Undone`);
- a call that has not written its message yet has left no trace of it (`Unwritten`), and
  what is pending in either folder has attempts left (`TriesLeft`);
- `Budget` counts, for each message, the times it was taken and the places from which it can
  still be: that sum is at most one more than `excuse`. `SentOnce` follows
  from it, and every action that could add a place must take one or have an excuse.

For any number of series, any window, length of a day and batch (`CalendarAlarmsProofs`):

- `RowsSayTheirText`: `RowSaysItsText` is inductive beside the types (`Shape`). The step that matters is
  the shift: what is kept of a row and what came in are together the hours of its text in the new
  window (`ShiftedSaysItsText`) when the text is the one that was read, and the guard on the window does
  not say so, which is why `mixed` is there.
- `RemindersOnce`: the property `EachOnce`, from `EdgeInv`. What was shown is not after the edge, and a
  pass has in its hand, or has left behind, all that fell between its edge and its hour, whatever is written
  while it shows.

- `AlarmsTypeOK` and `AlarmStaysSet`: `AlarmIsSet` is inductive beside the types. The hour up to which the loop
  sleeps is the least of a set of hours, which is there because `<` is well founded on the naturals
  (`LeastNat`).

For any messages, number of calls at once, batch and bound (`SnoozeProofs`): `SnoozeTypeOK`,
`SnoozeHasRow` and `SnoozeAlarm`. What a call or the loop does to a row depends on a copy it read before
awaiting the server, so the invariant is about copies:

- `HeldInv` and `FreshInv`: no row, and no copy of one in the hand of a call or of the loop, has the UID that a
  call is about to write; no two calls write the same one;
- `AnsweredInv`: when the return of a row was answered, and only deleting it is left, its message is out
  of Pospuestos unless the row is a newer one;
- `MsgInv`: for each message, where it is, how many copies there are, which row brings it back and by which UID.
  `SnoozedHasRow` is its third part, and `Named` (a row whose UID the server told names what is there) the one
  that failed at first, with two calls: see Snooze in the list of disagreements.

For any collections, keys and number of failures (`StoreLifecycleProofs`): `LifecycleTypeOK`,
`LifecycleOpenKey` and `LifecycleGoodStore`. The parts of `IInv` follow a round from call to call:

- `PhaseInv`, `PinInv`, `MemInv`: no store is open while one is looked for, made or removed; a round
  that saw the collection it pinned still has it; the settings in its hand are those of `stores.json`,
  but for what it noted and could not save;
- `SureInv`, `KeyInv`: from the moment a round takes a key for that of the store, that key is in some
  collection, in the pinned one if it did not change, and is not of a store that was to go;
- `OpenInv`, `BurnedInv`: what `OpenStoreHasItsKey` says, and that a key that was to go and would now be
  found is one whose delete is still noted, so that no round takes it for good;
- `GuardInv`: a store whose key can be found, and that nobody asked to remove, is on the way to be destroyed
  only if the key ring hid the key, once to look again and twice to make a new one. The action property
  `GoodStoreSurvives` follows from it action by action.

For any number of calls, flows and resources (`AccountsServiceProofs`): `ServiceTypeOK`, `ServiceSecrets`,
`ServiceReauth`, `ServiceDates` and `ServiceDiscarded`, from one invariant:

- `LockInv`: who is between taking and letting go of the lock of the person, or of an account, is
  the one that has it, and what it relied on when it took it still holds;
- `FlowInv`: what may still become an account was neither made nor discarded, and two calls never make the same;
- `SecretInv`: what `secrets.json` has of an account at each step of a call about it. A renewal holds the lock
  of the account alone, so that a removal may come between any two of its steps: `HaveInv` is what is left then;
- `ReauthInv` and `PasswordInv`: the token of an account that is to be connected again is over, with no call about to
  store another, and an application password that is missing stays so, but for what `rushed` and `misread` except;
- `DateInv`: a date is not later than its token but while the call that wrote the token has still to write it.

For any number of messages and events, and any window, batch and chunk (`MailboxSyncProofs`):
`MailboxTypeOK`, `RowsName`, `RulesActOnce` and `SkippedIsCurrent`. A round reads, awaits and writes while the
server, the person and the rules go on, so its invariant says what is still true of what it read:

- `OrderInv`: of what is kept with its UIDVALIDITY, the mark of the rules was read before the token, and the token
  before what the round knows; a mailbox is emptied only over a token of before. From it comes `NamesInv`:
  rows, and records in the hand of a round that can still write them, show the message their UID names;
- `BeforeInv` and `NewsInv`: a round stores only UIDs of before its EXAMINE, and of the UIDs from the
  mark on, or from the token on, there is no row but that of the message itself;
- `ActsInv`: on whom a rule acted, or was not to act, is still stored or was deleted while the server had it,
  and whom a round plans, holds or is about to act on is none of them;
- `PromiseInv`: `PastInv` says what an EXAMINE of before tells of now: a counter that did not move says
  that nothing it counts happened. As long as the counters are those of the answer, each step of the round has, in
  its rows and its plan together, the window of the server, and the token that it saves promises that of the rows.
  Which counters tell what depends on the server (`kind`): with CONDSTORE alone an expunge may go unnoticed,
  which is why the property excepts it.

`Renumber` states the messages that are left as an increasing sequence, of which there is one.

The assumptions are those of the modules: `MaxAttemptsAssumption`, `DavSyncAssumption`,
`OutboxAssumption`, `AlarmsAssumption`, `SnoozeAssumption`, `LifecycleAssumption`,
`ServiceAssumption` and `MailboxAssumption`. They say that the sets of calls, objects, flows or collections are not empty
(that of the calls of `Snooze` is finite, since it counts them), that no member of
one is the value that stands for none, and that limits are numbers.

Every invariant that a passing run checks is proved. Only model-checked: the liveness properties, since
fairness and ENABLED are out of the prover's reach (as are induction over data and whatever a RECURSIVE
operator computes), and the two claims that a run shows to be false.

## Not modelled

- **Contacts rounds**: CardDAV runs the queue, the replay and the plan of `DavSync`. Google, Graph and
  LDAP download a list, or a delta, and the person does not write against them.
- **Graph calendar and push**: what the server answers to a create, and the dates it rewrites, is fixed by
  no standard nor test of the repository; a model of it would be guessed.
- **Several collections in a round**, sizes and limits, truncated reports: they multiply the state of
  `DavSync`, which is at the limit of what a run can do, without relating two objects in a new way.
- **Migrations of the store**: SQL of one transaction each, with a test per version.
- **The expansion of a recurrence, queries, composition, parsing, cryptography**: pure functions
  over data that the properties above do not tell apart, covered by the tests of the repository.
- **Access, Polkit, permissions, preferences**: a decision taken at the door of a call, and
  remembered for 30 seconds by design.
- **The IDLE session**, the follow-up loop (the same `due_loop` with a notice for the move) and the
  text of notices.

## Plan

1. Done: `WriteQueue`, `DavServer`, `DavSync`, `PendingWrites`, `Outbox`, their runs and theorems.
2. Done: `StoreLifecycle`, `AccountsService`, `Snooze`, `MailboxSync`, `CalendarAlarms`, their runs, and the
   theorems of the last.
3. Done: the theorems of `Snooze`, `StoreLifecycle` and `AccountsService`, and the rest of those of
   `CalendarAlarms`.
4. Done: the theorems of `MailboxSync`, and `EtagNamesContent` and `SettledRowsAreCurrent` of `DavSync`.
5. Left: the abstract specifications of `Outbox` and `MailboxSync` as modules of their own, in the manner of
   `PendingWrites`; more than one collection in a round of `DavSync`.
