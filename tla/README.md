# CryptoSafe Manager: verification models

TLA+ models of the password manager in `src/`, the TLC runs that check them and
the theorems TLAPS proves about them.  Paths below are relative to the
repository; `MW` stands for `src/gui/main_window.py`.

## 1. The system

CryptoSafe Manager is a single-process desktop program: a Tk window, a SQLite
file per vault, a handful of background threads.  Most of what can go wrong
happens between those threads, in the shared SQLite connection, and in the order
the user opens, locks, unlocks and closes vaults.

| Component | State it keeps | Operations | Talks to |
|---|---|---|---|
| `AutoLockService` (`core/security/auto_lock.py`) | `_locked`, `_lock_timer`, no lock | `lock`, `unlock`, `_on_activity`, `set_lock_timeout` | calls the clipboard; calls back the window, on whatever thread it runs |
| `PanicMode` (`core/security/panic_mode.py`) | `_state` | `activate`, `deactivate` (never called) | as above |
| `ActivityMonitor` and its platform sensors | last activity | polling thread | calls back the lock service and the window |
| `MainWindow` (`MW`) | overlay, menus, entry table, references to all services | Tk handlers, `root.after` callbacks, `open_database`, `on_closing` | everything |
| `ClipboardService` (`core/clipboard`) | `_current_item`, timers, an RLock | copy, clear, `accelerate_clear`, `report_suspicious_activity` | platform adapter, in-process bus, emits events under its RLock |
| `ClipboardMonitor` | `_last_content` | polling thread | reads the clipboard, accelerates the clear, reports |
| `AuditLogger`, `AuditLogVerifier` (`core/audit`) | table `audit_log`, an RLock per instance, `_degraded` | `log_event`, `verify_integrity`, 24 h timer | subscribed to the event system, one more instance per login |
| `EventSystem` (`core/events.py`) | handlers | `emit` runs them in the emitting thread | |
| `KeyManager`, `KeyStore`, `KeyCache`, `AuthenticationService` | `key_store` rows, cached keys, session | setup, authenticate, rotate, login, logout | emits login and logout |
| `EntryManager`, `DatabaseManager` | `vault_entries`, one connection for all threads | create, update, delete; commit, then emit | |
| `SettingsAdapter`, `EncryptedSettingsStore`, presets, `ConfigManager` | settings, encrypted with the vault's key; `config.json` | get, set, presets | without the key a setting reads as its default |
| `SecurityProfileManager` (`profiles.py`) | current profile, custom tables | get, set, features | nothing ever switches a profile |
| `VaultImporter`, `ImportDialog` | checkpoint and backup files, the loop's index | preview, import, resume | entry manager, in a thread of its own |
| `VaultExporter`, `ExportDialog` | a temporary file per export | collect, write, move | entry manager, the user's files |
| Format handlers (`formats/`) | none | entry to row, row to entry, checks of a file | importer, exporter |
| `SharingService`, `QRCodeService`, `SharingDialog` | `shared_entries`, `contacts`, packages and codes that are out | share, revoke, read, contacts | the shared connection, without a commit |
| Memory guard, side-channel helpers, platform adapters | none the others depend on | | |

What makes each component correct:

* locking: a vault left alone locks; a lock once begun is carried through; a
  locked vault is covered and leaves nothing in the clipboard; menus follow;
* audit log: one unbroken chain, append-only, nothing acknowledged is lost,
  nothing refused, the verifier says what is there;
* clipboard: no secret is forgotten, a timeout is kept, locking and closing
  leave nothing behind, the user is told of other programs and not of himself;
* keys and configuration: what is stored in a vault opens with its password,
  and the program does not forget that there is a vault;
* import: what is counted is in the file, what is overwritten is in a backup,
  what a crash cut off is in a checkpoint, "skip" makes no second entry;
* export: a file appears whole, holds no secret it should not hold, and what the
  importer makes of it is what went out;
* sharing: nothing leaves without a record, and the record tells the truth.

The hard parts are listed in `PROJECT.json` under "hazards", each at its line.

## 2. Modules

| Module | What it is |
|---|---|
| `VaultLock` | locking and unlocking across five kinds of threads |
| `VaultLockProofs` | its types and the five safety properties |
| `AuditChain` | what ADR-002 promises of the log, as an append-only chain |
| `AuditLog` | loggers, the shared connection, the verifier; refines `AuditChain` |
| `AuditLogProofs` | its types, `AppendOnly`, `AckedDurable` |
| `AuditChainProofs` | the chain, its refinement and `NothingRefused` for one logger; the verifier for any number |
| `Clipboard` | service, timers, monitor, bus and the system clipboard |
| `ClipboardProofs` | types and four safety properties |
| `Connection` | the one SQLite connection: what it sees and what the file has |
| `Import` | `_import_entries` and `resume_import` beside the user; extends `Connection` |
| `ImportProofs` | four safety properties |
| `Formats` | what the four handlers write, read and object to; operators only |
| `AtomicFile` | what `export_vault` promises of a destination |
| `Transfer` | exports, the import dialog and the files between them; extends `Formats`, refines `AtomicFile` |
| `TransferProofs` | four safety properties and the refinement |
| `Sharing` | shares, codes and contacts; extends `Connection` |
| `SharingProofs` | three safety properties and the action property `KeptOnDisk` |
| `Vault` | the life of a vault file: configuration, setup, opening, keys |
| `VaultProofs` | its types, `VaultReadable`, `FirstRunOnly` |
| `MC...` | symmetry sets and small instances for TLC; the `.cfg` files give the constants |

How they fit together: `Vault` says which key is in the cache, `VaultLock` when it
goes; `Import`, `Transfer` and `Sharing` take it as a flag that a lock clears at
any step.  `Transfer` ends where `Import` begins, with the rows of a file.
`Import`, `Sharing` and `AuditLog` are three views of the same connection: each
has the writes of its own component in full and those of the others as a commit
or a rollback that may come between any two steps.

Definitions whose comment says "mutant" are not part of a specification: each is
an actual definition with a plausible mistake, listed with the property that
finds it under "mutants".

### VaultLock

State: `loggedIn`, `keyCached` (session and key cache), `locked`, `handle`,
`stray` (the flag and the one timer attribute, and running timers it no longer
refers to), `panic`, what the window shows (`overlay`, `menu`), the
clipboard service as the lock sees it (`clip`, `owner` of its RLock), the `queue`
of `root.after` callbacks and a program counter per thread.

`AutoLockService` and `PanicMode` hold no lock, so a step is one assignment, or
one condition with the call it guards; with `SwitchAnywhere` the attribute is read
once for the test and again for the call, which is what CPython 3.8 and 3.9 allow
(the documented minimum is 3.8).  A thread that calls into Tk waits until the main
loop is idle.  Inside `lock()`, clearing the keys and auditing have no effect in
this code (there is no `core.vault.Vault`, and `EVENT_MAP` has no entry for
`VAULT_AUTO_LOCKED`), so they are no steps.

One assumption about time: the user does not finish typing the master password
while something that was under way when he started is still under way
(`Calm` in `TypePassword`).  Anything may happen between the last character and
Return.  The proofs do not use it.

### AuditLog

State: the table as the connection sees it (`table`) and as committed
(`durable`), the number of subscribed `loggers`, their RLocks, per thread the entry
it is writing, which entries were `acked`.  One SQL statement is one step;
`commit` and `rollback` act on the connection, whoever wrote.  The implicit BEGIN
goes with its INSERT.  A hash is the pair of event and logger: SHA-256 is taken to
be injective, and rows are never edited from outside.  A duplicate number is the
`IntegrityError` branch.  The threads: `tk`; `import`, the import dialog's worker;
`ver` for the 24-hour timers; `Background`, one per other emitter.  The service's own
events are emitted under its RLock, so "timer" stands for whichever thread holds it;
the monitor's are emitted outside it.  Signatures and encryption at rest always
succeed.

Two of these threads call `EntryManager` (`EntryWriters`).  Its three writes commit
and then emit (`SaveEntry`), or their except branch rolls back the shared connection
and emits nothing (`SaveFails`).  That is no rare error: tags that are a list, as in
every row of a CSV, Bitwarden or LastPass file, cannot be bound, and the table of
soft deletes does not exist.  `Rotate` rolls back as well, and is one step because
every attempt fails at the first SELECT (`encrypted_password` is no column).
`undone` remembers which rows of others a rollback took: their `log_event` goes on to
its commit and returns a number all the same.

`RefinesChain` maps the committed rows in order to `AuditChain`'s sequence: each
commit appends at most one entry, which names the one before it.  The mapping
holds for one logger per run of the program.  Two loggers, which every login after
the first makes, may read the same last entry: ADR-002's chain then forks.

### Clipboard

State: per service the item, its timer (`timer` running, `due` fired for the
current item and waiting for the RLock, `late` fired for an item that is gone), the
monitor, the stored settings, `blocked`; shared, the system clipboard `os` and the
`bus`; what the Tk loop is doing.  What a service does under its RLock is one step
(what happens when that step calls into Tk is `VaultLock`'s subject).  Outside it
are the checks of `copy_to_clipboard`, the monitor's three reads and the threads of
timers that fired.  Settings read as defaults once the key is gone, as
`EncryptedSettingsStore.get` does when decryption fails.  Presets reach two kinds of
settings: "standard" and "secure" (a timeout, plain) and "public_computer" (a
timeout, ephemeral and paranoid).  `AfterAdapterClear` is the platform's answer;
with `AdapterFails` it may refuse each call.  `OpenDatabase` makes another service
and monitor and leaves the old ones running, as `MW:617-645` does.  `on_closing`
clears and then logs out: the handler of `USER_LOGGED_OUT` that would clear again
(`MW:1387`) is overridden by `MW:1824`.

Left out: the warning timer, observers, toasts, the preview, and the bus dropping
an expired item when it is read, which only empties it earlier.

### Connection

`view` is what every thread sees, `disk` what is committed.  Python's sqlite3 opens a
transaction with the first write; there is one for all threads, so a commit keeps
and a rollback takes back what anybody has written since.

### Import

State: the connection over the vault's entries, the cached `key`, an import thread
`job` (its place in the loop, its index of titles and user names, its checkpoint, the
entry at hand), the checkpoint files `temp`, the backups, and `ui`, the user's own form or
unfinished write.  `EntryManager`'s write and commit are two steps, and the user's
steps, an audit commit, a failing password change, the lock and a crash come in
between.  A row is what a handler delivers: a bad row (no title, a forbidden
pattern), tags that are a text, a list or nothing (a list cannot be bound, so
creating fails), and an id from this vault or from elsewhere.  The lookup strips title
and user name (`ConflictKey`, `importer.py:356`); the index and the key of a created
entry have both as they are stored (`RowKey`, lines 416 and 532).  The index has
`existing[key]`, filled with the id the caller knows and not the one
`create_entry` makes: a later update of that id finds nothing and counts as a
success, as in the code.  `LoadIndex` swallows every exception, a locked vault
among them, and `blind` remembers it.
`touched` has the entries another thread wrote since the index was loaded, or was
writing then.  Backups copy the file, so the committed
state.

### Formats and Transfer

`Formats` has one operator per direction and handler, a list built entry by entry
(`FlattenSeq` of what each row gives: nothing or one), and the checks in the order
the importer makes them: size, detection, suspicious texts, envelope, password,
hash, columns.  A file is a record of what they look at; decryption is
authenticated, so it succeeds on a whole file with its password and on nothing
else.  The search for suspicious texts goes over the whole file, so over tags too.
A CSV file is read with the dialect `csv.Sniffer` guesses (`csv_handler.py:302`).
What this program writes, every cell in quotation marks, is guessed right unless a
text has a quotation mark or an apostrophe in it or another delimiter at an end
(`Marked`); such a file, and any of another program, may be read as any of the rows in
`Garbled`, refused, or end in an exception (`Misread`, `RowsRead`, `Verdicts`,
`MayRaise`).  Only the handler of CSV sniffs; LastPass files are read by a fixed
dialect.  The format is the one detected when the file was chosen; the file may be
another by the time it is read (another export under the same name, or another
choice), so every handler is also applied to files of other formats.
`NoteUrls` are the addresses by which LastPass marks a secure note
("http://sn" and its forms), which its handler reads as no address.  `Transfer`
puts these operators between an exporter, whose every step may raise and whose `finally`
removes the temporary file, and an import dialog whose preview and import threads
look the path up late.  `shutil.move` is a rename for the names in `Near` and a
copy for the others.  The end of the process leaves the files.

### Sharing

State: the connection over entries, `shares` and `contacts`, what each of the
three callers of `share_entry` is at (`run`), the dialog and its buttons, the
packages that are out (`given`, `codes`, `scanned`) and the day.  A package has
the entry as it was read; the record is written after it, and nobody commits.
`add_entry`, which `import_shared_entry` calls, does not exist: reading a package
changes nothing here.

### Vault

State: `config.json` as it can be read (`disk`) and as the program has it (`config`),
per file the latest hash and salt, the keys its entries and settings are encrypted
under, what the Tk thread is at, and the cached key.  A key is the password and the salt
it is derived from.  Setup is four steps with a failure or the end of the process after
each: the path is saved, the hash committed, the salt committed, the configuration saved
again.  `Save` is `ConfigManager.save`, which truncates the file, dumps into it and
swallows every exception: the dump ends, which leaves the path unless a value is bytes
(`Dumped`), as an encrypted setting is once `load_from_db` has read it; or no room, or
the end of the process, cuts it short and nothing that can be loaded is left; or the
open is refused and the file is as before. `cut` remembers the last two until a path is
saved again.  `open_database` asks for no file, so another file comes into use through
the wizard only.

## 3. Runs and what they show

Every run, its properties and its purpose are in `PROJECT.json`.  In short:

| Run | Instance | Result |
|---|---|---|
| `lock` | 2 timer threads, 1 stray timer, no panic key | all six safety properties of `VaultLock` |
| `lock_switch` | switches between bytecodes, panic key on both threads | what survives there: `NothingLeftBehind`, `WatchdogArmed` |
| `lock_live` | fair | an idle vault locks, a lock is carried through, or the window is frozen |
| `audit_one` | 1 logger per run of the program, 5 threads, 6 events, 1 crash, rollbacks | the chain row by row, refinement of `AuditChain`, nothing refused |
| `audit_many` | 2 loggers, the window and the import thread, 5 events, 1 crash, rollbacks, fair | durability, append-only, verifier, every thread gets through its handlers |
| `clip` | 1 service, 2 secrets, fair | tracking, timers, locking; a secret with a timeout leaves the clipboard |
| `clip_two` | 2 services, a platform that refuses | `BusTracked` |
| `import` | 1 thread, checkpoints every 2 rows, 3 files, 4 strategies, titles and user names with spaces; a user action, a lock, a crash with a resumption | the four safety properties, and that an import ends |
| `transfer` | 2 exports, 2 readings, 2 other events, 3 of all of these together; 2 names (one on another volume), 4 formats, a CSV file that is misread | whole files, no secrets left, the round trip |
| `share` | 1 entry, 3 callers, 2 shares, 3 days, 2 other events | records against packages |
| `vault` | 2 files, 2 passwords, 2 salts, 4 setups, saves that are cut short | readable, and not forgotten |

One further run ends in a counterexample, and "findings" quotes the line it
contradicts: `lock_frozen`, where a timer thread in `lock()` holds the clipboard's
RLock and calls into Tk, which waits for the RLock.  `lock_live` excludes this
state by name (`TkDeadlock`) and nothing else.

Three disagreements are kept out of the passing runs by their constants, and each
is described under "hazards" at its line; setting the constant back shows it:

* panic while locked destroys the overlay and nothing shows it again (`lock` has no
  panic key; MW:2048);
* two loggers after a re-login fork the chain (`audit_one` has one per run of the
  program; `audit_logger.py:203`);
* `open_database` leaves the old vault's secret in the clipboard (`clip` has one
  service; MW:644).

What the passing runs say of weaknesses in the code, as the exceptions their
properties name:

* `AckedDurable`: the rollback of a failed entry write (`entry_manager.py:29`, 91, 112)
  or password change (`key_manager.py:117`) takes what another thread has inserted and
  not committed; its `log_event` returns a number for an entry that is gone (`undone`).
* `CountedIsStored`: a counted entry may still be lost to a rollback by the other
  thread between its INSERT and its commit (`torn`).
* `SkipMakesNoTwin`: an import that could not load its index (a locked vault) makes
  twins, and so do entries with spaces around a stored title or user name, which the
  lookup strips and the index does not.  So does what another
  thread writes after the index was loaded, or was writing then: a rollback brings
  back an entry whose deletion was not committed.
* `ImportedIsExported`: an entry whose address is the one LastPass marks secure
  notes with loses it on the way through a LastPass file
  (`lastpass_handler.py:385`), and an entry whose title is only spaces is lost in
  both CSV formats.  A CSV file whose dialect is guessed wrong may come back with
  columns shifted, contrary to `csv_handler.py:11` (P7).
* `OverwrittenIsBackedUp`: a failed backup stops nothing (`bare`).
* `RecordedUnlessUndone`: a package can be out with no record, when somebody rolled
  back or the program ended (`undone`).
* `OursComesBack`: a file over 10 MB can be exported and not imported; a CSV file
  with a text or a tag the import check forbids is refused; one with a quotation mark
  or an apostrophe in a text or a tag may be misread or refused.  (The handler could
  write LastPass without a password, and the check then looks at its tags; the dialog
  never asks for that.)
* `VaultReadable`: setting up a file again loses what it had (`over`).
* `FirstRunOnly`: an encrypted setting is all it takes for `config.json` to lose
  its path, and so is a save that is cut short (`cut`).

What the models contain but no run asks about is under "hazards" with a note:
panic mode never returns to normal, the verifier reads the oldest rows of a long
log, the key comes back into the cache when the password is changed while locked,
an error message that never appears.

### Bounds

* `Lockers`: two timer threads suffice for any race between two calls of `lock()`;
  a third would meet the flag.  `lock_switch` has one, and the Tk and hotkey
  threads beside it.  `MaxStray` remembers how many forgotten timers run
  and saturates: one is enough for "a timer fires that nobody refers to".
* `MaxEvents`, `MaxLogins`, `MaxCrashes`: two writers interleave within two
  entries; two loggers are the least that share no lock; one crash, and what is
  written after it, meets every crash point.  `VerifyLimit` stands for the code's
  1000 and is smaller than the log the runs reach.  In `audit_many` `Background` is
  empty: the window and the import thread are the two that write entries and roll
  back, and two threads are the least whose transactions mix.  It reaches rows a
  fork has broken, so the verifier's failure is logged there.  Failing writes have
  no bound of their own: they add no row.
* `MaxServices` 2: the service in use and one left behind.  `MaxFired` bounds the
  threads waiting for one RLock: one late and one due (1 with two services).
  `Watched` keeps the monitors out of the run with two services (with one of
  them it has 8.5 million states).  `clip_two` does not check
  `ClipboardTracked`, which a refused clear breaks; for any number of services on
  a reliable platform the proof covers it.
* `import`: `Interval` 2 stands for the code's constant and is passed once by a file of
  three rows, so that a checkpoint is written, met by a crash, resumed and removed.
  `Budgets` lists how much else happens in one behaviour (user actions, locks, crashes,
  starts): the user between any two steps, or a lock and a crash with a second import
  after it, never all of it at once.  Titles and user names have a form with a space
  before them, and the files hold twins, bad rows, rows whose ids are known, and in the
  third an entry that cannot be stored before its twin that can.
* `transfer`: two exports may go to one name or follow each other; the destination may
  be on another volume; two files may be chosen, so a late preview or import is of the
  other one; two events (edit, delete, lock, crash).  `MaxAll` has at most three of
  these in one behaviour, in every combination: two exports and a reading, an export and
  two readings, a crash between an export and a reading.  Uncompressed JSON of one entry
  is over the import limit and of two over the export limit, so both are met.  One entry
  has a title of spaces, one the address of LastPass's notes and a forbidden tag, one an
  apostrophe; a misread file gives no rows or one whose cells ran together.
* `share`: two shares, one revocable while the other is made; `MaxTime` 2 exceeds
  `MaxDays` 1, so packages and codes expire; two other events, so an edit and a
  rollback, or a commit and the end of the program, meet one share.
* `vault`: two files are needed to take one's key for the other; four setups allow
  both to fail and be done again.  Nothing else is bounded.
* Symmetry is used for interchangeable threads and secrets, in safety runs only.

Deadlock is not checked, except in `vault`: `VaultLock` has a state the code really
cannot leave (`lock_frozen`), the bounds on events end the runs of `AuditLog`, `Import`,
`Transfer` and `Sharing`, and `Clipboard` ends when the program is closed.

### Fairness

* A started `threading.Timer` expires and its thread runs: weak fairness.
* A thread that waits for an RLock or for the main loop, neither of which is fair
  or held for ever, is let in as long as it becomes free again and again: strong
  fairness per thread (`Lock(w)`, `Act`, `Clear`, the panic thread, `Acquire`).
* The Tk main loop finishes the handler it is in (weak) and runs posted callbacks
  however busy the user is (strong).
* In `Import` the thread keeps running (weak fairness of its step): every step it
  may be at is enabled until it is taken, as nothing in the loop waits.
* Nothing the user or another program does is fair.
* In `Clipboard` weak fairness of the timer is enough: while one secret stays in
  the clipboard the monitor can move its timer at most once.

## 4. Proofs

Every safety invariant, action property and refinement the passing runs check is
also a theorem, for every value of the constants that satisfies the `ASSUME`s of its
module: any number of threads, entries, files, services, crashes.  35 theorems are
listed in `PROJECT.json`.  Hypotheses beyond the `ASSUME`s are in the theorem and
named here.  A property is seldom inductive; each proof names its invariant, takes
it through `Init` and, one lemma per conjunct and one step per action, through
`Next`, and ends with a temporal step.

### VaultLockProofs

* `TypeCorrect`.
* `LockNeverLost`: with `~SwitchAnywhere`, `LockDue`.  Invariant: no thread is at the
  second read of a condition (`NoSecondRead`), and `LockDue`.  Without the assumption
  another thread may set `_lock_timer` to None between the test and `cancel()`, and
  `lock()` dies outside its `try` with the flag set.
* `ClipboardClearedOnLock`: `NothingLeftBehind`, because a copy under way implies an
  open session (`CopyWhileOpen`): both run on the Tk thread.
* `WatchdogNeverLost`: `WatchdogArmed`, with threads switched anywhere and any panic
  keys.  `WatchInv` says that the timer is armed or which step, of a thread or of the
  queue, is about to arm it or to lock (`Watched`), and that no lock is on its way to a
  window whose password is typed and whose service is not locked (`NoLockOnTyped`).
* `MenuFollows`, `WindowCovered`: with `PanicKeys = {}`.  `DeskInv` follows a lock and
  an unlock from the thread that begins them to the main loop's queue: the service
  stays locked as long as a lock is on its way or the overlay is up
  (`LockedUntilUnlock`), none begins while a password is typed or checked
  (`NoLockOnUnlock`), an unlock is posted at the head of the queue and in an open
  session (`UnlockWhileOpen`), and menus and overlay follow the session but for the
  Tk thread's next step (`WindowFollows`).  With a panic key the overlay may be
  destroyed for good and both are false (MW:2048).

### AuditLogProofs and AuditChainProofs

* `AuditTypes`.  That the numbers of issued entries stay in their range needs a count:
  no more than the events, the startup entries and one genesis entry of each run
  (`Counted`, `GenesisFirst`).
* `CommittedStays`: `AppendOnly`, from "committed rows are in the table": a commit
  copies the table, a rollback or crash copies the other way.
* `AcknowledgedIsDurable`: `AckedDurable`, whatever rolls back; the invariant adds that
  a thread about to commit still sees its row, or a rollback took it
  (`WrittenIsSeen`).
* `OneLoggerChain`, `OneLoggerWrites`, `OneLoggerRefines`: with `MaxLogins = 1`,
  `ChainIntact`, `NothingRefused` and `RefinesChain`, through crashes, new runs, failed
  entry writes and password changes.  `OneInv` says that a thread inside `log_event`
  holds the RLock (`LockHeld`), that table and file are chains (`Chained`) and the table
  at most one entry ahead of the file (`OneAhead`), that what a thread has read is still
  the last row (`Prepared`) and that what it is to write is not there yet (`Unwritten`).
  The hypothesis is needed: two instances share no lock, and the chain forks.  For the
  refinement the committed rows, a set, are shown to be counted by their numbers, so
  that the sequence they map to grows by one entry at its end or stays.
* `VerifierTellsTruth`: `VerifierExact` for any number of loggers.  All that is needed
  of the table is that rows have numbers of their own; the rest is about
  `verify_integrity`'s loop, a fold.

### ClipboardProofs

* `TypeCorrect`; `TimerAlwaysCovers`; `BusNeverForgotten`, whatever the platform does;
  `ClipboardNeverForgotten`, with `~AdapterFails`, for any number of services.
* `LockClears`: with `~AdapterFails` and one service, `LockLeavesNothing`.  Its
  invariant says that a vault that is left, past `shutdown()` included, is clean: what
  `_clear_locked` does not touch held no secret, by the two tracking invariants.  Both
  assumptions are needed: the item is dropped when the platform refuses the clear, and
  a second `open_database` clears nothing.

### VaultProofs

* `Types`; `Readable`: `VaultReadable`; `FirstRun`: `FirstRunOnly`.  `VaultReadable`
  alone is not inductive: a step may only write with the cached key if that is the
  file's own (`KeyCurrent`), and changing a hash or a salt makes old keys wrong, so
  the invariant says that a file without a salt holds nothing encrypted
  (`SaltFirst`), that a file between hash and salt is one that had no salt or is
  already in `over` (`UnderSetup`).  For `FirstRunOnly` it says where bytes in the
  configuration come from (`BlobFromRow`), and that without a path on disk nothing has
  been begun, or something is encrypted, or a save was cut short (`NoPathFirst`,
  `NothingBegun`).

### ImportProofs

* `CountedStored`, `SkipsTwins`, `BackupsCover`, `CheckpointsLast`: the four properties
  of the run, for any files, vaults and number of import threads.
  - `CountedHeld`: what is counted, in the transaction and in the file, and what is
    inserted and not yet committed, in the transaction, is there or one of the
    exceptions.
  - `BackedUp`: what is no longer, in the transaction or the file, as it was at the
    start is in a backup, and a thread that has made its backup has all in it that it
    may overwrite.
  - `FilesNamed`, `FilesKept`, `OwedKept`: checkpoint files have numbers of their own,
    a file holds all that the thread that wrote it has yet to come to, and what is owed
    is in a file that no running thread has written, so none but its resumption
    removes it.
  - `NoTwins`: for each thread that skips with a loaded index, every entry that is
    there, in the transaction (what a SELECT shows) or in the file (what a rollback
    brings back), is in the index or in `touched`; and an entry about to be created
    under a key without spaces is not in the index (`NewKey`), which is why the spaces
    are an exception.

### TransferProofs

* `ExportsClean`, `SecretsStayCovered`, `ExportsComeBack`: by stage of an export, where
  its temporary file is (`TempsByStage`), and what any file of this program holds
  wherever it lies (`FilesOK`, with `AsWritten`: the rows are those the handler writes
  for the entries collected).
* `NearAtomic`: `RefinesAtomicFile`.  On the volume of the temporary directory a name
  only holds whole files (`NearWhole`), as nothing there is copied (`NearNotCopied`);
  a step of the code maps to `Replace` or to a stutter.
* `ExportsImported`: `ImportedIsExported`, from the same invariant and that what the
  importer was told is one of the readings of a file (`ToldOK`, `RowsRead`), of which a
  file that is not `Misread` has one.  Its substance is `CsvRoundTrip`,
  `BitwardenRoundTrip` and `LastPassRoundTrip`: what reading gives for each row that was
  written. `JsonImported` adds that in JSON the entries are equal.

### SharingProofs

* `SharesRecorded`, `RecordsAgree`, `PackagesReadInTime`, `SharesKept`.  The invariant:
  share ids are new (`IdsNew`) and no two callers have the same (`IdsOwn`), each
  package, from the step before it leaves, has its record in the transaction or was
  undone, and what is alive of the record, there or in the file, is true of it
  (`RecordsTold`); a transaction adds rows to those of the file and lets none live
  longer (`DiskInView`, on which `SharesKept` rests); what is out expires within
  `MAX_EXPIRY_DAYS` (`TimesBounded`).

### Sequences without induction

`verify_integrity` is a fold and the handlers build lists, so facts about them for
every length need induction, and the library's induction theorems take an operator,
which the provers here cannot instantiate.  They are proved by a set instead: a set of
numbers that holds 0 and with every number its successor holds all of them
(`Successors`, from `WFMin` of the library, which takes a set).

### What the assumptions are, and why they hold

Names are distinct, bounds are numbers, switches are Boolean.  Beyond that: `Strip` of a
stripped text is the text (`str.strip`), and it leaves `[ENCRYPTED]`, which a CSV file
has for a password, alone; that text is none the importer forbids (`importer.py:37-44`)
and has no quotation mark; tags are texts; what a misread file gives are rows of
entries, any; vaults are finite; the entries of a vault an import begins with have the
ids 1 to k (ids are names, and `uuid4` never gives one again); files the user has from
elsewhere are whole and not this program's.  TLC evaluates all of them on each run.

### What the proofs found

* `SkipMakesNoTwin` was not inductive with only the entries written *since* the index
  was loaded: a deletion that is not committed then is invisible to the index and
  comes back with a rollback.  It is an exception now (`touched`).
* `ImportedIsExported` was false of an address LastPass reserves: the texts of the
  instance had none.  The run has one now, and the property names the exception.
* `WatchdogArmed` had an alternative it did not need (a timer nobody refers to).  It now
  asks that the timer the service refers to be armed.

### Only model-checked

The liveness properties, since TLAPS does not treat fairness here: `IdleLocks`,
`LockCarriedThrough`, `LoggingEnds`, `ClearedInTime`, `ImportEnds`; and the
counterexample to `LockCompletes`, which no theorem could be.

## 5. Not modelled, and the plan

Not to be modelled: cryptography, text encodings and layout, ctypes calls, the
memory-dump tool; security profiles, which nothing switches; memory wiping and
constant-time helpers; what the entry table and the audit viewer show; durations
(timers fire or do not), among them the delay after wrong passwords.

Next, in this order:

1. Sessions: re-login and `open_database` as generations of services, loggers and
   timers over two files, composing `VaultLock`, `Clipboard` and `AuditLog`.
2. Proofs: the lemmas of `Connection` that `ImportProofs` and `SharingProofs` both
   have in their own form, stated once; `CommittedStays` as a refinement for several
   loggers (a forest in place of a chain); abstract specifications of the import
   (what a file and a strategy make of a vault) and of the lock.
3. Two imports at once, which the dialog allows, and an import during an export:
   `Jobs` and `Threads` are there for it, the instance has to be made small enough.
