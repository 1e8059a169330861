-------------------------------- MODULE Import --------------------------------
(***************************************************************************)
(* VaultImporter._import_entries and resume_import, run by the thread that *)
(* ImportDialog starts, beside the user's own work on the same vault: the  *)
(* add, edit and delete handlers of MainWindow, the auto-lock that takes   *)
(* the key away, and the end of the process.                               *)
(*                                                                         *)
(* EntryManager writes and commits in two steps on the shared Connection,  *)
(* so the steps of the two threads interleave there.  Rows of a file are   *)
(* what the format handlers deliver (module Transfer).                     *)
(***************************************************************************)
EXTENDS Connection, Naturals, Sequences, FiniteSets

CONSTANTS
  Titles,    \* titles, lower case, as they are stored
  Users,     \* user names, NoUser among them
  NoUser,    \* the empty user name
  Strip,     \* of a title or user name: it without the spaces around it
  Files,     \* the files that may be imported, each a sequence of rows
  Gone,      \* in the place of an entry that is not there
  Vaults,    \* what the vault may hold when the program starts
  Jobs,      \* import threads
  Interval,  \* _CHECKPOINT_INTERVAL
  MaxSuffix, \* bound: the highest " (imported n)"
  MaxId,     \* bound: entries ever made
  MaxTemp,   \* bound: checkpoint files ever written
  Budgets    \* bound: what else happens, one of these chosen at the start

Ids      == 1..MaxId
Dangling == MaxId + 1          \* an id that no entry has
Strategies == {"skip", "replace", "rename", "merge"}

\* (title, username) of an entry; n counts the " (imported n)" of a rename.
Keys   == [t : Titles, n : 0..MaxSuffix, u : Users]
Fields == {"pw", "notes"}
Values == {"", "old", "file", "edit"}   \* "edit": typed by the user
Datas  == [Fields -> Values]

Entries == [key : Keys, data : Datas]
NoKey   == [t |-> CHOOSE t \in Titles : TRUE, n |-> 0, u |-> NoUser]
NoData  == [f \in Fields |-> ""]

\* A row of a file: bad is a row with no title or with a pattern of
\* _MALICIOUS_PATTERNS, tags is what entry["tags"] holds, id is the id of an
\* entry of this vault (a file that was exported from it) or Dangling.
FileRows == [t : Titles, u : Users, data : Datas, bad : BOOLEAN,
             tags : {"text", "list", "nil"}, id : Ids \cup {Dangling}]

ASSUME ImportAssumption ==
  /\ NoUser \in Users /\ Titles # {} /\ Gone \notin Entries
  /\ Strip \in [Titles \cup Users -> Titles \cup Users]
  /\ \A t \in Titles : Strip[t] \in Titles
  /\ \A u \in Users : Strip[u] \in Users
  /\ \A f \in Files : f \in Seq(FileRows)
  /\ Vaults \subseteq [Ids -> Entries \cup {Gone}]
  /\ \A v \in Vaults : \E k \in 0..MaxId : \A n \in Ids : v[n] # Gone <=> n <= k
  /\ Interval \in Nat \ {0}
  /\ MaxId \in Nat \ {0} /\ MaxSuffix \in Nat \ {0} /\ MaxTemp \in Nat
  /\ Budgets \subseteq [user : Nat, lock : Nat, crash : Nat, start : Nat]

VARIABLES
  key,     \* the encryption key is in the cache
  next,    \* the next id uuid4 gives
  job,     \* the import threads
  temp,    \* the checkpoint files of the temporary directory
  named,   \* names of checkpoint files given out so far
  backups, \* the vault_backup_*.db files
  ui,      \* the user's own work: a form that is open, a write to commit
  left,    \* what may still happen, of the chosen budget
  first,   \* ghost: the vault at the start
  counted, \* ghost: entries made by an import and counted as a success
  torn,    \* ghost: entries that a rollback took back
  mine,    \* ghost: entries the user wrote or deleted
  bare,    \* ghost: entries overwritten by an import that has no backup
  owed     \* ghost: rows an interrupted import had not come to

db    == <<view, disk>>
ghost == <<first, counted, torn, mine, bare, owed>>
vars  == <<db, key, next, job, temp, named, backups, ui, left, ghost>>

\* rows, i: the entries and the loop's place; index: existing, 0 for none;
\* ckpt: checkpoint_path, 0 for None; from: the file resume_import read; id,
\* key, data, tags: of the entry at hand; made: the id create_entry gave it,
\* which is not the id the caller knows it by; backed: backup_created.  Ghosts:
\* blind: the index could not be loaded; touched: entries others wrote since, or
\* had not committed then.
IdleJob == [pc |-> "idle", rows |-> <<>>, i |-> 1, strat |-> "skip",
            index |-> [k \in Keys |-> 0], ckpt |-> 0, from |-> 0,
            id |-> Dangling, made |-> Dangling, key |-> NoKey,
            data |-> NoData, tags |-> "text", backed |-> FALSE, blind |-> FALSE,
            touched |-> {}, ok |-> 0, failed |-> 0]

IdleUi == [pc |-> "idle", id |-> Dangling, data |-> NoData]

Init ==
  /\ disk \in Vaults /\ view = disk /\ first = disk
  /\ key = TRUE
  /\ next = 1 + Cardinality({n \in Ids : disk[n] # Gone})
  /\ job = [j \in Jobs |-> IdleJob]
  /\ temp = {} /\ named = 0 /\ backups = {}
  /\ ui = IdleUi
  /\ left \in Budgets
  /\ counted = {} /\ torn = {} /\ mine = {} /\ bare = {} /\ owed = {}

-------------------------------------------------------------------------------
Present(v) == {n \in Ids : v[n] # Gone}

Spend(what) == left[what] > 0 /\ left' = [left EXCEPT ![what] = @ - 1]

\* What a rollback takes back of somebody's unfinished create_entry.
TakenBack == torn' = torn \cup (Present(view) \ Present(disk))

\* The other imports do not know of a write of entry n.
Touched(js, n, b) == [j \in Jobs |->
  IF j \in js THEN [b[j] EXCEPT !.touched = @ \cup {n}] ELSE b[j]]

-------------------------------------------------------------------------------
(* _import_entries, one step at a time. *)

\* MUTANT: a backup takes the place of the one before.
LastBackup == {disk}

\* create_backup copies the file; each copy is named by the time it is made.
AddBackup == backups \cup {disk}

\* The dialog's button, or resume_import: the thread begins.  A backup is made
\* for the strategies that overwrite, of what is committed; when it cannot be
\* made the import goes on without.
Begin(j, rows, strat, from) ==
  /\ job[j].pc = "idle"
  /\ Spend("start")
  /\ \E backed \in IF strat \in {"replace", "merge"} THEN BOOLEAN ELSE {FALSE} :
       /\ job' = [job EXCEPT ![j] =
            [IdleJob EXCEPT !.pc = "index", !.rows = rows, !.strat = strat,
                            !.from = from, !.backed = backed]]
       /\ backups' = IF backed THEN AddBackup ELSE backups
  /\ UNCHANGED <<db, key, next, temp, named, ui, ghost>>

Start(j) == \E f \in Files, s \in Strategies : Begin(j, f, s, 0)

Resume(j) == \E c \in temp : Begin(j, c.rows, c.strat, c.no)

\* _load_existing_index: of two entries with one key the later in the list
\* wins, and the list is ordered by a clock that counts seconds.  Any
\* exception, and a locked vault gives one, leaves the index empty.
LoadIndex(j) ==
  LET Holders(k) == {n \in Present(view) : view[n].key = k}
  IN /\ job[j].pc = "index"
     /\ \E last \in BOOLEAN :
          job' = [job EXCEPT
            ![j].pc = "row", ![j].blind = ~key,
            ![j].touched = {n \in Ids : view[n] # disk[n]},
            ![j].index = [k \in Keys |->
              IF ~key \/ Holders(k) = {} THEN 0
              ELSE IF last THEN CHOOSE n \in Holders(k) : \A m \in Holders(k) : m <= n
              ELSE CHOOSE n \in Holders(k) : \A m \in Holders(k) : n <= m]]
     /\ UNCHANGED <<db, key, next, temp, named, backups, ui, left, ghost>>

Row(j) == job[j].rows[job[j].i]

\* conflict_key is made of the stripped title and user name; the index, and
\* new_key, of those that are stored.
RowKey(j)      == [t |-> Row(j).t, n |-> 0, u |-> Row(j).u]
Stripped(k)    == [k EXCEPT !.t = Strip[k.t], !.u = Strip[k.u]]
ConflictKey(j) == Stripped(RowKey(j))
Hit(j) == job[j].index[ConflictKey(j)]

AtRow(j) == job[j].pc = "row" /\ job[j].i <= Len(job[j].rows)

\* MUTANT: the row at hand is taken for done.
RemainingNext(j) == SubSeq(job[j].rows, job[j].i + 1, Len(job[j].rows))

\* remaining[idx:]
Remaining(j) == SubSeq(job[j].rows, job[j].i, Len(job[j].rows))

\* Every Interval rows the rows still to come go to a new file.  When it
\* cannot be written the path that is returned names no file, and when it
\* cannot be made the exception ends the import.
Checkpoint(j, b) ==
  IF job[j].i = 1 \/ (job[j].i - 1) % Interval # 0
  THEN /\ job' = [job EXCEPT ![j] = b]
       /\ UNCHANGED <<temp, named>>
  ELSE /\ named < MaxTemp
       /\ \/ /\ job' = [job EXCEPT ![j] = [b EXCEPT !.ckpt = named + 1]]
             /\ named' = named + 1
             /\ temp' = temp \cup
                  {[no |-> named + 1, strat |-> job[j].strat, rows |-> Remaining(j)]}
          \/ /\ job' \in {[job EXCEPT ![j] = [b EXCEPT !.ckpt = 0]],
                          [job EXCEPT ![j] = IdleJob]}
             /\ UNCHANGED <<temp, named>>

Succeeded(b) == [b EXCEPT !.pc = "row", !.i = @ + 1, !.ok = @ + 1]
Failed(b)    == [b EXCEPT !.pc = "row", !.i = @ + 1, !.failed = @ + 1]

\* MUTANT: a refused row is tried again.
RowRefusedAgain(j) == AtRow(j) /\ Row(j).bad /\ Checkpoint(j, job[j])

\* No title, or a forbidden pattern in one of the fields.
RowRefused(j) ==
  /\ AtRow(j) /\ Row(j).bad
  /\ Checkpoint(j, Failed(job[j]))

RowSkipped(j) ==
  /\ AtRow(j) /\ ~Row(j).bad
  /\ Hit(j) # 0 /\ job[j].strat = "skip"
  /\ Checkpoint(j, [job[j] EXCEPT !.i = @ + 1])

RowReplaces(j) ==
  /\ AtRow(j) /\ ~Row(j).bad
  /\ Hit(j) # 0 /\ job[j].strat = "replace"
  /\ Checkpoint(j, [job[j] EXCEPT
       !.pc = "update", !.id = Hit(j), !.data = Row(j).data,
       !.key = RowKey(j), !.tags = Row(j).tags])

RowMerges(j) ==
  /\ AtRow(j) /\ ~Row(j).bad
  /\ Hit(j) # 0 /\ job[j].strat = "merge"
  /\ Checkpoint(j, [job[j] EXCEPT !.pc = "read", !.id = Hit(j)])

\* _make_unique_title is called without the user name and looks for a title
\* that is free for the empty one.
Free(j, n) == job[j].index[[t |-> Strip[Row(j).t], n |-> n, u |-> NoUser]] = 0
FreeSuffix(j) ==
  CHOOSE n \in 1..MaxSuffix : Free(j, n) /\ \A m \in 1..n - 1 : ~Free(j, m)

RowCreates(j) ==
  /\ AtRow(j) /\ ~Row(j).bad
  /\ Hit(j) # 0 => job[j].strat = "rename" /\ \E n \in 1..MaxSuffix : Free(j, n)
  /\ Checkpoint(j, [job[j] EXCEPT
       !.pc = "create", !.data = Row(j).data, !.tags = Row(j).tags,
       !.id  = IF Hit(j) = 0 THEN Row(j).id ELSE Dangling,
       !.key = IF Hit(j) = 0 THEN RowKey(j)
               ELSE [RowKey(j) EXCEPT !.t = Strip[@], !.n = FreeSuffix(j)]])

TakeRow(j) ==
  /\ \/ RowRefused(j) \/ RowSkipped(j) \/ RowReplaces(j) \/ RowMerges(j)
     \/ RowCreates(j)
  /\ UNCHANGED <<db, key, next, backups, ui, left, ghost>>

\* create_entry: without the key encrypt_entry raises before anything is
\* written; a list cannot be bound to the column tags, and the handler of that
\* exception rolls the connection back.
Create(j) ==
  /\ job[j].pc = "create"
  /\ \/ /\ ~key
        /\ job' = [job EXCEPT ![j] = Failed(@)]
        /\ UNCHANGED <<db, next, torn>>
     \/ /\ key /\ job[j].tags # "text"
        /\ job' = [job EXCEPT ![j] = Failed(@)]
        /\ Rollback /\ TakenBack /\ UNCHANGED next
     \/ /\ key /\ job[j].tags = "text"
        /\ next <= MaxId /\ next' = next + 1
        /\ Write([view EXCEPT ![next] = [key |-> job[j].key, data |-> job[j].data]])
        /\ job' = Touched(Jobs \ {j}, next,
             [job EXCEPT ![j].pc = "created", ![j].made = next])
        /\ UNCHANGED torn
  /\ UNCHANGED <<key, temp, named, backups, ui, left, first, counted, mine, bare, owed>>

\* MUTANT: create_entry leaves the commit to others, as sharing does.
CreatedUncommitted(j) ==
  /\ job[j].pc = "created"
  /\ counted' = counted \cup {job[j].made}
  /\ job' = [job EXCEPT ![j] =
       [Succeeded(job[j]) EXCEPT !.index[job[j].key] = job[j].id]]
  /\ UNCHANGED <<db, key, next, temp, named, backups, ui, left, first, torn, mine, bare, owed>>

\* MUTANT: a new entry is not indexed.
CreatedUnindexed(j) ==
  /\ job[j].pc = "created"
  /\ Commit
  /\ counted' = counted \cup {job[j].made}
  /\ job' = [job EXCEPT ![j] = Succeeded(@)]
  /\ UNCHANGED <<key, next, temp, named, backups, ui, left, first, torn, mine, bare, owed>>

\* The commit of create_entry, and the entry's place in the index.
Created(j) ==
  /\ job[j].pc = "created"
  /\ Commit
  /\ counted' = counted \cup {job[j].made}
  /\ job' = [job EXCEPT ![j] =
       [Succeeded(job[j]) EXCEPT !.index[job[j].key] = job[j].id]]
  /\ UNCHANGED <<key, next, temp, named, backups, ui, left, first, torn, mine, bare, owed>>

\* _merge_entries: what the row has wins over what the entry has.  A row of a
\* CSV, Bitwarden or LastPass file brings its tags as a list.
Merged(old, r) == [f \in Fields |-> IF r.data[f] # "" THEN r.data[f] ELSE old.data[f]]

ReadForMerge(j) ==
  LET r == Row(j)  old == view[job[j].id]  raw == RowKey(j)
  IN /\ job[j].pc = "read"
     /\ job' = [job EXCEPT ![j] =
          IF job[j].id = Dangling \/ old = Gone
          THEN [@ EXCEPT !.pc = "update", !.key = raw, !.data = r.data, !.tags = r.tags]
          ELSE IF ~key THEN Failed(@)
          ELSE [@ EXCEPT !.pc = "update", !.key = raw, !.data = Merged(old, r),
                         !.tags = IF r.tags = "nil" THEN "text" ELSE r.tags]]
     /\ UNCHANGED <<db, key, next, temp, named, backups, ui, left, ghost>>

\* update_entry.  That there is no such entry is a result the loop does not
\* look at: the row counts as a success.
Update(j) ==
  LET n == job[j].id
  IN /\ job[j].pc = "update"
     /\ \/ /\ n = Dangling \/ view[n] = Gone
           /\ job' = [job EXCEPT ![j] = Succeeded(@)]
           /\ UNCHANGED <<db, torn, bare>>
        \/ /\ n # Dangling /\ view[n] # Gone /\ ~key
           /\ job' = [job EXCEPT ![j] = Failed(@)]
           /\ UNCHANGED <<db, torn, bare>>
        \/ /\ n # Dangling /\ view[n] # Gone /\ key /\ job[j].tags # "text"
           /\ job' = [job EXCEPT ![j] = Failed(@)]
           /\ Rollback /\ TakenBack /\ UNCHANGED bare
        \/ /\ n # Dangling /\ view[n] # Gone /\ key /\ job[j].tags = "text"
           /\ Write([view EXCEPT ![n] = [key |-> job[j].key, data |-> job[j].data]])
           /\ job' = Touched(Jobs \ {j}, n, [job EXCEPT ![j].pc = "updated"])
           /\ bare' = IF job[j].backed THEN bare ELSE bare \cup {n}
           /\ UNCHANGED torn
     /\ UNCHANGED <<key, next, temp, named, backups, ui, left, first, counted, mine, owed>>

Updated(j) ==
  /\ job[j].pc = "updated"
  /\ Commit
  /\ job' = [job EXCEPT ![j] = Succeeded(@)]
  /\ UNCHANGED <<key, next, temp, named, backups, ui, left, ghost>>

\* The end of the loop: the last checkpoint file goes, the import is written
\* to the audit log, which commits if it can, and resume_import removes the
\* file it read.
Finish(j) ==
  /\ job[j].pc = "row" /\ job[j].i > Len(job[j].rows)
  /\ temp' = {c \in temp : c.no \notin {job[j].ckpt, job[j].from}}
  /\ owed' = IF job[j].from = 0 THEN owed
             ELSE owed \ {job[j].rows[i] : i \in 1..Len(job[j].rows)}
  /\ Commit \/ UNCHANGED db
  /\ job' = [job EXCEPT ![j] = IdleJob]
  /\ UNCHANGED <<key, next, named, backups, ui, left, first, counted, torn, mine, bare>>

Step(j) == LoadIndex(j) \/ TakeRow(j) \/ Create(j) \/ Created(j) \/ ReadForMerge(j)
           \/ Update(j) \/ Updated(j) \/ Finish(j)

-------------------------------------------------------------------------------
(* The user, the auto-lock and the end of the process. *)

MineToo(n, v) ==
  /\ ui' = [IdleUi EXCEPT !.pc = "write", !.id = n]
  /\ Write([view EXCEPT ![n] = v])
  /\ mine' = mine \cup {n}
  /\ job' = Touched(Jobs, n, job)

\* The dialog "new entry", which takes any title; empty ones are left out.
UserAdds ==
  /\ ui.pc = "idle" /\ key /\ Spend("user")
  /\ next <= MaxId /\ next' = next + 1
  /\ \E t \in Titles, u \in Users :
       MineToo(next, [key |-> [t |-> t, n |-> 0, u |-> u],
                      data |-> [f \in Fields |-> "edit"]])
  /\ UNCHANGED <<key, temp, named, backups, first, counted, torn, bare, owed>>

\* The dialog "edit entry" is filled when it opens.
UserOpens ==
  /\ ui.pc = "idle" /\ key /\ Spend("user")
  /\ \E n \in Present(view) :
       ui' = [pc |-> "form", id |-> n, data |-> view[n].data]
  /\ UNCHANGED <<db, key, next, job, temp, named, backups, ghost>>

\* It saves all its fields, the password as the user typed it and the notes as
\* they were; an entry that is gone, or no key, gives a message.
UserSaves ==
  /\ ui.pc = "form"
  /\ \/ /\ key /\ view[ui.id] # Gone
        /\ MineToo(ui.id, [view[ui.id] EXCEPT !.data = [ui.data EXCEPT !["pw"] = "edit"]])
     \/ /\ ~key \/ view[ui.id] = Gone
        /\ ui' = IdleUi
        /\ UNCHANGED <<db, mine, job>>
  /\ UNCHANGED <<key, next, temp, named, backups, left, first, counted, torn, bare, owed>>

UserDeletes ==
  /\ ui.pc = "idle" /\ key /\ Spend("user")
  /\ \E n \in Present(view) : MineToo(n, Gone)
  /\ UNCHANGED <<key, next, temp, named, backups, first, counted, torn, bare, owed>>

UserCommits ==
  /\ ui.pc = "write"
  /\ Commit /\ ui' = IdleUi
  /\ UNCHANGED <<key, next, job, temp, named, backups, left, ghost>>

\* A change of the master password always fails, and rolls back.
UserRotates ==
  /\ ui.pc = "idle" /\ key /\ Spend("user")
  /\ Rollback /\ TakenBack
  /\ UNCHANGED <<key, next, job, temp, named, backups, ui, first, counted, mine, bare, owed>>

\* Any entry of the audit log is written with a commit.
OtherCommit ==
  /\ view # disk /\ Commit
  /\ UNCHANGED <<key, next, job, temp, named, backups, ui, left, ghost>>

Lock ==
  /\ key /\ Spend("lock") /\ key' = FALSE
  /\ UNCHANGED <<db, next, job, temp, named, backups, ui, ghost>>

Unlock ==
  /\ ~key /\ key' = TRUE
  /\ UNCHANGED <<db, next, job, temp, named, backups, ui, left, ghost>>

\* The process ends at any point.  What an import with a checkpoint had not
\* come to is owed: resume_import is there for it.
Saved(j) == {c \in temp : c.no \in {job[j].ckpt, job[j].from}}

Crash ==
  /\ Spend("crash")
  /\ Reopen /\ TakenBack
  /\ key' = FALSE
  /\ owed' = owed \cup UNION {{job[j].rows[i] : i \in job[j].i..Len(job[j].rows)} :
                                j \in {k \in Jobs : Saved(k) # {}}}
  /\ job' = [j \in Jobs |-> IdleJob]
  /\ ui' = IdleUi
  /\ UNCHANGED <<next, temp, named, backups, first, counted, mine, bare>>

Next ==
  \/ \E j \in Jobs : Start(j) \/ Resume(j) \/ Step(j)
  \/ UserAdds \/ UserOpens \/ UserSaves \/ UserDeletes \/ UserCommits \/ UserRotates
  \/ OtherCommit \/ Lock \/ Unlock \/ Crash

Spec == Init /\ [][Next]_vars

\* The import thread and the Tk main loop keep running.
FairSpec == Spec /\ \A j \in Jobs : WF_vars(Step(j))

-------------------------------------------------------------------------------
\* An entry that the importer counted is in the database file, unless the user
\* has deleted it since or a rollback of the other thread took it back between
\* its INSERT and its commit (EntryManager.create_entry, one connection).
CountedIsStored ==
  \A n \in counted : disk[n] # Gone \/ n \in torn \/ n \in mine

\* Conflict strategy "skip" with an index that could be loaded never makes an
\* entry with the title and user name of one that is there, be it from before,
\* from a run that a crash cut off, or from this file.  Entries that another
\* thread wrote since the index was loaded, or was writing then (a rollback
\* brings back an entry whose deletion is not committed), and titles or user
\* names stored with spaces around them, are beyond it.
SkipMakesNoTwin ==
  \A j \in Jobs : job[j].pc = "created" /\ job[j].strat = "skip" /\ ~job[j].blind =>
    \A n \in Present(view) \ {job[j].made} :
      (view[n].key = job[j].key /\ Stripped(view[n].key) = view[n].key)
        => n \in job[j].touched

\* What was in the vault at the start and is no longer as it was is in one of
\* the backups, whatever imports and crashes there were, unless the user changed
\* it or an import whose backup failed did (create_backup, "before any
\* destructive operation").
OverwrittenIsBackedUp ==
  \A n \in Ids \ (mine \cup bare) :
    (first[n] # Gone /\ disk[n] # first[n]) => \E b \in backups : b[n] = first[n]

\* Every row that an interrupted import with a checkpoint had not come to is in
\* a checkpoint file until a resumed import has dealt with it.
OwedIsCheckpointed ==
  \A r \in owed : \E c \in temp : \E i \in 1..Len(c.rows) : c.rows[i] = r

\* An import that has begun ends, or the process does.
ImportEnds == \A j \in Jobs : job[j].pc # "idle" ~> job[j].pc = "idle"
===============================================================================
