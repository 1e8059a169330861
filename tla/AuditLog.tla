------------------------------- MODULE AuditLog -------------------------------
(***************************************************************************)
(* The audit log of one vault: AuditLogger instances writing to the table  *)
(* audit_log over the one SQLite connection all threads share.             *)
(*                                                                         *)
(* Each login or unlock makes a new AuditLogger, subscribes it to the      *)
(* EventSystem and never unsubscribes the ones before it.  emit() runs the *)
(* handlers in the emitting thread, one after the other:                   *)
(*   "tk"       GUI handlers: logins, entry changes, clipboard copies;     *)
(*   "import"   the import dialog's worker, which writes entries too;      *)
(*   "ver"      the 24-hour verification timers;                           *)
(*   Background the clipboard's auto-clear timer and its monitor.          *)
(* An instance's RLock serialises its own writes and nobody else's.  One   *)
(* SQL statement is one step.  A commit or rollback ends the transaction   *)
(* of the connection, whichever thread wrote the rows in it.               *)
(***************************************************************************)
EXTENDS Naturals, FiniteSets, FiniteSetsExt, Sequences, SequencesExt

CONSTANTS
  Background,   \* the other threads that emit audited events
  MaxLogins,    \* bound: AuditLogger instances made in one run of the program
  MaxEvents,    \* bound: no event is emitted once so many entries were begun
  MaxCrashes,   \* bound: times the process dies and is started again
  VerifyLimit,  \* rows verify_integrity is asked to read (1000 in the code)
  Rotates,      \* the user may try to change the master password
  NoThread      \* nobody holds an instance's lock

ASSUME AuditAssumption ==
  /\ {"tk", "import", "ver"} \cap Background = {}
  /\ NoThread \notin Background \cup {"tk", "import", "ver"}
  /\ MaxLogins \in Nat \ {0}
  /\ MaxEvents \in Nat
  /\ MaxCrashes \in Nat
  /\ VerifyLimit \in Nat \ {0}
  /\ Rotates \in BOOLEAN

Threads == Background \cup {"tk", "import", "ver"}
EntryWriters == {"tk", "import"}   \* the threads that call EntryManager
Loggers == 1..MaxLogins
\* Each login may add a startup entry, and one of a run the genesis entry.
MaxIssued == MaxEvents + (MaxLogins + 1) * (MaxCrashes + 1)

VARIABLES
  table,     \* audit_log as the shared connection sees it
  durable,   \* audit_log as committed
  loggers,   \* instances subscribed to the EventSystem
  lock,      \* owner of each instance's RLock
  degraded,  \* instances with _degraded set
  job,       \* the entry each thread is writing
  pc,        \* where each thread is
  issued,    \* how many entries were set out to be written
  acked,     \* hashes of the entries whose log_event returned a number
  undone,    \* hashes of the rows a rollback took back before their commit
  crashes

store  == <<table, durable>>
memory == <<loggers, lock, degraded>>
vars   == <<store, memory, job, pc, issued, acked, undone, crashes>>

\* entry_hash covers the whole entry, so two entries never share one: it is
\* the event and the instance that logs it.
Hashes  == (1..MaxIssued) \X Loggers
Genesis == <<0, 0>>
Rows    == [seq : Nat, prev : Hashes \cup {Genesis}, hash : Hashes]

\* A job: event ev, to be logged by instance lg, and what follows log_event:
\* the next subscribed "handlers", the rest of the constructor, or nothing.
Jobs  == [ev : 0..MaxIssued, lg : 0..MaxLogins, prev : Hashes \cup {Genesis},
          seq : Nat, then : {"nothing", "handlers", "store_key"}]
NoJob == [ev |-> 0, lg |-> 0, prev |-> Genesis, seq |-> 0, then |-> "nothing"]
Labels == {"idle", "lock", "select_last", "select_next", "insert", "commit",
           "store_key", "subscribe"}

TypeOK ==
  /\ table \subseteq Rows /\ durable \subseteq Rows
  /\ loggers \in 0..MaxLogins
  /\ lock \in [Loggers -> Threads \cup {NoThread}]
  /\ degraded \subseteq Loggers
  /\ job \in [Threads -> Jobs]
  /\ pc \in [Threads -> Labels]
  /\ issued \in 0..MaxIssued
  /\ acked \subseteq Hashes /\ undone \subseteq Hashes
  /\ crashes \in 0..MaxCrashes

Init ==
  /\ table = {} /\ durable = {}
  /\ loggers = 0
  /\ lock = [l \in Loggers |-> NoThread]
  /\ degraded = {}
  /\ job = [t \in Threads |-> NoJob]
  /\ pc = [t \in Threads |-> "idle"]
  /\ issued = 0 /\ acked = {} /\ undone = {} /\ crashes = 0

At(t, l) == pc[t] = l
Goto(t, l) == pc' = [pc EXCEPT ![t] = l]
Seqs(rows) == {r.seq : r \in rows}
HashOf(j) == <<j.ev, j.lg>>

-----------------------------------------------------------------------------
(* AuditLogger.log_event and _write_entry, statement by statement.         *)

\* Enter log_event for a new event, in instance l.
Begin(t, l, then) ==
  /\ issued' = issued + 1
  /\ job' = [job EXCEPT ![t] = [NoJob EXCEPT !.ev = issued + 1, !.lg = l,
                                             !.then = then]]
  /\ Goto(t, "lock")

\* MUTANT: log_event takes no lock.
AnyTime(t, l) == TRUE

\* An RLock: its holder may enter again.
FreeOrMine(t, l) == lock[l] \in {NoThread, t}

\* with self._lock
Acquire(t) ==
  /\ At(t, "lock")
  /\ FreeOrMine(t, job[t].lg)
  /\ lock' = [lock EXCEPT ![job[t].lg] = t]
  /\ Goto(t, "select_last")
  /\ UNCHANGED <<store, loggers, degraded, job, issued, acked, undone, crashes>>

\* MUTANT: ORDER BY sequence_number without DESC.
FirstHash(rows) ==
  IF rows = {} THEN Genesis
  ELSE (CHOOSE r \in rows : \A q \in rows : r.seq <= q.seq).hash

\* SELECT entry_hash ... ORDER BY sequence_number DESC LIMIT 1
LastHash(rows) ==
  IF rows = {} THEN Genesis
  ELSE (CHOOSE r \in rows : \A q \in rows : q.seq <= r.seq).hash

\* The first entry of a new table is given its sequence number.
SelectLast(t) ==
  /\ At(t, "select_last")
  /\ job' = [job EXCEPT ![t].prev = LastHash(table)]
  /\ Goto(t, IF job[t].then = "store_key" THEN "insert" ELSE "select_next")
  /\ UNCHANGED <<store, memory, issued, acked, undone, crashes>>

\* SELECT COALESCE(MAX(sequence_number), -1) + 1
SelectNext(t) ==
  /\ At(t, "select_next")
  /\ job' = [job EXCEPT ![t].seq = IF table = {} THEN 0 ELSE Max(Seqs(table)) + 1]
  /\ Goto(t, "insert")
  /\ UNCHANGED <<store, memory, issued, acked, undone, crashes>>

\* MUTANT: the loop over the handlers runs one past the end.
MoreHandlersOff(l) == l <= loggers /\ l <= MaxLogins
MoreHandlers(l) == l < loggers

\* MUTANT: log_event returns without releasing the lock.
KeepLock(t) == lock
ReleaseLock(t) == [lock EXCEPT ![job[t].lg] = NoThread]

\* Leave log_event.  emit() goes on with the next subscribed handler.
Return(t) ==
  /\ lock' = ReleaseLock(t)
  /\ IF job[t].then = "handlers" /\ MoreHandlers(job[t].lg)
     THEN /\ job' = [job EXCEPT ![t] = [NoJob EXCEPT !.ev = job[t].ev,
                        !.lg = job[t].lg + 1, !.then = "handlers"]]
          /\ Goto(t, "lock")
     ELSE IF job[t].then = "store_key"
     THEN Goto(t, "store_key") /\ UNCHANGED job
     ELSE Goto(t, "idle") /\ job' = [job EXCEPT ![t] = NoJob]

RowOf(j) == [seq |-> j.seq, prev |-> j.prev, hash |-> HashOf(j)]

\* MUTANT: INSERT OR REPLACE.
InsertOrReplace(t) ==
  /\ At(t, "insert")
  /\ table' = {r \in table : r.seq # job[t].seq} \cup {RowOf(job[t])}
  /\ Goto(t, "commit")
  /\ UNCHANGED <<durable, memory, job, issued, acked, undone, crashes>>

\* INSERT: sequence_number is the primary key.  A duplicate raises
\* IntegrityError, a sqlite3.Error: log_event notes it and returns None.
Insert(t) ==
  /\ At(t, "insert")
  /\ \/ /\ job[t].seq \notin Seqs(table)
        /\ table' = table \cup {RowOf(job[t])}
        /\ Goto(t, "commit")
        /\ UNCHANGED <<lock, degraded, job>>
     \/ /\ job[t].seq \in Seqs(table)
        /\ degraded' = degraded \cup {job[t].lg}
        /\ Return(t)
        /\ UNCHANGED table
  /\ UNCHANGED <<durable, loggers, issued, acked, undone, crashes>>

\* MUTANT: log_event returns the number without committing.
CommitForgotten(t) ==
  /\ At(t, "commit")
  /\ acked' = acked \cup {HashOf(job[t])}
  /\ Return(t)
  /\ UNCHANGED <<store, loggers, degraded, issued, undone, crashes>>

\* self.db.commit(); return seq
Commit(t) ==
  /\ At(t, "commit")
  /\ durable' = table
  /\ acked' = acked \cup {HashOf(job[t])}
  /\ Return(t)
  /\ UNCHANGED <<table, loggers, degraded, issued, undone, crashes>>

-----------------------------------------------------------------------------
(* What makes the program write.                                           *)

MayEmit == issued < MaxEvents

\* EventSystem.emit for an audited event, by any thread.
Emit(t) ==
  /\ t # "ver" /\ At(t, "idle")
  /\ loggers > 0 /\ MayEmit
  /\ Begin(t, 1, "handlers")
  /\ UNCHANGED <<store, memory, acked, undone, crashes>>

\* conn.rollback(): whatever was not committed is gone, whoever wrote it.
Rollback ==
  /\ table' = durable
  /\ undone' = undone \cup {r.hash : r \in table \ durable}
  /\ UNCHANGED <<durable, memory, job, pc, issued, acked, crashes>>

\* EntryManager.create_entry, update_entry, delete_entry: commit, then emit.
SaveEntry(t) ==
  /\ t \in EntryWriters /\ At(t, "idle")
  /\ loggers > 0 /\ MayEmit
  /\ durable' = table
  /\ Begin(t, 1, "handlers")
  /\ UNCHANGED <<table, memory, acked, undone, crashes>>

\* Their except branches: tags that are a list cannot be bound, soft delete
\* has no table to write to.  The statement raises, and nothing is emitted.
SaveFails(t) ==
  /\ t \in EntryWriters /\ At(t, "idle")
  /\ loggers > 0
  /\ Rollback

\* AuditLogger.__init__ after a login or unlock: _ensure_genesis.
NewLogger ==
  /\ At("tk", "idle")
  /\ loggers < MaxLogins
  /\ \/ /\ table = {}
        /\ Begin("tk", loggers + 1, "store_key")
     \/ /\ table # {}
        /\ job' = [job EXCEPT !["tk"] = [NoJob EXCEPT !.lg = loggers + 1]]
        /\ Goto("tk", "store_key")
        /\ UNCHANGED issued
  /\ UNCHANGED <<store, memory, acked, undone, crashes>>

\* _store_public_key_once ends with a commit.
StoreKey ==
  /\ At("tk", "store_key")
  /\ durable' = table
  /\ Goto("tk", "subscribe")
  /\ UNCHANGED <<table, memory, job, issued, acked, undone, crashes>>

\* _subscribe_events, then _init_audit_logger logs SYSTEM_STARTUP.
Subscribe ==
  /\ At("tk", "subscribe")
  /\ loggers' = job["tk"].lg
  /\ Begin("tk", job["tk"].lg, "nothing")
  /\ UNCHANGED <<store, lock, degraded, acked, undone, crashes>>

\* rotate_master_password: the SELECT after BEGIN names a column that does
\* not exist, so every attempt ends in conn.rollback().
Rotate ==
  /\ Rotates /\ At("tk", "idle")
  /\ Rollback

-----------------------------------------------------------------------------
(* AuditLogVerifier.verify_connection(limit) over verify_rows.             *)

\* The rows read: ORDER BY sequence_number LIMIT n.
RowsRead(rows, n) ==
  [i \in 1..Min({n, Cardinality(rows)}) |->
     CHOOSE r \in rows : Cardinality({q \in rows : q.seq < r.seq}) = i - 1]

\* MUTANT: previous_hash follows the table through broken rows.
VerifyRowFollows(result, row) ==
  [result EXCEPT !.last = row.hash,
                 !.ok = result.last = Genesis \/ row.prev = result.last]

\* One row of verify_rows: the first is not compared with anything, and a row
\* that breaks the chain leaves previous_hash as it was.
VerifyRow(result, row) ==
  IF result.last = Genesis \/ row.prev = result.last
  THEN [result EXCEPT !.last = row.hash]
  ELSE [result EXCEPT !.ok = FALSE]

\* result["verified"]
Verified(rows, n) ==
  FoldLeft(VerifyRow, [ok |-> TRUE, last |-> Genesis], RowsRead(rows, n)).ok

\* _run_periodic_verify of instance l: a failure is logged by that instance.
PeriodicVerify(l) ==
  /\ At("ver", "idle")
  /\ l <= loggers /\ MayEmit
  /\ ~Verified(table, VerifyLimit)
  /\ Begin("ver", l, "nothing")
  /\ UNCHANGED <<store, memory, acked, undone, crashes>>

\* The process dies: what was not committed is gone with its memory.
Crash ==
  /\ crashes < MaxCrashes
  /\ crashes' = crashes + 1
  /\ table' = durable
  /\ loggers' = 0
  /\ lock' = [l \in Loggers |-> NoThread]
  /\ degraded' = {}
  /\ job' = [t \in Threads |-> NoJob]
  /\ pc' = [t \in Threads |-> "idle"]
  /\ UNCHANGED <<durable, issued, acked, undone>>

Write(t) == Acquire(t) \/ SelectLast(t) \/ SelectNext(t) \/ Insert(t) \/ Commit(t)

Next ==
  \/ \E t \in Threads : Write(t) \/ Emit(t) \/ SaveEntry(t) \/ SaveFails(t)
  \/ NewLogger \/ StoreKey \/ Subscribe \/ Rotate
  \/ \E l \in Loggers : PeriodicVerify(l)
  \/ Crash

Spec == Init /\ [][Next]_vars

\* A thread that is writing goes on; Python's locks are not fair, a waiting
\* thread is still let in as long as the lock keeps becoming free.
FairSpec ==
  /\ Spec
  /\ \A t \in Threads : SF_vars(Acquire(t)) /\ WF_vars(Write(t))
  /\ WF_vars(StoreKey) /\ WF_vars(Subscribe)

-----------------------------------------------------------------------------
(* Properties.                                                             *)

RowAt(rows, n) == CHOOSE r \in rows : r.seq = n

\* The entries are numbered without a gap and each names the hash of the one
\* before it (ADR-002).
Linked(rows) ==
  /\ Seqs(rows) = 0..(Cardinality(rows) - 1)
  /\ \A r \in rows :
       r.prev = IF r.seq = 0 THEN Genesis ELSE RowAt(rows, r.seq - 1).hash

\* At any moment, rows a thread has yet to commit included, audit_log is one
\* unbroken chain (_write_entry).
ChainIntact == Linked(table)

\* An entry whose log_event returned its number is in the file for good,
\* whoever committed it, wherever the process died: unless the rollback of a
\* failed entry write or password change came between its INSERT and its
\* commit, which then acknowledges what is no longer there.
AckedDurable == acked \ undone \subseteq {r.hash : r \in durable}

\* No instance ever fails to write: an audited event is in the log once every
\* handler ran (log_event's except branch is not taken).
NothingRefused == degraded = {}

\* A committed entry is never changed or removed (ADR-002: append-only).
AppendOnly == [][durable \subseteq durable']_durable

\* verify_integrity(limit) says "verified" exactly when the rows it read name
\* each other in order.
VerifierExact ==
  LET read == RowsRead(table, VerifyLimit)
  IN  Verified(table, VerifyLimit) <=>
        \A i \in 2..Len(read) : read[i].prev = read[i - 1].hash

\* A thread that sets out to log an event gets through all its handlers: it
\* does not wait for an instance's lock for ever.
LoggingEnds == \A t \in Threads : pc[t] # "idle" ~> pc[t] = "idle"

\* The committed rows are the abstract chain.
Entry(r) == [prev |-> r.prev, hash |-> r.hash]
CommittedChain ==
  LET rows == RowsRead(durable, Cardinality(durable))
  IN  [i \in DOMAIN rows |-> Entry(rows[i])]

Abstract == INSTANCE AuditChain WITH chain <- CommittedChain

\* One commit adds one entry, and the file is always a chain ADR-002 describes.
RefinesChain == Abstract!Spec
===============================================================================
