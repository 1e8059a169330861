---------------------------- MODULE AuditLogProofs ----------------------------
(***************************************************************************)
(* What the audit log keeps, whatever the number of threads, instances,    *)
(* crashes, failed entry writes and failed key rotations.                  *)
(***************************************************************************)
EXTENDS AuditLog, WellFoundedInduction, TLAPS

\* Threads have a place and a job, so that a step moves exactly one of them.
PcOK == pc \in [Threads -> Labels] /\ DOMAIN job = Threads

\* What is committed is part of what the connection sees.
CommittedIsSeen == durable \subseteq table

\* The table gains rows and gives up only uncommitted ones, in every step.
LEMMA StoreStep ==
  ASSUME [Next]_vars, CommittedIsSeen
  PROVE  durable \subseteq durable' /\ CommittedIsSeen'
<1> USE DEF CommittedIsSeen
<1>1. ASSUME NEW t \in Threads, Write(t)
      PROVE  durable \subseteq durable' /\ CommittedIsSeen'
  BY <1>1 DEF Write, Acquire, SelectLast, SelectNext, Insert, Commit, store
<1>2. ASSUME NEW t \in Threads, Emit(t)
      PROVE  durable \subseteq durable' /\ CommittedIsSeen'
  BY <1>2 DEF Emit, store
<1>3. ASSUME NEW t \in Threads, SaveEntry(t)
      PROVE  durable \subseteq durable' /\ CommittedIsSeen'
  BY <1>3 DEF SaveEntry
<1>4. CASE NewLogger \/ Subscribe
  BY <1>4 DEF NewLogger, Subscribe, store
<1>5. CASE StoreKey
  BY <1>5 DEF StoreKey
<1>6. CASE Rollback
  BY <1>6 DEF Rollback
<1>7. ASSUME NEW l \in Loggers, PeriodicVerify(l)
      PROVE  durable \subseteq durable' /\ CommittedIsSeen'
  BY <1>7 DEF PeriodicVerify, store
<1>8. CASE Crash
  BY <1>8 DEF Crash
<1>9. CASE UNCHANGED vars
  BY <1>9 DEF vars, store
<1> QED
  BY <1>1, <1>2, <1>3, <1>4, <1>5, <1>6, <1>7, <1>8, <1>9 DEF Next, SaveFails, Rotate

\* Nothing the program does, a failed entry write, a failed key rotation or a
\* crash included, changes or removes a committed audit entry.
THEOREM CommittedStays == Spec => AppendOnly
<1>1. Init => CommittedIsSeen
  BY DEF Init, CommittedIsSeen
<1>2. CommittedIsSeen /\ [Next]_vars => CommittedIsSeen'
  BY StoreStep
<1>3. CommittedIsSeen /\ [Next]_vars => [durable \subseteq durable']_durable
  BY StoreStep
<1> QED
  BY <1>1, <1>2, <1>3, PTL DEF Spec, AppendOnly

-----------------------------------------------------------------------------
(* An acknowledged entry is in the file, unless a rollback took its row     *)
(* back.  The invariant says where the row is between INSERT and COMMIT.    *)

WrittenIsSeen ==
  \A t \in Threads : At(t, "commit") => RowOf(job[t]) \in table \/ HashOf(job[t]) \in undone

KeepInv == PcOK /\ CommittedIsSeen /\ WrittenIsSeen /\ AckedDurable

\* A thread that starts to log an event is not about to commit.
LEMMA BeginStep ==
  ASSUME PcOK, WrittenIsSeen, NEW t \in Threads, NEW l, NEW then,
         Begin(t, l, then), UNCHANGED <<table, undone>>
  PROVE  PcOK' /\ WrittenIsSeen'
<1>1. pc' = [pc EXCEPT ![t] = "lock"]
  BY DEF Begin, Goto
<1>2. PcOK'
  BY <1>1 DEF PcOK, Labels, Begin
<1>3. ASSUME NEW u \in Threads, At(u, "commit")'
      PROVE  u # t /\ pc[u] = "commit"
  BY <1>1, <1>3 DEF PcOK, At
<1>4. ASSUME NEW u \in Threads, u # t
      PROVE  RowOf(job'[u]) = RowOf(job[u]) /\ HashOf(job'[u]) = HashOf(job[u])
  <2>1. job'[u] = job[u]
    BY <1>4 DEF Begin, PcOK
  <2> QED
    BY <2>1 DEF RowOf, HashOf
<1> QED
  BY <1>2, <1>3, <1>4 DEF WrittenIsSeen, At

\* Returning from log_event leaves the other threads where they are.
LEMMA ReturnStep ==
  ASSUME PcOK, NEW t \in Threads, Return(t)
  PROVE  /\ PcOK'
         /\ ~At(t, "commit")'
         /\ \A u \in Threads \ {t} : pc'[u] = pc[u] /\ job'[u] = job[u]
<1>1. \E x \in {"lock", "store_key", "idle"} : pc' = [pc EXCEPT ![t] = x]
  BY DEF Return, Goto
<1>2. PcOK'
  BY <1>1 DEF PcOK, Labels, Return
<1>3. ~At(t, "commit")'
  BY <1>1 DEF PcOK, At
<1>4. ASSUME NEW u \in Threads \ {t}
      PROVE  pc'[u] = pc[u] /\ job'[u] = job[u]
  <2>1. pc'[u] = pc[u]
    BY <1>1, <1>4 DEF PcOK
  <2>2. job'[u] = job[u]
    BY <1>4 DEF Return, PcOK
  <2> QED
    BY <2>1, <2>2
<1> QED
  BY <1>2, <1>3, <1>4

\* An insert leaves its own row in the table and takes none away.
LEMMA InsertStep ==
  ASSUME PcOK, WrittenIsSeen, NEW t \in Threads, Insert(t)
  PROVE  PcOK' /\ WrittenIsSeen' /\ UNCHANGED <<durable, acked, undone>>
<1>0. UNCHANGED <<durable, acked, undone>>
  BY DEF Insert
<1>1. CASE job[t].seq \notin Seqs(table)
  <2>1. /\ table' = table \cup {RowOf(job[t])}
        /\ pc' = [pc EXCEPT ![t] = "commit"]
        /\ job' = job
    BY <1>1 DEF Insert, Goto
  <2>2. PcOK'
    BY <2>1 DEF PcOK, Labels
  <2>3. ASSUME NEW u \in Threads, At(u, "commit")'
        PROVE  RowOf(job'[u]) \in table' \/ HashOf(job'[u]) \in undone'
    <3>1. CASE u = t
      BY <2>1, <3>1
    <3>2. CASE u # t
      <4>1. At(u, "commit")
        BY <2>1, <2>3, <3>2 DEF PcOK, At
      <4> QED
        BY <1>0, <2>1, <4>1 DEF WrittenIsSeen
    <3> QED
      BY <3>1, <3>2
  <2> QED
    BY <1>0, <2>2, <2>3 DEF WrittenIsSeen, RowOf, HashOf
<1>2. CASE job[t].seq \in Seqs(table)
  <2>1. Return(t) /\ table' = table
    BY <1>2 DEF Insert
  <2>2. WrittenIsSeen'
    BY <1>0, <2>1, ReturnStep DEF WrittenIsSeen, At, RowOf, HashOf
  <2> QED
    BY <1>0, <2>1, <2>2, ReturnStep
<1> QED
  BY <1>1, <1>2

\* A commit makes the acknowledged entry's row, and every other, durable.
LEMMA CommitStep ==
  ASSUME KeepInv, NEW t \in Threads, Commit(t)
  PROVE  KeepInv'
<1>1. /\ durable' = table /\ table' = table /\ undone' = undone
      /\ acked' = acked \cup {HashOf(job[t])}
      /\ Return(t)
  BY DEF Commit
<1>2. PcOK' /\ WrittenIsSeen'
  BY <1>1, ReturnStep DEF KeepInv, WrittenIsSeen, At, RowOf, HashOf
<1>3. CommittedIsSeen'
  BY <1>1 DEF CommittedIsSeen
<1>4. /\ RowOf(job[t]) \in table \/ HashOf(job[t]) \in undone
      /\ RowOf(job[t]).hash = HashOf(job[t])
  BY DEF Commit, KeepInv, WrittenIsSeen, RowOf
<1>5. AckedDurable'
  BY <1>1, <1>4 DEF KeepInv, AckedDurable, CommittedIsSeen
<1> QED
  BY <1>2, <1>3, <1>5 DEF KeepInv

\* What a rollback takes back is not in the file, and is remembered.
LEMMA RollbackStep ==
  ASSUME KeepInv, Rollback
  PROVE  KeepInv'
<1>1. /\ table' = durable /\ UNCHANGED <<durable, job, pc, acked>>
      /\ undone' = undone \cup {r.hash : r \in table \ durable}
  BY DEF Rollback
<1>2. PcOK' /\ CommittedIsSeen' /\ AckedDurable'
  BY <1>1 DEF KeepInv, PcOK, CommittedIsSeen, AckedDurable
<1>3. ASSUME NEW t \in Threads, At(t, "commit")
      PROVE  RowOf(job[t]) \in durable \/ HashOf(job[t]) \in undone'
  <2>1. RowOf(job[t]).hash = HashOf(job[t])
    BY DEF RowOf
  <2>2. CASE RowOf(job[t]) \in table
    BY <1>1, <2>1, <2>2
  <2>3. CASE HashOf(job[t]) \in undone
    BY <1>1, <2>3
  <2> QED
    BY <1>3, <2>2, <2>3 DEF KeepInv, WrittenIsSeen
<1>4. WrittenIsSeen'
  BY <1>1, <1>3 DEF WrittenIsSeen, At, RowOf, HashOf
<1> QED
  BY <1>2, <1>4 DEF KeepInv

\* An entry whose log_event returned its number is in the file for good,
\* unless a rollback took its row back before the commit: for any number of
\* threads and instances, failed writes, password changes and crashes.
THEOREM AcknowledgedIsDurable == Spec => []AckedDurable
<1>1. Init => KeepInv
  BY DEF Init, KeepInv, PcOK, CommittedIsSeen, WrittenIsSeen, AckedDurable, At, Labels
<1>2. KeepInv /\ [Next]_vars => KeepInv'
  <2> SUFFICES ASSUME KeepInv, [Next]_vars
               PROVE  KeepInv'
    OBVIOUS
  <2>0. durable \subseteq durable' /\ CommittedIsSeen'
    BY StoreStep DEF KeepInv
  <2>1. ASSUME UNCHANGED <<acked, undone>>
        PROVE  AckedDurable'
    BY <2>0, <2>1 DEF KeepInv, AckedDurable
  <2>2. ASSUME NEW t \in Threads, Acquire(t) \/ SelectLast(t) \/ SelectNext(t)
        PROVE  KeepInv'
    <3>1. /\ UNCHANGED <<table, acked, undone>>
          /\ \E x \in Labels \ {"commit"} : pc' = [pc EXCEPT ![t] = x]
          /\ job' = job \/ \E j : job' = [job EXCEPT ![t] = j]
      BY <2>2 DEF Acquire, SelectLast, SelectNext, Goto, Labels, store
    <3>2. PcOK'
      BY <3>1 DEF KeepInv, PcOK
    <3>3. ASSUME NEW u \in Threads, pc'[u] = "commit"
          PROVE  job'[u] = job[u] /\ pc[u] = "commit"
      BY <3>1, <3>3 DEF KeepInv, PcOK
    <3>4. WrittenIsSeen'
      BY <3>1, <3>3 DEF KeepInv, WrittenIsSeen, At, RowOf, HashOf
    <3> QED
      BY <2>0, <2>1, <3>1, <3>2, <3>4 DEF KeepInv
  <2>3. ASSUME NEW t \in Threads, Insert(t)
        PROVE  KeepInv'
    BY <2>0, <2>1, <2>3, InsertStep DEF KeepInv
  <2>4. ASSUME NEW t \in Threads, Commit(t)
        PROVE  KeepInv'
    BY <2>4, CommitStep
  <2>5. ASSUME NEW t \in Threads, NEW l, NEW then, Begin(t, l, then),
               UNCHANGED <<table, acked, undone>>
        PROVE  KeepInv'
    BY <2>0, <2>1, <2>5, BeginStep DEF KeepInv
  <2>6. "tk" \in Threads /\ "ver" \in Threads
    BY DEF Threads
  <2>7. ASSUME NEW t \in Threads, Emit(t)
        PROVE  KeepInv'
    BY <2>5, <2>7 DEF Emit, store
  <2>8. ASSUME NEW t \in Threads, SaveEntry(t)
        PROVE  KeepInv'
    BY <2>5, <2>8 DEF SaveEntry
  <2>9. CASE NewLogger
    <3>1. CASE table = {}
      BY <2>5, <2>6, <2>9, <3>1 DEF NewLogger, store
    <3>2. CASE table # {}
      <4>1. /\ UNCHANGED <<table, acked, undone>>
            /\ pc' = [pc EXCEPT !["tk"] = "store_key"]
            /\ \E j : job' = [job EXCEPT !["tk"] = j]
        BY <2>9, <3>2 DEF NewLogger, Goto, store
      <4>2. PcOK'
        BY <4>1 DEF KeepInv, PcOK, Labels
      <4>3. ASSUME NEW u \in Threads, pc'[u] = "commit"
            PROVE  job'[u] = job[u] /\ pc[u] = "commit"
        BY <4>1, <4>3, <2>6 DEF KeepInv, PcOK
      <4>4. WrittenIsSeen'
        BY <4>1, <4>3 DEF KeepInv, WrittenIsSeen, At, RowOf, HashOf
      <4> QED
        BY <2>0, <2>1, <4>1, <4>2, <4>4 DEF KeepInv
    <3> QED
      BY <3>1, <3>2
  <2>10. CASE StoreKey
    <3>1. /\ UNCHANGED <<table, acked, undone, job>>
          /\ pc' = [pc EXCEPT !["tk"] = "subscribe"]
      BY <2>10 DEF StoreKey, Goto
    <3>2. PcOK'
      BY <3>1 DEF KeepInv, PcOK, Labels
    <3>3. WrittenIsSeen'
      BY <3>1, <2>6 DEF KeepInv, PcOK, WrittenIsSeen, At, RowOf, HashOf
    <3> QED
      BY <2>0, <2>1, <3>1, <3>2, <3>3 DEF KeepInv
  <2>11. CASE Subscribe
    BY <2>5, <2>6, <2>11 DEF Subscribe, store
  <2>12. ASSUME NEW l \in Loggers, PeriodicVerify(l)
         PROVE  KeepInv'
    BY <2>5, <2>6, <2>12 DEF PeriodicVerify, store
  <2>13. CASE Crash
    <3>1. /\ UNCHANGED <<acked, undone>>
          /\ pc' = [t \in Threads |-> "idle"] /\ job' = [t \in Threads |-> NoJob]
      BY <2>13 DEF Crash
    <3>2. PcOK' /\ WrittenIsSeen'
      BY <3>1 DEF PcOK, Labels, WrittenIsSeen, At
    <3> QED
      BY <2>0, <2>1, <3>1, <3>2 DEF KeepInv
  <2>14. CASE UNCHANGED vars
    BY <2>14 DEF vars, store, KeepInv, PcOK, CommittedIsSeen, WrittenIsSeen,
                AckedDurable, At, RowOf, HashOf
  <2> QED
    BY <2>2, <2>3, <2>4, <2>7, <2>8, <2>9, <2>10, <2>11, <2>12, <2>13, <2>14,
       RollbackStep DEF Next, Write, SaveFails, Rotate
<1>3. KeepInv => AckedDurable
  BY DEF KeepInv
<1> QED
  BY <1>1, <1>2, <1>3, PTL DEF Spec

-----------------------------------------------------------------------------
(* Every variable keeps its type.  What bounds the number of entries is that *)
(* a genesis entry is only written before the first instance of a run of the *)
(* program is subscribed, when nobody else writes; once there is an instance *)
(* there is a committed row, and no later one writes a genesis entry.        *)

InLog    == {"select_last", "select_next", "insert", "commit"}
InWrite  == {"lock"} \cup InLog
Starting == {"store_key", "subscribe"}

Writes(t) == pc[t] \in InWrite
First(t)  == Writes(t) /\ job[t].then = "store_key"

\* A thread that writes has an entry and an instance, and only the GUI's makes
\* an instance: the next one.
JobOK(t, x, j, i, l) ==
  /\ x \in InWrite => j.ev \in 1..i /\ j.lg \in Loggers
  /\ x \in Starting \/ (x \in InWrite /\ j.then = "store_key") =>
       t = "tk" /\ j.lg = l + 1 /\ j.lg \in Loggers

JobsOK == \A t \in Threads : JobOK(t, pc[t], job[t], issued, loggers)

NumbersBounded == \E n \in Nat : \A r \in table : r.seq <= n

GenesisFirst ==
  /\ loggers > 0 => durable # {}
  /\ loggers = 0 => \A t \in Threads : (t # "tk" => pc[t] = "idle") /\ (Writes(t) => First(t))
  /\ First("tk") => loggers = 0 /\ (table = {} <=> pc["tk"] # "commit")
  /\ pc["tk"] \in Starting => table # {}
  /\ pc["tk"] = "subscribe" => durable # {}

\* The startup entries and at most one genesis entry of each run.
PerRun   == MaxLogins + 1
StartedBy(l, x) == IF l = 0 /\ x = "idle" THEN 0 ELSE l + 1
Counted  == issued <= MaxEvents + PerRun * crashes + StartedBy(loggers, pc["tk"])

TypeInv ==
  TypeOK /\ CommittedIsSeen /\ JobsOK /\ NumbersBounded /\ GenesisFirst /\ Counted

Less == {p \in Nat \X Nat : p[1] < p[2]}

LEMMA LessWellFounded == IsWellFoundedOn(Less, Nat)
<1>1. OpToRel(<, Nat) = Less
  BY DEF OpToRel, Less
<1> QED
  BY <1>1, NatLessThanWellFounded

LEMMA GreatestNumber ==
  ASSUME NEW S, S \subseteq Nat, S # {}, NEW n \in Nat, \A m \in S : m <= n
  PROVE  \E m \in S : \A k \in S : k <= m
<1> DEFINE Left == {n - m : m \in S}
<1>1. Left \subseteq Nat /\ Left # {}
  <2>1. PICK m \in S : TRUE
    OBVIOUS
  <2>2. n - m \in Left
    OBVIOUS
  <2>3. \A k \in S : n - k \in Nat
    OBVIOUS
  <2> QED
    BY <2>2, <2>3
<1>2. PICK d \in Left : \A e \in Left : ~(<<e, d>> \in Less)
  <2> HIDE DEF Left
  <2> QED
    BY <1>1, LessWellFounded, WFMin
<1>3. PICK m \in S : d = n - m
  OBVIOUS
<1>4. ASSUME NEW k \in S PROVE k <= m
  <2>1. n - k \in Left
    OBVIOUS
  <2>2. n - k \in Nat /\ d \in Nat /\ k \in Nat /\ m \in Nat
    BY <1>1, <2>1
  <2>3. <<n - k, d>> \in Nat \X Nat
    BY <2>2
  <2>4. ~(<<n - k, d>> \in Less)
    BY <1>2, <2>1
  <2>5. ~(n - k < d)
    BY <2>3, <2>4 DEF Less
  <2> QED
    BY <1>3, <2>2, <2>5
<1> QED
  BY <1>4

\* What the two SELECTs of _write_entry find.
LEMMA LastRow ==
  ASSUME NEW rows, rows \subseteq Rows, rows # {},
         NEW n \in Nat, \A r \in rows : r.seq <= n
  PROVE  /\ \E r \in rows : (\A q \in rows : q.seq <= r.seq) /\ LastHash(rows) = r.hash
         /\ Max(Seqs(rows)) \in Nat
         /\ \A r \in rows : r.seq <= Max(Seqs(rows))
         /\ \E r \in rows : r.seq = Max(Seqs(rows))
<1>1. Seqs(rows) \subseteq Nat /\ Seqs(rows) # {}
  BY DEF Seqs, Rows
<1>2. \A m \in Seqs(rows) : m <= n
  BY DEF Seqs
<1>3. PICK m \in Seqs(rows) : \A k \in Seqs(rows) : k <= m
  BY <1>1, <1>2, GreatestNumber
<1>4. PICK r \in rows : r.seq = m
  BY DEF Seqs
<1>5. \A q \in rows : q.seq <= r.seq
  BY <1>3, <1>4 DEF Seqs
<1>6. LastHash(rows) = (CHOOSE s \in rows : \A q \in rows : q.seq <= s.seq).hash
  BY DEF LastHash
<1>7. m \in Nat /\ \A k \in Seqs(rows) : m >= k
  BY <1>1, <1>3
<1>8. Max(Seqs(rows)) \in Seqs(rows) /\ \A k \in Seqs(rows) : Max(Seqs(rows)) >= k
  BY <1>7 DEF Max
<1>9. \E s \in rows : (\A q \in rows : q.seq <= s.seq) /\ LastHash(rows) = s.hash
  BY <1>5, <1>6
<1>10. ASSUME NEW s \in rows PROVE s.seq <= Max(Seqs(rows))
  <2>1. s.seq \in Seqs(rows)
    BY DEF Seqs
  <2> QED
    BY <1>1, <1>8, <2>1
<1> QED
  BY <1>1, <1>8, <1>9, <1>10 DEF Seqs

LEMMA ThreadNames == "tk" \in Threads /\ "ver" \in Threads
BY DEF Threads

\* A step of one thread gives it a place and a job, and leaves the others theirs.
LEMMA Moved ==
  ASSUME TypeOK, JobsOK, NEW t \in Threads, NEW x \in Labels, NEW j \in Jobs,
         pc' = [pc EXCEPT ![t] = x], job' = [job EXCEPT ![t] = j],
         issued' \in Nat, issued <= issued', JobOK(t, x, j, issued', loggers'),
         loggers' = loggers \/ t = "tk"
  PROVE  pc' \in [Threads -> Labels] /\ job' \in [Threads -> Jobs] /\ JobsOK'
<1>1. pc' \in [Threads -> Labels] /\ job' \in [Threads -> Jobs]
  BY DEF TypeOK
<1>2. pc'[t] = x /\ job'[t] = j
  BY DEF TypeOK
<1>3. ASSUME NEW u \in Threads, u # t
      PROVE  JobOK(u, pc'[u], job'[u], issued', loggers')
  <2>1. pc'[u] = pc[u] /\ job'[u] = job[u]
    BY <1>3 DEF TypeOK
  <2>2. JobOK(u, pc[u], job[u], issued, loggers)
    BY DEF JobsOK
  <2>3. job[u].ev \in 1..issued => job[u].ev \in 1..issued'
    BY DEF TypeOK
  <2> QED
    BY <1>3, <2>1, <2>2, <2>3 DEF JobOK
<1> QED
  BY <1>1, <1>2, <1>3 DEF JobsOK

LEMMA NoJobIsJob == ASSUME MaxIssued \in Nat PROVE NoJob \in Jobs
BY AuditAssumption DEF NoJob, Jobs

NewEntry(e, l, th) == [NoJob EXCEPT !.ev = e, !.lg = l, !.then = th]

\* A new entry to log.
LEMMA NewJob ==
  ASSUME NEW e \in 0..MaxIssued, NEW l \in 0..MaxLogins,
         NEW th \in {"nothing", "handlers", "store_key"},
         NEW j, j = NewEntry(e, l, th)
  PROVE  j \in Jobs /\ j.ev = e /\ j.lg = l /\ j.then = th /\ j.seq = 0
<1>1. PICK n : n = NoJob
  OBVIOUS
<1>2. n = [ev |-> 0, lg |-> 0, prev |-> Genesis, seq |-> 0, then |-> "nothing"]
  BY <1>1 DEF NoJob
<1> DEFINE a == [n EXCEPT !.ev = e]
<1>3. a = [ev |-> e, lg |-> 0, prev |-> Genesis, seq |-> 0, then |-> "nothing"]
  BY <1>2
<1> DEFINE b == [a EXCEPT !.lg = l]
<1> HIDE DEF a
<1>4. b = [ev |-> e, lg |-> l, prev |-> Genesis, seq |-> 0, then |-> "nothing"]
  BY <1>3
<1> DEFINE c == [b EXCEPT !.then = th]
<1> HIDE DEF b
<1>5. c = [ev |-> e, lg |-> l, prev |-> Genesis, seq |-> 0, then |-> th]
  BY <1>4
<1>6. c = j
  BY <1>1 DEF a, b, NewEntry
<1> HIDE DEF c
<1>7. c \in Jobs /\ c.ev = e /\ c.lg = l /\ c.then = th /\ c.seq = 0
  BY <1>5 DEF Jobs
<1> QED
  BY <1>6, <1>7

\* Entering log_event.
LEMMA HasBegun ==
  ASSUME TypeOK, JobsOK, NEW t \in Threads, NEW l \in Loggers,
         NEW then \in {"nothing", "handlers", "store_key"}, Begin(t, l, then),
         issued < MaxIssued, MaxIssued \in Nat, loggers' = loggers \/ t = "tk",
         then = "store_key" => t = "tk" /\ l = loggers' + 1
  PROVE  /\ pc' \in [Threads -> Labels] /\ job' \in [Threads -> Jobs] /\ JobsOK'
         /\ issued' = issued + 1 /\ issued' \in 0..MaxIssued
         /\ pc' = [pc EXCEPT ![t] = "lock"]
         /\ \A u \in Threads : (u # t => job'[u] = job[u]) /\ pc'[t] = "lock"
         /\ job'[t].ev = issued' /\ job'[t].lg = l /\ job'[t].then = then
         /\ job'[t].seq = 0
<1> DEFINE j == [NoJob EXCEPT !.ev = issued + 1, !.lg = l, !.then = then]
<1>1. job' = [job EXCEPT ![t] = j] /\ pc' = [pc EXCEPT ![t] = "lock"] /\ issued' = issued + 1
  BY DEF Begin, Goto
<1>2. issued' \in 0..MaxIssued /\ issued' \in 1..issued' /\ issued <= issued' /\ issued' \in Nat
  BY <1>1 DEF TypeOK
<1>3. l \in 0..MaxLogins
  BY AuditAssumption DEF Loggers
<1>4. PICK e : e = issued + 1
  OBVIOUS
<1>5. e \in 0..MaxIssued /\ e = issued'
  BY <1>1, <1>2, <1>4
<1>10. j = NewEntry(e, l, then)
  BY <1>4 DEF NewEntry
<1> HIDE DEF j
<1>11. j \in Jobs /\ j.ev = e /\ j.lg = l /\ j.then = then /\ j.seq = 0
  BY <1>3, <1>5, <1>10, NewJob
<1>6. JobOK(t, "lock", j, issued', loggers')
  BY <1>2, <1>5, <1>11 DEF JobOK, Starting
<1>7. "lock" \in Labels
  BY DEF Labels
<1>8. pc' \in [Threads -> Labels] /\ job' \in [Threads -> Jobs] /\ JobsOK'
  BY <1>1, <1>2, <1>6, <1>7, <1>11, Moved
<1>9. job'[t] = j /\ pc'[t] = "lock" /\ \A u \in Threads : u # t => job'[u] = job[u]
  BY <1>1 DEF TypeOK
<1> QED
  BY <1>1, <1>2, <1>5, <1>8, <1>9, <1>11

\* Leaving log_event.
LEMMA HasReturned ==
  ASSUME TypeOK, JobsOK, NEW t \in Threads, Writes(t), Return(t), UNCHANGED <<issued, loggers>>,
         MaxIssued \in Nat
  PROVE  /\ pc' \in [Threads -> Labels] /\ job' \in [Threads -> Jobs] /\ JobsOK'
         /\ lock' = [lock EXCEPT ![job[t].lg] = NoThread]
         /\ lock' \in [Loggers -> Threads \cup {NoThread}]
         /\ \A u \in Threads : u # t => pc'[u] = pc[u] /\ job'[u] = job[u]
         /\ \/ /\ pc'[t] = "lock" /\ job[t].then = "handlers" /\ job[t].lg < loggers
               /\ job'[t].then = "handlers" /\ job'[t].ev = job[t].ev
            \/ pc'[t] = "store_key" /\ job[t].then = "store_key" /\ job'[t] = job[t]
            \/ pc'[t] = "idle" /\ job[t].then # "store_key"
<1>0. job[t] \in Jobs /\ JobOK(t, pc[t], job[t], issued, loggers) /\ pc[t] \in InWrite
  BY DEF TypeOK, JobsOK, Writes
<1>1. lock' = [lock EXCEPT ![job[t].lg] = NoThread]
  BY DEF Return, ReleaseLock
<1>2. lock' \in [Loggers -> Threads \cup {NoThread}]
  BY <1>1 DEF TypeOK
<1>3. issued' \in Nat /\ issued <= issued' /\ loggers' = loggers /\ issued' = issued
  BY AuditAssumption DEF TypeOK
<1>4. CASE job[t].then = "handlers" /\ MoreHandlers(job[t].lg)
  <2> DEFINE j == [NoJob EXCEPT !.ev = job[t].ev, !.lg = job[t].lg + 1, !.then = "handlers"]
  <2>1. job' = [job EXCEPT ![t] = j] /\ pc' = [pc EXCEPT ![t] = "lock"]
    BY <1>4 DEF Return, Goto
  <2>2. job[t].lg < loggers /\ job[t].lg + 1 \in Loggers /\ job[t].lg + 1 \in 0..MaxLogins
    BY <1>0, <1>4, AuditAssumption DEF MoreHandlers, TypeOK, JobOK, Loggers
  <2>3. job[t].ev \in 0..MaxIssued
    BY <1>0 DEF Jobs
  <2>9. PICK e, l : e = job[t].ev /\ l = job[t].lg + 1
    OBVIOUS
  <2>10. j = NewEntry(e, l, "handlers")
    BY <2>9 DEF NewEntry
  <2> HIDE DEF j
  <2>11. e \in 0..MaxIssued /\ l \in 0..MaxLogins
    BY <2>2, <2>3, <2>9
  <2>4. /\ j \in Jobs /\ j.then = "handlers" /\ j.ev = job[t].ev
        /\ j.lg = job[t].lg + 1
    BY <2>9, <2>10, <2>11, NewJob
  <2>5. JobOK(t, "lock", j, issued', loggers')
    BY <1>0, <1>3, <2>2, <2>4 DEF JobOK, Starting
  <2>6. "lock" \in Labels
    BY DEF Labels
  <2>7. pc' \in [Threads -> Labels] /\ job' \in [Threads -> Jobs] /\ JobsOK'
    BY <1>3, <2>1, <2>4, <2>5, <2>6, Moved
  <2>8. /\ job'[t] = j /\ pc'[t] = "lock"
        /\ \A u \in Threads : u # t => pc'[u] = pc[u] /\ job'[u] = job[u]
    BY <2>1 DEF TypeOK
  <2> QED
    BY <1>1, <1>2, <1>4, <2>2, <2>4, <2>7, <2>8
<1>5. CASE job[t].then = "store_key" /\ ~(job[t].then = "handlers" /\ MoreHandlers(job[t].lg))
  <2>1. job' = [job EXCEPT ![t] = job[t]] /\ pc' = [pc EXCEPT ![t] = "store_key"]
    BY <1>5 DEF Return, Goto, TypeOK
  <2>2. JobOK(t, "store_key", job[t], issued', loggers')
    BY <1>0, <1>3, <1>5 DEF JobOK, InWrite, InLog
  <2>3. "store_key" \in Labels
    BY DEF Labels
  <2>4. pc' \in [Threads -> Labels] /\ job' \in [Threads -> Jobs] /\ JobsOK'
    BY <1>0, <1>3, <2>1, <2>2, <2>3, Moved
  <2>5. /\ job'[t] = job[t] /\ pc'[t] = "store_key"
        /\ \A u \in Threads : u # t => pc'[u] = pc[u] /\ job'[u] = job[u]
    BY <2>1 DEF TypeOK
  <2> QED
    BY <1>1, <1>2, <1>5, <2>4, <2>5
<1>6. CASE job[t].then # "store_key" /\ ~(job[t].then = "handlers" /\ MoreHandlers(job[t].lg))
  <2>1. job' = [job EXCEPT ![t] = NoJob] /\ pc' = [pc EXCEPT ![t] = "idle"]
    BY <1>6 DEF Return, Goto
  <2>2. JobOK(t, "idle", NoJob, issued', loggers')
    BY DEF JobOK, InWrite, InLog, Starting
  <2>3. "idle" \in Labels /\ NoJob \in Jobs
    BY NoJobIsJob DEF Labels
  <2>4. pc' \in [Threads -> Labels] /\ job' \in [Threads -> Jobs] /\ JobsOK'
    BY <1>3, <2>1, <2>2, <2>3, Moved
  <2>5. /\ pc'[t] = "idle"
        /\ \A u \in Threads : u # t => pc'[u] = pc[u] /\ job'[u] = job[u]
    BY <2>1 DEF TypeOK
  <2> QED
    BY <1>1, <1>2, <1>6, <2>4, <2>5
<1> QED
  BY <1>4, <1>5, <1>6

LEMMA Room ==
  ASSUME NEW c \in 0..MaxCrashes
  PROVE  /\ MaxIssued \in Nat /\ MaxEvents <= MaxIssued /\ PerRun * c \in Nat
         /\ MaxEvents + PerRun * c + PerRun <= MaxIssued
         /\ PerRun * (c + 1) = PerRun * c + PerRun
<1>1. PICK p, m, n \in Nat : p = PerRun /\ m = MaxCrashes /\ n = MaxEvents
  BY AuditAssumption DEF PerRun
<1>2. MaxIssued = n + p * (m + 1)
  BY <1>1 DEF MaxIssued, PerRun
<1>3. p * (m + 1) \in Nat /\ p * c \in Nat /\ p * (c + 1) = p * c + p
  BY <1>1
<1>4. p * c + p <= p * (m + 1)
  <2>1. m - c \in Nat
    BY <1>1
  <2>2. p * (m - c) \in Nat
    BY <2>1
  <2>3. p * (m - c) = p * m - p * c
    BY <1>1
  <2>4. p * (m + 1) = p * m + p
    BY <1>1
  <2> QED
    BY <1>1, <1>3, <2>2, <2>3, <2>4
<1> QED
  BY <1>1, <1>2, <1>3, <1>4

LEMMA StartedByType ==
  ASSUME NEW l \in Nat, NEW x
  PROVE  StartedBy(l, x) \in Nat /\ StartedBy(l, x) <= l + 1
BY DEF StartedBy

\* Steps that only move a thread from one statement of log_event to the next.
LEMMA AcquireTypes ==
  ASSUME TypeInv, NEW t \in Threads, Acquire(t)
  PROVE  TypeInv'
<1> USE DEF TypeInv
<1>1. JobOK(t, pc[t], job[t], issued, loggers) /\ pc[t] = "lock"
  BY DEF JobsOK, Acquire, At
<1>2. /\ lock' = [lock EXCEPT ![job[t].lg] = t]
      /\ pc' = [pc EXCEPT ![t] = "select_last"] /\ job' = [job EXCEPT ![t] = job[t]]
      /\ UNCHANGED <<table, durable, loggers, degraded, job, issued, acked, undone, crashes>>
  BY DEF Acquire, Goto, store, TypeOK
<1>3. JobOK(t, "select_last", job[t], issued', loggers')
  BY <1>1, <1>2 DEF JobOK, InWrite, InLog, Starting
<1>4. issued' \in Nat /\ issued <= issued'
  BY <1>2 DEF TypeOK
<1>5. "select_last" \in Labels /\ job[t] \in Jobs
  BY DEF Labels, TypeOK
<1>6. pc' \in [Threads -> Labels] /\ job' \in [Threads -> Jobs] /\ JobsOK'
  BY <1>2, <1>3, <1>4, <1>5, Moved
<1>7. lock' \in [Loggers -> Threads \cup {NoThread}]
  BY <1>2 DEF TypeOK
<1>8. TypeOK'
  BY <1>2, <1>6, <1>7 DEF TypeOK
<1>9. pc'[t] = "select_last" /\ \A u \in Threads : u # t => pc'[u] = pc[u]
  BY <1>2 DEF TypeOK
<1>10. GenesisFirst'
  BY <1>1, <1>2, <1>9, ThreadNames
     DEF GenesisFirst, Writes, First, InWrite, InLog, Starting
<1>11. StartedBy(loggers', pc'["tk"]) = StartedBy(loggers, pc["tk"])
  BY <1>1, <1>2, <1>9, ThreadNames DEF StartedBy
<1> QED
  BY <1>2, <1>6, <1>8, <1>10, <1>11 DEF CommittedIsSeen, NumbersBounded, Counted

LEMMA SelectLastTypes ==
  ASSUME TypeInv, NEW t \in Threads, SelectLast(t)
  PROVE  TypeInv'
<1> USE DEF TypeInv
<1>1. JobOK(t, pc[t], job[t], issued, loggers) /\ pc[t] = "select_last" /\ job[t] \in Jobs
  BY DEF JobsOK, SelectLast, At, TypeOK
<1>2. LastHash(table) \in Hashes \cup {Genesis}
  <2>1. CASE table = {}
    BY <2>1 DEF LastHash
  <2>2. CASE table # {}
    <3>1. table \subseteq Rows /\ \E n \in Nat : \A r \in table : r.seq <= n
      BY DEF TypeOK, NumbersBounded
    <3>2. \E r \in table : LastHash(table) = r.hash
      BY <2>2, <3>1, LastRow
    <3> QED
      BY <3>1, <3>2 DEF Rows
  <2> QED
    BY <2>1, <2>2
<1> DEFINE j == [job[t] EXCEPT !.prev = LastHash(table)]
<1> DEFINE x == IF job[t].then = "store_key" THEN "insert" ELSE "select_next"
<1>3. /\ job' = [job EXCEPT ![t] = j] /\ pc' = [pc EXCEPT ![t] = x]
      /\ UNCHANGED <<table, durable, loggers, lock, degraded, issued, acked, undone, crashes>>
  BY DEF SelectLast, Goto, store, memory
<1>4. /\ j \in Jobs /\ j.ev = job[t].ev /\ j.lg = job[t].lg /\ j.then = job[t].then
  BY <1>1, <1>2 DEF Jobs
<1>5. x \in {"insert", "select_next"}
  OBVIOUS
<1> HIDE DEF j, x
<1>6. JobOK(t, x, j, issued', loggers')
  BY <1>1, <1>3, <1>4, <1>5 DEF JobOK, InWrite, InLog, Starting
<1>7. issued' \in Nat /\ issued <= issued' /\ x \in Labels
  BY <1>3, <1>5 DEF TypeOK, Labels
<1>8. pc' \in [Threads -> Labels] /\ job' \in [Threads -> Jobs] /\ JobsOK'
  BY <1>3, <1>4, <1>6, <1>7, Moved
<1>9. TypeOK'
  BY <1>3, <1>8 DEF TypeOK
<1>10. /\ pc'[t] = x /\ job'[t] = j
       /\ \A u \in Threads : u # t => pc'[u] = pc[u] /\ job'[u] = job[u]
  BY <1>3 DEF TypeOK
<1>11. GenesisFirst'
  BY <1>1, <1>3, <1>4, <1>5, <1>10, ThreadNames
     DEF GenesisFirst, Writes, First, InWrite, InLog, Starting
<1>12. StartedBy(loggers', pc'["tk"]) = StartedBy(loggers, pc["tk"])
  BY <1>1, <1>3, <1>5, <1>10, ThreadNames DEF StartedBy
<1> QED
  BY <1>3, <1>8, <1>9, <1>11, <1>12 DEF CommittedIsSeen, NumbersBounded, Counted

LEMMA SelectNextTypes ==
  ASSUME TypeInv, NEW t \in Threads, SelectNext(t)
  PROVE  TypeInv'
<1> USE DEF TypeInv
<1>1. JobOK(t, pc[t], job[t], issued, loggers) /\ pc[t] = "select_next" /\ job[t] \in Jobs
  BY DEF JobsOK, SelectNext, At, TypeOK
<1> DEFINE n == IF table = {} THEN 0 ELSE Max(Seqs(table)) + 1
<1>2. n \in Nat
  <2>1. CASE table # {}
    <3>1. table \subseteq Rows /\ \E m \in Nat : \A r \in table : r.seq <= m
      BY DEF TypeOK, NumbersBounded
    <3>2. Max(Seqs(table)) \in Nat
      BY <2>1, <3>1, LastRow
    <3> QED
      BY <2>1, <3>2
  <2> QED
    BY <2>1
<1> DEFINE j == [job[t] EXCEPT !.seq = n]
<1>3. /\ job' = [job EXCEPT ![t] = j] /\ pc' = [pc EXCEPT ![t] = "insert"]
      /\ UNCHANGED <<table, durable, loggers, lock, degraded, issued, acked, undone, crashes>>
  BY DEF SelectNext, Goto, store, memory
<1> HIDE DEF n
<1>4. /\ j \in Jobs /\ j.ev = job[t].ev /\ j.lg = job[t].lg /\ j.then = job[t].then
  BY <1>1, <1>2 DEF Jobs
<1> HIDE DEF j
<1>6. JobOK(t, "insert", j, issued', loggers')
  BY <1>1, <1>3, <1>4 DEF JobOK, InWrite, InLog, Starting
<1>7. issued' \in Nat /\ issued <= issued' /\ "insert" \in Labels
  BY <1>3 DEF TypeOK, Labels
<1>8. pc' \in [Threads -> Labels] /\ job' \in [Threads -> Jobs] /\ JobsOK'
  BY <1>3, <1>4, <1>6, <1>7, Moved
<1>9. TypeOK'
  BY <1>3, <1>8 DEF TypeOK
<1>10. /\ pc'[t] = "insert" /\ job'[t] = j
       /\ \A u \in Threads : u # t => pc'[u] = pc[u] /\ job'[u] = job[u]
  BY <1>3 DEF TypeOK
<1>11. GenesisFirst'
  BY <1>1, <1>3, <1>4, <1>10, ThreadNames
     DEF GenesisFirst, Writes, First, InWrite, InLog, Starting
<1>12. StartedBy(loggers', pc'["tk"]) = StartedBy(loggers, pc["tk"])
  BY <1>1, <1>3, <1>10, ThreadNames DEF StartedBy
<1> QED
  BY <1>3, <1>8, <1>9, <1>11, <1>12 DEF CommittedIsSeen, NumbersBounded, Counted

\* What a thread leaves log_event with.
LEMMA ReturnTypes ==
  ASSUME TypeInv, NEW t \in Threads, Writes(t), Return(t), UNCHANGED <<issued, loggers, crashes>>,
         durable \subseteq durable', table' # {}, First(t) => pc[t] = "commit"
  PROVE  /\ pc' \in [Threads -> Labels] /\ job' \in [Threads -> Jobs] /\ JobsOK'
         /\ lock' \in [Loggers -> Threads \cup {NoThread}]
         /\ GenesisFirst' /\ Counted'
<1> USE DEF TypeInv
<1>1. MaxIssued \in Nat
  BY Room DEF TypeOK
<1>2. /\ pc' \in [Threads -> Labels] /\ job' \in [Threads -> Jobs] /\ JobsOK'
      /\ lock' \in [Loggers -> Threads \cup {NoThread}]
      /\ \A u \in Threads : u # t => pc'[u] = pc[u] /\ job'[u] = job[u]
      /\ \/ /\ pc'[t] = "lock" /\ job[t].then = "handlers" /\ job[t].lg < loggers
            /\ job'[t].then = "handlers" /\ job'[t].ev = job[t].ev
         \/ pc'[t] = "store_key" /\ job[t].then = "store_key" /\ job'[t] = job[t]
         \/ pc'[t] = "idle" /\ job[t].then # "store_key"
  BY <1>1, HasReturned
<1>3. pc[t] # "idle" /\ pc[t] \notin Starting
  BY DEF Writes, InWrite, InLog, Starting
<1>4. job[t].then # "store_key" => loggers # 0
  BY DEF GenesisFirst, First
<1>5. loggers \in Nat
  BY DEF TypeOK
<1>6. GenesisFirst'
  BY <1>2, <1>3, <1>4, <1>5, ThreadNames DEF GenesisFirst, First, Writes, InWrite, InLog, Starting
<1>7. StartedBy(loggers', pc'["tk"]) = StartedBy(loggers, pc["tk"])
  BY <1>2, <1>3, <1>4, <1>5, ThreadNames DEF StartedBy
<1> QED
  BY <1>2, <1>6, <1>7 DEF Counted

LEMMA InsertTypes ==
  ASSUME TypeInv, NEW t \in Threads, Insert(t)
  PROVE  TypeInv'
<1> USE DEF TypeInv
<1>1. JobOK(t, pc[t], job[t], issued, loggers) /\ pc[t] = "insert" /\ job[t] \in Jobs
  BY DEF JobsOK, Insert, At, TypeOK
<1>2. UNCHANGED <<durable, loggers, issued, acked, undone, crashes>>
  BY DEF Insert
<1>3. CASE job[t].seq \notin Seqs(table)
  <2>1. /\ table' = table \cup {RowOf(job[t])} /\ UNCHANGED <<lock, degraded>>
        /\ pc' = [pc EXCEPT ![t] = "commit"] /\ job' = job
    BY <1>3 DEF Insert, Goto
  <2>2. RowOf(job[t]) \in Rows /\ RowOf(job[t]).seq \in Nat
    <3>1. job[t].ev \in 1..MaxIssued /\ job[t].lg \in Loggers
      BY <1>1 DEF JobOK, InWrite, InLog, Jobs, TypeOK
    <3>2. HashOf(job[t]) \in Hashes
      BY <3>1 DEF HashOf, Hashes
    <3> QED
      BY <1>1, <3>2 DEF RowOf, Rows, Jobs
  <2>3. table' \subseteq Rows /\ table' # {}
    BY <2>1, <2>2 DEF TypeOK
  <2>4. NumbersBounded'
    <3>1. PICK n \in Nat : \A r \in table : r.seq <= n
      BY DEF NumbersBounded
    <3>2. PICK s \in Nat : s = RowOf(job[t]).seq
      BY <2>2
    <3>3. ASSUME NEW r \in table' PROVE r.seq <= n + s
      <4>1. CASE r \in table
        <5>1. r.seq <= n /\ r.seq \in Nat
          BY <3>1, <4>1 DEF TypeOK, Rows
        <5> QED
          BY <5>1
      <4>2. CASE r = RowOf(job[t])
        BY <3>2, <4>2
      <4> QED
        BY <2>1, <4>1, <4>2
    <3> QED
      BY <3>3 DEF NumbersBounded
  <2>5. JobOK(t, "commit", job[t], issued', loggers')
    BY <1>1, <1>2 DEF JobOK, InWrite, InLog, Starting
  <2>6. issued' \in Nat /\ issued <= issued' /\ "commit" \in Labels
    BY <1>2 DEF TypeOK, Labels
  <2>7. job' = [job EXCEPT ![t] = job[t]]
    BY <2>1 DEF TypeOK
  <2>8. pc' \in [Threads -> Labels] /\ job' \in [Threads -> Jobs] /\ JobsOK'
    BY <1>1, <1>2, <2>1, <2>5, <2>6, <2>7, Moved
  <2>9. TypeOK'
    BY <1>2, <2>1, <2>3, <2>8 DEF TypeOK
  <2>10. pc'[t] = "commit" /\ \A u \in Threads : u # t => pc'[u] = pc[u]
    BY <2>1 DEF TypeOK
  <2>11. ASSUME First("tk")' PROVE t = "tk" /\ First(t)
    <3>1. job'["tk"] = job["tk"]
      BY <2>1
    <3>2. loggers = 0
      BY <1>1, <2>10, <2>11, <3>1, ThreadNames
         DEF First, Writes, GenesisFirst, InWrite, InLog
    <3>3. pc[t] # "idle" /\ (Writes(t) => First(t))
      BY <1>1, <3>2 DEF GenesisFirst
    <3> QED
      BY <1>1, <3>2, <3>3 DEF GenesisFirst, Writes, InWrite, InLog
  <2>12. GenesisFirst'
    <3>1. ASSUME loggers' = 0
          PROVE  \A u \in Threads : (u # "tk" => pc'[u] = "idle") /\ (Writes(u)' => First(u)')
      BY <1>1, <1>2, <2>1, <2>10, <3>1 DEF GenesisFirst, Writes, First, InWrite, InLog
    <3>2. First("tk")' => loggers' = 0 /\ pc'["tk"] = "commit"
      BY <1>2, <2>10, <2>11 DEF GenesisFirst
    <3>3. pc'["tk"] \in Starting => pc'["tk"] = pc["tk"]
      BY <2>10, ThreadNames DEF Starting
    <3>4. pc'["tk"] = "subscribe" => pc'["tk"] = pc["tk"]
      BY <2>10, ThreadNames
    <3> QED
      BY <1>2, <2>3, <3>1, <3>2, <3>3, <3>4 DEF GenesisFirst
  <2>13. StartedBy(loggers', pc'["tk"]) = StartedBy(loggers, pc["tk"])
    BY <1>1, <1>2, <2>10, ThreadNames DEF StartedBy
  <2>14. CommittedIsSeen'
    BY <1>2, <2>1 DEF CommittedIsSeen
  <2> QED
    BY <1>2, <2>4, <2>8, <2>9, <2>12, <2>13, <2>14 DEF Counted
<1>4. CASE job[t].seq \in Seqs(table)
  <2>1. degraded' = degraded \cup {job[t].lg} /\ Return(t) /\ table' = table
    BY <1>4 DEF Insert
  <2>2. table # {}
    BY <1>4 DEF Seqs
  <2>3. Writes(t) /\ ~First(t)
    BY <1>1, <2>2 DEF GenesisFirst, First, Writes, JobOK, InWrite, InLog
  <2>4. /\ pc' \in [Threads -> Labels] /\ job' \in [Threads -> Jobs] /\ JobsOK'
        /\ lock' \in [Loggers -> Threads \cup {NoThread}]
        /\ GenesisFirst' /\ Counted'
    BY <1>2, <2>1, <2>2, <2>3, ReturnTypes
  <2>5. job[t].lg \in Loggers
    BY <1>1 DEF JobOK, InWrite, InLog
  <2>6. TypeOK'
    BY <1>2, <2>1, <2>4, <2>5 DEF TypeOK
  <2> QED
    BY <1>2, <2>1, <2>4, <2>6 DEF CommittedIsSeen, NumbersBounded
<1> QED
  BY <1>3, <1>4

LEMMA CommitTypes ==
  ASSUME TypeInv, NEW t \in Threads, Commit(t)
  PROVE  TypeInv'
<1> USE DEF TypeInv
<1>1. JobOK(t, pc[t], job[t], issued, loggers) /\ pc[t] = "commit" /\ job[t] \in Jobs
  BY DEF JobsOK, Commit, At, TypeOK
<1>2. /\ durable' = table /\ acked' = acked \cup {HashOf(job[t])} /\ Return(t)
      /\ UNCHANGED <<table, loggers, degraded, issued, undone, crashes>>
  BY DEF Commit
<1>3. table # {}
  <2>1. CASE loggers > 0
    BY <2>1 DEF GenesisFirst, CommittedIsSeen
  <2>2. CASE loggers = 0
    BY <1>1, <2>2 DEF GenesisFirst, Writes, InWrite, InLog
  <2> QED
    BY <2>1, <2>2 DEF TypeOK
<1>4. HashOf(job[t]) \in Hashes
  <2>1. job[t].ev \in 1..MaxIssued /\ job[t].lg \in Loggers
    BY <1>1 DEF JobOK, InWrite, InLog, Jobs, TypeOK
  <2> QED
    BY <2>1 DEF HashOf, Hashes
<1>5. Writes(t) /\ durable \subseteq durable' /\ table' # {}
  BY <1>1, <1>2, <1>3 DEF Writes, InWrite, InLog, CommittedIsSeen
<1>6. /\ pc' \in [Threads -> Labels] /\ job' \in [Threads -> Jobs] /\ JobsOK'
      /\ lock' \in [Loggers -> Threads \cup {NoThread}]
      /\ GenesisFirst' /\ Counted'
  BY <1>1, <1>2, <1>5, ReturnTypes
<1>7. TypeOK'
  BY <1>2, <1>4, <1>6 DEF TypeOK
<1> QED
  BY <1>2, <1>6, <1>7 DEF CommittedIsSeen, NumbersBounded

\* An idle thread starts to log an event: nothing else moves but what a commit
\* that comes first makes durable.
LEMMA BeginTypes ==
  ASSUME TypeInv, NEW t \in Threads, NEW l \in Loggers, NEW then \in {"nothing", "handlers"},
         Begin(t, l, then), At(t, "idle"), loggers > 0, issued < MaxEvents,
         UNCHANGED <<table, memory, acked, undone, crashes>>, durable' \in {durable, table}
  PROVE  TypeInv'
<1> USE DEF TypeInv
<1>1. MaxIssued \in Nat /\ MaxEvents <= MaxIssued /\ PerRun * crashes \in Nat
  BY Room DEF TypeOK
<1>2. UNCHANGED <<loggers, lock, degraded>>
  BY DEF memory
<1>3. issued < MaxIssued
  BY <1>1, AuditAssumption DEF TypeOK
<1>4. /\ pc' \in [Threads -> Labels] /\ job' \in [Threads -> Jobs] /\ JobsOK'
      /\ issued' = issued + 1 /\ issued' \in 0..MaxIssued
      /\ pc' = [pc EXCEPT ![t] = "lock"]
      /\ \A u \in Threads : u # t => job'[u] = job[u]
      /\ job'[t].then = then
  BY <1>1, <1>2, <1>3, HasBegun
<1>5. pc'[t] = "lock" /\ \A u \in Threads : u # t => pc'[u] = pc[u]
  BY <1>4 DEF TypeOK
<1>6. TypeOK'
  BY <1>2, <1>4 DEF TypeOK, CommittedIsSeen
<1>7. durable # {} /\ durable' # {} /\ table # {}
  BY DEF GenesisFirst, CommittedIsSeen
<1>8. GenesisFirst'
  <2>1. ~(loggers' = 0) /\ loggers' > 0
    BY <1>2 DEF TypeOK
  <2>2. ~First("tk")'
    <3>1. ~First("tk")
      BY <1>2 DEF GenesisFirst, TypeOK
    <3>2. CASE t = "tk"
      BY <1>4, <3>2 DEF First
    <3>3. CASE t # "tk"
      BY <1>4, <1>5, <3>1, <3>3, ThreadNames DEF First, Writes
    <3> QED
      BY <3>2, <3>3
  <2> QED
    BY <1>7, <2>1, <2>2 DEF GenesisFirst
<1>9. Counted'
  <2>1. issued' <= MaxEvents
    BY <1>4, AuditAssumption DEF TypeOK
  <2>2. loggers \in Nat
    BY DEF TypeOK
  <2>3. StartedBy(loggers, pc'["tk"]) \in Nat
    BY <2>2, StartedByType
  <2> QED
    BY <1>1, <1>2, <1>4, <2>1, <2>3, AuditAssumption DEF Counted
<1> QED
  BY <1>4, <1>6, <1>8, <1>9 DEF CommittedIsSeen, NumbersBounded

LEMMA NewLoggerTypes ==
  ASSUME TypeInv, NewLogger
  PROVE  TypeInv'
<1> USE DEF TypeInv
<1>1. /\ pc["tk"] = "idle" /\ loggers < MaxLogins
      /\ UNCHANGED <<table, durable, loggers, lock, degraded, acked, undone, crashes>>
  BY DEF NewLogger, At, store, memory
<1>2. /\ MaxIssued \in Nat /\ PerRun * crashes \in Nat
      /\ MaxEvents + PerRun * crashes + PerRun <= MaxIssued
  BY Room DEF TypeOK
<1>3. loggers \in Nat /\ loggers + 1 \in Loggers /\ PerRun = MaxLogins + 1
  BY <1>1, AuditAssumption DEF TypeOK, Loggers, PerRun
<1>4. CASE table = {}
  <2>1. loggers = 0 /\ durable = {}
    BY <1>3, <1>4 DEF GenesisFirst, CommittedIsSeen
  <2>2. issued <= MaxEvents + PerRun * crashes
    BY <1>1, <1>2, <2>1, AuditAssumption DEF Counted, StartedBy
  <2>3. issued < MaxIssued
    BY <1>2, <1>3, <2>2, AuditAssumption DEF TypeOK
  <2>4. Begin("tk", loggers + 1, "store_key")
    BY <1>4 DEF NewLogger
  <2>5. /\ pc' \in [Threads -> Labels] /\ job' \in [Threads -> Jobs] /\ JobsOK'
        /\ issued' = issued + 1 /\ issued' \in 0..MaxIssued
        /\ pc' = [pc EXCEPT !["tk"] = "lock"]
        /\ \A u \in Threads : u # "tk" => job'[u] = job[u]
        /\ job'["tk"].then = "store_key"
    BY <1>1, <1>2, <1>3, <2>3, <2>4, ThreadNames, HasBegun
  <2>6. pc'["tk"] = "lock" /\ \A u \in Threads : u # "tk" => pc'[u] = pc[u]
    BY <2>5, ThreadNames DEF TypeOK
  <2>7. TypeOK'
    BY <1>1, <2>5 DEF TypeOK
  <2>8. GenesisFirst'
    BY <1>1, <1>4, <2>1, <2>5, <2>6
       DEF GenesisFirst, First, Writes, InWrite, InLog, Starting
  <2>9. Counted'
    <3>1. StartedBy(loggers', pc'["tk"]) = 1
      BY <1>1, <2>1, <2>6 DEF StartedBy
    <3> QED
      BY <1>1, <1>2, <2>2, <2>5, <3>1, AuditAssumption DEF Counted, TypeOK
  <2> QED
    BY <1>1, <2>5, <2>7, <2>8, <2>9 DEF CommittedIsSeen, NumbersBounded
<1>5. CASE table # {}
  <2> DEFINE j == [NoJob EXCEPT !.lg = loggers + 1]
  <2>1. /\ job' = [job EXCEPT !["tk"] = j] /\ pc' = [pc EXCEPT !["tk"] = "store_key"]
        /\ issued' = issued
    BY <1>5 DEF NewLogger, Goto
  <2>2. NoJob \in Jobs /\ loggers + 1 \in 0..MaxLogins
    BY <1>2, <1>3, NoJobIsJob DEF Loggers
  <2>3. j \in Jobs /\ j.lg = loggers + 1
    BY <2>2 DEF Jobs
  <2> HIDE DEF j
  <2>4. JobOK("tk", "store_key", j, issued', loggers')
    BY <1>1, <1>3, <2>3 DEF JobOK, InWrite, InLog
  <2>5. issued' \in Nat /\ issued <= issued' /\ "store_key" \in Labels
    BY <2>1 DEF TypeOK, Labels
  <2>6. pc' \in [Threads -> Labels] /\ job' \in [Threads -> Jobs] /\ JobsOK'
    BY <1>1, <2>1, <2>3, <2>4, <2>5, ThreadNames, Moved
  <2>7. pc'["tk"] = "store_key"
    BY <2>1, ThreadNames DEF TypeOK
  <2>8. \A u \in Threads : u # "tk" => pc'[u] = pc[u] /\ job'[u] = job[u]
    BY <2>1 DEF TypeOK
  <2>9. TypeOK'
    BY <1>1, <2>1, <2>6 DEF TypeOK
  <2>10. GenesisFirst'
    BY <1>1, <1>5, <2>7, <2>8 DEF GenesisFirst, First, Writes, InWrite, InLog, Starting
  <2>11. Counted'
    <3>1. StartedBy(loggers, pc["tk"]) <= StartedBy(loggers', pc'["tk"])
      BY <1>1, <1>3, <2>7 DEF StartedBy
    <3>2. StartedBy(loggers, pc["tk"]) \in Nat /\ StartedBy(loggers', pc'["tk"]) \in Nat
      BY <1>1, <1>3, StartedByType
    <3> QED
      BY <1>1, <1>2, <2>1, <3>1, <3>2, AuditAssumption DEF Counted, TypeOK
  <2> QED
    BY <1>1, <2>6, <2>9, <2>10, <2>11 DEF CommittedIsSeen, NumbersBounded
<1> QED
  BY <1>4, <1>5

LEMMA StoreKeyTypes ==
  ASSUME TypeInv, StoreKey
  PROVE  TypeInv'
<1> USE DEF TypeInv
<1>1. /\ pc["tk"] = "store_key" /\ durable' = table /\ pc' = [pc EXCEPT !["tk"] = "subscribe"]
      /\ UNCHANGED <<table, loggers, lock, degraded, job, issued, acked, undone, crashes>>
  BY DEF StoreKey, At, Goto, memory
<1>2. JobOK("tk", "store_key", job["tk"], issued, loggers)
  BY <1>1, ThreadNames DEF JobsOK
<1>3. JobOK("tk", "subscribe", job["tk"], issued', loggers')
  BY <1>1, <1>2 DEF JobOK, InWrite, InLog, Starting
<1>4. /\ issued' \in Nat /\ issued <= issued' /\ "subscribe" \in Labels
      /\ job["tk"] \in Jobs /\ job' = [job EXCEPT !["tk"] = job["tk"]]
  BY <1>1, ThreadNames DEF TypeOK, Labels
<1>5. pc' \in [Threads -> Labels] /\ job' \in [Threads -> Jobs] /\ JobsOK'
  BY <1>1, <1>3, <1>4, ThreadNames, Moved
<1>6. pc'["tk"] = "subscribe" /\ \A u \in Threads : u # "tk" => pc'[u] = pc[u]
  BY <1>1, ThreadNames DEF TypeOK
<1>7. table # {}
  BY <1>1 DEF GenesisFirst, Starting
<1>8. TypeOK'
  BY <1>1, <1>5 DEF TypeOK
<1>9. GenesisFirst'
  BY <1>1, <1>6, <1>7 DEF GenesisFirst, First, Writes, InWrite, InLog, Starting
<1>10. StartedBy(loggers', pc'["tk"]) = StartedBy(loggers, pc["tk"])
  BY <1>1, <1>6 DEF StartedBy
<1> QED
  BY <1>1, <1>5, <1>8, <1>9, <1>10 DEF CommittedIsSeen, NumbersBounded, Counted

LEMMA SubscribeTypes ==
  ASSUME TypeInv, Subscribe
  PROVE  TypeInv'
<1> USE DEF TypeInv
<1>1. /\ pc["tk"] = "subscribe" /\ loggers' = job["tk"].lg
      /\ Begin("tk", job["tk"].lg, "nothing")
      /\ UNCHANGED <<table, durable, lock, degraded, acked, undone, crashes>>
  BY DEF Subscribe, At, store
<1>2. JobOK("tk", "subscribe", job["tk"], issued, loggers)
  BY <1>1, ThreadNames DEF JobsOK
<1>3. loggers' = loggers + 1 /\ loggers' \in Loggers /\ loggers \in Nat
  BY <1>1, <1>2 DEF JobOK, Starting, TypeOK
<1>4. /\ MaxIssued \in Nat /\ PerRun * crashes \in Nat
      /\ MaxEvents + PerRun * crashes + PerRun <= MaxIssued
  BY Room DEF TypeOK
<1>5. issued <= MaxEvents + PerRun * crashes + (loggers + 1)
  BY <1>1 DEF Counted, StartedBy
<1>6. issued < MaxIssued
  <2>1. loggers + 1 <= MaxLogins /\ PerRun = MaxLogins + 1 /\ MaxLogins \in Nat
    BY <1>3, AuditAssumption DEF Loggers, PerRun
  <2> QED
    BY <1>3, <1>4, <1>5, <2>1, AuditAssumption DEF TypeOK
<1>7. /\ pc' \in [Threads -> Labels] /\ job' \in [Threads -> Jobs] /\ JobsOK'
      /\ issued' = issued + 1 /\ issued' \in 0..MaxIssued
      /\ pc' = [pc EXCEPT !["tk"] = "lock"]
      /\ \A u \in Threads : u # "tk" => job'[u] = job[u]
      /\ job'["tk"].then = "nothing"
  <2>1. PICK l \in Loggers : l = job["tk"].lg
    BY <1>1, <1>3
  <2>2. Begin("tk", l, "nothing")
    BY <1>1, <2>1
  <2> QED
    BY <1>4, <1>6, <2>2, ThreadNames, HasBegun
<1>8. pc'["tk"] = "lock" /\ \A u \in Threads : u # "tk" => pc'[u] = pc[u]
  BY <1>7, ThreadNames DEF TypeOK
<1>9. loggers' \in 0..MaxLogins /\ loggers' > 0 /\ loggers' # 0
  BY <1>3, AuditAssumption DEF Loggers
<1>10. TypeOK'
  BY <1>1, <1>7, <1>9 DEF TypeOK
<1>11. durable' # {}
  BY <1>1 DEF GenesisFirst
<1>12. GenesisFirst'
  BY <1>7, <1>8, <1>9, <1>11 DEF GenesisFirst, First, Starting
<1>13. Counted'
  <2>1. StartedBy(loggers', pc'["tk"]) = loggers + 2
    BY <1>3, <1>9 DEF StartedBy
  <2> QED
    BY <1>1, <1>3, <1>4, <1>5, <1>7, <2>1, AuditAssumption DEF Counted, TypeOK
<1> QED
  BY <1>1, <1>7, <1>10, <1>12, <1>13 DEF CommittedIsSeen, NumbersBounded

LEMMA RollbackTypes ==
  ASSUME TypeInv, Rollback, loggers > 0 \/ pc["tk"] = "idle"
  PROVE  TypeInv'
<1> USE DEF TypeInv
<1>1. /\ table' = durable /\ undone' = undone \cup {r.hash : r \in table \ durable}
      /\ UNCHANGED <<durable, loggers, lock, degraded, job, pc, issued, acked, crashes>>
  BY DEF Rollback, memory
<1>2. TypeOK' /\ CommittedIsSeen'
  <2>1. undone' \subseteq Hashes
    BY <1>1 DEF TypeOK, Rows
  <2> QED
    BY <1>1, <2>1 DEF TypeOK, CommittedIsSeen
<1>3. JobsOK'
  BY <1>1 DEF JobsOK
<1>4. NumbersBounded'
  BY <1>1 DEF NumbersBounded, CommittedIsSeen
<1>5. GenesisFirst'
  <2>1. CASE pc["tk"] = "idle"
    BY <1>1, <2>1 DEF GenesisFirst, First, Writes, InWrite, InLog, Starting
  <2>2. CASE loggers > 0
    <3>1. ~First("tk") /\ durable # {}
      BY <2>2 DEF GenesisFirst, TypeOK
    <3> QED
      BY <1>1, <2>2, <3>1 DEF GenesisFirst, First, Writes, TypeOK
  <2> QED
    BY <2>1, <2>2
<1> QED
  BY <1>1, <1>2, <1>3, <1>4, <1>5 DEF Counted

LEMMA CrashTypes ==
  ASSUME TypeInv, Crash
  PROVE  TypeInv'
<1> USE DEF TypeInv
<1>1. /\ crashes < MaxCrashes /\ crashes' = crashes + 1 /\ table' = durable /\ loggers' = 0
      /\ lock' = [l \in Loggers |-> NoThread] /\ degraded' = {}
      /\ job' = [t \in Threads |-> NoJob] /\ pc' = [t \in Threads |-> "idle"]
      /\ UNCHANGED <<durable, issued, acked, undone>>
  BY DEF Crash
<1>2. /\ MaxIssued \in Nat /\ PerRun * crashes \in Nat
      /\ PerRun * (crashes + 1) = PerRun * crashes + PerRun
  BY Room DEF TypeOK
<1>3. "idle" \in Labels /\ NoJob \in Jobs
  BY <1>2, NoJobIsJob DEF Labels
<1>4. TypeOK'
  BY <1>1, <1>3, AuditAssumption DEF TypeOK, CommittedIsSeen
<1>5. JobsOK'
  BY <1>1 DEF JobsOK, JobOK, InWrite, InLog, Starting
<1>6. NumbersBounded' /\ CommittedIsSeen'
  BY <1>1 DEF NumbersBounded, CommittedIsSeen
<1>7. GenesisFirst'
  BY <1>1, ThreadNames DEF GenesisFirst, First, Writes, InWrite, InLog, Starting
<1>8. Counted'
  <2>1. StartedBy(loggers', pc'["tk"]) = 0
    BY <1>1, ThreadNames DEF StartedBy
  <2>2. loggers \in Nat /\ loggers + 1 <= PerRun /\ PerRun \in Nat
    BY AuditAssumption DEF TypeOK, PerRun
  <2>3. StartedBy(loggers, pc["tk"]) \in Nat /\ StartedBy(loggers, pc["tk"]) <= loggers + 1
    BY <2>2, StartedByType
  <2> QED
    BY <1>1, <1>2, <2>1, <2>2, <2>3, AuditAssumption DEF Counted, TypeOK
<1> QED
  BY <1>4, <1>5, <1>6, <1>7, <1>8

LEMMA TypeStep ==
  ASSUME TypeInv, [Next]_vars
  PROVE  TypeInv'
<1>1. ASSUME NEW t \in Threads, Write(t) PROVE TypeInv'
  BY <1>1, AcquireTypes, SelectLastTypes, SelectNextTypes, InsertTypes, CommitTypes DEF Write
<1>2. 1 \in Loggers
  BY AuditAssumption DEF Loggers
<1>3. ASSUME NEW t \in Threads, Emit(t) PROVE TypeInv'
  BY <1>2, <1>3, BeginTypes DEF Emit, MayEmit, store
<1>4. ASSUME NEW t \in Threads, SaveEntry(t) PROVE TypeInv'
  BY <1>2, <1>4, BeginTypes DEF SaveEntry, MayEmit
<1>5. ASSUME NEW l \in Loggers, PeriodicVerify(l) PROVE TypeInv'
  <2>1. loggers > 0
    BY <1>5 DEF PeriodicVerify, Loggers, TypeInv, TypeOK
  <2> QED
    BY <1>5, <2>1, BeginTypes, ThreadNames DEF PeriodicVerify, MayEmit, store
<1>6. CASE UNCHANGED vars
  BY <1>6 DEF vars, store, memory, TypeInv, TypeOK, CommittedIsSeen, JobsOK, NumbersBounded,
              GenesisFirst, First, Writes, Counted
<1>7. (\E t \in Threads : SaveFails(t)) \/ Rotate => TypeInv'
  BY RollbackTypes DEF SaveFails, Rotate, At
<1> QED
  BY <1>1, <1>3, <1>4, <1>5, <1>6, <1>7, NewLoggerTypes, StoreKeyTypes, SubscribeTypes,
     CrashTypes DEF Next

LEMMA TypeInit == Init => TypeInv
<1> SUFFICES ASSUME Init PROVE TypeInv
  OBVIOUS
<1>1. MaxIssued \in Nat /\ PerRun * 0 \in Nat /\ 0 \in 0..MaxCrashes /\ 0 \in 0..MaxIssued
  <2>1. 0 \in 0..MaxCrashes
    BY AuditAssumption
  <2> QED
    BY <2>1, Room
<1>2. "idle" \in Labels /\ NoJob \in Jobs
  BY <1>1, NoJobIsJob DEF Labels
<1>3. TypeOK
  BY <1>1, <1>2, AuditAssumption DEF Init, TypeOK
<1>4. JobsOK
  BY DEF Init, JobsOK, JobOK, InWrite, InLog, Starting
<1>5. CommittedIsSeen /\ NumbersBounded
  BY DEF Init, CommittedIsSeen, NumbersBounded
<1>6. GenesisFirst
  BY ThreadNames DEF Init, GenesisFirst, First, Writes, InWrite, InLog, Starting
<1>7. Counted
  <2>1. StartedBy(loggers, pc["tk"]) = 0
    BY ThreadNames DEF Init, StartedBy
  <2> QED
    BY <1>1, <2>1, AuditAssumption DEF Init, Counted
<1> QED
  BY <1>3, <1>4, <1>5, <1>6, <1>7 DEF TypeInv

\* For any number of threads, instances, events, crashes and rollbacks: a row,
\* a job or a hash is never malformed, and no more entries are set out to be
\* written than the events, the startup entries and one genesis entry a run.
THEOREM AuditTypes == Spec => []TypeOK
<1>1. TypeInv => TypeOK
  BY DEF TypeInv
<1> QED
  BY <1>1, TypeInit, TypeStep, PTL DEF Spec
===============================================================================
