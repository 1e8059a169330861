---------------------------- MODULE AuditChainProofs ----------------------------
(***************************************************************************)
(* What the audit log is with one AuditLogger: the chain that ADR-002      *)
(* describes, for any number of threads that emit events, any number of    *)
(* events and crashes, and failed key rotations.  The instance's lock is   *)
(* what makes it so: it is held from the two SELECTs to the commit.  With  *)
(* two instances there are two locks and one table, and this is lost.      *)
(* The verifier tells the truth about either table.                        *)
(***************************************************************************)
EXTENDS AuditLogProofs, FiniteSetTheorems

\* No two rows have one number.
Numbered(rows) == \A r, q \in rows : r.seq = q.seq => r = q
Chained(rows)  == IsFiniteSet(rows) /\ Numbered(rows) /\ Linked(rows)

\* A row that may come next.
Follows(row, rows) ==
  /\ row.seq = Cardinality(rows) /\ row.prev = LastHash(rows)
  /\ \A r \in rows : r.hash # row.hash

LockHeld == \A t \in Threads : pc[t] \in InLog => lock[1] = t

\* Only the row of the thread about to commit is not yet in the file.
OneAhead ==
  \/ table = durable
  \/ \E t \in Threads : /\ pc[t] = "commit"
                        /\ Follows(RowOf(job[t]), durable)
                        /\ table = durable \cup {RowOf(job[t])}

\* What a thread has read of the table still holds.
Prepared ==
  \A t \in Threads :
    /\ pc[t] \in {"lock", "select_last"} => job[t].seq = 0
    /\ pc[t] = "select_next" => job[t].prev = LastHash(table)
    /\ pc[t] = "insert" => /\ job[t].seq = Cardinality(table)
                           /\ job[t].prev = LastHash(table)

\* No event is in the log before it is written, and no two threads write one.
Unwritten ==
  /\ \A t \in Threads : Writes(t) /\ pc[t] # "commit" => \A r \in table : r.hash # HashOf(job[t])
  /\ \A t, u \in Threads : t # u /\ Writes(t) /\ Writes(u) => job[t].ev # job[u].ev
  /\ \A r \in table : r.hash[1] <= issued

OneInv ==
  TypeInv /\ LockHeld /\ Chained(durable) /\ OneAhead /\ Prepared /\ Unwritten /\ NothingRefused

-----------------------------------------------------------------------------
(* Chains. *)

LEMMA EmptyChain == Chained({}) /\ Cardinality({}) = 0 /\ LastHash({}) = Genesis
BY FS_EmptySet DEF Chained, Numbered, Linked, Seqs, LastHash

\* The SELECTs find the last row of a chain and the number after it.
LEMMA ChainEnd ==
  ASSUME NEW rows, rows \subseteq Rows, Chained(rows), rows # {}
  PROVE  /\ Cardinality(rows) \in Nat \ {0}
         /\ \E r \in rows : r.seq = Cardinality(rows) - 1 /\ LastHash(rows) = r.hash
         /\ Max(Seqs(rows)) + 1 = Cardinality(rows)
<1>1. Cardinality(rows) \in Nat \ {0}
  BY FS_CardinalityType, FS_EmptySet DEF Chained
<1>2. PICK n \in Nat : n = Cardinality(rows) - 1
  BY <1>1
<1>3. Seqs(rows) = 0..n
  BY <1>2 DEF Chained, Linked
<1>4. \A r \in rows : r.seq <= n
  BY <1>3 DEF Seqs
<1>5. PICK r \in rows : (\A q \in rows : q.seq <= r.seq) /\ LastHash(rows) = r.hash
  BY <1>4, LastRow
<1>6. /\ Max(Seqs(rows)) \in Nat /\ \A q \in rows : q.seq <= Max(Seqs(rows))
      /\ \E q \in rows : q.seq = Max(Seqs(rows))
  BY <1>4, LastRow
<1>7. PICK q \in rows : q.seq = n
  BY <1>3 DEF Seqs
<1>8. r.seq = n
  <2>1. n <= r.seq /\ r.seq <= n /\ r.seq \in Nat
    BY <1>4, <1>5, <1>7 DEF Rows
  <2> QED
    BY <2>1
<1>9. Max(Seqs(rows)) = n
  <2>1. n <= Max(Seqs(rows)) /\ Max(Seqs(rows)) <= n
    BY <1>4, <1>6, <1>7
  <2> QED
    BY <1>6, <2>1
<1>10. n + 1 = Cardinality(rows)
  BY <1>1, <1>2
<1> QED
  BY <1>1, <1>2, <1>5, <1>8, <1>9, <1>10

LEMMA RowAtIs ==
  ASSUME NEW rows, Numbered(rows), NEW r \in rows
  PROVE  RowAt(rows, r.seq) = r
<1>1. \E q \in rows : q.seq = r.seq
  OBVIOUS
<1>2. RowAt(rows, r.seq) \in rows /\ RowAt(rows, r.seq).seq = r.seq
  BY <1>1 DEF RowAt
<1> QED
  BY <1>2 DEF Numbered

\* A chain with the row that follows it is a chain.
LEMMA ChainGrows ==
  ASSUME NEW rows, rows \subseteq Rows, Chained(rows), NEW row \in Rows, Follows(row, rows)
  PROVE  /\ Chained(rows \cup {row}) /\ row \notin rows
         /\ Cardinality(rows \cup {row}) = Cardinality(rows) + 1
         /\ row.seq \notin Seqs(rows)
<1> DEFINE new == rows \cup {row}
<1>1. PICK n \in Nat : n = Cardinality(rows)
  BY FS_CardinalityType DEF Chained
<1>2. Seqs(rows) = 0..(n - 1) /\ row.seq = n
  BY <1>1 DEF Chained, Linked, Follows
<1>3. row \notin rows /\ row.seq \notin Seqs(rows)
  <2>1. \A r \in rows : r.seq \in 0..(n - 1)
    BY <1>2 DEF Seqs
  <2> QED
    BY <1>2, <2>1 DEF Seqs
<1>4. IsFiniteSet(new) /\ Cardinality(new) = n + 1
  BY <1>1, <1>3, FS_AddElement DEF Chained
<1>5. Numbered(new)
  BY <1>3 DEF Numbered, Seqs, Chained
<1>6. Seqs(new) = 0..n
  <2>1. Seqs(new) = Seqs(rows) \cup {n}
    BY <1>2 DEF Seqs
  <2>2. 0..(n - 1) \cup {n} = 0..n
    OBVIOUS
  <2> QED
    BY <1>2, <2>1, <2>2
<1>7. ASSUME NEW r \in new
      PROVE  r.prev = IF r.seq = 0 THEN Genesis ELSE RowAt(new, r.seq - 1).hash
  <2>1. CASE r \in rows
    <3>1. r.prev = IF r.seq = 0 THEN Genesis ELSE RowAt(rows, r.seq - 1).hash
      BY <2>1 DEF Chained, Linked
    <3>2. CASE r.seq # 0
      <4>1. r.seq - 1 \in Seqs(rows)
        <5>1. r.seq \in Seqs(rows)
          BY <2>1 DEF Seqs
        <5>2. r.seq \in 0..(n - 1)
          BY <1>2, <5>1
        <5>3. r.seq - 1 \in 0..(n - 1)
          BY <3>2, <5>2
        <5> QED
          BY <1>2, <5>3
      <4>2. PICK q \in rows : q.seq = r.seq - 1
        BY <4>1 DEF Seqs
      <4>3. RowAt(rows, r.seq - 1) = q /\ RowAt(new, r.seq - 1) = q
        BY <1>5, <4>2, RowAtIs DEF Chained
      <4> QED
        BY <3>1, <3>2, <4>3
    <3> QED
      BY <3>1, <3>2
  <2>2. CASE r = row
    <3>1. CASE rows = {}
      BY <1>1, <1>2, <2>2, <3>1, FS_EmptySet DEF Follows, LastHash
    <3>2. CASE rows # {}
      <4>1. PICK q \in rows : q.seq = n - 1 /\ LastHash(rows) = q.hash
        BY <1>1, <3>2, ChainEnd
      <4>2. n # 0
        BY <1>1, <3>2, ChainEnd
      <4>3. RowAt(new, n - 1) = q
        BY <1>5, <4>1, RowAtIs
      <4> QED
        BY <1>2, <2>2, <4>1, <4>2, <4>3 DEF Follows
    <3> QED
      BY <3>1, <3>2
  <2> QED
    BY <2>1, <2>2
<1>8. Linked(new)
  <2>1. Cardinality(new) - 1 = n
    BY <1>1, <1>4
  <2> QED
    BY <1>6, <1>7, <2>1 DEF Linked
<1> QED
  BY <1>1, <1>3, <1>4, <1>5, <1>8 DEF Chained

-----------------------------------------------------------------------------
(* One instance. *)

LEMMA TableChained ==
  ASSUME TypeInv, Chained(durable), OneAhead
  PROVE  Chained(table) /\ table \subseteq Rows /\ durable \subseteq Rows
<1>1. table \subseteq Rows /\ durable \subseteq Rows
  BY DEF TypeInv, TypeOK
<1>2. CASE \E t \in Threads : /\ pc[t] = "commit"
                              /\ Follows(RowOf(job[t]), durable)
                              /\ table = durable \cup {RowOf(job[t])}
  <2>1. PICK row : row \in Rows /\ Follows(row, durable) /\ table = durable \cup {row}
    BY <1>1, <1>2
  <2> QED
    BY <1>1, <2>1, ChainGrows
<1> QED
  BY <1>1, <1>2 DEF OneAhead

\* With the lock held, what is before the commit sees what is committed.
LEMMA HolderSeesFile ==
  ASSUME LockHeld, OneAhead, NEW t \in Threads, pc[t] \in InLog \ {"commit"},
         TypeInv
  PROVE  table = durable
<1>1. NoThread \notin Threads
  BY AuditAssumption DEF Threads
<1> QED
  BY <1>1 DEF LockHeld, OneAhead, InLog

\* One thread moves, to a place before its entry is written, or out of log_event.
LEMMA KeepsAhead ==
  ASSUME OneAhead, UNCHANGED <<table, durable>>, NEW t \in Threads,
         pc[t] # "commit",
         \A u \in Threads : u # t => pc'[u] = pc[u] /\ job'[u] = job[u]
  PROVE  OneAhead'
<1>1. CASE table = durable
  BY <1>1 DEF OneAhead
<1>2. ASSUME NEW u \in Threads, pc[u] = "commit", Follows(RowOf(job[u]), durable),
             table = durable \cup {RowOf(job[u])}
      PROVE  OneAhead'
  <2>1. pc'[u] = "commit" /\ job'[u] = job[u]
    BY <1>2
  <2>2. Follows(RowOf(job'[u]), durable') /\ table' = durable' \cup {RowOf(job'[u])}
    BY <1>2, <2>1
  <2> QED
    BY <2>1, <2>2 DEF OneAhead, RowOf, HashOf, Follows, LastHash
<1> QED
  BY <1>1, <1>2 DEF OneAhead

LEMMA SameLogger ==
  ASSUME MaxLogins = 1, TypeInv, NEW t \in Threads, Writes(t)
  PROVE  job[t].lg = 1 /\ job[t].ev \in 1..issued
BY DEF TypeInv, JobsOK, JobOK, Writes, Loggers

LEMMA AcquireKeepsOne ==
  ASSUME MaxLogins = 1, OneInv, NEW t \in Threads, Acquire(t)
  PROVE  OneInv'
<1> USE DEF OneInv
<1>1. /\ pc[t] = "lock" /\ lock[job[t].lg] \in {NoThread, t}
      /\ lock' = [lock EXCEPT ![job[t].lg] = t] /\ pc' = [pc EXCEPT ![t] = "select_last"]
      /\ UNCHANGED <<table, durable, loggers, degraded, job, issued>>
  BY DEF Acquire, At, FreeOrMine, Goto, store
<1>2. job[t].lg = 1 /\ 1 \in Loggers
  BY <1>1, SameLogger DEF Writes, InWrite, Loggers
<1>3. pc'[t] = "select_last" /\ \A u \in Threads : u # t => pc'[u] = pc[u]
  BY <1>1 DEF TypeInv, TypeOK
<1>4. lock'[1] = t
  BY <1>1, <1>2 DEF TypeInv, TypeOK
<1>5. NoThread \notin Threads
  BY AuditAssumption DEF Threads
<1>6. LockHeld'
  BY <1>1, <1>2, <1>3, <1>4, <1>5 DEF LockHeld
<1>7. OneAhead'
  BY <1>1, <1>3, KeepsAhead
<1>8. Prepared'
  BY <1>1, <1>3 DEF Prepared
<1>9. Unwritten'
  BY <1>1, <1>3 DEF Unwritten, Writes, InWrite, InLog, HashOf
<1>10. TypeInv'
  BY <1>1, AcquireTypes
<1> QED
  BY <1>1, <1>6, <1>7, <1>8, <1>9, <1>10
     DEF Chained, Numbered, Linked, RowAt, Seqs, NothingRefused

LEMMA SelectLastKeepsOne ==
  ASSUME MaxLogins = 1, OneInv, NEW t \in Threads, SelectLast(t)
  PROVE  OneInv'
<1> USE DEF OneInv
<1> DEFINE x == IF job[t].then = "store_key" THEN "insert" ELSE "select_next"
<1>1. /\ pc[t] = "select_last"
      /\ job' = [job EXCEPT ![t].prev = LastHash(table)] /\ pc' = [pc EXCEPT ![t] = x]
      /\ UNCHANGED <<table, durable, lock, degraded, loggers, issued>>
  BY DEF SelectLast, At, Goto, store, memory
<1>2. x \in {"insert", "select_next"}
  OBVIOUS
<1>3. /\ pc'[t] = x
      /\ \A u \in Threads : u # t => pc'[u] = pc[u] /\ job'[u] = job[u]
  BY <1>1 DEF TypeInv, TypeOK
<1>4. job[t] \in Jobs /\ job'[t] = [job[t] EXCEPT !.prev = LastHash(table)]
  BY <1>1 DEF TypeInv, TypeOK
<1>5. /\ job'[t].prev = LastHash(table) /\ job'[t].ev = job[t].ev
      /\ job'[t].lg = job[t].lg /\ job'[t].seq = job[t].seq
  BY <1>4 DEF Jobs
<1>6. x = "insert" => table = {}
  <2>1. First(t) => t = "tk" /\ table = {}
    BY <1>1, ThreadNames DEF TypeInv, JobsOK, JobOK, GenesisFirst, First, Writes
  <2> QED
    BY <1>1, <2>1 DEF First, Writes, InWrite, InLog
<1> HIDE DEF x
<1>7. LockHeld'
  BY <1>1, <1>3 DEF LockHeld, InLog
<1>8. OneAhead'
  BY <1>1, <1>3, KeepsAhead
<1>9. Prepared'
  <2>1. ASSUME NEW u \in Threads, u # t
        PROVE  /\ pc'[u] \in {"lock", "select_last"} => job'[u].seq = 0
               /\ pc'[u] = "select_next" => job'[u].prev = LastHash(table)
               /\ pc'[u] = "insert" => /\ job'[u].seq = Cardinality(table)
                                       /\ job'[u].prev = LastHash(table)
    BY <1>3, <2>1 DEF Prepared
  <2>2. job'[t].seq = 0
    BY <1>1, <1>5 DEF Prepared
  <2>3. x = "insert" => job'[t].seq = Cardinality(table)
    BY <1>6, <2>2, EmptyChain
  <2>4. ASSUME NEW u \in Threads
        PROVE  /\ pc'[u] \in {"lock", "select_last"} => job'[u].seq = 0
               /\ pc'[u] = "select_next" => job'[u].prev = LastHash(table)
               /\ pc'[u] = "insert" => /\ job'[u].seq = Cardinality(table)
                                       /\ job'[u].prev = LastHash(table)
    BY <1>2, <1>3, <1>5, <2>1, <2>2, <2>3
  <2> QED
    BY <1>1, <2>4 DEF Prepared, LastHash
<1>10. Unwritten'
  <2>1. \A u \in Threads : HashOf(job'[u]) = HashOf(job[u]) /\ job'[u].ev = job[u].ev
    BY <1>3, <1>5 DEF HashOf
  <2>2. \A u \in Threads : Writes(u)' => Writes(u) /\ (pc'[u] # "commit" => pc[u] # "commit")
    BY <1>1, <1>2, <1>3 DEF Writes, InWrite, InLog
  <2>3. \A u \in Threads : Writes(u)' /\ pc'[u] # "commit" => \A r \in table : r.hash # HashOf(job'[u])
    BY <2>1, <2>2 DEF Unwritten
  <2>4. \A u, v \in Threads : u # v /\ Writes(u)' /\ Writes(v)' => job'[u].ev # job'[v].ev
    BY <2>1, <2>2 DEF Unwritten
  <2> QED
    BY <1>1, <2>3, <2>4 DEF Unwritten, HashOf
<1>11. TypeInv'
  BY SelectLastTypes
<1> QED
  BY <1>1, <1>7, <1>8, <1>9, <1>10, <1>11
     DEF Chained, Numbered, Linked, RowAt, Seqs, NothingRefused

LEMMA SelectNextKeepsOne ==
  ASSUME MaxLogins = 1, OneInv, NEW t \in Threads, SelectNext(t)
  PROVE  OneInv'
<1> USE DEF OneInv
<1> DEFINE n == IF table = {} THEN 0 ELSE Max(Seqs(table)) + 1
<1>1. /\ pc[t] = "select_next"
      /\ job' = [job EXCEPT ![t].seq = n] /\ pc' = [pc EXCEPT ![t] = "insert"]
      /\ UNCHANGED <<table, durable, lock, degraded, loggers, issued>>
  BY DEF SelectNext, At, Goto, store, memory
<1>2. n = Cardinality(table)
  BY TableChained, ChainEnd, EmptyChain
<1> HIDE DEF n
<1>3. /\ pc'[t] = "insert"
      /\ \A u \in Threads : u # t => pc'[u] = pc[u] /\ job'[u] = job[u]
  BY <1>1 DEF TypeInv, TypeOK
<1>4. job[t] \in Jobs /\ job'[t] = [job[t] EXCEPT !.seq = n]
  BY <1>1 DEF TypeInv, TypeOK
<1>5. /\ job'[t].prev = job[t].prev /\ job'[t].ev = job[t].ev
      /\ job'[t].lg = job[t].lg /\ job'[t].seq = n
  BY <1>4 DEF Jobs
<1>7. LockHeld'
  BY <1>1, <1>3 DEF LockHeld, InLog
<1>8. OneAhead'
  BY <1>1, <1>3, KeepsAhead
<1>9. Prepared'
  <2>1. ASSUME NEW u \in Threads, u # t
        PROVE  /\ pc'[u] \in {"lock", "select_last"} => job'[u].seq = 0
               /\ pc'[u] = "select_next" => job'[u].prev = LastHash(table)
               /\ pc'[u] = "insert" => /\ job'[u].seq = Cardinality(table)
                                       /\ job'[u].prev = LastHash(table)
    BY <1>3, <2>1 DEF Prepared
  <2>2. job'[t].seq = Cardinality(table) /\ job'[t].prev = LastHash(table)
    BY <1>1, <1>2, <1>5 DEF Prepared
  <2>4. ASSUME NEW u \in Threads
        PROVE  /\ pc'[u] \in {"lock", "select_last"} => job'[u].seq = 0
               /\ pc'[u] = "select_next" => job'[u].prev = LastHash(table)
               /\ pc'[u] = "insert" => /\ job'[u].seq = Cardinality(table)
                                       /\ job'[u].prev = LastHash(table)
    BY <1>3, <2>1, <2>2
  <2> QED
    BY <1>1, <2>4 DEF Prepared, LastHash
<1>10. Unwritten'
  <2>1. \A u \in Threads : HashOf(job'[u]) = HashOf(job[u]) /\ job'[u].ev = job[u].ev
    BY <1>3, <1>5 DEF HashOf
  <2>2. \A u \in Threads : Writes(u)' => Writes(u) /\ (pc'[u] # "commit" => pc[u] # "commit")
    BY <1>1, <1>3 DEF Writes, InWrite, InLog
  <2>3. \A u \in Threads : Writes(u)' /\ pc'[u] # "commit" => \A r \in table : r.hash # HashOf(job'[u])
    BY <2>1, <2>2 DEF Unwritten
  <2>4. \A u, v \in Threads : u # v /\ Writes(u)' /\ Writes(v)' => job'[u].ev # job'[v].ev
    BY <2>1, <2>2 DEF Unwritten
  <2> QED
    BY <1>1, <2>3, <2>4 DEF Unwritten, HashOf
<1>11. TypeInv'
  BY SelectNextTypes
<1> QED
  BY <1>1, <1>7, <1>8, <1>9, <1>10, <1>11
     DEF Chained, Numbered, Linked, RowAt, Seqs, NothingRefused

\* The row a thread inserts is the one that comes next, so it is never refused.
LEMMA InsertFollows ==
  ASSUME MaxLogins = 1, OneInv, NEW t \in Threads, pc[t] = "insert"
  PROVE  /\ table = durable /\ RowOf(job[t]) \in Rows /\ Follows(RowOf(job[t]), durable)
         /\ job[t].seq \notin Seqs(table)
<1> USE DEF OneInv
<1>1. Writes(t)
  BY DEF Writes, InWrite, InLog
<1>2. table = durable
  BY HolderSeesFile DEF InLog
<1>3. job[t] \in Jobs /\ job[t].lg = 1 /\ job[t].ev \in 1..issued
  BY <1>1, SameLogger DEF TypeInv, TypeOK
<1>4. RowOf(job[t]) \in Rows
  <2>1. HashOf(job[t]) \in Hashes
    BY <1>3 DEF HashOf, Hashes, Loggers, Jobs, TypeInv, TypeOK
  <2> QED
    BY <1>3, <2>1 DEF RowOf, Rows, Jobs
<1>5. /\ RowOf(job[t]).seq = job[t].seq /\ RowOf(job[t]).prev = job[t].prev
      /\ RowOf(job[t]).hash = HashOf(job[t])
  BY DEF RowOf
<1>6. \A r \in table : r.hash # HashOf(job[t])
  BY <1>1 DEF Unwritten
<1>7. job[t].seq = Cardinality(table) /\ job[t].prev = LastHash(table)
  BY DEF Prepared
<1>8. Follows(RowOf(job[t]), durable)
  BY <1>2, <1>5, <1>6, <1>7 DEF Follows
<1>9. durable \subseteq Rows
  BY DEF TypeInv, TypeOK
<1> QED
  BY <1>2, <1>4, <1>5, <1>8, <1>9, ChainGrows

LEMMA InsertKeepsOne ==
  ASSUME MaxLogins = 1, OneInv, NEW t \in Threads, Insert(t)
  PROVE  OneInv'
<1> USE DEF OneInv
<1>1. pc[t] = "insert" /\ UNCHANGED <<durable, loggers, issued>>
  BY DEF Insert, At
<1>2. /\ table = durable /\ RowOf(job[t]) \in Rows /\ Follows(RowOf(job[t]), durable)
      /\ job[t].seq \notin Seqs(table)
  BY <1>1, InsertFollows
<1>3. /\ table' = table \cup {RowOf(job[t])} /\ pc' = [pc EXCEPT ![t] = "commit"]
      /\ UNCHANGED <<lock, degraded, job>>
  BY <1>2 DEF Insert, Goto
<1>4. pc'[t] = "commit" /\ \A u \in Threads : u # t => pc'[u] = pc[u]
  BY <1>3 DEF TypeInv, TypeOK
<1>5. LockHeld'
  BY <1>1, <1>3, <1>4 DEF LockHeld, InLog
<1>6. OneAhead'
  <2>1. Follows(RowOf(job'[t]), durable') /\ table' = durable' \cup {RowOf(job'[t])}
    BY <1>1, <1>2, <1>3
  <2> QED
    BY <1>4, <2>1 DEF OneAhead, Follows, RowOf, HashOf, LastHash
<1>7. \A u \in Threads : pc[u] \in InLog => u = t
  BY <1>1 DEF LockHeld, InLog
<1>8. Prepared'
  BY <1>3, <1>4, <1>7 DEF Prepared, InLog
<1>9. Unwritten'
  <2>1. job[t].ev \in 1..issued /\ job[t].lg = 1 /\ Writes(t)
    BY <1>1, SameLogger DEF Writes, InWrite, InLog
  <2>2. RowOf(job[t]).hash = HashOf(job[t]) /\ HashOf(job[t])[1] = job[t].ev
    BY DEF RowOf, HashOf
  <2>3. \A u \in Threads : Writes(u)' => Writes(u)
    BY <1>1, <1>4 DEF Writes, InWrite, InLog
  <2>4. ASSUME NEW u \in Threads, Writes(u)', pc'[u] # "commit", NEW r \in table'
        PROVE  r.hash # HashOf(job[u])
    <3>1. u # t /\ pc[u] # "commit" /\ Writes(u)
      BY <1>4, <2>3, <2>4
    <3>2. CASE r \in table
      BY <3>1, <3>2 DEF Unwritten
    <3>3. CASE r = RowOf(job[t])
      <4>1. job[t].ev # job[u].ev
        BY <2>1, <3>1 DEF Unwritten
      <4> QED
        BY <2>2, <3>3, <4>1 DEF HashOf
    <3> QED
      BY <1>3, <3>2, <3>3
  <2>5. \A r \in table' : r.hash[1] <= issued
    BY <1>3, <2>1, <2>2 DEF Unwritten, TypeInv, TypeOK
  <2>6. \A u, v \in Threads : u # v /\ Writes(u)' /\ Writes(v)' => job'[u].ev # job'[v].ev
    BY <1>3, <2>3 DEF Unwritten
  <2> QED
    BY <1>1, <1>3, <2>4, <2>5, <2>6 DEF Unwritten, HashOf
<1>10. TypeInv'
  BY InsertTypes
<1> QED
  BY <1>1, <1>3, <1>5, <1>6, <1>8, <1>9, <1>10
     DEF Chained, Numbered, Linked, RowAt, Seqs, NothingRefused

LEMMA CommitKeepsOne ==
  ASSUME MaxLogins = 1, OneInv, NEW t \in Threads, Commit(t)
  PROVE  OneInv'
<1> USE DEF OneInv
<1>1. /\ pc[t] = "commit" /\ durable' = table /\ Return(t)
      /\ UNCHANGED <<table, loggers, degraded, issued>>
  BY DEF Commit, At
<1>2. Writes(t) /\ pc[t] \in InLog /\ MaxIssued \in Nat
  BY <1>1, Room DEF Writes, InWrite, InLog, TypeInv, TypeOK
<1>3. job[t].lg = 1 /\ ~(job[t].lg < loggers)
  <2>1. job[t].lg = 1
    BY <1>2, SameLogger
  <2> QED
    BY <2>1 DEF TypeInv, TypeOK
<1>4. /\ \A u \in Threads : u # t => pc'[u] = pc[u] /\ job'[u] = job[u]
      /\ pc'[t] \in {"store_key", "idle"}
  BY <1>1, <1>2, <1>3, HasReturned DEF TypeInv
<1>5. \A u \in Threads : pc[u] \in InLog => u = t
  BY <1>2 DEF LockHeld
<1>6. LockHeld'
  BY <1>4, <1>5 DEF LockHeld, InLog
<1>7. Chained(durable')
  BY <1>1, TableChained
<1>8. OneAhead' /\ Chained(durable)'
  BY <1>1, <1>7 DEF OneAhead, Chained, Numbered, Linked, RowAt, Seqs
<1>9. Prepared'
  BY <1>1, <1>4, <1>5 DEF Prepared, InLog
<1>10. Unwritten'
  <2>1. \A u \in Threads : Writes(u)' => u # t /\ Writes(u)
    BY <1>4 DEF Writes, InWrite, InLog
  <2> QED
    BY <1>1, <1>4, <2>1 DEF Unwritten, HashOf
<1>11. TypeInv'
  BY CommitTypes
<1> QED
  BY <1>1, <1>6, <1>8, <1>9, <1>10, <1>11 DEF NothingRefused

\* An idle thread sets out to log an event, which no thread has before.
LEMMA BeginKeepsOne ==
  ASSUME MaxLogins = 1, OneInv, TypeInv', NEW t \in Threads, NEW l, NEW then, Begin(t, l, then),
         pc[t] \notin InWrite, l \in Loggers, then \in {"nothing", "handlers", "store_key"},
         issued < MaxIssued, loggers' = loggers \/ t = "tk",
         then = "store_key" => t = "tk" /\ l = loggers' + 1,
         UNCHANGED <<table, lock, degraded>>, durable' \in {durable, table}
  PROVE  OneInv'
<1> USE DEF OneInv
<1>1. MaxIssued \in Nat
  BY Room DEF TypeInv, TypeOK
<1>2. /\ issued' = issued + 1 /\ pc' = [pc EXCEPT ![t] = "lock"]
      /\ \A u \in Threads : u # t => job'[u] = job[u]
      /\ job'[t].ev = issued' /\ job'[t].lg = l /\ job'[t].seq = 0
  BY <1>1, HasBegun DEF TypeInv
<1>3. pc'[t] = "lock" /\ \A u \in Threads : u # t => pc'[u] = pc[u]
  BY <1>2 DEF TypeInv, TypeOK
<1>4. LockHeld'
  BY <1>3 DEF LockHeld, InLog
<1>5. OneAhead' /\ Chained(durable)'
  <2>1. CASE durable' = table
    BY <2>1, TableChained DEF OneAhead, Chained, Numbered, Linked, RowAt, Seqs
  <2>2. CASE durable' = durable
    <3>1. OneAhead'
      BY <1>2, <1>3, <2>2, KeepsAhead DEF InWrite, InLog
    <3> QED
      BY <2>2, <3>1 DEF Chained, Numbered, Linked, RowAt, Seqs
  <2> QED
    BY <2>1, <2>2
<1>6. Prepared'
  BY <1>2, <1>3 DEF Prepared
<1>7. Unwritten'
  <2>1. issued \in Nat /\ \A u \in Threads : Writes(u) => job[u].ev \in 1..issued
    BY SameLogger DEF TypeInv, TypeOK
  <2>2. \A r \in table : r.hash[1] <= issued /\ r.hash[1] \in Nat
    BY DEF Unwritten, TypeInv, TypeOK, Rows, Hashes
  <2>3. \A u \in Threads : u # t /\ Writes(u)' => Writes(u)
    BY <1>3 DEF Writes
  <2>4. ASSUME NEW u \in Threads, Writes(u)', pc'[u] # "commit", NEW r \in table
        PROVE  r.hash # HashOf(job'[u])
    <3>1. CASE u = t
      <4>1. HashOf(job'[t])[1] = issued + 1
        BY <1>2 DEF HashOf
      <4>2. r.hash[1] # issued + 1
        BY <2>1, <2>2
      <4> QED
        BY <3>1, <4>1, <4>2
    <3>2. CASE u # t
      BY <1>2, <1>3, <2>3, <2>4, <3>2 DEF Unwritten
    <3> QED
      BY <3>1, <3>2
  <2>5. ASSUME NEW u \in Threads, NEW v \in Threads, u # v, Writes(u)', Writes(v)'
        PROVE  job'[u].ev # job'[v].ev
    <3>1. CASE u # t /\ v # t
      BY <1>2, <2>3, <2>5, <3>1 DEF Unwritten
    <3>2. CASE u = t
      <4>1. job'[v].ev \in 1..issued /\ job'[u].ev = issued + 1
        BY <1>2, <2>1, <2>3, <2>5, <3>2
      <4> QED
        BY <2>1, <4>1
    <3>3. CASE v = t
      <4>1. job'[u].ev \in 1..issued /\ job'[v].ev = issued + 1
        BY <1>2, <2>1, <2>3, <2>5, <3>3
      <4> QED
        BY <2>1, <4>1
    <3> QED
      BY <3>1, <3>2, <3>3
  <2>6. \A r \in table : r.hash[1] <= issued'
    BY <1>2, <2>1, <2>2
  <2> QED
    BY <2>4, <2>5, <2>6 DEF Unwritten, HashOf
<1> QED
  BY <1>4, <1>5, <1>6, <1>7 DEF NothingRefused

\* The GUI's thread goes to a place outside log_event.
LEMMA GuiKeepsOne ==
  ASSUME OneInv, TypeInv', pc["tk"] \notin InWrite, NEW x \in Starting, NEW j,
         pc' = [pc EXCEPT !["tk"] = x], job' = [job EXCEPT !["tk"] = j],
         UNCHANGED <<table, lock, degraded, issued>>, durable' \in {durable, table}
  PROVE  OneInv'
<1> USE DEF OneInv
<1>1. /\ pc'["tk"] = x
      /\ \A u \in Threads : u # "tk" => pc'[u] = pc[u] /\ job'[u] = job[u]
  BY ThreadNames DEF TypeInv, TypeOK
<1>2. x \notin InWrite
  BY DEF Starting, InWrite, InLog
<1>3. LockHeld'
  BY <1>1, <1>2 DEF LockHeld, InWrite
<1>4. OneAhead' /\ Chained(durable)'
  <2>1. CASE durable' = table
    BY <2>1, TableChained DEF OneAhead, Chained, Numbered, Linked, RowAt, Seqs
  <2>2. CASE durable' = durable
    <3>1. OneAhead'
      BY <1>1, <2>2, KeepsAhead, ThreadNames DEF InWrite, InLog
    <3> QED
      BY <2>2, <3>1 DEF Chained, Numbered, Linked, RowAt, Seqs
  <2> QED
    BY <2>1, <2>2
<1>5. Prepared'
  BY <1>1, <1>2 DEF Prepared, InWrite, InLog
<1>6. Unwritten'
  <2>1. \A u \in Threads : Writes(u)' => u # "tk" /\ Writes(u)
    BY <1>1, <1>2 DEF Writes
  <2> QED
    BY <1>1, <2>1 DEF Unwritten, HashOf
<1> QED
  BY <1>3, <1>4, <1>5, <1>6 DEF NothingRefused

LEMMA NewLoggerKeepsOne ==
  ASSUME MaxLogins = 1, OneInv, NewLogger
  PROVE  OneInv'
<1>1. TypeInv'
  BY NewLoggerTypes DEF OneInv
<1>2. /\ pc["tk"] = "idle" /\ loggers < MaxLogins
      /\ UNCHANGED <<table, durable, loggers, lock, degraded>>
  BY DEF NewLogger, At, store, memory
<1>3. CASE table = {}
  <2>1. Begin("tk", loggers + 1, "store_key") /\ issued' = issued + 1
    BY <1>3 DEF NewLogger, Begin
  <2>2. loggers + 1 \in Loggers
    BY <1>2, AuditAssumption DEF OneInv, TypeInv, TypeOK, Loggers
  <2>3. issued < MaxIssued
    <3>1. MaxIssued \in Nat
      BY Room DEF OneInv, TypeInv, TypeOK
    <3> QED
      BY <1>1, <2>1, <3>1 DEF OneInv, TypeInv, TypeOK
  <2>4. PICK l : l = loggers + 1
    OBVIOUS
  <2>5. Begin("tk", l, "store_key") /\ l \in Loggers /\ l = loggers' + 1
    BY <1>2, <2>1, <2>2, <2>4
  <2> QED
    BY <1>1, <1>2, <2>3, <2>5, BeginKeepsOne, ThreadNames DEF InWrite, InLog
<1>4. CASE table # {}
  <2>1. PICK j : j = [NoJob EXCEPT !.lg = loggers + 1]
    OBVIOUS
  <2>2. /\ job' = [job EXCEPT !["tk"] = j] /\ pc' = [pc EXCEPT !["tk"] = "store_key"]
        /\ UNCHANGED issued
    BY <1>4, <2>1 DEF NewLogger, Goto
  <2>3. "store_key" \in Starting /\ pc["tk"] \notin InWrite
    BY <1>2 DEF Starting, InWrite, InLog
  <2> QED
    BY <1>1, <1>2, <2>2, <2>3, GuiKeepsOne
<1> QED
  BY <1>3, <1>4

LEMMA StoreKeyKeepsOne ==
  ASSUME OneInv, StoreKey
  PROVE  OneInv'
<1>1. TypeInv'
  BY StoreKeyTypes DEF OneInv
<1>2. /\ pc["tk"] = "store_key" /\ durable' = table /\ pc' = [pc EXCEPT !["tk"] = "subscribe"]
      /\ UNCHANGED <<table, lock, degraded, job, issued>>
  BY DEF StoreKey, At, Goto, memory
<1>3. PICK j : j = job["tk"]
  OBVIOUS
<1>4. job' = [job EXCEPT !["tk"] = j]
  BY <1>2, <1>3, ThreadNames DEF OneInv, TypeInv, TypeOK
<1>5. "subscribe" \in Starting /\ pc["tk"] \notin InWrite
  BY <1>2 DEF Starting, InWrite, InLog
<1> QED
  BY <1>1, <1>2, <1>4, <1>5, GuiKeepsOne

LEMMA SubscribeKeepsOne ==
  ASSUME MaxLogins = 1, OneInv, Subscribe
  PROVE  OneInv'
<1>1. TypeInv'
  BY SubscribeTypes DEF OneInv
<1>2. /\ pc["tk"] = "subscribe" /\ loggers' = job["tk"].lg
      /\ Begin("tk", job["tk"].lg, "nothing") /\ issued' = issued + 1
      /\ UNCHANGED <<table, durable, lock, degraded>>
  BY DEF Subscribe, At, Begin, store
<1>3. job["tk"].lg \in Loggers
  BY <1>2, ThreadNames DEF OneInv, TypeInv, JobsOK, JobOK, Starting
<1>4. issued < MaxIssued
  <2>1. MaxIssued \in Nat
    BY Room DEF OneInv, TypeInv, TypeOK
  <2> QED
    BY <1>1, <1>2, <2>1 DEF OneInv, TypeInv, TypeOK
<1>5. PICK l : l = job["tk"].lg
  OBVIOUS
<1>6. Begin("tk", l, "nothing") /\ l \in Loggers /\ pc["tk"] \notin InWrite
  BY <1>2, <1>3, <1>5 DEF InWrite, InLog
<1> QED
  BY <1>1, <1>2, <1>4, <1>6, BeginKeepsOne, ThreadNames

\* A rollback takes back only a row of a thread that is about to commit: a
\* thread that has read the table and not written yet holds the lock.
LEMMA RollbackKeepsOne ==
  ASSUME OneInv, Rollback, loggers > 0 \/ pc["tk"] = "idle"
  PROVE  OneInv'
<1> USE DEF OneInv
<1>1. table' = durable /\ UNCHANGED <<durable, loggers, lock, degraded, job, pc, issued>>
  BY DEF Rollback, memory
<1>2. TypeInv'
  BY RollbackTypes
<1>3. \A t \in Threads : pc[t] \in {"select_next", "insert"} => table = durable
  BY HolderSeesFile DEF InLog
<1>4. Prepared'
  BY <1>1, <1>3 DEF Prepared, LastHash
<1>5. durable \subseteq table
  BY DEF TypeInv, CommittedIsSeen
<1>6. Unwritten'
  BY <1>1, <1>5 DEF Unwritten, Writes, HashOf
<1> QED
  BY <1>1, <1>2, <1>4, <1>6
     DEF LockHeld, OneAhead, Chained, Numbered, Linked, RowAt, Seqs, NothingRefused

LEMMA CrashKeepsOne ==
  ASSUME OneInv, Crash
  PROVE  OneInv'
<1> USE DEF OneInv
<1>1. /\ table' = durable /\ UNCHANGED <<durable, issued>> /\ degraded' = {}
      /\ pc' = [t \in Threads |-> "idle"]
  BY DEF Crash
<1>2. TypeInv'
  BY CrashTypes
<1>3. \A t \in Threads : pc'[t] = "idle"
  BY <1>1
<1>4. durable \subseteq table
  BY DEF TypeInv, CommittedIsSeen
<1> QED
  BY <1>1, <1>2, <1>3, <1>4
     DEF LockHeld, OneAhead, Prepared, Unwritten, Writes, InWrite, InLog, Chained, Numbered,
         Linked, RowAt, Seqs, NothingRefused

LEMMA OneStep ==
  ASSUME MaxLogins = 1, OneInv, [Next]_vars
  PROVE  OneInv'
<1>1. ASSUME NEW t \in Threads, Write(t) PROVE OneInv'
  BY <1>1, AcquireKeepsOne, SelectLastKeepsOne, SelectNextKeepsOne, InsertKeepsOne,
     CommitKeepsOne DEF Write
<1>2. TypeInv'
  BY TypeStep DEF OneInv
<1>3. /\ 1 \in Loggers /\ "idle" \notin InWrite
      /\ issued < MaxEvents => issued < MaxIssued
  <2>1. MaxIssued \in Nat /\ MaxEvents <= MaxIssued
    BY Room DEF OneInv, TypeInv, TypeOK
  <2> QED
    BY <2>1, AuditAssumption DEF Loggers, InWrite, InLog, OneInv, TypeInv, TypeOK
<1>4. ASSUME NEW t \in Threads, Emit(t) PROVE OneInv'
  BY <1>2, <1>3, <1>4, BeginKeepsOne DEF Emit, At, MayEmit, store, memory
<1>5. ASSUME NEW t \in Threads, SaveEntry(t) PROVE OneInv'
  BY <1>2, <1>3, <1>5, BeginKeepsOne DEF SaveEntry, At, MayEmit, memory
<1>6. ASSUME NEW l \in Loggers, PeriodicVerify(l) PROVE OneInv'
  BY <1>2, <1>3, <1>6, BeginKeepsOne, ThreadNames DEF PeriodicVerify, At, MayEmit, store, memory
<1>7. CASE UNCHANGED vars
  <2>1. UNCHANGED <<table, durable, loggers, lock, degraded, job, pc, issued>>
    BY <1>7 DEF vars, store, memory
  <2>2. OneAhead'
    BY <2>1 DEF OneInv, OneAhead, Follows, LastHash, RowOf, HashOf
  <2> QED
    BY <1>2, <2>1, <2>2
       DEF OneInv, LockHeld, Prepared, Unwritten, Writes, HashOf, LastHash, Chained,
           Numbered, Linked, RowAt, Seqs, NothingRefused
<1>8. (\E t \in Threads : SaveFails(t)) \/ Rotate => OneInv'
  BY RollbackKeepsOne DEF SaveFails, Rotate, At
<1> QED
  BY <1>1, <1>4, <1>5, <1>6, <1>7, <1>8, NewLoggerKeepsOne, StoreKeyKeepsOne,
     SubscribeKeepsOne, CrashKeepsOne DEF Next

LEMMA OneInit == Init => OneInv
<1> SUFFICES ASSUME Init PROVE OneInv
  OBVIOUS
<1>1. TypeInv
  BY TypeInit
<1>2. Chained(durable)
  BY EmptyChain DEF Init
<1> QED
  BY <1>1, <1>2
     DEF Init, OneInv, LockHeld, OneAhead, Prepared, Unwritten, Writes, InWrite, InLog,
         NothingRefused

\* With one instance, audit_log is one unbroken chain at every moment, a row
\* yet to be committed included.
THEOREM OneLoggerChain ==
  ASSUME MaxLogins = 1
  PROVE  Spec => []ChainIntact
<1>1. OneInv => ChainIntact
  BY TableChained DEF OneInv, Chained, ChainIntact
<1> QED
  BY <1>1, OneInit, OneStep, PTL DEF Spec

\* With one instance, no write is ever refused: the number a thread computed is
\* free until it has inserted its row.
THEOREM OneLoggerWrites ==
  ASSUME MaxLogins = 1
  PROVE  Spec => []NothingRefused
<1>1. OneInv => NothingRefused
  BY DEF OneInv
<1> QED
  BY <1>1, OneInit, OneStep, PTL DEF Spec

-----------------------------------------------------------------------------
(* The committed rows are the chain of AuditChain. *)

\* As many rows come before a row as its number says.
LEMMA RowsBefore ==
  ASSUME NEW rows, rows \subseteq Rows, Chained(rows), NEW r \in rows
  PROVE  Cardinality({q \in rows : q.seq < r.seq}) = r.seq
<1> DEFINE S == {q \in rows : q.seq < r.seq}
<1>1. PICK n \in Nat : n = Cardinality(rows)
  BY FS_CardinalityType DEF Chained
<1>2. Seqs(rows) = 0..(n - 1)
  BY <1>1 DEF Chained, Linked
<1>3. r.seq \in Seqs(rows) /\ r.seq \in Nat
  BY <1>2 DEF Seqs
<1>4. PICK k \in Nat : k = r.seq
  BY <1>3
<1>5. k \in 0..(n - 1)
  BY <1>2, <1>3, <1>4
<1>6. IsFiniteSet(S)
  BY FS_Subset DEF Chained
<1> DEFINE f == [q \in S |-> q.seq]
<1>7. f \in [S -> 0..(k - 1)]
  <2>1. ASSUME NEW q \in S PROVE q.seq \in 0..(k - 1)
    <3>1. q.seq \in Nat /\ q.seq < k
      BY <1>4 DEF Rows
    <3> QED
      BY <3>1
  <2> QED
    BY <2>1
<1>8. \A p, q \in S : f[p] = f[q] => p = q
  BY DEF Chained, Numbered
<1>9. ASSUME NEW m \in 0..(k - 1) PROVE \E q \in S : f[q] = m
  <2>1. m \in 0..(n - 1) /\ m < k
    BY <1>5
  <2>2. PICK q \in rows : q.seq = m
    BY <1>2, <2>1 DEF Seqs
  <2> QED
    BY <1>4, <2>1, <2>2
<1>10. f \in Bijection(S, 0..(k - 1))
  BY <1>7, <1>8, <1>9 DEF Bijection, Injection, Surjection, IsInjective
<1>11. Cardinality(0..(k - 1)) = Cardinality(S)
  BY <1>6, <1>10, FS_Bijection DEF ExistsBijection
<1>12. Cardinality(0..(k - 1)) = k
  BY FS_Interval
<1> QED
  BY <1>4, <1>11, <1>12

\* The rows of a chain, read in order.
LEMMA ChainRead ==
  ASSUME NEW rows, rows \subseteq Rows, Chained(rows)
  PROVE  /\ Cardinality(rows) \in Nat
         /\ RowsRead(rows, Cardinality(rows)) =
              [i \in 1..Cardinality(rows) |-> RowAt(rows, i - 1)]
         /\ \A i \in 1..Cardinality(rows) :
              RowAt(rows, i - 1) \in rows /\ RowAt(rows, i - 1).seq = i - 1
<1>1. PICK n \in Nat : n = Cardinality(rows)
  BY FS_CardinalityType DEF Chained
<1>2. Min({n, n}) = n
  BY DEF Min
<1>3. ASSUME NEW i \in 1..n
      PROVE  /\ RowAt(rows, i - 1) \in rows /\ RowAt(rows, i - 1).seq = i - 1
             /\ (CHOOSE r \in rows : Cardinality({q \in rows : q.seq < r.seq}) = i - 1)
                  = RowAt(rows, i - 1)
  <2>1. i - 1 \in Seqs(rows)
    <3>1. i - 1 \in 0..(n - 1)
      OBVIOUS
    <3> QED
      BY <1>1, <3>1 DEF Chained, Linked
  <2>2. PICK r \in rows : r.seq = i - 1
    BY <2>1 DEF Seqs
  <2>3. RowAt(rows, i - 1) = r
    BY <2>2, RowAtIs DEF Chained
  <2>4. \A q \in rows : Cardinality({p \in rows : p.seq < q.seq}) = q.seq
    BY RowsBefore
  <2>5. \A q \in rows : Cardinality({p \in rows : p.seq < q.seq}) = i - 1 <=> q = r
    BY <2>2, <2>4 DEF Chained, Numbered
  <2> QED
    BY <2>2, <2>3, <2>5
<1>4. RowsRead(rows, n) = [i \in 1..n |-> RowAt(rows, i - 1)]
  BY <1>1, <1>2, <1>3 DEF RowsRead
<1> QED
  BY <1>1, <1>3, <1>4

\* The committed rows as the abstract chain has them.
ChainOf(rows) == [i \in 1..Cardinality(rows) |-> Entry(RowAt(rows, i - 1))]

LEMMA CommittedChainIs ==
  ASSUME durable \subseteq Rows, Chained(durable)
  PROVE  CommittedChain = ChainOf(durable) /\ DOMAIN CommittedChain = 1..Cardinality(durable)
<1>1. /\ RowsRead(durable, Cardinality(durable)) =
            [i \in 1..Cardinality(durable) |-> RowAt(durable, i - 1)]
  BY ChainRead
<1> QED
  BY <1>1 DEF CommittedChain, ChainOf

\* A row that follows a chain is what Append1 adds.
LEMMA ChainAppends ==
  ASSUME NEW rows, rows \subseteq Rows, Chained(rows), NEW row \in Rows, Follows(row, rows)
  PROVE  /\ ChainOf(rows \cup {row}) =
              Append(ChainOf(rows), [prev |-> Abstract!TipOf(ChainOf(rows)), hash |-> row.hash])
         /\ \A i \in DOMAIN ChainOf(rows) : ChainOf(rows)[i].hash # row.hash
<1> DEFINE new == rows \cup {row}
<1>1. PICK n \in Nat : n = Cardinality(rows)
  BY FS_CardinalityType DEF Chained
<1>2. Chained(new) /\ Cardinality(new) = n + 1 /\ row.seq = n /\ row.prev = LastHash(rows)
  BY <1>1, ChainGrows DEF Follows
<1>3. ASSUME NEW i \in 1..n
      PROVE  /\ RowAt(rows, i - 1) \in rows /\ RowAt(rows, i - 1).seq = i - 1
             /\ RowAt(new, i - 1) = RowAt(rows, i - 1)
  <2>1. RowAt(rows, i - 1) \in rows /\ RowAt(rows, i - 1).seq = i - 1
    BY <1>1, ChainRead
  <2>2. RowAt(new, RowAt(rows, i - 1).seq) = RowAt(rows, i - 1)
    BY <1>2, <2>1, RowAtIs DEF Chained
  <2> QED
    BY <2>1, <2>2
<1>4. RowAt(new, n) = row
  BY <1>2, RowAtIs DEF Chained
<1>5. ChainOf(rows) = [i \in 1..n |-> Entry(RowAt(rows, i - 1))]
  BY <1>1 DEF ChainOf
<1>6. ChainOf(new) = [i \in 1..(n + 1) |-> Entry(RowAt(new, i - 1))]
  BY <1>2 DEF ChainOf
<1>7. Abstract!TipOf(ChainOf(rows)) = LastHash(rows)
  <2>1. CASE rows = {}
    <3>1. n = 0
      BY <1>1, <2>1, EmptyChain
    <3>2. ChainOf(rows) = <<>>
      BY <1>5, <3>1
    <3> QED
      BY <2>1, <3>2, EmptyChain DEF Abstract!TipOf
  <2>2. CASE rows # {}
    <3>1. PICK r \in rows : r.seq = n - 1 /\ LastHash(rows) = r.hash /\ n \in Nat \ {0}
      BY <1>1, <2>2, ChainEnd
    <3>2. RowAt(rows, n - 1) = r
      BY <3>1, RowAtIs DEF Chained
    <3>3. Len(ChainOf(rows)) = n /\ ChainOf(rows) # <<>>
      BY <1>5, <3>1
    <3>4. ChainOf(rows)[n] = Entry(r)
      BY <1>5, <3>1, <3>2
    <3> QED
      BY <3>1, <3>3, <3>4 DEF Abstract!TipOf, Entry
  <2> QED
    BY <2>1, <2>2
<1> DEFINE e == Entry(row)
<1>8. e = [prev |-> Abstract!TipOf(ChainOf(rows)), hash |-> row.hash]
  BY <1>2, <1>7 DEF Entry
<1>9. ASSUME NEW i \in 1..(n + 1)
      PROVE  ChainOf(new)[i] = IF i <= n THEN ChainOf(rows)[i] ELSE e
  <2>0. ChainOf(new)[i] = Entry(RowAt(new, i - 1))
    BY <1>6
  <2>1. CASE i \in 1..n
    <3>1. ChainOf(rows)[i] = Entry(RowAt(rows, i - 1)) /\ i <= n
      BY <1>5, <2>1
    <3>2. RowAt(new, i - 1) = RowAt(rows, i - 1)
      BY <1>3, <2>1
    <3> QED
      BY <2>0, <3>1, <3>2
  <2>2. CASE i = n + 1
    <3>1. i - 1 = n /\ ~(i <= n)
      BY <2>2
    <3> QED
      BY <1>4, <2>0, <3>1
  <2> QED
    BY <2>1, <2>2
<1> HIDE DEF e
<1>10. ChainOf(new) = Append(ChainOf(rows), e)
  <2>1. PICK c : c = ChainOf(rows)
    OBVIOUS
  <2>2. PICK d : d = ChainOf(new)
    OBVIOUS
  <2>3. c = [i \in 1..n |-> c[i]] /\ d = [i \in 1..(n + 1) |-> d[i]]
    BY <1>5, <1>6, <2>1, <2>2
  <2>4. Len(c) = n
    BY <2>3
  <2>5. Append(c, e) = [i \in 1..(n + 1) |-> IF i <= n THEN c[i] ELSE e]
    BY <2>3, <2>4
  <2>6. \A i \in 1..(n + 1) : d[i] = IF i <= n THEN c[i] ELSE e
    BY <1>9, <2>1, <2>2
  <2>7. d = Append(c, e)
    BY <2>3, <2>5, <2>6
  <2> QED
    BY <2>1, <2>2, <2>7
<1>11. \A i \in DOMAIN ChainOf(rows) : ChainOf(rows)[i].hash # row.hash
  BY <1>3, <1>5 DEF Follows, Entry
<1> QED
  BY <1>8, <1>10, <1>11

\* The file is left alone, or gets what the connection shows.
LEMMA FileStep ==
  ASSUME [Next]_vars
  PROVE  durable' = durable \/ durable' = table
<1>1. ASSUME NEW t \in Threads, Write(t) \/ Emit(t) \/ SaveEntry(t) \/ SaveFails(t)
      PROVE  durable' = durable \/ durable' = table
  BY <1>1 DEF Write, Acquire, SelectLast, SelectNext, Insert, Commit, Emit, SaveEntry,
              SaveFails, Rollback, store
<1>2. ASSUME NEW l \in Loggers, PeriodicVerify(l)
      PROVE  durable' = durable
  BY <1>2 DEF PeriodicVerify, store
<1>3. CASE NewLogger \/ StoreKey \/ Subscribe \/ Rotate \/ Crash
  BY <1>3 DEF NewLogger, StoreKey, Subscribe, Rotate, Rollback, Crash, store
<1>4. CASE UNCHANGED vars
  BY <1>4 DEF vars, store
<1> QED
  BY <1>1, <1>2, <1>3, <1>4 DEF Next

\* A commit adds one entry to the chain, or none; no other step changes it.
LEMMA ChainStep ==
  ASSUME OneInv, OneInv', [Next]_vars
  PROVE  [Abstract!Next]_CommittedChain
<1>1. durable \subseteq Rows /\ durable' \subseteq Rows /\ Chained(durable) /\ Chained(durable')
  BY DEF OneInv, TypeInv, TypeOK, Chained, Numbered, Linked, RowAt, Seqs
<1>2. CommittedChain = ChainOf(durable)
  BY <1>1, CommittedChainIs
<1>3. CommittedChain' = ChainOf(durable')
  <2>1. PICK d : d = durable'
    OBVIOUS
  <2>2. RowsRead(d, Cardinality(d)) = [i \in 1..Cardinality(d) |-> RowAt(d, i - 1)]
    BY <1>1, <2>1, ChainRead
  <2>3. CommittedChain' = LET rows == RowsRead(d, Cardinality(d))
                          IN  [i \in DOMAIN rows |-> Entry(rows[i])]
    BY <2>1 DEF CommittedChain, RowsRead, Entry
  <2> QED
    BY <2>1, <2>2, <2>3 DEF ChainOf
<1>4. CASE durable' = durable
  BY <1>2, <1>3, <1>4
<1>5. CASE durable' = table /\ durable' # durable
  <2>1. PICK row \in Rows : Follows(row, durable) /\ durable' = durable \cup {row}
    <3>1. PICK t \in Threads : /\ Follows(RowOf(job[t]), durable)
                               /\ table = durable \cup {RowOf(job[t])}
      BY <1>5 DEF OneInv, OneAhead
    <3>2. RowOf(job[t]) \in Rows
      BY <1>1, <1>5, <3>1
    <3> QED
      BY <1>5, <3>1, <3>2
  <2>2. row.hash \in Hashes
    BY DEF Rows
  <2>3. /\ CommittedChain' =
             Append(CommittedChain,
                    [prev |-> Abstract!TipOf(CommittedChain), hash |-> row.hash])
        /\ \A i \in DOMAIN CommittedChain : CommittedChain[i].hash # row.hash
    BY <1>1, <1>2, <1>3, <2>1, ChainAppends
  <2>4. Abstract!Append1(row.hash)
    BY <2>3 DEF Abstract!Append1
  <2> QED
    BY <2>2, <2>4 DEF Abstract!Next
<1> QED
  BY <1>4, <1>5, FileStep

\* With one instance, the file is always a chain ADR-002 describes, and grows
\* by one entry at a time: the rows of the table implement AuditChain.
THEOREM OneLoggerRefines ==
  ASSUME MaxLogins = 1
  PROVE  Spec => RefinesChain
<1>1. Init => Abstract!Init
  <2> SUFFICES ASSUME Init PROVE CommittedChain = <<>>
    BY DEF Abstract!Init
  <2>1. CommittedChain = ChainOf(durable)
    BY OneInit, CommittedChainIs DEF OneInv, TypeInv, TypeOK
  <2>2. durable = {}
    BY DEF Init
  <2> QED
    BY <2>1, <2>2, EmptyChain DEF ChainOf
<1>2. OneInv /\ [Next]_vars => OneInv'
  BY OneStep
<1>3. OneInv /\ OneInv' /\ [Next]_vars => [Abstract!Next]_CommittedChain
  BY ChainStep
<1> QED
  BY <1>1, <1>2, <1>3, OneInit, PTL DEF Spec, RefinesChain, Abstract!Spec
-----------------------------------------------------------------------------
(* The verifier, for any number of instances.  FoldLeft takes the last of a  *)
(* set of positions and goes on with the others; that there is a function    *)
(* doing so, and what it gives for the first k rows, is shown by induction   *)
(* on the number of rows, as membership of a set of numbers.                 *)

\* A set of numbers that has 0 and the successor of each it has, has them all.
LEMMA Successors ==
  ASSUME NEW S, 0 \in S, \A n \in Nat : n \in S => n + 1 \in S
  PROVE  Nat \subseteq S
<1> DEFINE Out == {n \in Nat : n \notin S}
<1>1. SUFFICES ASSUME Out # {} PROVE FALSE
  OBVIOUS
<1>2. Out \subseteq Nat
  OBVIOUS
<1>3. PICK m \in Out : \A k \in Out : ~(<<k, m>> \in Less)
  <2> HIDE DEF Out
  <2> QED
    BY <1>1, <1>2, LessWellFounded, WFMin
<1>4. m \in Nat /\ m # 0 /\ m - 1 \in Nat
  OBVIOUS
<1>5. <<m - 1, m>> \in Less
  <2>1. m - 1 < m
    BY <1>4
  <2> QED
    BY <1>4, <2>1 DEF Less
<1>6. m - 1 \in S
  BY <1>3, <1>4, <1>5
<1> QED
  BY <1>4, <1>6

Largest(s) == CHOOSE x \in s : \A y \in s : x >= y
Start   == [ok |-> TRUE, last |-> Genesis]

\* The function FoldLeft chooses, for the first n rows.
Walks(rows, n, g) ==
  g = [s \in SUBSET (1..n) |->
         IF s = {} THEN Start ELSE VerifyRow(g[s \ {Largest(s)}], rows[Largest(s)])]

LEMMA FoldIsWalk ==
  ASSUME NEW rows, DOMAIN rows = 1..Len(rows)
  PROVE  FoldLeft(VerifyRow, Start, rows) = (CHOOSE g : Walks(rows, Len(rows), g))[1..Len(rows)]
BY DEF FoldLeft, MapThenFoldSet, Walks, Largest, Max

LEMMA LastIs ==
  ASSUME NEW n \in Nat, NEW s, s \subseteq 1..n, n \in s
  PROVE  Largest(s) = n
<1>1. \A y \in s : n >= y
  OBVIOUS
<1>2. \A x \in s : (\A y \in s : x >= y) => x = n
  BY <1>1
<1> QED
  BY <1>1, <1>2 DEF Largest

LEMMA WalkExists ==
  ASSUME NEW rows, NEW n \in Nat
  PROVE  \E g : Walks(rows, n, g)
<1> DEFINE S == {m \in Nat : \E g : Walks(rows, m, g)}
<1>1. 0 \in S
  <2> DEFINE g == [s \in SUBSET (1..0) |-> Start]
  <2>1. \A s \in SUBSET (1..0) : s = {}
    OBVIOUS
  <2>2. Walks(rows, 0, g)
    BY <2>1 DEF Walks
  <2> QED
    BY <2>2
<1>2. ASSUME NEW m \in Nat, m \in S PROVE m + 1 \in S
  <2>1. PICK g : Walks(rows, m, g)
    BY <1>2
  <2> DEFINE h == [s \in SUBSET (1..m + 1) |->
                     IF m + 1 \in s THEN VerifyRow(g[s \ {m + 1}], rows[m + 1]) ELSE g[s]]
  <2>2. \A s \in SUBSET (1..m + 1) : m + 1 \notin s => s \in SUBSET (1..m) /\ h[s] = g[s]
    OBVIOUS
  <2>3. \A s \in SUBSET (1..m) :
          g[s] = IF s = {} THEN Start ELSE VerifyRow(g[s \ {Largest(s)}], rows[Largest(s)])
    BY <2>1 DEF Walks
  <2>4. ASSUME NEW s \in SUBSET (1..m + 1)
        PROVE  h[s] = IF s = {} THEN Start ELSE VerifyRow(h[s \ {Largest(s)}], rows[Largest(s)])
    <3>1. CASE m + 1 \in s
      <4>1. m + 1 \in Nat /\ s \subseteq 1..m + 1
        OBVIOUS
      <4>2. Largest(s) = m + 1
        BY <3>1, <4>1, LastIs
      <4>3. h[s] = VerifyRow(g[s \ {m + 1}], rows[m + 1])
        BY <3>1
      <4>4. h[s \ {m + 1}] = g[s \ {m + 1}]
        BY <2>2
      <4> QED
        BY <3>1, <4>2, <4>3, <4>4
    <3>2. CASE m + 1 \notin s
      <4>1. s \in SUBSET (1..m) /\ h[s] = g[s]
        BY <2>2, <3>2
      <4>2. h[s \ {Largest(s)}] = g[s \ {Largest(s)}]
        <5>1. s \ {Largest(s)} \in SUBSET (1..m + 1) /\ m + 1 \notin s \ {Largest(s)}
          BY <3>2
        <5> QED
          BY <2>2, <5>1
      <4> QED
        BY <2>3, <4>1, <4>2
    <3> QED
      BY <3>1, <3>2
  <2>5. Walks(rows, m + 1, h)
    <3>1. h = [s \in SUBSET (1..m + 1) |-> h[s]]
      OBVIOUS
    <3> HIDE DEF h
    <3> QED
      BY <2>4, <3>1 DEF Walks
  <2> QED
    BY <2>5
<1>3. Nat \subseteq S
  <2> HIDE DEF S
  <2> QED
    BY <1>1, <1>2, Successors
<1> QED
  BY <1>3

\* One row after the other.
LEMMA WalkValue ==
  ASSUME NEW rows, NEW n \in Nat, NEW g, Walks(rows, n, g)
  PROVE  /\ g[1..0] = Start
         /\ \A k \in 1..n : g[1..k] = VerifyRow(g[1..(k - 1)], rows[k])
<1>1. \A s \in SUBSET (1..n) :
        g[s] = IF s = {} THEN Start ELSE VerifyRow(g[s \ {Largest(s)}], rows[Largest(s)])
  BY DEF Walks
<1>2. g[1..0] = Start
  <2>1. 1..0 = {}
    OBVIOUS
  <2> QED
    BY <1>1, <2>1
<1>3. ASSUME NEW k \in 1..n PROVE g[1..k] = VerifyRow(g[1..(k - 1)], rows[k])
  <2>1. k \in Nat /\ k \in 1..k /\ 1..k \in SUBSET (1..n)
    OBVIOUS
  <2>2. Largest(1..k) = k
    BY <2>1, LastIs
  <2>3. (1..k) \ {k} = 1..(k - 1)
    OBVIOUS
  <2> QED
    BY <1>1, <2>1, <2>2, <2>3
<1> QED
  BY <1>2, <1>3

\* The result says whether the first k rows name each other, and while they do
\* the last hash is that of row k.
LEMMA WalkChecks ==
  ASSUME NEW rows, NEW n \in Nat, NEW g, Walks(rows, n, g),
         \A i \in 1..n : rows[i].hash \in Hashes,
         NEW k \in 0..n
  PROVE  g[1..k].ok <=> \A i \in 2..k : rows[i].prev = rows[i - 1].hash
<1> DEFINE Good(m) == \A i \in 2..m : rows[i].prev = rows[i - 1].hash
           Is(m) == /\ g[1..m] \in [ok : BOOLEAN, last : Hashes \cup {Genesis}]
                    /\ g[1..m].ok <=> Good(m)
                    /\ g[1..m].ok /\ m > 0 => g[1..m].last = rows[m].hash
                    /\ m = 0 => g[1..m].last = Genesis
           S == {m \in Nat : m <= n => Is(m)}
<1>1. 0 \in S
  <2>1. g[1..0] = Start
    BY WalkValue
  <2>2. Good(0)
    OBVIOUS
  <2>3. /\ g[1..0] \in [ok : BOOLEAN, last : Hashes \cup {Genesis}]
        /\ g[1..0].ok /\ g[1..0].last = Genesis
    BY <2>1 DEF Start
  <2> HIDE DEF Good
  <2>4. Is(0)
    BY <2>2, <2>3
  <2> QED
    BY <2>4
<1>2. ASSUME NEW m \in Nat, m \in S PROVE m + 1 \in S
  <2>1. SUFFICES ASSUME m + 1 <= n PROVE Is(m + 1)
    OBVIOUS
  <2>2. Is(m) /\ m + 1 \in 1..n /\ (m + 1) - 1 = m
    BY <1>2, <2>1
  <2>3. g[1..m + 1] = VerifyRow(g[1..m], rows[m + 1])
    BY <2>2, WalkValue
  <2>4. rows[m + 1].hash \in Hashes /\ (m > 0 => rows[m].hash \in Hashes)
    BY <2>1
  <2>5. Genesis \notin Hashes
    BY DEF Genesis, Hashes
  <2>6. Good(m + 1) <=> Good(m) /\ (m > 0 => rows[m + 1].prev = rows[m].hash)
    <3>1. ASSUME Good(m + 1) PROVE Good(m) /\ (m > 0 => rows[m + 1].prev = rows[m].hash)
      <4>1. m > 0 => m + 1 \in 2..m + 1
        OBVIOUS
      <4> QED
        BY <2>2, <3>1, <4>1
    <3>2. ASSUME Good(m), m > 0 => rows[m + 1].prev = rows[m].hash PROVE Good(m + 1)
      <4>1. ASSUME NEW i \in 2..m + 1 PROVE rows[i].prev = rows[i - 1].hash
        <5>1. CASE i \in 2..m
          BY <3>2, <5>1
        <5>2. CASE i = m + 1
          <6>1. m > 0
            BY <5>2
          <6> QED
            BY <2>2, <3>2, <5>2, <6>1
        <5> QED
          BY <5>1, <5>2
      <4> QED
        BY <4>1
    <3> QED
      BY <3>1, <3>2
  <2> HIDE DEF Good
  <2>7. PICK r \in [ok : BOOLEAN, last : Hashes \cup {Genesis}] : r = g[1..m]
    BY <2>2
  <2>8. PICK row : row = rows[m + 1]
    OBVIOUS
  <2>9. r.last = Genesis => m = 0 \/ ~r.ok
    BY <2>2, <2>4, <2>5, <2>7
  <2>10. CASE r.last = Genesis \/ row.prev = r.last
    <3>1. g[1..m + 1] = [r EXCEPT !.last = row.hash]
      BY <2>3, <2>7, <2>8, <2>10 DEF VerifyRow
    <3>2. /\ g[1..m + 1] \in [ok : BOOLEAN, last : Hashes \cup {Genesis}]
          /\ g[1..m + 1].ok = r.ok /\ g[1..m + 1].last = row.hash
      BY <2>4, <2>8, <3>1
    <3>3. r.ok => (Good(m + 1) <=> Good(m))
      BY <2>2, <2>6, <2>7, <2>8, <2>9, <2>10
    <3>4. ~r.ok => ~Good(m + 1)
      BY <2>2, <2>6, <2>7
    <3> QED
      BY <2>2, <2>7, <2>8, <3>2, <3>3, <3>4
  <2>11. CASE ~(r.last = Genesis \/ row.prev = r.last)
    <3>1. g[1..m + 1] = [r EXCEPT !.ok = FALSE]
      BY <2>3, <2>7, <2>8, <2>11 DEF VerifyRow
    <3>2. /\ g[1..m + 1] \in [ok : BOOLEAN, last : Hashes \cup {Genesis}]
          /\ ~g[1..m + 1].ok
      BY <3>1
    <3>3. m > 0
      BY <2>2, <2>7, <2>11
    <3>4. ~Good(m + 1)
      BY <2>2, <2>6, <2>7, <2>8, <2>11, <3>3
    <3> QED
      BY <3>2, <3>4
  <2> QED
    BY <2>10, <2>11
<1>3. k \in S
  <2>1. Nat \subseteq S
    <3> HIDE DEF S
    <3> QED
      BY <1>1, <1>2, Successors
  <2> QED
    BY <2>1
<1> QED
  BY <1>3

\* Ordered by their numbers the rows have places 0, 1, 2 and so on.
LEMMA PlacesTaken ==
  ASSUME NEW rows, rows \subseteq Rows, IsFiniteSet(rows), Numbered(rows),
         NEW i \in 1..Cardinality(rows)
  PROVE  \E r \in rows : Cardinality({q \in rows : q.seq < r.seq}) = i - 1
<1> DEFINE Below(r) == {q \in rows : q.seq < r.seq}
           f == [r \in rows |-> Cardinality(Below(r))]
<1>1. PICK n \in Nat : n = Cardinality(rows)
  BY FS_CardinalityType
<1>2. \A r \in rows : r.seq \in Nat
  BY DEF Rows
<1>3. ASSUME NEW r \in rows
      PROVE  IsFiniteSet(Below(r)) /\ Cardinality(Below(r)) \in Nat
  BY FS_Subset, FS_CardinalityType
<1>4. ASSUME NEW r \in rows PROVE Cardinality(Below(r)) \in 0..(n - 1)
  <2>1. r \notin Below(r)
    BY <1>2
  <2>2. Below(r) \in SUBSET (rows \ {r})
    BY <2>1
  <2>3. IsFiniteSet(rows \ {r}) /\ Cardinality(rows \ {r}) = n - 1
    BY <1>1, FS_RemoveElement
  <2>4. Cardinality(Below(r)) <= n - 1
    <3> HIDE DEF Below
    <3> QED
      BY <2>2, <2>3, FS_Subset
  <2> QED
    BY <1>3, <2>4
<1>5. ASSUME NEW p \in rows, NEW q \in rows, p.seq < q.seq
      PROVE  Cardinality(Below(p)) # Cardinality(Below(q))
  <2>1. p \notin Below(p)
    BY <1>2
  <2>2. Below(p) \cup {p} \in SUBSET Below(q)
    BY <1>2, <1>5
  <2>3. Cardinality(Below(p) \cup {p}) = Cardinality(Below(p)) + 1
    <3> HIDE DEF Below
    <3> QED
      BY <1>3, <2>1, FS_AddElement
  <2>4. Cardinality(Below(p) \cup {p}) <= Cardinality(Below(q))
    <3> HIDE DEF Below
    <3> QED
      BY <1>3, <2>2, FS_Subset
  <2>5. PICK a \in Nat, b \in Nat : a = Cardinality(Below(p)) /\ b = Cardinality(Below(q))
    BY <1>3
  <2> QED
    BY <2>3, <2>4, <2>5
<1>6. ASSUME NEW p \in rows, NEW q \in rows, f[p] = f[q] PROVE p = q
  <2>1. ~(p.seq < q.seq) /\ ~(q.seq < p.seq)
    BY <1>5, <1>6
  <2>2. p.seq = q.seq
    BY <1>2, <2>1
  <2> QED
    BY <2>2 DEF Numbered
<1>7. f \in Injection(rows, 0..(n - 1))
  BY <1>4, <1>6 DEF Injection, IsInjective
<1>8. IsFiniteSet(0..(n - 1)) /\ Cardinality(0..(n - 1)) = n
  BY FS_Interval
<1>9. f \in Surjection(rows, 0..(n - 1))
  <2> HIDE DEF f
  <2> QED
    BY <1>1, <1>7, <1>8, FS_Injection
<1>10. i - 1 \in 0..(n - 1)
  BY <1>1
<1>11. PICK r \in rows : f[r] = i - 1
  BY <1>9, <1>10 DEF Surjection
<1> QED
  BY <1>11

\* What the verifier reads are rows of the table.
LEMMA ReadsRows ==
  ASSUME NEW rows, rows \subseteq Rows, IsFiniteSet(rows), Numbered(rows), NEW n \in Nat
  PROVE  /\ Len(RowsRead(rows, n)) \in Nat
         /\ DOMAIN RowsRead(rows, n) = 1..Len(RowsRead(rows, n))
         /\ \A i \in 1..Len(RowsRead(rows, n)) : RowsRead(rows, n)[i] \in rows
<1>1. PICK c \in Nat : c = Cardinality(rows)
  BY FS_CardinalityType
<1>2. Min({n, c}) \in Nat /\ Min({n, c}) <= c
  <2>1. \E x \in {n, c} : \A y \in {n, c} : x <= y
    OBVIOUS
  <2>2. Min({n, c}) \in {n, c} /\ \A y \in {n, c} : Min({n, c}) <= y
    BY <2>1 DEF Min
  <2> QED
    BY <2>2
<1>3. PICK m \in Nat : m = Min({n, c}) /\ m <= c
  BY <1>2
<1> DEFINE Place(i) == CHOOSE r \in rows : Cardinality({q \in rows : q.seq < r.seq}) = i - 1
<1>4. RowsRead(rows, n) = [i \in 1..m |-> Place(i)]
  BY <1>1, <1>3 DEF RowsRead
<1>5. ASSUME NEW i \in 1..m PROVE Place(i) \in rows
  <2>1. i \in 1..Cardinality(rows)
    BY <1>1, <1>3
  <2> QED
    BY <2>1, PlacesTaken
<1> HIDE DEF Place
<1> QED
  BY <1>4, <1>5

\* The rows of the table have numbers of their own, whoever writes and whoever
\* else commits or rolls back: the number is the primary key.
VerifierInv == TypeInv /\ IsFiniteSet(table) /\ Numbered(table)

LEMMA VerifierStep ==
  ASSUME VerifierInv, [Next]_vars
  PROVE  VerifierInv'
<1>1. TypeInv'
  BY TypeStep DEF VerifierInv
<1>2. ASSUME table' \subseteq table PROVE IsFiniteSet(table') /\ Numbered(table')
  BY <1>2, FS_Subset DEF VerifierInv, Numbered
<1>3. ASSUME NEW t \in Threads, Insert(t) PROVE IsFiniteSet(table') /\ Numbered(table')
  <2>1. CASE job[t].seq \notin Seqs(table)
    <3>1. table' = table \cup {RowOf(job[t])}
      BY <1>3, <2>1 DEF Insert
    <3>2. \A r \in table : r.seq # RowOf(job[t]).seq
      BY <2>1 DEF Seqs, RowOf
    <3> QED
      BY <3>1, <3>2, FS_AddElement DEF VerifierInv, Numbered
  <2>2. CASE job[t].seq \in Seqs(table)
    BY <1>2, <1>3, <2>2 DEF Insert
  <2> QED
    BY <2>1, <2>2
<1>4. \/ \E t \in Threads : Insert(t)
      \/ table' \subseteq table
  BY DEF VerifierInv, TypeInv, CommittedIsSeen, Next, Write, Acquire, SelectLast, SelectNext,
         Commit, Emit, SaveEntry, SaveFails, Rollback, NewLogger, StoreKey, Subscribe, Rotate,
         PeriodicVerify, Crash, vars, store
<1> QED
  BY <1>1, <1>2, <1>3, <1>4 DEF VerifierInv

\* verify_integrity says "verified" exactly when the rows it reads name each
\* other in order, for any number of threads and instances, any limit and any
\* table they make: a broken row leaves previous_hash as it was, and none of
\* the rows after it can make up for it.
THEOREM VerifierTellsTruth == Spec => []VerifierExact
<1>1. Init => VerifierInv
  BY TypeInit, FS_EmptySet DEF Init, VerifierInv, Numbered
<1>2. VerifierInv => VerifierExact
  <2> SUFFICES ASSUME VerifierInv PROVE VerifierExact
    OBVIOUS
  <2>1. PICK read : read = RowsRead(table, VerifyLimit)
    OBVIOUS
  <2>2. table \subseteq Rows /\ VerifyLimit \in Nat
    BY AuditAssumption DEF VerifierInv, TypeInv, TypeOK
  <2>3. /\ Len(read) \in Nat /\ DOMAIN read = 1..Len(read)
        /\ \A i \in 1..Len(read) : read[i] \in table
    BY <2>1, <2>2, ReadsRows DEF VerifierInv
  <2>4. \A i \in 1..Len(read) : read[i].hash \in Hashes
    BY <2>2, <2>3 DEF Rows
  <2>5. Walks(read, Len(read), CHOOSE g : Walks(read, Len(read), g))
    BY <2>3, WalkExists
  <2>6. PICK g : g = (CHOOSE h : Walks(read, Len(read), h)) /\ Walks(read, Len(read), g)
    BY <2>5
  <2>7. Verified(table, VerifyLimit) = g[1..Len(read)].ok
    BY <2>1, <2>3, <2>6, FoldIsWalk DEF Verified, Start
  <2>8. g[1..Len(read)].ok <=> \A i \in 2..Len(read) : read[i].prev = read[i - 1].hash
    <3>1. Len(read) \in 0..Len(read)
      BY <2>3
    <3> QED
      BY <2>3, <2>4, <2>6, <3>1, WalkChecks
  <2> QED
    BY <2>1, <2>7, <2>8 DEF VerifierExact
<1> QED
  BY <1>1, <1>2, VerifierStep, PTL DEF Spec
===============================================================================
