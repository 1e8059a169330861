----------------------------- MODULE SharingProofs -----------------------------
(***************************************************************************)
(* What leaves the program by sharing has its record, and the record says  *)
(* of it what is true, whoever commits or rolls back meanwhile: for every  *)
(* set of entries, values and keys, and any number of shares, days and     *)
(* events.                                                                 *)
(***************************************************************************)
EXTENDS Sharing, TLAPS

Stages   == {"idle", "collect", "persist", "deliver"}
Rows     == [entry : EntryIds, full : BOOLEAN, expires : Nat]
Tables   == UNION {[S -> Rows] : S \in SUBSET Nat}
Data     == [entries : [EntryIds -> Values], shares : Tables,
             contacts : SUBSET [pem : Keys, print : Keys]]
Works    == [pc : Stages, entry : EntryIds \cup {0}, days : Nat, full : BOOLEAN, id : Nat,
             method : {"password", "public_key"}, value : Values, expires : Nat,
             orphan : BOOLEAN]
Packages == [id : Nat, entry : EntryIds, value : Values, full : BOOLEAN,
             expires : Nat, asked : Nat]

DataOK == view \in Data /\ disk \in Data /\ now \in Nat

RunOK ==
  /\ run \in [Workers -> Works]
  /\ \A w \in Workers : run[w].pc # "idle" => run[w].entry \in EntryIds
  /\ dialog \in EntryIds \cup {0}
  /\ left \in [share : Nat, event : Nat]

OutOK ==
  /\ given \in SUBSET Packages
  /\ codes \in SUBSET [package : Packages, expires : Nat]
  /\ scanned \in SUBSET Packages

TypeOK == DataOK /\ RunOK /\ OutOK

Busy(w) == run[w].pc # "idle"

\* The id of a call is new: no row and no package has it but its own.
Used(i) ==
  \/ i \in DOMAIN view.shares \cup DOMAIN disk.shares
  \/ \E w \in Workers : Busy(w) /\ run[w].id = i
  \/ \E p \in Out : p.id = i
IdsNew == \A i \in Nat : Used(i) => i > left.share

IdsOwn ==
  \A w \in Workers : Busy(w) =>
    /\ \A v \in Workers : Busy(v) /\ v # w => run[v].id # run[w].id
    /\ \A p \in Out : p.id # run[w].id
    /\ run[w].pc # "deliver" => run[w].id \notin DOMAIN view.shares \cup DOMAIN disk.shares

\* What a table says of a share, as long as it is alive there.
Agrees(d, i, r) == (i \in DOMAIN d.shares /\ d.shares[i].expires > now) => d.shares[i] = r

\* A record told of before the package leaves: kept in the transaction, or lost to it.
ToldAs(i, r) ==
  i \in DOMAIN view.shares \cup undone /\ Agrees(view, i, r) /\ Agrees(disk, i, r)
Told(p) == ToldAs(p.id, Record(p))

RecordsTold ==
  /\ \A p \in Out : Told(p)
  /\ \A w \in Workers : run[w].pc = "deliver" => Told(run[w])

\* A transaction adds rows to those of the file and lets none live longer.
DiskInView ==
  \A s \in DOMAIN disk.shares :
    /\ s \in DOMAIN view.shares
    /\ view.shares[s].expires <= disk.shares[s].expires \/ view.shares[s].expires <= now

\* A package expires within the longest time there is.
TimesBounded ==
  /\ \A w \in Workers : run[w].pc \in {"persist", "deliver"} =>
       run[w].days <= MaxDays /\ run[w].days <= run[w].expires
  /\ \A p \in Out : p.expires <= p.asked + MaxDays
  /\ scanned \subseteq {c.package : c \in codes}
  /\ ReadInTime

IInv == TypeOK /\ IdsNew /\ IdsOwn /\ RecordsTold /\ DiskInView /\ TimesBounded

-------------------------------------------------------------------------------
(* What a step is to the records: everything else about it is forgotten. *)

Keeps(w) ==
  \/ run'[w].pc = "idle"
  \/ /\ run'[w].pc = run[w].pc /\ run'[w].id = run[w].id /\ run'[w].days = run[w].days
     /\ run'[w].expires = run[w].expires /\ Record(run'[w]) = Record(run[w])
OthersKeep(w) == \A v \in Workers : v # w => Keeps(v)

SameTables == view'.shares = view.shares /\ disk'.shares = disk.shares
SameRest   == Out' = Out /\ undone' = undone /\ now' = now /\ left'.share = left.share

Quiet ==
  /\ SameTables /\ \A v \in Workers : Keeps(v)
  /\ Out' = Out /\ undone' = undone /\ now' >= now /\ left'.share = left.share

HasBegun(w) ==
  /\ ~Busy(w) /\ run'[w].pc = "collect" /\ run'[w].id = left.share /\ OthersKeep(w)
  /\ left.share > 0 /\ left'.share = left.share - 1
  /\ SameTables /\ Out' = Out /\ undone' = undone /\ now' = now

HasRead(w) ==
  /\ run[w].pc = "collect" /\ run'[w].pc = "persist" /\ run'[w].id = run[w].id
  /\ run'[w].days <= MaxDays /\ run'[w].expires = now + run'[w].days /\ OthersKeep(w)
  /\ SameTables /\ SameRest

HasPersisted(w) ==
  /\ run[w].pc = "persist" /\ run'[w].pc = "deliver" /\ run'[w].id = run[w].id
  /\ run'[w].days = run[w].days /\ run'[w].expires = run[w].expires
  /\ Record(run'[w]) = Record(run[w]) /\ OthersKeep(w)
  /\ disk'.shares = disk.shares /\ Out' = Out /\ now' = now /\ left'.share = left.share
  /\ \/ /\ view'.shares = Set(view.shares, run[w].id, Record(run[w]))
        /\ undone' = undone
     \/ view'.shares = view.shares /\ undone' = undone \cup {run[w].id}

HasDelivered(w) ==
  /\ run[w].pc = "deliver" /\ run'[w].pc = "idle" /\ OthersKeep(w)
  /\ \A p \in Out' : p \in Out \/ p = Package(run[w])
  /\ SameTables /\ undone' = undone /\ now' = now /\ left'.share = left.share

HasRevoked(s) ==
  /\ view'.shares = Revoked(view.shares, s) /\ disk'.shares = disk.shares
  /\ (\A v \in Workers : Keeps(v)) /\ SameRest

HasCommitted ==
  /\ disk'.shares = view.shares /\ view'.shares = view.shares
  /\ (\A v \in Workers : Keeps(v)) /\ SameRest

HasRolledBack ==
  /\ view'.shares = disk.shares /\ disk'.shares = disk.shares /\ TakenBack
  /\ \A v \in Workers : Keeps(v)
  /\ Out' = Out /\ now' = now /\ left'.share = left.share

Effect ==
  \/ Quiet \/ HasCommitted \/ HasRolledBack \/ \E s \in listed : HasRevoked(s)
  \/ \E w \in Workers :
       HasBegun(w) \/ HasRead(w) \/ HasPersisted(w) \/ HasDelivered(w)

\* A table is a function on the ids it has.
LEMMA TableDomain ==
  ASSUME NEW f \in Tables
  PROVE  /\ DOMAIN f \in SUBSET Nat
         /\ f \in [DOMAIN f -> Rows]
         /\ \A i \in DOMAIN f : f[i] \in Rows /\ f[i].expires \in Nat
BY DEF Tables, Rows

\* A record is added, or takes the place of the one with its id.
LEMMA SetTable ==
  ASSUME NEW f \in Tables, NEW i \in Nat, NEW r \in Rows
  PROVE  /\ Set(f, i, r) \in Tables
         /\ DOMAIN Set(f, i, r) = DOMAIN f \cup {i}
         /\ \A j \in DOMAIN f \cup {i} : Set(f, i, r)[j] = IF j = i THEN r ELSE f[j]
<1>1. f \in [DOMAIN f -> Rows] /\ DOMAIN f \in SUBSET Nat
  BY TableDomain
<1>2. Set(f, i, r) \in [DOMAIN f \cup {i} -> Rows]
  BY <1>1 DEF Set
<1>3. DOMAIN f \cup {i} \in SUBSET Nat
  BY <1>1
<1> QED
  BY <1>2, <1>3 DEF Set, Tables

\* A revocation changes the day of one record and no other thing.
LEMMA RevokedTable ==
  ASSUME NEW f \in Tables, NEW s, now \in Nat
  PROVE  /\ Revoked(f, s) \in Tables
         /\ DOMAIN Revoked(f, s) = DOMAIN f
         /\ \A j \in DOMAIN f : j # s => Revoked(f, s)[j] = f[j]
         /\ s \in DOMAIN f => Revoked(f, s)[s].expires = now
<1>1. f \in [DOMAIN f -> Rows] /\ DOMAIN f \in SUBSET Nat
  BY TableDomain
<1>2. CASE s \in DOMAIN f
  <2>1. [f[s] EXCEPT !.expires = now] \in Rows
        /\ [f[s] EXCEPT !.expires = now].expires = now
    BY <1>1, <1>2 DEF Rows
  <2>2. Revoked(f, s) = [f EXCEPT ![s] = [f[s] EXCEPT !.expires = now]]
    BY <1>2 DEF Revoked
  <2>3. Revoked(f, s) \in [DOMAIN f -> Rows]
    BY <1>1, <2>1, <2>2
  <2> QED
    BY <1>1, <1>2, <2>1, <2>2, <2>3 DEF Tables
<1>3. CASE s \notin DOMAIN f
  BY <1>1, <1>3 DEF Revoked, Tables
<1> QED
  BY <1>2, <1>3

\* The rows of a table change and nothing else of the data.
LEMMA DataWith ==
  ASSUME NEW d \in Data, NEW f \in Tables
  PROVE  [d EXCEPT !.shares = f] \in Data /\ [d EXCEPT !.shares = f].shares = f
BY DEF Data

LEMMA IdleWork == Idle \in Works /\ Idle.pc = "idle"
BY SharingAssumption DEF Idle, Works, Stages

\* A package says what the thread has read.
LEMMA PackageOf ==
  ASSUME NEW r \in Works, r.entry \in EntryIds, r.days <= r.expires
  PROVE  /\ Package(r) \in Packages /\ Package(r).id = r.id
         /\ Package(r).expires = r.expires /\ Package(r).asked = r.expires - r.days
         /\ Record(Package(r)) = Record(r)
BY DEF Package, Packages, Works, Record

\* A call begins in one thread, with an id of its own.
LEMMA BeginsWork ==
  ASSUME RunOK, NEW w \in Workers, NEW e \in EntryIds, NEW d \in Nat, NEW full \in BOOLEAN,
         NEW method \in {"password", "public_key"}, Begins(w, e, d, full, method)
  PROVE  /\ run' \in [Workers -> Works] /\ left' \in [share : Nat, event : Nat]
         /\ ~Busy(w) /\ left.share > 0 /\ left'.share = left.share - 1
         /\ run'[w].pc = "collect" /\ run'[w].id = left.share /\ run'[w].entry = e
         /\ \A v \in Workers : v # w => run'[v] = run[v]
<1>1. [Idle EXCEPT !.pc = "collect", !.method = method, !.entry = e, !.days = d,
                   !.full = full, !.id = left.share] \in Works
  BY IdleWork DEF RunOK, Works, Stages
<1>2. left' \in [share : Nat, event : Nat] /\ left'.share = left.share - 1 /\ left.share > 0
  BY DEF RunOK, Begins
<1>3. ~Busy(w)
  BY DEF Begins, Busy
<1> DEFINE r == [Idle EXCEPT !.pc = "collect", !.method = method, !.entry = e, !.days = d,
                             !.full = full, !.id = left.share]
<1>4. r.pc = "collect" /\ r.id = left.share /\ r.entry = e
  BY DEF Idle
<1>5. run' = [run EXCEPT ![w] = r]
  BY DEF Begins
<1>6. r \in Works
  BY <1>1
<1> QED
  BY <1>2, <1>3, <1>4, <1>5, <1>6 DEF RunOK

\* The rows keep their types.
LEMMA DataStep ==
  ASSUME DataOK, RunOK, [Next]_vars
  PROVE  DataOK'
<1>1. ASSUME NEW w \in Workers, Collects(w) PROVE DataOK'
  BY <1>1 DEF DataOK, Idle, DaysAllowed, Collects
<1>2. ASSUME NEW w \in Workers, Persists(w) PROVE DataOK'
  <2>1. run[w].id \in Nat /\ Record(run[w]) \in Rows
    BY <1>2 DEF RunOK, Works, Rows, Record, Persists
  <2>2. view.shares \in Tables
    BY DEF DataOK, Data
  <2>3. [view EXCEPT !.shares = Set(view.shares, run[w].id, Record(run[w]))] \in Data
    BY <2>1, <2>2, SetTable, DataWith DEF DataOK
  <2> QED
    BY <1>2, <2>3 DEF DataOK, Persists, Write
<1>3. ASSUME NEW w \in Workers, DeliversNothing(w) PROVE DataOK'
  BY <1>3 DEF DataOK, Returns, Idle, DeliversNothing
<1>4. CASE AsksShare
  BY <1>4 DEF DataOK, Begins, Idle, AsksShare
<1>5. CASE AsksQr
  BY <1>5 DEF DataOK, Begins, Idle, AsksQr
<1>6. CASE Calls
  BY <1>6 DEF DataOK, Begins, Idle, Calls
<1>7. CASE DeliversFile
  BY <1>7 DEF DataOK, Returns, Idle, Package, Event, DeliversFile
<1>8. CASE DeliversCode
  BY <1>8 DEF DataOK, Returns, Idle, Package, DeliversCode
<1>9. CASE DeliversResult
  BY <1>9 DEF DataOK, Returns, Idle, Package, DeliversResult
<1>10. CASE Opens
  BY <1>10 DEF DataOK, Opens
<1>11. CASE Closes
  BY <1>11 DEF DataOK, Event, Closes
<1>12. CASE Revokes
  BY <1>12, DataWith, RevokedTable DEF DataOK, Write, Data, Revokes
<1>13. CASE Scans
  BY <1>13 DEF DataOK, Scans
<1>14. CASE Imports
  BY <1>14 DEF DataOK, Imports
<1>15. CASE Contact
  BY <1>15 DEF DataOK, Write, Event, Rotated, Data, Contact
<1>16. CASE Edits
  BY <1>16 DEF DataOK, Write, Event, Data, Edits
<1>17. CASE Commits
  BY <1>17 DEF DataOK, Commit, Commits
<1>18. CASE RollsBack
  BY <1>18 DEF DataOK, Rollback, TakenBack, Event, RollsBack
<1>19. CASE OtherCommits
  BY <1>19 DEF DataOK, Commit, Event, OtherCommits
<1>20. CASE Locks
  BY <1>20 DEF DataOK, Event, Locks
<1>21. CASE Unlocks
  BY <1>21 DEF DataOK, Unlocks
<1>22. CASE Ends
  BY <1>22 DEF DataOK, Reopen, Rollback, TakenBack, Event, Idle, Ends
<1>23. CASE Tick
  BY <1>23 DEF DataOK, Tick
<1>24. CASE UNCHANGED vars
  BY <1>24 DEF DataOK, vars
<1> QED
  BY <1>1, <1>2, <1>3, <1>4, <1>5, <1>6, <1>7, <1>8, <1>9, <1>10, <1>11, <1>12, <1>13,
     <1>14, <1>15, <1>16, <1>17, <1>18, <1>19, <1>20, <1>21, <1>22, <1>23, <1>24 DEF
     Next, WorkerStep

\* The threads keep their types.
LEMMA RunStep ==
  ASSUME DataOK, RunOK, [Next]_vars
  PROVE  RunOK'
<1>1. ASSUME NEW w \in Workers, Collects(w) PROVE RunOK'
  <2> DEFINE r == [run[w] EXCEPT !.pc = "persist", !.value = view.entries[run[w].entry],
                                 !.expires = now + run[w].days]
  <2>1. run' = [run EXCEPT ![w] = Idle] \/ run' = [run EXCEPT ![w] = r]
    BY <1>1 DEF Collects
  <2>2. run[w] \in Works /\ run[w].entry \in EntryIds
    BY <1>1 DEF RunOK, Collects
  <2>3. view.entries[run[w].entry] \in Values /\ now + run[w].days \in Nat
    BY <2>2 DEF DataOK, Data, Works
  <2>4. r \in Works /\ r.entry = run[w].entry
    BY <2>2, <2>3 DEF Works, Stages
  <2>5. dialog' = dialog /\ left' = left
    BY <1>1 DEF Collects
  <2> HIDE DEF r
  <2> QED
    BY <2>1, <2>2, <2>4, <2>5, IdleWork DEF RunOK
<1>2. ASSUME NEW w \in Workers, Persists(w) PROVE RunOK'
  BY <1>2, IdleWork DEF RunOK, Write, Record, Works, Stages, Persists
<1>3. ASSUME NEW w \in Workers, DeliversNothing(w) PROVE RunOK'
  BY <1>3, IdleWork DEF RunOK, Returns, DeliversNothing
<1>4. CASE AsksShare
  <2>1. PICK e \in EntryIds, d \in Nat, full \in BOOLEAN,
             method \in {"password", "public_key"} : Begins("create", e, d, full, method)
    BY <1>4, SharingAssumption DEF RunOK, AsksShare
  <2>2. "create" \in Workers
    BY DEF Workers
  <2>3. /\ run' \in [Workers -> Works] /\ left' \in [share : Nat, event : Nat]
        /\ run'["create"].entry \in EntryIds
        /\ \A v \in Workers : v # "create" => run'[v] = run[v]
    BY <2>1, <2>2, BeginsWork
  <2>4. dialog' = dialog
    BY <2>1 DEF Begins
  <2> QED
    BY <2>3, <2>4 DEF RunOK
<1>5. CASE AsksQr
  <2>1. PICK e \in EntryIds, d \in Nat, full \in BOOLEAN,
             method \in {"password", "public_key"} : Begins("qr", e, d, full, method)
    BY <1>5, SharingAssumption DEF RunOK, AsksQr
  <2>2. "qr" \in Workers
    BY DEF Workers
  <2>3. /\ run' \in [Workers -> Works] /\ left' \in [share : Nat, event : Nat]
        /\ run'["qr"].entry \in EntryIds
        /\ \A v \in Workers : v # "qr" => run'[v] = run[v]
    BY <2>1, <2>2, BeginsWork
  <2>4. dialog' = dialog
    BY <2>1 DEF Begins
  <2> QED
    BY <2>3, <2>4 DEF RunOK
<1>6. CASE Calls
  <2>1. PICK e \in EntryIds, d \in Nat, full \in BOOLEAN,
             method \in {"password", "public_key"} : Begins("call", e, d, full, method)
    BY <1>6, SharingAssumption DEF RunOK, Calls
  <2>2. "call" \in Workers
    BY DEF Workers
  <2>3. /\ run' \in [Workers -> Works] /\ left' \in [share : Nat, event : Nat]
        /\ run'["call"].entry \in EntryIds
        /\ \A v \in Workers : v # "call" => run'[v] = run[v]
    BY <2>1, <2>2, BeginsWork
  <2>4. dialog' = dialog
    BY <2>1 DEF Begins
  <2> QED
    BY <2>3, <2>4 DEF RunOK
<1>7. CASE DeliversFile
  BY <1>7, IdleWork DEF RunOK, Returns, Package, Event, DeliversFile
<1>8. CASE DeliversCode
  BY <1>8, IdleWork DEF RunOK, Returns, Package, DeliversCode
<1>9. CASE DeliversResult
  BY <1>9, IdleWork DEF RunOK, Returns, Package, DeliversResult
<1>10. CASE Opens
  BY <1>10, IdleWork DEF RunOK, Opens
<1>11. CASE Closes
  <2>1. ASSUME NEW w \in Workers
        PROVE  run'[w] \in Works /\ run'[w].pc = run[w].pc /\ run'[w].entry = run[w].entry
    BY <1>11 DEF RunOK, Works, Closes
  <2>2. run' \in [Workers -> Works]
    BY <1>11, <2>1 DEF Closes
  <2> QED
    BY <1>11, <2>1, <2>2 DEF RunOK, Event, Closes
<1>12. CASE Revokes
  BY <1>12, IdleWork DEF RunOK, Write, Revokes
<1>13. CASE Scans
  BY <1>13, IdleWork DEF RunOK, Scans
<1>14. CASE Imports
  BY <1>14, IdleWork DEF RunOK, Imports
<1>15. CASE Contact
  BY <1>15, IdleWork DEF RunOK, Write, Event, Rotated, Contact
<1>16. CASE Edits
  BY <1>16, IdleWork DEF RunOK, Write, Event, Edits
<1>17. CASE Commits
  BY <1>17, IdleWork DEF RunOK, Commit, Commits
<1>18. CASE RollsBack
  BY <1>18, IdleWork DEF RunOK, Rollback, TakenBack, Event, RollsBack
<1>19. CASE OtherCommits
  BY <1>19, IdleWork DEF RunOK, Commit, Event, OtherCommits
<1>20. CASE Locks
  BY <1>20, IdleWork DEF RunOK, Event, Locks
<1>21. CASE Unlocks
  BY <1>21, IdleWork DEF RunOK, Unlocks
<1>22. CASE Ends
  BY <1>22, IdleWork DEF RunOK, Reopen, Rollback, TakenBack, Event, Ends
<1>23. CASE Tick
  BY <1>23, IdleWork DEF RunOK, Tick
<1>24. CASE UNCHANGED vars
  BY <1>24, IdleWork DEF RunOK, vars
<1> QED
  BY <1>1, <1>2, <1>3, <1>4, <1>5, <1>6, <1>7, <1>8, <1>9, <1>10, <1>11, <1>12, <1>13,
     <1>14, <1>15, <1>16, <1>17, <1>18, <1>19, <1>20, <1>21, <1>22, <1>23, <1>24 DEF
     Next, WorkerStep

\* The packages keep their types.
LEMMA OutStep ==
  ASSUME DataOK, RunOK, OutOK, TimesBounded, [Next]_vars
  PROVE  OutOK'
<1>1. ASSUME NEW w \in Workers, Collects(w) PROVE OutOK'
  BY <1>1 DEF OutOK, Idle, DaysAllowed, Collects
<1>2. ASSUME NEW w \in Workers, Persists(w) PROVE OutOK'
  BY <1>2 DEF OutOK, Write, Record, Persists
<1>3. ASSUME NEW w \in Workers, DeliversNothing(w) PROVE OutOK'
  BY <1>3 DEF OutOK, Returns, Idle, DeliversNothing
<1>4. CASE AsksShare
  BY <1>4 DEF OutOK, Begins, Idle, AsksShare
<1>5. CASE AsksQr
  BY <1>5 DEF OutOK, Begins, Idle, AsksQr
<1>6. CASE Calls
  BY <1>6 DEF OutOK, Begins, Idle, Calls
<1>7. CASE DeliversFile
  BY <1>7, PackageOf DEF OutOK, Returns, Event, RunOK, TimesBounded, DataOK, Workers,
     DeliversFile
<1>8. CASE DeliversCode
  BY <1>8, PackageOf DEF OutOK, Returns, RunOK, TimesBounded, DataOK, Workers,
     DeliversCode
<1>9. CASE DeliversResult
  BY <1>9, PackageOf DEF OutOK, Returns, RunOK, TimesBounded, DataOK, Workers,
     DeliversResult
<1>10. CASE Opens
  BY <1>10 DEF OutOK, Opens
<1>11. CASE Closes
  BY <1>11 DEF OutOK, Event, Closes
<1>12. CASE Revokes
  BY <1>12 DEF OutOK, Write, Revokes
<1>13. CASE Scans
  BY <1>13 DEF OutOK, Scans
<1>14. CASE Imports
  BY <1>14 DEF OutOK, Imports
<1>15. CASE Contact
  BY <1>15 DEF OutOK, Write, Event, Rotated, Contact
<1>16. CASE Edits
  BY <1>16 DEF OutOK, Write, Event, Edits
<1>17. CASE Commits
  BY <1>17 DEF OutOK, Commit, Commits
<1>18. CASE RollsBack
  BY <1>18 DEF OutOK, Rollback, TakenBack, Event, RollsBack
<1>19. CASE OtherCommits
  BY <1>19 DEF OutOK, Commit, Event, OtherCommits
<1>20. CASE Locks
  BY <1>20 DEF OutOK, Event, Locks
<1>21. CASE Unlocks
  BY <1>21 DEF OutOK, Unlocks
<1>22. CASE Ends
  BY <1>22 DEF OutOK, Reopen, Rollback, TakenBack, Event, Idle, Ends
<1>23. CASE Tick
  BY <1>23 DEF OutOK, Tick
<1>24. CASE UNCHANGED vars
  BY <1>24 DEF OutOK, vars
<1> QED
  BY <1>1, <1>2, <1>3, <1>4, <1>5, <1>6, <1>7, <1>8, <1>9, <1>10, <1>11, <1>12, <1>13,
     <1>14, <1>15, <1>16, <1>17, <1>18, <1>19, <1>20, <1>21, <1>22, <1>23, <1>24 DEF
     Next, WorkerStep

\* Every step is one of these to the records.
LEMMA StepEffect ==
  ASSUME TypeOK, [Next]_vars
  PROVE  Effect
<1>1. ASSUME NEW w \in Workers, Collects(w) PROVE Effect
  <2> DEFINE r == [run[w] EXCEPT !.pc = "persist", !.value = view.entries[run[w].entry],
                                 !.expires = now + run[w].days]
  <2>1. CASE run' = [run EXCEPT ![w] = Idle]
    BY <1>1, <2>1, IdleWork DEF TypeOK, RunOK, Effect, Quiet, Keeps, SameTables, Out, Collects,
       DataOK
  <2>2. CASE run' = [run EXCEPT ![w] = r] /\ DaysAllowed(run[w].days)
    <3>1. /\ r.pc = "persist" /\ r.id = run[w].id /\ r.days = run[w].days
          /\ r.expires = now + run[w].days
      BY <1>1 DEF TypeOK, RunOK, Works, Stages
    <3>2. run'[w] = r /\ OthersKeep(w)
      BY <1>1, <2>2 DEF TypeOK, RunOK, OthersKeep, Keeps
    <3>3. r.days <= MaxDays
      BY <1>1, <2>2, <3>1, SharingAssumption DEF DaysAllowed, TypeOK, RunOK, Works
    <3>4. SameTables /\ SameRest /\ run[w].pc = "collect"
      BY <1>1 DEF Collects, SameTables, SameRest, Out
    <3> HIDE DEF r
    <3> QED
      BY <1>1, <3>1, <3>2, <3>3, <3>4 DEF Effect, HasRead
  <2> QED
    BY <1>1, <2>1, <2>2 DEF Collects
<1>2. ASSUME NEW w \in Workers, Persists(w) PROVE Effect
  <2>1. /\ run[w].pc = "persist" /\ run'[w].pc = "deliver" /\ run'[w].id = run[w].id
        /\ run'[w].days = run[w].days /\ run'[w].expires = run[w].expires
        /\ Record(run'[w]) = Record(run[w]) /\ OthersKeep(w)
    BY <1>2 DEF TypeOK, RunOK, Works, Stages, Record, OthersKeep, Keeps, Persists
  <2>2. /\ disk'.shares = disk.shares /\ Out' = Out /\ now' = now /\ left'.share = left.share
    BY <1>2 DEF Persists, Write, Out
  <2>3. \/ /\ view'.shares = Set(view.shares, run[w].id, Record(run[w]))
           /\ undone' = undone
        \/ view'.shares = view.shares /\ undone' = undone \cup {run[w].id}
    BY <1>2 DEF TypeOK, DataOK, Data, Persists, Write
  <2> QED
    BY <1>2, <2>1, <2>2, <2>3 DEF Effect, HasPersisted
<1>3. ASSUME NEW w \in Workers, DeliversNothing(w) PROVE Effect
  BY <1>3, IdleWork DEF Effect, Quiet, Keeps, OthersKeep, SameTables, SameRest, Out,
     Returns, TypeOK, RunOK, DataOK, DeliversNothing
<1>4. CASE AsksShare
  <2>1. PICK e \in EntryIds, d \in Nat, full \in BOOLEAN,
             method \in {"password", "public_key"} : Begins("create", e, d, full, method)
    BY <1>4, SharingAssumption DEF TypeOK, RunOK, AsksShare
  <2>2. "create" \in Workers
    BY DEF Workers
  <2>3. /\ ~Busy("create") /\ left.share > 0 /\ left'.share = left.share - 1
        /\ run'["create"].pc = "collect" /\ run'["create"].id = left.share
        /\ \A v \in Workers : v # "create" => run'[v] = run[v]
    BY <2>1, <2>2, BeginsWork DEF TypeOK
  <2>4. SameTables /\ Out' = Out /\ undone' = undone /\ now' = now
    BY <2>1 DEF Begins, SameTables, Out
  <2> QED
    BY <2>2, <2>3, <2>4 DEF Effect, HasBegun, OthersKeep, Keeps
<1>5. CASE AsksQr
  <2>1. PICK e \in EntryIds, d \in Nat, full \in BOOLEAN,
             method \in {"password", "public_key"} : Begins("qr", e, d, full, method)
    BY <1>5, SharingAssumption DEF TypeOK, RunOK, AsksQr
  <2>2. "qr" \in Workers
    BY DEF Workers
  <2>3. /\ ~Busy("qr") /\ left.share > 0 /\ left'.share = left.share - 1
        /\ run'["qr"].pc = "collect" /\ run'["qr"].id = left.share
        /\ \A v \in Workers : v # "qr" => run'[v] = run[v]
    BY <2>1, <2>2, BeginsWork DEF TypeOK
  <2>4. SameTables /\ Out' = Out /\ undone' = undone /\ now' = now
    BY <2>1 DEF Begins, SameTables, Out
  <2> QED
    BY <2>2, <2>3, <2>4 DEF Effect, HasBegun, OthersKeep, Keeps
<1>6. CASE Calls
  <2>1. PICK e \in EntryIds, d \in Nat, full \in BOOLEAN,
             method \in {"password", "public_key"} : Begins("call", e, d, full, method)
    BY <1>6, SharingAssumption DEF TypeOK, RunOK, Calls
  <2>2. "call" \in Workers
    BY DEF Workers
  <2>3. /\ ~Busy("call") /\ left.share > 0 /\ left'.share = left.share - 1
        /\ run'["call"].pc = "collect" /\ run'["call"].id = left.share
        /\ \A v \in Workers : v # "call" => run'[v] = run[v]
    BY <2>1, <2>2, BeginsWork DEF TypeOK
  <2>4. SameTables /\ Out' = Out /\ undone' = undone /\ now' = now
    BY <2>1 DEF Begins, SameTables, Out
  <2> QED
    BY <2>2, <2>3, <2>4 DEF Effect, HasBegun, OthersKeep, Keeps
<1>7. CASE DeliversFile
  <2>1. run["create"].pc = "deliver" /\ "create" \in Workers
        /\ \A p \in Out' : p \in Out \/ p = Package(run["create"])
    BY <1>7 DEF Returns, Out, DeliversFile, Workers
  <2>2. run'["create"].pc = "idle" /\ OthersKeep("create")
    BY <1>7, <2>1, IdleWork DEF TypeOK, RunOK, Returns, OthersKeep, Keeps, DeliversFile
  <2> QED
    BY <1>7, <2>1, <2>2 DEF Effect, HasDelivered, SameTables, Returns, DeliversFile
<1>8. CASE DeliversCode
  <2>1. run["qr"].pc = "deliver" /\ "qr" \in Workers
        /\ \A p \in Out' : p \in Out \/ p = Package(run["qr"])
    BY <1>8 DEF Returns, Out, DeliversCode, Workers
  <2>2. run'["qr"].pc = "idle" /\ OthersKeep("qr")
    BY <1>8, <2>1, IdleWork DEF TypeOK, RunOK, Returns, OthersKeep, Keeps, DeliversCode
  <2> QED
    BY <1>8, <2>1, <2>2 DEF Effect, HasDelivered, SameTables, Returns, DeliversCode
<1>9. CASE DeliversResult
  <2>1. run["call"].pc = "deliver" /\ "call" \in Workers
        /\ \A p \in Out' : p \in Out \/ p = Package(run["call"])
    BY <1>9 DEF Returns, Out, DeliversResult, Workers
  <2>2. run'["call"].pc = "idle" /\ OthersKeep("call")
    BY <1>9, <2>1, IdleWork DEF TypeOK, RunOK, Returns, OthersKeep, Keeps, DeliversResult
  <2> QED
    BY <1>9, <2>1, <2>2 DEF Effect, HasDelivered, SameTables, Returns, DeliversResult
<1>10. CASE Opens
  BY <1>10 DEF Effect, Quiet, Keeps, OthersKeep, SameTables, SameRest, Out, TypeOK,
     DataOK, Opens
<1>11. CASE Closes
  <2>1. ASSUME NEW w \in Workers
        PROVE  Keeps(w)
    BY <1>11 DEF TypeOK, RunOK, Works, Record, Keeps, Closes
  <2> QED
    BY <1>11, <2>1 DEF TypeOK, RunOK, DataOK, Effect, Quiet, SameTables, Out, Event, Closes
<1>12. CASE Revokes
  BY <1>12 DEF Effect, Quiet, Keeps, OthersKeep, SameTables, SameRest, Out, Write,
     TypeOK, DataOK, Data, HasRevoked, Revokes
<1>13. CASE Scans
  BY <1>13 DEF Effect, Quiet, Keeps, OthersKeep, SameTables, SameRest, Out, TypeOK,
     DataOK, Scans
<1>14. CASE Imports
  BY <1>14 DEF Effect, Quiet, Keeps, OthersKeep, SameTables, SameRest, Out, TypeOK,
     DataOK, Imports
<1>15. CASE Contact
  BY <1>15 DEF Effect, Quiet, Keeps, OthersKeep, SameTables, SameRest, Out, Write,
     Event, Rotated, TypeOK, DataOK, RunOK, Data, Contact
<1>16. CASE Edits
  BY <1>16 DEF Effect, Quiet, Keeps, OthersKeep, SameTables, SameRest, Out, Write,
     Event, TypeOK, DataOK, RunOK, Data, Edits
<1>17. CASE Commits
  BY <1>17 DEF Effect, Quiet, Keeps, OthersKeep, SameTables, SameRest, Out, Commit,
     HasCommitted, Commits
<1>18. CASE RollsBack
  BY <1>18 DEF Effect, Quiet, Keeps, OthersKeep, SameTables, SameRest, Out, Rollback,
     TakenBack, Event, HasRolledBack, TypeOK, RunOK, RollsBack
<1>19. CASE OtherCommits
  BY <1>19 DEF Effect, Quiet, Keeps, OthersKeep, SameTables, SameRest, Out, Commit,
     Event, HasCommitted, TypeOK, RunOK, OtherCommits
<1>20. CASE Locks
  BY <1>20 DEF Effect, Quiet, Keeps, OthersKeep, SameTables, SameRest, Out, Event,
     TypeOK, DataOK, RunOK, Locks
<1>21. CASE Unlocks
  BY <1>21 DEF Effect, Quiet, Keeps, OthersKeep, SameTables, SameRest, Out, TypeOK,
     DataOK, Unlocks
<1>22. CASE Ends
  BY <1>22, IdleWork DEF Effect, Quiet, Keeps, OthersKeep, SameTables, SameRest, Out,
     Reopen, Rollback, TakenBack, Event, HasRolledBack, TypeOK, RunOK, Ends
<1>23. CASE Tick
  BY <1>23 DEF Effect, Quiet, Keeps, OthersKeep, SameTables, SameRest, Out, TypeOK,
     DataOK, Tick
<1>24. CASE UNCHANGED vars
  BY <1>24 DEF Effect, Quiet, Keeps, OthersKeep, SameTables, SameRest, Out, TypeOK,
     DataOK, vars
<1> QED
  BY <1>1, <1>2, <1>3, <1>4, <1>5, <1>6, <1>7, <1>8, <1>9, <1>10, <1>11, <1>12, <1>13,
     <1>14, <1>15, <1>16, <1>17, <1>18, <1>19, <1>20, <1>21, <1>22, <1>23, <1>24 DEF
     Next, WorkerStep

\* What the tables and the threads hold, for the lemmas above.
LEMMA Held ==
  ASSUME TypeOK
  PROVE  /\ view.shares \in Tables /\ disk.shares \in Tables /\ now \in Nat
         /\ left.share \in Nat
         /\ \A w \in Workers : /\ run[w] \in Works /\ run[w].id \in Nat
                               /\ run[w].days \in Nat /\ run[w].expires \in Nat
                               /\ Record(run[w]) \in Rows \/ ~Busy(w)
                               /\ Busy(w) => run[w].entry \in EntryIds
         /\ \A p \in Out : p \in Packages /\ p.id \in Nat
BY DEF TypeOK, DataOK, RunOK, OutOK, Data, Works, Rows, Record, Busy, Out, Packages

\* What the INSERT makes of the table.
LEMMA SharesPersisted ==
  ASSUME TypeOK, NEW w \in Workers, HasPersisted(w)
  PROVE  /\ DOMAIN view'.shares \subseteq DOMAIN view.shares \cup {run[w].id}
         /\ DOMAIN view.shares \subseteq DOMAIN view'.shares
         /\ \A j \in DOMAIN view.shares : j # run[w].id => view'.shares[j] = view.shares[j]
         /\ view'.shares = Set(view.shares, run[w].id, Record(run[w])) =>
              /\ run[w].id \in DOMAIN view'.shares
              /\ view'.shares[run[w].id] = Record(run[w])
<1> DEFINE f == view.shares
           i == run[w].id
           r == Record(run[w])
<1>1. f \in Tables /\ i \in Nat /\ r \in Rows
  BY Held DEF HasPersisted, Busy
<1>2. view'.shares = Set(f, i, r) \/ view'.shares = f
  BY DEF HasPersisted
<1> HIDE DEF f, i, r
<1>3. /\ DOMAIN Set(f, i, r) = DOMAIN f \cup {i}
      /\ \A j \in DOMAIN f \cup {i} : Set(f, i, r)[j] = IF j = i THEN r ELSE f[j]
  BY <1>1, SetTable
<1>4. /\ DOMAIN view'.shares \subseteq DOMAIN f \cup {i}
      /\ DOMAIN f \subseteq DOMAIN view'.shares
      /\ \A j \in DOMAIN f : j # i => view'.shares[j] = f[j]
      /\ view'.shares = Set(f, i, r) => i \in DOMAIN view'.shares /\ view'.shares[i] = r
  BY <1>2, <1>3
<1> QED
  BY <1>4 DEF f, i, r

\* What a revocation makes of the table.
LEMMA SharesRevoked ==
  ASSUME TypeOK, NEW s, HasRevoked(s)
  PROVE  /\ DOMAIN view'.shares = DOMAIN view.shares
         /\ \A j \in DOMAIN view.shares : j # s => view'.shares[j] = view.shares[j]
         /\ s \in DOMAIN view.shares => view'.shares[s].expires = now
<1> DEFINE f == view.shares
<1>1. f \in Tables /\ now \in Nat /\ view'.shares = Revoked(f, s)
  BY Held DEF HasRevoked
<1>2. \A j \in DOMAIN f : j # s => Revoked(f, s)[j] = f[j]
  BY <1>1, RevokedTable
<1>3. /\ DOMAIN Revoked(f, s) = DOMAIN f
      /\ s \in DOMAIN f => Revoked(f, s)[s].expires = now
  BY <1>1, RevokedTable
<1> QED
  BY <1>1, <1>2, <1>3

\* Who has an id after a step had it before, or begins with the next one.
LEMMA IdsNewStep ==
  ASSUME TypeOK, TypeOK', TimesBounded, IdsNew, Effect
  PROVE  IdsNew'
<1> USE DEF Keeps, OthersKeep, SameTables, SameRest, Busy, IdsNew, Used
<1>1. CASE Quiet
  BY <1>1, Held DEF Quiet
<1>2. CASE HasCommitted
  BY <1>2, Held DEF HasCommitted
<1>3. CASE HasRolledBack
  BY <1>3, Held DEF HasRolledBack
<1>4. ASSUME NEW s, HasRevoked(s) PROVE IdsNew'
  BY <1>4, Held, SharesRevoked DEF HasRevoked
<1>5. ASSUME NEW w \in Workers, HasBegun(w) PROVE IdsNew'
  BY <1>5, Held DEF HasBegun
<1>6. ASSUME NEW w \in Workers, HasRead(w) PROVE IdsNew'
  BY <1>6, Held DEF HasRead
<1>7. ASSUME NEW w \in Workers, HasPersisted(w) PROVE IdsNew'
  <2>1. DOMAIN view'.shares \subseteq DOMAIN view.shares \cup {run[w].id}
    BY <1>7, SharesPersisted
  <2> QED
    BY <1>7, <2>1, Held DEF HasPersisted
<1>8. ASSUME NEW w \in Workers, HasDelivered(w) PROVE IdsNew'
  <2>1. Package(run[w]).id = run[w].id
    BY DEF Package
  <2> QED
    BY <1>8, <2>1, Held DEF HasDelivered
<1> QED
  BY <1>1, <1>2, <1>3, <1>4, <1>5, <1>6, <1>7, <1>8 DEF Effect

\* A call has its id for itself until its package leaves.
LEMMA IdsOwnStep ==
  ASSUME TypeOK, TypeOK', IdsNew, IdsOwn, Effect
  PROVE  IdsOwn'
<1> USE DEF Keeps, OthersKeep, SameTables, SameRest, Busy, IdsOwn
<1>1. CASE Quiet
  BY <1>1, Held DEF Quiet
<1>2. CASE HasCommitted
  BY <1>2, Held DEF HasCommitted
<1>3. CASE HasRolledBack
  BY <1>3, Held DEF HasRolledBack
<1>4. ASSUME NEW s, HasRevoked(s) PROVE IdsOwn'
  BY <1>4, Held, SharesRevoked DEF HasRevoked
<1>5. ASSUME NEW w \in Workers, HasBegun(w) PROVE IdsOwn'
  <2>1. ~Used(left.share)
    BY Held DEF IdsNew
  <2> QED
    BY <1>5, <2>1, Held DEF HasBegun, Used
<1>6. ASSUME NEW w \in Workers, HasRead(w) PROVE IdsOwn'
  BY <1>6, Held DEF HasRead
<1>7. ASSUME NEW w \in Workers, HasPersisted(w) PROVE IdsOwn'
  <2>1. DOMAIN view'.shares \subseteq DOMAIN view.shares \cup {run[w].id}
    BY <1>7, SharesPersisted
  <2> QED
    BY <1>7, <2>1, Held DEF HasPersisted
<1>8. ASSUME NEW w \in Workers, HasDelivered(w) PROVE IdsOwn'
  <2>1. Package(run[w]).id = run[w].id
    BY DEF Package
  <2> QED
    BY <1>8, <2>1, Held DEF HasDelivered
<1> QED
  BY <1>1, <1>2, <1>3, <1>4, <1>5, <1>6, <1>7, <1>8 DEF Effect

\* What has been told of a share stays told, whatever is written of others.
LEMMA ToldKept ==
  ASSUME TypeOK, TypeOK', Effect, NEW i \in Nat, NEW r, ToldAs(i, r),
         \A w \in Workers : HasPersisted(w) => run[w].id # i
  PROVE  ToldAs(i, r)'
<1> USE DEF SameTables, SameRest, ToldAs, Agrees
<1>1. CASE Quiet
  <2>1. \A f \in {view.shares, disk.shares} : \A j \in DOMAIN f : f[j].expires \in Nat
    BY Held, TableDomain
  <2>2. now \in Nat /\ now' \in Nat /\ now' >= now
    BY <1>1 DEF Quiet, TypeOK, DataOK
  <2> QED
    BY <1>1, <2>1, <2>2 DEF Quiet
<1>2. CASE HasCommitted
  BY <1>2 DEF HasCommitted
<1>3. CASE HasRolledBack
  BY <1>3 DEF HasRolledBack, TakenBack
<1>4. ASSUME NEW s, HasRevoked(s) PROVE ToldAs(i, r)'
  <2>1. /\ DOMAIN view'.shares = DOMAIN view.shares
        /\ \A j \in DOMAIN view.shares :
             j # s => view'.shares[j] = view.shares[j]
        /\ s \in DOMAIN view.shares => view'.shares[s].expires = now
    BY <1>4, SharesRevoked
  <2> QED
    BY <1>4, <2>1, Held DEF HasRevoked
<1>5. ASSUME NEW w \in Workers, HasBegun(w) PROVE ToldAs(i, r)'
  BY <1>5 DEF HasBegun
<1>6. ASSUME NEW w \in Workers, HasRead(w) PROVE ToldAs(i, r)'
  BY <1>6 DEF HasRead
<1>7. ASSUME NEW w \in Workers, HasPersisted(w) PROVE ToldAs(i, r)'
  <2>1. run[w].id # i /\ view.shares \in Tables /\ run[w].id \in Nat /\ Record(run[w]) \in Rows
    BY <1>7, Held DEF HasPersisted, Busy
  <2>2. CASE view'.shares = Set(view.shares, run[w].id, Record(run[w])) /\ undone' = undone
    <3>1. /\ i \in DOMAIN view'.shares <=> i \in DOMAIN view.shares
          /\ i \in DOMAIN view.shares => view'.shares[i] = view.shares[i]
      BY <1>7, <2>1, <2>2, SharesPersisted
    <3> QED
      BY <1>7, <2>2, <3>1 DEF HasPersisted
  <2>3. CASE view'.shares = view.shares /\ undone' = undone \cup {run[w].id}
    BY <1>7, <2>3 DEF HasPersisted
  <2> QED
    BY <1>7, <2>2, <2>3 DEF HasPersisted
<1>8. ASSUME NEW w \in Workers, HasDelivered(w) PROVE ToldAs(i, r)'
  BY <1>8 DEF HasDelivered
<1> QED
  BY <1>1, <1>2, <1>3, <1>4, <1>5, <1>6, <1>7, <1>8 DEF Effect

\* The record is told of, or given up for lost, by the call that made the package.
LEMMA ToldFirst ==
  ASSUME TypeOK, IdsOwn, NEW w \in Workers, HasPersisted(w)
  PROVE  ToldAs(run[w].id, Record(run[w]))'
<1>1. /\ run[w].id \notin DOMAIN view.shares \cup DOMAIN disk.shares
      /\ view.shares \in Tables /\ run[w].id \in Nat /\ Record(run[w]) \in Rows
  BY Held DEF IdsOwn, Busy, HasPersisted
<1>2. CASE view'.shares = Set(view.shares, run[w].id, Record(run[w])) /\ undone' = undone
  <2>1. run[w].id \in DOMAIN view'.shares /\ view'.shares[run[w].id] = Record(run[w])
    BY <1>2, SharesPersisted
  <2> QED
    BY <1>1, <2>1 DEF HasPersisted, ToldAs, Agrees
<1>3. CASE view'.shares = view.shares /\ undone' = undone \cup {run[w].id}
  BY <1>1, <1>3 DEF HasPersisted, ToldAs, Agrees
<1> QED
  BY <1>2, <1>3 DEF HasPersisted

\* Whatever left the program, and what is about to, has been told of.
LEMMA RecordsStep ==
  ASSUME TypeOK, TypeOK', IdsOwn, RecordsTold, Effect
  PROVE  RecordsTold'
<1>1. ASSUME NEW w \in Workers, run'[w].pc = "deliver"
      PROVE  ToldAs(run[w].id, Record(run[w]))'
  <2>1. CASE HasPersisted(w)
    BY <2>1, ToldFirst
  <2>2. CASE ~HasPersisted(w)
    <3>1. /\ run[w].pc = "deliver" /\ run'[w].id = run[w].id
          /\ Record(run'[w]) = Record(run[w])
      BY <1>1, <2>2 DEF Effect, Quiet, HasCommitted, HasRolledBack, HasRevoked, HasBegun,
         HasRead, HasPersisted, HasDelivered, Keeps, OthersKeep
    <3>2. PICK i, r : i \in Nat /\ i = run[w].id /\ r = Record(run[w])
      BY Held
    <3> i \in Nat
      BY <3>2
    <3>3. \A v \in Workers : HasPersisted(v) => run[v].id # i
      BY <2>2, <3>1, <3>2 DEF IdsOwn, Busy, HasPersisted
    <3>4. ToldAs(i, r)
      BY <3>1, <3>2 DEF RecordsTold, Told
    <3>5. ToldAs(i, r)'
      BY <3>3, <3>4, ToldKept
    <3> QED
      BY <3>1, <3>2, <3>5
  <2> QED
    BY <2>1, <2>2
<1>2. ASSUME NEW p \in Out', p \in Out
      PROVE  ToldAs(p.id, Record(p))'
  <2>1. \A v \in Workers : HasPersisted(v) => run[v].id # p.id
    BY <1>2 DEF IdsOwn, Busy, HasPersisted
  <2>2. ToldAs(p.id, Record(p)) /\ p.id \in Nat
    BY <1>2, Held DEF RecordsTold, Told
  <2> QED
    BY <2>1, <2>2, ToldKept
<1>3. ASSUME NEW p \in Out', p \notin Out
      PROVE  ToldAs(p.id, Record(p))'
  <2>1. PICK w \in Workers : HasDelivered(w) /\ p = Package(run[w])
    BY <1>3 DEF Effect, Quiet, HasCommitted, HasRolledBack, HasRevoked, HasBegun,
       HasRead, HasPersisted, HasDelivered, SameRest
  <2>2. p.id = run[w].id /\ Record(p) = Record(run[w])
    BY <2>1 DEF Package, Record
  <2>3. ToldAs(run[w].id, Record(run[w])) /\ run[w].id \in Nat
    BY <2>1, Held DEF RecordsTold, Told, HasDelivered
  <2>4. \A v \in Workers : HasPersisted(v) => run[v].id # run[w].id
    BY <2>1 DEF IdsOwn, Busy, HasPersisted, HasDelivered
  <2> QED
    BY <2>2, <2>3, <2>4, ToldKept
<1> QED
  BY <1>1, <1>2, <1>3 DEF RecordsTold, Told

\* A row comes into the file by a commit, and its day only comes nearer.
LEMMA DiskStep ==
  ASSUME TypeOK, TypeOK', IdsOwn, DiskInView, Effect
  PROVE  DiskInView'
<1> USE DEF SameTables, SameRest, DiskInView
<1>0. /\ \A f \in {view.shares, disk.shares} : \A j \in DOMAIN f : f[j].expires \in Nat
      /\ now \in Nat /\ now' \in Nat
  BY Held, TableDomain DEF TypeOK, DataOK
<1>1. CASE Quiet
  BY <1>0, <1>1 DEF Quiet
<1>2. CASE HasCommitted
  BY <1>0, <1>2 DEF HasCommitted
<1>3. CASE HasRolledBack
  BY <1>0, <1>3 DEF HasRolledBack
<1>4. ASSUME NEW s, HasRevoked(s) PROVE DiskInView'
  <2>1. /\ disk'.shares = disk.shares /\ now' = now
        /\ DOMAIN view'.shares = DOMAIN view.shares
        /\ \A j \in DOMAIN view.shares : j # s => view'.shares[j] = view.shares[j]
        /\ s \in DOMAIN view.shares => view'.shares[s].expires = now
    BY <1>4, SharesRevoked DEF HasRevoked
  <2> QED
    BY <1>0, <2>1
<1>5. ASSUME NEW w \in Workers, HasBegun(w) PROVE DiskInView'
  BY <1>5 DEF HasBegun
<1>6. ASSUME NEW w \in Workers, HasRead(w) PROVE DiskInView'
  BY <1>6 DEF HasRead
<1>7. ASSUME NEW w \in Workers, HasPersisted(w) PROVE DiskInView'
  <2>1. /\ run[w].id \notin DOMAIN disk.shares
        /\ disk'.shares = disk.shares /\ now' = now
    BY <1>7 DEF IdsOwn, Busy, HasPersisted
  <2>2. /\ DOMAIN view.shares \subseteq DOMAIN view'.shares
        /\ \A j \in DOMAIN view.shares : j # run[w].id => view'.shares[j] = view.shares[j]
    BY <1>7, SharesPersisted
  <2> QED
    BY <2>1, <2>2
<1>8. ASSUME NEW w \in Workers, HasDelivered(w) PROVE DiskInView'
  BY <1>8 DEF HasDelivered
<1> QED
  BY <1>1, <1>2, <1>3, <1>4, <1>5, <1>6, <1>7, <1>8 DEF Effect

\* The days of a package are those that _collect checked.
LEMMA TimesStep ==
  ASSUME TypeOK, TypeOK', TimesBounded, [Next]_vars
  PROVE  TimesBounded'
<1>1. Effect
  BY StepEffect
<1>2. ASSUME NEW w \in Workers, run'[w].pc \in {"persist", "deliver"}
      PROVE  run'[w].days <= MaxDays /\ run'[w].days <= run'[w].expires
  <2>1. CASE HasRead(w)
    <3>1. /\ run'[w].days <= MaxDays /\ run'[w].expires = now + run'[w].days
          /\ now \in Nat /\ run'[w].days \in Nat
      BY <2>1, Held DEF HasRead, TypeOK, RunOK, Works
    <3> QED
      BY <3>1
  <2>2. CASE ~HasRead(w)
    <3>1. /\ run[w].pc \in {"persist", "deliver"}
          /\ run'[w].days = run[w].days /\ run'[w].expires = run[w].expires
      BY <1>1, <1>2, <2>2 DEF Effect, Quiet, HasCommitted, HasRolledBack, HasRevoked,
         HasBegun, HasRead, HasPersisted, HasDelivered, Keeps, OthersKeep
    <3> QED
      BY <3>1 DEF TimesBounded
  <2> QED
    BY <2>1, <2>2
<1>3. ASSUME NEW p \in Out'
      PROVE  p.expires <= p.asked + MaxDays
  <2>1. CASE p \in Out
    BY <2>1 DEF TimesBounded
  <2>2. CASE p \notin Out
    <3>1. PICK w \in Workers : HasDelivered(w) /\ p = Package(run[w])
      BY <1>1, <2>2 DEF Effect, Quiet, HasCommitted, HasRolledBack, HasRevoked, HasBegun,
         HasRead, HasPersisted, HasDelivered, SameRest
    <3>2. /\ p.expires = run[w].expires /\ p.asked = run[w].expires - run[w].days
          /\ run[w].days <= MaxDays /\ run[w].days <= run[w].expires
      BY <3>1 DEF Package, TimesBounded, HasDelivered
    <3>3. run[w].expires \in Nat /\ run[w].days \in Nat /\ MaxDays \in Nat
      BY Held, SharingAssumption
    <3> QED
      BY <3>2, <3>3
  <2> QED
    BY <2>1, <2>2
<1>4. scanned' \subseteq {c.package : c \in codes'}
  <2>1. CASE Scans
    BY <2>1 DEF Scans, TimesBounded
  <2>2. CASE ~Scans
    <3>1. scanned' = scanned /\ codes \subseteq codes'
      BY <2>2 DEF Next, WorkerStep, vars, Collects, Persists, DeliversNothing,
         AsksShare, AsksQr, Calls, Begins, DeliversFile, DeliversCode, DeliversResult,
         Returns, Opens, Closes, Revokes, Imports, Contact, Edits, Commits, RollsBack,
         OtherCommits, Locks, Unlocks, Ends, Tick
    <3> QED
      BY <3>1 DEF TimesBounded
  <2> QED
    BY <2>1, <2>2
<1>5. ReadInTime'
  <2>1. CASE Imports
    <3>1. PICK p \in given \cup scanned :
            now <= p.expires /\ late' = (late \/ now > p.asked + MaxDays)
      BY <2>1 DEF Imports, InTime
    <3>2. p \in Packages /\ p.expires <= p.asked + MaxDays
      BY DEF TypeOK, OutOK, TimesBounded, Out
    <3>3. now \in Nat /\ p.expires \in Nat /\ p.asked \in Nat /\ MaxDays \in Nat
      BY <3>2, Held, SharingAssumption DEF Packages
    <3>4. ~(now > p.asked + MaxDays)
      BY <3>1, <3>2, <3>3
    <3> QED
      BY <3>1, <3>4 DEF TimesBounded, ReadInTime
  <2>2. CASE ~Imports
    <3>1. late' = late
      BY <2>2 DEF Next, WorkerStep, vars, Collects, Persists, DeliversNothing,
         AsksShare, AsksQr, Calls, Begins, DeliversFile, DeliversCode, DeliversResult,
         Returns, Opens, Closes, Revokes, Scans, Contact, Edits, Commits, RollsBack,
         OtherCommits, Locks, Unlocks, Ends, Tick
    <3> QED
      BY <3>1 DEF TimesBounded, ReadInTime
  <2> QED
    BY <2>1, <2>2
<1> QED
  BY <1>2, <1>3, <1>4, <1>5 DEF TimesBounded

LEMMA IInvInit == Init => IInv
<1> SUFFICES ASSUME Init PROVE IInv
  OBVIOUS
<1>1. <<>> \in Tables /\ DOMAIN <<>> = {}
  <2>1. <<>> \in [{} -> Rows]
    OBVIOUS
  <2>2. {} \in SUBSET Nat
    OBVIOUS
  <2> QED
    BY <2>1, <2>2 DEF Tables
<1>2. DataOK
  BY <1>1, SharingAssumption DEF Init, DataOK, Data
<1>3. RunOK /\ OutOK
  BY IdleWork, SharingAssumption DEF Init, RunOK, OutOK
<1>4. /\ view.shares = <<>> /\ disk.shares = <<>> /\ Out = {} /\ scanned = {} /\ ~late
      /\ \A w \in Workers : run[w].pc = "idle"
  BY IdleWork DEF Init, Out
<1>5. IdsNew /\ IdsOwn
  BY <1>1, <1>4 DEF IdsNew, IdsOwn, Used, Busy
<1>6. RecordsTold /\ DiskInView /\ TimesBounded
  BY <1>1, <1>4 DEF RecordsTold, DiskInView, TimesBounded, ReadInTime
<1> QED
  BY <1>2, <1>3, <1>5, <1>6 DEF IInv, TypeOK

LEMMA IInvStep ==
  ASSUME IInv, [Next]_vars
  PROVE  IInv'
<1>1. TypeOK /\ IdsNew /\ IdsOwn /\ RecordsTold /\ DiskInView /\ TimesBounded
  BY DEF IInv
<1>2. TypeOK'
  BY <1>1, DataStep, RunStep, OutStep DEF TypeOK
<1>3. Effect
  BY <1>1, StepEffect
<1> QED
  BY <1>1, <1>2, <1>3, IdsNewStep, IdsOwnStep, RecordsStep, DiskStep, TimesStep DEF IInv

LEMMA IInvHolds == Spec => []IInv
<1>1. Init => IInv
  BY IInvInit
<1>2. IInv /\ [Next]_vars => IInv'
  BY IInvStep
<1> QED
  BY <1>1, <1>2, PTL DEF Spec

\* Nothing leaves the program without a record, except where the INSERT failed
\* or a rollback, or the end of the program, took it back.
THEOREM SharesRecorded == Spec => []RecordedUnlessUndone
<1>1. IInv => RecordedUnlessUndone
  BY DEF IInv, RecordsTold, Told, ToldAs, RecordedUnlessUndone
<1> QED
  BY <1>1, IInvHolds, PTL

\* A living record, in the transaction or in the file, says of a package what is
\* true of it: the entry, the permission and the day.
THEOREM RecordsAgree == Spec => []LiveRecordsAgree
<1>1. IInv => LiveRecordsAgree
  BY DEF IInv, RecordsTold, Told, ToldAs, Agrees, Record, LiveRecordsAgree
<1> QED
  BY <1>1, IInvHolds, PTL

\* No package is read later than MAX_EXPIRY_DAYS after it was made.
THEOREM PackagesReadInTime == Spec => []ReadInTime
<1>1. IInv => ReadInTime
  BY DEF IInv, TimesBounded
<1> QED
  BY <1>1, IInvHolds, PTL

\* The file forgets no share, and lets none come alive again.
THEOREM SharesKept == Spec => KeptOnDisk
<1> DEFINE Kept == \A s \in DOMAIN disk.shares :
                     /\ s \in DOMAIN disk'.shares
                     /\ disk.shares[s].expires <= now => disk'.shares[s].expires <= now'
<1>1. ASSUME IInv, IInv', [Next]_vars
      PROVE  Kept
  <2>1. TypeOK /\ DiskInView /\ Effect
    BY <1>1, StepEffect DEF IInv
  <2>2. /\ \A f \in {view.shares, disk.shares} : \A j \in DOMAIN f : f[j].expires \in Nat
        /\ now \in Nat /\ now' \in Nat
    BY <1>1, <2>1, Held, TableDomain DEF IInv, TypeOK, DataOK
  <2>3. /\ now' >= now
        /\ disk'.shares = disk.shares \/ disk'.shares = view.shares
    BY <2>1, <2>2 DEF Effect, Quiet, HasCommitted, HasRolledBack, HasRevoked, HasBegun,
       HasRead, HasPersisted, HasDelivered, SameTables, SameRest
  <2> QED
    BY <2>1, <2>2, <2>3 DEF DiskInView
<1>2. IInv /\ IInv' /\ [Next]_vars => [Kept]_vars
  BY <1>1
<1> QED
  BY <1>2, IInvHolds, PTL DEF Spec, KeptOnDisk
================================================================================
