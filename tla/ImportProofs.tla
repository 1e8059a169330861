----------------------------- MODULE ImportProofs -----------------------------
(***************************************************************************)
(* What an import leaves behind, whatever the user, the auto-lock, other   *)
(* imports and the end of the process do between its steps: for every set  *)
(* of files, titles and threads, and any number of entries, checkpoints    *)
(* and events.                                                             *)
(***************************************************************************)
EXTENDS Import, FiniteSetTheorems, SequenceTheorems, WellFoundedInduction, TLAPS

VaultStates == [Ids -> Entries \cup {Gone}]

\* Where the row at hand is looked at.
AtWork == {"create", "created", "read", "update", "updated"}
Works  == [pc : {"idle", "index", "row"} \cup AtWork, rows : Seq(FileRows), i : Nat \ {0},
           strat : Strategies, index : [Keys -> 0..Dangling], ckpt : Nat, from : Nat,
           id : 1..Dangling, made : 1..Dangling, key : Keys, data : Datas,
           tags : {"text", "list", "nil"}, backed : BOOLEAN, blind : BOOLEAN,
           touched : SUBSET Ids, ok : Nat, failed : Nat]
Saves  == [no : Nat, strat : Strategies, rows : Seq(FileRows)]

\* Ids are given once: none that is still to come was ever in the vault.
VaultOK ==
  /\ view \in VaultStates /\ disk \in VaultStates /\ first \in VaultStates
  /\ next \in 1..MaxId + 1 /\ key \in BOOLEAN
  /\ \A n \in Ids : n >= next => view[n] = Gone /\ disk[n] = Gone /\ first[n] = Gone

JobsOK ==
  /\ job \in [Jobs -> Works]
  /\ \A j \in Jobs : job[j].pc \in AtWork => job[j].i <= Len(job[j].rows)
  /\ \A j \in Jobs : job[j].pc = "created" => job[j].made \in Ids /\ job[j].made < next

RestOK ==
  /\ temp \subseteq Saves /\ named \in Nat
  /\ ui \in [pc : {"idle", "form", "write"}, id : 1..Dangling, data : Datas]
  /\ ui.pc = "form" => ui.id \in Ids

TypeOK == VaultOK /\ JobsOK /\ RestOK

\* An entry is there as far as an import is asked about it.
Held(d, n) == d[n] # Gone \/ n \in torn \/ n \in mine

CountedHeld ==
  /\ \A n \in counted : n \in Ids /\ Held(view, n) /\ Held(disk, n)
  /\ \A j \in Jobs : job[j].pc = "created" => Held(view, job[j].made)

\* A thread with a backup has one of everything it may overwrite.
Covered(n) == \E b \in backups : b[n] = first[n]

BackedUp ==
  \A n \in Ids \ (mine \cup bare) : first[n] # Gone =>
    /\ view[n] # first[n] \/ disk[n] # first[n] => Covered(n)
    /\ \A j \in Jobs : job[j].backed => Covered(n)

\* A checkpoint file belongs to who wrote it or reads it, and what is owed is in
\* a file that no thread has written: only who reads that one removes it.
Holds(c, r) == \E i \in 1..Len(c.rows) : c.rows[i] = r

FilesNamed ==
  /\ \A c \in temp : c.no \in 1..named
  /\ \A c, d \in temp : c.no = d.no => c = d
  /\ \A j \in Jobs : job[j].ckpt <= named /\ job[j].from <= named

FilesKept ==
  \A c \in temp, j \in Jobs :
    /\ c.no = job[j].from => c.rows = job[j].rows
    /\ c.no = job[j].ckpt =>
         \A i \in job[j].i..Len(job[j].rows) : Holds(c, job[j].rows[i])

OwedKept ==
  \A r \in owed : \E c \in temp : Holds(c, r) /\ \A j \in Jobs : job[j].ckpt # c.no

\* b, a thread that skips, has in its index all that is in v, which is what a
\* SELECT shows, and in w, what a rollback brings back.
Indexed(b, d) ==
  \A n \in Ids :
    d[n] # Gone /\ n \notin b.touched /\ ~(b.pc = "created" /\ n = b.made)
      => b.index[d[n].key] # 0
OwnKey(b, d) ==
  b.pc = "created" /\ d[b.made] # Gone /\ b.made \notin b.touched => d[b.made].key = b.key
NewKey(b) ==
  b.pc \in {"create", "created"} /\ Stripped(b.key) = b.key => b.index[b.key] = 0

TwinFree(b, v, w) ==
  b.strat = "skip" /\ ~b.blind =>
    /\ b.pc \notin {"idle", "index"} => Indexed(b, v) /\ Indexed(b, w)
    /\ OwnKey(b, v) /\ OwnKey(b, w) /\ NewKey(b)
    /\ b.pc \notin {"read", "update", "updated"}

NoTwins == \A j \in Jobs : TwinFree(job[j], view, disk)

IInv == TypeOK /\ CountedHeld /\ BackedUp /\ FilesNamed /\ FilesKept /\ OwedKept /\ NoTwins

-------------------------------------------------------------------------------
(* Numbers and sequences. *)

Less == {p \in Nat \X Nat : p[1] < p[2]}

LEMMA LeastOf ==
  ASSUME NEW S, S \subseteq Nat, S # {}
  PROVE  \E m \in S : \A n \in S : m <= n
<1>1. IsWellFoundedOn(Less, Nat)
  <2>1. OpToRel(<, Nat) = Less
    BY DEF OpToRel, Less
  <2> QED
    BY <2>1, NatLessThanWellFounded
<1>2. PICK m \in S : \A n \in S : ~(<<n, m>> \in Less)
  BY <1>1, WFMin
<1>3. ASSUME NEW n \in S PROVE m <= n
  <2>1. n \in Nat /\ m \in Nat
    OBVIOUS
  <2>2. <<n, m>> \in Nat \X Nat
    BY <2>1
  <2>3. n < m => <<n, m>> \in Less
    BY <2>2 DEF Less
  <2> QED
    BY <1>2, <2>1, <2>3
<1> QED
  BY <1>3

LEMMA GreatestOf ==
  ASSUME NEW S, NEW k \in Nat, S \subseteq 0..k, S # {}
  PROVE  \E m \in S : \A n \in S : n <= m
<1> DEFINE Left == {k - n : n \in S}
<1>1. Left \subseteq Nat /\ Left # {}
  <2>1. PICK n \in S : TRUE
    OBVIOUS
  <2>2. k - n \in Left
    OBVIOUS
  <2>3. \A m \in S : k - m \in Nat
    OBVIOUS
  <2> QED
    BY <2>2, <2>3
<1>2. PICK d \in Left : \A e \in Left : d <= e
  BY <1>1, LeastOf
<1>3. PICK m \in S : d = k - m
  OBVIOUS
<1>4. ASSUME NEW n \in S PROVE n <= m
  <2>1. d <= k - n
    BY <1>2
  <2> QED
    BY <1>3, <2>1
<1> QED
  BY <1>4

\* The rows a checkpoint file gets are those still to come.
LEMMA RowsLeft ==
  ASSUME NEW s \in Seq(FileRows), NEW i \in Nat \ {0}, i <= Len(s)
  PROVE  /\ SubSeq(s, i, Len(s)) \in Seq(FileRows)
         /\ \A k \in i..Len(s) :
              \E l \in 1..Len(SubSeq(s, i, Len(s))) : SubSeq(s, i, Len(s))[l] = s[k]
<1>1. Len(s) \in Nat /\ \A k \in 1..Len(s) : s[k] \in FileRows
  BY LenProperties, ElementOfSeq
<1>2. /\ SubSeq(s, i, Len(s)) \in Seq(FileRows)
      /\ Len(SubSeq(s, i, Len(s))) = Len(s) - i + 1
      /\ \A k \in 1..Len(s) - i + 1 : SubSeq(s, i, Len(s))[k] = s[i + k - 1]
  BY <1>1, SubSeqProperties, Len(s) \in Int, i \in Int, \A k \in i..Len(s) : s[k] \in FileRows
<1>3. ASSUME NEW k \in i..Len(s)
      PROVE  \E l \in 1..Len(SubSeq(s, i, Len(s))) : SubSeq(s, i, Len(s))[l] = s[k]
  <2>1. k - i + 1 \in 1..Len(s) - i + 1 /\ i + (k - i + 1) - 1 = k
    BY <1>1
  <2> QED
    BY <1>2, <2>1
<1> QED
  BY <1>2, <1>3

\* Of the entries with one key one is taken, the first or the last.
LEMMA OneHolder ==
  ASSUME NEW S, S \subseteq Ids, S # {}
  PROVE  /\ (CHOOSE n \in S : \A m \in S : m <= n) \in S
         /\ (CHOOSE n \in S : \A m \in S : n <= m) \in S
<1>1. S \subseteq Nat /\ S \subseteq 0..MaxId /\ MaxId \in Nat
  BY ImportAssumption DEF Ids
<1> QED
  BY <1>1, LeastOf, GreatestOf

-------------------------------------------------------------------------------
(* The types. *)

LEMMA IdleOK ==
  /\ IdleJob \in Works
  /\ IdleJob.pc = "idle" /\ IdleJob.rows = <<>> /\ IdleJob.i = 1 /\ IdleJob.ckpt = 0
  /\ IdleJob.from = 0 /\ IdleJob.backed = FALSE /\ IdleJob.touched = {}
<1>1. NoKey \in Keys
  BY ImportAssumption DEF NoKey, Keys
<1>2. NoData \in Datas
  BY DEF NoData, Datas, Values
<1>3. Dangling \in 1..Dangling /\ [k \in Keys |-> 0] \in [Keys -> 0..Dangling]
  BY ImportAssumption DEF Dangling
<1>4. <<>> \in Seq(FileRows) /\ "skip" \in Strategies
  BY DEF Strategies
<1> QED
  BY <1>1, <1>2, <1>3, <1>4 DEF IdleJob, Works

LEMMA RowOK ==
  ASSUME JobsOK, NEW j \in Jobs, job[j].i <= Len(job[j].rows)
  PROVE  /\ Row(j) \in FileRows
         /\ ConflictKey(j) \in Keys /\ Hit(j) \in 0..Dangling
         /\ RowKey(j) \in Keys
<1>1. /\ job[j].rows \in Seq(FileRows) /\ job[j].i \in Nat \ {0}
      /\ job[j].index \in [Keys -> 0..Dangling]
  BY DEF JobsOK, Works
<1>2. Row(j) \in FileRows
  BY <1>1, ElementOfSeq, LenProperties DEF Row
<1>3. /\ Row(j).t \in Titles /\ Strip[Row(j).t] \in Titles
      /\ Row(j).u \in Users /\ Strip[Row(j).u] \in Users
  BY <1>2, ImportAssumption DEF FileRows
<1>4. 0 \in 0..MaxSuffix
  BY ImportAssumption
<1> QED
  BY <1>1, <1>2, <1>3, <1>4 DEF ConflictKey, RowKey, Stripped, Keys, Hit

\* A rename finds a number that is free.
LEMMA SuffixOK ==
  ASSUME NEW j \in Jobs, \E n \in 1..MaxSuffix : Free(j, n)
  PROVE  FreeSuffix(j) \in 1..MaxSuffix
<1> DEFINE S == {n \in 1..MaxSuffix : Free(j, n)}
<1>1. S \subseteq Nat /\ S # {}
  OBVIOUS
<1>2. PICK m \in S : \A n \in S : m <= n
  BY <1>1, LeastOf
<1>3. m \in 1..MaxSuffix /\ Free(j, m)
  OBVIOUS
<1>4. \A n \in 1..m - 1 : ~Free(j, n)
  <2>1. SUFFICES ASSUME NEW n \in 1..m - 1, Free(j, n) PROVE FALSE
    OBVIOUS
  <2>2. n \in S
    BY <1>3, <2>1, ImportAssumption
  <2> QED
    BY <1>2, <1>3, <2>2, ImportAssumption
<1> QED
  BY <1>3, <1>4 DEF FreeSuffix

LEMMA MergedOK ==
  ASSUME NEW old \in Entries, NEW r \in FileRows
  PROVE  Merged(old, r) \in Datas
BY DEF Merged, Entries, FileRows, Datas

\* A thread that does nothing itself: c is b, with the entries S noted.
Follows(c, b, S) ==
  /\ c \in Works
  /\ c.pc = b.pc /\ c.rows = b.rows /\ c.i = b.i /\ c.strat = b.strat
  /\ c.index = b.index /\ c.ckpt = b.ckpt /\ c.from = b.from /\ c.made = b.made
  /\ c.key = b.key /\ c.backed = b.backed /\ c.blind = b.blind
  /\ c.touched = b.touched \cup S

LEMMA FollowsItself ==
  ASSUME NEW b \in Works
  PROVE  Follows(b, b, {})
BY DEF Follows

LEMMA TouchedOK ==
  ASSUME NEW b \in [Jobs -> Works], NEW js, NEW n \in Ids
  PROVE  /\ Touched(js, n, b) \in [Jobs -> Works]
         /\ \A j \in Jobs : j \notin js => Touched(js, n, b)[j] = b[j]
         /\ \A j \in Jobs : j \notin js => Follows(Touched(js, n, b)[j], b[j], {})
         /\ \A j \in Jobs : j \in js => Follows(Touched(js, n, b)[j], b[j], {n})
<1>1. ASSUME NEW r \in Works
      PROVE  Follows([r EXCEPT !.touched = @ \cup {n}], r, {n})
  <2>1. [r EXCEPT !.touched = @ \cup {n}] \in Works
    BY DEF Works
  <2> QED
    BY <2>1 DEF Follows, Works
<1>2. \A j \in Jobs : b[j] \in Works
  OBVIOUS
<1>3. \A j \in Jobs : /\ j \notin js => Touched(js, n, b)[j] = b[j]
                      /\ j \in js => Touched(js, n, b)[j] = [b[j] EXCEPT !.touched = @ \cup {n}]
  BY DEF Touched
<1>4. \A j \in Jobs : j \in js => Follows(Touched(js, n, b)[j], b[j], {n})
  BY <1>1, <1>2, <1>3
<1>5. \A j \in Jobs : j \notin js => Follows(Touched(js, n, b)[j], b[j], {})
  BY <1>2, <1>3, FollowsItself
<1>6. \A j \in Jobs : Touched(js, n, b)[j] \in Works
  BY <1>4, <1>5 DEF Follows
<1>7. Touched(js, n, b) = [j \in Jobs |-> Touched(js, n, b)[j]]
  BY DEF Touched
<1>8. Touched(js, n, b) \in [Jobs -> Works]
  BY <1>6, <1>7
<1> QED
  BY <1>3, <1>4, <1>5, <1>8

LEMMA DoneOK ==
  ASSUME NEW b \in Works
  PROVE  /\ Succeeded(b) \in Works /\ Failed(b) \in Works
         /\ Succeeded(b).pc = "row" /\ Failed(b).pc = "row"
<1>0. b.i + 1 \in Nat \ {0} /\ b.ok + 1 \in Nat /\ b.failed + 1 \in Nat
  BY DEF Works
<1>1. Succeeded(b) \in Works
  BY <1>0 DEF Succeeded, Works
<1>2. Failed(b) \in Works
  BY <1>0 DEF Failed, Works
<1>3. Succeeded(b).pc = "row" /\ Failed(b).pc = "row"
  BY DEF Succeeded, Failed, Works
<1> QED
  BY <1>1, <1>2, <1>3

-------------------------------------------------------------------------------
(* What a step is to the vault, the threads and the checkpoint files. *)

Calm       == view' = view /\ disk' = disk /\ torn' = torn
Committed  == disk' = view /\ view' = view /\ torn' = torn
RolledBack == view' = disk /\ disk' = disk /\ TakenBack
Vaultwide  == Calm \/ Committed \/ RolledBack

SameFiles  == temp' = temp /\ named' = named /\ owed' = owed
SameGhosts == mine' = mine /\ bare' = bare /\ backups' = backups
SameBooks  == SameGhosts /\ counted' = counted /\ next' = next

Others(j, S) == \A k \in Jobs : k # j => Follows(job'[k], job[k], S)

\* c is b some steps on: what an import was told when it began stays.
Onward(c, b) ==
  /\ c \in Works /\ c.rows = b.rows /\ c.strat = b.strat /\ c.from = b.from
  /\ c.backed = b.backed /\ c.i >= b.i
Proceeds(c, b) ==
  /\ Onward(c, b) /\ c.blind = b.blind /\ c.touched = b.touched
  /\ c.pc \in AtWork => c.i = b.i

HasBegun(j) ==
  /\ Others(j, {}) /\ Calm /\ SameFiles
  /\ mine' = mine /\ bare' = bare /\ counted' = counted /\ next' = next
  /\ backups \subseteq backups' /\ (job'[j].backed => disk \in backups')
  /\ job'[j] \in Works /\ job'[j].pc = "index" /\ job'[j].i = 1 /\ job'[j].ckpt = 0
  /\ job'[j].from = 0 \/ \E c \in temp : c.no = job'[j].from /\ c.rows = job'[j].rows

HasLoaded(j) ==
  /\ Others(j, {}) /\ Calm /\ SameFiles /\ SameBooks
  /\ Onward(job'[j], job[j]) /\ job'[j].pc = "row" /\ job'[j].ckpt = job[j].ckpt
  /\ job'[j].touched = {n \in Ids : view[n] # disk[n]}
  /\ ~job'[j].blind =>
       \A n \in Ids : view[n] # Gone => job'[j].index[view[n].key] # 0

\* The row goes to one of the branches, or the thread ends.
Branches(c, b) ==
  /\ Proceeds(c, b) /\ c.index = b.index
  /\ c.pc \in {"row", "create", "read", "update"}
  /\ c.pc \in {"read", "update"} => c.strat # "skip"
  /\ c.pc = "create" /\ c.strat = "skip" /\ Stripped(c.key) = c.key => c.index[c.key] = 0

HasTaken(j) ==
  /\ AtRow(j) /\ Others(j, {}) /\ Calm /\ SameBooks /\ owed' = owed
  /\ \/ job'[j] = IdleJob /\ SameFiles
     \/ /\ Branches(job'[j], job[j])
        /\ \/ job'[j].ckpt \in {0, job[j].ckpt} /\ SameFiles
           \/ /\ job'[j].ckpt = named + 1 /\ named' = named + 1
              /\ temp' = temp \cup
                   {[no |-> named + 1, strat |-> job[j].strat, rows |-> Remaining(j)]}

HasMade(j) ==
  /\ job[j].pc = "create" /\ job'[j].pc = "created"
  /\ Proceeds(job'[j], job[j]) /\ job'[j].ckpt = job[j].ckpt
  /\ job'[j].index = job[j].index /\ job'[j].key = job[j].key /\ job'[j].made = next
  /\ next \in Ids /\ next' = next + 1 /\ Others(j, {next})
  /\ \E e \in Entries : e.key = job[j].key /\ view' = [view EXCEPT ![next] = e]
  /\ disk' = disk /\ torn' = torn
  /\ SameFiles /\ SameGhosts /\ counted' = counted

HasCounted(j) ==
  /\ job[j].pc = "created" /\ job'[j].pc = "row" /\ Onward(job'[j], job[j])
  /\ job'[j].blind = job[j].blind /\ job'[j].touched = job[j].touched
  /\ job'[j].ckpt = job[j].ckpt
  /\ \A k \in Keys :
       job'[j].index[k] # 0 <=> job[j].index[k] # 0 \/ k = job[j].key
  /\ Others(j, {}) /\ Committed /\ SameFiles /\ SameGhosts
  /\ counted' = counted \cup {job[j].made} /\ next' = next

HasProceeded(j) ==
  /\ job[j].pc \in {"create", "read", "update", "updated"}
  /\ Proceeds(job'[j], job[j]) /\ job'[j].ckpt = job[j].ckpt
  /\ job'[j].index = job[j].index /\ job'[j].pc \in {"row", "update"}
  /\ job'[j].pc = "update" => job[j].pc = "read"
  /\ Others(j, {}) /\ Vaultwide /\ SameFiles /\ SameBooks

HasOverwritten(j) ==
  /\ job[j].pc = "update" /\ job'[j].pc = "updated"
  /\ Proceeds(job'[j], job[j]) /\ job'[j].ckpt = job[j].ckpt
  /\ job'[j].index = job[j].index
  /\ \E n \in Ids, e \in Entries :
       /\ view[n] # Gone /\ view' = [view EXCEPT ![n] = e] /\ Others(j, {n})
       /\ bare' = IF job[j].backed THEN bare ELSE bare \cup {n}
  /\ disk' = disk /\ torn' = torn /\ SameFiles
  /\ mine' = mine /\ backups' = backups /\ counted' = counted /\ next' = next

HasEnded(j) ==
  /\ job'[j] = IdleJob /\ Others(j, {}) /\ (Calm \/ Committed) /\ SameBooks
  /\ temp' = {c \in temp : c.no \notin {job[j].ckpt, job[j].from}} /\ named' = named
  /\ owed' = IF job[j].from = 0 THEN owed
             ELSE owed \ {job[j].rows[i] : i \in 1..Len(job[j].rows)}

HasEdited ==
  /\ \E n \in Ids, v \in Entries \cup {Gone} :
       /\ view' = [view EXCEPT ![n] = v] /\ mine' = mine \cup {n}
       /\ \A k \in Jobs : Follows(job'[k], job[k], {n})
       /\ \/ view[n] # Gone /\ next' = next
          \/ n = next /\ next' = next + 1
  /\ disk' = disk /\ torn' = torn /\ SameFiles
  /\ bare' = bare /\ backups' = backups /\ counted' = counted

HasRested ==
  /\ \A k \in Jobs : Follows(job'[k], job[k], {})
  /\ Vaultwide /\ SameFiles /\ SameBooks

HasCrashed ==
  /\ \A k \in Jobs : job'[k] = IdleJob
  /\ RolledBack /\ SameBooks /\ temp' = temp /\ named' = named
  /\ owed' = owed \cup UNION {{job[j].rows[i] : i \in job[j].i..Len(job[j].rows)} :
                                j \in {k \in Jobs : Saved(k) # {}}}

Effect ==
  /\ first' = first /\ key' \in BOOLEAN
  /\ job' = [j \in Jobs |-> job'[j]]
  /\ \/ \E j \in Jobs :
          \/ HasBegun(j) \/ HasLoaded(j) \/ HasTaken(j) \/ HasMade(j) \/ HasCounted(j)
          \/ HasProceeded(j) \/ HasOverwritten(j) \/ HasEnded(j)
     \/ HasEdited \/ HasRested \/ HasCrashed

\* A step of one thread leaves the others as they are.
LEMMA OneSteps ==
  ASSUME JobsOK, NEW j \in Jobs, NEW c, job' = [job EXCEPT ![j] = c]
  PROVE  job'[j] = c /\ Others(j, {}) /\ job' = [k \in Jobs |-> job'[k]]
<1>1. \A k \in Jobs : job[k] \in Works /\ (k # j => job'[k] = job[k])
  BY DEF JobsOK
<1>2. Others(j, {})
  BY <1>1, FollowsItself DEF Others
<1> QED
  BY <1>2 DEF JobsOK

LEMMA BeginEffect ==
  ASSUME TypeOK, NEW j \in Jobs, Start(j) \/ Resume(j)
  PROVE  Effect
<1>1. PICK rows \in Seq(FileRows), strat \in Strategies, from \in Nat :
        /\ Begin(j, rows, strat, from)
        /\ from = 0 \/ \E c \in temp : c.no = from /\ c.rows = rows
  <2>1. CASE Start(j)
    BY <2>1, ImportAssumption DEF Start
  <2>2. CASE Resume(j)
    <3>1. PICK c \in temp : Begin(j, c.rows, c.strat, c.no)
      BY <2>2 DEF Resume
    <3>2. c.rows \in Seq(FileRows) /\ c.strat \in Strategies /\ c.no \in Nat
      BY DEF TypeOK, RestOK, Saves
    <3> QED
      BY <3>1, <3>2
  <2> QED
    BY <2>1, <2>2
<1>2. PICK backed \in BOOLEAN :
        /\ job' = [job EXCEPT ![j] =
             [IdleJob EXCEPT !.pc = "index", !.rows = rows, !.strat = strat,
                             !.from = from, !.backed = backed]]
        /\ backups' = IF backed THEN AddBackup ELSE backups
  BY <1>1 DEF Begin
<1> DEFINE c == [IdleJob EXCEPT !.pc = "index", !.rows = rows, !.strat = strat,
                                !.from = from, !.backed = backed]
<1>3. c \in Works /\ c.pc = "index" /\ c.i = 1 /\ c.ckpt = 0 /\ c.rows = rows
      /\ c.from = from /\ c.backed = backed
  BY IdleOK DEF Works
<1> HIDE DEF c
<1>4. job'[j] = c /\ Others(j, {}) /\ job' = [k \in Jobs |-> job'[k]]
  BY <1>2, OneSteps DEF TypeOK, c
<1>5. backups \subseteq backups' /\ (backed => disk \in backups')
  BY <1>2 DEF AddBackup
<1>6. Calm /\ SameFiles /\ mine' = mine /\ bare' = bare /\ counted' = counted
      /\ next' = next /\ first' = first /\ key' = key
  BY <1>1 DEF Begin, db, ghost, Calm, SameFiles
<1>7. HasBegun(j)
  BY <1>1, <1>3, <1>4, <1>5, <1>6 DEF HasBegun
<1> QED
  BY <1>4, <1>6, <1>7 DEF Effect, TypeOK, VaultOK

LEMMA LoadEffect ==
  ASSUME TypeOK, NEW j \in Jobs, LoadIndex(j)
  PROVE  Effect
<1> DEFINE Holders(k) == {n \in Present(view) : view[n].key = k}
           Ix(last) == [k \in Keys |->
              IF ~key \/ Holders(k) = {} THEN 0
              ELSE IF last THEN CHOOSE n \in Holders(k) : \A m \in Holders(k) : m <= n
              ELSE CHOOSE n \in Holders(k) : \A m \in Holders(k) : n <= m]
           T == {n \in Ids : view[n] # disk[n]}
<1>1. \A k : Holders(k) \subseteq Ids
  BY DEF Present
<1>2. \A n \in Ids : view[n] # Gone => view[n].key \in Keys /\ n \in Holders(view[n].key)
  BY DEF TypeOK, VaultOK, VaultStates, Entries, Present
<1>3. \A k \in Keys : Holders(k) # {} =>
        /\ (CHOOSE n \in Holders(k) : \A m \in Holders(k) : m <= n) \in Ids
        /\ (CHOOSE n \in Holders(k) : \A m \in Holders(k) : n <= m) \in Ids
  BY <1>1, OneHolder
<1> HIDE DEF Holders
<1>4. PICK last \in BOOLEAN :
        job' = [job EXCEPT ![j].pc = "row", ![j].blind = ~key, ![j].touched = T,
                           ![j].index = Ix(last)]
  BY DEF LoadIndex, Holders
<1>5. Ids \subseteq 0..Dangling /\ 0 \in 0..Dangling /\ 0 \notin Ids
  BY ImportAssumption DEF Ids, Dangling
<1>6. \A k \in Keys : /\ Ix(last)[k] \in 0..Dangling
                      /\ key /\ Holders(k) # {} => Ix(last)[k] \in Ids
  <2> TAKE k \in Keys
  <2> DEFINE hi == CHOOSE n \in Holders(k) : \A m \in Holders(k) : m <= n
             lo == CHOOSE n \in Holders(k) : \A m \in Holders(k) : n <= m
  <2>1. Ix(last)[k] = IF ~key \/ Holders(k) = {} THEN 0 ELSE IF last THEN hi ELSE lo
    OBVIOUS
  <2>2. Holders(k) # {} => hi \in Ids /\ lo \in Ids
    BY <1>3
  <2> HIDE DEF hi, lo, Ix
  <2> QED
    BY <1>5, <2>1, <2>2
<1>7. Ix(last) \in [Keys -> 0..Dangling] /\ T \in SUBSET Ids
  BY <1>6
<1>8. \A n \in Ids : view[n] # Gone /\ key => Ix(last)[view[n].key] # 0
  BY <1>2, <1>5, <1>6
<1> HIDE DEF Ix, T
<1> DEFINE c == [job[j] EXCEPT !.pc = "row", !.blind = ~key, !.touched = T,
                               !.index = Ix(last)]
<1>9. job' = [job EXCEPT ![j] = c] /\ job[j] \in Works
  BY <1>4 DEF TypeOK, JobsOK
<1>10. c \in Works
  BY <1>7, <1>9 DEF Works
<1>11. /\ c.pc = "row" /\ c.blind = ~key /\ c.touched = T /\ c.index = Ix(last)
       /\ c.rows = job[j].rows /\ c.strat = job[j].strat /\ c.from = job[j].from
       /\ c.backed = job[j].backed /\ c.i = job[j].i /\ c.ckpt = job[j].ckpt
       /\ job[j].i \in Nat
  BY <1>9 DEF Works
<1> HIDE DEF c
<1>12. job'[j] = c /\ Others(j, {}) /\ job' = [k \in Jobs |-> job'[k]]
  BY <1>9, OneSteps DEF TypeOK
<1>13. Calm /\ SameFiles /\ SameBooks /\ first' = first /\ key' = key
  BY DEF LoadIndex, db, ghost, Calm, SameFiles, SameBooks, SameGhosts
<1>14. Onward(c, job[j])
  BY <1>10, <1>11 DEF Onward
<1>15. ~c.blind => key
  BY <1>11 DEF TypeOK, VaultOK
<1>16. HasLoaded(j)
  BY <1>8, <1>11, <1>12, <1>13, <1>14, <1>15 DEF HasLoaded, T
<1> QED
  BY <1>12, <1>13, <1>16 DEF Effect, TypeOK, VaultOK

\* Whatever becomes of the checkpoint, the branch of the row is the same.
LEMMA CheckpointEffect ==
  ASSUME TypeOK, NEW j \in Jobs, AtRow(j), NEW b, Branches(b, job[j]),
         b.ckpt = job[j].ckpt, Checkpoint(j, b),
         UNCHANGED <<db, key, next, backups, ui, left, ghost>>
  PROVE  Effect
<1>1. b \in Works
  BY DEF Branches, Proceeds, Onward
<1>2. ASSUME NEW x \in Nat
      PROVE  [b EXCEPT !.ckpt = x].ckpt = x /\ Branches([b EXCEPT !.ckpt = x], job[j])
  <2> DEFINE c == [b EXCEPT !.ckpt = x]
  <2>1. c \in Works /\ c.ckpt = x
    BY <1>1 DEF Works
  <2>2. /\ c.rows = b.rows /\ c.strat = b.strat /\ c.from = b.from /\ c.backed = b.backed
        /\ c.i = b.i /\ c.blind = b.blind /\ c.touched = b.touched /\ c.pc = b.pc
        /\ c.index = b.index /\ c.key = b.key
    BY <1>1 DEF Works
  <2> HIDE DEF c
  <2>3. Proceeds(c, job[j])
    BY <2>1, <2>2 DEF Branches, Proceeds, Onward
  <2>4. Branches(c, job[j])
    BY <2>2, <2>3 DEF Branches
  <2> QED
    BY <2>1, <2>4 DEF c
<1>3. PICK c : /\ job' = [job EXCEPT ![j] = c]
               /\ \/ c = IdleJob /\ temp' = temp /\ named' = named
                  \/ /\ Branches(c, job[j])
                     /\ \/ /\ c.ckpt \in {0, job[j].ckpt}
                           /\ temp' = temp /\ named' = named
                        \/ /\ c.ckpt = named + 1 /\ named' = named + 1
                           /\ temp' = temp \cup {[no |-> named + 1, strat |-> job[j].strat,
                                                   rows |-> Remaining(j)]}
  <2>1. CASE job' = [job EXCEPT ![j] = b] /\ UNCHANGED <<temp, named>>
    BY <2>1
  <2>2. CASE /\ job' = [job EXCEPT ![j] = [b EXCEPT !.ckpt = named + 1]]
             /\ named' = named + 1
             /\ temp' = temp \cup
                  {[no |-> named + 1, strat |-> job[j].strat, rows |-> Remaining(j)]}
    <3>1. named + 1 \in Nat
      BY DEF TypeOK, RestOK
    <3> QED
      BY <1>2, <2>2, <3>1
  <2>3. CASE /\ job' = [job EXCEPT ![j] = [b EXCEPT !.ckpt = 0]]
             /\ UNCHANGED <<temp, named>>
    <3>1. 0 \in Nat
      OBVIOUS
    <3> QED
      BY <1>2, <2>3, <3>1
  <2>4. CASE job' = [job EXCEPT ![j] = IdleJob] /\ UNCHANGED <<temp, named>>
    BY <2>4
  <2> QED
    BY <2>1, <2>2, <2>3, <2>4 DEF Checkpoint
<1>4. job'[j] = c /\ Others(j, {}) /\ job' = [k \in Jobs |-> job'[k]]
  BY <1>3, OneSteps DEF TypeOK
<1>5. Calm /\ SameBooks /\ owed' = owed /\ first' = first /\ key' = key
  BY DEF db, ghost, Calm, SameBooks, SameGhosts
<1>6. HasTaken(j)
  BY <1>3, <1>4, <1>5 DEF HasTaken, SameFiles
<1> QED
  BY <1>4, <1>5, <1>6 DEF Effect, TypeOK, VaultOK

LEMMA TakeEffect ==
  ASSUME TypeOK, NEW j \in Jobs, TakeRow(j)
  PROVE  Effect
<1> DEFINE r == job[j]
<1>1. UNCHANGED <<db, key, next, backups, ui, left, ghost>>
  BY DEF TakeRow
<1>2. AtRow(j)
  BY DEF TakeRow, RowRefused, RowSkipped, RowReplaces, RowMerges, RowCreates
<1>3. r \in Works /\ r.pc = "row" /\ r.i \in Nat \ {0}
  BY <1>2 DEF TypeOK, JobsOK, AtRow, Works
<1>4. /\ Row(j) \in FileRows /\ ConflictKey(j) \in Keys /\ Hit(j) \in 0..Dangling
      /\ RowKey(j) \in Keys
  BY <1>2, RowOK DEF TypeOK, AtRow
<1>5. /\ Row(j).t \in Titles /\ Row(j).u \in Users /\ Row(j).data \in Datas /\ Row(j).id \in 1..Dangling
      /\ Row(j).tags \in {"text", "list", "nil"} /\ Dangling \in 1..Dangling
      /\ Hit(j) # 0 => Hit(j) \in 1..Dangling
  BY <1>4, ImportAssumption DEF FileRows, Ids, Dangling
<1>6. CASE RowRefused(j)
  <2> DEFINE b == Failed(r)
  <2>1. b \in Works /\ b.pc = "row"
    BY <1>3, DoneOK
  <2>2. /\ b.rows = r.rows /\ b.strat = r.strat /\ b.from = r.from /\ b.backed = r.backed
        /\ b.i = r.i + 1 /\ b.blind = r.blind /\ b.touched = r.touched
        /\ b.index = r.index /\ b.ckpt = r.ckpt
    BY <1>3 DEF Works, Failed
  <2>3. Checkpoint(j, b)
    BY <1>6 DEF RowRefused
  <2> HIDE DEF b
  <2>4. Branches(b, r)
    BY <1>3, <2>1, <2>2 DEF Branches, Proceeds, Onward, AtWork
  <2> QED
    BY <1>1, <1>2, <2>2, <2>3, <2>4, CheckpointEffect
<1>7. CASE RowSkipped(j)
  <2> DEFINE b == [r EXCEPT !.i = @ + 1]
  <2>1. r.i + 1 \in Nat \ {0}
    BY <1>3
  <2>2. b \in Works /\ b.pc = "row"
    BY <1>3, <2>1 DEF Works
  <2>3. /\ b.rows = r.rows /\ b.strat = r.strat /\ b.from = r.from /\ b.backed = r.backed
        /\ b.i = r.i + 1 /\ b.blind = r.blind /\ b.touched = r.touched
        /\ b.index = r.index /\ b.ckpt = r.ckpt
    BY <1>3 DEF Works
  <2>4. Checkpoint(j, b)
    BY <1>7 DEF RowSkipped
  <2> HIDE DEF b
  <2>5. Branches(b, r)
    BY <1>3, <2>2, <2>3 DEF Branches, Proceeds, Onward, AtWork
  <2> QED
    BY <1>1, <1>2, <2>3, <2>4, <2>5, CheckpointEffect
<1>8. CASE RowReplaces(j)
  <2> DEFINE b == [r EXCEPT !.pc = "update", !.id = Hit(j), !.data = Row(j).data,
                            !.key = RowKey(j), !.tags = Row(j).tags]
  <2>1. Checkpoint(j, b) /\ Hit(j) # 0 /\ r.strat = "replace"
    BY <1>8 DEF RowReplaces
  <2>2. "update" \in {"idle", "index", "row"} \cup AtWork
    BY DEF AtWork
  <2>3. b \in Works
    BY <1>3, <1>4, <1>5, <2>1, <2>2 DEF Works
  <2>4. /\ b.rows = r.rows /\ b.strat = r.strat /\ b.from = r.from /\ b.backed = r.backed
        /\ b.i = r.i /\ b.blind = r.blind /\ b.touched = r.touched
        /\ b.index = r.index /\ b.ckpt = r.ckpt /\ b.pc = "update"
    BY <1>3 DEF Works
  <2> HIDE DEF b
  <2>5. Branches(b, r)
    BY <1>3, <2>1, <2>3, <2>4 DEF Branches, Proceeds, Onward
  <2> QED
    BY <1>1, <1>2, <2>1, <2>4, <2>5, CheckpointEffect
<1>9. CASE RowMerges(j)
  <2> DEFINE b == [r EXCEPT !.pc = "read", !.id = Hit(j)]
  <2>1. Checkpoint(j, b) /\ Hit(j) # 0 /\ r.strat = "merge"
    BY <1>9 DEF RowMerges
  <2>2. "read" \in {"idle", "index", "row"} \cup AtWork
    BY DEF AtWork
  <2>3. b \in Works
    BY <1>3, <1>5, <2>1, <2>2 DEF Works
  <2>4. /\ b.rows = r.rows /\ b.strat = r.strat /\ b.from = r.from /\ b.backed = r.backed
        /\ b.i = r.i /\ b.blind = r.blind /\ b.touched = r.touched
        /\ b.index = r.index /\ b.ckpt = r.ckpt /\ b.pc = "read"
    BY <1>3 DEF Works
  <2> HIDE DEF b
  <2>5. Branches(b, r)
    BY <1>3, <2>1, <2>3, <2>4 DEF Branches, Proceeds, Onward
  <2> QED
    BY <1>1, <1>2, <2>1, <2>4, <2>5, CheckpointEffect
<1>10. CASE RowCreates(j)
  <2> DEFINE id == IF Hit(j) = 0 THEN Row(j).id ELSE Dangling
             k  == IF Hit(j) = 0 THEN RowKey(j)
                   ELSE [RowKey(j) EXCEPT !.t = Strip[@], !.n = FreeSuffix(j)]
             b  == [r EXCEPT !.pc = "create", !.data = Row(j).data, !.tags = Row(j).tags,
                             !.id = id, !.key = k]
  <2>1. Checkpoint(j, b) /\ (Hit(j) # 0 => r.strat = "rename" /\ \E n \in 1..MaxSuffix : Free(j, n))
    BY <1>10 DEF RowCreates
  <2>2. k \in Keys
    <3>1. CASE Hit(j) = 0
      BY <1>4, <3>1
    <3>2. CASE Hit(j) # 0
      <4>1. FreeSuffix(j) \in 1..MaxSuffix
        BY <2>1, <3>2, SuffixOK
      <4>2. FreeSuffix(j) \in 0..MaxSuffix
        BY <4>1, ImportAssumption
      <4>3. [RowKey(j) EXCEPT !.t = Strip[@], !.n = FreeSuffix(j)] \in Keys
        BY <1>5, <4>2, ImportAssumption DEF RowKey, Keys
      <4> QED
        BY <3>2, <4>3
    <3> QED
      BY <3>1, <3>2
  <2>3. id \in 1..Dangling
    BY <1>5
  <2>4. Hit(j) = 0 => k = RowKey(j) /\ r.index[ConflictKey(j)] = 0
    BY DEF Hit
  <2> HIDE DEF id, k
  <2>5. "create" \in {"idle", "index", "row"} \cup AtWork
    BY DEF AtWork
  <2>6. b \in Works
    BY <1>3, <1>5, <2>2, <2>3, <2>5 DEF Works
  <2>7. /\ b.rows = r.rows /\ b.strat = r.strat /\ b.from = r.from /\ b.backed = r.backed
        /\ b.i = r.i /\ b.blind = r.blind /\ b.touched = r.touched
        /\ b.index = r.index /\ b.ckpt = r.ckpt /\ b.pc = "create" /\ b.key = k
    BY <1>3 DEF Works
  <2> HIDE DEF b
  <2>8. b.strat = "skip" /\ Stripped(b.key) = b.key => b.index[b.key] = 0
    <3>1. SUFFICES ASSUME b.strat = "skip", Stripped(b.key) = b.key PROVE b.index[b.key] = 0
      OBVIOUS
    <3>2. k = RowKey(j) /\ r.index[ConflictKey(j)] = 0
      BY <2>1, <2>4, <2>7, <3>1
    <3>3. RowKey(j) = ConflictKey(j)
      BY <2>7, <3>1, <3>2 DEF ConflictKey
    <3> QED
      BY <2>7, <3>2, <3>3
  <2>9. Branches(b, r)
    BY <1>3, <2>6, <2>7, <2>8 DEF Branches, Proceeds, Onward
  <2> QED
    BY <1>1, <1>2, <2>1, <2>7, <2>9, CheckpointEffect
<1> QED
  BY <1>6, <1>7, <1>8, <1>9, <1>10 DEF TakeRow

\* A row that failed, or is done: the thread goes to the next one.
LEMMA NextRow ==
  ASSUME TypeOK, NEW j \in Jobs, NEW c, c \in {Succeeded(job[j]), Failed(job[j])},
         job[j].pc \in {"create", "read", "update", "updated"},
         job' = [job EXCEPT ![j] = c], Vaultwide, SameFiles, SameBooks,
         first' = first, key' = key
  PROVE  Effect
<1>1. job[j] \in Works
  BY DEF TypeOK, JobsOK
<1>2. c \in Works /\ c.pc = "row"
  BY <1>1, DoneOK
<1>3. /\ c.rows = job[j].rows /\ c.strat = job[j].strat /\ c.from = job[j].from
      /\ c.backed = job[j].backed /\ c.i >= job[j].i /\ c.blind = job[j].blind
      /\ c.touched = job[j].touched /\ c.index = job[j].index /\ c.ckpt = job[j].ckpt
  <2>1. CASE c = Succeeded(job[j])
    BY <1>1, <2>1 DEF Succeeded, Works
  <2>2. CASE c = Failed(job[j])
    BY <1>1, <2>2 DEF Failed, Works
  <2> QED
    BY <2>1, <2>2
<1>4. Proceeds(c, job[j])
  BY <1>2, <1>3 DEF Proceeds, Onward, AtWork
<1>5. job'[j] = c /\ Others(j, {}) /\ job' = [k \in Jobs |-> job'[k]]
  BY OneSteps DEF TypeOK
<1>6. HasProceeded(j)
  BY <1>2, <1>3, <1>4, <1>5 DEF HasProceeded
<1> QED
  BY <1>5, <1>6 DEF Effect, TypeOK, VaultOK

LEMMA CreateEffect ==
  ASSUME TypeOK, NEW j \in Jobs, Create(j)
  PROVE  Effect
<1>1. /\ job[j].pc = "create" /\ SameFiles /\ SameGhosts /\ counted' = counted
      /\ first' = first /\ key' = key
  BY DEF Create, SameFiles, SameGhosts
<1>2. CASE job' = [job EXCEPT ![j] = Failed(@)] /\ UNCHANGED <<db, next, torn>>
  BY <1>1, <1>2, NextRow DEF Vaultwide, Calm, db, SameBooks
<1>3. CASE job' = [job EXCEPT ![j] = Failed(@)] /\ Rollback /\ TakenBack /\ UNCHANGED next
  BY <1>1, <1>3, NextRow DEF Vaultwide, RolledBack, Rollback, SameBooks
<1>4. CASE /\ next <= MaxId /\ next' = next + 1
           /\ Write([view EXCEPT ![next] = [key |-> job[j].key, data |-> job[j].data]])
           /\ job' = Touched(Jobs \ {j}, next,
                [job EXCEPT ![j].pc = "created", ![j].made = next])
           /\ UNCHANGED torn
  <2> DEFINE c == [job[j] EXCEPT !.pc = "created", !.made = next]
             b == [job EXCEPT ![j] = c]
             e == [key |-> job[j].key, data |-> job[j].data]
  <2>1. job[j] \in Works /\ next \in Ids /\ next \in 1..Dangling
    BY <1>4, ImportAssumption DEF TypeOK, JobsOK, VaultOK, Ids, Dangling
  <2>2. "created" \in {"idle", "index", "row"} \cup AtWork
    BY DEF AtWork
  <2>3. c \in Works
    BY <2>1, <2>2 DEF Works
  <2>4. /\ c.rows = job[j].rows /\ c.strat = job[j].strat /\ c.from = job[j].from
        /\ c.backed = job[j].backed /\ c.i = job[j].i /\ c.blind = job[j].blind
        /\ c.touched = job[j].touched /\ c.index = job[j].index /\ c.ckpt = job[j].ckpt
        /\ c.key = job[j].key /\ c.pc = "created" /\ c.made = next /\ c.i \in Nat
    BY <2>1 DEF Works
  <2>5. e \in Entries /\ e.key = job[j].key
    BY <2>1 DEF Works, Entries
  <2>6. view' = [view EXCEPT ![next] = e] /\ disk' = disk
    BY <1>4 DEF Write
  <2>7. job' = Touched(Jobs \ {j}, next, b)
    BY <1>4
  <2> HIDE DEF c, e
  <2>8. b \in [Jobs -> Works] /\ b[j] = c /\ \A k \in Jobs : k # j => b[k] = job[k]
    BY <2>3 DEF TypeOK, JobsOK
  <2> HIDE DEF b
  <2>9. /\ job' \in [Jobs -> Works] /\ job'[j] = b[j]
        /\ \A k \in Jobs : k # j => Follows(job'[k], b[k], {next})
    BY <2>1, <2>7, <2>8, TouchedOK
  <2>10. job'[j] = c /\ Others(j, {next}) /\ job' = [k \in Jobs |-> job'[k]]
    BY <2>8, <2>9 DEF Others
  <2>11. Proceeds(c, job[j])
    BY <2>3, <2>4 DEF Proceeds, Onward
  <2>12. HasMade(j)
    BY <1>1, <1>4, <2>1, <2>4, <2>5, <2>6, <2>10, <2>11 DEF HasMade
  <2> QED
    BY <1>1, <2>10, <2>12 DEF Effect, TypeOK, VaultOK
<1> QED
  BY <1>2, <1>3, <1>4 DEF Create

LEMMA CreatedEffect ==
  ASSUME TypeOK, NEW j \in Jobs, Created(j)
  PROVE  Effect
<1> DEFINE ix == [job[j].index EXCEPT ![job[j].key] = job[j].id]
           c  == [Succeeded(job[j]) EXCEPT !.index = ix]
<1>1. /\ job[j].pc = "created" /\ Committed /\ SameFiles /\ SameGhosts
      /\ counted' = counted \cup {job[j].made} /\ next' = next
      /\ first' = first /\ key' = key
  BY DEF Created, Commit, Committed, SameFiles, SameGhosts
<1>2. job[j] \in Works
  BY DEF TypeOK, JobsOK
<1>3. Succeeded(job[j]) \in Works /\ Succeeded(job[j]).pc = "row"
  BY <1>2, DoneOK
<1>4. /\ Succeeded(job[j]).rows = job[j].rows /\ Succeeded(job[j]).strat = job[j].strat
      /\ Succeeded(job[j]).from = job[j].from /\ Succeeded(job[j]).backed = job[j].backed
      /\ Succeeded(job[j]).i >= job[j].i /\ Succeeded(job[j]).blind = job[j].blind
      /\ Succeeded(job[j]).touched = job[j].touched
      /\ Succeeded(job[j]).index = job[j].index /\ Succeeded(job[j]).ckpt = job[j].ckpt
  BY <1>2 DEF Succeeded, Works
<1>5. /\ job[j].index \in [Keys -> 0..Dangling] /\ job[j].id \in 0..Dangling
      /\ job[j].id # 0 /\ job[j].key \in Keys
  <2>1. MaxId \in Nat
    BY ImportAssumption
  <2> QED
    BY <1>2, <2>1 DEF Works, Dangling
<1>6. ix \in [Keys -> 0..Dangling]
  BY <1>5
<1>7. \A k \in Keys : ix[k] # 0 <=> job[j].index[k] # 0 \/ k = job[j].key
  BY <1>5
<1>8. job' = [job EXCEPT ![j] = c]
  <2>1. Succeeded(job[j]).index = job[j].index
    BY <1>4
  <2>2. job' = [job EXCEPT ![j] = [Succeeded(job[j]) EXCEPT !.index =
           [Succeeded(job[j]).index EXCEPT ![job[j].key] = job[j].id]]]
    BY DEF Created
  <2> QED
    BY <2>1, <2>2
<1> DEFINE s == Succeeded(job[j])
<1> HIDE DEF ix, s
<1>9. s \in Works /\ c = [s EXCEPT !.index = ix]
  BY <1>3 DEF s
<1>10. c \in Works /\ c.index = ix
  BY <1>6, <1>9 DEF Works
<1>11. /\ c.rows = s.rows /\ c.strat = s.strat /\ c.from = s.from /\ c.backed = s.backed
       /\ c.i = s.i /\ c.blind = s.blind /\ c.touched = s.touched /\ c.ckpt = s.ckpt
       /\ c.pc = s.pc
  BY <1>9 DEF Works
<1> HIDE DEF c
<1>12. job'[j] = c /\ Others(j, {}) /\ job' = [k \in Jobs |-> job'[k]]
  BY <1>8, OneSteps DEF TypeOK
<1>13. Onward(c, job[j]) /\ c.pc = "row"
  BY <1>3, <1>4, <1>10, <1>11 DEF Onward, s
<1>14. c.blind = job[j].blind /\ c.touched = job[j].touched /\ c.ckpt = job[j].ckpt
  BY <1>4, <1>11 DEF s
<1>15. HasCounted(j)
  BY <1>1, <1>7, <1>10, <1>12, <1>13, <1>14 DEF HasCounted
<1> QED
  BY <1>1, <1>12, <1>15 DEF Effect, TypeOK, VaultOK

LEMMA ReadEffect ==
  ASSUME TypeOK, NEW j \in Jobs, ReadForMerge(j)
  PROVE  Effect
<1> DEFINE r   == Row(j)
           old == view[job[j].id]
           raw == RowKey(j)
<1>1. /\ job[j].pc = "read" /\ Calm /\ SameFiles /\ SameBooks
      /\ first' = first /\ key' = key
  BY DEF ReadForMerge, Calm, db, ghost, SameFiles, SameBooks, SameGhosts
<1>2. job[j] \in Works /\ job[j].i <= Len(job[j].rows) /\ job[j].i \in Nat
  BY <1>1 DEF TypeOK, JobsOK, AtWork, Works
<1>3. r \in FileRows /\ raw \in Keys
  BY <1>2, RowOK DEF TypeOK
<1>4. r.data \in Datas /\ r.tags \in {"text", "list", "nil"}
  BY <1>3 DEF FileRows
<1>5. old # Gone /\ job[j].id # Dangling => Merged(old, r) \in Datas
  <2>1. SUFFICES ASSUME old # Gone, job[j].id # Dangling PROVE Merged(old, r) \in Datas
    OBVIOUS
  <2>2. job[j].id \in Ids
    BY <1>2, <2>1, ImportAssumption DEF Works, Ids, Dangling
  <2>3. old \in Entries
    BY <2>1, <2>2 DEF TypeOK, VaultOK, VaultStates
  <2> QED
    BY <1>3, <2>3, MergedOK
<1>6. CASE job' = [job EXCEPT ![j] = Failed(job[j])]
  BY <1>1, <1>6, NextRow DEF Vaultwide
<1>7. ASSUME NEW data \in Datas, NEW tags \in {"text", "list", "nil"},
             job' = [job EXCEPT ![j] = [job[j] EXCEPT !.pc = "update", !.key = raw,
                                                      !.data = data, !.tags = tags]]
      PROVE  Effect
  <2> DEFINE c == [job[j] EXCEPT !.pc = "update", !.key = raw, !.data = data, !.tags = tags]
  <2>1. "update" \in {"idle", "index", "row"} \cup AtWork
    BY DEF AtWork
  <2>2. c \in Works
    BY <1>2, <1>3, <2>1 DEF Works
  <2>3. /\ c.rows = job[j].rows /\ c.strat = job[j].strat /\ c.from = job[j].from
        /\ c.backed = job[j].backed /\ c.i = job[j].i /\ c.blind = job[j].blind
        /\ c.touched = job[j].touched /\ c.index = job[j].index /\ c.ckpt = job[j].ckpt
        /\ c.pc = "update"
    BY <1>2 DEF Works
  <2> HIDE DEF c
  <2>4. job'[j] = c /\ Others(j, {}) /\ job' = [k \in Jobs |-> job'[k]]
    BY <1>7, OneSteps DEF TypeOK, c
  <2>5. Proceeds(c, job[j])
    BY <1>2, <2>2, <2>3 DEF Proceeds, Onward
  <2>6. HasProceeded(j)
    BY <1>1, <2>3, <2>4, <2>5 DEF HasProceeded, Vaultwide
  <2> QED
    BY <1>1, <2>4, <2>6 DEF Effect, TypeOK, VaultOK
<1>8. \/ job' = [job EXCEPT ![j] = Failed(job[j])]
      \/ \E data \in Datas, tags \in {"text", "list", "nil"} :
           job' = [job EXCEPT ![j] = [job[j] EXCEPT !.pc = "update", !.key = raw,
                                                    !.data = data, !.tags = tags]]
  <2>1. CASE job[j].id = Dangling \/ old = Gone
    <3>1. job' = [job EXCEPT ![j] = [job[j] EXCEPT !.pc = "update", !.key = raw,
                                                   !.data = r.data, !.tags = r.tags]]
      BY <2>1 DEF ReadForMerge
    <3> QED
      BY <1>4, <3>1
  <2>2. CASE ~(job[j].id = Dangling \/ old = Gone) /\ ~key
    BY <2>2 DEF ReadForMerge
  <2>3. CASE ~(job[j].id = Dangling \/ old = Gone) /\ key
    <3> DEFINE tags == IF r.tags = "nil" THEN "text" ELSE r.tags
    <3>1. job' = [job EXCEPT ![j] = [job[j] EXCEPT !.pc = "update", !.key = raw,
                                                   !.data = Merged(old, r), !.tags = tags]]
      BY <2>3 DEF ReadForMerge
    <3>2. tags \in {"text", "list", "nil"}
      BY <1>4
    <3> HIDE DEF tags
    <3> QED
      BY <1>5, <2>3, <3>1, <3>2
  <2> QED
    BY <2>1, <2>2, <2>3
<1> QED
  BY <1>6, <1>7, <1>8

LEMMA UpdateEffect ==
  ASSUME TypeOK, NEW j \in Jobs, Update(j)
  PROVE  Effect
<1> DEFINE n == job[j].id
<1>1. /\ job[j].pc = "update" /\ SameFiles /\ mine' = mine /\ backups' = backups
      /\ counted' = counted /\ next' = next /\ first' = first /\ key' = key
  BY DEF Update, SameFiles
<1>2. job[j] \in Works
  BY DEF TypeOK, JobsOK
<1>3. CASE job' = [job EXCEPT ![j] = Succeeded(@)] /\ UNCHANGED <<db, torn, bare>>
  BY <1>1, <1>3, NextRow DEF Vaultwide, Calm, db, SameBooks, SameGhosts
<1>4. CASE job' = [job EXCEPT ![j] = Failed(@)] /\ UNCHANGED <<db, torn, bare>>
  BY <1>1, <1>4, NextRow DEF Vaultwide, Calm, db, SameBooks, SameGhosts
<1>5. CASE job' = [job EXCEPT ![j] = Failed(@)] /\ Rollback /\ TakenBack /\ UNCHANGED bare
  BY <1>1, <1>5, NextRow DEF Vaultwide, RolledBack, Rollback, SameBooks, SameGhosts
<1>6. CASE /\ n # Dangling /\ view[n] # Gone
           /\ Write([view EXCEPT ![n] = [key |-> job[j].key, data |-> job[j].data]])
           /\ job' = Touched(Jobs \ {j}, n, [job EXCEPT ![j].pc = "updated"])
           /\ bare' = IF job[j].backed THEN bare ELSE bare \cup {n}
           /\ UNCHANGED torn
  <2> DEFINE c == [job[j] EXCEPT !.pc = "updated"]
             b == [job EXCEPT ![j] = c]
             e == [key |-> job[j].key, data |-> job[j].data]
  <2>1. n \in Ids
    BY <1>2, <1>6, ImportAssumption DEF Works, Ids, Dangling
  <2>2. "updated" \in {"idle", "index", "row"} \cup AtWork
    BY DEF AtWork
  <2>3. c \in Works
    BY <1>2, <2>2 DEF Works
  <2>4. /\ c.rows = job[j].rows /\ c.strat = job[j].strat /\ c.from = job[j].from
        /\ c.backed = job[j].backed /\ c.i = job[j].i /\ c.blind = job[j].blind
        /\ c.touched = job[j].touched /\ c.index = job[j].index /\ c.ckpt = job[j].ckpt
        /\ c.pc = "updated" /\ c.i \in Nat
    BY <1>2 DEF Works
  <2>5. e \in Entries
    BY <1>2 DEF Works, Entries
  <2>6. view' = [view EXCEPT ![n] = e] /\ disk' = disk
    BY <1>6 DEF Write
  <2>7. job' = Touched(Jobs \ {j}, n, b)
    BY <1>6
  <2> HIDE DEF c, e
  <2>8. b \in [Jobs -> Works] /\ b[j] = c /\ \A k \in Jobs : k # j => b[k] = job[k]
    BY <2>3 DEF TypeOK, JobsOK
  <2> HIDE DEF b
  <2>9. /\ job' \in [Jobs -> Works] /\ job'[j] = b[j]
        /\ \A k \in Jobs : k # j => Follows(job'[k], b[k], {n})
    BY <2>1, <2>7, <2>8, TouchedOK
  <2>10. job'[j] = c /\ Others(j, {n}) /\ job' = [k \in Jobs |-> job'[k]]
    BY <2>8, <2>9 DEF Others
  <2>11. Proceeds(c, job[j])
    BY <2>3, <2>4 DEF Proceeds, Onward
  <2>12. /\ view[n] # Gone /\ view' = [view EXCEPT ![n] = e] /\ Others(j, {n})
         /\ bare' = IF job[j].backed THEN bare ELSE bare \cup {n}
    BY <1>6, <2>6, <2>10
  <2>13. HasOverwritten(j)
    BY <1>1, <1>6, <2>1, <2>4, <2>5, <2>6, <2>10, <2>11, <2>12 DEF HasOverwritten
  <2> QED
    BY <1>1, <2>10, <2>13 DEF Effect, TypeOK, VaultOK
<1> QED
  BY <1>3, <1>4, <1>5, <1>6 DEF Update

LEMMA UpdatedEffect ==
  ASSUME TypeOK, NEW j \in Jobs, Updated(j)
  PROVE  Effect
BY NextRow DEF Updated, Commit, Vaultwide, Committed, SameFiles, SameBooks, SameGhosts, ghost

LEMMA FinishEffect ==
  ASSUME TypeOK, NEW j \in Jobs, Finish(j)
  PROVE  Effect
<1>1. job'[j] = IdleJob /\ Others(j, {}) /\ job' = [k \in Jobs |-> job'[k]]
  BY OneSteps DEF TypeOK, Finish
<1>2. /\ Calm \/ Committed
      /\ SameBooks /\ named' = named /\ first' = first /\ key' = key
  BY DEF Finish, Commit, db, Calm, Committed, SameBooks, SameGhosts
<1>3. HasEnded(j)
  BY <1>1, <1>2 DEF HasEnded, Finish
<1> QED
  BY <1>1, <1>2, <1>3 DEF Effect, TypeOK, VaultOK

\* The user writes one entry, and every import notes it.
LEMMA MineEffect ==
  ASSUME TypeOK, NEW n \in Ids, NEW v \in Entries \cup {Gone}, MineToo(n, v),
         (view[n] # Gone /\ next' = next) \/ (n = next /\ next' = next + 1),
         UNCHANGED <<key, temp, named, backups, first, counted, torn, bare, owed>>
  PROVE  Effect
<1>1. /\ view' = [view EXCEPT ![n] = v] /\ disk' = disk /\ mine' = mine \cup {n}
      /\ job' = Touched(Jobs, n, job)
  BY DEF MineToo, Write
<1>2. job' \in [Jobs -> Works] /\ \A k \in Jobs : Follows(job'[k], job[k], {n})
  BY <1>1, TouchedOK DEF TypeOK, JobsOK
<1>3. HasEdited
  BY <1>1, <1>2 DEF HasEdited, SameFiles
<1> QED
  BY <1>2, <1>3 DEF Effect, TypeOK, VaultOK

LEMMA RestEffect ==
  ASSUME TypeOK, job' = job, Vaultwide, SameFiles, SameBooks, first' = first,
         key' \in BOOLEAN
  PROVE  Effect
<1>1. job \in [Jobs -> Works] /\ \A k \in Jobs : job[k] \in Works
  BY DEF TypeOK, JobsOK
<1>2. \A k \in Jobs : Follows(job'[k], job[k], {})
  BY <1>1, FollowsItself
<1>3. HasRested
  BY <1>2 DEF HasRested
<1> QED
  BY <1>1, <1>3 DEF Effect

\* Every step is one of these.
LEMMA StepEffect ==
  ASSUME TypeOK, [Next]_vars
  PROVE  Effect
<1>1. ASSUME NEW j \in Jobs, Start(j) \/ Resume(j) \/ Step(j) PROVE Effect
  BY <1>1, BeginEffect, LoadEffect, TakeEffect, CreateEffect, CreatedEffect, ReadEffect,
     UpdateEffect, UpdatedEffect, FinishEffect DEF Step
<1>2. CASE UserAdds
  <2>1. PICK t \in Titles, u \in Users :
          MineToo(next, [key |-> [t |-> t, n |-> 0, u |-> u],
                         data |-> [f \in Fields |-> "edit"]])
    BY <1>2 DEF UserAdds
  <2>2. [key |-> [t |-> t, n |-> 0, u |-> u], data |-> [f \in Fields |-> "edit"]] \in Entries
    <3>1. 0 \in 0..MaxSuffix
      BY ImportAssumption
    <3>2. [t |-> t, n |-> 0, u |-> u] \in Keys
      BY <3>1 DEF Keys
    <3>3. [f \in Fields |-> "edit"] \in Datas
      BY DEF Datas, Values
    <3> QED
      BY <3>2, <3>3 DEF Entries
  <2>3. next \in Ids
    BY <1>2 DEF UserAdds, TypeOK, VaultOK, Ids
  <2> QED
    BY <1>2, <2>1, <2>2, <2>3, MineEffect DEF UserAdds
<1>3. CASE UserOpens
  BY <1>3, RestEffect DEF UserOpens, db, ghost, Vaultwide, Calm, SameFiles, SameBooks,
     SameGhosts, TypeOK, VaultOK
<1>4. CASE UserSaves
  <2>1. CASE /\ key /\ view[ui.id] # Gone
             /\ MineToo(ui.id, [view[ui.id] EXCEPT !.data = [ui.data EXCEPT !["pw"] = "edit"]])
    <3>1. ui.id \in Ids /\ ui.data \in Datas /\ view[ui.id] \in Entries
      BY <1>4, <2>1 DEF UserSaves, TypeOK, RestOK, VaultOK, VaultStates
    <3>2. [ui.data EXCEPT !["pw"] = "edit"] \in Datas
      BY <3>1 DEF Datas, Values
    <3>3. [view[ui.id] EXCEPT !.data = [ui.data EXCEPT !["pw"] = "edit"]] \in Entries
      BY <3>1, <3>2 DEF Entries
    <3>4. UNCHANGED <<key, next, temp, named, backups, first, counted, torn, bare, owed>>
      BY <1>4 DEF UserSaves
    <3> DEFINE v == [view[ui.id] EXCEPT !.data = [ui.data EXCEPT !["pw"] = "edit"]]
    <3>5. v \in Entries \cup {Gone} /\ MineToo(ui.id, v)
      BY <2>1, <3>3
    <3> HIDE DEF v
    <3> QED
      BY <2>1, <3>1, <3>4, <3>5, MineEffect
  <2>2. CASE UNCHANGED <<db, mine, job>>
    BY <1>4, <2>2, RestEffect DEF UserSaves, db, Vaultwide, Calm, SameFiles, SameBooks,
       SameGhosts, TypeOK, VaultOK
  <2> QED
    BY <1>4, <2>1, <2>2 DEF UserSaves
<1>5. CASE UserDeletes
  <2>1. PICK n \in Present(view) : MineToo(n, Gone)
    BY <1>5 DEF UserDeletes
  <2>2. n \in Ids /\ view[n] # Gone /\ Gone \in Entries \cup {Gone}
    BY DEF Present
  <2>3. UNCHANGED <<key, next, temp, named, backups, first, counted, torn, bare, owed>>
    BY <1>5 DEF UserDeletes
  <2> QED
    BY <2>1, <2>2, <2>3, MineEffect
<1>6. CASE UserCommits
  BY <1>6, RestEffect DEF UserCommits, Commit, ghost, Vaultwide, Committed, SameFiles,
     SameBooks, SameGhosts, TypeOK, VaultOK
<1>7. CASE UserRotates
  BY <1>7, RestEffect DEF UserRotates, Rollback, Vaultwide, RolledBack, SameFiles,
     SameBooks, SameGhosts, TypeOK, VaultOK
<1>8. CASE OtherCommit
  BY <1>8, RestEffect DEF OtherCommit, Commit, ghost, Vaultwide, Committed, SameFiles,
     SameBooks, SameGhosts, TypeOK, VaultOK
<1>9. CASE Lock
  BY <1>9, RestEffect DEF Lock, db, ghost, Vaultwide, Calm, SameFiles, SameBooks, SameGhosts
<1>10. CASE Unlock
  BY <1>10, RestEffect DEF Unlock, db, ghost, Vaultwide, Calm, SameFiles, SameBooks,
     SameGhosts
<1>11. CASE Crash
  <2>1. job' = [k \in Jobs |-> IdleJob]
    BY <1>11 DEF Crash
  <2>2. (\A k \in Jobs : job'[k] = IdleJob) /\ job' = [k \in Jobs |-> job'[k]]
    BY <2>1
  <2>3. HasCrashed
    BY <1>11, <2>2 DEF Crash, Reopen, Rollback, HasCrashed, RolledBack, SameBooks, SameGhosts
  <2> QED
    BY <1>11, <2>2, <2>3 DEF Crash, Effect
<1>12. CASE UNCHANGED vars
  BY <1>12, RestEffect DEF vars, db, ghost, Vaultwide, Calm, SameFiles, SameBooks,
     SameGhosts, TypeOK, VaultOK
<1> QED
  BY <1>1, <1>2, <1>3, <1>4, <1>5, <1>6, <1>7, <1>8, <1>9, <1>10, <1>11, <1>12 DEF Next

\* The files and the form, which the effects do not speak of, keep their types.
LEMMA RestStep ==
  ASSUME TypeOK, [Next]_vars
  PROVE  RestOK'
<1>1. /\ temp \subseteq Saves /\ named \in Nat
      /\ ui \in [pc : {"idle", "form", "write"}, id : 1..Dangling, data : Datas]
      /\ ui.pc = "form" => ui.id \in Ids
  BY DEF TypeOK, RestOK
<1>2. IdleUi \in [pc : {"idle", "form", "write"}, id : 1..Dangling, data : Datas]
      /\ IdleUi.pc = "idle"
  <2>1. NoData \in Datas /\ Dangling \in 1..Dangling
    BY ImportAssumption DEF NoData, Datas, Values, Dangling
  <2> QED
    BY <2>1 DEF IdleUi
<1>3. ASSUME NEW n \in Ids, NEW v, MineToo(n, v), temp' = temp, named' = named
      PROVE  RestOK'
  <2>1. n \in 1..Dangling
    BY ImportAssumption DEF Ids, Dangling
  <2>2. /\ [IdleUi EXCEPT !.pc = "write", !.id = n] \in
              [pc : {"idle", "form", "write"}, id : 1..Dangling, data : Datas]
        /\ [IdleUi EXCEPT !.pc = "write", !.id = n].pc = "write"
    BY <1>2, <2>1
  <2> QED
    BY <1>1, <1>3, <2>2 DEF MineToo, RestOK
<1>4. ASSUME NEW j \in Jobs, TakeRow(j) PROVE RestOK'
  <2>1. AtRow(j) /\ ui' = ui
    BY <1>4 DEF TakeRow, RowRefused, RowSkipped, RowReplaces, RowMerges, RowCreates
  <2>2. PICK b : Checkpoint(j, b)
    BY <1>4 DEF TakeRow, RowRefused, RowSkipped, RowReplaces, RowMerges, RowCreates
  <2>3. job[j] \in Works /\ job[j].i <= Len(job[j].rows)
    BY <2>1 DEF TypeOK, JobsOK, AtRow
  <2>4. Remaining(j) \in Seq(FileRows) /\ job[j].strat \in Strategies
    BY <2>3, RowsLeft DEF Works, Remaining
  <2>5. [no |-> named + 1, strat |-> job[j].strat, rows |-> Remaining(j)] \in Saves
    BY <1>1, <2>4 DEF Saves
  <2>6. \/ temp' = temp /\ named' = named
        \/ /\ named' = named + 1
           /\ temp' = temp \cup
                {[no |-> named + 1, strat |-> job[j].strat, rows |-> Remaining(j)]}
    BY <2>2 DEF Checkpoint
  <2> QED
    BY <1>1, <2>1, <2>5, <2>6 DEF RestOK
<1>5. ASSUME NEW j \in Jobs, Start(j) \/ Resume(j) PROVE RestOK'
  BY <1>1, <1>5 DEF Start, Resume, Begin, RestOK
<1>6. ASSUME NEW j \in Jobs,
             LoadIndex(j) \/ Create(j) \/ Created(j) \/ ReadForMerge(j) \/ Update(j)
             \/ Updated(j)
      PROVE  temp' = temp /\ named' = named /\ ui' = ui
  BY <1>6 DEF LoadIndex, Create, Created, ReadForMerge, Update, Updated
<1>7. ASSUME NEW j \in Jobs, Finish(j) PROVE RestOK'
  BY <1>1, <1>7 DEF Finish, RestOK
<1>8. CASE UserAdds
  <2>1. next \in Ids
    BY <1>8 DEF UserAdds, TypeOK, VaultOK, Ids
  <2> QED
    BY <1>3, <1>8, <2>1 DEF UserAdds
<1>9. CASE UserOpens
  <2>1. PICK n \in Present(view) : ui' = [pc |-> "form", id |-> n, data |-> view[n].data]
    BY <1>9 DEF UserOpens
  <2>2. n \in Ids /\ n \in 1..Dangling /\ view[n].data \in Datas
    BY ImportAssumption DEF TypeOK, VaultOK, VaultStates, Entries, Present, Ids, Dangling
  <2> QED
    BY <1>1, <1>9, <2>1, <2>2 DEF UserOpens, RestOK
<1>10. CASE UserSaves
  BY <1>1, <1>2, <1>3, <1>10 DEF UserSaves, RestOK
<1>11. CASE UserDeletes
  BY <1>3, <1>11 DEF UserDeletes, Present
<1>12. CASE UserCommits
  BY <1>1, <1>2, <1>12 DEF UserCommits, RestOK
<1>13. CASE Crash
  BY <1>1, <1>2, <1>13 DEF Crash, RestOK
<1>14. CASE UserRotates \/ OtherCommit \/ Lock \/ Unlock \/ UNCHANGED vars
  BY <1>1, <1>14 DEF UserRotates, OtherCommit, Lock, Unlock, vars, RestOK
<1> QED
  BY <1>1, <1>4, <1>5, <1>6, <1>7, <1>8, <1>9, <1>10, <1>11, <1>12, <1>13, <1>14
     DEF Next, Step, RestOK

\* Only what is there is overwritten, and a new entry has the next id.
LEMMA VaultStep ==
  ASSUME TypeOK, Effect
  PROVE  VaultOK'
<1>1. /\ view \in VaultStates /\ disk \in VaultStates /\ first \in VaultStates
      /\ next \in 1..MaxId + 1 /\ key' \in BOOLEAN /\ first' = first
      /\ \A n \in Ids : n >= next => view[n] = Gone /\ disk[n] = Gone /\ first[n] = Gone
  BY DEF TypeOK, VaultOK, Effect
<1>2. CASE Vaultwide /\ next' = next
  BY <1>1, <1>2 DEF VaultOK, Vaultwide, Calm, Committed, RolledBack
<1>3. ASSUME NEW n \in Ids, NEW v \in Entries \cup {Gone}, view' = [view EXCEPT ![n] = v],
             disk' = disk, (view[n] # Gone /\ next' = next) \/ (n = next /\ next' = next + 1)
      PROVE  VaultOK'
  <2>1. view' \in VaultStates /\ \A m \in Ids : m # n => view'[m] = view[m]
    BY <1>1, <1>3 DEF VaultStates
  <2>2. next' \in 1..MaxId + 1 /\ next' >= next /\ n < next'
    BY <1>1, <1>3, ImportAssumption DEF Ids
  <2>3. \A m \in Ids : m >= next' => m >= next /\ m # n
    BY <1>1, <2>2 DEF Ids
  <2> QED
    BY <1>1, <1>3, <2>1, <2>2, <2>3 DEF VaultOK
<1>4. ASSUME NEW j \in Jobs,
             HasBegun(j) \/ HasLoaded(j) \/ HasTaken(j) \/ HasCounted(j)
             \/ HasProceeded(j) \/ HasEnded(j)
      PROVE  Vaultwide /\ next' = next
  BY <1>4 DEF HasBegun, HasLoaded, HasTaken, HasCounted, HasProceeded, HasEnded, Vaultwide,
     SameBooks
<1>5. ASSUME NEW j \in Jobs, HasMade(j) PROVE VaultOK'
  BY <1>3, <1>5 DEF HasMade
<1>6. ASSUME NEW j \in Jobs, HasOverwritten(j) PROVE VaultOK'
  <2>1. PICK n \in Ids, e \in Entries : view[n] # Gone /\ view' = [view EXCEPT ![n] = e]
    BY <1>6 DEF HasOverwritten
  <2>2. disk' = disk /\ next' = next /\ e \in Entries \cup {Gone}
    BY <1>6 DEF HasOverwritten
  <2> QED
    BY <1>3, <2>1, <2>2
<1>7. CASE HasEdited
  <2>1. PICK n \in Ids, v \in Entries \cup {Gone} :
          /\ view' = [view EXCEPT ![n] = v]
          /\ (view[n] # Gone /\ next' = next) \/ (n = next /\ next' = next + 1)
    BY <1>7 DEF HasEdited
  <2>2. disk' = disk
    BY <1>7 DEF HasEdited
  <2> QED
    BY <1>3, <2>1, <2>2
<1>8. CASE HasRested \/ HasCrashed
  BY <1>2, <1>8 DEF HasRested, HasCrashed, Vaultwide, SameBooks
<1> QED
  BY <1>2, <1>4, <1>5, <1>6, <1>7, <1>8 DEF Effect

LEMMA JobsStep ==
  ASSUME TypeOK, Effect
  PROVE  JobsOK'
<1>1. /\ job \in [Jobs -> Works] /\ next \in Nat /\ next' \in Nat
      /\ \A j \in Jobs : job[j] \in Works
      /\ \A j \in Jobs : job[j].pc \in AtWork => job[j].i <= Len(job[j].rows)
      /\ \A j \in Jobs : job[j].pc = "created" => job[j].made \in Ids /\ job[j].made < next
  BY VaultStep, ImportAssumption DEF TypeOK, JobsOK, VaultOK, Effect
<1>2. next' >= next
  <2>1. ASSUME NEW j \in Jobs,
               HasBegun(j) \/ HasLoaded(j) \/ HasTaken(j) \/ HasCounted(j)
               \/ HasProceeded(j) \/ HasEnded(j) \/ HasOverwritten(j)
        PROVE  next' = next
    BY <2>1 DEF HasBegun, HasLoaded, HasTaken, HasCounted, HasProceeded, HasEnded,
       HasOverwritten, SameBooks
  <2>2. ASSUME NEW j \in Jobs, HasMade(j) PROVE next' = next + 1
    BY <2>2 DEF HasMade
  <2>3. ASSUME HasEdited PROVE next' = next \/ next' = next + 1
    BY <2>3 DEF HasEdited
  <2>4. ASSUME HasRested \/ HasCrashed PROVE next' = next
    BY <2>4 DEF HasRested, HasCrashed, SameBooks
  <2>5. next' = next \/ next' = next + 1
    BY <2>1, <2>2, <2>3, <2>4 DEF Effect
  <2> QED
    BY <1>1, <2>5
<1> DEFINE Fine(c) == /\ c \in Works
                      /\ c.pc \in AtWork => c.i <= Len(c.rows)
                      /\ c.pc = "created" => c.made \in Ids /\ c.made < next'
<1>3. ASSUME NEW k \in Jobs, NEW S, Follows(job'[k], job[k], S) PROVE Fine(job'[k])
  BY <1>1, <1>2, <1>3 DEF Follows, Ids
<1>4. Fine(IdleJob)
  BY IdleOK DEF AtWork
<1>5. ASSUME NEW k \in Jobs, Proceeds(job'[k], job[k]), job'[k].pc # "created",
             job[k].pc \in AtWork \/ AtRow(k)
      PROVE  Fine(job'[k])
  BY <1>1, <1>5 DEF Proceeds, Onward, AtRow
<1>6. ASSUME NEW j \in Jobs, NEW S, Others(j, S), Fine(job'[j])
      PROVE  \A k \in Jobs : Fine(job'[k])
  BY <1>3, <1>6 DEF Others
<1> HIDE DEF Fine
<1>7. ASSUME NEW j \in Jobs, HasBegun(j) PROVE \A k \in Jobs : Fine(job'[k])
  BY <1>6, <1>7 DEF HasBegun, Fine, AtWork
<1>8. ASSUME NEW j \in Jobs, HasLoaded(j) PROVE \A k \in Jobs : Fine(job'[k])
  BY <1>6, <1>8 DEF HasLoaded, Onward, Fine, AtWork
<1>9. ASSUME NEW j \in Jobs, HasTaken(j) PROVE \A k \in Jobs : Fine(job'[k])
  <2>1. Fine(job'[j])
    BY <1>4, <1>5, <1>9 DEF HasTaken, Branches
  <2> QED
    BY <1>6, <1>9, <2>1 DEF HasTaken
<1>10. ASSUME NEW j \in Jobs, HasMade(j) PROVE \A k \in Jobs : Fine(job'[k])
  <2>1. /\ job'[j] \in Works /\ job'[j].i = job[j].i /\ job'[j].rows = job[j].rows
        /\ job'[j].made \in Ids /\ job'[j].made < next'
        /\ job[j].i <= Len(job[j].rows)
    BY <1>1, <1>10 DEF HasMade, Proceeds, Onward, AtWork
  <2>2. Fine(job'[j])
    BY <2>1 DEF Fine
  <2> QED
    BY <1>6, <1>10, <2>2 DEF HasMade
<1>11. ASSUME NEW j \in Jobs, HasCounted(j) PROVE \A k \in Jobs : Fine(job'[k])
  BY <1>6, <1>11 DEF HasCounted, Onward, Fine, AtWork
<1>12. ASSUME NEW j \in Jobs, HasProceeded(j) PROVE \A k \in Jobs : Fine(job'[k])
  <2>1. Fine(job'[j])
    BY <1>5, <1>12 DEF HasProceeded, AtWork
  <2> QED
    BY <1>6, <1>12, <2>1 DEF HasProceeded
<1>13. ASSUME NEW j \in Jobs, HasOverwritten(j) PROVE \A k \in Jobs : Fine(job'[k])
  <2>1. Fine(job'[j])
    BY <1>5, <1>13 DEF HasOverwritten, AtWork
  <2> QED
    BY <1>6, <1>13, <2>1 DEF HasOverwritten
<1>14. ASSUME NEW j \in Jobs, HasEnded(j) PROVE \A k \in Jobs : Fine(job'[k])
  BY <1>4, <1>6, <1>14 DEF HasEnded
<1>15. ASSUME HasEdited \/ HasRested PROVE \A k \in Jobs : Fine(job'[k])
  BY <1>3, <1>15 DEF HasEdited, HasRested
<1>16. ASSUME HasCrashed PROVE \A k \in Jobs : Fine(job'[k])
  BY <1>4, <1>16 DEF HasCrashed
<1>17. \A k \in Jobs : Fine(job'[k])
  BY <1>7, <1>8, <1>9, <1>10, <1>11, <1>12, <1>13, <1>14, <1>15, <1>16 DEF Effect
<1>18. job' \in [Jobs -> Works]
  BY <1>17 DEF Effect, Fine
<1> QED
  BY <1>17, <1>18 DEF Fine, JobsOK

-------------------------------------------------------------------------------
(* What is counted is stored. *)

\* Where a new entry waits for its commit.
LEMMA CreatedBefore ==
  ASSUME TypeOK, Effect, NEW k \in Jobs, job'[k].pc = "created"
  PROVE  \/ job[k].pc = "created" /\ job'[k].made = job[k].made
         \/ HasMade(k)
<1>1. ASSUME NEW S, Follows(job'[k], job[k], S)
      PROVE  job[k].pc = "created" /\ job'[k].made = job[k].made
  BY <1>1 DEF Follows
<1>2. ASSUME NEW j \in Jobs,
             HasBegun(j) \/ HasLoaded(j) \/ HasTaken(j) \/ HasMade(j) \/ HasCounted(j)
             \/ HasProceeded(j) \/ HasOverwritten(j) \/ HasEnded(j), k # j
      PROVE  \E S : Follows(job'[k], job[k], S)
  BY <1>2 DEF HasBegun, HasLoaded, HasTaken, HasMade, HasCounted, HasProceeded,
     HasOverwritten, HasEnded, Others
<1>3. ~(HasBegun(k) \/ HasLoaded(k) \/ HasTaken(k) \/ HasCounted(k) \/ HasProceeded(k)
        \/ HasOverwritten(k) \/ HasEnded(k))
  BY IdleOK DEF HasBegun, HasLoaded, HasTaken, Branches, HasCounted, HasProceeded,
     HasOverwritten, HasEnded
<1>4. ASSUME HasEdited \/ HasRested PROVE \E S : Follows(job'[k], job[k], S)
  BY <1>4 DEF HasEdited, HasRested
<1>5. ~HasCrashed
  BY IdleOK DEF HasCrashed
<1> QED
  BY <1>1, <1>2, <1>3, <1>4, <1>5 DEF Effect

\* A commit or a rollback, by anybody, loses no entry without a trace.
LEMMA HeldAcross ==
  ASSUME Vaultwide, mine' = mine, NEW n \in Ids
  PROVE  /\ Held(view, n) => Held(view, n)'
         /\ Held(view, n) /\ Held(disk, n) => Held(disk, n)'
BY DEF Vaultwide, Calm, Committed, RolledBack, TakenBack, Present, Held

\* Nor does a write, of an entry that is not Gone or by the user.
LEMMA HeldWritten ==
  ASSUME VaultOK, NEW m \in Ids, NEW v, view' = [view EXCEPT ![m] = v], disk' = disk,
         torn' = torn, mine \subseteq mine', v # Gone \/ m \in mine', NEW n \in Ids
  PROVE  /\ Held(view, n) => Held(view, n)'
         /\ Held(disk, n) => Held(disk, n)'
         /\ Held(view, m)'
BY DEF VaultOK, VaultStates, Held

LEMMA CountedStep ==
  ASSUME TypeOK, CountedHeld, Effect
  PROVE  CountedHeld'
<1>1. /\ VaultOK /\ \A j \in Jobs : job[j].pc = "created" => job[j].made \in Ids
      /\ \A n \in counted : n \in Ids /\ Held(view, n) /\ Held(disk, n)
      /\ \A j \in Jobs : job[j].pc = "created" => Held(view, job[j].made)
  BY DEF TypeOK, JobsOK, CountedHeld
<1>2. ASSUME \A n \in Ids : Held(view, n) => Held(view, n)',
             \A n \in Ids : Held(view, n) /\ Held(disk, n) => Held(disk, n)',
             counted' = counted,
             \A k \in Jobs : HasMade(k) => Held(view, job[k].made)'
      PROVE  CountedHeld'
  <2>1. \A n \in counted' : n \in Ids /\ Held(view, n)' /\ Held(disk, n)'
    BY <1>1, <1>2
  <2>2. ASSUME NEW k \in Jobs, job'[k].pc = "created" PROVE Held(view, job[k].made)'
    <3>1. CASE job[k].pc = "created" /\ job'[k].made = job[k].made
      <4>1. Held(view, job[k].made) /\ job[k].made \in Ids
        BY <1>1, <3>1
      <4>2. PICK m : m = job[k].made
        OBVIOUS
      <4>3. Held(view, m)'
        BY <1>2, <4>1, <4>2
      <4> QED
        BY <3>1, <4>2, <4>3 DEF Held
    <3> QED
      BY <1>2, <2>2, <3>1, CreatedBefore
  <2> QED
    BY <2>1, <2>2 DEF CountedHeld
<1>3. ASSUME Vaultwide, mine' = mine, counted' = counted, \A k \in Jobs : ~HasMade(k)
      PROVE  CountedHeld'
  BY <1>2, <1>3, HeldAcross
<1>4. ASSUME NEW j \in Jobs,
             HasBegun(j) \/ HasLoaded(j) \/ HasTaken(j) \/ HasProceeded(j) \/ HasEnded(j)
      PROVE  CountedHeld'
  <2>1. Vaultwide /\ mine' = mine /\ counted' = counted /\ next' = next
    BY <1>4 DEF HasBegun, HasLoaded, HasTaken, HasProceeded, HasEnded, Vaultwide,
       SameBooks, SameGhosts
  <2>2. \A k \in Jobs : ~HasMade(k)
    BY <1>1, <2>1, ImportAssumption DEF HasMade, VaultOK, Ids
  <2> QED
    BY <1>3, <2>1, <2>2
<1>5. ASSUME NEW j \in Jobs, HasMade(j) PROVE CountedHeld'
  <2>1. PICK e \in Entries : view' = [view EXCEPT ![next] = e]
    BY <1>5 DEF HasMade
  <2>2. /\ e # Gone /\ next \in Ids /\ disk' = disk /\ torn' = torn /\ mine' = mine
        /\ counted' = counted /\ \A k \in Jobs : HasMade(k) => job'[k].made = next
    BY <1>5, ImportAssumption DEF HasMade, SameGhosts
  <2>3. PICK m : m = next
    OBVIOUS
  <2>4. /\ \A n \in Ids : (Held(view, n) => Held(view, n)') /\ (Held(disk, n) => Held(disk, n)')
        /\ Held(view, m)'
    BY <1>1, <2>1, <2>2, <2>3, HeldWritten
  <2>5. \A k \in Jobs : HasMade(k) => Held(view, job[k].made)'
    BY <2>2, <2>3, <2>4 DEF Held
  <2> QED
    BY <1>2, <2>2, <2>4, <2>5
<1>6. ASSUME NEW j \in Jobs, HasCounted(j) PROVE CountedHeld'
  <2>1. /\ disk' = view /\ view' = view /\ torn' = torn /\ mine' = mine /\ next' = next
        /\ counted' = counted \cup {job[j].made} /\ job[j].pc = "created"
    BY <1>6 DEF HasCounted, Committed, SameGhosts
  <2>2. \A k \in Jobs : ~HasMade(k)
    BY <1>1, <2>1, ImportAssumption DEF HasMade, VaultOK, Ids
  <2>3. \A n \in counted' : n \in Ids /\ Held(view, n)
    BY <1>1, <2>1
  <2>4. \A k \in Jobs : job'[k].pc = "created" => Held(view, job'[k].made)
    BY <1>1, <2>2, CreatedBefore
  <2> QED
    BY <2>1, <2>3, <2>4 DEF CountedHeld, Held
<1>7. ASSUME NEW j \in Jobs, HasOverwritten(j) PROVE CountedHeld'
  <2>1. PICK n \in Ids, e \in Entries : view' = [view EXCEPT ![n] = e]
    BY <1>7 DEF HasOverwritten
  <2>2. e # Gone /\ disk' = disk /\ torn' = torn /\ mine' = mine /\ counted' = counted
        /\ next' = next
    BY <1>7, ImportAssumption DEF HasOverwritten
  <2>3. \A k \in Jobs : ~HasMade(k)
    BY <1>1, <2>2, ImportAssumption DEF HasMade, VaultOK, Ids
  <2> QED
    BY <1>1, <1>2, <2>1, <2>2, <2>3, HeldWritten
<1>8. CASE HasEdited
  <2>1. PICK n \in Ids, v \in Entries \cup {Gone} :
          /\ view' = [view EXCEPT ![n] = v] /\ mine' = mine \cup {n}
          /\ \A k \in Jobs : Follows(job'[k], job[k], {n})
    BY <1>8 DEF HasEdited
  <2>2. disk' = disk /\ torn' = torn /\ counted' = counted
    BY <1>8 DEF HasEdited
  <2>3. \A k \in Jobs : ~HasMade(k)
    BY <2>1 DEF HasMade, Follows
  <2> QED
    BY <1>1, <1>2, <2>1, <2>2, <2>3, HeldWritten
<1>9. CASE HasRested
  <2>1. \A k \in Jobs : ~HasMade(k)
    BY <1>9 DEF HasRested, HasMade, Follows
  <2> QED
    BY <1>3, <1>9, <2>1 DEF HasRested, SameBooks, SameGhosts
<1>10. CASE HasCrashed
  <2>1. \A k \in Jobs : ~HasMade(k)
    BY <1>10, IdleOK DEF HasCrashed, HasMade
  <2> QED
    BY <1>3, <1>10, <2>1 DEF HasCrashed, Vaultwide, SameBooks, SameGhosts
<1> QED
  BY <1>4, <1>5, <1>6, <1>7, <1>8, <1>9, <1>10 DEF Effect

-------------------------------------------------------------------------------
(* What is overwritten is backed up. *)

\* What the files and the threads have to say of one entry.
LEMMA BackedStep ==
  ASSUME TypeOK, BackedUp, Effect
  PROVE  BackedUp'
<1>1. /\ first' = first
      /\ \A n \in Ids : first[n] # Gone => n < next
  BY DEF TypeOK, VaultOK, Effect, Ids
<1> DEFINE Mine(n) == n \in Ids \ (mine \cup bare) /\ first[n] # Gone
           Safe(n) == view[n] = first[n] /\ disk[n] = first[n]
           Backs   == \E j \in Jobs : job[j].backed
<1>2. \A n \in Ids : Mine(n) => (Safe(n) \/ Covered(n)) /\ (Backs => Covered(n))
  BY DEF BackedUp
<1>3. ASSUME backups \subseteq backups', mine \subseteq mine', bare \subseteq bare',
             \A n \in Ids : Mine(n)' /\ Safe(n) =>
               Safe(n)' \/ Covered(n) \/ (\E b \in backups' : b[n] = first[n]),
             \A n \in Ids : Mine(n)' /\ Backs' =>
               Covered(n) \/ (\E b \in backups' : b[n] = first[n])
      PROVE  BackedUp'
  <2>1. \A n \in Ids : Mine(n)' => Mine(n)
    BY <1>1, <1>3
  <2>2. \A n \in Ids : Covered(n) => \E b \in backups' : b[n] = first[n]
    BY <1>3 DEF Covered
  <2>3. \A n \in Ids : Mine(n)' =>
          /\ Safe(n)' \/ \E b \in backups' : b[n] = first[n]
          /\ Backs' => \E b \in backups' : b[n] = first[n]
    BY <1>2, <1>3, <2>1, <2>2
  <2>4. \A n \in Ids \ (mine' \cup bare') : first'[n] # Gone =>
          /\ view'[n] # first'[n] \/ disk'[n] # first'[n] =>
               \E b \in backups' : b[n] = first'[n]
          /\ \A j \in Jobs : job'[j].backed => \E b \in backups' : b[n] = first'[n]
    BY <1>1, <2>3
  <2> QED
    BY <2>4 DEF BackedUp, Covered
<1>4. ASSUME Vaultwide, SameGhosts, Backs' => Backs PROVE BackedUp'
  <2>1. \A n \in Ids : Safe(n) => Safe(n)'
    BY <1>1, <1>4 DEF Vaultwide, Calm, Committed, RolledBack
  <2>2. \A n \in Ids : Mine(n)' => Mine(n)
    BY <1>1, <1>4 DEF SameGhosts
  <2>3. \A n \in Ids : Mine(n)' /\ Backs' => Covered(n)
    BY <1>2, <1>4, <2>2
  <2>4. backups' = backups /\ mine' = mine /\ bare' = bare
    BY <1>4 DEF SameGhosts
  <2> HIDE DEF Mine, Safe, Backs
  <2> QED
    BY <1>3, <2>1, <2>3, <2>4
<1>5. ASSUME NEW j \in Jobs, NEW S, Others(j, S), job'[j].backed = job[j].backed
      PROVE  Backs' => Backs
  BY <1>5 DEF Others, Follows
<1>6. ASSUME NEW S, \A k \in Jobs : Follows(job'[k], job[k], S) PROVE Backs' => Backs
  BY <1>6 DEF Follows
<1>7. ASSUME NEW n \in Ids, NEW v, view' = [view EXCEPT ![n] = v], disk' = disk,
             backups' = backups, mine \subseteq mine', bare \subseteq bare',
             Backs' => Backs,
             first[n] = Gone \/ n \in mine' \/ n \in bare' \/ Backs
      PROVE  BackedUp'
  <2>1. \A m \in Ids : m # n => view'[m] = view[m]
    BY <1>7 DEF TypeOK, VaultOK, VaultStates
  <2>2. \A m \in Ids : Mine(m)' => Mine(m)
    BY <1>1, <1>7
  <2>3. \A m \in Ids : Mine(m)' /\ Safe(m) /\ m # n => Safe(m)'
    BY <1>1, <1>7, <2>1
  <2>4. Mine(n)' => Backs
    BY <1>1, <1>7
  <2>5. \A m \in Ids : Mine(m)' /\ Backs => Covered(m)
    BY <1>2, <2>2
  <2> HIDE DEF Mine, Safe, Backs
  <2>6. \A m \in Ids : Mine(m)' /\ Safe(m) => Safe(m)' \/ Covered(m)
    BY <2>3, <2>4, <2>5
  <2> QED
    BY <1>3, <1>7, <2>5, <2>6
<1>8. ASSUME NEW j \in Jobs, HasBegun(j) PROVE BackedUp'
  <2>1. /\ view' = view /\ disk' = disk /\ mine' = mine /\ bare' = bare
        /\ backups \subseteq backups' /\ (job'[j].backed => disk \in backups')
        /\ \A k \in Jobs : k # j => job'[k].backed = job[k].backed
    BY <1>8 DEF HasBegun, Calm, Others, Follows
  <2>2. \A n \in Ids : Safe(n) => Safe(n)'
    BY <1>1, <2>1
  <2>3. \A n \in Ids : Mine(n)' => Mine(n)
    BY <1>1, <2>1
  <2>4. Backs' => Backs \/ job'[j].backed
    BY <2>1
  <2>5. \A n \in Ids : Mine(n) => Covered(n) \/ disk[n] = first[n]
    BY <1>2
  <2>6. \A n \in Ids : Mine(n)' /\ Backs' =>
          Covered(n) \/ \E b \in backups' : b[n] = first[n]
    BY <1>2, <2>1, <2>3, <2>4, <2>5
  <2> HIDE DEF Mine, Safe, Backs
  <2> QED
    BY <1>3, <2>1, <2>2, <2>6
<1>9. ASSUME NEW j \in Jobs,
             HasLoaded(j) \/ HasTaken(j) \/ HasCounted(j) \/ HasProceeded(j) \/ HasEnded(j)
      PROVE  BackedUp'
  <2>1. Vaultwide /\ SameGhosts /\ Others(j, {})
    BY <1>9 DEF HasLoaded, HasTaken, HasCounted, HasProceeded, HasEnded, Vaultwide,
       SameBooks
  <2>2. job'[j].backed = job[j].backed \/ job'[j].backed = FALSE
    BY <1>9, IdleOK DEF HasLoaded, HasTaken, Branches, HasCounted, HasProceeded, HasEnded,
       Proceeds, Onward
  <2>3. Backs' => Backs
    BY <2>1, <2>2 DEF Others, Follows
  <2> QED
    BY <1>4, <2>1, <2>3
<1>10. ASSUME NEW j \in Jobs, HasMade(j) PROVE BackedUp'
  <2>1. PICK e \in Entries : view' = [view EXCEPT ![next] = e]
    BY <1>10 DEF HasMade
  <2>2. next \in Ids /\ first[next] = Gone
    BY <1>1, <1>10 DEF HasMade, Ids
  <2>3. Backs' => Backs
    BY <1>5, <1>10 DEF HasMade, Proceeds, Onward
  <2>4. disk' = disk /\ SameGhosts
    BY <1>10 DEF HasMade
  <2> QED
    BY <1>7, <2>1, <2>2, <2>3, <2>4 DEF SameGhosts
<1>11. ASSUME NEW j \in Jobs, HasOverwritten(j) PROVE BackedUp'
  <2>1. PICK n \in Ids, e \in Entries :
          /\ view' = [view EXCEPT ![n] = e] /\ Others(j, {n})
          /\ bare' = IF job[j].backed THEN bare ELSE bare \cup {n}
    BY <1>11 DEF HasOverwritten
  <2>2. Backs' => Backs
    BY <1>5, <1>11, <2>1 DEF HasOverwritten, Proceeds, Onward
  <2>3. disk' = disk /\ mine' = mine /\ backups' = backups
    BY <1>11 DEF HasOverwritten
  <2>4. bare \subseteq bare' /\ (n \in bare' \/ Backs)
    BY <2>1
  <2> QED
    BY <1>7, <2>1, <2>2, <2>3, <2>4
<1>12. CASE HasEdited
  <2>1. PICK n \in Ids, v \in Entries \cup {Gone} :
          /\ view' = [view EXCEPT ![n] = v] /\ mine' = mine \cup {n}
          /\ \A k \in Jobs : Follows(job'[k], job[k], {n})
    BY <1>12 DEF HasEdited
  <2>2. disk' = disk /\ bare' = bare /\ backups' = backups
    BY <1>12 DEF HasEdited
  <2>3. Backs' => Backs
    BY <1>6, <2>1
  <2> QED
    BY <1>7, <2>1, <2>2, <2>3
<1>13. CASE HasRested
  <2>1. Backs' => Backs
    BY <1>6, <1>13 DEF HasRested
  <2> QED
    BY <1>4, <1>13, <2>1 DEF HasRested, SameBooks
<1>14. CASE HasCrashed
  <2>1. ~Backs'
    BY <1>14, IdleOK DEF HasCrashed
  <2> QED
    BY <1>4, <1>14, <2>1 DEF HasCrashed, Vaultwide, SameBooks
<1> QED
  BY <1>8, <1>9, <1>10, <1>11, <1>12, <1>13, <1>14 DEF Effect

-------------------------------------------------------------------------------
(* What is owed is in a checkpoint file. *)

\* What the three parts look at of a thread: unchanged, or further on.
Keeps(c, b) == /\ c.rows = b.rows /\ c.ckpt = b.ckpt /\ c.from = b.from /\ c.i >= b.i

LEMMA KeepsFiles ==
  ASSUME TypeOK, FilesNamed, FilesKept, OwedKept, temp' = temp, named' = named,
         owed' = owed, \A k \in Jobs : Keeps(job'[k], job[k]) /\ job'[k].i \in Nat
  PROVE  FilesNamed' /\ FilesKept' /\ OwedKept'
<1>1. FilesNamed'
  BY DEF FilesNamed, Keeps
<1>2. \A k \in Jobs : job[k].i \in Nat /\ Len(job[k].rows) \in Nat
  BY LenProperties DEF TypeOK, JobsOK, Works
<1>3. FilesKept'
  BY <1>2 DEF FilesKept, Keeps
<1>4. OwedKept'
  BY DEF OwedKept, Keeps
<1> QED
  BY <1>1, <1>3, <1>4

LEMMA FollowsKeeps ==
  ASSUME NEW c, NEW b, NEW S, Follows(c, b, S)
  PROVE  Keeps(c, b) /\ c.i \in Nat
<1>1. c.i \in Nat /\ b.i = c.i
  BY DEF Follows, Works
<1> QED
  BY <1>1 DEF Follows, Keeps

\* A thread that begins or ends has no file of its own.
LEMMA ForgetsFiles ==
  ASSUME TypeOK, FilesNamed, FilesKept, OwedKept, NEW j \in Jobs, Others(j, {}),
         temp' = temp, named' = named, owed' = owed, job'[j].ckpt = 0,
         job'[j].from = 0 \/ \E c \in temp : c.no = job'[j].from /\ c.rows = job'[j].rows
  PROVE  FilesNamed' /\ FilesKept' /\ OwedKept'
<1>1. /\ \A c \in temp : c.no \in 1..named
      /\ \A c, d \in temp : c.no = d.no => c = d
      /\ named \in Nat
  BY DEF TypeOK, RestOK, FilesNamed
<1>2. \A k \in Jobs : k # j => Keeps(job'[k], job[k]) /\ job'[k].i = job[k].i
  BY FollowsKeeps DEF Others, Follows
<1>3. job'[j].from <= named
  BY <1>1
<1>4. FilesNamed'
  BY <1>1, <1>2, <1>3 DEF FilesNamed, Keeps
<1>5. FilesKept'
  <2>1. \A c \in temp : c.no = job'[j].from => c.rows = job'[j].rows
    BY <1>1
  <2>2. \A c \in temp : c.no # job'[j].ckpt
    BY <1>1
  <2> QED
    BY <1>2, <2>1, <2>2 DEF FilesKept, Keeps
<1>6. OwedKept'
  BY <1>1, <1>2 DEF OwedKept, Keeps
<1> QED
  BY <1>4, <1>5, <1>6

LEMMA TakenFiles ==
  ASSUME TypeOK, FilesNamed, FilesKept, OwedKept, NEW j \in Jobs, HasTaken(j)
  PROVE  FilesNamed' /\ FilesKept' /\ OwedKept'
<1>1. CASE job'[j] = IdleJob /\ SameFiles
  BY <1>1, IdleOK, ForgetsFiles DEF HasTaken, SameFiles
<1>2. /\ \A c \in temp : c.no \in 1..named
      /\ \A c, d \in temp : c.no = d.no => c = d
      /\ \A k \in Jobs : job[k].ckpt <= named /\ job[k].from <= named
      /\ named \in Nat
      /\ \A k \in Jobs : job[k].ckpt \in Nat /\ job[k].from \in Nat
  BY DEF TypeOK, RestOK, JobsOK, Works, FilesNamed
<1>3. \A k \in Jobs : k # j => Keeps(job'[k], job[k]) /\ job'[k].i = job[k].i
  BY FollowsKeeps DEF HasTaken, Others, Follows
<1>4. /\ job[j].rows \in Seq(FileRows) /\ job[j].i \in Nat \ {0} /\ job[j].i <= Len(job[j].rows)
      /\ Len(job[j].rows) \in Nat
  BY LenProperties DEF TypeOK, JobsOK, Works, HasTaken, AtRow
<1>5. CASE /\ Branches(job'[j], job[j]) /\ job'[j].ckpt \in {0, job[j].ckpt} /\ SameFiles
  <2>1. /\ job'[j].rows = job[j].rows /\ job'[j].from = job[j].from
        /\ job'[j].i >= job[j].i /\ job'[j].i \in Nat
    BY <1>5 DEF Branches, Proceeds, Onward, Works
  <2>2. temp' = temp /\ named' = named /\ owed' = owed
    BY <1>5 DEF SameFiles
  <2>3. FilesNamed'
    BY <1>2, <1>3, <1>5, <2>1, <2>2 DEF FilesNamed, Keeps
  <2>4. \A c \in temp :
          /\ c.no = job'[j].from => c.rows = job'[j].rows
          /\ c.no = job'[j].ckpt =>
               \A i \in job'[j].i..Len(job'[j].rows) : Holds(c, job'[j].rows[i])
    BY <1>2, <1>4, <1>5, <2>1 DEF FilesKept
  <2>5. FilesKept'
    BY <1>3, <2>2, <2>4 DEF FilesKept, Keeps
  <2>6. OwedKept'
    BY <1>2, <1>3, <1>5, <2>2 DEF OwedKept, Keeps
  <2> QED
    BY <2>3, <2>5, <2>6
<1>6. CASE /\ Branches(job'[j], job[j]) /\ job'[j].ckpt = named + 1 /\ named' = named + 1
           /\ temp' = temp \cup
                {[no |-> named + 1, strat |-> job[j].strat, rows |-> Remaining(j)]}
  <2> DEFINE f == [no |-> named + 1, strat |-> job[j].strat, rows |-> Remaining(j)]
  <2>1. /\ job'[j].rows = job[j].rows /\ job'[j].from = job[j].from
        /\ job'[j].i >= job[j].i /\ job'[j].i \in Nat
    BY <1>6 DEF Branches, Proceeds, Onward, Works
  <2>2. f.no = named + 1 /\ f.rows = Remaining(j)
    OBVIOUS
  <2>3. \A k \in job[j].i..Len(job[j].rows) : Holds(f, job[j].rows[k])
    BY <1>4, <2>2, RowsLeft DEF Holds, Remaining
  <2>4. temp' = temp \cup {f} /\ owed' = owed
    BY <1>6 DEF HasTaken
  <2> HIDE DEF f
  <2>5. \A c \in temp : c.no # f.no
    BY <1>2, <2>2
  <2>6. FilesNamed'
    <3>1. \A c \in temp' : c.no \in 1..named'
      BY <1>2, <1>6, <2>2, <2>4
    <3>2. \A c, d \in temp' : c.no = d.no => c = d
      BY <1>2, <2>4, <2>5
    <3>3. \A k \in Jobs : job'[k].ckpt <= named' /\ job'[k].from <= named'
      BY <1>2, <1>3, <1>6, <2>1 DEF Keeps
    <3> QED
      BY <3>1, <3>2, <3>3 DEF FilesNamed
  <2>7. \A c \in temp' :
          /\ c.no = job'[j].from => c.rows = job'[j].rows
          /\ c.no = job'[j].ckpt =>
               \A i \in job'[j].i..Len(job'[j].rows) : Holds(c, job'[j].rows[i])
    <3>1. \A c \in temp : c.no = job'[j].from => c.rows = job'[j].rows
      BY <2>1 DEF FilesKept
    <3>2. f.no # job'[j].from
      BY <1>2, <2>1, <2>2
    <3>3. \A c \in temp : c.no # job'[j].ckpt
      BY <1>6, <2>2, <2>5
    <3>4. \A i \in job'[j].i..Len(job'[j].rows) : Holds(f, job'[j].rows[i])
      BY <1>4, <2>1, <2>3
    <3> QED
      BY <2>4, <3>1, <3>2, <3>3, <3>4
  <2>8. \A k \in Jobs : k # j => f.no # job'[k].from /\ f.no # job'[k].ckpt
    BY <1>2, <1>3, <2>2 DEF Keeps
  <2>9. FilesKept'
    BY <1>3, <2>4, <2>7, <2>8 DEF FilesKept, Keeps
  <2>10. OwedKept'
    <3>1. \A r \in owed : \E c \in temp : Holds(c, r) /\ \A k \in Jobs : job[k].ckpt # c.no
      BY DEF OwedKept
    <3>2. \A c \in temp : (\A k \in Jobs : job[k].ckpt # c.no) =>
                            \A k \in Jobs : job'[k].ckpt # c.no
      BY <1>3, <1>6, <2>2, <2>5 DEF Keeps
    <3> QED
      BY <2>4, <3>1, <3>2 DEF OwedKept
  <2> QED
    BY <2>6, <2>9, <2>10
<1> QED
  BY <1>1, <1>5, <1>6 DEF HasTaken

LEMMA EndedFiles ==
  ASSUME TypeOK, FilesNamed, FilesKept, OwedKept, NEW j \in Jobs, HasEnded(j)
  PROVE  FilesNamed' /\ FilesKept' /\ OwedKept'
<1>1. /\ \A c \in temp : c.no \in 1..named
      /\ \A c, d \in temp : c.no = d.no => c = d
      /\ \A k \in Jobs : job[k].ckpt <= named /\ job[k].from <= named
      /\ named \in Nat
  BY DEF TypeOK, RestOK, FilesNamed
<1>2. \A k \in Jobs : k # j => Keeps(job'[k], job[k]) /\ job'[k].i = job[k].i
  BY FollowsKeeps DEF HasEnded, Others, Follows
<1>3. job'[j].ckpt = 0 /\ job'[j].from = 0
  BY IdleOK DEF HasEnded
<1>4. /\ temp' = {c \in temp : c.no \notin {job[j].ckpt, job[j].from}} /\ named' = named
      /\ owed' = IF job[j].from = 0 THEN owed
                 ELSE owed \ {job[j].rows[i] : i \in 1..Len(job[j].rows)}
  BY DEF HasEnded
<1>5. FilesNamed'
  BY <1>1, <1>2, <1>3, <1>4 DEF FilesNamed, Keeps
<1>6. FilesKept'
  <2>1. \A c \in temp' : c \in temp /\ c.no # job'[j].ckpt /\ c.no # job'[j].from
    BY <1>1, <1>3, <1>4
  <2> QED
    BY <1>2, <2>1 DEF FilesKept, Keeps
<1>7. OwedKept'
  <2>1. SUFFICES ASSUME NEW r \in owed'
                 PROVE  \E c \in temp' : Holds(c, r) /\ \A k \in Jobs : job'[k].ckpt # c.no
    BY DEF OwedKept
  <2>2. r \in owed
    BY <1>4, <2>1
  <2>3. PICK c \in temp : Holds(c, r) /\ \A k \in Jobs : job[k].ckpt # c.no
    BY <2>2 DEF OwedKept
  <2>4. c.no # job[j].from
    <3>1. SUFFICES ASSUME c.no = job[j].from PROVE FALSE
      OBVIOUS
    <3>2. job[j].from # 0 /\ c.rows = job[j].rows
      BY <1>1, <3>1 DEF FilesKept
    <3>3. PICK i \in 1..Len(job[j].rows) : job[j].rows[i] = r
      BY <2>3, <3>2 DEF Holds
    <3> QED
      BY <1>4, <2>1, <3>2, <3>3
  <2>5. c \in temp'
    BY <1>4, <2>3, <2>4
  <2>6. \A k \in Jobs : job'[k].ckpt # c.no
    BY <1>1, <1>2, <1>3, <2>3 DEF Keeps
  <2> QED
    BY <2>3, <2>5, <2>6
<1> QED
  BY <1>5, <1>6, <1>7

LEMMA CrashedFiles ==
  ASSUME TypeOK, FilesNamed, FilesKept, OwedKept, HasCrashed
  PROVE  FilesNamed' /\ FilesKept' /\ OwedKept'
<1>1. /\ \A c \in temp : c.no \in 1..named
      /\ \A c, d \in temp : c.no = d.no => c = d
      /\ named \in Nat
  BY DEF TypeOK, RestOK, FilesNamed
<1>2. /\ \A k \in Jobs : job'[k].ckpt = 0 /\ job'[k].from = 0
      /\ temp' = temp /\ named' = named
  BY IdleOK DEF HasCrashed
<1>3. FilesNamed' /\ FilesKept'
  BY <1>1, <1>2 DEF FilesNamed, FilesKept
<1>4. OwedKept'
  <2>1. SUFFICES ASSUME NEW r \in owed' PROVE \E c \in temp : Holds(c, r)
    BY <1>1, <1>2 DEF OwedKept
  <2>2. CASE r \in owed
    BY <2>2 DEF OwedKept
  <2>3. ASSUME NEW j \in Jobs, Saved(j) # {}, NEW i \in job[j].i..Len(job[j].rows),
               r = job[j].rows[i]
        PROVE  \E c \in temp : Holds(c, r)
    <3>1. PICK c \in temp : c.no \in {job[j].ckpt, job[j].from}
      BY <2>3 DEF Saved
    <3>2. CASE c.no = job[j].ckpt
      BY <2>3, <3>2 DEF FilesKept
    <3>3. CASE c.no = job[j].from
      <4>1. c.rows = job[j].rows
        BY <3>3 DEF FilesKept
      <4>2. i \in 1..Len(job[j].rows)
        <5>1. job[j].i \in Nat \ {0} /\ Len(job[j].rows) \in Nat
          BY LenProperties DEF TypeOK, JobsOK, Works
        <5> QED
          BY <5>1
      <4> QED
        BY <2>3, <4>1, <4>2 DEF Holds
    <3> QED
      BY <3>1, <3>2, <3>3
  <2>4. r \in owed \/ \E j \in Jobs : Saved(j) # {} /\
                       \E i \in job[j].i..Len(job[j].rows) : r = job[j].rows[i]
    BY <2>1 DEF HasCrashed
  <2> QED
    BY <2>2, <2>3, <2>4
<1> QED
  BY <1>3, <1>4

LEMMA FilesStep ==
  ASSUME TypeOK, FilesNamed, FilesKept, OwedKept, Effect
  PROVE  FilesNamed' /\ FilesKept' /\ OwedKept'
<1>1. ASSUME NEW j \in Jobs, HasBegun(j) PROVE FilesNamed' /\ FilesKept' /\ OwedKept'
  BY <1>1, ForgetsFiles DEF HasBegun, SameFiles
<1>2. ASSUME NEW j \in Jobs, NEW S, Others(j, S), SameFiles, Onward(job'[j], job[j]),
             job'[j].ckpt = job[j].ckpt
      PROVE  FilesNamed' /\ FilesKept' /\ OwedKept'
  <2>1. Keeps(job'[j], job[j]) /\ job'[j].i \in Nat
    BY <1>2 DEF Onward, Keeps, Works
  <2>2. \A k \in Jobs : Keeps(job'[k], job[k]) /\ job'[k].i \in Nat
    BY <1>2, <2>1, FollowsKeeps DEF Others
  <2> QED
    BY <1>2, <2>2, KeepsFiles DEF SameFiles
<1>3. ASSUME NEW j \in Jobs, HasLoaded(j) \/ HasMade(j) \/ HasCounted(j) \/ HasProceeded(j)
      PROVE  FilesNamed' /\ FilesKept' /\ OwedKept'
  BY <1>2, <1>3 DEF HasLoaded, HasMade, HasCounted, HasProceeded, Proceeds
<1>4. ASSUME NEW j \in Jobs, HasOverwritten(j) PROVE FilesNamed' /\ FilesKept' /\ OwedKept'
  <2>1. PICK n : Others(j, {n})
    BY <1>4 DEF HasOverwritten
  <2> QED
    BY <1>2, <1>4, <2>1 DEF HasOverwritten, Proceeds
<1>5. CASE HasEdited
  <2>1. PICK n : \A k \in Jobs : Follows(job'[k], job[k], {n})
    BY <1>5 DEF HasEdited
  <2> QED
    BY <1>5, <2>1, FollowsKeeps, KeepsFiles DEF HasEdited, SameFiles
<1>6. CASE HasRested
  BY <1>6, FollowsKeeps, KeepsFiles DEF HasRested, SameFiles
<1> QED
  BY <1>1, <1>3, <1>4, <1>5, <1>6, TakenFiles, EndedFiles, CrashedFiles DEF Effect

-------------------------------------------------------------------------------
(* The strategy "skip" makes no twin. *)

\* Somebody else's write is noted, and a thread that looks on goes on knowing
\* what is there and what a rollback brings back.
LEMMA TwinWritten ==
  ASSUME NEW b \in Works, NEW c, NEW v \in VaultStates, NEW w, NEW n \in Ids, NEW x,
         TwinFree(b, v, w), Follows(c, b, {n}), b.pc = "created" => b.made \in Ids
  PROVE  TwinFree(c, [v EXCEPT ![n] = x], w)
<1>1. \A m \in Ids : m # n => [v EXCEPT ![n] = x][m] = v[m]
  BY DEF VaultStates
<1> DEFINE u == [v EXCEPT ![n] = x]
<1>3. \A m \in Ids : m # n => u[m] = v[m]
  BY <1>1
<1> HIDE DEF u
<1>5. SUFFICES ASSUME c.strat = "skip", ~c.blind PROVE TwinFree(c, u, w)
  BY DEF TwinFree, u
<1>6. /\ b.pc \notin {"idle", "index"} => Indexed(b, v) /\ Indexed(b, w)
      /\ OwnKey(b, v) /\ OwnKey(b, w) /\ NewKey(b)
      /\ b.pc \notin {"read", "update", "updated"}
  BY <1>5 DEF TwinFree, Follows
<1>7. c.pc \notin {"idle", "index"} => Indexed(c, u) /\ Indexed(c, w)
  BY <1>3, <1>6 DEF Indexed, Follows
<1>8. OwnKey(c, w) /\ NewKey(c) /\ c.pc \notin {"read", "update", "updated"}
  BY <1>6 DEF OwnKey, NewKey, Follows
<1>9. OwnKey(c, u)
  <2>1. SUFFICES ASSUME c.pc = "created", u[c.made] # Gone, c.made \notin c.touched
                 PROVE  u[c.made].key = c.key
    BY DEF OwnKey
  <2>2. c.made # n /\ c.made = b.made
    BY <2>1 DEF Follows
  <2>3. u[c.made] = v[c.made]
    BY <1>3, <2>1, <2>2 DEF Follows
  <2> QED
    BY <1>6, <2>1, <2>2, <2>3 DEF OwnKey, Follows
<1> QED
  BY <1>5, <1>7, <1>8, <1>9 DEF TwinFree

\* Commits and rollbacks only exchange what is in v and w.
LEMMA TwinFollows ==
  ASSUME NEW b, NEW c, NEW v, NEW w, NEW v2 \in {v, w}, NEW w2 \in {v, w},
         TwinFree(b, v, w), Follows(c, b, {})
  PROVE  TwinFree(c, v2, w2)
<1>1. SUFFICES ASSUME c.strat = "skip", ~c.blind PROVE TwinFree(c, v2, w2)
  BY DEF TwinFree
<1>2. /\ b.pc \notin {"idle", "index"} => Indexed(b, v) /\ Indexed(b, w)
      /\ OwnKey(b, v) /\ OwnKey(b, w) /\ NewKey(b)
      /\ b.pc \notin {"read", "update", "updated"}
  BY <1>1 DEF TwinFree, Follows
<1>3. c.pc \notin {"idle", "index"} => Indexed(c, v) /\ Indexed(c, w)
  BY <1>2 DEF Indexed, Follows
<1>4. OwnKey(c, v) /\ OwnKey(c, w) /\ NewKey(c) /\ c.pc \notin {"read", "update", "updated"}
  BY <1>2 DEF OwnKey, NewKey, Follows
<1> QED
  BY <1>1, <1>3, <1>4 DEF TwinFree

\* The same for the thread itself, while no entry of its own waits for a commit.
LEMMA TwinProceeds ==
  ASSUME NEW b, NEW c, NEW v, NEW w, NEW v2 \in {v, w}, NEW w2 \in {v, w},
         TwinFree(b, v, w), Proceeds(c, b), c.index = b.index,
         b.pc \notin {"idle", "index", "created"}, c.pc # "created",
         c.strat = "skip" => NewKey(c) /\ c.pc \notin {"read", "update", "updated"}
  PROVE  TwinFree(c, v2, w2)
<1>1. SUFFICES ASSUME c.strat = "skip", ~c.blind PROVE TwinFree(c, v2, w2)
  BY DEF TwinFree
<1>2. Indexed(b, v) /\ Indexed(b, w)
  BY <1>1 DEF TwinFree, Proceeds, Onward
<1>3. Indexed(c, v) /\ Indexed(c, w)
  BY <1>2 DEF Indexed, Proceeds
<1>4. OwnKey(c, v) /\ OwnKey(c, w)
  BY DEF OwnKey
<1> QED
  BY <1>1, <1>3, <1>4 DEF TwinFree

LEMMA TwinIdle ==
  ASSUME NEW c, NEW v, NEW w, c.pc \in {"idle", "index"}
  PROVE  TwinFree(c, v, w)
BY DEF TwinFree, OwnKey, NewKey

LEMMA LoadedTwins ==
  ASSUME TypeOK, NEW j \in Jobs, HasLoaded(j)
  PROVE  TwinFree(job'[j], view', disk')
<1> DEFINE c == job'[j]
<1>1. /\ view' = view /\ disk' = disk /\ c.pc = "row"
      /\ c.touched = {n \in Ids : view[n] # disk[n]}
      /\ ~c.blind => \A n \in Ids : view[n] # Gone => c.index[view[n].key] # 0
  BY DEF HasLoaded, Calm
<1> HIDE DEF c
<1>2. ~c.blind => Indexed(c, view) /\ Indexed(c, disk)
  BY <1>1 DEF Indexed
<1>3. OwnKey(c, view) /\ OwnKey(c, disk) /\ NewKey(c)
  BY <1>1 DEF OwnKey, NewKey
<1> QED
  BY <1>1, <1>2, <1>3 DEF TwinFree, c

LEMMA MadeTwins ==
  ASSUME TypeOK, NEW j \in Jobs, TwinFree(job[j], view, disk), HasMade(j)
  PROVE  TwinFree(job'[j], view', disk')
<1>1. PICK e \in Entries : e.key = job[j].key /\ view' = [view EXCEPT ![next] = e]
  BY DEF HasMade
<1>2. /\ next \in Ids /\ disk' = disk /\ disk[next] = Gone
      /\ \A n \in Ids : n # next => view'[n] = view[n]
      /\ view'[next] = e
  BY <1>1 DEF HasMade, TypeOK, VaultOK, VaultStates, Ids
<1>3. PICK b : b = job[j]
  OBVIOUS
<1>4. PICK c : c = job'[j]
  OBVIOUS
<1>5. /\ b.pc = "create" /\ c.pc = "created" /\ c.strat = b.strat /\ c.blind = b.blind
      /\ c.touched = b.touched /\ c.index = b.index /\ c.key = b.key /\ c.made = next
  BY <1>3, <1>4 DEF HasMade, Proceeds, Onward
<1>6. SUFFICES ASSUME c.strat = "skip", ~c.blind PROVE TwinFree(c, view', disk')
  BY <1>4 DEF TwinFree
<1>7. Indexed(b, view) /\ Indexed(b, disk) /\ NewKey(b)
  BY <1>3, <1>5, <1>6 DEF TwinFree
<1>8. Indexed(c, view') /\ Indexed(c, disk')
  BY <1>2, <1>5, <1>7 DEF Indexed
<1>9. OwnKey(c, view') /\ OwnKey(c, disk')
  BY <1>1, <1>2, <1>3, <1>5 DEF OwnKey
<1>10. NewKey(c) /\ c.pc \notin {"read", "update", "updated"}
  BY <1>5, <1>7 DEF NewKey
<1> QED
  BY <1>6, <1>8, <1>9, <1>10 DEF TwinFree

LEMMA CountedTwins ==
  ASSUME TypeOK, NEW j \in Jobs, TwinFree(job[j], view, disk), HasCounted(j)
  PROVE  TwinFree(job'[j], view', disk')
<1>1. view' = view /\ disk' = view /\ \A n \in Ids : view[n] # Gone => view[n].key \in Keys
  BY DEF HasCounted, Committed, TypeOK, VaultOK, VaultStates, Entries
<1>2. PICK b : b = job[j]
  OBVIOUS
<1>3. PICK c : c = job'[j]
  OBVIOUS
<1>4. /\ b.pc = "created" /\ c.pc = "row" /\ c.strat = b.strat /\ c.blind = b.blind
      /\ c.touched = b.touched
      /\ \A k \in Keys : c.index[k] # 0 <=> b.index[k] # 0 \/ k = b.key
  BY <1>2, <1>3 DEF HasCounted, Onward
<1>5. SUFFICES ASSUME c.strat = "skip", ~c.blind PROVE TwinFree(c, view', disk')
  BY <1>3 DEF TwinFree
<1>6. Indexed(b, view) /\ OwnKey(b, view)
  BY <1>2, <1>4, <1>5 DEF TwinFree
<1>7. Indexed(c, view)
  <2>1. SUFFICES ASSUME NEW n \in Ids, view[n] # Gone, n \notin c.touched
                 PROVE  c.index[view[n].key] # 0
    BY DEF Indexed
  <2>2. view[n].key \in Keys
    BY <1>1, <2>1
  <2>3. CASE n = b.made
    BY <1>4, <1>6, <2>1, <2>2, <2>3 DEF OwnKey
  <2>4. CASE n # b.made
    BY <1>4, <1>6, <2>1, <2>2, <2>4 DEF Indexed
  <2> QED
    BY <2>3, <2>4
<1>8. OwnKey(c, view) /\ NewKey(c)
  BY <1>4 DEF OwnKey, NewKey
<1> QED
  BY <1>1, <1>4, <1>5, <1>7, <1>8 DEF TwinFree

LEMMA TwinsStep ==
  ASSUME TypeOK, NoTwins, Effect
  PROVE  NoTwins'
<1>1. /\ \A k \in Jobs : job[k] \in Works /\ TwinFree(job[k], view, disk)
      /\ \A k \in Jobs : job[k].pc = "created" => job[k].made \in Ids
      /\ view \in VaultStates
  BY DEF TypeOK, JobsOK, VaultOK, NoTwins
<1>2. Vaultwide => view' \in {view, disk} /\ disk' \in {view, disk}
  BY DEF Vaultwide, Calm, Committed, RolledBack
<1>3. ASSUME NEW k \in Jobs, Vaultwide, Follows(job'[k], job[k], {})
      PROVE  TwinFree(job'[k], view', disk')
  BY <1>1, <1>2, <1>3, TwinFollows
<1>4. ASSUME NEW k \in Jobs, NEW n \in Ids, NEW x, view' = [view EXCEPT ![n] = x],
             disk' = disk, Follows(job'[k], job[k], {n})
      PROVE  TwinFree(job'[k], view', disk')
  <2>1. TwinFree(job'[k], [view EXCEPT ![n] = x], disk)
    BY <1>1, <1>4, TwinWritten
  <2> QED
    BY <1>4, <2>1
<1>5. ASSUME NEW j \in Jobs, Vaultwide, Others(j, {}), TwinFree(job'[j], view', disk')
      PROVE  NoTwins'
  BY <1>3, <1>5 DEF NoTwins, Others
<1>6. ASSUME NEW j \in Jobs, NEW n \in Ids, NEW x, view' = [view EXCEPT ![n] = x],
             disk' = disk, Others(j, {n}), TwinFree(job'[j], view', disk')
      PROVE  NoTwins'
  BY <1>4, <1>6 DEF NoTwins, Others
<1>7. ASSUME NEW j \in Jobs, HasBegun(j) PROVE NoTwins'
  BY <1>5, <1>7, TwinIdle DEF HasBegun, Vaultwide
<1>8. ASSUME NEW j \in Jobs, HasLoaded(j) PROVE NoTwins'
  BY <1>5, <1>8, LoadedTwins DEF HasLoaded, Vaultwide
<1>9. ASSUME NEW j \in Jobs, HasTaken(j) PROVE NoTwins'
  <2>1. CASE job'[j] = IdleJob
    BY <1>5, <1>9, <2>1, TwinIdle, IdleOK DEF HasTaken, Vaultwide
  <2>2. CASE Branches(job'[j], job[j])
    <3>1. /\ Proceeds(job'[j], job[j]) /\ job'[j].index = job[j].index
          /\ job[j].pc = "row" /\ job'[j].pc # "created"
      BY <1>9, <2>2 DEF HasTaken, Branches, AtRow
    <3>2. job'[j].strat = "skip" =>
            NewKey(job'[j]) /\ job'[j].pc \notin {"read", "update", "updated"}
      BY <2>2 DEF Branches, NewKey
    <3>3. TwinFree(job'[j], view', disk')
      BY <1>1, <1>2, <1>9, <3>1, <3>2, TwinProceeds DEF HasTaken, Vaultwide
    <3> QED
      BY <1>5, <1>9, <3>3 DEF HasTaken, Vaultwide
  <2> QED
    BY <1>9, <2>1, <2>2 DEF HasTaken
<1>10. ASSUME NEW j \in Jobs, HasMade(j) PROVE NoTwins'
  <2>1. PICK e \in Entries : view' = [view EXCEPT ![next] = e]
    BY <1>10 DEF HasMade
  <2>2. TwinFree(job'[j], view', disk')
    BY <1>1, <1>10, MadeTwins
  <2>3. next \in Ids /\ disk' = disk /\ Others(j, {next})
    BY <1>10 DEF HasMade
  <2>4. PICK n : n = next
    OBVIOUS
  <2> QED
    BY <1>6, <2>1, <2>2, <2>3, <2>4
<1>11. ASSUME NEW j \in Jobs, HasCounted(j) PROVE NoTwins'
  BY <1>1, <1>5, <1>11, CountedTwins DEF HasCounted, Vaultwide
<1>12. ASSUME NEW j \in Jobs, HasProceeded(j) PROVE NoTwins'
  <2>1. /\ Proceeds(job'[j], job[j]) /\ job'[j].index = job[j].index /\ Vaultwide
        /\ job[j].pc \in {"create", "read", "update", "updated"}
        /\ job'[j].pc \in {"row", "update"} /\ (job'[j].pc = "update" => job[j].pc = "read")
        /\ Others(j, {})
    BY <1>12 DEF HasProceeded
  <2>2. CASE job'[j].strat = "skip" => job'[j].pc # "update"
    <3>1. job'[j].strat = "skip" =>
            NewKey(job'[j]) /\ job'[j].pc \notin {"read", "update", "updated"}
      BY <2>1, <2>2 DEF NewKey
    <3>2. TwinFree(job'[j], view', disk')
      BY <1>1, <1>2, <2>1, <3>1, TwinProceeds
    <3> QED
      BY <1>5, <2>1, <3>2
  <2>3. CASE job'[j].strat = "skip" /\ job'[j].pc = "update"
    <3>1. job'[j].blind
      BY <1>1, <2>1, <2>3 DEF TwinFree, Proceeds, Onward
    <3>2. TwinFree(job'[j], view', disk')
      BY <3>1 DEF TwinFree
    <3> QED
      BY <1>5, <2>1, <3>2
  <2> QED
    BY <2>2, <2>3
<1>13. ASSUME NEW j \in Jobs, HasOverwritten(j) PROVE NoTwins'
  <2>1. PICK n \in Ids, e \in Entries : view' = [view EXCEPT ![n] = e] /\ Others(j, {n})
    BY <1>13 DEF HasOverwritten
  <2>2. disk' = disk /\ job[j].pc = "update" /\ Proceeds(job'[j], job[j])
    BY <1>13 DEF HasOverwritten
  <2>3. job'[j].strat # "skip" \/ job'[j].blind
    BY <1>1, <2>2 DEF TwinFree, Proceeds, Onward
  <2>4. TwinFree(job'[j], view', disk')
    BY <2>3 DEF TwinFree
  <2> QED
    BY <1>6, <2>1, <2>2, <2>4
<1>14. ASSUME NEW j \in Jobs, HasEnded(j) PROVE NoTwins'
  BY <1>5, <1>14, TwinIdle, IdleOK DEF HasEnded, Vaultwide
<1>15. CASE HasEdited
  <2>1. PICK n \in Ids, v \in Entries \cup {Gone} :
          /\ view' = [view EXCEPT ![n] = v] /\ \A k \in Jobs : Follows(job'[k], job[k], {n})
    BY <1>15 DEF HasEdited
  <2>2. disk' = disk
    BY <1>15 DEF HasEdited
  <2> QED
    BY <1>4, <2>1, <2>2 DEF NoTwins
<1>16. CASE HasRested
  BY <1>3, <1>16 DEF HasRested, NoTwins
<1>17. CASE HasCrashed
  BY <1>17, TwinIdle, IdleOK DEF HasCrashed, NoTwins
<1> QED
  BY <1>7, <1>8, <1>9, <1>10, <1>11, <1>12, <1>13, <1>14, <1>15, <1>16, <1>17 DEF Effect

-------------------------------------------------------------------------------
(* The invariant and the theorems. *)

LEMMA InitInv ==
  ASSUME Init
  PROVE  IInv
<1>1. /\ disk \in Vaults /\ view = disk /\ first = disk /\ key = TRUE
      /\ next = 1 + Cardinality({n \in Ids : disk[n] # Gone})
      /\ job = [j \in Jobs |-> IdleJob] /\ ui = IdleUi
      /\ temp = {} /\ named = 0 /\ counted = {} /\ owed = {}
  BY DEF Init
<1>2. PICK k \in 0..MaxId : \A n \in Ids : disk[n] # Gone <=> n <= k
  BY <1>1, ImportAssumption
<1>3. {n \in Ids : disk[n] # Gone} = 1..k /\ k \in Nat
  BY <1>2, ImportAssumption DEF Ids
<1>4. next = 1 + k
  <2>1. Cardinality(1..k) = k
    BY <1>3, FS_Interval
  <2> QED
    BY <1>1, <1>3, <2>1
<1>5. VaultOK
  <2>1. disk \in VaultStates
    BY <1>1, ImportAssumption DEF VaultStates
  <2>2. next \in 1..MaxId + 1
    BY <1>3, <1>4, ImportAssumption
  <2>3. \A n \in Ids : n >= next => disk[n] = Gone
    BY <1>2, <1>3, <1>4 DEF Ids
  <2> QED
    BY <1>1, <2>1, <2>2, <2>3 DEF VaultOK
<1>6. \A j \in Jobs : job[j] = IdleJob
  BY <1>1
<1>7. JobsOK
  BY <1>1, <1>6, IdleOK DEF JobsOK, AtWork
<1>8. RestOK
  <2>1. NoData \in Datas /\ Dangling \in 1..Dangling
    BY ImportAssumption DEF NoData, Datas, Values, Dangling
  <2> QED
    BY <1>1, <2>1 DEF RestOK, IdleUi
<1>9. CountedHeld /\ BackedUp
  BY <1>1, <1>6, IdleOK DEF CountedHeld, BackedUp
<1>10. FilesNamed /\ FilesKept /\ OwedKept
  BY <1>1, <1>6, IdleOK DEF FilesNamed, FilesKept, OwedKept
<1>11. NoTwins
  BY <1>6, IdleOK, TwinIdle DEF NoTwins
<1> QED
  BY <1>5, <1>7, <1>8, <1>9, <1>10, <1>11 DEF IInv, TypeOK

LEMMA StepInv ==
  ASSUME IInv, [Next]_vars
  PROVE  IInv'
<1>1. TypeOK /\ Effect
  BY StepEffect DEF IInv
<1>2. TypeOK'
  BY <1>1, VaultStep, JobsStep, RestStep DEF TypeOK
<1> QED
  BY <1>1, <1>2, CountedStep, BackedStep, FilesStep, TwinsStep DEF IInv

LEMMA InvHolds == Spec => []IInv
<1>1. Init => IInv
  BY InitInv
<1>2. IInv /\ [Next]_vars => IInv'
  BY StepInv
<1> QED
  BY <1>1, <1>2, PTL DEF Spec

\* An entry that the importer reports as imported is in the database file: whoever
\* commits or rolls back on the one connection between its INSERT and its commit
\* (EntryManager.create_entry), it is there, or a rollback took it back before it
\* was counted, or the user deleted it.
THEOREM CountedStored == Spec => []CountedIsStored
<1>1. IInv => CountedIsStored
  BY DEF IInv, CountedHeld, Held, CountedIsStored
<1> QED
  BY <1>1, InvHolds, PTL

\* The strategy "skip" (_import_entries and its index) makes no second entry of
\* a title and user name, for any files, whatever the other threads write; a
\* title or user name stored with spaces around it is never looked up.
THEOREM SkipsTwins == Spec => []SkipMakesNoTwin
<1>1. IInv => SkipMakesNoTwin
  <2>1. SUFFICES ASSUME IInv, NEW j \in Jobs, job[j].pc = "created",
                        job[j].strat = "skip", ~job[j].blind,
                        NEW n \in Present(view) \ {job[j].made},
                        view[n].key = job[j].key, Stripped(view[n].key) = view[n].key
                 PROVE  n \in job[j].touched
    BY DEF SkipMakesNoTwin
  <2>2. Indexed(job[j], view) /\ NewKey(job[j])
    BY <2>1 DEF IInv, NoTwins, TwinFree
  <2>3. job[j].index[job[j].key] = 0
    BY <2>1, <2>2 DEF NewKey
  <2>4. n \in Ids /\ view[n] # Gone /\ n # job[j].made
    BY <2>1 DEF Present
  <2> QED
    BY <2>1, <2>2, <2>3, <2>4 DEF Indexed
<1> QED
  BY <1>1, InvHolds, PTL

\* Whatever imports overwrite is in a backup (create_backup), for any number of
\* imports at once and any crashes.
THEOREM BackupsCover == Spec => []OverwrittenIsBackedUp
<1>1. IInv => OverwrittenIsBackedUp
  BY DEF IInv, BackedUp, Covered, OverwrittenIsBackedUp
<1> QED
  BY <1>1, InvHolds, PTL

\* The rows an interrupted import had still to come to stay in a checkpoint file
\* (_write_checkpoint) until resume_import has dealt with them, even when two
\* threads resume from one file.
THEOREM CheckpointsLast == Spec => []OwedIsCheckpointed
<1>1. IInv => OwedIsCheckpointed
  BY DEF IInv, OwedKept, Holds, OwedIsCheckpointed
<1> QED
  BY <1>1, InvHolds, PTL
===============================================================================
