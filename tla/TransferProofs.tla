----------------------------- MODULE TransferProofs -----------------------------
(***************************************************************************)
(* What an export leaves behind, where it lies, and that a finished one    *)
(* can be read again: for every vault, every choice of formats, names and  *)
(* passwords, and any number of threads.                                   *)
(***************************************************************************)
EXTENDS Transfer, FiniteSetTheorems, SequenceTheorems, WellFoundedInduction, TLAPS

\* A file of this program, half written or whole, is as its handler writes it.
AsWritten(f) == f.ours =>
  /\ f.ext = Suffix(f.fmt) /\ f.sound /\ f.hash # "wrong"
  /\ f.fmt \in {"json", "lastpass"} => f.enc \in Passwords
  /\ f.fmt \in {"csv", "bitwarden"} => f.enc = NoPassword
  /\ f.fmt = "csv" =>
       \A i \in 1..Len(f.body) : i \in 1..Len(f.src) /\ f.body[i] = CsvRow(f.src[i])
  /\ f.whole => f.body = Written(f.fmt, f.src)
GoodFiles == {f \in Files : AsWritten(f)}

ExportStages == {"idle", "collect", "write", "written", "move", "copying"}
ExportStates == [pc : ExportStages, fmt : FormatNames, name : Names \cup {"none"},
                 password : Passwords \cup {NoPassword}, gzip : BOOLEAN, all : BOOLEAN,
                 ids : Seq(VaultIds), i : Nat, got : Seq(Entries)]

VaultOK ==
  /\ IsFiniteSet(DOMAIN vault) /\ DOMAIN vault \subseteq VaultIds
  /\ \A n \in DOMAIN vault : vault[n] \in Entries

ExportsOK ==
  /\ exp \in [Threads -> ExportStates]
  /\ \A t \in Threads : exp[t].pc # "idle" =>
       /\ exp[t].name \in Names
       /\ exp[t].fmt \in {"json", "lastpass"} => exp[t].password \in Passwords

FilesOK ==
  /\ temps \in [Threads -> SUBSET GoodFiles] /\ orphans \subseteq GoodFiles
  /\ files \in [Names -> {NoFile} \cup GoodFiles]

\* mkstemp comes with the content, and what is moved is complete.
TempsByStage ==
  \A t \in Threads :
    /\ exp[t].pc \in {"idle", "collect", "write"} => temps[t] = {}
    /\ exp[t].pc = "written" => \A f \in temps[t] : f.body = Written(f.fmt, f.src)
    /\ exp[t].pc \in {"move", "copying"} => \A f \in temps[t] : f.whole

\* On the volume of the temporary directory only a rename makes a file.
NearWhole ==
  \A n \in Near : files[n] = NoFile \/ files[n].whole

NearNotCopied == \A t \in Threads : exp[t].pc = "copying" => exp[t].name \notin Near

\* What the importer began with is a file, read as the dialog had it detected.
ToldOK ==
  /\ told.file # NoFile => told.file \in GoodFiles /\ told.rows \in RowsRead(told.file, told.fmt)
  /\ reading # {} \/ previews # {} \/ dialog.button => dialog.name \in Names
  /\ dialog = [name |-> dialog.name, fmt |-> dialog.fmt, button |-> dialog.button,
               open |-> dialog.open]

IInv == /\ VaultOK /\ ExportsOK /\ FilesOK /\ TempsByStage /\ NearWhole /\ NearNotCopied
        /\ ToldOK

-------------------------------------------------------------------------------
(* The files. *)

LEMMA SequenceOf ==
  ASSUME NEW S, IsFiniteSet(S)
  PROVE  SetToSeq(S) \in Seq(S)
<1>1. Cardinality(S) \in Nat /\ ExistsBijection(1..Cardinality(S), S)
  BY FS_CardinalityType
<1>2. \E f \in [1..Cardinality(S) -> S] : IsInjective(f)
  BY <1>1 DEF ExistsBijection, Bijection, Injection, IsInjective
<1>3. SetToSeq(S) \in [1..Cardinality(S) -> S]
  BY <1>2 DEF SetToSeq
<1> QED
  BY <1>1, <1>3

\* _collect_entries returns entries of the vault.
LEMMA AllEntriesType ==
  ASSUME VaultOK
  PROVE  AllEntries \in Seq(Entries)
<1> DEFINE ids == SetToSeq(DOMAIN vault)
<1>1. ids \in Seq(DOMAIN vault)
  BY SequenceOf DEF VaultOK
<1>2. \A i \in 1..Len(ids) : vault[ids[i]] \in Entries
  BY <1>1 DEF VaultOK
<1>3. [i \in 1..Len(ids) |-> vault[ids[i]]] \in Seq(Entries)
  BY <1>1, <1>2
<1> QED
  BY <1>3 DEF AllEntries

\* What a handler writes is a file of this kind.
LEMMA WrittenType ==
  ASSUME NEW fmt \in FormatNames, NEW got \in Seq(Entries)
  PROVE  /\ Written(fmt, got) \in Seq(Entries \cup CsvLines \cup Items \cup LastPassLines)
         /\ fmt = "csv" => /\ Len(Written(fmt, got)) = Len(got)
                           /\ \A i \in 1..Len(got) : Written(fmt, got)[i] = CsvRow(got[i])
<1> DEFINE Lines == Entries \cup CsvLines \cup Items \cup LastPassLines
<1>1. \A e \in Entries : /\ CsvRow(e) \in CsvLines /\ BitwardenItem(e) \in Items
                         /\ LastPassRow(e) \in LastPassLines
  BY FormatsAssumption
  DEF Entries, TagFields, CsvLines, Items, LastPassLines, CsvRow, BitwardenItem, LastPassRow
<1>2. /\ Map(CsvRow, got) \in Seq(Lines) /\ Len(Map(CsvRow, got)) = Len(got)
      /\ \A i \in 1..Len(got) : Map(CsvRow, got)[i] = CsvRow(got[i])
  BY <1>1 DEF Map
<1>3. Map(BitwardenItem, got) \in Seq(Lines) /\ Map(LastPassRow, got) \in Seq(Lines)
  BY <1>1 DEF Map
<1>4. got \in Seq(Lines)
  OBVIOUS
<1> QED
  BY <1>2, <1>3, <1>4 DEF Written, FormatNames

\* An export is one of those, whole and of this program.
LEMMA ExportedFile ==
  ASSUME NEW fmt \in FormatNames, NEW got \in Seq(Entries),
         NEW password \in Passwords \cup {NoPassword}, NEW gzip \in BOOLEAN,
         fmt \in {"json", "lastpass"} => password \in Passwords
  PROVE  /\ Exported(fmt, got, password, gzip) \in GoodFiles
         /\ Exported(fmt, got, password, gzip).body =
              Written(fmt, Exported(fmt, got, password, gzip).src)
<1> DEFINE f == Exported(fmt, got, password, gzip)
           unit == IF fmt = "json" /\ gzip THEN 1 ELSE Weight[fmt]
<1>1. Len(got) * unit \in Nat
  <2>1. Weight[fmt] \in Nat
    BY FormatsAssumption
  <2>2. Len(got) \in Nat /\ unit \in Nat
    BY <2>1
  <2> HIDE DEF unit
  <2> QED
    BY <2>2
<1>2. Suffix(fmt) \in {".json", ".csv"} /\ LockedWith(fmt, password) \in Passwords \cup {NoPassword}
  BY DEF Suffix, LockedWith
<1>3. /\ f.ext = Suffix(fmt) /\ f.fmt = fmt /\ f.body = Written(fmt, got)
      /\ f.enc = LockedWith(fmt, password) /\ f.sound /\ f.src = got
      /\ f.hash = IF fmt = "json" THEN "right" ELSE "none"
  BY DEF Exported
<1>4. f \in Files
  BY <1>1, <1>2, WrittenType DEF Exported, Files
<1>5. AsWritten(f)
  <2>1. f.ext = Suffix(f.fmt) /\ f.sound /\ f.hash # "wrong"
    BY <1>3
  <2>2. f.fmt \in {"json", "lastpass"} => f.enc \in Passwords
    BY <1>3 DEF LockedWith
  <2>3. f.fmt \in {"csv", "bitwarden"} => f.enc = NoPassword
    BY <1>3 DEF LockedWith
  <2>4. f.fmt = "csv" =>
          \A i \in 1..Len(f.body) : i \in 1..Len(f.src) /\ f.body[i] = CsvRow(f.src[i])
    BY <1>3, WrittenType
  <2>5. f.body = Written(f.fmt, f.src)
    BY <1>3
  <2> QED
    BY <2>1, <2>2, <2>3, <2>4, <2>5 DEF AsWritten
<1> QED
  BY <1>3, <1>4, <1>5 DEF GoodFiles

\* The same when it is marked unfinished.
LEMMA Unfinished ==
  ASSUME NEW f \in GoodFiles
  PROVE  /\ [f EXCEPT !.whole = FALSE] \in GoodFiles
         /\ [f EXCEPT !.whole = FALSE].fmt = f.fmt /\ [f EXCEPT !.whole = FALSE].src = f.src
         /\ [f EXCEPT !.whole = FALSE].body = f.body
<1> DEFINE g == [f EXCEPT !.whole = FALSE]
<1>1. f \in Files /\ AsWritten(f)
  BY DEF GoodFiles
<1>2. g \in Files /\ g.whole = FALSE
  BY <1>1 DEF Files
<1>3. /\ g.ext = f.ext /\ g.fmt = f.fmt /\ g.body = f.body /\ g.enc = f.enc
      /\ g.hash = f.hash /\ g.sound = f.sound /\ g.ours = f.ours /\ g.src = f.src
  BY <1>1 DEF Files
<1> HIDE DEF g
<1>4. AsWritten(g)
  BY <1>1, <1>2, <1>3 DEF AsWritten
<1>5. g \in GoodFiles
  BY <1>2, <1>4 DEF GoodFiles
<1> QED
  BY <1>3, <1>5 DEF g

\* And when it is closed.
LEMMA Finished ==
  ASSUME NEW f \in GoodFiles, f.body = Written(f.fmt, f.src)
  PROVE  [f EXCEPT !.whole = TRUE] \in GoodFiles /\ [f EXCEPT !.whole = TRUE].whole
<1> DEFINE g == [f EXCEPT !.whole = TRUE]
<1>1. f \in Files /\ AsWritten(f)
  BY DEF GoodFiles
<1>2. g \in Files /\ g.whole = TRUE
  BY <1>1 DEF Files
<1>3. /\ g.ext = f.ext /\ g.fmt = f.fmt /\ g.body = f.body /\ g.enc = f.enc
      /\ g.hash = f.hash /\ g.sound = f.sound /\ g.ours = f.ours /\ g.src = f.src
  BY <1>1 DEF Files
<1> HIDE DEF g
<1>4. AsWritten(g)
  BY <1>1, <1>2, <1>3 DEF AsWritten
<1>5. g \in GoodFiles
  BY <1>2, <1>4 DEF GoodFiles
<1> QED
  BY <1>2, <1>5 DEF g

\* A copy that is not finished holds the first rows of the file.
LEMMA CopyPart ==
  ASSUME NEW f \in GoodFiles, NEW k \in 0..Len(f.body)
  PROVE  [f EXCEPT !.whole = FALSE, !.body = SubSeq(f.body, 1, k)] \in GoodFiles
<1> DEFINE g == [f EXCEPT !.whole = FALSE, !.body = SubSeq(f.body, 1, k)]
           Lines == Entries \cup CsvLines \cup Items \cup LastPassLines
<1>1. f \in Files /\ AsWritten(f) /\ f.body \in Seq(Lines)
  BY DEF GoodFiles, Files
<1> HIDE DEF Lines
<1>2. /\ SubSeq(f.body, 1, k) \in Seq(Lines) /\ Len(SubSeq(f.body, 1, k)) = k
      /\ \A i \in 1..k : SubSeq(f.body, 1, k)[i] = f.body[i]
  BY <1>1
<1>3. g \in Files /\ g.whole = FALSE
  BY <1>1, <1>2 DEF Files, Lines
<1>4. /\ g.ext = f.ext /\ g.fmt = f.fmt /\ g.body = SubSeq(f.body, 1, k) /\ g.enc = f.enc
      /\ g.hash = f.hash /\ g.sound = f.sound /\ g.ours = f.ours /\ g.src = f.src
  BY <1>1 DEF Files
<1> HIDE DEF g
<1>5. AsWritten(g)
  <2>1. ASSUME g.ours, g.fmt = "csv", NEW i \in 1..Len(g.body)
        PROVE  i \in 1..Len(g.src) /\ g.body[i] = CsvRow(g.src[i])
    <3>1. i \in 1..k /\ i \in 1..Len(f.body) /\ g.body[i] = f.body[i]
      BY <1>1, <1>2, <1>4
    <3> QED
      BY <1>1, <1>4, <2>1, <3>1 DEF AsWritten
  <2> QED
    BY <1>1, <1>3, <1>4, <2>1 DEF AsWritten
<1>6. g \in GoodFiles
  BY <1>3, <1>5 DEF GoodFiles
<1> QED
  BY <1>6 DEF g

-------------------------------------------------------------------------------
(* What FlattenSeq makes of sequences of at most one element.  It chooses a *)
(* recursive function; that there is one, and what it is, is shown for ever *)
(* more of the sequences: the numbers it holds for are all numbers.         *)

Less == {p \in Nat \X Nat : p[1] < p[2]}

LEMMA LessWellFounded == IsWellFoundedOn(Less, Nat)
<1>1. OpToRel(<, Nat) = Less
  BY DEF OpToRel, Less
<1> QED
  BY <1>1, NatLessThanWellFounded

\* A set with 0 and every successor has every number.
LEMMA Successors ==
  ASSUME NEW S, 0 \in S, \A n \in Nat : n \in S => n + 1 \in S
  PROVE  Nat \subseteq S
<1> DEFINE Out == {n \in Nat : n \notin S}
<1>1. SUFFICES ASSUME Out # {} PROVE FALSE
  OBVIOUS
<1>2. Out \subseteq Nat
  OBVIOUS
<1>3. PICK m \in Out : \A k \in Out : ~(<<k, m>> \in Less)
  <2> HIDE DEF Out
  <2> QED
    BY <1>1, <1>2, LessWellFounded, WFMin
<1>4. m \in Nat /\ m # 0 /\ m - 1 \in Nat
  OBVIOUS
<1>5. <<m - 1, m>> \in Less
  <2>1. m - 1 < m
    BY <1>4
  <2> QED
    BY <1>4, <2>1 DEF Less
<1>6. m - 1 \in S
  BY <1>3, <1>4, <1>5
<1> QED
  BY <1>4, <1>6

\* The function FlattenSeq chooses, for the first n sequences.
Flattens(ss, n, g) ==
  g = [i \in 1..n |-> IF i = 1 THEN ss[i] ELSE g[i - 1] \o ss[i]]

LEMMA FlattenChooses ==
  ASSUME NEW ss
  PROVE  FlattenSeq(ss) = IF Len(ss) = 0 THEN ss
                          ELSE (CHOOSE g : Flattens(ss, Len(ss), g))[Len(ss)]
BY DEF FlattenSeq, Flattens

LEMMA FlattenExists ==
  ASSUME NEW ss, NEW n \in Nat
  PROVE  \E g : Flattens(ss, n, g)
<1> DEFINE S == {m \in Nat : \E g : Flattens(ss, m, g)}
<1>1. 0 \in S
  <2>1. Flattens(ss, 0, [i \in 1..0 |-> ss[i]])
    BY DEF Flattens
  <2> QED
    BY <2>1
<1>2. ASSUME NEW m \in Nat, m \in S PROVE m + 1 \in S
  <2>1. PICK g : Flattens(ss, m, g)
    BY <1>2
  <2> DEFINE h == [i \in 1..m + 1 |->
                     IF i = 1 THEN ss[i]
                     ELSE IF i = m + 1 THEN g[i - 1] \o ss[i] ELSE g[i]]
  <2>2. \A i \in 1..m : g[i] = IF i = 1 THEN ss[i] ELSE g[i - 1] \o ss[i]
    BY <2>1 DEF Flattens
  <2>3. \A i \in 1..m : h[i] = g[i]
    BY <2>2
  <2>4. ASSUME NEW i \in 1..m + 1
        PROVE  h[i] = IF i = 1 THEN ss[i] ELSE h[i - 1] \o ss[i]
    <3>1. CASE i = 1
      BY <3>1
    <3>2. CASE i # 1 /\ i = m + 1
      <4>1. i - 1 \in 1..m
        BY <3>2
      <4> QED
        BY <2>3, <3>2, <4>1
    <3>3. CASE i # 1 /\ i # m + 1
      <4>1. i \in 1..m /\ i - 1 \in 1..m
        BY <3>3
      <4> QED
        BY <2>2, <2>3, <3>3, <4>1
    <3> QED
      BY <3>1, <3>2, <3>3
  <2>5. Flattens(ss, m + 1, h)
    BY <2>4 DEF Flattens
  <2> QED
    BY <2>5
<1>3. Nat \subseteq S
  <2> HIDE DEF S
  <2> QED
    BY <1>1, <1>2, Successors
<1> QED
  BY <1>3

\* What it chooses begins with the first sequence and appends the others.
LEMMA FlattenWalk ==
  ASSUME NEW ss, NEW n \in Nat, n = Len(ss), n # 0
  PROVE  \E g : /\ FlattenSeq(ss) = g[n] /\ g[1] = ss[1]
                /\ \A i \in 1..n : i # 1 => g[i] = g[i - 1] \o ss[i]
<1> DEFINE g == CHOOSE h : Flattens(ss, n, h)
<1>1. Flattens(ss, n, g)
  BY FlattenExists
<1>2. FlattenSeq(ss) = g[n]
  BY FlattenChooses
<1> HIDE DEF g
<1>3. \A i \in 1..n : g[i] = IF i = 1 THEN ss[i] ELSE g[i - 1] \o ss[i]
  BY <1>1 DEF Flattens
<1>4. 1 \in 1..n
  OBVIOUS
<1> QED
  BY <1>2, <1>3, <1>4

\* Two sequences of n elements, with at most one more at the end of each.
OneMore(a, b, s, u, t, v, n, d) ==
  /\ Len(a) = n + d /\ Len(b) = n + d
  /\ \A i \in 1..n + d :
       \/ i \in 1..n /\ a[i] = s[i] /\ b[i] = t[i]
       \/ i = n + 1 /\ d = 1 /\ a[i] = u[1] /\ b[i] = v[1]

LEMMA AppendAlike ==
  ASSUME NEW A, NEW B, NEW s \in Seq(A), NEW u \in Seq(A), NEW t \in Seq(B), NEW v \in Seq(B),
         NEW n, NEW d
  PROVE  /\ s \o u \in Seq(A) /\ t \o v \in Seq(B)
         /\ (d \in {0, 1} /\ n = Len(s) /\ n = Len(t) /\ d = Len(u) /\ d = Len(v)) =>
              OneMore(s \o u, t \o v, s, u, t, v, n, d)
<1> DEFINE a == s \o u  b == t \o v
           ls == Len(s)  lu == Len(u)  lt == Len(t)  lv == Len(v)
<1>1. /\ a \in Seq(A) /\ Len(a) = ls + lu
      /\ \A i \in 1..ls + lu : a[i] = IF i <= ls THEN s[i] ELSE u[i - ls]
  BY ConcatProperties
<1>2. /\ b \in Seq(B) /\ Len(b) = lt + lv
      /\ \A i \in 1..lt + lv : b[i] = IF i <= lt THEN t[i] ELSE v[i - lt]
  BY ConcatProperties
<1>0. ls \in Nat
  OBVIOUS
<1> HIDE DEF a, b, ls, lu, lt, lv
<1>3. ASSUME d \in {0, 1}, n = ls, n = lt, d = lu, d = lv
      PROVE  OneMore(a, b, s, u, t, v, n, d)
  <2>1. ASSUME NEW i \in 1..n + d
        PROVE  \/ i \in 1..n /\ i <= n
               \/ i = n + 1 /\ ~(i <= n) /\ d = 1 /\ i - n = 1
    <3>1. (d = 0 \/ d = 1) /\ n \in Nat
      BY <1>0, <1>3
    <3> QED
      BY <3>1
  <2>2. \A i \in 1..n + d : a[i] = IF i <= n THEN s[i] ELSE u[i - n]
    BY <1>1, <1>3
  <2>3. \A i \in 1..n + d : b[i] = IF i <= n THEN t[i] ELSE v[i - n]
    BY <1>2, <1>3
  <2>4. Len(a) = n + d /\ Len(b) = n + d
    BY <1>1, <1>2, <1>3
  <2> QED
    BY <2>1, <2>2, <2>3, <2>4 DEF OneMore
<1> QED
  BY <1>1, <1>2, <1>3 DEF a, b, ls, lu, lt, lv

\* What remains of two sequences whose elements are both empty or both single.
Singles(ss, tt, xs, ys) ==
  /\ Len(xs) = Len(ys)
  /\ \A i \in 1..Len(ys) : \E k \in 1..Len(ss) :
       Len(ss[k]) = 1 /\ xs[i] = ss[k][1] /\ ys[i] = tt[k][1]
  /\ (\A k \in 1..Len(ss) : Len(ss[k]) = 1) =>
       Len(xs) = Len(ss) /\ \A i \in 1..Len(ss) : xs[i] = ss[i][1]

\* The same ones, in the same order; all of them where none is empty.
LEMMA FlattenAlike ==
  ASSUME NEW A, NEW B, NEW ss \in Seq(Seq(A)), NEW tt \in Seq(Seq(B)), Len(ss) = Len(tt),
         \A k \in 1..Len(ss) : Len(ss[k]) = Len(tt[k]) /\ Len(ss[k]) \in {0, 1}
  PROVE  Singles(ss, tt, FlattenSeq(ss), FlattenSeq(tt))
<1>1. CASE Len(ss) = 0
  <2>1. FlattenSeq(ss) = ss /\ FlattenSeq(tt) = tt
    BY <1>1, FlattenChooses
  <2>2. 1..Len(ss) = {} /\ 1..Len(tt) = {} /\ Len(ss) = 0
    BY <1>1
  <2> QED
    BY <2>1, <2>2 DEF Singles
<1>2. CASE Len(ss) # 0
  <2>0. PICK n \in Nat : n = Len(ss) /\ n # 0
    BY <1>2
  <2>1. PICK g : /\ FlattenSeq(ss) = g[n] /\ g[1] = ss[1]
                 /\ \A i \in 1..n : i # 1 => g[i] = g[i - 1] \o ss[i]
    BY <2>0, FlattenWalk
  <2>2. PICK h : /\ FlattenSeq(tt) = h[n] /\ h[1] = tt[1]
                 /\ \A i \in 1..n : i # 1 => h[i] = h[i - 1] \o tt[i]
    BY <2>0, FlattenWalk
  <2> DEFINE Alike(m) ==
        /\ g[m] \in Seq(A) /\ h[m] \in Seq(B) /\ Len(g[m]) = Len(h[m])
        /\ \A i \in 1..Len(h[m]) : \E k \in 1..m :
             Len(ss[k]) = 1 /\ g[m][i] = ss[k][1] /\ h[m][i] = tt[k][1]
        /\ (\A k \in 1..n : Len(ss[k]) = 1) =>
             Len(g[m]) = m /\ \A i \in 1..m : g[m][i] = ss[i][1]
      S == {m \in Nat : m + 1 <= n => Alike(m + 1)}
  <2>3. \A k \in 1..n : /\ ss[k] \in Seq(A) /\ tt[k] \in Seq(B)
                        /\ Len(ss[k]) = Len(tt[k]) /\ Len(ss[k]) \in {0, 1}
    BY <2>0
  <2>4. 0 \in S
    <3>1. 1 \in 1..n
      BY <2>0
    <3>2. Alike(1)
      BY <2>1, <2>2, <2>3, <3>1
    <3> HIDE DEF Alike
    <3> QED
      BY <3>2
  <2>5. ASSUME NEW p \in Nat, p \in S PROVE p + 1 \in S
    <3> SUFFICES ASSUME p + 2 <= n PROVE Alike(p + 2)
      <4> HIDE DEF Alike
      <4> QED
        OBVIOUS
    <3>1. PICK m \in Nat : m = p + 1
      OBVIOUS
    <3>2. m \in 1..n /\ m + 1 \in 1..n /\ m + 1 # 1 /\ p + 2 = m + 1 /\ (m + 1) - 1 = m
      BY <3>1
    <3>3. Alike(m)
      <4> HIDE DEF Alike
      <4> QED
        BY <2>5, <3>1
    <3>4. g[m + 1] = g[m] \o ss[m + 1] /\ h[m + 1] = h[m] \o tt[m + 1]
      BY <2>1, <2>2, <3>2
    <3>5. /\ ss[m + 1] \in Seq(A) /\ tt[m + 1] \in Seq(B)
          /\ Len(ss[m + 1]) = Len(tt[m + 1]) /\ Len(ss[m + 1]) \in {0, 1}
      BY <2>3, <3>2
    <3> DEFINE s == g[m]  u == ss[m + 1]  t == h[m]  v == tt[m + 1]
    <3>6. PICK len \in Nat : len = Len(s) /\ len = Len(t)
      BY <3>3
    <3>7. /\ s \in Seq(A) /\ t \in Seq(B)
          /\ \A i \in 1..len : \E k \in 1..m :
               Len(ss[k]) = 1 /\ s[i] = ss[k][1] /\ t[i] = tt[k][1]
          /\ (\A k \in 1..n : Len(ss[k]) = 1) =>
               len = m /\ \A i \in 1..m : s[i] = ss[i][1]
      BY <3>3, <3>6
    <3> HIDE DEF s, u, t, v, Alike, S
    <3>8. /\ g[m + 1] = s \o u /\ h[m + 1] = t \o v /\ u \in Seq(A) /\ v \in Seq(B)
          /\ Len(u) = Len(v) /\ Len(u) \in {0, 1}
      BY <3>4, <3>5 DEF s, u, t, v
    <3>81. PICK d \in {0, 1} : d = Len(u) /\ d = Len(v)
      BY <3>8
    <3>9. s \o u \in Seq(A) /\ t \o v \in Seq(B) /\ OneMore(s \o u, t \o v, s, u, t, v, len, d)
      BY <3>6, <3>7, <3>8, <3>81, AppendAlike, Zenon
    <3>10. ASSUME NEW i \in 1..len + d
           PROVE  \E k \in 1..m + 1 :
                    Len(ss[k]) = 1 /\ (s \o u)[i] = ss[k][1] /\ (t \o v)[i] = tt[k][1]
      <4>1. CASE i \in 1..len /\ (s \o u)[i] = s[i] /\ (t \o v)[i] = t[i]
        <5>1. PICK k \in 1..m : Len(ss[k]) = 1 /\ s[i] = ss[k][1] /\ t[i] = tt[k][1]
          BY <3>7, <4>1
        <5>2. k \in 1..m + 1
          OBVIOUS
        <5> QED
          BY <4>1, <5>1, <5>2
      <4>2. CASE d = 1 /\ (s \o u)[i] = u[1] /\ (t \o v)[i] = v[1]
        <5>1. m + 1 \in 1..m + 1
          OBVIOUS
        <5> QED
          BY <3>81, <4>2, <5>1 DEF u, v
      <4> QED
        BY <3>9, <4>1, <4>2 DEF OneMore
    <3>11. ASSUME \A k \in 1..n : Len(ss[k]) = 1
           PROVE  /\ len + d = m + 1
                  /\ \A i \in 1..m + 1 : (s \o u)[i] = ss[i][1]
      <4>1. d = 1 /\ len = m /\ \A i \in 1..m : s[i] = ss[i][1]
        BY <3>2, <3>7, <3>81, <3>11 DEF u
      <4>2. ASSUME NEW i \in 1..m + 1 PROVE (s \o u)[i] = ss[i][1]
        <5>1. CASE i \in 1..m /\ (s \o u)[i] = s[i]
          BY <4>1, <5>1
        <5>2. CASE i = m + 1 /\ (s \o u)[i] = u[1]
          BY <5>2 DEF u
        <5> QED
          BY <3>9, <4>1, <5>1, <5>2 DEF OneMore
      <4> QED
        BY <4>1, <4>2
    <3>12. Alike(m + 1)
      <4> DEFINE a == s \o u  b == t \o v
      <4>1. g[m + 1] = a /\ h[m + 1] = b
        BY <3>8
      <4>2. a \in Seq(A) /\ b \in Seq(B) /\ Len(a) = len + d /\ Len(b) = len + d
        BY <3>9 DEF OneMore
      <4>3. /\ \A i \in 1..len + d : \E k \in 1..m + 1 :
                 Len(ss[k]) = 1 /\ a[i] = ss[k][1] /\ b[i] = tt[k][1]
            /\ (\A k \in 1..n : Len(ss[k]) = 1) =>
                 len + d = m + 1 /\ \A i \in 1..m + 1 : a[i] = ss[i][1]
        BY <3>10, <3>11
      <4> HIDE DEF a, b
      <4> QED
        BY <4>1, <4>2, <4>3 DEF Alike
    <3> QED
      BY <3>2, <3>12
  <2>6. Alike(n)
    <3>1. n - 1 \in S
      <4> HIDE DEF S
      <4>1. n - 1 \in Nat
        BY <2>0
      <4> QED
        BY <2>4, <2>5, <4>1, Successors
    <3>2. (n - 1) + 1 = n
      BY <2>0
    <3> HIDE DEF Alike
    <3> QED
      BY <3>1, <3>2
  <2> QED
    BY <2>0, <2>1, <2>2, <2>6 DEF Singles
<1> QED
  BY <1>1, <1>2

-------------------------------------------------------------------------------
(* The steps. *)

LEMMA IdleExportType == IdleExport \in ExportStates /\ IdleExport.pc = "idle"
BY DEF IdleExport, ExportStates, ExportStages, FormatNames

LEMMA VaultStep ==
  ASSUME VaultOK, [Next]_vars
  PROVE  VaultOK'
<1>1. CASE Edit
  <2>1. PICK n \in DOMAIN vault, p \in Edited : vault' = [vault EXCEPT ![n] =
          [vault[n] EXCEPT !.password = p, !.totp = "", !.favorite = FALSE]]
    BY <1>1 DEF Edit
  <2>2. vault[n] \in Entries /\ p \in Texts /\ "" \in Texts
    BY TransferAssumption, FormatsAssumption DEF VaultOK
  <2>3. [vault[n] EXCEPT !.password = p, !.totp = "", !.favorite = FALSE] \in Entries
    BY <2>2 DEF Entries
  <2> QED
    BY <2>1, <2>3 DEF VaultOK
<1>2. CASE Delete
  BY <1>2, FS_Subset DEF VaultOK, Delete
<1>3. CASE UNCHANGED vault
  BY <1>3 DEF VaultOK
<1>4. ASSUME NEW t \in Threads, ExportBegins(t) \/ ExportStep(t) PROVE UNCHANGED vault
  BY <1>4 DEF ExportBegins, ExportStep, Collect, Write, Close, Move
<1> QED
  BY <1>1, <1>2, <1>3, <1>4
  DEF Next, vars, Browse, PreviewRuns, PreviewShown, ImportBegins, ImportReads, Lock, Unlock,
      Crash

\* A step of an export is one of these to its files.
LEMMA CollectTypes ==
  ASSUME VaultOK, ExportsOK, NEW t \in Threads, Collect(t)
  PROVE  /\ exp[t].pc = "collect"
         /\ \/ exp' = [exp EXCEPT ![t] = IdleExport] /\ temps' = [temps EXCEPT ![t] = {}]
            \/ /\ UNCHANGED temps
               /\ exp' \in [Threads -> ExportStates]
               /\ exp'[t].pc \in {"collect", "write"}
               /\ exp'[t].name = exp[t].name /\ exp'[t].fmt = exp[t].fmt
               /\ exp'[t].password = exp[t].password
               /\ \A u \in Threads : u # t => exp'[u] = exp[u]
<1> DEFINE x == exp[t]
<1>0. x.pc = "collect"
  BY DEF Collect
<1>1. x \in ExportStates /\ exp \in [Threads -> ExportStates]
  BY DEF ExportsOK
<1>2. CASE UNCHANGED temps /\ exp' = [exp EXCEPT ![t].pc = "write", ![t].got = AllEntries]
  <2>1. [x EXCEPT !.pc = "write", !.got = AllEntries] \in ExportStates
    BY <1>1, AllEntriesType DEF ExportStates, ExportStages
  <2> QED
    BY <1>0, <1>1, <1>2, <2>1 DEF ExportStates
<1>3. CASE /\ UNCHANGED temps
           /\ exp' = [exp EXCEPT ![t].i = x.i + 1, ![t].got =
                IF x.ids[x.i] \in DOMAIN vault THEN Append(x.got, vault[x.ids[x.i]]) ELSE x.got]
  <2> DEFINE got == IF x.ids[x.i] \in DOMAIN vault THEN Append(x.got, vault[x.ids[x.i]])
                    ELSE x.got
  <2>1. got \in Seq(Entries) /\ x.i + 1 \in Nat
    BY <1>1 DEF ExportStates, VaultOK
  <2> HIDE DEF got
  <2>2. [x EXCEPT !.i = x.i + 1, !.got = got] \in ExportStates
    BY <1>1, <2>1 DEF ExportStates
  <2>3. exp' = [exp EXCEPT ![t] = [x EXCEPT !.i = x.i + 1, !.got = got]]
    BY <1>1, <1>3 DEF got
  <2>4. /\ exp' \in [Threads -> ExportStates] /\ exp'[t] = [x EXCEPT !.i = x.i + 1, !.got = got]
        /\ \A u \in Threads : u # t => exp'[u] = exp[u]
    BY <1>1, <2>2, <2>3
  <2>5. /\ exp'[t].pc = "collect" /\ exp'[t].name = x.name /\ exp'[t].fmt = x.fmt
        /\ exp'[t].password = x.password
    BY <1>0, <1>1, <2>4 DEF ExportStates
  <2> QED
    BY <1>0, <1>3, <2>4, <2>5
<1>4. CASE UNCHANGED temps /\ exp' = [exp EXCEPT ![t].pc = "write"]
  <2>1. [x EXCEPT !.pc = "write"] \in ExportStates
    BY <1>1 DEF ExportStates, ExportStages
  <2> QED
    BY <1>0, <1>1, <1>4, <2>1 DEF ExportStates
<1> QED
  BY <1>0, <1>2, <1>3, <1>4 DEF Collect, ExportFails

\* The other steps of an export go from stage to stage and keep what was asked.
LEMMA StageOnly ==
  ASSUME ExportsOK, NEW t \in Threads, NEW stage \in ExportStages \ {"idle"},
         exp[t].pc # "idle", exp' = [exp EXCEPT ![t].pc = stage]
  PROVE  /\ ExportsOK' /\ exp'[t].pc = stage /\ exp'[t].name = exp[t].name
         /\ \A u \in Threads : u # t => exp'[u] = exp[u]
<1> DEFINE x == exp[t]
<1>1. x \in ExportStates /\ exp \in [Threads -> ExportStates]
  BY DEF ExportsOK
<1>2. [x EXCEPT !.pc = stage] \in ExportStates
  BY <1>1 DEF ExportStates
<1>3. /\ exp' \in [Threads -> ExportStates] /\ exp'[t] = [x EXCEPT !.pc = stage]
      /\ \A u \in Threads : u # t => exp'[u] = exp[u]
  BY <1>1, <1>2
<1>4. /\ exp'[t].pc = stage /\ exp'[t].name = x.name /\ exp'[t].fmt = x.fmt
      /\ exp'[t].password = x.password
  BY <1>1, <1>3 DEF ExportStates
<1> QED
  BY <1>3, <1>4 DEF ExportsOK

LEMMA ExportsIdle ==
  ASSUME ExportsOK, NEW t \in Threads, exp' = [exp EXCEPT ![t] = IdleExport]
  PROVE  /\ ExportsOK' /\ exp'[t].pc = "idle"
         /\ \A u \in Threads : u # t => exp'[u] = exp[u]
BY IdleExportType DEF ExportsOK

LEMMA ExportsStep ==
  ASSUME VaultOK, ExportsOK, [Next]_vars
  PROVE  ExportsOK'
<1>1. ASSUME NEW t \in Threads, ExportBegins(t) PROVE ExportsOK'
  <2>1. PICK c \in Requests, n \in Names, p \in Passwords :
          exp' = [exp EXCEPT ![t] =
            [pc |-> "collect", fmt |-> c.fmt, name |-> n, gzip |-> c.gzip,
             password |-> IF c.fmt \in {"json", "lastpass"} THEN p ELSE NoPassword,
             all |-> c.all, ids |-> c.ids, i |-> 1, got |-> <<>>]]
    BY <1>1 DEF ExportBegins
  <2> DEFINE x == [pc |-> "collect", fmt |-> c.fmt, name |-> n, gzip |-> c.gzip,
             password |-> IF c.fmt \in {"json", "lastpass"} THEN p ELSE NoPassword,
             all |-> c.all, ids |-> c.ids, i |-> 1, got |-> <<>>]
  <2>2. /\ c.fmt \in FormatNames /\ c.gzip \in BOOLEAN /\ c.all \in BOOLEAN
        /\ c.ids \in Seq(VaultIds)
    BY TransferAssumption
  <2>3. x \in ExportStates
    BY <2>2 DEF ExportStates, ExportStages
  <2>4. x.name \in Names /\ (x.fmt \in {"json", "lastpass"} => x.password \in Passwords)
    OBVIOUS
  <2> HIDE DEF x
  <2> QED
    BY <2>1, <2>3, <2>4 DEF ExportsOK, x
<1>2. ASSUME NEW t \in Threads, Collect(t) PROVE ExportsOK'
  BY <1>2, CollectTypes, ExportsIdle DEF ExportsOK
<1>3. ASSUME NEW t \in Threads, Write(t) PROVE ExportsOK'
  BY <1>3, StageOnly, ExportsIdle DEF Write, ExportFails, ExportStages
<1>4. ASSUME NEW t \in Threads, Close(t) PROVE ExportsOK'
  BY <1>4, StageOnly, ExportsIdle DEF Close, ExportFails, ExportStages
<1>5. ASSUME NEW t \in Threads, Move(t) PROVE ExportsOK'
  BY <1>5, StageOnly, ExportsIdle DEF Move, ExportFails, ExportStages
<1>6. CASE Crash
  BY <1>6, IdleExportType DEF ExportsOK, Crash
<1>7. CASE UNCHANGED exp
  BY <1>7 DEF ExportsOK
<1> QED
  BY <1>1, <1>2, <1>3, <1>4, <1>5, <1>6, <1>7
  DEF Next, ExportStep, vars, Browse, PreviewRuns, PreviewShown, ImportBegins, ImportReads,
      Edit, Delete, Lock, Unlock

\* What is copied and what is renamed into place is a file of this program.
LEMMA MoveFiles ==
  ASSUME ExportsOK, FilesOK, TempsByStage, NearNotCopied, NEW t \in Threads, Move(t)
  PROVE  \/ /\ exp[t].pc \in {"move", "copying"} /\ UNCHANGED files
            /\ exp' = [exp EXCEPT ![t] = IdleExport] /\ temps' = [temps EXCEPT ![t] = {}]
         \/ /\ exp[t].name \in Names
            /\ exp' = [exp EXCEPT ![t] = IdleExport] /\ temps' = [temps EXCEPT ![t] = {}]
            /\ \E g \in GoodFiles : g.whole /\ files' = [files EXCEPT ![exp[t].name] = g]
         \/ /\ exp[t].pc = "move" /\ exp[t].name \in Names \ Near
            /\ exp' = [exp EXCEPT ![t].pc = "copying"] /\ UNCHANGED temps
            /\ \E g \in GoodFiles : files' = [files EXCEPT ![exp[t].name] = g]
<1>1. exp[t].pc \in {"move", "copying"} => exp[t].name \in Names
  BY DEF ExportsOK
<1>2. \A f \in temps[t] : f \in GoodFiles /\ (exp[t].pc \in {"move", "copying"} => f.whole)
  BY DEF FilesOK, TempsByStage
<1>3. CASE exp[t].pc \in {"move", "copying"} /\ ExportFails(t) /\ UNCHANGED files
  BY <1>3 DEF ExportFails
<1>4. CASE /\ exp[t].pc \in {"move", "copying"}
           /\ \E f \in temps[t] : files' = [files EXCEPT ![exp[t].name] = f]
           /\ exp' = [exp EXCEPT ![t] = IdleExport]
           /\ temps' = [temps EXCEPT ![t] = {}]
  BY <1>1, <1>2, <1>4
<1>5. CASE /\ exp[t].pc = "move" /\ exp[t].name \notin Near
           /\ \E f \in temps[t] : \E k \in 0..Len(f.body) :
                files' = [files EXCEPT ![exp[t].name] =
                  [f EXCEPT !.whole = FALSE, !.body = SubSeq(f.body, 1, k)]]
           /\ exp' = [exp EXCEPT ![t].pc = "copying"]
           /\ UNCHANGED temps
  BY <1>1, <1>2, <1>5, CopyPart
<1> QED
  BY <1>3, <1>4, <1>5 DEF Move

\* What a thread writes is such a file.
LEMMA ExportGood ==
  ASSUME ExportsOK, NEW t \in Threads, exp[t].pc # "idle"
  PROVE  LET f == Exported(exp[t].fmt, exp[t].got, exp[t].password, exp[t].gzip)
         IN f \in GoodFiles /\ f.body = Written(f.fmt, f.src)
<1>1. PICK x \in ExportStates : x = exp[t]
  BY DEF ExportsOK
<1>2. /\ x.fmt \in FormatNames /\ x.got \in Seq(Entries)
      /\ x.password \in Passwords \cup {NoPassword} /\ x.gzip \in BOOLEAN
      /\ x.fmt \in {"json", "lastpass"} => x.password \in Passwords
  BY <1>1 DEF ExportsOK, ExportStates
<1> DEFINE f == Exported(x.fmt, x.got, x.password, x.gzip)
<1>3. f \in GoodFiles
  BY <1>2, ExportedFile
<1>4. f.body = Written(x.fmt, f.src)
  BY <1>2, ExportedFile
<1>5. f.fmt = x.fmt
  BY DEF Exported
<1> QED
  BY <1>1, <1>3, <1>4, <1>5

\* Every file that lies anywhere is as written.
LEMMA FilesStep ==
  ASSUME VaultOK, ExportsOK, FilesOK, TempsByStage, NearNotCopied, [Next]_vars
  PROVE  FilesOK'
<1>1. ASSUME NEW t \in Threads, temps' = [temps EXCEPT ![t] = {}], UNCHANGED <<files, orphans>>
      PROVE  FilesOK'
  BY <1>1 DEF FilesOK
<1>2. CASE UNCHANGED <<temps, files, orphans>>
  BY <1>2 DEF FilesOK
<1>3. ASSUME NEW t \in Threads, ExportBegins(t) PROVE FilesOK'
  BY <1>2, <1>3 DEF ExportBegins
<1>4. ASSUME NEW t \in Threads, Collect(t) PROVE FilesOK'
  BY <1>1, <1>2, <1>4 DEF Collect, ExportFails
<1>5. ASSUME NEW t \in Threads, Write(t) PROVE FilesOK'
  <2> DEFINE f == Exported(exp[t].fmt, exp[t].got, exp[t].password, exp[t].gzip)
             g == [f EXCEPT !.whole = FALSE]
  <2>1. f \in GoodFiles
    BY <1>5, ExportGood DEF Write
  <2>2. g \in GoodFiles
    BY <2>1, Unfinished
  <2>3. /\ UNCHANGED <<files, orphans>>
        /\ temps' = [temps EXCEPT ![t] = {}] \/ temps' = [temps EXCEPT ![t] = {g}]
    BY <1>5 DEF Write, ExportFails
  <2> HIDE DEF g
  <2>4. CASE temps' = [temps EXCEPT ![t] = {g}]
    BY <2>2, <2>3, <2>4 DEF FilesOK
  <2> QED
    BY <1>1, <2>3, <2>4
<1>6. ASSUME NEW t \in Threads, Close(t) PROVE FilesOK'
  <2>1. CASE ExportFails(t)
    BY <1>1, <1>6, <2>1 DEF Close, ExportFails
  <2>2. CASE ~ExportFails(t)
    <3>1. PICK f \in temps[t] : temps' = [temps EXCEPT ![t] = {[f EXCEPT !.whole = TRUE]}]
      BY <1>6, <2>2 DEF Close
    <3> DEFINE g == [f EXCEPT !.whole = TRUE]
    <3>2. g \in GoodFiles
      BY <1>6, Finished DEF FilesOK, TempsByStage, Close
    <3>3. temps' = [temps EXCEPT ![t] = {g}] /\ UNCHANGED <<files, orphans>>
      BY <1>6, <3>1 DEF Close
    <3> HIDE DEF g
    <3> QED
      BY <3>2, <3>3 DEF FilesOK
  <2> QED
    BY <2>1, <2>2
<1>7. ASSUME NEW t \in Threads, Move(t) PROVE FilesOK'
  <2>1. UNCHANGED orphans
    BY <1>7 DEF Move
  <2> QED
    BY <1>1, <1>7, <2>1, MoveFiles DEF FilesOK
<1>8. CASE Crash
  BY <1>8 DEF FilesOK, Crash
<1> QED
  BY <1>2, <1>3, <1>4, <1>5, <1>6, <1>7, <1>8
  DEF Next, ExportStep, vars, Browse, PreviewRuns, PreviewShown, ImportBegins, ImportReads,
      Edit, Delete, Lock, Unlock

\* A thread between exports, or before mkstemp, has no file.
LEMMA StagesStep ==
  ASSUME VaultOK, ExportsOK, FilesOK, TempsByStage, NearNotCopied, [Next]_vars
  PROVE  TempsByStage' /\ NearNotCopied'
<1> USE DEF TempsByStage, NearNotCopied
<1>1. ASSUME NEW t \in Threads, exp' = [exp EXCEPT ![t] = IdleExport],
             temps' = [temps EXCEPT ![t] = {}]
      PROVE  TempsByStage' /\ NearNotCopied'
  BY <1>1, ExportsIdle DEF FilesOK
<1>2. ASSUME NEW t \in Threads, ExportBegins(t) PROVE TempsByStage' /\ NearNotCopied'
  <2>1. /\ exp[t].pc = "idle" /\ exp'[t].pc = "collect" /\ temps' = temps
        /\ \A u \in Threads : u # t => exp'[u] = exp[u]
    BY <1>2 DEF ExportBegins, ExportsOK
  <2> QED
    BY <2>1
<1>3. ASSUME NEW t \in Threads, Collect(t) PROVE TempsByStage' /\ NearNotCopied'
  BY <1>1, <1>3, CollectTypes
<1>4. ASSUME NEW t \in Threads, Write(t) PROVE TempsByStage' /\ NearNotCopied'
  <2> DEFINE f == Exported(exp[t].fmt, exp[t].got, exp[t].password, exp[t].gzip)
             g == [f EXCEPT !.whole = FALSE]
  <2>1. f \in GoodFiles /\ f.body = Written(f.fmt, f.src)
    BY <1>4, ExportGood DEF Write
  <2>2. g.body = Written(g.fmt, g.src)
    BY <2>1, Unfinished
  <2>3. \/ exp' = [exp EXCEPT ![t] = IdleExport] /\ temps' = [temps EXCEPT ![t] = {}]
        \/ exp' = [exp EXCEPT ![t].pc = "written"] /\ temps' = [temps EXCEPT ![t] = {g}]
    BY <1>4 DEF Write, ExportFails
  <2> HIDE DEF g
  <2>4. CASE exp' = [exp EXCEPT ![t].pc = "written"] /\ temps' = [temps EXCEPT ![t] = {g}]
    <3>1. exp'[t].pc = "written" /\ \A u \in Threads : u # t => exp'[u] = exp[u]
      BY <1>4, <2>4, StageOnly DEF Write, ExportStages
    <3>2. temps'[t] = {g} /\ \A u \in Threads : u # t => temps'[u] = temps[u]
      BY <2>4 DEF FilesOK
    <3> QED
      BY <2>2, <3>1, <3>2
  <2> QED
    BY <1>1, <2>3, <2>4
<1>5. ASSUME NEW t \in Threads, Close(t) PROVE TempsByStage' /\ NearNotCopied'
  <2>1. CASE ExportFails(t)
    BY <1>1, <2>1 DEF ExportFails
  <2>2. CASE ~ExportFails(t)
    <3>1. PICK f \in temps[t] : /\ temps' = [temps EXCEPT ![t] = {[f EXCEPT !.whole = TRUE]}]
                                /\ exp' = [exp EXCEPT ![t].pc = "move"]
      BY <1>5, <2>2 DEF Close
    <3> DEFINE g == [f EXCEPT !.whole = TRUE]
    <3>2. g.whole
      BY <1>5, Finished DEF FilesOK, Close
    <3> HIDE DEF g
    <3>3. /\ temps'[t] = {g} /\ \A u \in Threads : u # t => temps'[u] = temps[u]
          /\ exp'[t].pc = "move" /\ \A u \in Threads : u # t => exp'[u] = exp[u]
      BY <1>5, <3>1, StageOnly DEF FilesOK, Close, ExportStages, g
    <3> QED
      BY <3>2, <3>3
  <2> QED
    BY <2>1, <2>2
<1>6. ASSUME NEW t \in Threads, Move(t) PROVE TempsByStage' /\ NearNotCopied'
  <2>1. CASE /\ exp[t].pc = "move" /\ exp[t].name \notin Near
             /\ exp' = [exp EXCEPT ![t].pc = "copying"] /\ UNCHANGED temps
    <3>1. /\ exp'[t].pc = "copying" /\ exp'[t].name = exp[t].name
          /\ \A u \in Threads : u # t => exp'[u] = exp[u]
      BY <2>1, StageOnly DEF ExportStages
    <3> QED
      BY <2>1, <3>1
  <2> QED
    BY <1>1, <1>6, <2>1, MoveFiles
<1>7. CASE Crash
  BY <1>7, IdleExportType DEF Crash
<1>8. CASE UNCHANGED <<exp, temps>>
  BY <1>8
<1> QED
  BY <1>2, <1>3, <1>4, <1>5, <1>6, <1>7, <1>8
  DEF Next, ExportStep, vars, Browse, PreviewRuns, PreviewShown, ImportBegins, ImportReads,
      Edit, Delete, Lock, Unlock

\* A destination changes only by a move, and on the near volume to a whole file.
LEMMA NearChange ==
  ASSUME ExportsOK, FilesOK, TempsByStage, NearNotCopied, [Next]_vars
  PROVE  \/ \A n \in Near : files'[n] = files[n]
         \/ \E n \in Near : \E g \in GoodFiles :
              g.whole /\ files' = [files EXCEPT ![n] = g]
<1>1. ASSUME NEW t \in Threads, Move(t)
      PROVE  \/ \A n \in Near : files'[n] = files[n]
             \/ \E n \in Near : \E g \in GoodFiles :
                  g.whole /\ files' = [files EXCEPT ![n] = g]
  <2>1. CASE UNCHANGED files
    BY <2>1
  <2>2. ASSUME exp[t].name \in Names \ Near, NEW g,
               files' = [files EXCEPT ![exp[t].name] = g]
        PROVE  \A n \in Near : files'[n] = files[n]
    BY <2>2, TransferAssumption DEF FilesOK
  <2>3. CASE exp[t].name \in Near
    BY <1>1, <2>1, <2>3, MoveFiles
  <2>4. CASE exp[t].name \notin Near
    BY <1>1, <2>1, <2>2, <2>4, MoveFiles
  <2> QED
    BY <2>3, <2>4
<1>2. CASE UNCHANGED files
  BY <1>2
<1> QED
  BY <1>1, <1>2
  DEF Next, ExportStep, ExportBegins, Collect, Write, Close, vars, Browse, PreviewRuns,
      PreviewShown, ImportBegins, ImportReads, Edit, Delete, Lock, Unlock, Crash

LEMMA NearStep ==
  ASSUME ExportsOK, FilesOK, TempsByStage, NearNotCopied, NearWhole, [Next]_vars
  PROVE  NearWhole'
<1>1. CASE \A n \in Near : files'[n] = files[n]
  BY <1>1 DEF NearWhole
<1>2. ASSUME NEW n \in Near, NEW g \in GoodFiles, g.whole, files' = [files EXCEPT ![n] = g]
      PROVE  NearWhole'
  BY <1>2, TransferAssumption DEF NearWhole, FilesOK
<1> QED
  BY <1>1, <1>2, NearChange

LEMMA ToldStep ==
  ASSUME ExportsOK, FilesOK, ToldOK, [Next]_vars
  PROVE  ToldOK'
<1>1. CASE Browse
  BY <1>1 DEF ToldOK, Browse
<1>2. CASE PreviewRuns
  BY <1>2 DEF ToldOK, PreviewRuns
<1>3. CASE PreviewShown
  <2>1. previews # {} /\ UNCHANGED <<told, reading>>
    BY <1>3 DEF PreviewShown
  <2>2. dialog' = [name |-> dialog.name, fmt |-> dialog.fmt, button |-> dialog'.button,
                   open |-> dialog.open]
    BY <1>3 DEF ToldOK, PreviewShown
  <2> QED
    BY <2>1, <2>2 DEF ToldOK
<1>4. CASE ImportBegins
  BY <1>4 DEF ToldOK, ImportBegins
<1>5. CASE ImportReads
  <2>1. PICK r \in reading :
          /\ reading' = reading \ {r}
          /\ \/ /\ \E rows \in RowsRead(files[dialog.name], r.fmt) :
                     told' = [fmt |-> r.fmt, file |-> files[dialog.name], rows |-> rows,
                              password |-> r.password]
                /\ dialog' = [dialog EXCEPT !.open = FALSE, !.button = FALSE]
                /\ previews' = {}
             \/ UNCHANGED <<told, dialog, previews>>
    BY <1>5 DEF ImportReads
  <2>2. dialog.name \in Names /\ files[dialog.name] \in {NoFile} \cup GoodFiles
    BY DEF ToldOK, FilesOK
  <2>3. CASE UNCHANGED <<told, dialog, previews>>
    BY <2>1, <2>3 DEF ToldOK
  <2>4. ASSUME NEW rows \in RowsRead(files[dialog.name], r.fmt),
               told' = [fmt |-> r.fmt, file |-> files[dialog.name], rows |-> rows,
                        password |-> r.password],
               dialog' = [dialog EXCEPT !.open = FALSE, !.button = FALSE]
        PROVE  ToldOK'
    <3>1. /\ told'.file = files[dialog.name]
          /\ told'.rows \in RowsRead(told'.file, told'.fmt)
      BY <2>4
    <3>2. /\ dialog'.name = dialog.name
          /\ dialog' = [name |-> dialog.name, fmt |-> dialog.fmt, button |-> FALSE,
                        open |-> FALSE]
      BY <2>4 DEF ToldOK
    <3> QED
      BY <2>2, <3>1, <3>2 DEF ToldOK
  <2> QED
    BY <2>1, <2>3, <2>4
<1>6. CASE Crash
  BY <1>6 DEF ToldOK, Crash, NoDialog, Nothing
<1>7. CASE UNCHANGED <<dialog, previews, reading, told>>
  BY <1>7 DEF ToldOK
<1> QED
  BY <1>1, <1>2, <1>3, <1>4, <1>5, <1>6, <1>7
  DEF Next, ExportStep, ExportBegins, Collect, Write, Close, Move, vars, Edit, Delete, Lock,
      Unlock

LEMMA IInvInit == Init => IInv
<1> SUFFICES ASSUME Init PROVE IInv
  OBVIOUS
<1>1. VaultOK
  BY TransferAssumption DEF Init, VaultOK
<1>2. ExportsOK
  BY IdleExportType DEF Init, ExportsOK
<1>3. Found \subseteq GoodFiles /\ \A f \in Found : f.whole
  BY TransferAssumption DEF GoodFiles, AsWritten
<1>4. FilesOK
  BY <1>3 DEF Init, FilesOK
<1>5. TempsByStage /\ NearNotCopied
  BY IdleExportType DEF Init, TempsByStage, NearNotCopied
<1>6. NearWhole
  BY <1>3, TransferAssumption DEF Init, NearWhole
<1>7. ToldOK
  BY DEF Init, ToldOK, NoDialog, Nothing
<1> QED
  BY <1>1, <1>2, <1>4, <1>5, <1>6, <1>7 DEF IInv

LEMMA IInvHolds == Spec => []IInv
<1>1. ASSUME IInv, [Next]_vars
      PROVE  IInv'
  BY <1>1, VaultStep, ExportsStep, FilesStep, StagesStep, NearStep, ToldStep DEF IInv
<1> QED
  BY <1>1, IInvInit, PTL DEF Spec

-------------------------------------------------------------------------------
\* No temporary file of an export outlives it, however it ended.
THEOREM ExportsClean == Spec => []TempsCleared
<1>1. IInv => TempsCleared
  BY DEF IInv, TempsByStage, TempsCleared
<1> QED
  BY <1>1, IInvHolds, PTL

\* Near destinations only ever change from one whole file to another: what
\* the exporter does there is what AtomicFile promises.
THEOREM NearAtomic == Spec => RefinesAtomicFile
<1>1. Init => Atomic!Init
  BY IInvInit, TransferAssumption DEF IInv, FilesOK, NearWhole, Init, Atomic!Init
<1>2. ASSUME IInv, [Next]_vars
      PROVE  [Atomic!Next]_([n \in Near |-> files[n]])
  <2>1. CASE \A n \in Near : files'[n] = files[n]
    BY <2>1
  <2>2. ASSUME NEW n \in Near, NEW g \in GoodFiles, g.whole, files' = [files EXCEPT ![n] = g]
        PROVE  Atomic!Replace(n)
    <3>1. g # NoFile
      BY TransferAssumption DEF GoodFiles
    <3>2. files'[n] = g /\ \A m \in Near : m # n => files'[m] = files[m]
      BY <1>2, <2>2, TransferAssumption DEF IInv, FilesOK
    <3> QED
      BY <2>2, <3>1, <3>2 DEF Atomic!Replace
  <2> QED
    BY <1>2, <2>1, <2>2, NearChange DEF IInv, Atomic!Next
<1> QED
  BY <1>1, <1>2, IInvHolds, PTL DEF Spec, RefinesAtomicFile, Atomic!Spec

\* Wherever a file of this program lies, no password is in a CSV file, and no
\* JSON or LastPass file is without encryption.
THEOREM SecretsStayCovered == Spec => []SecretsCovered
<1>1. ASSUME IInv
      PROVE  SecretsCovered
  <2> SUFFICES ASSUME NEW f \in (UNION {temps[t] : t \in Threads}) \cup orphans
                                \cup {files[n] : n \in Names},
                      f # NoFile, f.ours
               PROVE  IF f.fmt = "csv"
                      THEN \A i \in 1..Len(f.body) : \A j \in 1..Len(f.src) :
                             f.body[i].password = f.src[j].password =>
                               f.src[j].password = Placeholder
                      ELSE f.fmt # "bitwarden" => f.enc \in Passwords
    BY DEF SecretsCovered
  <2>1. f \in GoodFiles
    <3>1. CASE f \in UNION {temps[t] : t \in Threads}
      <4>1. PICK t \in Threads : f \in temps[t]
        BY <3>1
      <4> QED
        BY <1>1, <4>1 DEF IInv, FilesOK
    <3>2. CASE f \in orphans
      BY <1>1, <3>2 DEF IInv, FilesOK
    <3>3. CASE f \in {files[n] : n \in Names}
      BY <1>1, <3>3 DEF IInv, FilesOK
    <3> QED
      BY <3>1, <3>2, <3>3
  <2>2. f.fmt \in FormatNames /\ AsWritten(f)
    BY <2>1 DEF GoodFiles, Files
  <2>3. ASSUME f.fmt = "csv", NEW i \in 1..Len(f.body)
        PROVE  f.body[i].password = Placeholder
    <3>1. f.body[i] = CsvRow(f.src[i])
      BY <2>2, <2>3 DEF AsWritten
    <3> QED
      BY <3>1 DEF CsvRow
  <2> QED
    BY <2>2, <2>3 DEF AsWritten, FormatNames
<1> QED
  BY <1>1, IInvHolds, PTL

\* What the scan sees of a row is a text or a tag of the entry, or the
\* placeholder.
LEMMA CsvTexts ==
  ASSUME NEW e
  PROVE  TextsOf(CsvRow(e)) \subseteq
           {e.title, e.username, Placeholder, e.url, e.notes} \cup e.tags.set
BY DEF TextsOf, TagsOf, CsvRow

\* A file the exporter has finished can be read with its password.
THEOREM ExportsComeBack == Spec => []OursComesBack
<1>1. ASSUME IInv
      PROVE  OursComesBack
  <2> SUFFICES ASSUME NEW n \in Names, files[n] # NoFile, files[n].ours, files[n].whole,
                      files[n].size <= ImportLimit,
                      files[n].fmt = "csv" => \A i \in 1..Len(files[n].src) :
                        ({files[n].src[i].title, files[n].src[i].username,
                          files[n].src[i].url, files[n].src[i].notes}
                           \cup files[n].src[i].tags.set) \cap (Forbidden \cup Marked) = {}
               PROVE  /\ Readable(files[n], Detected(files[n]), files[n].enc)
                      /\ Verdicts(files[n], Detected(files[n])) = {"valid"}
                      /\ ~Misread(files[n], Detected(files[n]))
    BY DEF OursComesBack
  <2> DEFINE f == files[n]
  <2>1. f \in GoodFiles
    BY <1>1 DEF IInv, FilesOK
  <2>2. f.fmt \in FormatNames /\ AsWritten(f)
    BY <2>1 DEF GoodFiles, Files
  <2>0. f.ours
    OBVIOUS
  <2> HIDE DEF f
  <2>3. Detected(f) = f.fmt
    BY <2>2 DEF AsWritten, Suffix, Detected, FormatNames, f
  <2>30. (Validated(f, Detected(f)) /\ ~Misread(f, Detected(f))) =>
           Verdicts(f, Detected(f)) = {"valid"}
    BY DEF Verdicts
  <2>31. f.fmt # "csv" => ~Misread(f, Detected(f))
    BY <2>3 DEF Misread
  <2>4. CASE f.fmt = "json"
    BY <2>30, <2>31, <2>2, <2>3, <2>4 DEF AsWritten, Readable, JsonReadable, Envelope, Decrypts, HashHolds,
       Validated, f
  <2>5. CASE f.fmt = "bitwarden"
    BY <2>30, <2>31, <2>2, <2>3, <2>5 DEF AsWritten, Readable, BitwardenReadable, Validated, BitwardenValid,
       f
  <2>6. CASE f.fmt = "lastpass"
    BY <2>30, <2>31, <2>2, <2>3, <2>6, FormatsAssumption
    DEF AsWritten, Readable, LastPassReadable, Suspicious, Decrypts, Validated, LastPassValid,
        f
  <2>7. CASE f.fmt = "csv"
    <3>1. ASSUME NEW i \in 1..Len(f.body)
          PROVE  TextsOf(f.body[i]) \cap (Forbidden \cup Marked) = {}
      <4>1. i \in 1..Len(f.src) /\ f.body[i] = CsvRow(f.src[i])
        BY <2>2, <2>7 DEF AsWritten, f
      <4>2. Placeholder \notin Forbidden \cup Marked
        BY FormatsAssumption
      <4> QED
        BY <2>7, <4>1, <4>2, CsvTexts DEF f
    <3>2. ~Suspicious(f)
      BY <3>1 DEF Suspicious
    <3>3. ~Misread(f, Detected(f))
      BY <2>0, <3>1 DEF Misread
    <3> QED
      BY <2>30, <2>2, <2>3, <2>7, <3>2, <3>3
      DEF AsWritten, Readable, CsvReadable, Validated, CsvValid, f
  <2> QED
    BY <2>2, <2>4, <2>5, <2>6, <2>7 DEF FormatNames, f
<1> QED
  BY <1>1, IInvHolds, PTL

\* An export in JSON, whole and read as JSON, gives the importer the entries the
\* exporter collected, one by one and in every field.
THEOREM JsonImported ==
  Spec => [](/\ told.file # NoFile /\ told.file.ours /\ told.file.whole
             /\ told.file.fmt = "json" /\ told.fmt = "json"
             => told.rows = told.file.src)
<1>1. IInv => (/\ told.file # NoFile /\ told.file.ours /\ told.file.whole
               /\ told.file.fmt = "json" /\ told.fmt = "json"
               => told.rows = told.file.src)
  BY DEF IInv, ToldOK, GoodFiles, AsWritten, Rows, RowsRead, Misread, Written
<1> QED
  BY <1>1, IInvHolds, PTL

Fields == {"id", "title", "username", "password", "url", "notes", "tags", "totp", "favorite"}

\* Field by field.
LEMMA SameFields ==
  ASSUME NEW a, NEW b, NEW fields \in SUBSET Fields,
         "id" \in fields => a.id = b.id,
         "title" \in fields => Strip[a.title] = Strip[b.title],
         "username" \in fields => Strip[a.username] = Strip[b.username],
         "password" \in fields => Strip[a.password] = Strip[b.password],
         "url" \in fields => Strip[a.url] = Strip[b.url],
         "notes" \in fields => Strip[a.notes] = Strip[b.notes],
         "tags" \in fields => a.tags.set = b.tags.set,
         "totp" \in fields => Strip[a.totp] = Strip[b.totp],
         "favorite" \in fields => a.favorite = b.favorite
  PROVE  Same(a, b, fields)
<1>1. \A c \in fields : c \in Fields
  OBVIOUS
<1> QED
  BY <1>1 DEF Same, Fields

LEMMA Stripped ==
  ASSUME NEW e \in Entries
  PROVE  /\ \A t \in Texts : Strip[Strip[t]] = Strip[t]
         /\ e.title \in Texts /\ e.username \in Texts /\ e.password \in Texts
         /\ e.url \in Texts /\ e.notes \in Texts /\ e.totp \in Texts
BY FormatsAssumption DEF Entries

\* What the handler of a format reads of the line it wrote is the entry, in the
\* fields the format keeps.
LEMMA CsvRoundTrip ==
  ASSUME NEW e \in Entries
  PROVE  Same(CsvEntry(CsvRow(e)), e, Kept["csv"])
<1> DEFINE r == CsvEntry(CsvRow(e))
<1>1. /\ r.title = Strip[e.title] /\ r.username = Strip[e.username] /\ r.url = Strip[e.url]
      /\ r.notes = Strip[e.notes] /\ r.tags.set = e.tags.set
  BY DEF CsvEntry, CsvRow
<1>2. Kept["csv"] = {"title", "username", "url", "notes", "tags"}
  BY DEF Kept
<1>3. {"title", "username", "url", "notes", "tags"} \in SUBSET Fields
  BY DEF Fields
<1> HIDE DEF r
<1>4. Same(r, e, {"title", "username", "url", "notes", "tags"})
  BY <1>1, <1>3, Stripped, SameFields
<1> QED
  BY <1>2, <1>4 DEF r

LEMMA BitwardenRoundTrip ==
  ASSUME NEW e \in Entries
  PROVE  Same(BitwardenEntry(BitwardenItem(e)), e, Kept["bitwarden"])
<1> DEFINE r == BitwardenEntry(BitwardenItem(e))
           fields == {"id", "title", "username", "password", "url", "notes", "tags"}
<1>1. /\ r.id = e.id /\ r.title = e.title /\ r.username = e.username
      /\ r.password = e.password /\ r.url = Strip[e.url] /\ r.notes = e.notes
      /\ r.tags.set = e.tags.set
  BY DEF BitwardenEntry, BitwardenItem
<1>2. Kept["bitwarden"] = fields
  BY DEF Kept
<1>3. fields \in SUBSET Fields
  BY DEF Fields
<1> HIDE DEF r
<1>4. Same(r, e, fields)
  BY <1>1, <1>3, Stripped, SameFields
<1> QED
  BY <1>2, <1>4 DEF r

LEMMA LastPassRoundTrip ==
  ASSUME NEW e \in Entries, NEW lost,
         lost = IF Strip[e.url] \in NoteUrls THEN {"url"} ELSE {}
  PROVE  Same(LastPassEntry(LastPassRow(e)), e, Kept["lastpass"] \ lost)
<1> DEFINE r == LastPassEntry(LastPassRow(e))
           kept == {"title", "username", "password", "url", "notes", "tags", "totp",
                    "favorite"}
<1>1. /\ r.title = Strip[e.title] /\ r.username = Strip[e.username]
      /\ r.password = Strip[e.password] /\ r.notes = Strip[e.notes]
      /\ r.totp = Strip[e.totp] /\ r.tags.set = e.tags.set /\ r.favorite = e.favorite
      /\ Strip[e.url] \notin NoteUrls => r.url = Strip[e.url]
  BY DEF LastPassEntry, LastPassRow, CleanUrl
<1>2. Kept["lastpass"] = kept
  BY DEF Kept
<1>3. kept \ lost \in SUBSET Fields /\ "id" \notin kept
  BY DEF Fields
<1>4. "url" \in kept \ lost => Strip[e.url] \notin NoteUrls
  OBVIOUS
<1> HIDE DEF r, kept
<1>5. Same(r, e, kept \ lost)
  BY <1>1, <1>3, <1>4, Stripped, SameFields
<1> QED
  BY <1>2, <1>5 DEF r

\* Those outside a set are singles, the others empty.
Some(n, Out, x) == [k \in 1..n |-> IF k \in Out THEN <<>> ELSE <<x[k]>>]

LEMMA SomeAt ==
  ASSUME NEW n \in Nat, NEW Out, NEW x, NEW k \in 1..n
  PROVE  /\ k \in Out => /\ Some(n, Out, x)[k] = <<>>
                         /\ Len(Some(n, Out, x)[k]) = 0
         /\ k \notin Out => /\ Some(n, Out, x)[k] = <<x[k]>>
                            /\ Len(Some(n, Out, x)[k]) = 1 /\ Some(n, Out, x)[k][1] = x[k]
<1>1. CASE k \in Out
  <2>1. Some(n, Out, x)[k] = <<>>
    BY <1>1 DEF Some
  <2>2. Len(<<>>) = 0
    OBVIOUS
  <2> QED
    BY <1>1, <2>1, <2>2
<1>2. CASE k \notin Out
  <2>1. Some(n, Out, x)[k] = <<x[k]>>
    BY <1>2 DEF Some
  <2>2. Len(<<x[k]>>) = 1 /\ <<x[k]>>[1] = x[k]
    OBVIOUS
  <2> HIDE DEF Some
  <2> QED
    BY <1>2, <2>1, <2>2, Zenon
<1> QED
  BY <1>1, <1>2

LEMMA SomeType ==
  ASSUME NEW n \in Nat, NEW Out, NEW x, NEW A, \A k \in 1..n : x[k] \in A
  PROVE  Some(n, Out, x) \in Seq(Seq(A)) /\ Len(Some(n, Out, x)) = n
<1> DEFINE T == Seq(A)
<1>1. ASSUME NEW k \in 1..n PROVE (IF k \in Out THEN <<>> ELSE <<x[k]>>) \in T
  <2>1. <<>> \in T /\ <<x[k]>> \in T
    OBVIOUS
  <2> HIDE DEF T
  <2> QED
    BY <2>1
<1> HIDE DEF T
<1>2. Some(n, Out, x) \in Seq(T) /\ Len(Some(n, Out, x)) = n
  BY <1>1 DEF Some
<1> QED
  BY <1>2 DEF T

LEMMA FlattenSome ==
  ASSUME NEW n \in Nat, NEW Out, NEW x, NEW y
  PROVE  LET xs == FlattenSeq(Some(n, Out, x))
             ys == FlattenSeq(Some(n, Out, y))
         IN  /\ Len(xs) = Len(ys)
             /\ \A i \in 1..Len(ys) : \E k \in 1..n :
                  k \notin Out /\ xs[i] = x[k] /\ ys[i] = y[k]
             /\ Out = {} => Len(xs) = n /\ \A i \in 1..n : xs[i] = x[i]
<1> DEFINE ss == Some(n, Out, x)
           tt == Some(n, Out, y)
           A == {x[k] : k \in 1..n}
           B == {y[k] : k \in 1..n}
<1>1. (\A k \in 1..n : x[k] \in A) /\ \A k \in 1..n : y[k] \in B
  OBVIOUS
<1> HIDE DEF A, B
<1>2. ss \in Seq(Seq(A)) /\ Len(ss) = n /\ tt \in Seq(Seq(B)) /\ Len(tt) = n
  BY <1>1, SomeType
<1>3. ASSUME NEW k \in 1..n
      PROVE  /\ Len(ss[k]) = Len(tt[k]) /\ Len(ss[k]) \in {0, 1}
             /\ Len(ss[k]) = 1 => k \notin Out
             /\ k \notin Out => Len(ss[k]) = 1 /\ ss[k][1] = x[k] /\ tt[k][1] = y[k]
  <2>1. CASE k \in Out
    BY <2>1, SomeAt
  <2>2. CASE k \notin Out
    BY <2>2, SomeAt
  <2> QED
    BY <2>1, <2>2
<1> HIDE DEF ss, tt
<1>4. /\ Len(FlattenSeq(ss)) = Len(FlattenSeq(tt))
      /\ \A i \in 1..Len(FlattenSeq(tt)) : \E k \in 1..n :
           /\ Len(ss[k]) = 1
           /\ FlattenSeq(ss)[i] = ss[k][1] /\ FlattenSeq(tt)[i] = tt[k][1]
      /\ (\A k \in 1..n : Len(ss[k]) = 1) =>
           /\ Len(FlattenSeq(ss)) = n
           /\ \A i \in 1..n : FlattenSeq(ss)[i] = ss[i][1]
  <2>1. Len(ss) = Len(tt)
    BY <1>2
  <2>2. \A k \in 1..Len(ss) : Len(ss[k]) = Len(tt[k]) /\ Len(ss[k]) \in {0, 1}
    BY <1>2, <1>3
  <2>3. Singles(ss, tt, FlattenSeq(ss), FlattenSeq(tt))
    BY <1>2, <2>1, <2>2, FlattenAlike
  <2> QED
    BY <1>2, <2>3 DEF Singles
<1> DEFINE xs == FlattenSeq(ss)
           ys == FlattenSeq(tt)
<1> HIDE DEF xs, ys
<1>5. /\ Len(xs) = Len(ys)
      /\ \A i \in 1..Len(ys) : \E k \in 1..n :
           k \notin Out /\ xs[i] = x[k] /\ ys[i] = y[k]
      /\ Out = {} => Len(xs) = n /\ \A i \in 1..n : xs[i] = x[i]
  BY <1>3, <1>4 DEF xs, ys
<1> QED
  BY <1>5 DEF xs, ys, ss, tt

\* Row by row, those without a title left out on both sides.
LEMMA CsvRead ==
  ASSUME NEW src \in Seq(Entries)
  PROVE  LET rows == FlattenSeq(Map(CsvEntries, Map(CsvRow, src)))
             want == FlattenSeq(Map(Titled, src))
         IN  /\ Len(rows) = Len(want)
             /\ \A i \in 1..Len(want) : \E e \in Entries :
                  rows[i] = CsvEntry(CsvRow(e)) /\ want[i] = e
<1> DEFINE n == Len(src)
           x == [k \in 1..n |-> CsvEntry(CsvRow(src[k]))]
           Out == {k \in 1..n : Strip[src[k].title] = ""}
<1>1. n \in Nat /\ \A k \in 1..n : src[k] \in Entries /\ x[k] = CsvEntry(CsvRow(src[k]))
  OBVIOUS
<1>2. \A k \in 1..n : k \in Out <=> Strip[src[k].title] = ""
  OBVIOUS
<1>3. \A k \in 1..n : CsvRow(src[k]).title = src[k].title
  BY DEF CsvRow
<1>4. Map(CsvEntries, Map(CsvRow, src)) = Some(n, Out, x)
  <2>1. /\ Len(Map(CsvRow, src)) = n
        /\ \A k \in 1..n : Map(CsvRow, src)[k] = CsvRow(src[k])
    BY DEF Map
  <2>2. \A k \in 1..n : x[k] = CsvEntry(CsvRow(src[k]))
    OBVIOUS
  <2> HIDE DEF n, x, Out
  <2>3. \A k \in 1..n : CsvEntries(CsvRow(src[k])) = IF k \in Out THEN <<>> ELSE <<x[k]>>
    BY <1>2, <1>3, <2>2 DEF CsvEntries
  <2> QED
    BY <2>1, <2>3 DEF Map, Some
<1>5. Map(Titled, src) = Some(n, Out, src)
  BY <1>2 DEF Map, Titled, Some
<1> HIDE DEF n, x, Out
<1> QED
  BY <1>1, <1>4, <1>5, FlattenSome

LEMMA LastPassRead ==
  ASSUME NEW src \in Seq(Entries)
  PROVE  LET rows == FlattenSeq(Map(LastPassEntries, Map(LastPassRow, src)))
             want == FlattenSeq(Map(Titled, src))
         IN  /\ Len(rows) = Len(want)
             /\ \A i \in 1..Len(want) : \E e \in Entries :
                  rows[i] = LastPassEntry(LastPassRow(e)) /\ want[i] = e
<1> DEFINE n == Len(src)
           x == [k \in 1..n |-> LastPassEntry(LastPassRow(src[k]))]
           Out == {k \in 1..n : Strip[src[k].title] = ""}
<1>1. n \in Nat /\ \A k \in 1..n : src[k] \in Entries /\ x[k] = LastPassEntry(LastPassRow(src[k]))
  OBVIOUS
<1>2. \A k \in 1..n : k \in Out <=> Strip[src[k].title] = ""
  OBVIOUS
<1>3. \A k \in 1..n : LastPassRow(src[k]).name = src[k].title
  BY DEF LastPassRow
<1>4. Map(LastPassEntries, Map(LastPassRow, src)) = Some(n, Out, x)
  <2>1. /\ Len(Map(LastPassRow, src)) = n
        /\ \A k \in 1..n : Map(LastPassRow, src)[k] = LastPassRow(src[k])
    BY DEF Map
  <2>2. \A k \in 1..n : x[k] = LastPassEntry(LastPassRow(src[k]))
    OBVIOUS
  <2> HIDE DEF n, x, Out
  <2>3. \A k \in 1..n : LastPassEntries(LastPassRow(src[k])) = IF k \in Out THEN <<>> ELSE <<x[k]>>
    BY <1>2, <1>3, <2>2 DEF LastPassEntries
  <2> QED
    BY <2>1, <2>3 DEF Map, Some
<1>5. Map(Titled, src) = Some(n, Out, src)
  BY <1>2 DEF Map, Titled, Some
<1> HIDE DEF n, x, Out
<1> QED
  BY <1>1, <1>4, <1>5, FlattenSome

LEMMA BitwardenRead ==
  ASSUME NEW src \in Seq(Entries)
  PROVE  LET rows == FlattenSeq(Map(BitwardenEntries, Map(BitwardenItem, src)))
         IN  /\ Len(rows) = Len(src)
             /\ \A i \in 1..Len(src) : rows[i] = BitwardenEntry(BitwardenItem(src[i]))
<1> DEFINE n == Len(src)
           x == [k \in 1..n |-> BitwardenEntry(BitwardenItem(src[k]))]
<1>1. n \in Nat /\ \A k \in 1..n : x[k] = BitwardenEntry(BitwardenItem(src[k]))
  OBVIOUS
<1>2. \A k \in 1..n : BitwardenItem(src[k]).type = "login"
  BY DEF BitwardenItem
<1>3. Map(BitwardenEntries, Map(BitwardenItem, src)) = Some(n, {}, x)
  BY <1>2 DEF Map, BitwardenEntries, Some
<1> HIDE DEF n, x
<1> QED
  BY <1>1, <1>3, FlattenSome DEF n

\* What the importer begins with is what the exporter collected, entry by entry
\* and in the fields the format keeps; without a title no entry comes through
\* the CSV formats, and a CSV file only when csv.Sniffer cannot be misled.
THEOREM ExportsImported == Spec => []ImportedIsExported
<1>1. ASSUME IInv
      PROVE  ImportedIsExported
  <2> SUFFICES ASSUME told.file # NoFile, told.file.ours, told.file.whole,
                      told.fmt = told.file.fmt, ~Misread(told.file, told.fmt)
               PROVE  ImportedIsExported
    BY DEF ImportedIsExported
  <2>1. PICK f : f = told.file
    OBVIOUS
  <2>2. /\ f \in GoodFiles /\ f.ours /\ f.whole /\ told.fmt = f.fmt
        /\ told.rows = Rows(f, f.fmt)
    BY <1>1, <2>1 DEF IInv, ToldOK, RowsRead
  <2>3. /\ f.fmt \in FormatNames /\ f.src \in Seq(Entries) /\ f.sound
        /\ f.body = Written(f.fmt, f.src)
    BY <2>2 DEF GoodFiles, Files, AsWritten
  <2>4. \A i \in 1..Len(f.src) : f.src[i] \in Entries
    BY <2>3
  <2> DEFINE want == IF f.fmt \in {"csv", "lastpass"} THEN FlattenSeq(Map(Titled, f.src))
                     ELSE f.src
             lost(e) == IF f.fmt = "lastpass" /\ Strip[e.url] \in NoteUrls THEN {"url"}
                        ELSE {}
             rows == told.rows
  <2>5. SUFFICES /\ Len(rows) = Len(want)
                 /\ \A i \in 1..Len(want) :
                      Same(rows[i], want[i], Kept[f.fmt] \ lost(want[i]))
    BY <2>1 DEF ImportedIsExported
  <2>6. CASE f.fmt = "json"
    <3>1. rows = f.src /\ want = f.src /\ Kept[f.fmt] = Fields
      BY <2>2, <2>3, <2>6 DEF Rows, Written, Kept, Fields
    <3>2. \A e \in Entries : Same(e, e, Fields \ {})
      BY DEF Same
    <3> QED
      BY <2>4, <2>6, <3>1, <3>2
  <2>7. CASE f.fmt = "bitwarden"
    <3>1. rows = FlattenSeq(Map(BitwardenEntries, Map(BitwardenItem, f.src)))
      BY <2>2, <2>3, <2>7 DEF Rows, BitwardenRows, Written
    <3>2. want = f.src /\ \A e : lost(e) = {}
      BY <2>7
    <3>3. /\ Len(rows) = Len(f.src)
          /\ \A i \in 1..Len(f.src) : rows[i] = BitwardenEntry(BitwardenItem(f.src[i]))
      BY <2>3, <3>1, BitwardenRead
    <3> HIDE DEF want, lost, rows
    <3>4. ASSUME NEW i \in 1..Len(f.src)
          PROVE  Same(rows[i], f.src[i], Kept[f.fmt] \ lost(f.src[i]))
      <4>1. Kept[f.fmt] \ lost(f.src[i]) = Kept["bitwarden"]
        BY <2>7, <3>2
      <4> QED
        BY <2>4, <3>3, <4>1, BitwardenRoundTrip
    <3> QED
      BY <3>2, <3>3, <3>4
  <2>8. CASE f.fmt = "csv"
    <3>1. rows = FlattenSeq(Map(CsvEntries, Map(CsvRow, f.src)))
      BY <2>2, <2>3, <2>8 DEF Rows, CsvRows, Written
    <3>2. want = FlattenSeq(Map(Titled, f.src)) /\ \A e : lost(e) = {}
      BY <2>8
    <3>3. /\ Len(rows) = Len(want)
          /\ \A i \in 1..Len(want) : \E e \in Entries :
               rows[i] = CsvEntry(CsvRow(e)) /\ want[i] = e
      BY <2>3, <3>1, <3>2, CsvRead
    <3> HIDE DEF want, lost, rows
    <3>4. ASSUME NEW i \in 1..Len(want)
          PROVE  Same(rows[i], want[i], Kept[f.fmt] \ lost(want[i]))
      <4>1. Kept[f.fmt] \ lost(want[i]) = Kept["csv"]
        BY <2>8, <3>2
      <4> QED
        BY <3>3, <4>1, CsvRoundTrip
    <3> QED
      BY <3>3, <3>4
  <2>9. CASE f.fmt = "lastpass"
    <3>1. rows = FlattenSeq(Map(LastPassEntries, Map(LastPassRow, f.src)))
      BY <2>2, <2>3, <2>9 DEF Rows, LastPassRows, Written
    <3>2. /\ want = FlattenSeq(Map(Titled, f.src))
          /\ \A e : lost(e) = IF Strip[e.url] \in NoteUrls THEN {"url"} ELSE {}
      BY <2>9
    <3>3. /\ Len(rows) = Len(want)
          /\ \A i \in 1..Len(want) : \E e \in Entries :
               rows[i] = LastPassEntry(LastPassRow(e)) /\ want[i] = e
      BY <2>3, <3>1, <3>2, LastPassRead
    <3> HIDE DEF want, lost, rows
    <3>4. ASSUME NEW i \in 1..Len(want)
          PROVE  Same(rows[i], want[i], Kept[f.fmt] \ lost(want[i]))
      <4>1. PICK e \in Entries : rows[i] = LastPassEntry(LastPassRow(e)) /\ want[i] = e
        BY <3>3
      <4>2. Same(LastPassEntry(LastPassRow(e)), e, Kept["lastpass"] \ lost(e))
        BY <3>2, LastPassRoundTrip
      <4> QED
        BY <2>9, <4>1, <4>2
    <3> QED
      BY <3>3, <3>4
  <2> QED
    BY <2>3, <2>6, <2>7, <2>8, <2>9 DEF FormatNames
<1> QED
  BY <1>1, IInvHolds, PTL
===============================================================================
