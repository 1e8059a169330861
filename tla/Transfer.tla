-------------------------------- MODULE Transfer --------------------------------
(***************************************************************************)
(* Export and the way of a file into the importer: VaultExporter, run by   *)
(* the threads ExportDialog starts, the files it leaves, and ImportDialog  *)
(* with its preview and import threads up to the rows that VaultImporter   *)
(* begins with (module Import takes them from there).  What the handlers   *)
(* make of an entry is in Formats.                                         *)
(*                                                                         *)
(* Meanwhile the user edits the vault, the auto-lock takes the key, and    *)
(* the process may end at any step.  Both dialogs may be closed while      *)
(* their threads go on, so several exports may run at once.                *)
(***************************************************************************)
EXTENDS Formats, FiniteSets

CONSTANTS
  Threads,   \* threads of export dialogs
  Names,     \* file names a user may choose
  Vaults,    \* what the vault may hold at the start
  Edited,    \* passwords an edit may set
  Found,     \* files of other programs that may be there at the start
  Requests,   \* what is asked of the export dialog
  NoFile,    \* no file there
  Near,      \* the names on the volume of the temporary directory
  Ext,       \* the extension of a name
  MaxExports,\* bound: exports begun
  MaxReads,  \* bound: files chosen in the import dialog
  MaxEvents, \* bound: edits, locks and ends of the process, together
  MaxAll     \* bound: all of these, together

VaultIds == EntryIds \ {Fresh}

ASSUME TransferAssumption ==
  /\ \A v \in Vaults : /\ IsFiniteSet(DOMAIN v) /\ DOMAIN v \subseteq VaultIds
                       /\ \A n \in DOMAIN v : v[n] \in Entries
  /\ NoFile \notin Files
  /\ \A f \in Found : f \in Files /\ f.whole /\ ~f.ours
  /\ \A c \in Requests : /\ c.fmt \in FormatNames /\ c.gzip \in BOOLEAN
                         /\ c.all \in BOOLEAN /\ c.ids \in Seq(VaultIds)
  /\ Near \subseteq Names
  /\ Edited \subseteq Texts
  /\ {MaxExports, MaxReads, MaxEvents, MaxAll} \subseteq Nat

VARIABLES
  key,     \* the encryption key is in the cache
  vault,   \* the entries, by id
  exp,     \* the export threads
  temps,   \* cs_exp_* files in the temporary directory, by their thread
  orphans, \* the cs_exp_* files of processes that ended
  files,   \* the files with a name the user chose
  dialog,  \* the import dialog: _file_path, _detected_format and its button
  previews,\* validations on their way to _show_preview
  reading, \* import threads on their way to the file
  told,    \* what the importer began with, the last time
  left     \* what the bounds still allow

vars == <<key, vault, exp, temps, orphans, files, dialog, previews, reading, told, left>>

IdleExport == [pc |-> "idle", fmt |-> "json", name |-> "none", password |-> NoPassword,
               gzip |-> FALSE, all |-> TRUE, ids |-> <<>>, i |-> 1, got |-> <<>>]
NoDialog == [name |-> "none", fmt |-> "none", button |-> FALSE, open |-> TRUE]
Nothing  == [fmt |-> "none", file |-> NoFile, rows |-> <<>>, password |-> NoPassword]

Init ==
  /\ key = TRUE /\ vault \in Vaults
  /\ exp = [t \in Threads |-> IdleExport]
  /\ temps = [t \in Threads |-> {}] /\ orphans = {}
  /\ files \in [Names -> {NoFile} \cup Found]
  /\ \A n \in Names : files[n] # NoFile => files[n].ext = Ext[n]
  /\ dialog = NoDialog /\ previews = {} /\ reading = {} /\ told = Nothing
  /\ left = [export |-> MaxExports, read |-> MaxReads, event |-> MaxEvents,
             all |-> MaxAll]

Spend(what) ==
  /\ left[what] > 0 /\ left.all > 0
  /\ left' = [left EXCEPT ![what] = @ - 1, !.all = @ - 1]

-------------------------------------------------------------------------------
(* Export. *)

\* ExportDialog._do_export: JSON and LastPass want a password, the others never
\* have one; "selected" takes the ids the tree had when the dialog opened.
ExportBegins(t) ==
  /\ exp[t].pc = "idle" /\ Spend("export")
  /\ \E c \in Requests, n \in Names, p \in Passwords :
       /\ Ext[n] = Suffix(c.fmt)
       /\ exp' = [exp EXCEPT ![t] =
         [pc |-> "collect", fmt |-> c.fmt, name |-> n, gzip |-> c.gzip,
          password |-> IF c.fmt \in {"json", "lastpass"} THEN p ELSE NoPassword,
          all |-> c.all, ids |-> c.ids, i |-> 1, got |-> <<>>]]
  /\ UNCHANGED <<key, vault, temps, orphans, files, dialog, previews, reading, told>>

\* MUTANT: no finally clause.
ExportFailsOnly(t) ==
  exp' = [exp EXCEPT ![t] = IdleExport] /\ UNCHANGED temps

\* An exception ends the thread; the finally clause takes the temporary file.
ExportFails(t) ==
  /\ exp' = [exp EXCEPT ![t] = IdleExport]
  /\ temps' = [temps EXCEPT ![t] = {}]

\* _collect_entries: all of them in one SELECT, or one after the other, those
\* left out that are no longer there.  Without the key decryption raises.
AllEntries == LET ids == SetToSeq(DOMAIN vault) IN [i \in 1..Len(ids) |-> vault[ids[i]]]

Collect(t) ==
  LET x == exp[t]
      more == ~x.all /\ x.i <= Len(x.ids)
  IN /\ x.pc = "collect"
     /\ \/ /\ ~key /\ IF x.all THEN DOMAIN vault # {} ELSE more /\ x.ids[x.i] \in DOMAIN vault
           /\ ExportFails(t)
        \/ /\ x.all /\ (key \/ DOMAIN vault = {})
           /\ exp' = [exp EXCEPT ![t].pc = "write", ![t].got = AllEntries]
           /\ UNCHANGED temps
        \/ /\ more /\ (key \/ x.ids[x.i] \notin DOMAIN vault)
           /\ exp' = [exp EXCEPT ![t].i = @ + 1,
                ![t].got = IF x.ids[x.i] \in DOMAIN vault THEN Append(@, vault[x.ids[x.i]]) ELSE @]
           /\ UNCHANGED temps
        \/ /\ ~x.all /\ ~more
           /\ exp' = [exp EXCEPT ![t].pc = "write"]
           /\ UNCHANGED temps
     /\ UNCHANGED <<key, vault, orphans, files, dialog, previews, reading, told, left>>

\* mkstemp and the handler: the content, or an exception (the disk is full).
Write(t) ==
  LET x == exp[t]  f == Exported(x.fmt, x.got, x.password, x.gzip)
  IN /\ x.pc = "write"
     /\ \/ /\ temps' = [temps EXCEPT ![t] = {[f EXCEPT !.whole = FALSE]}]
           /\ exp' = [exp EXCEPT ![t].pc = "written"]
        \/ ExportFails(t)
     /\ UNCHANGED <<key, vault, orphans, files, dialog, previews, reading, told, left>>

\* The file is complete; it is too large, or on its way to the destination.
Close(t) ==
  /\ exp[t].pc = "written"
  /\ \E f \in temps[t] :
       IF f.size > ExportLimit THEN ExportFails(t)
       ELSE /\ temps' = [temps EXCEPT ![t] = {[f EXCEPT !.whole = TRUE]}]
            /\ exp' = [exp EXCEPT ![t].pc = "move"]
  /\ UNCHANGED <<key, vault, orphans, files, dialog, previews, reading, told, left>>

\* MUTANT: the file is written where it goes.
MoveCopies(t) ==
  /\ \/ /\ exp[t].pc = "move"
        /\ \E f \in temps[t] :
             files' = [files EXCEPT ![exp[t].name] = [f EXCEPT !.whole = FALSE]]
        /\ exp' = [exp EXCEPT ![t].pc = "copying"]
        /\ UNCHANGED temps
     \/ /\ exp[t].pc = "copying"
        /\ \E f \in temps[t] : files' = [files EXCEPT ![exp[t].name] = f]
        /\ exp' = [exp EXCEPT ![t] = IdleExport]
        /\ temps' = [temps EXCEPT ![t] = {}]
  /\ UNCHANGED <<key, vault, orphans, dialog, previews, reading, told, left>>

\* shutil.move: a rename on one volume, and a copy that is then written to the
\* end and the original removed on two.  Either may raise; success goes to the
\* audit log.
Move(t) ==
  /\ \/ /\ exp[t].pc = "move" /\ exp[t].name \in Near
        /\ \E f \in temps[t] : files' = [files EXCEPT ![exp[t].name] = f]
        /\ exp' = [exp EXCEPT ![t] = IdleExport]
        /\ temps' = [temps EXCEPT ![t] = {}]
     \/ /\ exp[t].pc = "move" /\ exp[t].name \notin Near
        /\ \E f \in temps[t] : \E k \in 0..Len(f.body) :
             files' = [files EXCEPT ![exp[t].name] =
               [f EXCEPT !.whole = FALSE, !.body = SubSeq(@, 1, k)]]
        /\ exp' = [exp EXCEPT ![t].pc = "copying"]
        /\ UNCHANGED temps
     \/ /\ exp[t].pc = "copying"
        /\ \E f \in temps[t] : files' = [files EXCEPT ![exp[t].name] = f]
        /\ exp' = [exp EXCEPT ![t] = IdleExport]
        /\ temps' = [temps EXCEPT ![t] = {}]
     \/ /\ exp[t].pc \in {"move", "copying"}
        /\ ExportFails(t) /\ UNCHANGED files
  /\ UNCHANGED <<key, vault, orphans, dialog, previews, reading, told, left>>

-------------------------------------------------------------------------------
(* Import, as far as the rows. *)

\* _browse_file, in the dialog of before or in a new one: the button is enabled
\* and a preview begins.
Browse ==
  /\ Spend("read")
  /\ dialog.open \/ reading = {}
  /\ \E n \in Names :
       /\ files[n] # NoFile
       /\ dialog' = [name |-> n, fmt |-> Detected(files[n]), button |-> TRUE, open |-> TRUE]
  /\ previews' = previews \cup {[id |-> left.read, pc |-> "read"]}
  /\ UNCHANGED <<key, vault, exp, temps, orphans, files, reading, told>>

\* _do_preview's thread: validates the file the dialog is at by the time it
\* runs.  Without a password an encrypted LastPass file passes.
PreviewRuns ==
  /\ \E v \in previews : \E verdict \in Verdicts(files[dialog.name], dialog.fmt) :
       /\ v.pc = "read"
       /\ previews' = (previews \ {v}) \cup {[v EXCEPT !.pc = verdict]}
  /\ UNCHANGED <<key, vault, exp, temps, orphans, files, dialog, reading, told, left>>

\* _show_preview, of whatever file the dialog is at when Tk gets to it: errors
\* disable the button, entries shown enable it, and a JSON file, which is never
\* shown, leaves it as it is; so does a handler that raises, which the one for
\* CSV may do when it misreads the file.
PreviewShown ==
  /\ \E v \in previews, raises \in BOOLEAN :
       LET f == files[dialog.name]
       IN /\ v.pc # "read"
          /\ previews' = previews \ {v}
          /\ raises => Misread(f, dialog.fmt)
          /\ dialog' = [dialog EXCEPT !.button =
               CASE v.pc = "errors" -> FALSE
                 [] v.pc = "valid" /\ Shown(f, dialog.fmt) /\ ~raises -> TRUE
                 [] OTHER -> @]
  /\ UNCHANGED <<key, vault, exp, temps, orphans, files, reading, told, left>>

\* _do_import: the format is the one of now, the path is looked up when the
\* thread runs.  Without a password the user may go on all the same.
ImportBegins ==
  /\ dialog.open /\ dialog.button
  /\ \E p \in Passwords \cup {NoPassword} :
       reading' = reading \cup
         {[fmt |-> dialog.fmt,
           password |-> IF dialog.fmt \in {"json", "lastpass"} THEN p ELSE NoPassword]}
  /\ dialog' = [dialog EXCEPT !.button = FALSE]
  /\ UNCHANGED <<key, vault, exp, temps, orphans, files, previews, told, left>>

\* The file is read, and the dialog closed; or an exception ends the thread.
\* The message of the exception is gone when Tk wants to show it, and the
\* button stays as it is.
ImportReads ==
  /\ \E r \in reading :
       LET f == files[dialog.name]
       IN /\ reading' = reading \ {r}
          /\ \/ /\ Readable(f, r.fmt, r.password)
                /\ \E rows \in RowsRead(f, r.fmt) :
                     told' = [fmt |-> r.fmt, file |-> f, rows |-> rows,
                              password |-> r.password]
                /\ dialog' = [dialog EXCEPT !.open = FALSE, !.button = FALSE]
                /\ previews' = {}
             \/ /\ Readable(f, r.fmt, r.password) => MayRaise(f, r.fmt)
                /\ UNCHANGED <<told, dialog, previews>>
  /\ UNCHANGED <<key, vault, exp, temps, orphans, files, left>>

-------------------------------------------------------------------------------
(* Everything else. *)

\* The edit dialog: it writes its own six fields and forgets the others.
Edit ==
  /\ key /\ Spend("event")
  /\ \E n \in DOMAIN vault, p \in Edited :
       vault' = [vault EXCEPT ![n] =
         [@ EXCEPT !.password = p, !.totp = "", !.favorite = FALSE]]
  /\ UNCHANGED <<key, exp, temps, orphans, files, dialog, previews, reading, told>>

Delete ==
  /\ key /\ Spend("event")
  /\ \E n \in DOMAIN vault : vault' = [m \in DOMAIN vault \ {n} |-> vault[m]]
  /\ UNCHANGED <<key, exp, temps, orphans, files, dialog, previews, reading, told>>

Lock ==
  /\ key /\ Spend("event") /\ key' = FALSE
  /\ UNCHANGED <<vault, exp, temps, orphans, files, dialog, previews, reading, told>>

Unlock ==
  /\ ~key /\ key' = TRUE
  /\ UNCHANGED <<vault, exp, temps, orphans, files, dialog, previews, reading, told, left>>

\* Threads and dialogs are gone, files stay; the temporary ones have nobody.
Crash ==
  /\ Spend("event")
  /\ key' = FALSE
  /\ exp' = [t \in Threads |-> IdleExport]
  /\ orphans' = orphans \cup UNION {temps[t] : t \in Threads}
  /\ temps' = [t \in Threads |-> {}]
  /\ dialog' = NoDialog /\ previews' = {} /\ reading' = {} /\ told' = Nothing
  /\ UNCHANGED <<vault, files>>

ExportStep(t) == Collect(t) \/ Write(t) \/ Close(t) \/ Move(t)

Next ==
  \/ \E t \in Threads : ExportBegins(t) \/ ExportStep(t)
  \/ Browse \/ PreviewRuns \/ PreviewShown \/ ImportBegins \/ ImportReads
  \/ Edit \/ Delete \/ Lock \/ Unlock \/ Crash

Spec == Init /\ [][Next]_vars

-------------------------------------------------------------------------------
\* Nobody ever sees half a file at a destination on the volume of the temporary
\* directory, also when the process ends, the move fails or two exports go to
\* one name.
Atomic == INSTANCE AtomicFile WITH
  Names <- Near, files <- [n \in Near |-> files[n]],
  None <- NoFile, IsWhole <- LAMBDA f : f # NoFile /\ f.whole
RefinesAtomicFile == Atomic!Spec

\* No temporary file of an export outlives it, however it ended, unless the
\* process did: what it holds is in plain text for two of the formats.
TempsCleared ==
  \A t \in Threads : exp[t].pc = "idle" => temps[t] = {}

\* Wherever a file of this program lies, half written in the temporary
\* directory too: no password of the vault is in a CSV file (csv_handler.py, P2)
\* and the dialog lets no JSON or LastPass file be without encryption.
SecretsCovered ==
  \A f \in (UNION {temps[t] : t \in Threads}) \cup orphans \cup {files[n] : n \in Names} :
    (f # NoFile /\ f.ours) =>
      IF f.fmt = "csv"
      THEN \A i \in 1..Len(f.body) : \A j \in 1..Len(f.src) :
             f.body[i].password = f.src[j].password => f.src[j].password = Placeholder
      ELSE f.fmt # "bitwarden" => f.enc \in Passwords

\* The fields a format keeps, by its own description.
Kept == [json |-> {"id", "title", "username", "password", "url", "notes", "tags",
                   "totp", "favorite"},
         bitwarden |-> {"id", "title", "username", "password", "url", "notes", "tags"},
         lastpass  |-> {"title", "username", "password", "url", "notes", "tags", "totp",
                        "favorite"},
         csv |-> {"title", "username", "url", "notes", "tags"}]

Same(a, b, fields) == \A c \in fields :
  CASE c = "tags" -> a.tags.set = b.tags.set
    [] c \in {"id", "favorite"} -> a[c] = b[c]
    [] OTHER -> Strip[a[c]] = Strip[b[c]]

Titled(e) == IF Strip[e.title] = "" THEN <<>> ELSE <<e>>

\* What the importer begins with is what the exporter collected, entry by entry
\* and in the fields the format keeps, through every choice of file, password
\* and preview.  Lost are entries without a title in the CSV formats, in
\* LastPass the address that marks a secure note, and a CSV file with a text
\* that misleads csv.Sniffer, of which csv_handler.py's P7 makes no exception.
ImportedIsExported ==
  (/\ told.file # NoFile /\ told.file.ours /\ told.file.whole
   /\ told.fmt = told.file.fmt /\ ~Misread(told.file, told.fmt)) =>
    LET f == told.file
        want == IF f.fmt \in {"csv", "lastpass"} THEN FlattenSeq(Map(Titled, f.src)) ELSE f.src
        lost(e) == IF f.fmt = "lastpass" /\ Strip[e.url] \in NoteUrls THEN {"url"} ELSE {}
    IN /\ Len(told.rows) = Len(want)
       /\ \A i \in 1..Len(want) :
            Same(told.rows[i], want[i], Kept[f.fmt] \ lost(want[i]))

\* A file the exporter has finished can be read with its password, unless it is
\* larger than the importer takes or, a CSV file, holds a text or a tag that it
\* refuses or that misleads csv.Sniffer.
OursComesBack ==
  \A n \in Names : files[n] # NoFile =>
    LET f == files[n]
    IN (f.ours /\ f.whole /\ f.size <= ImportLimit
        /\ (f.fmt = "csv" => \A i \in 1..Len(f.src) :
              ({f.src[i].title, f.src[i].username, f.src[i].url, f.src[i].notes}
                 \cup f.src[i].tags.set) \cap (Forbidden \cup Marked) = {}))
       => /\ Readable(f, Detected(f), f.enc) /\ Verdicts(f, Detected(f)) = {"valid"}
          /\ ~Misread(f, Detected(f))
===============================================================================
