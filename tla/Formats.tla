-------------------------------- MODULE Formats --------------------------------
(***************************************************************************)
(* What the four format handlers write for an entry of the vault and what  *)
(* they read back, and the checks VaultImporter and ImportDialog make of a *)
(* file before its rows reach _import_entries (module Import).             *)
(*                                                                         *)
(* Nothing here changes state.  A text is a string of a small set; a file  *)
(* is a record of what the handlers look at.                               *)
(***************************************************************************)
EXTENDS Naturals, SequencesExt

CONSTANTS
  Texts,       \* what a field may hold, "" among them
  Forbidden,   \* texts that match one of _MALICIOUS_PATTERNS
  Strip,       \* of a text: the text without the spaces around it
  Marked,      \* texts that may mislead csv.Sniffer: a quotation mark or an
               \* apostrophe in them, or one of ; | and the tab at an end
  Garbled,     \* rows that a CSV file may be read as when it is misled
  NoteUrls,    \* "http://sn", "https://sn" and "sn", in any case
  Tags,        \* single tags, texts as well
  EntryIds,    \* ids of entries, Fresh among them
  Fresh,       \* an id a handler makes up
  Passwords,   \* passwords for files
  NoPassword,  \* None
  Weight,      \* size of an entry in a format, before compression
  ExportLimit, \* _MAX_EXPORT_BYTES, in units of size
  ImportLimit  \* _MAX_FILE_SIZE, in the same units

Placeholder == "[ENCRYPTED]"
FormatNames == {"json", "csv", "bitwarden", "lastpass"}

ASSUME FormatsAssumption ==
  /\ {"", Placeholder} \subseteq Texts
  /\ Forbidden \subseteq Texts /\ Placeholder \notin Forbidden
  /\ Marked \subseteq Texts /\ Placeholder \notin Marked
  /\ Tags \subseteq Texts
  /\ Strip \in [Texts -> Texts] /\ Strip[""] = "" /\ Strip[Placeholder] = Placeholder
  /\ \A t \in Texts : Strip[Strip[t]] = Strip[t]
  /\ Fresh \in EntryIds
  /\ NoPassword \notin Passwords
  /\ Weight \in [FormatNames -> Nat] /\ ExportLimit \in Nat /\ ImportLimit \in Nat

\* The column tags holds a string, of which the handlers make a list.
TagFields == [kind : {"text", "list"}, set : SUBSET Tags]

Entries == [id : EntryIds, title : Texts, username : Texts, password : Texts,
            url : Texts, notes : Texts, tags : TagFields,
            totp : Texts, favorite : BOOLEAN]

ASSUME GarbledAssumption == Garbled \subseteq Seq(Entries)

-------------------------------------------------------------------------------
(* One entry, written and read. *)

\* MUTANT: the password is written as it is.
CsvRowPlain(e) ==
  [title |-> e.title, username |-> e.username, password |-> e.password,
   url |-> e.url, notes |-> e.notes, tags |-> e.tags.set]

CsvRow(e) ==
  [title |-> e.title, username |-> e.username, password |-> Placeholder,
   url |-> e.url, notes |-> e.notes, tags |-> e.tags.set]

\* _map_row_to_entry; a row with no title is left out.
CsvEntry(r) ==
  [id |-> Fresh, title |-> Strip[r.title], username |-> Strip[r.username],
   password |-> Strip[r.password], url |-> Strip[r.url], notes |-> Strip[r.notes],
   tags |-> [kind |-> "list", set |-> r.tags], totp |-> "", favorite |-> FALSE]
CsvEntries(r) == IF Strip[r.title] = "" THEN <<>> ELSE <<CsvEntry(r)>>

\* Tags survive in a custom field; totp and favorite do not.
BitwardenItem(e) ==
  [type |-> "login", id |-> e.id, name |-> e.title, notes |-> e.notes,
   uri |-> e.url, username |-> e.username, password |-> e.password,
   field |-> e.tags.set, folder |-> {}]

\* A secure note becomes an entry with no credentials; tags come from the
\* custom field or, without one, from the folder.
BitwardenEntry(i) ==
  LET login == i.type = "login"
  IN [id |-> i.id, title |-> i.name,
      username |-> IF login THEN i.username ELSE "",
      password |-> IF login THEN i.password ELSE "",
      url   |-> IF login THEN Strip[i.uri] ELSE "",
      notes |-> i.notes,
      tags  |-> [kind |-> "list",
                 set |-> IF ~login THEN {} ELSE IF i.field # {} THEN i.field ELSE i.folder],
      totp |-> "", favorite |-> FALSE]
BitwardenEntries(i) ==
  IF i.type \in {"card", "identity"} THEN <<>> ELSE <<BitwardenEntry(i)>>

\* MUTANT: the columns of user name and notes are swapped.
LastPassRowSwapped(e) ==
  [url |-> e.url, username |-> e.notes, password |-> e.password, totp |-> e.totp,
   extra |-> e.username, name |-> e.title, grouping |-> e.tags.set, fav |-> e.favorite]

LastPassRow(e) ==
  [url |-> e.url, username |-> e.username, password |-> e.password, totp |-> e.totp,
   extra |-> e.notes, name |-> e.title, grouping |-> e.tags.set, fav |-> e.favorite]

\* The address that marks a secure note is none.
CleanUrl(u) == IF u \in NoteUrls THEN "" ELSE u

LastPassEntry(r) ==
  [id |-> Fresh, title |-> Strip[r.name], username |-> Strip[r.username],
   password |-> Strip[r.password], url |-> CleanUrl(Strip[r.url]), notes |-> Strip[r.extra],
   tags |-> [kind |-> "list", set |-> r.grouping],
   totp |-> Strip[r.totp], favorite |-> r.fav]
LastPassEntries(r) == IF Strip[r.name] = "" THEN <<>> ELSE <<LastPassEntry(r)>>

-------------------------------------------------------------------------------
(* A file. *)

CsvLines == [title : Texts, username : Texts, password : Texts, url : Texts, notes : Texts,
             tags : SUBSET Tags]
Items == [type : {"login", "note", "card", "identity"}, id : EntryIds, name : Texts,
          notes : Texts, uri : Texts, username : Texts, password : Texts,
          field : SUBSET Tags, folder : SUBSET Tags]
LastPassLines == [url : Texts, username : Texts, password : Texts, totp : Texts,
                  extra : Texts, name : Texts, grouping : SUBSET Tags, fav : BOOLEAN]

Map(Op(_), s) == [i \in 1..Len(s) |-> Op(s[i])]

\* The body of an export; JSON keeps the entries as they are.
Written(fmt, entries) ==
  CASE fmt = "json"      -> entries
    [] fmt = "csv"       -> Map(CsvRow, entries)
    [] fmt = "bitwarden" -> Map(BitwardenItem, entries)
    [] fmt = "lastpass"  -> Map(LastPassRow, entries)

\* ext: the name's extension; enc: the password it is encrypted with; hash: what
\* integrity.hash says of the payload; sound: the outer form is as the handler
\* wants it (valid JSON of the known version, the columns there must be, no
\* encrypted Bitwarden export); whole: it was written to the end.  Ghosts: ours:
\* the exporter wrote it, src: of these entries.
Files == [ext : {".json", ".csv"}, fmt : FormatNames,
          body : Seq(Entries \cup CsvLines \cup Items \cup LastPassLines),
          enc : Passwords \cup {NoPassword}, gzip : BOOLEAN,
          hash : {"right", "wrong", "none"}, size : Nat, sound : BOOLEAN,
          whole : BOOLEAN, ours : BOOLEAN, src : Seq(Entries)]

Suffix(fmt) == IF fmt \in {"json", "bitwarden"} THEN ".json" ELSE ".csv"

\* _encrypt_with_password_full for JSON, _encrypt_content for LastPass.
LockedWith(fmt, password) == IF fmt \in {"json", "lastpass"} THEN password ELSE NoPassword

\* MUTANT: the hash is taken of what is compressed.
ExportedHashLate(fmt, entries, password, gzip) ==
  [ext |-> Suffix(fmt), fmt |-> fmt, body |-> Written(fmt, entries),
   enc |-> LockedWith(fmt, password), gzip |-> fmt = "json" /\ gzip,
   hash |-> IF fmt # "json" THEN "none" ELSE IF gzip THEN "wrong" ELSE "right",
   size |-> Len(entries) * (IF fmt = "json" /\ gzip THEN 1 ELSE Weight[fmt]),
   sound |-> TRUE, whole |-> TRUE, ours |-> TRUE, src |-> entries]

\* _write_json (always encrypted), _write_csv, _write_bitwarden and
\* _write_lastpass (encrypted when there is a password).  The hash is taken of
\* the payload before it is compressed.
Exported(fmt, entries, password, gzip) ==
  [ext |-> Suffix(fmt), fmt |-> fmt, body |-> Written(fmt, entries),
   enc |-> LockedWith(fmt, password), gzip |-> fmt = "json" /\ gzip,
   hash |-> IF fmt = "json" THEN "right" ELSE "none",
   size |-> Len(entries) * (IF fmt = "json" /\ gzip THEN 1 ELSE Weight[fmt]),
   sound |-> TRUE, whole |-> TRUE, ours |-> TRUE, src |-> entries]

\* _detect_format, by extension and then by what the file begins with.
Detected(f) ==
  CASE f.ext = ".json" -> IF f.fmt = "bitwarden" THEN "bitwarden" ELSE "json"
    [] f.ext = ".csv"  -> IF f.fmt = "lastpass" THEN "lastpass" ELSE "csv"
    [] OTHER           -> "json"

\* The texts and the tags of a line of a file that is not encrypted.
TagsOf(r) ==
  CASE "grouping" \in DOMAIN r -> r.grouping
    [] "folder" \in DOMAIN r   -> r.field \cup r.folder
    [] "id" \in DOMAIN r       -> r.tags.set
    [] OTHER                   -> r.tags
TextsOf(r) ==
  {r[c] : c \in DOMAIN r \cap {"title", "name", "username", "password", "url", "uri",
                              "notes", "extra", "totp"}} \cup TagsOf(r)

\* _scan_for_malicious_content goes over the whole file.
Suspicious(f) ==
  f.enc = NoPassword /\ \E i \in 1..Len(f.body) : TextsOf(f.body[i]) \cap Forbidden # {}

\* verify_hash; no hash is no objection.
HashHolds(f) == f.hash # "wrong"

\* parse_envelope: valid JSON with the flag, the version and the four parts.
Envelope(f) == f.fmt = "json" /\ f.whole /\ f.sound

\* Decryption authenticates: another password, or half a file, raises.
Decrypts(f, password) == f.enc = password /\ f.whole

\* import_json, import_csv, import_bitwarden and import_lastpass up to
\* _import_entries: the file is refused, with an exception, or read.  Half a CSV
\* file is as good as a whole one, and JSON of this program is a Bitwarden
\* export with no items.
JsonReadable(f, password) ==
  Envelope(f) /\ (f.enc # NoPassword => Decrypts(f, password)) /\ HashHolds(f)
CsvReadable(f) == ~Suspicious(f)
BitwardenReadable(f) ==
  f.fmt \in {"json", "bitwarden"} /\ f.whole /\ (f.fmt = "bitwarden" => f.sound)
LastPassReadable(f, password) ==
  ~Suspicious(f) /\ (f.fmt = "lastpass" /\ f.enc # NoPassword => Decrypts(f, password))

\* The format is the one detected, which the file need not have any more: it
\* may have been replaced by another of its extension, or another one chosen.
Readable(f, fmt, password) ==
  /\ f.size <= ImportLimit
  /\ CASE fmt = "json"      -> JsonReadable(f, password)
       [] fmt = "bitwarden" -> BitwardenReadable(f)
       [] fmt = "csv"       -> CsvReadable(f)
       [] fmt = "lastpass"  -> LastPassReadable(f, password)

\* A LastPass file read by its columns as any CSV file is.
LastPassAsCsv(r) ==
  [title |-> r.name, username |-> r.username, password |-> r.password,
   url |-> r.url, notes |-> r.extra, tags |-> r.grouping]

\* The rows of a file that can be read, those without a title left out where
\* the handler does so.
CsvRows(f) ==
  CASE f.fmt = "csv" /\ f.sound -> FlattenSeq(Map(CsvEntries, f.body))
    [] f.fmt = "lastpass" /\ f.enc = NoPassword ->
         FlattenSeq(Map(CsvEntries, Map(LastPassAsCsv, f.body)))
    [] OTHER -> <<>>
BitwardenRows(f) ==
  IF f.fmt = "bitwarden" THEN FlattenSeq(Map(BitwardenEntries, f.body)) ELSE <<>>
LastPassRows(f) ==
  IF f.fmt = "lastpass" /\ f.sound
  THEN FlattenSeq(Map(LastPassEntries, f.body)) ELSE <<>>

Rows(f, fmt) ==
  CASE fmt = "json"      -> f.body
    [] fmt = "csv"       -> CsvRows(f)
    [] fmt = "bitwarden" -> BitwardenRows(f)
    [] fmt = "lastpass"  -> LastPassRows(f)

\* _sniff_dialect: how a CSV file is written is guessed from the beginning of
\* it.  What this program writes has every cell in quotes and is read as it was
\* written while no text looks like a quote or a delimiter; otherwise, and for
\* files of other programs, there is no telling.
Misread(f, fmt) ==
  /\ fmt = "csv" /\ f.enc = NoPassword /\ f.fmt \in {"csv", "lastpass"}
  /\ f.ours => \E i \in 1..Len(f.body) : TextsOf(f.body[i]) \cap Marked # {}

RowsRead(f, fmt) ==
  {Rows(f, fmt)} \cup IF Misread(f, fmt) THEN Garbled ELSE {}

\* What the handlers object to when they are asked before.  Without a password
\* an encrypted LastPass file passes.
CsvValid(f)       == f.enc = NoPassword /\ f.sound
BitwardenValid(f) == f.fmt = "bitwarden" /\ f.whole /\ f.sound
LastPassValid(f)  == f.enc # NoPassword \/ (f.fmt = "lastpass" /\ f.sound)

\* validate_import_file.
Validated(f, fmt) ==
  /\ f.size <= ImportLimit
  /\ CASE fmt = "json"      -> Envelope(f)
       [] fmt = "csv"       -> CsvValid(f)
       [] fmt = "bitwarden" -> BitwardenValid(f)
       [] fmt = "lastpass"  -> LastPassValid(f)

\* The handlers of CSV and LastPass may raise in the middle of a file: where it
\* is misread, and where JSON has more cells in a line than in the first.
MayRaise(f, fmt) ==
  Misread(f, fmt) \/ (fmt = "lastpass" /\ f.fmt \in {"json", "bitwarden"})

\* What the dialog is told: of a CSV file misread, the columns may be missing.
Verdicts(f, fmt) ==
  CASE Misread(f, fmt) /\ f.size <= ImportLimit -> {"valid", "errors"}
    [] Validated(f, fmt) -> {"valid"}
    [] OTHER -> {"errors"}

\* The dialog shows entries of the file, or says that it is encrypted.
Shown(f, fmt) ==
  fmt # "json" /\ (fmt = "bitwarden" => f.whole /\ (f.fmt = "bitwarden" => f.sound))
===============================================================================
