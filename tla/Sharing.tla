-------------------------------- MODULE Sharing --------------------------------
(***************************************************************************)
(* SharingService and QRCodeService, run by the threads of SharingDialog   *)
(* and by MainWindow.share_entry, beside the user's edits and whoever else *)
(* writes on the same Connection.                                          *)
(*                                                                         *)
(* Neither service ever commits.  What they write stays in the transaction *)
(* of the connection until an entry, an audit row or a setting is          *)
(* committed, is taken back when one of those is rolled back, and is lost  *)
(* when the program ends before.                                           *)
(***************************************************************************)
EXTENDS Connection, Naturals, FiniteSets

CONSTANTS
  EntryIds,  \* ids of vault entries
  Values,    \* what an entry may hold, Gone among them
  Entries0,  \* the entries at the start
  Gone,      \* in the place of an entry that is not there
  Keys,      \* public keys of contacts
  MinDays,   \* MIN_EXPIRY_DAYS
  MaxDays,   \* MAX_EXPIRY_DAYS
  Days,      \* what the spin box may hold
  MaxTime,   \* bound: days that pass
  MaxShares, \* bound: shares asked for
  MaxEvents  \* bound: edits, locks, closed dialogs, ends and others' writes, together

ASSUME SharingAssumption ==
  /\ Gone \in Values /\ Entries0 \in [EntryIds -> Values]
  /\ MinDays \in Nat /\ MaxDays \in Nat /\ Days \subseteq Nat
  /\ {MaxTime, MaxShares, MaxEvents} \subseteq Nat

\* Who runs share_entry: the two threads of the dialog, the window itself.
Workers  == {"create", "qr", "call"}
ShareIds == 1..MaxShares

VARIABLES
  key,     \* the encryption key is in the cache
  now,     \* the day
  run,     \* what each worker does
  dialog,  \* SharingDialog: the entry it is about, or "closed"
  enabled, \* the button of a worker can be pressed
  listed,  \* the shares its history shows
  given,   \* packages that left the program
  codes,   \* QR codes that were shown, with the day they expire
  scanned, \* packages that a recipient has from a code
  late,    \* ghost: a recipient read a package after the longest time there is
  edit,    \* the entry manager has written and not yet committed
  left,    \* what the bounds still allow
  undone   \* ghost: shares whose record was not made or was taken back

vars == <<view, disk, key, now, run, dialog, enabled, listed, given, codes, scanned, late,
          edit, left, undone>>

\* A package: the entry as it was read, with its password if full.  Ghost: asked,
\* the day it was made.  orphan: the dialog of the thread is closed.
Idle == [pc |-> "idle", entry |-> 0, days |-> 0, full |-> FALSE, id |-> 0,
         method |-> "password", value |-> Gone, expires |-> 0, orphan |-> FALSE]

Init ==
  /\ disk = [entries |-> Entries0, shares |-> <<>>, contacts |-> {}]
  /\ view = disk
  /\ key = TRUE /\ now = 0
  /\ run = [w \in Workers |-> Idle]
  /\ dialog = 0 /\ enabled = [w \in Workers |-> TRUE] /\ listed = {}
  /\ given = {} /\ codes = {} /\ scanned = {} /\ late = FALSE
  /\ edit = FALSE
  /\ left = [share |-> MaxShares, event |-> MaxEvents]
  /\ undone = {}

Event == left.event > 0 /\ left' = [left EXCEPT !.event = @ - 1]

\* What a rollback takes back of the shares.
TakenBack == undone' = undone \cup (DOMAIN view.shares \ DOMAIN disk.shares)

Set(f, x, v) == [y \in DOMAIN f \cup {x} |-> IF y = x THEN v ELSE f[y]]

-------------------------------------------------------------------------------
(* share_entry. *)

\* show_sharing_dialog wants the key; the history is of this entry.
Opens ==
  /\ dialog = 0 /\ key
  /\ \E e \in EntryIds :
       /\ dialog' = e
       /\ listed' = {s \in DOMAIN view.shares : view.shares[s].entry = e}
  /\ enabled' = [enabled EXCEPT !["create"] = TRUE, !["qr"] = TRUE]
  /\ UNCHANGED <<view, disk, key, now, run, given, codes, scanned, late, edit, left, undone>>

Closes ==
  /\ dialog # 0 /\ Event
  /\ dialog' = 0 /\ listed' = {}
  /\ run' = [w \in Workers |-> [run[w] EXCEPT !.orphan = run[w].pc # "idle"]]
  /\ UNCHANGED <<view, disk, key, now, enabled, given, codes, scanned, late, edit, undone>>

\* The call of share_entry, in a thread or, from the window, at once.
Begins(w, e, d, full, method) ==
  /\ run[w].pc = "idle" /\ left.share > 0
  /\ left' = [left EXCEPT !.share = @ - 1]
  /\ run' = [run EXCEPT ![w] =
       [Idle EXCEPT !.pc = "collect", !.method = method, !.entry = e, !.days = d,
                    !.full = full, !.id = left.share]]
  /\ UNCHANGED <<view, disk, key, now, dialog, listed, given, codes, scanned, late, edit, undone>>

\* _do_share disables its button.  The recipient's public key is never passed
\* on, so that method ends in an exception.
AsksShare ==
  /\ dialog # 0 /\ enabled["create"]
  /\ \E d \in Days, full \in BOOLEAN, method \in {"password", "public_key"} :
       Begins("create", dialog, d, full, method)
  /\ enabled' = [enabled EXCEPT !["create"] = FALSE]

\* _generate_qr: a code has neither a choice of permission nor of time.
AsksQr ==
  /\ dialog # 0 /\ enabled["qr"]
  /\ Begins("qr", dialog, 1, FALSE, "password")
  /\ enabled' = [enabled EXCEPT !["qr"] = FALSE]

\* MainWindow.share_entry, which wants the key.
Calls ==
  /\ key
  /\ \E e \in EntryIds, d \in Days, full \in BOOLEAN : Begins("call", e, d, full, "password")
  /\ UNCHANGED enabled

DaysAllowed(d) == d \in MinDays..MaxDays

\* The range of days, get_entry and the package; nothing is written yet.  After
\* an exception the lambda that should show it finds its name gone: no message,
\* and the button stays as it is.
Collects(w) ==
  /\ run[w].pc = "collect"
  /\ LET r == run[w]
     IN IF DaysAllowed(r.days) /\ key /\ r.method = "password" /\ view.entries[r.entry] # Gone
        THEN run' = [run EXCEPT ![w] =
               [r EXCEPT !.pc = "persist", !.value = view.entries[r.entry],
                         !.expires = now + r.days]]
        ELSE run' = [run EXCEPT ![w] = Idle]
  /\ UNCHANGED <<view, disk, key, now, dialog, enabled, listed, given, codes, scanned, late,
                 edit, left, undone>>

\* MUTANT: the record has the default time.
RecordDefault(r) == [entry |-> r.entry, full |-> r.full, expires |-> now + 1]

Record(r) == [entry |-> r.entry, full |-> r.full, expires |-> r.expires]

\* _persist_share_record: an exception of the database is not told; then
\* _log_share_event, which calls a method that AuditLogger does not have.
Persists(w) ==
  /\ run[w].pc = "persist"
  /\ run' = [run EXCEPT ![w].pc = "deliver"]
  /\ \/ /\ Write([view EXCEPT !.shares = Set(@, run[w].id, Record(run[w]))])
        /\ UNCHANGED undone
     \/ /\ undone' = undone \cup {run[w].id}
        /\ UNCHANGED <<view, disk>>
  /\ UNCHANGED <<key, now, dialog, enabled, listed, given, codes, scanned, late, edit, left>>

Package(r) == [id |-> r.id, entry |-> r.entry, value |-> r.value,
               full |-> r.full, expires |-> r.expires, asked |-> r.expires - r.days]

\* What every worker does when share_entry has returned.
Returns(w) ==
  /\ run[w].pc = "deliver"
  /\ run' = [run EXCEPT ![w] = Idle]
  /\ UNCHANGED <<view, disk, key, now, dialog, scanned, late, edit, left, undone>>

\* _on_share_success: into a file, unless the user cancels or wants the
\* clipboard, where ClipboardService() raises; the history is read again.
DeliversFile ==
  /\ Returns("create") /\ ~run["create"].orphan
  /\ given' \in {given, given \cup {Package(run["create"])}}
  /\ listed' = {s \in DOMAIN view.shares : view.shares[s].entry = dialog}
  /\ enabled' = [enabled EXCEPT !["create"] = TRUE]
  /\ UNCHANGED codes

\* generate_qr_code and _show_qr, unless the package is too large for one code (a
\* part of _QR_MAX_BYTES does not fit a code once it is encoded).
DeliversCode ==
  /\ Returns("qr") /\ ~run["qr"].orphan
  /\ \/ /\ codes' = codes \cup {[package |-> Package(run["qr"]), expires |-> now]}
        /\ enabled' = [enabled EXCEPT !["qr"] = TRUE]
     \/ UNCHANGED <<codes, enabled>>
  /\ UNCHANGED <<given, listed>>

\* The window hands the package to its caller.
DeliversResult ==
  /\ Returns("call")
  /\ given' = given \cup {Package(run["call"])}
  /\ UNCHANGED <<codes, listed, enabled>>

\* Nobody is told if the dialog of the thread is closed.
DeliversNothing(w) ==
  /\ w # "call" /\ Returns(w) /\ run[w].orphan
  /\ UNCHANGED <<given, codes, listed, enabled>>

-------------------------------------------------------------------------------
(* Afterwards. *)

\* MUTANT: the row is deleted.
RevokedRow(f, s) == [x \in DOMAIN f \ {s} |-> f[x]]

\* UPDATE ... SET expires_at: a row that is not there makes no difference, and
\* the answer is True all the same.
Revoked(f, s) ==
  IF s \in DOMAIN f THEN [f EXCEPT ![s].expires = now] ELSE f

\* _revoke_selected takes the line out of the history; the row is there to come
\* back with the next reading.
Revokes ==
  /\ \E s \in listed :
       /\ Write([view EXCEPT !.shares = Revoked(@, s)])
       /\ listed' = listed \ {s}
  /\ UNCHANGED <<key, now, run, dialog, enabled, given, codes, scanned, late, edit, left, undone>>

\* decode_qr_image and decode_qr_chunks, which want the code to be valid.
Scans ==
  /\ \E c \in codes : now <= c.expires /\ scanned' = scanned \cup {c.package}
  /\ UNCHANGED <<view, disk, key, now, run, dialog, enabled, listed, given, codes, late,
                 edit, left, undone>>

\* MUTANT: the time is not looked at.
InTimeAlways(p) == TRUE

\* _verify_not_expired.
InTime(p) == now <= p.expires

\* import_shared_entry by whoever has the package, with the right password.
\* entry_manager.add_entry does not exist: with save_to_vault the decrypted
\* entry is lost in an exception.
Imports ==
  /\ \E p \in given \cup scanned : InTime(p) /\ late' = (late \/ now > p.asked + MaxDays)
  /\ UNCHANGED <<view, disk, key, now, run, dialog, enabled, listed, given, codes, scanned,
                 edit, left, undone>>

\* QRCodeService keeps contacts the same way: one at most here.
Rotated(c, k) == [pem |-> k, print |-> k]

Contact ==
  /\ Event
  /\ \E k \in Keys :
       \/ view.contacts = {} /\ Write([view EXCEPT !.contacts = {[pem |-> k, print |-> k]}])
       \/ \E c \in view.contacts :
            Write([view EXCEPT !.contacts = {Rotated(c, k)}])
       \/ Write([view EXCEPT !.contacts = {}])
  /\ UNCHANGED <<key, now, run, dialog, enabled, listed, given, codes, scanned, late, edit,
                 undone>>

-------------------------------------------------------------------------------
(* Everybody else on the connection. *)

\* update_entry or delete_entry, up to the commit.
Edits ==
  /\ key /\ ~edit /\ Event
  /\ \E e \in EntryIds, v \in Values :
       /\ view.entries[e] \notin {Gone, v}
       /\ Write([view EXCEPT !.entries[e] = v])
  /\ edit' = TRUE
  /\ UNCHANGED <<key, now, run, dialog, enabled, listed, given, codes, scanned, late, undone>>

Commits ==
  /\ edit /\ edit' = FALSE
  /\ Commit
  /\ UNCHANGED <<key, now, run, dialog, enabled, listed, given, codes, scanned, late, left, undone>>

\* A failed create_entry, soft delete or rotation.
RollsBack ==
  /\ Event
  /\ Rollback /\ TakenBack
  /\ edit' = FALSE
  /\ UNCHANGED <<key, now, run, dialog, enabled, listed, given, codes, scanned, late>>

\* The audit log's worker commits whatever there is.
OtherCommits ==
  /\ Event
  /\ Commit
  /\ UNCHANGED <<key, now, run, dialog, enabled, listed, given, codes, scanned, late, edit, undone>>

Locks ==
  /\ key /\ Event /\ key' = FALSE
  /\ UNCHANGED <<view, disk, now, run, dialog, enabled, listed, given, codes, scanned, late,
                 edit, undone>>

Unlocks ==
  /\ ~key /\ key' = TRUE
  /\ UNCHANGED <<view, disk, now, run, dialog, enabled, listed, given, codes, scanned, late,
                 edit, left, undone>>

\* on_closing closes the connection and commits nothing, as the end of the
\* process does.
Ends ==
  /\ Event
  /\ Reopen /\ TakenBack
  /\ key' = FALSE /\ run' = [w \in Workers |-> Idle]
  /\ dialog' = 0 /\ listed' = {} /\ edit' = FALSE
  /\ enabled' = [w \in Workers |-> TRUE]
  /\ UNCHANGED <<now, given, codes, scanned, late>>

Tick ==
  /\ now < MaxTime /\ now' = now + 1
  /\ UNCHANGED <<view, disk, key, run, dialog, enabled, listed, given, codes, scanned, late,
                 edit, left, undone>>

WorkerStep(w) == Collects(w) \/ Persists(w) \/ DeliversNothing(w)

Next ==
  \/ \E w \in Workers : WorkerStep(w)
  \/ AsksShare \/ AsksQr \/ Calls \/ DeliversFile \/ DeliversCode \/ DeliversResult
  \/ Opens \/ Closes \/ Revokes \/ Scans \/ Imports \/ Contact
  \/ Edits \/ Commits \/ RollsBack \/ OtherCommits \/ Locks \/ Unlocks \/ Ends \/ Tick

Spec == Init /\ [][Next]_vars

-------------------------------------------------------------------------------
Out == given \cup {c.package : c \in codes}

\* A record that is not expired, in the transaction or in the file, tells of the
\* package what is true of it, whatever was edited, revoked, committed or taken
\* back since: the entry, the permission and the day it expires.
LiveRecordsAgree ==
  \A d \in {view, disk} : \A p \in Out :
    (p.id \in DOMAIN d.shares /\ d.shares[p.id].expires > now) =>
      d.shares[p.id] = [entry |-> p.entry, full |-> p.full, expires |-> p.expires]

\* Nothing leaves the program without a record, except where the INSERT failed
\* or somebody's rollback, or the end of the program, took it back.
RecordedUnlessUndone == \A p \in Out : p.id \in DOMAIN view.shares \cup undone

\* What the file says of a share it never forgets: the record stays, and once
\* expired or revoked there it does not come alive again.
KeptOnDisk ==
  [][\A s \in DOMAIN disk.shares :
       /\ s \in DOMAIN disk'.shares
       /\ disk.shares[s].expires <= now => disk'.shares[s].expires <= now']_vars

\* However it travels, a package is read by nobody later than MAX_EXPIRY_DAYS
\* after it was made.
ReadInTime == ~late
===============================================================================
