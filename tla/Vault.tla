--------------------------------- MODULE Vault ---------------------------------
(***************************************************************************)
(* The life of a vault file: ConfigManager's config.json, the setup        *)
(* wizard, KeyManager with its KeyStore, opening, logging in, locking, the *)
(* master password's failing change, what is written with the cached key,  *)
(* and the end of the program between any two commits.                     *)
(*                                                                         *)
(* A key is what it is derived from: a password and a salt.                *)
(***************************************************************************)
EXTENDS Naturals

CONSTANTS
  Paths,     \* database files
  Passwords, \* master passwords
  Salts,     \* what generate_enc_salt may return
  Plain,     \* a setting as text
  Blob,      \* a setting as bytes
  None,      \* nothing, or no file
  MaxSetups  \* bound: wizards that are finished or fail

DataKeys == [password : Passwords, salt : Salts]

ASSUME VaultAssumption ==
  /\ None \notin Paths \cup Passwords \cup Salts \cup DataKeys
  /\ Plain \notin DataKeys /\ None # Plain /\ None # Blob /\ Plain # Blob
  /\ MaxSetups \in Nat

\* Settings by how their rows come to be: "timeout" has a default row in every
\* file, "mode" has one from the first preset on.
Settings == {"timeout", "mode"}

VARIABLES
  disk,     \* the path in config.json; None as well if the file cannot be read
  config,   \* ConfigManager._data: the path, and what is there of the settings
  store,    \* key_store of each file: the latest hash and the latest salt
  entries,  \* vault_entries of each file: the keys they are encrypted under
  settings, \* settings of each file: None, Plain or the key of the row
  at,       \* what the Tk thread is about
  typed,    \* path and password in the wizard
  manager,  \* the file of the KeyManager in use
  key,      \* the key in its cache
  setups,   \* setups so far
  cut,      \* ghost: a save was cut short, and no path has been saved since
  over      \* ghost: files set up again

vars == <<disk, cut, config, store, entries, settings, at, typed, manager, key, setups, over>>

Unread  == [s \in Settings |-> None]
Untyped == [path |-> None, password |-> None]

Init ==
  /\ disk = None /\ cut = FALSE /\ config = [path |-> None, data |-> Unread]
  /\ store = [p \in Paths |-> [hash |-> None, salt |-> None]]
  /\ entries = [p \in Paths |-> {}]
  /\ settings = [p \in Paths |-> Unread]
  /\ at = "off" /\ typed = Untyped
  /\ manager = None /\ key = None
  /\ setups = 0 /\ over = {}

\* The key that this password gives in this file.
Derive(p, pw) == [password |-> pw, salt |-> store[p].salt]

Current(p) == Derive(p, store[p].hash)

-------------------------------------------------------------------------------
(* ConfigManager. *)

\* The dump into the truncated file: a row read from the database as bytes
\* raises in the middle, nobody is told, and load makes nothing of the rest.
Dumped(c) == IF \E s \in Settings : c.data[s] = Blob THEN None ELSE c.path

\* save: open truncates the file, then it is dumped into.  No room, or the end
\* of the process, cuts it short and leaves nothing load can read; an open that
\* is refused leaves the file as it was.  Nobody is told of that either.
Save(c) ==
  \/ disk' = Dumped(c) /\ cut' = (cut /\ Dumped(c) = None)
  \/ disk' \in {None, disk} /\ cut' = TRUE

\* load_from_db puts every row into _data as it is.
Loaded(d, rows) ==
  [s \in Settings |-> CASE rows[s] = None  -> d[s]
                        [] rows[s] = Plain -> Plain
                        [] OTHER           -> Blob]

\* connect makes the file and its default rows unless they are there.
Connected(rows) == IF rows["timeout"] = None THEN [rows EXCEPT !["timeout"] = Plain] ELSE rows

-------------------------------------------------------------------------------
(* Start, setup and opening. *)

\* The process, and check_first_run: the wizard, or open_database.
Starts ==
  /\ at = "off"
  /\ config' = [path |-> disk, data |-> Unread]
  /\ at' = IF disk = None THEN "wizard" ELSE "open"
  /\ UNCHANGED <<disk, cut, store, entries, settings, typed, manager, key, setups, over>>

\* Ctrl+N, and "cancel"; a click on the other dialog's "cancel" too.
AsksForWizard ==
  /\ at = "main" /\ at' = "wizard"
  /\ UNCHANGED <<disk, cut, config, store, entries, settings, typed, manager, key, setups, over>>

Cancels ==
  /\ at \in {"wizard", "login"} /\ at' = "main"
  /\ UNCHANGED <<disk, cut, config, store, entries, settings, typed, manager, key, setups, over>>

\* MUTANT: the path is not remembered before the vault is made.
SetupPathUnsaved ==
  /\ at = "wizard" /\ setups < MaxSetups /\ setups' = setups + 1
  /\ \E p \in Paths, pw \in Passwords :
       /\ typed' = [path |-> p, password |-> pw]
       /\ config' = [config EXCEPT !.path = p]
  /\ at' = "path"
  /\ UNCHANGED <<disk, cut, store, entries, settings, manager, key, over>>

\* _finish_setup, up to the setter of db_path, which saves.
SetupPath ==
  /\ at = "wizard" /\ setups < MaxSetups /\ setups' = setups + 1
  /\ \E p \in Paths, pw \in Passwords :
       /\ typed' = [path |-> p, password |-> pw]
       /\ config' = [config EXCEPT !.path = p]
  /\ Save(config')
  /\ at' = "path"
  /\ UNCHANGED <<store, entries, settings, manager, key, over>>

\* connect, the new KeyManager, and the commit of the hash.
SetupHash ==
  /\ at = "path"
  /\ LET p == typed.path
     IN /\ settings' = [settings EXCEPT ![p] = Connected(@)]
        /\ manager' = p
        /\ store' = [store EXCEPT ![p].hash = typed.password]
        /\ over' = IF store[p].salt = None THEN over ELSE over \cup {p}
  /\ key' = None
  /\ at' = "hash"
  /\ UNCHANGED <<disk, cut, config, entries, typed, setups>>

\* The commit of the salt; the key is cached before anybody has logged in.
SetupSalt ==
  /\ at = "hash"
  /\ \E s \in Salts :
       /\ store' = [store EXCEPT ![manager].salt = s]
       /\ key' = [password |-> typed.password, salt |-> s]
  /\ Save(config)
  /\ at' = "login" /\ typed' = Untyped
  /\ UNCHANGED <<config, entries, settings, manager, setups, over>>

\* An exception on the way: no directory, no file, no room for a row.
SetupFails ==
  /\ \/ at = "path" /\ UNCHANGED <<settings, manager, key>>
     \/ /\ at = "path"
        /\ settings' = [settings EXCEPT ![typed.path] = Connected(@)]
        /\ manager' = typed.path /\ key' = None
     \/ at = "hash" /\ UNCHANGED <<settings, manager, key>>
  /\ at' = "wizard" /\ typed' = Untyped
  /\ UNCHANGED <<disk, cut, config, store, entries, setups, over>>

\* MUTANT: the key manager that is there is kept, with its key.
OpensKeepsKey ==
  /\ at \in {"open", "main"} /\ config.path # None
  /\ LET p == config.path
     IN /\ settings' = [settings EXCEPT ![p] = Connected(@)]
        /\ config' = [config EXCEPT !.data = Loaded(@, settings'[p])]
        /\ manager' = p
  /\ at' = "login"
  /\ UNCHANGED <<disk, cut, store, entries, typed, key, setups, over>>

\* open_database asks for no file: it opens what the configuration names, with
\* a new KeyManager.
Opens ==
  /\ at \in {"open", "main"} /\ config.path # None
  /\ LET p == config.path
     IN /\ settings' = [settings EXCEPT ![p] = Connected(@)]
        /\ config' = [config EXCEPT !.data = Loaded(@, settings'[p])]
        /\ manager' = p /\ key' = None
  /\ at' = "login"
  /\ UNCHANGED <<disk, cut, store, entries, typed, setups, over>>

OpenFails ==
  /\ at = "open" /\ at' = "main"
  /\ UNCHANGED <<disk, cut, config, store, entries, settings, typed, manager, key, setups, over>>

-------------------------------------------------------------------------------
(* The session. *)

Authentic(pw) ==
  manager # None /\ store[manager].salt # None /\ store[manager].hash = pw

\* The login dialog, and the lock overlay.
Login ==
  /\ at \in {"login", "main"}
  /\ \E pw \in Passwords : Authentic(pw) /\ key' = Derive(manager, pw)
  /\ at' = "main"
  /\ UNCHANGED <<disk, cut, config, store, entries, settings, typed, manager, setups, over>>

\* rotate_master_password asks for a column there is not: what is left of it is
\* the key, which authenticate has put into the cache.
ChangePassword ==
  /\ at = "main"
  /\ \E pw \in Passwords : Authentic(pw) /\ key' = Derive(manager, pw)
  /\ UNCHANGED <<disk, cut, config, store, entries, settings, at, typed, manager, setups, over>>

\* By the menu, the panic key or the timer, whatever dialog is open.
Locks ==
  /\ at \in {"main", "login", "wizard"} /\ key # None
  /\ key' = None
  /\ UNCHANGED <<disk, cut, config, store, entries, settings, at, typed, manager, setups, over>>

AddEntry ==
  /\ at = "main" /\ key # None
  /\ entries' = [entries EXCEPT ![manager] = @ \cup {key}]
  /\ UNCHANGED <<disk, cut, config, store, settings, at, typed, manager, key, setups, over>>

\* The settings dialog, and the first of a preset's commits.
SetTimeout ==
  /\ at = "main" /\ key # None
  /\ settings' = [settings EXCEPT ![manager]["timeout"] = key]
  /\ at' \in {"main", "preset"}
  /\ UNCHANGED <<disk, cut, config, store, entries, typed, manager, key, setups, over>>

\* The rest of apply_preset.
PresetRest ==
  /\ at = "preset"
  /\ settings' = [settings EXCEPT ![manager]["mode"] = key]
  /\ at' = "main"
  /\ UNCHANGED <<disk, cut, config, store, entries, typed, manager, key, setups, over>>

\* The other settings dialog: the adapter gives these to ConfigManager.set.
SaveSecurity ==
  /\ at = "main"
  /\ Save(config)
  /\ UNCHANGED <<config, store, entries, settings, at, typed, manager, key, setups, over>>

\* on_closing, or a crash anywhere: what is committed stays.
Ends ==
  /\ at # "off" /\ at' = "off"
  /\ manager' = None /\ key' = None
  /\ config' = [path |-> None, data |-> Unread]
  /\ typed' = Untyped
  /\ UNCHANGED <<disk, cut, store, entries, settings, setups, over>>

Next ==
  \/ Starts \/ AsksForWizard \/ Cancels \/ SetupPath \/ SetupHash \/ SetupSalt \/ SetupFails
  \/ Opens \/ OpenFails \/ Login \/ ChangePassword \/ Locks
  \/ AddEntry \/ SetTimeout \/ PresetRest \/ SaveSecurity \/ Ends

Spec == Init /\ [][Next]_vars

-------------------------------------------------------------------------------
Encrypted(p) == entries[p] \cup ({settings[p][s] : s \in Settings} \ {None, Plain})

\* The types of the state.
TypeOK ==
  /\ disk \in Paths \cup {None} /\ cut \in BOOLEAN
  /\ config \in [path : Paths \cup {None}, data : [Settings -> {None, Plain, Blob}]]
  /\ store \in [Paths -> [hash : Passwords \cup {None}, salt : Salts \cup {None}]]
  /\ entries \in [Paths -> SUBSET DataKeys]
  /\ settings \in [Paths -> [Settings -> {None, Plain} \cup DataKeys]]
  /\ at \in {"off", "wizard", "path", "hash", "open", "login", "main", "preset"}
  /\ typed \in [path : Paths \cup {None}, password : Passwords \cup {None}]
  /\ manager \in Paths \cup {None}
  /\ key \in DataKeys \cup {None}
  /\ setups \in 0..MaxSetups
  /\ over \subseteq Paths

\* Whatever setups fail or are cut short, vaults are switched, locks come and
\* password changes fail: the password that logs into a file decrypts every
\* entry and every setting that was ever stored in it, unless the wizard was
\* let loose on a finished vault.
VaultReadable ==
  \A p \in Paths \ over : \A k \in Encrypted(p) : k = Current(p)

\* Two things make the program forget a vault it has begun, so that it greets
\* the user as new: an encrypted setting, which config.json cannot hold, and a
\* save of config.json that was cut short or refused, until a path is saved
\* again.  Setups that fail or end between their commits do not, nor do
\* switching, locking, and the end of the program anywhere else.
FirstRunOnly ==
  disk = None =>
    \/ \A p \in Paths : store[p] = [hash |-> None, salt |-> None]
    \/ \E p \in Paths : \E s \in Settings : settings[p][s] \in DataKeys
    \/ cut
===============================================================================
