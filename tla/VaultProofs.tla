------------------------------ MODULE VaultProofs ------------------------------
(***************************************************************************)
(* The password that logs in reads what is stored, and config.json forgets *)
(* a vault for two reasons only: for every set of files, passwords and     *)
(* salts, any number of setups, and saves that are cut short.              *)
(***************************************************************************)
EXTENDS Vault, TLAPS

\* The cached key is the one of the file it writes to.
KeyCurrent ==
  key # None => /\ manager \in Paths /\ store[manager].salt # None
                /\ key = Current(manager)

\* Nothing is encrypted in a file before its salt is there.
SaltFirst == \A p \in Paths : store[p].salt = None => Encrypted(p) = {}

\* The wizard between its commits.
UnderSetup ==
  /\ at \in {"path", "hash"} => /\ typed.path \in Paths /\ typed.password \in Passwords
                                /\ config.path = typed.path
                                /\ disk = Dumped(config) \/ cut
  /\ at = "hash" => /\ manager = typed.path /\ key = None
                    /\ store[manager].hash = typed.password
                    /\ store[manager].salt = None \/ manager \in over
  /\ at = "preset" => key # None

SomeEncrypted == \E p \in Paths : \E s \in Settings : settings[p][s] \in DataKeys
NothingBegun  == \A p \in Paths : store[p] = [hash |-> None, salt |-> None]

\* What ConfigManager holds as bytes it has from a row.
BlobFromRow == (\E s \in Settings : config.data[s] = Blob) => SomeEncrypted

\* Neither the file nor the memory is without a path for another reason.
NoPathFirst ==
  (disk = None \/ (at # "off" /\ config.path = None)) => NothingBegun \/ SomeEncrypted \/ cut

IInv == /\ TypeOK /\ KeyCurrent /\ SaltFirst /\ UnderSetup /\ BlobFromRow /\ NoPathFirst
        /\ VaultReadable

\* config.json holds a path or nothing.
LEMMA SaveTypes ==
  ASSUME disk \in Paths \cup {None}, cut \in BOOLEAN,
         NEW c, c.path \in Paths \cup {None}, Save(c)
  PROVE  disk' \in Paths \cup {None} /\ cut' \in BOOLEAN
BY DEF Save, Dumped

\* Every step keeps the types.
LEMMA TypeStep ==
  ASSUME TypeOK, UnderSetup, [Next]_vars
  PROVE  TypeOK'
<1>1. CASE Starts
  BY <1>1 DEF TypeOK, Unread, Settings, DataKeys, Starts
<1>2. CASE AsksForWizard
  BY <1>2 DEF TypeOK, AsksForWizard
<1>3. CASE Cancels
  BY <1>3 DEF TypeOK, Cancels
<1>4. CASE SetupPath
  <2>1. config' \in [path : Paths \cup {None}, data : [Settings -> {None, Plain, Blob}]]
    BY <1>4 DEF TypeOK, SetupPath
  <2>2. disk' \in Paths \cup {None} /\ cut' \in BOOLEAN
    <3>1. PICK c : c = config'
      OBVIOUS
    <3> QED
      BY <1>4, <2>1, <3>1, SaveTypes DEF TypeOK, SetupPath
  <2>3. typed' \in [path : Paths \cup {None}, password : Passwords \cup {None}]
    BY <1>4 DEF TypeOK, SetupPath
  <2>4. setups' \in 0..MaxSetups
    BY <1>4, VaultAssumption DEF TypeOK, SetupPath
  <2> QED
    BY <1>4, <2>1, <2>2, <2>3, <2>4 DEF TypeOK, SetupPath
<1>5. CASE SetupHash
  BY <1>5 DEF TypeOK, UnderSetup, Connected, Settings, DataKeys, SetupHash
<1>6. CASE SetupSalt
  <2>1. disk' \in Paths \cup {None} /\ cut' \in BOOLEAN
    BY <1>6, SaveTypes DEF TypeOK, SetupSalt
  <2> QED
    BY <1>6, <2>1 DEF TypeOK, UnderSetup, Untyped, Settings, DataKeys, SetupSalt
<1>7. CASE SetupFails
  <2>1. \A p \in Paths : settings[p] \in [Settings -> {None, Plain} \cup DataKeys]
                         /\ Connected(settings[p]) \in [Settings -> {None, Plain} \cup DataKeys]
    BY DEF TypeOK, Connected, Settings
  <2>2. settings' \in [Paths -> [Settings -> {None, Plain} \cup DataKeys]]
    BY <1>7, <2>1 DEF TypeOK, UnderSetup, SetupFails
  <2>3. manager' \in Paths \cup {None} /\ key' \in DataKeys \cup {None}
    BY <1>7 DEF TypeOK, UnderSetup, SetupFails
  <2>4. typed' \in [path : Paths \cup {None}, password : Passwords \cup {None}]
    BY <1>7 DEF Untyped, SetupFails
  <2> QED
    BY <1>7, <2>2, <2>3, <2>4 DEF TypeOK, SetupFails
<1>8. CASE Opens
  BY <1>8 DEF TypeOK, Loaded, Connected, Settings, DataKeys, Opens
<1>9. CASE OpenFails
  BY <1>9 DEF TypeOK, OpenFails
<1>10. CASE Login
  BY <1>10 DEF TypeOK, Derive, Authentic, Settings, DataKeys, Login
<1>11. CASE ChangePassword
  BY <1>11 DEF TypeOK, Derive, Authentic, Settings, DataKeys, ChangePassword
<1>12. CASE Locks
  BY <1>12 DEF TypeOK, Locks
<1>13. CASE AddEntry
  BY <1>13 DEF TypeOK, AddEntry
<1>14. CASE SetTimeout
  BY <1>14 DEF TypeOK, SetTimeout
<1>15. CASE PresetRest
  BY <1>15 DEF TypeOK, PresetRest
<1>16. CASE SaveSecurity
  BY <1>16, SaveTypes DEF TypeOK, SaveSecurity
<1>17. CASE Ends
  BY <1>17 DEF TypeOK, Unread, Untyped, Settings, DataKeys, Ends
<1>18. CASE UNCHANGED vars
  BY <1>18 DEF TypeOK, vars
<1> QED
  BY <1>1, <1>2, <1>3, <1>4, <1>5, <1>6, <1>7, <1>8, <1>9, <1>10, <1>11, <1>12,
     <1>13, <1>14, <1>15, <1>16, <1>17, <1>18
  DEF Next

\* A new manager begins without a key; a key comes from the rows as they are.
LEMMA KeyStep ==
  ASSUME TypeOK, KeyCurrent, UnderSetup, [Next]_vars
  PROVE  KeyCurrent'
<1>1. CASE Starts
  BY <1>1 DEF KeyCurrent, Current, Derive, Starts
<1>2. CASE AsksForWizard
  BY <1>2 DEF KeyCurrent, Current, Derive, AsksForWizard
<1>3. CASE Cancels
  BY <1>3 DEF KeyCurrent, Current, Derive, Cancels
<1>4. CASE SetupPath
  BY <1>4 DEF KeyCurrent, Current, Derive, SetupPath
<1>5. CASE SetupHash
  BY <1>5 DEF KeyCurrent, SetupHash
<1>6. CASE SetupSalt
  BY <1>6, VaultAssumption
  DEF TypeOK, KeyCurrent, UnderSetup, Current, Derive, SetupSalt
<1>7. CASE SetupFails
  BY <1>7 DEF KeyCurrent, Current, Derive, SetupFails
<1>8. CASE Opens
  BY <1>8 DEF KeyCurrent, Opens
<1>9. CASE OpenFails
  BY <1>9 DEF KeyCurrent, Current, Derive, OpenFails
<1>10. CASE Login
  BY <1>10 DEF TypeOK, KeyCurrent, Current, Derive, Authentic, Login
<1>11. CASE ChangePassword
  BY <1>11 DEF TypeOK, KeyCurrent, Current, Derive, Authentic, ChangePassword
<1>12. CASE Locks
  BY <1>12 DEF KeyCurrent, Locks
<1>13. CASE AddEntry
  BY <1>13 DEF KeyCurrent, Current, Derive, AddEntry
<1>14. CASE SetTimeout
  BY <1>14 DEF KeyCurrent, Current, Derive, SetTimeout
<1>15. CASE PresetRest
  BY <1>15 DEF KeyCurrent, Current, Derive, PresetRest
<1>16. CASE SaveSecurity
  BY <1>16 DEF KeyCurrent, Current, Derive, SaveSecurity
<1>17. CASE Ends
  BY <1>17 DEF KeyCurrent, Ends
<1>18. CASE UNCHANGED vars
  BY <1>18 DEF KeyCurrent, Current, Derive, vars
<1> QED
  BY <1>1, <1>2, <1>3, <1>4, <1>5, <1>6, <1>7, <1>8, <1>9, <1>10, <1>11, <1>12,
     <1>13, <1>14, <1>15, <1>16, <1>17, <1>18
  DEF Next

\* Entries and settings are encrypted with a key, and a key has its salt.
LEMMA SaltStep ==
  ASSUME TypeOK, KeyCurrent, SaltFirst, UnderSetup, [Next]_vars
  PROVE  SaltFirst'
<1>1. CASE Starts
  BY <1>1 DEF SaltFirst, Encrypted, Settings, Starts
<1>2. CASE AsksForWizard
  BY <1>2 DEF SaltFirst, Encrypted, Settings, AsksForWizard
<1>3. CASE Cancels
  BY <1>3 DEF SaltFirst, Encrypted, Settings, Cancels
<1>4. CASE SetupPath
  BY <1>4 DEF SaltFirst, Encrypted, Settings, SetupPath
<1>5. CASE SetupHash
  <2>1. ASSUME NEW p \in Paths, store'[p].salt = None  PROVE  Encrypted(p)' = {}
    <3>1. store[p].salt = None /\ Encrypted(p) = {}
      BY <1>5, <2>1 DEF TypeOK, SaltFirst, UnderSetup, SetupHash
    <3>2. entries'[p] = entries[p]
      BY <1>5 DEF SetupHash
    <3>3. settings'[p] \in {settings[p], Connected(settings[p])}
      BY <1>5 DEF TypeOK, UnderSetup, SetupHash
    <3> QED
      BY <3>1, <3>2, <3>3 DEF TypeOK, Encrypted, Connected, Settings
  <2> QED
    BY <2>1 DEF SaltFirst
<1>6. CASE SetupSalt
  BY <1>6, VaultAssumption DEF SaltFirst, Encrypted, Settings, SetupSalt
<1>7. CASE SetupFails
  BY <1>7 DEF TypeOK, SaltFirst, Encrypted, Connected, Settings, SetupFails
<1>8. CASE Opens
  BY <1>8 DEF SaltFirst, Encrypted, Connected, Settings, Opens
<1>9. CASE OpenFails
  BY <1>9 DEF SaltFirst, Encrypted, Settings, OpenFails
<1>10. CASE Login
  BY <1>10 DEF SaltFirst, Encrypted, Settings, Login
<1>11. CASE ChangePassword
  BY <1>11 DEF SaltFirst, Encrypted, Settings, ChangePassword
<1>12. CASE Locks
  BY <1>12 DEF SaltFirst, Encrypted, Settings, Locks
<1>13. CASE AddEntry
  BY <1>13 DEF TypeOK, KeyCurrent, SaltFirst, UnderSetup, Encrypted, Settings, AddEntry
<1>14. CASE SetTimeout
  BY <1>14
  DEF TypeOK, KeyCurrent, SaltFirst, UnderSetup, Encrypted, Settings, SetTimeout
<1>15. CASE PresetRest
  BY <1>15
  DEF TypeOK, KeyCurrent, SaltFirst, UnderSetup, Encrypted, Settings, PresetRest
<1>16. CASE SaveSecurity
  BY <1>16 DEF SaltFirst, Encrypted, Settings, SaveSecurity
<1>17. CASE Ends
  BY <1>17 DEF SaltFirst, Encrypted, Settings, Ends
<1>18. CASE UNCHANGED vars
  BY <1>18 DEF SaltFirst, Encrypted, Settings, vars
<1> QED
  BY <1>1, <1>2, <1>3, <1>4, <1>5, <1>6, <1>7, <1>8, <1>9, <1>10, <1>11, <1>12,
     <1>13, <1>14, <1>15, <1>16, <1>17, <1>18
  DEF Next

\* The wizard's commits follow each other.
LEMMA SetupStep ==
  ASSUME TypeOK, UnderSetup, [Next]_vars
  PROVE  UnderSetup'
<1>1. CASE Starts
  BY <1>1 DEF UnderSetup, Starts
<1>2. CASE AsksForWizard
  BY <1>2 DEF UnderSetup, AsksForWizard
<1>3. CASE Cancels
  BY <1>3 DEF UnderSetup, Cancels
<1>4. CASE SetupPath
  <2>1. disk' = Dumped(config') \/ cut'
    BY <1>4 DEF Save, SetupPath
  <2>2. Dumped(config)' = Dumped(config')
    BY DEF Dumped
  <2>3. /\ typed'.path \in Paths /\ typed'.password \in Passwords
        /\ config'.path = typed'.path /\ at' = "path"
    BY <1>4 DEF TypeOK, SetupPath
  <2> QED
    BY <2>1, <2>2, <2>3 DEF UnderSetup
<1>5. CASE SetupHash
  BY <1>5 DEF TypeOK, UnderSetup, Dumped, Settings, SetupHash
<1>6. CASE SetupSalt
  BY <1>6 DEF UnderSetup, SetupSalt
<1>7. CASE SetupFails
  BY <1>7 DEF UnderSetup, SetupFails
<1>8. CASE Opens
  BY <1>8 DEF UnderSetup, Opens
<1>9. CASE OpenFails
  BY <1>9 DEF UnderSetup, OpenFails
<1>10. CASE Login
  BY <1>10 DEF UnderSetup, Login
<1>11. CASE ChangePassword
  BY <1>11 DEF UnderSetup, ChangePassword
<1>12. CASE Locks
  BY <1>12 DEF UnderSetup, Locks
<1>13. CASE AddEntry
  BY <1>13 DEF UnderSetup, AddEntry
<1>14. CASE SetTimeout
  BY <1>14 DEF UnderSetup, SetTimeout
<1>15. CASE PresetRest
  BY <1>15 DEF UnderSetup, PresetRest
<1>16. CASE SaveSecurity
  BY <1>16 DEF UnderSetup, SaveSecurity
<1>17. CASE Ends
  BY <1>17 DEF UnderSetup, Ends
<1>18. CASE UNCHANGED vars
  BY <1>18 DEF UnderSetup, vars
<1> QED
  BY <1>1, <1>2, <1>3, <1>4, <1>5, <1>6, <1>7, <1>8, <1>9, <1>10, <1>11, <1>12,
     <1>13, <1>14, <1>15, <1>16, <1>17, <1>18
  DEF Next

\* load_from_db reads rows that stay encrypted.
LEMMA BlobStep ==
  ASSUME TypeOK, KeyCurrent, UnderSetup, BlobFromRow, [Next]_vars
  PROVE  BlobFromRow'
<1>1. CASE Starts
  BY <1>1, VaultAssumption
  DEF BlobFromRow, SomeEncrypted, Unread, Settings, DataKeys, Starts
<1>2. CASE AsksForWizard
  BY <1>2 DEF BlobFromRow, SomeEncrypted, Settings, DataKeys, AsksForWizard
<1>3. CASE Cancels
  BY <1>3 DEF BlobFromRow, SomeEncrypted, Settings, DataKeys, Cancels
<1>4. CASE SetupPath
  BY <1>4 DEF BlobFromRow, SomeEncrypted, Settings, DataKeys, SetupPath
<1>5. CASE SetupHash
  BY <1>5, VaultAssumption
  DEF BlobFromRow, SomeEncrypted, Connected, Settings, DataKeys, SetupHash
<1>6. CASE SetupSalt
  BY <1>6 DEF BlobFromRow, SomeEncrypted, Settings, DataKeys, SetupSalt
<1>7. CASE SetupFails
  <2>1. \A p \in Paths : settings'[p] \in {settings[p], Connected(settings[p])}
    BY <1>7 DEF TypeOK, UnderSetup, SetupFails
  <2>2. SomeEncrypted => SomeEncrypted'
    BY <2>1, VaultAssumption DEF TypeOK, SomeEncrypted, Connected, Settings
  <2> QED
    BY <1>7, <2>2 DEF BlobFromRow, SetupFails
<1>8. CASE Opens
  BY <1>8, VaultAssumption
  DEF TypeOK, BlobFromRow, SomeEncrypted, Loaded, Connected, Settings, DataKeys, Opens
<1>9. CASE OpenFails
  BY <1>9 DEF BlobFromRow, SomeEncrypted, Settings, DataKeys, OpenFails
<1>10. CASE Login
  BY <1>10 DEF BlobFromRow, SomeEncrypted, Settings, DataKeys, Login
<1>11. CASE ChangePassword
  BY <1>11 DEF BlobFromRow, SomeEncrypted, Settings, DataKeys, ChangePassword
<1>12. CASE Locks
  BY <1>12 DEF BlobFromRow, SomeEncrypted, Settings, DataKeys, Locks
<1>13. CASE AddEntry
  BY <1>13 DEF BlobFromRow, SomeEncrypted, Settings, DataKeys, AddEntry
<1>14. CASE SetTimeout
  BY <1>14 DEF TypeOK, BlobFromRow, SomeEncrypted, Settings, DataKeys, SetTimeout
<1>15. CASE PresetRest
  BY <1>15
  DEF TypeOK, UnderSetup, BlobFromRow, SomeEncrypted, Settings, DataKeys, PresetRest
<1>16. CASE SaveSecurity
  BY <1>16 DEF BlobFromRow, SomeEncrypted, Settings, DataKeys, SaveSecurity
<1>17. CASE Ends
  BY <1>17, VaultAssumption
  DEF BlobFromRow, SomeEncrypted, Unread, Settings, DataKeys, Ends
<1>18. CASE UNCHANGED vars
  BY <1>18 DEF BlobFromRow, SomeEncrypted, Settings, DataKeys, vars
<1> QED
  BY <1>1, <1>2, <1>3, <1>4, <1>5, <1>6, <1>7, <1>8, <1>9, <1>10, <1>11, <1>12,
     <1>13, <1>14, <1>15, <1>16, <1>17, <1>18
  DEF Next

\* A path is given up by a save that fails or is cut short, and by nothing else.
LEMMA PathStep ==
  ASSUME TypeOK, UnderSetup, BlobFromRow, NoPathFirst, [Next]_vars
  PROVE  NoPathFirst'
<1>1. CASE Starts
  BY <1>1
  DEF NoPathFirst, NothingBegun, SomeEncrypted, Unread, Settings, DataKeys, Starts
<1>2. CASE AsksForWizard
  BY <1>2
  DEF NoPathFirst, NothingBegun, SomeEncrypted, Settings, DataKeys, AsksForWizard
<1>3. CASE Cancels
  BY <1>3 DEF NoPathFirst, NothingBegun, SomeEncrypted, Settings, DataKeys, Cancels
<1>4. CASE SetupPath
  BY <1>4, VaultAssumption
  DEF TypeOK, UnderSetup, BlobFromRow, NoPathFirst, NothingBegun, SomeEncrypted,
      Save, Dumped, Settings, DataKeys, SetupPath
<1>5. CASE SetupHash
  BY <1>5, VaultAssumption
  DEF TypeOK, UnderSetup, BlobFromRow, NoPathFirst, NothingBegun, SomeEncrypted,
      Save, Dumped, Connected, Unread, Settings, DataKeys, SetupHash
<1>6. CASE SetupSalt
  BY <1>6, VaultAssumption
  DEF TypeOK, UnderSetup, NoPathFirst, NothingBegun, SomeEncrypted, Save, Dumped, Settings,
      DataKeys, SetupSalt
<1>7. CASE SetupFails
  <2>1. /\ NothingBegun' = NothingBegun /\ UNCHANGED <<disk, cut, config>>
        /\ at # "off"
    BY <1>7 DEF SetupFails, NothingBegun
  <2>2. \A p \in Paths : settings'[p] \in {settings[p], Connected(settings[p])}
    BY <1>7 DEF TypeOK, UnderSetup, SetupFails
  <2>3. SomeEncrypted => SomeEncrypted'
    BY <2>2, VaultAssumption DEF TypeOK, SomeEncrypted, Connected, Settings
  <2> QED
    BY <2>1, <2>3 DEF NoPathFirst
<1>8. CASE Opens
  BY <1>8, VaultAssumption
  DEF NoPathFirst, NothingBegun, SomeEncrypted, Connected, Settings, DataKeys, Opens
<1>9. CASE OpenFails
  BY <1>9 DEF NoPathFirst, NothingBegun, SomeEncrypted, Settings, DataKeys, OpenFails
<1>10. CASE Login
  BY <1>10 DEF NoPathFirst, NothingBegun, SomeEncrypted, Settings, DataKeys, Login
<1>11. CASE ChangePassword
  BY <1>11
  DEF NoPathFirst, NothingBegun, SomeEncrypted, Settings, DataKeys, ChangePassword
<1>12. CASE Locks
  BY <1>12 DEF NoPathFirst, NothingBegun, SomeEncrypted, Settings, DataKeys, Locks
<1>13. CASE AddEntry
  BY <1>13 DEF NoPathFirst, NothingBegun, SomeEncrypted, Settings, DataKeys, AddEntry
<1>14. CASE SetTimeout
  BY <1>14
  DEF TypeOK, NoPathFirst, NothingBegun, SomeEncrypted, Settings, DataKeys, SetTimeout
<1>15. CASE PresetRest
  BY <1>15
  DEF TypeOK, UnderSetup, NoPathFirst, NothingBegun, SomeEncrypted, Settings,
      DataKeys, PresetRest
<1>16. CASE SaveSecurity
  BY <1>16
  DEF TypeOK, UnderSetup, BlobFromRow, NoPathFirst, NothingBegun, SomeEncrypted,
      Save, Dumped, Settings, DataKeys, SaveSecurity
<1>17. CASE Ends
  BY <1>17
  DEF NoPathFirst, NothingBegun, SomeEncrypted, Unread, Settings, DataKeys, Ends
<1>18. CASE UNCHANGED vars
  BY <1>18 DEF NoPathFirst, NothingBegun, SomeEncrypted, Settings, DataKeys, vars
<1> QED
  BY <1>1, <1>2, <1>3, <1>4, <1>5, <1>6, <1>7, <1>8, <1>9, <1>10, <1>11, <1>12,
     <1>13, <1>14, <1>15, <1>16, <1>17, <1>18
  DEF Next

\* A default row is not a written one.
LEMMA DefaultKept ==
  ASSUME TypeOK, VaultReadable, UNCHANGED <<entries, store, over>>,
         \A p \in Paths : settings'[p] \in {settings[p], Connected(settings[p])}
  PROVE  VaultReadable'
<1> SUFFICES ASSUME NEW p \in Paths \ over, NEW k \in Encrypted(p)'
             PROVE  k = Current(p)'
  BY DEF VaultReadable
<1>1. \A s \in Settings :
        settings'[p][s] = settings[p][s] \/ settings'[p][s] = Plain
  BY DEF TypeOK, Connected, Settings
<1>2. k \in Encrypted(p)
  BY <1>1 DEF Encrypted
<1>3. k = Current(p)
  BY <1>2 DEF VaultReadable
<1> QED
  BY <1>3 DEF Current, Derive

\* What is written is written with the current key; the rest is before the salt
\* or excused.
LEMMA ReadableStep ==
  ASSUME TypeOK, KeyCurrent, SaltFirst, UnderSetup, VaultReadable, [Next]_vars
  PROVE  VaultReadable'
<1>1. CASE Starts
  BY <1>1 DEF VaultReadable, Encrypted, Current, Derive, Settings, Starts
<1>2. CASE AsksForWizard
  BY <1>2 DEF VaultReadable, Encrypted, Current, Derive, Settings, AsksForWizard
<1>3. CASE Cancels
  BY <1>3 DEF VaultReadable, Encrypted, Current, Derive, Settings, Cancels
<1>4. CASE SetupPath
  BY <1>4 DEF VaultReadable, Encrypted, Current, Derive, Settings, SetupPath
<1>5. CASE SetupHash
  BY <1>5, VaultAssumption
  DEF TypeOK, KeyCurrent, SaltFirst, UnderSetup, VaultReadable, Encrypted, Current,
      Derive, Connected, Settings, DataKeys, SetupHash
<1>6. CASE SetupSalt
  BY <1>6
  DEF TypeOK, KeyCurrent, SaltFirst, UnderSetup, VaultReadable, Encrypted, Current,
      Derive, Settings, SetupSalt
<1>7. CASE SetupFails
  <2>1. \A p \in Paths : settings'[p] \in {settings[p], Connected(settings[p])}
    BY <1>7 DEF TypeOK, SetupFails
  <2> QED
    BY <1>7, <2>1, DefaultKept DEF SetupFails
<1>8. CASE Opens
  <2>1. \A p \in Paths : settings'[p] \in {settings[p], Connected(settings[p])}
    BY <1>8 DEF TypeOK, Opens
  <2> QED
    BY <1>8, <2>1, DefaultKept DEF Opens
<1>9. CASE OpenFails
  BY <1>9 DEF VaultReadable, Encrypted, Current, Derive, Settings, OpenFails
<1>10. CASE Login
  BY <1>10 DEF VaultReadable, Encrypted, Current, Derive, Settings, Login
<1>11. CASE ChangePassword
  BY <1>11 DEF VaultReadable, Encrypted, Current, Derive, Settings, ChangePassword
<1>12. CASE Locks
  BY <1>12 DEF VaultReadable, Encrypted, Current, Derive, Settings, Locks
<1>13. CASE AddEntry
  BY <1>13
  DEF TypeOK, KeyCurrent, SaltFirst, UnderSetup, VaultReadable, Encrypted, Current,
      Derive, Settings, AddEntry
<1>14. CASE SetTimeout
  BY <1>14
  DEF TypeOK, KeyCurrent, SaltFirst, UnderSetup, VaultReadable, Encrypted, Current,
      Derive, Settings, SetTimeout
<1>15. CASE PresetRest
  BY <1>15
  DEF TypeOK, KeyCurrent, SaltFirst, UnderSetup, VaultReadable, Encrypted, Current,
      Derive, Settings, PresetRest
<1>16. CASE SaveSecurity
  BY <1>16 DEF VaultReadable, Encrypted, Current, Derive, Settings, SaveSecurity
<1>17. CASE Ends
  BY <1>17 DEF VaultReadable, Encrypted, Current, Derive, Settings, Ends
<1>18. CASE UNCHANGED vars
  BY <1>18 DEF VaultReadable, Encrypted, Current, Derive, Settings, vars
<1> QED
  BY <1>1, <1>2, <1>3, <1>4, <1>5, <1>6, <1>7, <1>8, <1>9, <1>10, <1>11, <1>12,
     <1>13, <1>14, <1>15, <1>16, <1>17, <1>18
  DEF Next

\* The strengthening holds at the start and after every step.
LEMMA Inductive == Spec => []IInv
<1>1. Init => IInv
  <2>1. Init => TypeOK
    <3>1. Init => cut \in BOOLEAN
      BY DEF Init
    <3>2. 0 \in 0..MaxSetups
      BY VaultAssumption
    <3> SUFFICES ASSUME Init PROVE TypeOK
      OBVIOUS
    <3>3. disk = None /\ at = "off" /\ manager = None /\ key = None /\ setups = 0 /\ over = {}
      BY DEF Init
    <3>4. store \in [Paths -> [hash : Passwords \cup {None}, salt : Salts \cup {None}]]
      BY DEF Init
    <3>5. /\ entries \in [Paths -> SUBSET DataKeys]
          /\ settings \in [Paths -> [Settings -> {None, Plain} \cup DataKeys]]
      BY DEF Init, Unread
    <3>6. /\ config \in [path : Paths \cup {None}, data : [Settings -> {None, Plain, Blob}]]
          /\ typed \in [path : Paths \cup {None}, password : Passwords \cup {None}]
      BY DEF Init, Unread, Untyped
    <3> QED
      BY <3>1, <3>2, <3>3, <3>4, <3>5, <3>6 DEF TypeOK
  <2>2. Init => KeyCurrent /\ UnderSetup
    BY DEF Init, KeyCurrent, UnderSetup
  <2>3. Init => SaltFirst /\ VaultReadable
    BY DEF Init, SaltFirst, VaultReadable, Encrypted, Unread
  <2>4. Init => BlobFromRow
    BY VaultAssumption DEF Init, BlobFromRow, Unread
  <2>5. Init => NoPathFirst
    BY DEF Init, NoPathFirst, NothingBegun
  <2> QED
    BY <2>1, <2>2, <2>3, <2>4, <2>5 DEF IInv
<1>2. IInv /\ [Next]_vars => IInv'
  BY TypeStep, KeyStep, SaltStep, SetupStep, BlobStep, PathStep, ReadableStep DEF IInv
<1> QED
  BY <1>1, <1>2, PTL DEF Spec

\* The state has the types TypeOK gives it.
THEOREM Types == Spec => []TypeOK
<1>1. IInv => TypeOK
  BY DEF IInv
<1> QED
  BY <1>1, Inductive, PTL

\* The password that logs into a file reads all that was ever stored in it, but
\* for a finished vault the wizard was let loose on.
THEOREM Readable == Spec => []VaultReadable
<1>1. IInv => VaultReadable
  BY DEF IInv
<1> QED
  BY <1>1, Inductive, PTL

\* config.json is without a path before the first setup, or because of an
\* encrypted setting, or from a save that was cut short to the next of a path.
THEOREM FirstRun == Spec => []FirstRunOnly
<1>1. IInv => FirstRunOnly
  BY DEF IInv, NoPathFirst, NothingBegun, SomeEncrypted, FirstRunOnly
<1> QED
  BY <1>1, Inductive, PTL
===============================================================================
