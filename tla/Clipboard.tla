------------------------------- MODULE Clipboard -------------------------------
(***************************************************************************)
(* ClipboardService with its auto-clear timer, the ClipboardMonitor thread *)
(* beside it, the operating system's clipboard and the in-process bus.     *)
(*                                                                         *)
(* Whatever a service does under its RLock is one step.  Outside it are    *)
(* the checks of copy_to_clipboard, the monitor's reads, and a timer that  *)
(* fired: its thread waits for the RLock, and cancel() does not stop it.   *)
(*                                                                         *)
(* MainWindow.open_database makes another service and another monitor and  *)
(* leaves the old ones running: they share the clipboard and the bus.      *)
(***************************************************************************)
EXTENDS Naturals, FiniteSets

CONSTANTS
  Secrets,      \* what the user may copy
  MaxServices,  \* bound: services made in one run of the program
  MaxFired,     \* bound: threads of fired timers waiting for one RLock
  Watched,      \* bound: the services whose monitor is followed
  AdapterFails  \* the platform's clipboard may refuse a call

ASSUME ClipboardAssumption ==
  /\ {"empty", "foreign", "unset"} \cap Secrets = {}
  /\ {"idle", "logout", "closing", "closed"} \cap Secrets = {}
  /\ MaxServices \in Nat \ {0}
  /\ MaxFired \in Nat \ {0}
  /\ Watched \subseteq 1..MaxServices
  /\ AdapterFails \in BOOLEAN

Services == 1..MaxServices

VARIABLES
  made,      \* services made so far; the last one is MainWindow's own
  keyed,     \* services whose vault has its session open and its key cached
  settings,  \* of each vault: clipboard_timeout_seconds is not "never"
             \* (auto), and the preset is "public_computer" (public), which
             \* turns on the ephemeral and the paranoid mode
  blocked,   \* ClipboardService.copy_blocked
  item,      \* ClipboardService._current_item
  timer,     \* a timer of the service is running
  due,       \* threads of timers that fired for the current item
  late,      \* the same for items that are gone: they were not stopped
  mon,       \* ClipboardMonitor: where it is, _last_content, what it has read
  os,        \* the operating system's clipboard
  bus,       \* EphemeralClipboardBus, one for the process
  asked,     \* the dialog that offers to block copying is posted
  tk         \* what the Tk main loop is doing

timers == <<timer, due, late>>
vars == <<made, keyed, settings, blocked, item, timers, mon, os, bus, asked, tk>>

NoItem   == [data |-> "empty", auto |-> FALSE, eph |-> FALSE]
Items    == [data : Secrets, auto : BOOLEAN, eph : BOOLEAN]
Contents == Secrets \cup {"empty", "foreign"}
Idle     == [pc |-> "idle", last |-> "unset", seen |-> "unset"]
Doing    == {"idle", "logout", "closing", "closed"} \cup Secrets

TypeOK ==
  /\ made \in Services
  /\ keyed \subseteq Services
  /\ settings \in [Services -> [auto : BOOLEAN, public : BOOLEAN]]
  /\ blocked \in [Services -> BOOLEAN]
  /\ item \in [Services -> Items \cup {NoItem}]
  /\ timer \in [Services -> BOOLEAN]
  /\ due \in [Services -> 0..MaxFired]
  /\ late \in [Services -> 0..MaxFired]
  /\ mon \in [Services -> [pc : {"idle", "read", "alarm", "report"},
                           last : Contents \cup {"unset"},
                           seen : Contents \cup {"unset"}]]
  /\ os \in Contents
  /\ bus \in Secrets \cup {"empty"}
  /\ asked \in BOOLEAN
  /\ tk \in Doing

\* The first service is made by the first open_database; login follows.  The
\* settings are whatever each vault has stored.
Init ==
  /\ made = 1 /\ keyed = {}
  /\ settings \in [Services -> [auto : BOOLEAN, public : BOOLEAN]]
  /\ blocked \in [Services -> BOOLEAN]
  /\ item = [s \in Services |-> NoItem]
  /\ timer = [s \in Services |-> FALSE]
  /\ due = [s \in Services |-> 0] /\ late = [s \in Services |-> 0]
  /\ mon = [s \in Services |-> Idle]
  /\ os = "empty" /\ bus = "empty"
  /\ asked = FALSE
  /\ tk = "idle"

TkIdle == tk = "idle"
Active(s) == item[s] # NoItem
\* Settings are encrypted with the vault's key: without it a setting reads as
\* its default, and both modes are off.
PublicMode(s) == s \in keyed /\ settings[s].public
AutoClears(s) == s \in keyed => settings[s].auto

-----------------------------------------------------------------------------
(* ClipboardService._clear_locked.                                         *)

\* adapter.clear_clipboard() returns False when the platform refuses.
AfterAdapterClear == {"empty"} \cup (IF AdapterFails THEN {os} ELSE {})

\* MUTANT: with nothing copied in ephemeral mode, an item is not looked at.
ClearedOsByMode(s) == IF PublicMode(s) THEN {os} ELSE AfterAdapterClear

\* The clipboard afterwards: an ephemeral item was never there.
ClearedOs(s) ==
  IF (IF Active(s) THEN item[s].eph ELSE PublicMode(s))
  THEN {os} ELSE AfterAdapterClear

\* MUTANT: the bus is emptied only when there is no item.
ClearedBusNoItem(s) == IF Active(s) THEN bus ELSE "empty"
ClearedBus(s) == IF Active(s) /\ ~item[s].eph THEN bus ELSE "empty"

\* MUTANT: the timer is forgotten without a cancel().
CancelForgets(s, waiting) ==
  /\ timer' = [timer EXCEPT ![s] = FALSE]
  /\ due' = [due EXCEPT ![s] = 0]
  /\ late' = [late EXCEPT ![s] = waiting + (IF timer[s] THEN 1 ELSE 0)]

\* _cancel_timers: threads already past their wait stay.
Cancel(s, waiting) ==
  /\ timer' = [timer EXCEPT ![s] = FALSE]
  /\ due' = [due EXCEPT ![s] = 0]
  /\ late' = [late EXCEPT ![s] = waiting]

\* The item is dropped whether or not the adapter cleared the clipboard.
ClearLocked(s, waiting) ==
  /\ Cancel(s, waiting)
  /\ os' \in ClearedOs(s)
  /\ bus' = ClearedBus(s)
  /\ item' = [item EXCEPT ![s] = NoItem]

Waiting(s) == due[s] + late[s]

-----------------------------------------------------------------------------
(* The timer, and clear_clipboard on other threads.                        *)

\* threading.Timer: its wait is over.
Fire(s) ==
  /\ timer[s] /\ Waiting(s) < MaxFired
  /\ timer' = [timer EXCEPT ![s] = FALSE]
  /\ due' = [due EXCEPT ![s] = @ + 1]
  /\ UNCHANGED <<made, keyed, settings, blocked, item, late, mon, os, bus, asked, tk>>

\* clear_clipboard("timeout") or ("accelerated").
TimeoutClear(s) ==
  /\ due[s] > 0
  /\ ClearLocked(s, Waiting(s) - 1)
  /\ UNCHANGED <<made, keyed, settings, blocked, mon, asked, tk>>

\* The same from a timer of an item that has been replaced or cleared.
LateClear(s) ==
  /\ late[s] > 0
  /\ ClearLocked(s, Waiting(s) - 1)
  /\ UNCHANGED <<made, keyed, settings, blocked, mon, asked, tk>>

\* clear_clipboard from the tray, from PanicMode, from AutoLockService.
ClearClipboard(s) ==
  /\ s <= made
  /\ ClearLocked(s, Waiting(s))
  /\ UNCHANGED <<made, keyed, settings, blocked, mon, asked, tk>>

-----------------------------------------------------------------------------
(* ClipboardMonitor._loop.                                                 *)

Poll(s) ==
  /\ s \in Watched /\ s <= made /\ mon[s].pc = "idle"
  /\ tk = "closing" => s # made
  /\ mon' = [mon EXCEPT ![s] = IF Active(s) /\ ~item[s].eph
                               THEN [@ EXCEPT !.pc = "read"] ELSE Idle]
  /\ UNCHANGED <<made, keyed, settings, blocked, item, timers, os, bus, asked, tk>>

\* adapter.get_clipboard_content(): None when the platform refuses and, on
\* Windows, when there is nothing to read.
Read(s) ==
  /\ mon[s].pc = "read"
  /\ \E content \in {os} \cup (IF AdapterFails \/ os = "empty" THEN {"unset"} ELSE {}) :
       mon' = [mon EXCEPT ![s] =
         IF @.last # "unset" /\ content # @.last
         THEN [pc |-> "alarm", last |-> @.last, seen |-> content]
         ELSE [Idle EXCEPT !.last = content]]
  /\ UNCHANGED <<made, keyed, settings, blocked, item, timers, os, bus, asked, tk>>

\* MUTANT: the timers are cancelled and the new one is not started.
AccelerateUnarmed(s) ==
  /\ mon[s].pc = "alarm"
  /\ mon' = [mon EXCEPT ![s].pc = "report"]
  /\ timer' = [timer EXCEPT ![s] = FALSE]
  /\ UNCHANGED <<made, keyed, settings, blocked, item, due, late, os, bus, asked, tk>>

\* accelerate_clear(1): the timer starts anew, also for a "never" item.
Accelerate(s) ==
  /\ mon[s].pc = "alarm"
  /\ mon' = [mon EXCEPT ![s].pc = "report"]
  /\ timer' = [timer EXCEPT ![s] = Active(s)]
  /\ UNCHANGED <<made, keyed, settings, blocked, item, due, late, os, bus, asked, tk>>

\* report_suspicious_activity: the dialog is posted, the paranoid mode blocks.
Report(s) ==
  /\ mon[s].pc = "report"
  /\ mon' = [mon EXCEPT ![s] = [Idle EXCEPT !.last = mon[s].seen]]
  /\ asked' = TRUE
  /\ blocked' = [blocked EXCEPT ![s] = @ \/ PublicMode(s)]
  /\ UNCHANGED <<made, keyed, settings, item, timers, os, bus, tk>>

\* Another program copies something.
ForeignCopy ==
  /\ os' = "foreign"
  /\ UNCHANGED <<made, keyed, settings, blocked, item, timers, mon, bus, asked, tk>>

-----------------------------------------------------------------------------
(* MainWindow, on the Tk main loop.                                        *)

\* copy_to_clipboard up to the RLock: nothing checked here is checked again.
Copy(d) ==
  /\ TkIdle
  /\ made \in keyed /\ ~blocked[made]
  /\ tk' = d
  /\ UNCHANGED <<made, keyed, settings, blocked, item, timers, mon, os, bus, asked>>

\* Under the RLock: the old item is cleared and the new one set.
NewItem(s) == [data |-> tk, auto |-> AutoClears(s), eph |-> PublicMode(s)]

Copied(s) ==
  /\ item' = [item EXCEPT ![s] = NewItem(s)]
  /\ timer' = [timer EXCEPT ![s] = AutoClears(s)]
  /\ due' = [due EXCEPT ![s] = 0]
  /\ late' = [late EXCEPT ![s] = Waiting(s)]
  /\ IF PublicMode(s) THEN os' \in ClearedOs(s) /\ bus' = tk
                      ELSE os' = tk /\ bus' = ClearedBus(s)

\* The adapter refuses: there is no item and no timer.
CopyRefused(s) ==
  /\ AdapterFails /\ ~PublicMode(s)
  /\ ClearLocked(s, Waiting(s))

CopyLocked ==
  /\ tk \in Secrets
  /\ tk' = "idle"
  /\ Copied(made) \/ CopyRefused(made)
  /\ UNCHANGED <<made, keyed, settings, blocked, mon, asked>>

\* do_login or do_unlock.
Login ==
  /\ TkIdle /\ made \notin keyed
  /\ keyed' = keyed \cup {made}
  /\ UNCHANGED <<made, settings, blocked, item, timers, mon, os, bus, asked, tk>>

\* AuthenticationService.logout, from _apply_lock_ui or _apply_panic_ui.
Logout ==
  /\ TkIdle
  /\ keyed' = keyed \ {made}
  /\ tk' = "logout"
  /\ UNCHANGED <<made, settings, blocked, item, timers, mon, os, bus, asked>>

\* MUTANT: locking leaves the clipboard to its timer.
OnVaultLockSkipped ==
  /\ tk = "logout"
  /\ tk' = "idle"
  /\ UNCHANGED <<made, keyed, settings, blocked, item, timers, mon, os, bus, asked>>

\* on_vault_lock.
OnVaultLock ==
  /\ tk = "logout"
  /\ ClearLocked(made, Waiting(made))
  /\ tk' = "idle"
  /\ UNCHANGED <<made, keyed, settings, blocked, mon, asked>>

\* on_closing: the monitor is stopped and shutdown() clears; then logout()
\* drops the key, and what hears its event clears nothing more.
Closing ==
  /\ TkIdle
  /\ ClearLocked(made, Waiting(made))
  /\ tk' = "closing"
  /\ UNCHANGED <<made, keyed, settings, blocked, mon, asked>>

Closed ==
  /\ tk = "closing"
  /\ keyed' = keyed \ {made}
  /\ tk' = "closed"
  /\ UNCHANGED <<made, settings, blocked, item, timers, mon, os, bus, asked>>

\* open_database while a vault is open or locked: nobody logs out.
OpenDatabase ==
  /\ TkIdle /\ made < MaxServices
  /\ made' = made + 1
  /\ UNCHANGED <<keyed, settings, blocked, item, timers, mon, os, bus, asked, tk>>

\* The clipboard settings dialog: a preset, or a timeout and the block.
ApplyPreset ==
  /\ TkIdle /\ made \in keyed
  /\ \E public \in BOOLEAN :
       settings' = [settings EXCEPT ![made] = [auto |-> TRUE, public |-> public]]
  /\ UNCHANGED <<made, keyed, blocked, item, timers, mon, os, bus, asked, tk>>

SaveCustom ==
  /\ TkIdle /\ made \in keyed
  /\ \E auto, block \in BOOLEAN :
       /\ settings' = [settings EXCEPT ![made].auto = auto]
       /\ blocked' = [blocked EXCEPT ![made] = block]
  /\ UNCHANGED <<made, keyed, item, timers, mon, os, bus, asked, tk>>

\* The dialog of _on_suspicious_clipboard is answered.
Answer ==
  /\ TkIdle /\ asked
  /\ asked' = FALSE
  /\ \E block \in BOOLEAN : blocked' = [blocked EXCEPT ![made] = @ \/ block]
  /\ UNCHANGED <<made, keyed, settings, item, timers, mon, os, bus, tk>>

Running == tk # "closed"

Next ==
  /\ Running
  /\ \/ \E s \in Services :
          \/ Fire(s) \/ TimeoutClear(s) \/ LateClear(s) \/ ClearClipboard(s)
          \/ Poll(s) \/ Read(s) \/ Accelerate(s) \/ Report(s)
     \/ \E d \in Secrets : Copy(d)
     \/ CopyLocked \/ Login \/ Logout \/ OnVaultLock \/ Closing \/ Closed
     \/ OpenDatabase \/ ApplyPreset \/ SaveCustom \/ Answer
     \/ ForeignCopy

Spec == Init /\ [][Next]_vars

\* A running timer's wait ends and its thread gets the RLock in the end.  The
\* monitor may start the wait anew, but while one secret stays in the
\* clipboard it does so at most once.
FairSpec ==
  /\ Spec
  /\ \A s \in Services :
       /\ WF_vars(Running /\ Fire(s))
       /\ WF_vars(Running /\ TimeoutClear(s))
       /\ WF_vars(Running /\ LateClear(s))
  /\ WF_vars(Running /\ CopyLocked)

-----------------------------------------------------------------------------
(* Properties.                                                             *)

\* A secret in the system clipboard is never one the services forgot: some
\* service holds the item that will have it cleared.
ClipboardTracked ==
  os \in Secrets => \E s \in Services : item[s].data = os /\ ~item[s].eph

\* The same of the in-process bus, even when the adapter fails.
BusTracked == bus \in Secrets => \E s \in Services : item[s].data = bus /\ item[s].eph

\* An item with a timeout has a running timer, or one that fired for it and
\* whose thread is waiting, whatever the monitor does to the timer.
TimerCovers ==
  \A s \in Services : item[s].auto => timer[s] \/ due[s] > 0

\* Locking, closing and leaving a vault leave no secret of it behind
\* (README.md:39).
LockLeavesNothing ==
  made \notin keyed /\ tk \in {"idle", "closed"} => {os, bus} \cap Secrets = {}

\* A secret that was copied with a timeout does not stay in the clipboard,
\* however the monitor moves the timer, unless the user copies again.
ClearedInTime ==
  \A d \in Secrets :
    (os = d /\ \E s \in Services : item[s].auto /\ item[s].data = d)
      ~> (os # d \/ tk \in Secrets)
===============================================================================
