------------------------------ MODULE VaultLock ------------------------------
(***************************************************************************)
(* Locking and unlocking of an open vault, after the login dialog has      *)
(* started the security services (MainWindow._init_security).              *)
(*                                                                         *)
(* The threads that meet here:                                             *)
(*   "tk"    the Tk main loop: every GUI handler and every callback posted *)
(*           with root.after runs here, one at a time;                     *)
(*   "act"   the ActivityMonitor thread, which re-arms the lock timer;     *)
(*   "hot"   the thread the `keyboard` library calls the panic hotkey on;  *)
(*   "clr"   the auto-clear timer of the clipboard service;                *)
(*   Lockers the threads of timers that fired: a threading.Timer runs      *)
(*           lock("auto_lock") on a thread of its own.                     *)
(*                                                                         *)
(* AutoLockService and PanicMode hold no lock: a thread may be preempted   *)
(* between any two of their statements.  An assignment is one step.  So is *)
(* a condition with the first call it guards, unless SwitchAnywhere: then  *)
(* _lock_timer is read once for the test and again for the call.  A thread *)
(* other than "tk" that calls into Tk (root.after, StringVar.set) waits    *)
(* until the main loop is idle.                                            *)
(***************************************************************************)
EXTENDS Naturals, Sequences

CONSTANTS
  Lockers,          \* bound: timer threads inside lock() at one time
  MaxStray,         \* bound: running timers nobody refers to, as remembered
  NoThread,         \* nobody holds the clipboard service's RLock
  AutoLockEnabled,  \* the 'auto_lock' feature of the security profile
  PanicKeys,        \* where the panic key is heard: "tk" by the window,
                    \* "hot" by the optional `keyboard` package
  Tray,             \* the tray icon, with its lock command, is available
  AutoClears,       \* the clipboard timeout is not set to "never"
  SwitchAnywhere    \* the interpreter switches threads between any two
                    \* bytecodes (CPython 3.8, 3.9), not only at calls

ASSUME ConstAssumption ==
  /\ {"tk", "act", "hot", "clr"} \cap Lockers = {}
  /\ NoThread \notin Lockers \cup {"tk", "act", "hot", "clr"}
  /\ MaxStray \in Nat
  /\ AutoLockEnabled \in BOOLEAN
  /\ PanicKeys \subseteq {"tk", "hot"}
  /\ Tray \in BOOLEAN
  /\ AutoClears \in BOOLEAN
  /\ SwitchAnywhere \in BOOLEAN

Threads == Lockers \cup {"tk", "act", "hot", "clr"}

VARIABLES
  loggedIn,   \* auth_service.session.logged_in, MainWindow.master_password
  keyCached,  \* KeyCache holds the encryption key
  locked,     \* AutoLockService._locked
  handle,     \* AutoLockService._lock_timer: the timer it refers to
  stray,      \* how many started timers nothing refers to any more
  panic,      \* PanicMode._state
  overlay,    \* MainWindow._lock_overlay and the life of its window
  menu,       \* import/export menu items enabled
  input,      \* the user did something the activity monitor has yet to see
  clip,       \* the clipboard service holds a copied secret
  owner,      \* thread inside the clipboard service's RLock
  queue,      \* callbacks posted with root.after(0, ...), oldest first
  unlocking,  \* "tk" re-arms the timer on behalf of AutoLockService.unlock
  pc          \* where each thread is

session == <<loggedIn, keyCached>>
service == <<locked, handle, stray>>
desk    == <<overlay, menu, input>>
board   == <<clip, owner>>
vars    == <<session, service, panic, desk, board, queue, unlocking, pc>>

ResetLabels == {"reset_stop", "reset_cancel", "reset_nil", "reset_check",
                "reset_new", "reset_start"}
\* lock() between its assignment to _locked and its last callback
PastLockSet == {"lock_stop", "lock_cancel", "lock_nil", "lock_clip", "lock_emit",
                "lock_post"}
LockLabels  == {"lock_check", "lock_set"} \cup PastLockSet
PanicLabels == {"panic_check", "panic_set", "panic_clip", "panic_emit", "panic_post"}
TkLabels    == {"ui_clip", "copy", "tick", "unlock_chk", "unlock_cb", "unlock_ui"}
ActLabels   == {"act_prompt", "act_check"}
Labels      == {"idle", "auto_clip", "auto_emit"}
                 \cup ResetLabels \cup LockLabels \cup PanicLabels \cup TkLabels \cup ActLabels

\* overlay "typed": the master password is in its entry.  "dead": its window
\* is destroyed and the attribute still refers to it.
\* handle "none": the attribute is None.  "new": built, not started.  "void":
\* cancelled before start().  "spent": cancelled or fired after start().
TimerStates == {"none", "new", "void", "armed", "spent"}

TypeOK ==
  /\ loggedIn \in BOOLEAN /\ keyCached \in BOOLEAN
  /\ locked \in BOOLEAN
  /\ handle \in TimerStates
  /\ stray \in 0..MaxStray
  /\ panic \in {"normal", "activating", "active"}
  /\ overlay \in {"none", "shown", "typed", "dead"}
  /\ menu \in BOOLEAN /\ input \in BOOLEAN
  /\ clip \in BOOLEAN
  /\ owner \in Threads \cup {NoThread}
  /\ queue \in Seq({"lock", "panic", "unlock"})
  /\ unlocking \in BOOLEAN
  /\ pc \in [Threads -> Labels]

\* The state the login dialog leaves: key loaded, menus on, timer running.
Init ==
  /\ loggedIn = TRUE /\ keyCached = TRUE
  /\ locked = FALSE
  /\ handle = IF AutoLockEnabled THEN "armed" ELSE "none"
  /\ stray = 0
  /\ panic = "normal"
  /\ overlay = "none" /\ menu = TRUE /\ input = FALSE
  /\ clip = FALSE /\ owner = NoThread
  /\ queue = <<>>
  /\ unlocking = FALSE
  /\ pc = [p \in Threads |-> "idle"]

At(p, l)   == pc[p] = l
Goto(p, l) == pc' = [pc EXCEPT ![p] = l]
TkIdle     == pc["tk"] = "idle"
\* A call into Tk is served by the main loop; the main loop's own is direct.
TkServes(p) == p = "tk" \/ TkIdle
\* Nothing in flight: no callback posted and every thread at rest.
Calm == queue = <<>> /\ \A p \in Threads : At(p, "idle")
\* A step the user takes is input for the activity monitor.
ByUser == input' = TRUE

-----------------------------------------------------------------------------
(* AutoLockService._reset_lock_timer and _stop_lock_timer.                 *)

\* cancel() stops a timer that is waiting; one that was built and not started
\* will return at once when started.
Cancelled == CASE handle = "armed" -> "spent"
               [] handle = "new"   -> "void"
               [] OTHER            -> handle

\* if self._lock_timer: self._lock_timer.cancel()
StopTimer(p, from, cancel, nil, skip) ==
  /\ At(p, from)
  /\ \/ /\ handle = "none"
        /\ Goto(p, skip) /\ UNCHANGED handle
     \/ /\ handle # "none" /\ SwitchAnywhere
        /\ Goto(p, cancel) /\ UNCHANGED handle
     \/ /\ handle # "none" /\ ~SwitchAnywhere
        /\ handle' = Cancelled /\ Goto(p, nil)
  /\ UNCHANGED <<session, locked, stray, panic, desk, board, queue, unlocking>>

\* The second read of the attribute: None has no cancel().
CancelTimer(p, cancel, nil, raised) ==
  /\ At(p, cancel)
  /\ handle' = Cancelled
  /\ Goto(p, IF handle = "none" THEN raised ELSE nil)
  /\ UNCHANGED <<session, locked, stray, panic, desk, board, queue, unlocking>>

\* Mutant of Refer: every forgotten timer is remembered.
ReferAll(to) ==
  /\ handle' = to
  /\ stray' = IF handle = "armed" THEN stray + 1 ELSE stray

\* The attribute is assigned: a running timer it referred to runs on.
Refer(to) ==
  /\ handle' = to
  /\ stray' = IF handle = "armed" /\ stray < MaxStray THEN stray + 1 ELSE stray

NilTimer(p, from, to) ==
  /\ At(p, from)
  /\ Refer("none")
  /\ Goto(p, to)
  /\ UNCHANGED <<session, locked, panic, desk, board, queue, unlocking>>

\* Where the caller of _reset_lock_timer goes on.  In unlock() an exception
\* is caught before the unlock callbacks run.
AfterReset(p, raised) ==
  IF p = "tk" /\ unlocking
    THEN IF raised THEN "unlock_ui" ELSE "unlock_cb"
    ELSE "idle"

ResetCheck(p) ==
  /\ At(p, "reset_check")
  /\ Goto(p, IF AutoLockEnabled /\ ~locked THEN "reset_new" ELSE AfterReset(p, FALSE))
  /\ UNCHANGED <<session, service, panic, desk, board, queue, unlocking>>

ResetNew(p) ==
  /\ At(p, "reset_new")
  /\ Refer("new")
  /\ Goto(p, "reset_start")
  /\ UNCHANGED <<session, locked, panic, desk, board, queue, unlocking>>

\* self._lock_timer.start() re-reads the attribute: it raises when another
\* thread has set it to None or has already started the timer it finds.
ResetStart(p) ==
  /\ At(p, "reset_start")
  /\ handle' = CASE handle = "new"  -> "armed"
                 [] handle = "void" -> "spent"
                 [] OTHER           -> handle
  /\ Goto(p, AfterReset(p, handle \notin {"new", "void"}))
  /\ UNCHANGED <<session, locked, stray, panic, desk, board, queue, unlocking>>

ResetStop(p)   == StopTimer(p, "reset_stop", "reset_cancel", "reset_nil", "reset_check")
ResetCancel(p) == CancelTimer(p, "reset_cancel", "reset_nil", AfterReset(p, TRUE))
ResetNil(p)    == NilTimer(p, "reset_nil", "reset_check")
Reset(p) == \/ ResetStop(p) \/ ResetCancel(p) \/ ResetNil(p)
            \/ ResetCheck(p) \/ ResetNew(p) \/ ResetStart(p)

\* The monitor thread reports input to its two callbacks: the window's, which
\* while locked posts a request to raise the overlay, and _on_activity.  The
\* rate limit drops no burst of input as a whole.
Activity ==
  /\ AutoLockEnabled /\ At("act", "idle") /\ input
  /\ input' = FALSE
  /\ Goto("act", IF locked THEN "act_prompt" ELSE "act_check")
  /\ UNCHANGED <<session, service, panic, overlay, menu, board, queue, unlocking>>

ActivityPrompt ==
  /\ At("act", "act_prompt") /\ TkIdle
  /\ Goto("act", "act_check")
  /\ UNCHANGED <<session, service, panic, desk, board, queue, unlocking>>

ActivityCheck ==
  /\ At("act", "act_check")
  /\ Goto("act", IF locked THEN "idle" ELSE "reset_stop")
  /\ UNCHANGED <<session, service, panic, desk, board, queue, unlocking>>

\* set_lock_timeout from the security settings dialog.
SetTimeout ==
  /\ TkIdle /\ AutoLockEnabled /\ ~locked
  /\ ByUser
  /\ Goto("tk", "reset_stop")
  /\ UNCHANGED <<session, service, panic, overlay, menu, board, queue, unlocking>>

-----------------------------------------------------------------------------
(* The clipboard service's critical section as the lockers enter it:       *)
(* clear_clipboard under the RLock; with an item to clear, the event       *)
(* CLIPBOARD_CLEARED is emitted before the RLock is released, and the      *)
(* window's handler sets a Tk variable.                                    *)

ClipAcquire(p, from, emit, done) ==
  /\ At(p, from) /\ owner = NoThread
  /\ IF clip THEN owner' = p /\ Goto(p, emit) ELSE UNCHANGED owner /\ Goto(p, done)
  /\ clip' = FALSE
  /\ UNCHANGED <<session, service, panic, desk, queue, unlocking>>

ClipEmit(p, emit, done) ==
  /\ At(p, emit) /\ TkServes(p)
  /\ owner' = NoThread
  /\ Goto(p, done)
  /\ UNCHANGED <<session, service, panic, desk, clip, queue, unlocking>>

\* The clipboard's own timer: threading.Timer -> clear_clipboard("timeout").
AutoClear ==
  /\ AutoClears /\ At("clr", "idle") /\ clip
  /\ Goto("clr", "auto_clip")
  /\ UNCHANGED <<session, service, panic, desk, board, queue, unlocking>>

AutoClearClip == ClipAcquire("clr", "auto_clip", "auto_emit", "idle")
AutoClearEmit == ClipEmit("clr", "auto_emit", "idle")

-----------------------------------------------------------------------------
(* AutoLockService.lock, on the thread of a timer that fired or on "tk".   *)

TimerFires(w) ==
  /\ At(w, "idle")
  /\ \/ handle = "armed" /\ handle' = "spent" /\ UNCHANGED stray
     \/ stray > 0 /\ stray' = stray - 1 /\ UNCHANGED handle
  /\ Goto(w, "lock_check")
  /\ UNCHANGED <<session, locked, panic, desk, board, queue, unlocking>>

\* MainWindow.lock_vault, from the tray menu.
ManualLock ==
  /\ Tray /\ TkIdle
  /\ ByUser
  /\ Goto("tk", "lock_check")
  /\ UNCHANGED <<session, service, panic, overlay, menu, board, queue, unlocking>>

LockCheck(p) ==
  /\ At(p, "lock_check")
  /\ Goto(p, IF locked THEN "idle" ELSE "lock_set")
  /\ UNCHANGED <<session, service, panic, desk, board, queue, unlocking>>

LockSet(p) ==
  /\ At(p, "lock_set")
  /\ locked' = TRUE
  /\ Goto(p, "lock_stop")
  /\ UNCHANGED <<session, handle, stray, panic, desk, board, queue, unlocking>>

\* Outside lock()'s try block: an exception here ends the thread.
LockStop(p)   == StopTimer(p, "lock_stop", "lock_cancel", "lock_nil", "lock_clip")
LockCancel(p) == CancelTimer(p, "lock_cancel", "lock_nil", "idle")
LockNil(p)  == NilTimer(p, "lock_nil", "lock_clip")
LockClip(p) == ClipAcquire(p, "lock_clip", "lock_emit", "lock_post")
LockEmit(p) == ClipEmit(p, "lock_emit", "lock_post")

\* Mutant of LockPost: lock() ends without calling its callbacks.
LockPostSilent(p) ==
  /\ At(p, "lock_post") /\ TkServes(p)
  /\ Goto(p, "idle")
  /\ UNCHANGED <<session, service, panic, desk, board, queue, unlocking>>

\* The registered callback, MainWindow._on_auto_lock.  Clearing the keys
\* (core.vault has no Vault) and auditing (no such EVENT_MAP entry) have no
\* effect inside lock() itself.
LockPost(p) ==
  /\ At(p, "lock_post") /\ TkServes(p)
  /\ queue' = Append(queue, "lock")
  /\ Goto(p, "idle")
  /\ UNCHANGED <<session, service, panic, desk, board, unlocking>>

Lock(p) == \/ LockCheck(p) \/ LockSet(p)
           \/ LockStop(p) \/ LockCancel(p) \/ LockNil(p)
           \/ LockClip(p) \/ LockEmit(p) \/ LockPost(p)

-----------------------------------------------------------------------------
(* PanicMode.activate, on the hotkey thread or on "tk".                    *)

PanicKey(p) ==
  /\ p \in PanicKeys
  /\ At(p, "idle")
  /\ ByUser
  /\ Goto(p, "panic_check")
  /\ UNCHANGED <<session, service, panic, overlay, menu, board, queue, unlocking>>

PanicCheck(p) ==
  /\ At(p, "panic_check")
  /\ Goto(p, IF panic = "normal" THEN "panic_set" ELSE "idle")
  /\ UNCHANGED <<session, service, panic, desk, board, queue, unlocking>>

PanicSet(p) ==
  /\ At(p, "panic_set")
  /\ panic' = "activating"
  /\ Goto(p, "panic_clip")
  /\ UNCHANGED <<session, service, desk, board, queue, unlocking>>

PanicClip(p) == ClipAcquire(p, "panic_clip", "panic_emit", "panic_post")
PanicEmit(p) == ClipEmit(p, "panic_emit", "panic_post")

PanicPost(p) ==
  /\ At(p, "panic_post") /\ TkServes(p)
  /\ panic' = "active"
  /\ queue' = Append(queue, "panic")
  /\ Goto(p, "idle")
  /\ UNCHANGED <<session, service, desk, board, unlocking>>

PanicSteps(p) == \/ PanicCheck(p) \/ PanicSet(p)
                 \/ PanicClip(p) \/ PanicEmit(p) \/ PanicPost(p)

-----------------------------------------------------------------------------
(* MainWindow: the posted callbacks.                                       *)

\* _apply_lock_ui and _apply_panic_ui up to the clipboard call: logout wipes
\* the key and its event disables the menus.  Panic first destroys every
\* Toplevel, the overlay among them.
LockUI ==
  /\ TkIdle /\ queue # <<>> /\ Head(queue) \in {"lock", "panic"}
  /\ queue' = Tail(queue)
  /\ loggedIn' = FALSE /\ keyCached' = FALSE
  /\ menu' = FALSE
  /\ overlay' = IF Head(queue) = "panic" /\ overlay # "none" THEN "dead" ELSE overlay
  /\ Goto("tk", "ui_clip")
  /\ UNCHANGED <<service, panic, input, board, unlocking>>

\* Mutant of LockUIClip: the clipboard was already cleared by lock().
LockUIClipOnce ==
  /\ At("tk", "ui_clip") /\ owner = NoThread
  /\ overlay' = IF overlay = "none" THEN "shown" ELSE overlay
  /\ Goto("tk", "idle")
  /\ UNCHANGED <<session, service, panic, menu, input, board, queue, unlocking>>

\* The rest: on_vault_lock needs the RLock, then _show_lock_overlay, which
\* returns early when the attribute is set, whether or not its window lives.
LockUIClip ==
  /\ At("tk", "ui_clip") /\ owner = NoThread
  /\ clip' = FALSE
  /\ overlay' = IF overlay = "none" THEN "shown" ELSE overlay
  /\ Goto("tk", "idle")
  /\ UNCHANGED <<session, service, panic, menu, input, owner, queue, unlocking>>

\* Mutant of HideOverlay: the attribute keeps the destroyed window.
DestroyOverlay == overlay' = IF overlay = "none" THEN "none" ELSE "dead"
HideOverlay == overlay' = "none"

\* Mutant of ShowUnlocked: the menus are left as they are.
ShowUnlockedNoMenu ==
  /\ HideOverlay
  /\ UNCHANGED <<menu, input>>

\* _apply_unlock_ui: no check that anybody is logged in.
ShowUnlocked ==
  /\ HideOverlay
  /\ menu' = TRUE
  /\ UNCHANGED input

UnlockUI ==
  /\ TkIdle /\ queue # <<>> /\ Head(queue) = "unlock"
  /\ queue' = Tail(queue)
  /\ ShowUnlocked
  /\ UNCHANGED <<session, service, panic, board, unlocking, pc>>

-----------------------------------------------------------------------------
(* MainWindow: what the user does.                                         *)

\* The mouse moved, or a key that does nothing else.
Input ==
  /\ ByUser
  /\ UNCHANGED <<session, service, panic, overlay, menu, board, queue, unlocking, pc>>

\* Typing the master password takes longer than whatever is under way when the
\* user starts; anything may happen between the last character and Return.
TypePassword ==
  /\ TkIdle /\ overlay = "shown"
  /\ Calm
  /\ overlay' = "typed"
  /\ ByUser
  /\ UNCHANGED <<session, service, panic, menu, board, queue, unlocking, pc>>

\* do_unlock with the right password: login, then the overlay goes.
Unlock ==
  /\ TkIdle /\ overlay = "typed"
  /\ loggedIn' = TRUE /\ keyCached' = TRUE
  /\ HideOverlay
  /\ Goto("tk", "unlock_chk")
  /\ UNCHANGED <<service, panic, menu, input, board, queue, unlocking>>

\* Mutant of UnlockService: the flag is cleared, the timer not re-armed.
UnlockServiceUnarmed ==
  /\ At("tk", "unlock_chk")
  /\ locked' = FALSE
  /\ unlocking' = locked
  /\ Goto("tk", IF locked THEN "unlock_cb" ELSE "unlock_ui")
  /\ UNCHANGED <<session, handle, stray, panic, desk, board, queue>>

\* AutoLockService.unlock: any non-empty password will do.
UnlockService ==
  /\ At("tk", "unlock_chk")
  /\ IF locked
       THEN locked' = FALSE /\ unlocking' = TRUE /\ Goto("tk", "reset_stop")
       ELSE UNCHANGED <<locked, unlocking>> /\ Goto("tk", "unlock_ui")
  /\ UNCHANGED <<session, handle, stray, panic, desk, board, queue>>

UnlockCallback ==
  /\ At("tk", "unlock_cb")
  /\ queue' = Append(queue, "unlock")
  /\ Goto("tk", "unlock_ui")
  /\ UNCHANGED <<session, service, panic, desk, board, unlocking>>

UnlockDone ==
  /\ At("tk", "unlock_ui")
  /\ ShowUnlocked
  /\ unlocking' = FALSE
  /\ Goto("tk", "idle")
  /\ UNCHANGED <<session, service, panic, board, queue>>

\* copy_to_clipboard: is_vault_unlocked is asked before the RLock is taken.
Copy ==
  /\ TkIdle /\ loggedIn /\ keyCached
  /\ ByUser
  /\ Goto("tk", "copy")
  /\ UNCHANGED <<session, service, panic, overlay, menu, board, queue, unlocking>>

CopyClip ==
  /\ At("tk", "copy") /\ owner = NoThread
  /\ clip' = TRUE
  /\ Goto("tk", "idle")
  /\ UNCHANGED <<session, service, panic, desk, owner, queue, unlocking>>

\* The status bar polls get_status every second.  It matters only when it
\* finds the RLock taken, and then it never returns: the holder is about to
\* call into Tk, which is waiting here.
Tick ==
  /\ TkIdle /\ owner # NoThread
  /\ Goto("tk", "tick")
  /\ UNCHANGED <<session, service, panic, desk, board, queue, unlocking>>

\* change_master_password with the right old password.  authenticate() puts
\* the key into the cache; the re-encryption then fails on a column the
\* schema does not have and is rolled back, and the key stays.
ChangePassword ==
  /\ TkIdle
  /\ keyCached' = TRUE
  /\ ByUser
  /\ UNCHANGED <<loggedIn, service, panic, overlay, menu, board, queue,
                 unlocking, pc>>

\* KeyCache.get_key after more than its timeout without a call, as when the
\* computer was suspended: the status poll reads the cache every second.
KeyExpires ==
  /\ keyCached
  /\ keyCached' = FALSE
  /\ UNCHANGED <<loggedIn, service, panic, desk, board, queue, unlocking, pc>>

-----------------------------------------------------------------------------

Act    == Activity \/ ActivityPrompt \/ ActivityCheck \/ Reset("act")
Clear  == AutoClearClip \/ AutoClearEmit
Posted == LockUI \/ UnlockUI
\* A Tk handler that has begun.
Handler == \/ Lock("tk") \/ Reset("tk") \/ PanicSteps("tk") \/ LockUIClip
           \/ UnlockService \/ UnlockCallback \/ UnlockDone
           \/ CopyClip
User == \/ Input \/ TypePassword \/ Unlock \/ SetTimeout \/ ManualLock
        \/ Copy \/ ChangePassword
        \/ \E p \in {"hot", "tk"} : PanicKey(p)

Next ==
  \/ \E w \in Lockers : TimerFires(w) \/ Lock(w)
  \/ Act \/ PanicSteps("hot") \/ AutoClear \/ Clear
  \/ Posted \/ Handler \/ Tick
  \/ User \/ KeyExpires

Spec == Init /\ [][Next]_vars

\* What the operating system and the Tk main loop give: a started timer
\* expires; a thread that can go on, or can go on again and again between
\* waits for the RLock or for the main loop, does; the main loop goes on with
\* the handler it is in and runs what was posted however busy the user is.
\* What the user does is not fair.
Fairness ==
  /\ WF_vars(\E w \in Lockers : TimerFires(w))
  /\ \A w \in Lockers : SF_vars(Lock(w))
  /\ SF_vars(Act) /\ SF_vars(Clear) /\ SF_vars(PanicSteps("hot"))
  /\ SF_vars(Posted) /\ WF_vars(Handler)

FairSpec == Spec /\ Fairness

-----------------------------------------------------------------------------
(* Properties.                                                             *)

\* Once the auto-lock service says "locked" the session is closed, or the
\* work that closes it is still on its way: a thread inside lock(), a posted
\* callback, or the unlock handler about to clear the flag.  Were it false,
\* every later lock() would return early and the vault stay open for good.
LockDue ==
  locked /\ loggedIn =>
    \/ \E p \in Threads : pc[p] \in PastLockSet
    \/ \E i \in 1..Len(queue) : queue[i] \in {"lock", "panic"}
    \/ At("tk", "unlock_chk")

\* A closed session leaves no secret in the clipboard, outside the handler
\* that is closing it, whatever was copied while lock() was running: lock()
\* clears the clipboard on its own thread, and a copy may come after that.
NothingLeftBehind == ~loggedIn /\ clip => At("tk", "ui_clip")

\* The inactivity watchdog is never lost: whatever the activity thread, the
\* settings dialog, unlock() and a late lock() do to the one unguarded timer
\* attribute, an open vault has the timer it refers to running, unless a lock
\* is on its way, a thread is re-arming it, or the input that will do so is
\* still unseen.
WatchdogArmed ==
  AutoLockEnabled /\ loggedIn /\ ~locked /\ ~input /\ Calm => handle = "armed"

\* A locked window is covered: once everything posted has run, a closed
\* session shows the overlay that asks for the master password.
CoveredWhenLocked == Calm /\ ~loggedIn => overlay \in {"shown", "typed"}

\* The import and export commands follow the session.
MenuFollowsSession == Calm => (menu <=> loggedIn)

\* The main loop waits for the clipboard RLock while its holder waits for
\* the main loop: neither goes on, and the window is frozen.
TkDeadlock ==
  /\ owner \in Threads \ {"tk"}
  /\ pc["tk"] \in {"ui_clip", "copy", "tick", "lock_clip", "panic_clip"}

\* A lock is carried through: after AutoLockService has set its flag the
\* session is closed (or the user has unlocked again), except when the
\* window froze in the deadlock above.
LockCarriedThrough ==
  (locked /\ loggedIn) ~> (~loggedIn \/ ~locked \/ TkDeadlock)

\* Without that exception: every lock is carried through.
LockCompletes == (locked /\ loggedIn) ~> (~loggedIn \/ ~locked)

\* Auto-lock works: when the user goes away for good, the vault does not
\* stay open.
IdleLocks ==
  AutoLockEnabled => (<>[]~input => []<>(~loggedIn \/ TkDeadlock))

=============================================================================
