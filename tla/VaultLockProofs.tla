--------------------------- MODULE VaultLockProofs ---------------------------
(* Proofs about VaultLock, for any number of locker threads, any security  *)
(* profile and any of the ways the panic key and the tray reach the code.  *)
EXTENDS VaultLock, TLAPS

\* The labels written out, so that a leaf can use them without the unions.
LEMMA LabelSet ==
  /\ Labels = {"idle", "auto_clip", "auto_emit",
               "reset_stop", "reset_cancel", "reset_nil", "reset_check", "reset_new",
               "reset_start",
               "lock_check", "lock_set", "lock_stop", "lock_cancel", "lock_nil",
               "lock_clip", "lock_emit", "lock_post",
               "panic_check", "panic_set", "panic_clip", "panic_emit", "panic_post",
               "ui_clip", "copy", "tick", "unlock_chk", "unlock_cb", "unlock_ui",
               "act_prompt", "act_check"}
  /\ PastLockSet = {"lock_stop", "lock_cancel", "lock_nil", "lock_clip", "lock_emit",
                    "lock_post"}
  BY DEF Labels, ResetLabels, LockLabels, PastLockSet, PanicLabels, TkLabels, ActLabels

LEMMA GotoType ==
  ASSUME NEW p \in Threads, NEW l \in Labels, pc \in [Threads -> Labels], Goto(p, l)
  PROVE  pc' \in [Threads -> Labels]
  BY DEF Goto

\* The steps every actor shares keep the types, for labels that are labels.
LEMMA StopTimerType ==
  ASSUME TypeOK, NEW p \in Threads,
         NEW a, NEW b \in Labels, NEW c \in Labels, NEW d \in Labels,
         StopTimer(p, a, b, c, d)
  PROVE  TypeOK'
  BY GotoType DEF TypeOK, StopTimer, Cancelled, TimerStates, session, desk, board

LEMMA CancelTimerType ==
  ASSUME TypeOK, NEW p \in Threads,
         NEW a, NEW b \in Labels, NEW c \in Labels, CancelTimer(p, a, b, c)
  PROVE  TypeOK'
  BY GotoType DEF TypeOK, CancelTimer, Cancelled, TimerStates, session, desk, board

LEMMA NilTimerType ==
  ASSUME TypeOK, NEW p \in Threads, NEW a, NEW b \in Labels, NilTimer(p, a, b)
  PROVE  TypeOK'
  BY ConstAssumption, GotoType
  DEF TypeOK, ConstAssumption, NilTimer, Refer, TimerStates, session, desk, board

LEMMA ClipAcquireType ==
  ASSUME TypeOK, NEW p \in Threads, NEW a, NEW b \in Labels, NEW c \in Labels,
         ClipAcquire(p, a, b, c)
  PROVE  TypeOK'
  BY GotoType DEF TypeOK, ClipAcquire, session, service, desk

LEMMA ClipEmitType ==
  ASSUME TypeOK, NEW p \in Threads, NEW a, NEW b \in Labels, ClipEmit(p, a, b)
  PROVE  TypeOK'
  BY GotoType DEF TypeOK, ClipEmit, session, service, desk

LEMMA AfterResetLabel == \A p, raised : AfterReset(p, raised) \in Labels
  BY LabelSet DEF AfterReset

LEMMA ResetType ==
  ASSUME TypeOK, NEW p \in Threads, Reset(p)
  PROVE  TypeOK'
<1>1. CASE ResetStop(p)
  <2>1. {"reset_cancel", "reset_nil", "reset_check"} \subseteq Labels
    BY LabelSet
  <2> QED BY <1>1, <2>1, StopTimerType DEF ResetStop
<1>2. CASE ResetCancel(p)
  BY <1>2, CancelTimerType, AfterResetLabel, LabelSet DEF ResetCancel
<1>3. CASE ResetNil(p)
  BY <1>3, NilTimerType, LabelSet DEF ResetNil
<1>4. CASE ResetCheck(p)
  <2>1. pc' \in [Threads -> Labels]
    <3>1. "reset_new" \in Labels /\ AfterReset(p, FALSE) \in Labels
      BY AfterResetLabel, LabelSet
    <3> QED BY <1>4, <3>1, GotoType DEF TypeOK, ResetCheck
  <2> QED BY <1>4, <2>1 DEF TypeOK, ResetCheck, session, service, desk, board
<1>5. CASE ResetNew(p)
  BY <1>5, ConstAssumption, GotoType, LabelSet
  DEF TypeOK, ConstAssumption, ResetNew, Refer, TimerStates, session, desk, board
<1>6. CASE ResetStart(p)
  BY <1>6, GotoType, AfterResetLabel, LabelSet
  DEF TypeOK, ResetStart, TimerStates, session, desk, board
<1> QED BY <1>1, <1>2, <1>3, <1>4, <1>5, <1>6 DEF Reset

LEMMA LockType ==
  ASSUME TypeOK, NEW p \in Threads, Lock(p)
  PROVE  TypeOK'
<1>1. CASE LockCheck(p)
  BY <1>1, GotoType, LabelSet DEF TypeOK, LockCheck, session, service, desk, board
<1>2. CASE LockSet(p)
  BY <1>2, GotoType, LabelSet DEF TypeOK, LockSet, session, service, desk, board
<1>3. CASE LockStop(p)
  <2>1. {"lock_cancel", "lock_nil", "lock_clip"} \subseteq Labels
    BY LabelSet
  <2> QED BY <1>3, <2>1, StopTimerType DEF LockStop
<1>4. CASE LockCancel(p)
  BY <1>4, CancelTimerType, LabelSet DEF LockCancel
<1>5. CASE LockNil(p)
  BY <1>5, NilTimerType, LabelSet DEF LockNil
<1>6. CASE LockClip(p)
  BY <1>6, ClipAcquireType, LabelSet DEF LockClip
<1>7. CASE LockEmit(p)
  BY <1>7, ClipEmitType, LabelSet DEF LockEmit
<1>8. CASE LockPost(p)
  BY <1>8, GotoType, LabelSet DEF TypeOK, LockPost, session, service, desk, board
<1> QED BY <1>1, <1>2, <1>3, <1>4, <1>5, <1>6, <1>7, <1>8 DEF Lock

LEMMA PanicType ==
  ASSUME TypeOK, NEW p \in Threads, PanicSteps(p)
  PROVE  TypeOK'
<1>1. CASE PanicCheck(p)
  BY <1>1, GotoType, LabelSet DEF TypeOK, PanicCheck, session, service, desk, board
<1>2. CASE PanicSet(p)
  BY <1>2, GotoType, LabelSet DEF TypeOK, PanicSet, session, service, desk, board
<1>3. CASE PanicClip(p)
  BY <1>3, ClipAcquireType, LabelSet DEF PanicClip
<1>4. CASE PanicEmit(p)
  BY <1>4, ClipEmitType, LabelSet DEF PanicEmit
<1>5. CASE PanicPost(p)
  BY <1>5, GotoType, LabelSet DEF TypeOK, PanicPost, session, service, desk, board
<1> QED BY <1>1, <1>2, <1>3, <1>4, <1>5 DEF PanicSteps


LEMMA TypeInit == Init => TypeOK
<1>1. "idle" \in Labels
  BY LabelSet
<1>2. ASSUME Init PROVE pc \in [Threads -> Labels]
  BY <1>1, <1>2 DEF Init
<1>3. ASSUME Init PROVE queue \in Seq({"lock", "panic", "unlock"})
  BY <1>3 DEF Init
<1>4. ASSUME Init PROVE handle \in TimerStates /\ stray \in 0..MaxStray
  BY <1>4, ConstAssumption DEF Init, ConstAssumption, TimerStates
<1> QED BY <1>2, <1>3, <1>4 DEF Init, TypeOK

LEMMA TypeNext == TypeOK /\ [Next]_vars => TypeOK'
<1> SUFFICES ASSUME TypeOK, [Next]_vars PROVE TypeOK'
  OBVIOUS
<1>t. {"tk", "act", "hot", "clr"} \subseteq Threads /\ Lockers \subseteq Threads
  BY DEF Threads
<1>1. ASSUME NEW w \in Lockers, TimerFires(w) PROVE TypeOK'
  BY <1>1, <1>t, ConstAssumption, GotoType, LabelSet
  DEF TypeOK, ConstAssumption, TimerFires, TimerStates, session, desk, board
<1>2. ASSUME NEW w \in Lockers, Lock(w) PROVE TypeOK'
  BY <1>2, <1>t, LockType
<1>3. CASE Act
  <2>1. CASE Activity
    <3>1. pc' \in [Threads -> Labels]
      BY <2>1, <1>t, GotoType, LabelSet DEF TypeOK, Activity
    <3> QED BY <2>1, <3>1 DEF TypeOK, Activity, session, service, board
  <2>2. CASE ActivityPrompt
    BY <2>2, <1>t, GotoType, LabelSet
    DEF TypeOK, ActivityPrompt, session, service, desk, board
  <2>3. CASE ActivityCheck
    BY <2>3, <1>t, GotoType, LabelSet
    DEF TypeOK, ActivityCheck, session, service, desk, board
  <2> QED BY <1>3, <1>t, <2>1, <2>2, <2>3, ResetType DEF Act
<1>4. CASE PanicSteps("hot")
  BY <1>4, <1>t, PanicType
<1>5. CASE AutoClear
  BY <1>5, <1>t, GotoType, LabelSet DEF TypeOK, AutoClear, session, service, desk, board
<1>6. CASE Clear
  <2>1. {"auto_emit", "idle"} \subseteq Labels
    BY LabelSet
  <2>2. CASE AutoClearClip
    BY <2>1, <2>2, <1>t, ClipAcquireType DEF AutoClearClip
  <2>3. CASE AutoClearEmit
    BY <2>1, <2>3, <1>t, ClipEmitType DEF AutoClearEmit
  <2> QED BY <1>6, <2>2, <2>3 DEF Clear
<1>7. CASE Posted
  <2>1. queue # <<>> => Tail(queue) \in Seq({"lock", "panic", "unlock"})
    BY DEF TypeOK
  <2>2. CASE LockUI
    BY <2>1, <2>2, <1>t, GotoType, LabelSet DEF TypeOK, LockUI, service, board
  <2>3. CASE UnlockUI
    BY <2>1, <2>3 DEF TypeOK, UnlockUI, ShowUnlocked, HideOverlay, session, service, board
  <2> QED BY <1>7, <2>2, <2>3 DEF Posted
<1>8. CASE Handler
  <2>1. CASE LockUIClip
    BY <2>1, <1>t, GotoType, LabelSet DEF TypeOK, LockUIClip, session, service
  <2>2. CASE UnlockService
    <3>1. pc' \in [Threads -> Labels]
      BY <2>2, <1>t, GotoType, LabelSet DEF TypeOK, UnlockService
    <3> QED BY <2>2, <3>1 DEF TypeOK, UnlockService, session, desk, board
  <2>3. CASE UnlockCallback
    BY <2>3, <1>t, GotoType, LabelSet
    DEF TypeOK, UnlockCallback, session, service, desk, board
  <2>4. CASE UnlockDone
    BY <2>4, <1>t, GotoType, LabelSet
    DEF TypeOK, UnlockDone, ShowUnlocked, HideOverlay, session, service, board
  <2>5. CASE CopyClip
    BY <2>5, <1>t, GotoType, LabelSet DEF TypeOK, CopyClip, session, service, desk
  <2> QED BY <1>8, <1>t, <2>1, <2>2, <2>3, <2>4, <2>5, LockType, ResetType, PanicType
    DEF Handler
<1>9. CASE Tick
  BY <1>9, <1>t, GotoType, LabelSet DEF TypeOK, Tick, session, service, desk, board
<1>10. CASE User
  <2>1. CASE Input
    BY <2>1 DEF TypeOK, Input, ByUser, session, service, board
  <2>2. CASE TypePassword
    BY <2>2 DEF TypeOK, TypePassword, ByUser, session, service, board
  <2>3. CASE Unlock
    BY <2>3, <1>t, GotoType, LabelSet DEF TypeOK, Unlock, HideOverlay, service, board
  <2>4. CASE SetTimeout
    BY <2>4, <1>t, GotoType, LabelSet DEF TypeOK, SetTimeout, ByUser, session, service, board
  <2>5. CASE ManualLock
    BY <2>5, <1>t, GotoType, LabelSet DEF TypeOK, ManualLock, ByUser, session, service, board
  <2>6. CASE Copy
    BY <2>6, <1>t, GotoType, LabelSet DEF TypeOK, Copy, ByUser, session, service, board
  <2>7. CASE ChangePassword
    BY <2>7 DEF TypeOK, ChangePassword, ByUser, service, board
  <2>8. ASSUME NEW p \in {"hot", "tk"}, PanicKey(p) PROVE TypeOK'
    BY <2>8, <1>t, GotoType, LabelSet DEF TypeOK, PanicKey, ByUser, session, service, board
  <2> QED BY <1>10, <2>1, <2>2, <2>3, <2>4, <2>5, <2>6, <2>7, <2>8 DEF User
<1>11. CASE KeyExpires
  BY <1>11 DEF TypeOK, KeyExpires, service, desk, board
<1>12. CASE UNCHANGED vars
  BY <1>12 DEF TypeOK, vars, session, service, desk, board
<1> QED
  BY <1>1, <1>2, <1>3, <1>4, <1>5, <1>6, <1>7, <1>8, <1>9, <1>10, <1>11, <1>12 DEF Next

\* Every variable keeps its type, whatever the threads do.
THEOREM TypeCorrect == Spec => []TypeOK
  BY TypeInit, TypeNext, PTL DEF Spec


-----------------------------------------------------------------------------
(* A lock is never lost.  LockDue is inductive together with the types when *)
(* the test of the timer attribute and the call on it are one step; when    *)
(* they are not, cancel() may be called on None and lock() dies.            *)

\* No thread stands between the two reads of the timer attribute.
NoSecondRead == \A p \in Threads : pc[p] \notin {"lock_cancel", "reset_cancel"}

LockInv == TypeOK /\ NoSecondRead /\ LockDue

LEMMA AfterResetIdle ==
  \A p, raised : AfterReset(p, raised) \in {"unlock_ui", "unlock_cb", "idle"}
  BY DEF AfterReset

\* A thread that moves on without touching the session, the flag or the posted
\* callbacks keeps LockDue, unless it leaves lock() or the unlock handler.
LEMMA MoveKeepsDue ==
  ASSUME TypeOK, LockDue, NEW p \in Threads, NEW l, Goto(p, l),
         UNCHANGED <<loggedIn, locked, queue>>,
         pc[p] \in PastLockSet => l \in PastLockSet,
         pc[p] # "unlock_chk"
  PROVE  LockDue'
<1> SUFFICES ASSUME locked, loggedIn
             PROVE  \/ \E q \in Threads : pc'[q] \in PastLockSet
                    \/ \E i \in 1..Len(queue) : queue[i] \in {"lock", "panic"}
                    \/ pc'["tk"] = "unlock_chk"
  BY DEF LockDue, At
<1>1. \A q \in Threads : pc'[q] = IF q = p THEN l ELSE pc[q]
  BY DEF Goto, TypeOK
<1>2. CASE \E q \in Threads : pc[q] \in PastLockSet
  BY <1>1, <1>2
<1>3. CASE At("tk", "unlock_chk")
  BY <1>1, <1>3 DEF At, Threads
<1> QED BY <1>2, <1>3 DEF LockDue

\* The same for the second read.
LEMMA MoveKeepsNoSecondRead ==
  ASSUME TypeOK, NoSecondRead, NEW p \in Threads, NEW l, Goto(p, l),
         l \notin {"lock_cancel", "reset_cancel"}
  PROVE  NoSecondRead'
  BY DEF TypeOK, NoSecondRead, Goto

\* Both at once, for the many steps that are such a move.
LEMMA Move ==
  ASSUME LockInv, NEW p \in Threads, NEW l, Goto(p, l),
         UNCHANGED <<loggedIn, locked, queue>>,
         pc[p] \notin PastLockSet, pc[p] # "unlock_chk",
         l \notin {"lock_cancel", "reset_cancel"}
  PROVE  NoSecondRead' /\ LockDue'
  BY MoveKeepsDue, MoveKeepsNoSecondRead DEF LockInv

LEMMA MoveInLock ==
  ASSUME LockInv, NEW p \in Threads, NEW l \in PastLockSet \ {"lock_cancel"}, Goto(p, l),
         UNCHANGED <<loggedIn, locked, queue>>, pc[p] # "unlock_chk"
  PROVE  NoSecondRead' /\ LockDue'
  BY MoveKeepsDue, MoveKeepsNoSecondRead, LabelSet DEF LockInv

\* Steps that leave every program counter, the flag and the queue alone.
LEMMA StillKeeps ==
  ASSUME LockInv, UNCHANGED <<loggedIn, locked, queue, pc>>
  PROVE  NoSecondRead' /\ LockDue'
  BY DEF LockInv, NoSecondRead, LockDue, At

\* A callback is posted: what was there stays.
LEMMA PostKeeps ==
  ASSUME LockInv, NEW p \in Threads, NEW l, Goto(p, l), NEW c,
         queue' = Append(queue, c), UNCHANGED <<loggedIn, locked>>,
         l \notin {"lock_cancel", "reset_cancel"},
         pc[p] \in PastLockSet => c = "lock",
         pc[p] # "unlock_chk"
  PROVE  NoSecondRead' /\ LockDue'
<1>1. NoSecondRead'
  BY MoveKeepsNoSecondRead DEF LockInv
<1>2. \A q \in Threads : pc'[q] = IF q = p THEN l ELSE pc[q]
  BY DEF Goto, TypeOK, LockInv
<1>3. /\ Len(queue') = Len(queue) + 1 /\ Len(queue) \in Nat
      /\ queue'[Len(queue) + 1] = c
      /\ \A i \in 1..Len(queue) : queue'[i] = queue[i]
  BY DEF LockInv, TypeOK
<1>4. SUFFICES ASSUME locked, loggedIn
               PROVE  \/ \E q \in Threads : pc'[q] \in PastLockSet
                      \/ \E i \in 1..Len(queue') : queue'[i] \in {"lock", "panic"}
                      \/ pc'["tk"] = "unlock_chk"
  BY <1>1 DEF LockDue, At
<1>5. CASE pc[p] \in PastLockSet
  BY <1>3, <1>5
<1>6. CASE pc[p] \notin PastLockSet
  <2>1. CASE \E q \in Threads : pc[q] \in PastLockSet
    BY <1>2, <1>6, <2>1
  <2>2. CASE \E i \in 1..Len(queue) : queue[i] \in {"lock", "panic"}
    BY <1>3, <2>2
  <2>3. CASE At("tk", "unlock_chk")
    BY <1>2, <2>3 DEF At, Threads
  <2> QED BY <1>4, <2>1, <2>2, <2>3 DEF LockInv, LockDue
<1> QED BY <1>5, <1>6


LEMMA ResetDue ==
  ASSUME ~SwitchAnywhere, LockInv, NEW p \in Threads, Reset(p)
  PROVE  NoSecondRead' /\ LockDue'
<1>1. CASE ResetStop(p)
  BY <1>1, Move, LabelSet DEF ResetStop, StopTimer, At, session
<1>2. CASE ResetCancel(p)
  BY <1>2 DEF LockInv, NoSecondRead, ResetCancel, CancelTimer, At
<1>3. CASE ResetNil(p)
  BY <1>3, Move, LabelSet DEF ResetNil, NilTimer, At, session
<1>4. CASE ResetCheck(p)
  <2>1. PICK l \in {"reset_new", "unlock_ui", "unlock_cb", "idle"} : Goto(p, l)
    BY <1>4, AfterResetIdle DEF ResetCheck
  <2> QED BY <1>4, <2>1, Move, LabelSet DEF ResetCheck, At, session, service
<1>5. CASE ResetNew(p)
  BY <1>5, Move, LabelSet DEF ResetNew, At, session
<1>6. CASE ResetStart(p)
  <2>1. PICK l \in {"unlock_ui", "unlock_cb", "idle"} : Goto(p, l)
    BY <1>6, AfterResetIdle DEF ResetStart
  <2> QED BY <1>6, <2>1, Move, LabelSet DEF ResetStart, At, session
<1> QED BY <1>1, <1>2, <1>3, <1>4, <1>5, <1>6 DEF Reset

LEMMA LockStepDue ==
  ASSUME ~SwitchAnywhere, LockInv, NEW p \in Threads, Lock(p)
  PROVE  NoSecondRead' /\ LockDue'
<1>1. CASE LockCheck(p)
  <2>1. PICK l \in {"idle", "lock_set"} : Goto(p, l)
    BY <1>1 DEF LockCheck
  <2> QED BY <1>1, <2>1, Move, LabelSet DEF LockCheck, At, session, service
<1>2. CASE LockSet(p)
  <2>1. pc'[p] = "lock_stop"
    BY <1>2 DEF LockSet, Goto, LockInv, TypeOK
  <2>2. NoSecondRead'
    BY <1>2, MoveKeepsNoSecondRead DEF LockSet, LockInv
  <2> QED BY <2>1, <2>2, LabelSet DEF LockDue
<1>3. CASE LockStop(p)
  BY <1>3, MoveInLock, LabelSet DEF LockStop, StopTimer, At, session
<1>4. CASE LockCancel(p)
  BY <1>4 DEF LockInv, NoSecondRead, LockCancel, CancelTimer, At
<1>5. CASE LockNil(p)
  BY <1>5, MoveInLock, LabelSet DEF LockNil, NilTimer, At, session
<1>6. CASE LockClip(p)
  BY <1>6, MoveInLock, LabelSet DEF LockClip, ClipAcquire, At, session, service
<1>7. CASE LockEmit(p)
  BY <1>7, MoveInLock, LabelSet DEF LockEmit, ClipEmit, At, session, service
<1>8. CASE LockPost(p)
  BY <1>8, PostKeeps DEF LockPost, At, session, service
<1> QED BY <1>1, <1>2, <1>3, <1>4, <1>5, <1>6, <1>7, <1>8 DEF Lock

LEMMA PanicDue ==
  ASSUME LockInv, NEW p \in Threads, PanicSteps(p)
  PROVE  NoSecondRead' /\ LockDue'
<1>1. CASE PanicCheck(p)
  <2>1. PICK l \in {"panic_set", "idle"} : Goto(p, l)
    BY <1>1 DEF PanicCheck
  <2> QED BY <1>1, <2>1, Move, LabelSet DEF PanicCheck, At, session, service
<1>2. CASE PanicSet(p)
  BY <1>2, Move, LabelSet DEF PanicSet, At, session, service
<1>3. CASE PanicClip(p)
  BY <1>3, Move, LabelSet DEF PanicClip, ClipAcquire, At, session, service
<1>4. CASE PanicEmit(p)
  BY <1>4, Move, LabelSet DEF PanicEmit, ClipEmit, At, session, service
<1>5. CASE PanicPost(p)
  BY <1>5, PostKeeps, LabelSet DEF PanicPost, At, session, service
<1> QED BY <1>1, <1>2, <1>3, <1>4, <1>5 DEF PanicSteps

LEMMA LockInvNext ==
  ASSUME ~SwitchAnywhere, LockInv, [Next]_vars
  PROVE  NoSecondRead' /\ LockDue'
<1>t. {"tk", "act", "hot", "clr"} \subseteq Threads /\ Lockers \subseteq Threads
  BY DEF Threads
<1>1. ASSUME NEW w \in Lockers, TimerFires(w) PROVE NoSecondRead' /\ LockDue'
  BY <1>1, <1>t, Move, LabelSet DEF TimerFires, At, session
<1>2. ASSUME NEW w \in Lockers, Lock(w) PROVE NoSecondRead' /\ LockDue'
  BY <1>2, <1>t, LockStepDue
<1>3. CASE Act
  <2>1. CASE Activity
    <3>1. PICK l \in {"act_prompt", "act_check"} : Goto("act", l)
      BY <2>1 DEF Activity
    <3> QED BY <2>1, <3>1, <1>t, Move, LabelSet DEF Activity, At, session, service
  <2>2. CASE ActivityPrompt
    BY <2>2, <1>t, Move, LabelSet DEF ActivityPrompt, At, session, service
  <2>3. CASE ActivityCheck
    <3>1. PICK l \in {"idle", "reset_stop"} : Goto("act", l)
      BY <2>3 DEF ActivityCheck
    <3> QED BY <2>3, <3>1, <1>t, Move, LabelSet DEF ActivityCheck, At, session, service
  <2> QED BY <1>3, <1>t, <2>1, <2>2, <2>3, ResetDue DEF Act
<1>4. CASE PanicSteps("hot")
  BY <1>4, <1>t, PanicDue
<1>5. CASE AutoClear
  BY <1>5, <1>t, Move, LabelSet DEF AutoClear, At, session, service
<1>6. CASE Clear
  <2>1. CASE AutoClearClip
    BY <2>1, <1>t, Move, LabelSet DEF AutoClearClip, ClipAcquire, At, session, service
  <2>2. CASE AutoClearEmit
    BY <2>2, <1>t, Move, LabelSet DEF AutoClearEmit, ClipEmit, At, session, service
  <2> QED BY <1>6, <2>1, <2>2 DEF Clear
<1>7. CASE LockUI
  <2>1. NoSecondRead'
    BY <1>7, <1>t, MoveKeepsNoSecondRead DEF LockUI, LockInv
  <2> QED BY <1>7, <2>1 DEF LockUI, LockDue
<1>8. CASE UnlockUI
  <2>1. /\ Len(queue') = Len(queue) - 1 /\ Len(queue) \in Nat \ {0}
        /\ \A i \in 1..Len(queue') : queue'[i] = queue[i + 1]
        /\ queue[1] = "unlock"
    BY <1>8 DEF UnlockUI, LockInv, TypeOK
  <2>2. ASSUME NEW i \in 1..Len(queue), queue[i] \in {"lock", "panic"}
        PROVE  \E j \in 1..Len(queue') : queue'[j] \in {"lock", "panic"}
    <3>1. i # 1
      BY <2>1, <2>2
    <3>2. i - 1 \in 1..Len(queue') /\ queue'[i - 1] = queue[i]
      BY <2>1, <3>1
    <3> QED BY <2>2, <3>2
  <2>3. NoSecondRead'
    BY <1>8 DEF UnlockUI, LockInv, NoSecondRead
  <2> QED BY <1>8, <2>2, <2>3 DEF UnlockUI, LockInv, LockDue, At, TkIdle, session, service
<1>9. CASE LockUIClip
  BY <1>9, <1>t, Move, LabelSet DEF LockUIClip, At, session, service
<1>10. CASE UnlockService
  <2>1. PICK l \in {"reset_stop", "unlock_ui"} : Goto("tk", l)
    BY <1>10 DEF UnlockService
  <2>2. NoSecondRead'
    BY <2>1, <1>t, MoveKeepsNoSecondRead DEF LockInv
  <2>3. ~locked'
    BY <1>10 DEF UnlockService, LockInv, TypeOK
  <2> QED BY <2>2, <2>3 DEF LockDue
<1>11. CASE UnlockCallback
  BY <1>11, <1>t, PostKeeps, LabelSet DEF UnlockCallback, At, session, service
<1>12. CASE UnlockDone
  BY <1>12, <1>t, Move, LabelSet DEF UnlockDone, At, session, service
<1>13. CASE CopyClip
  BY <1>13, <1>t, Move, LabelSet DEF CopyClip, At, session, service
<1>14. CASE Tick
  BY <1>14, <1>t, Move, LabelSet DEF Tick, TkIdle, session, service
<1>15. CASE User
  <2>1. CASE Input \/ TypePassword \/ ChangePassword
    BY <2>1, StillKeeps
    DEF Input, TypePassword, ChangePassword, session, service
  <2>2. CASE Unlock
    <3>1. NoSecondRead'
      BY <2>2, <1>t, MoveKeepsNoSecondRead DEF Unlock, LockInv
    <3>2. pc'["tk"] = "unlock_chk"
      BY <2>2, <1>t DEF Unlock, Goto, LockInv, TypeOK
    <3> QED BY <3>1, <3>2 DEF LockDue, At
  <2>3. CASE SetTimeout
    BY <2>3, <1>t, Move, LabelSet DEF SetTimeout, TkIdle, session, service
  <2>4. CASE ManualLock
    BY <2>4, <1>t, Move, LabelSet DEF ManualLock, TkIdle, session, service
  <2>5. CASE Copy
    BY <2>5, <1>t, Move, LabelSet DEF Copy, TkIdle, session, service
  <2>6. ASSUME NEW p \in {"hot", "tk"}, PanicKey(p) PROVE NoSecondRead' /\ LockDue'
    BY <2>6, <1>t, Move, LabelSet DEF PanicKey, At, session, service
  <2> QED BY <1>15, <2>1, <2>2, <2>3, <2>4, <2>5, <2>6 DEF User
<1>16. CASE KeyExpires
  BY <1>16, StillKeeps DEF KeyExpires, service
<1>17. CASE UNCHANGED vars
  BY <1>17, StillKeeps DEF vars, session, service
<1> QED
  BY <1>t, <1>1, <1>2, <1>3, <1>4, <1>5, <1>6, <1>7, <1>8, <1>9, <1>10, <1>11, <1>12,
     <1>13, <1>14, <1>15, <1>16, <1>17, LockStepDue, ResetDue, PanicDue
  DEF Next, Posted, Handler

\* When the interpreter switches threads only at calls, a lock is never lost:
\* AutoLockService says "locked" over an open session only while the work that
\* closes the session, or the unlock that clears the flag, is under way.
THEOREM LockNeverLost == ASSUME ~SwitchAnywhere PROVE Spec => []LockDue
<1>1. Init => LockInv
  BY TypeInit DEF Init, LockInv, NoSecondRead, LockDue
<1>2. LockInv /\ [Next]_vars => LockInv'
  BY TypeNext, LockInvNext DEF LockInv
<1>3. LockInv => LockDue
  BY DEF LockInv
<1> QED BY <1>1, <1>2, <1>3, PTL DEF Spec


-----------------------------------------------------------------------------
(* A closed session leaves nothing in the clipboard.  A copy is decided on  *)
(* while the session is open and done later, under the RLock: the invariant *)
(* needs that the session cannot close in between.                          *)

CopyWhileOpen == At("tk", "copy") => loggedIn

ClipInv == TypeOK /\ CopyWhileOpen /\ NothingLeftBehind

\* A move that neither closes the session nor fills the clipboard.
LEMMA MoveKeepsClosed ==
  ASSUME ClipInv, NEW p \in Threads, NEW l, Goto(p, l), l # "copy",
         UNCHANGED loggedIn, clip' = clip \/ clip' = FALSE, pc[p] # "ui_clip"
  PROVE  CopyWhileOpen' /\ NothingLeftBehind'
<1>1. "tk" \in Threads
  BY DEF Threads
<1> QED BY <1>1 DEF ClipInv, CopyWhileOpen, NothingLeftBehind, At, Goto, TypeOK

LEMMA StillKeepsClosed ==
  ASSUME ClipInv, UNCHANGED <<loggedIn, clip, pc>>
  PROVE  CopyWhileOpen' /\ NothingLeftBehind'
  BY DEF ClipInv, CopyWhileOpen, NothingLeftBehind, At

LEMMA ResetClosed ==
  ASSUME ClipInv, NEW p \in Threads, Reset(p)
  PROVE  CopyWhileOpen' /\ NothingLeftBehind'
<1>1. PICK l \in ResetLabels \cup {"unlock_ui", "unlock_cb", "idle"} : Goto(p, l)
  BY AfterResetIdle
  DEF Reset, ResetStop, ResetCancel, ResetNil, ResetCheck, ResetNew, ResetStart,
      StopTimer, CancelTimer, NilTimer, ResetLabels
<1>2. pc[p] \in ResetLabels
  BY DEF Reset, ResetStop, ResetCancel, ResetNil, ResetCheck, ResetNew, ResetStart,
         StopTimer, CancelTimer, NilTimer, ResetLabels, At
<1>3. UNCHANGED <<loggedIn, clip>>
  BY DEF Reset, ResetStop, ResetCancel, ResetNil, ResetCheck, ResetNew, ResetStart,
         StopTimer, CancelTimer, NilTimer, session, board
<1> QED BY <1>1, <1>2, <1>3, MoveKeepsClosed DEF ResetLabels

LEMMA LockClosed ==
  ASSUME ClipInv, NEW p \in Threads, Lock(p)
  PROVE  CopyWhileOpen' /\ NothingLeftBehind'
<1>1. PICK l \in LockLabels \cup {"idle"} : Goto(p, l)
  BY DEF Lock, LockCheck, LockSet, LockStop, LockCancel, LockNil, LockClip, LockEmit,
         LockPost, StopTimer, CancelTimer, NilTimer, ClipAcquire, ClipEmit,
         LockLabels, PastLockSet
<1>2. pc[p] \in LockLabels
  BY DEF Lock, LockCheck, LockSet, LockStop, LockCancel, LockNil, LockClip, LockEmit,
         LockPost, StopTimer, CancelTimer, NilTimer, ClipAcquire, ClipEmit,
         LockLabels, PastLockSet, At
<1>3. UNCHANGED loggedIn /\ (clip' = clip \/ clip' = FALSE)
  BY DEF Lock, LockCheck, LockSet, LockStop, LockCancel, LockNil, LockClip, LockEmit,
         LockPost, StopTimer, CancelTimer, NilTimer, ClipAcquire, ClipEmit, session, board
<1> QED BY <1>1, <1>2, <1>3, MoveKeepsClosed DEF LockLabels, PastLockSet

LEMMA PanicClosed ==
  ASSUME ClipInv, NEW p \in Threads, PanicSteps(p)
  PROVE  CopyWhileOpen' /\ NothingLeftBehind'
<1>1. PICK l \in PanicLabels \cup {"idle"} : Goto(p, l)
  BY DEF PanicSteps, PanicCheck, PanicSet, PanicClip, PanicEmit, PanicPost,
         ClipAcquire, ClipEmit, PanicLabels
<1>2. pc[p] \in PanicLabels
  BY DEF PanicSteps, PanicCheck, PanicSet, PanicClip, PanicEmit, PanicPost,
         ClipAcquire, ClipEmit, PanicLabels, At
<1>3. UNCHANGED loggedIn /\ (clip' = clip \/ clip' = FALSE)
  BY DEF PanicSteps, PanicCheck, PanicSet, PanicClip, PanicEmit, PanicPost,
         ClipAcquire, ClipEmit, session, board
<1> QED BY <1>1, <1>2, <1>3, MoveKeepsClosed DEF PanicLabels

LEMMA ClipInvNext ==
  ASSUME ClipInv, [Next]_vars
  PROVE  CopyWhileOpen' /\ NothingLeftBehind'
<1> DEFINE Goal == CopyWhileOpen' /\ NothingLeftBehind'
<1>t. {"tk", "act", "hot", "clr"} \subseteq Threads /\ Lockers \subseteq Threads
  BY DEF Threads
<1>1. ASSUME NEW w \in Lockers, TimerFires(w) PROVE Goal
  BY <1>1, <1>t, MoveKeepsClosed DEF TimerFires, At, session, board
<1>2. CASE Act
  <2>1. CASE Activity
    <3>1. PICK l \in {"act_prompt", "act_check"} : Goto("act", l)
      BY <2>1 DEF Activity
    <3> QED BY <2>1, <3>1, <1>t, MoveKeepsClosed DEF Activity, At, session, board
  <2>2. CASE ActivityPrompt
    BY <2>2, <1>t, MoveKeepsClosed DEF ActivityPrompt, At, session, board
  <2>3. CASE ActivityCheck
    <3>1. PICK l \in {"idle", "reset_stop"} : Goto("act", l)
      BY <2>3 DEF ActivityCheck
    <3> QED BY <2>3, <3>1, <1>t, MoveKeepsClosed DEF ActivityCheck, At, session, board
  <2> QED BY <1>2, <1>t, <2>1, <2>2, <2>3, ResetClosed DEF Act
<1>3. CASE AutoClear
  BY <1>3, <1>t, MoveKeepsClosed DEF AutoClear, At, session, board
<1>4. CASE Clear
  <2>1. CASE AutoClearClip
    <3>1. PICK l \in {"auto_emit", "idle"} : Goto("clr", l)
      BY <2>1 DEF AutoClearClip, ClipAcquire
    <3> QED BY <2>1, <3>1, <1>t, MoveKeepsClosed
            DEF AutoClearClip, ClipAcquire, At, session
  <2>2. CASE AutoClearEmit
    BY <2>2, <1>t, MoveKeepsClosed DEF AutoClearEmit, ClipEmit, At, session
  <2> QED BY <1>4, <2>1, <2>2 DEF Clear
<1>5. CASE LockUI
  <2>1. pc'["tk"] = "ui_clip"
    BY <1>5, <1>t DEF LockUI, Goto, ClipInv, TypeOK
  <2> QED BY <2>1 DEF CopyWhileOpen, NothingLeftBehind, At
<1>6. CASE UnlockUI
  BY <1>6, StillKeepsClosed DEF UnlockUI, session, board
<1>7. CASE LockUIClip
  <2>1. ~clip' /\ pc'["tk"] = "idle"
    BY <1>7, <1>t DEF LockUIClip, Goto, ClipInv, TypeOK
  <2> QED BY <2>1 DEF CopyWhileOpen, NothingLeftBehind, At
<1>8. CASE UnlockService
  <2>1. PICK l \in {"reset_stop", "unlock_ui"} : Goto("tk", l)
    BY <1>8 DEF UnlockService
  <2> QED BY <1>8, <2>1, <1>t, MoveKeepsClosed DEF UnlockService, At, session, board
<1>9. CASE UnlockCallback
  BY <1>9, <1>t, MoveKeepsClosed DEF UnlockCallback, At, session, board
<1>10. CASE UnlockDone
  BY <1>10, <1>t, MoveKeepsClosed DEF UnlockDone, At, session, board
<1>11. CASE CopyClip
  <2>1. loggedIn'
    BY <1>11 DEF CopyClip, ClipInv, CopyWhileOpen, session
  <2> QED BY <2>1 DEF CopyWhileOpen, NothingLeftBehind
<1>12. CASE Tick
  BY <1>12, <1>t, MoveKeepsClosed DEF Tick, TkIdle, session, board
<1>13. CASE User
  <2>1. CASE Input \/ TypePassword \/ ChangePassword
    BY <2>1, StillKeepsClosed
    DEF Input, TypePassword, ChangePassword, session, board
  <2>2. CASE Unlock
    BY <2>2 DEF Unlock, CopyWhileOpen, NothingLeftBehind
  <2>3. CASE SetTimeout
    BY <2>3, <1>t, MoveKeepsClosed DEF SetTimeout, TkIdle, session, board
  <2>4. CASE ManualLock
    BY <2>4, <1>t, MoveKeepsClosed DEF ManualLock, TkIdle, session, board
  <2>5. CASE Copy
    BY <2>5 DEF Copy, CopyWhileOpen, NothingLeftBehind, session
  <2>6. ASSUME NEW p \in {"hot", "tk"}, PanicKey(p) PROVE Goal
    BY <2>6, <1>t, MoveKeepsClosed DEF PanicKey, At, session, board
  <2> QED BY <1>13, <2>1, <2>2, <2>3, <2>4, <2>5, <2>6 DEF User
<1>14. CASE KeyExpires
  BY <1>14, StillKeepsClosed DEF KeyExpires, board
<1>15. CASE UNCHANGED vars
  BY <1>15, StillKeepsClosed DEF vars, session, board
<1> QED
  BY <1>t, <1>1, <1>2, <1>3, <1>4, <1>5, <1>6, <1>7, <1>8, <1>9, <1>10, <1>11, <1>12,
     <1>13, <1>14, <1>15, LockClosed, ResetClosed, PanicClosed
  DEF Next, Posted, Handler

\* No copied secret outlives the session, on any interpreter: whatever is
\* copied while a lock is on its way is cleared by the handler that closes it.
THEOREM ClipboardClearedOnLock == Spec => []NothingLeftBehind
<1>1. Init => ClipInv
  BY TypeInit DEF Init, ClipInv, CopyWhileOpen, NothingLeftBehind
<1>2. ClipInv /\ [Next]_vars => ClipInv'
  BY TypeNext, ClipInvNext DEF ClipInv
<1>3. ClipInv => NothingLeftBehind
  BY DEF ClipInv
<1> QED BY <1>1, <1>2, <1>3, PTL DEF Spec

-----------------------------------------------------------------------------
(* The watchdog.  While the vault is open and unlocked and no input waits to *)
(* be seen, the timer runs or a thread is on its way to start one, or to     *)
(* lock.  What makes this inductive is who may leave a timer stopped: the    *)
(* thread that cancelled it goes on to replace it or to lock, a thread       *)
(* between the two reads of the attribute does so only while the attribute   *)
(* is not None, and the one that starts the timer only while it is new.      *)

\* Places from which a thread goes on to start a timer or to lock.
Soon == {"act_prompt", "act_check", "reset_stop", "reset_nil", "reset_check", "reset_new",
         "lock_check", "lock_set", "lock_stop", "lock_nil", "lock_clip", "lock_emit",
         "lock_post"}
Late == {"reset_cancel", "lock_cancel"}

Tended ==
  \/ \E p \in Threads : pc[p] \in Soon
  \/ handle # "none" /\ \E p \in Threads : pc[p] \in Late
  \/ handle = "new" /\ \E p \in Threads : pc[p] = "reset_start"
  \/ \E i \in 1..Len(queue) : queue[i] \in {"lock", "panic"}

\* With the password typed the vault is about to be open.
Watched ==
  AutoLockEnabled /\ ~locked /\ ~input /\ (loggedIn \/ overlay = "typed")
  => handle = "armed" \/ Tended

\* No lock is on its way to a window whose password is typed and whose service
\* is not locked: its overlay would stay, and with it the password.
NoLockOnTyped ==
  /\ overlay = "typed" /\ ~locked =>
       /\ \A p \in Threads : pc[p] \notin PastLockSet
       /\ \A i \in 1..Len(queue) : queue[i] # "lock"
  /\ pc["tk"] = "unlock_chk" => overlay = "none"

WatchInv == TypeOK /\ NoLockOnTyped /\ Watched

-----------------------------------------------------------------------------
(* Without a panic key, the window follows the session: the overlay is shown *)
(* when the session is closed and the menus are enabled when it is open.     *)
(* The service stays locked from lock() to the unlock that follows it, so no *)
(* lock is on its way while a password is typed or checked, and an unlock    *)
(* callback is never posted behind a lock.                                   *)

\* "tk" is between the login and the end of the unlock handler.
Unlocking ==
  pc["tk"] \in {"unlock_chk", "unlock_cb"} \/ (unlocking /\ pc["tk"] \in ResetLabels)

NoPanic ==
  /\ \A p \in Threads : pc[p] \notin PanicLabels
  /\ \A i \in 1..Len(queue) : queue[i] # "panic"
  /\ overlay # "dead"

LockedUntilUnlock ==
  /\ \A p \in Threads : pc[p] \in PastLockSet => locked
  /\ \A i \in 1..Len(queue) : queue[i] = "lock" => locked
  /\ pc["tk"] = "ui_clip" \/ overlay # "none" => locked

NoLockOnUnlock ==
  overlay = "typed" \/ pc["tk"] = "unlock_chk" =>
    /\ locked /\ queue = <<>>
    /\ \A p \in Threads : pc[p] \notin {"lock_set"} \cup PastLockSet

UnlockWhileOpen ==
  /\ Unlocking => queue = <<>> /\ loggedIn /\ overlay = "none"
  /\ pc["tk"] = "unlock_ui" => loggedIn
  /\ unlocking => pc["tk"] \in ResetLabels \cup {"unlock_cb", "unlock_ui"}
  /\ \A i \in 1..Len(queue) : queue[i] = "unlock" => i = 1 /\ loggedIn

WindowFollows ==
  /\ (menu <=> loggedIn) \/ Unlocking \/ pc["tk"] = "unlock_ui"
  /\ loggedIn \/ overlay # "none" \/ pc["tk"] = "ui_clip"

DeskInv ==
  TypeOK /\ NoPanic /\ LockedUntilUnlock /\ NoLockOnUnlock /\ UnlockWhileOpen /\ WindowFollows

-----------------------------------------------------------------------------
(* The watchdog, step by step. *)

\* A thread that moves on keeps the timer tended if it goes on to tend it.
LEMMA MoveTends ==
  ASSUME TypeOK, Tended, NEW p \in Threads, NEW l, Goto(p, l), UNCHANGED <<handle, queue>>,
         pc[p] \in Soon => l \in Soon \/ (handle # "none" /\ l \in Late),
         pc[p] \in Late => handle = "none" \/ l \in Soon,
         pc[p] = "reset_start" => handle # "new"
  PROVE  Tended'
<1>1. \A q \in Threads : pc'[q] = IF q = p THEN l ELSE pc[q]
  BY DEF Goto, TypeOK
<1>2. CASE \E q \in Threads : pc[q] \in Soon
  <2>1. PICK q \in Threads : pc[q] \in Soon
    BY <1>2
  <2>2. pc'[q] \in Soon \/ (handle' # "none" /\ pc'[q] \in Late)
    BY <1>1, <2>1
  <2> QED BY <2>2 DEF Tended
<1>3. CASE handle # "none" /\ \E q \in Threads : pc[q] \in Late
  <2>1. PICK q \in Threads : pc[q] \in Late
    BY <1>3
  <2>2. pc'[q] \in Soon \/ pc'[q] \in Late
    BY <1>1, <1>3, <2>1
  <2> QED BY <1>3, <2>2 DEF Tended
<1>4. CASE handle = "new" /\ \E q \in Threads : pc[q] = "reset_start"
  <2>1. PICK q \in Threads : pc[q] = "reset_start"
    BY <1>4
  <2>2. pc'[q] = "reset_start"
    BY <1>1, <1>4, <2>1
  <2> QED BY <1>4, <2>2 DEF Tended
<1>5. CASE \E i \in 1..Len(queue) : queue[i] \in {"lock", "panic"}
  BY <1>5 DEF Tended
<1> QED BY <1>2, <1>3, <1>4, <1>5 DEF Tended

\* A thread moves, and brings no lock under a typed password.
LEMMA MoveKeepsTyped ==
  ASSUME WatchInv, NEW p \in Threads, NEW l, Goto(p, l), UNCHANGED <<locked, queue>>,
         overlay' = overlay \/ (p = "tk" /\ overlay' # "typed"),
         l \in PastLockSet => pc[p] \in PastLockSet, l # "unlock_chk"
  PROVE  NoLockOnTyped'
<1>1. \A q \in Threads : pc'[q] = IF q = p THEN l ELSE pc[q]
  BY DEF Goto, WatchInv, TypeOK
<1>2. "tk" \in Threads
  BY DEF Threads
<1>3. pc'["tk"] = "unlock_chk" => p # "tk" /\ pc["tk"] = "unlock_chk"
  BY <1>1, <1>2
<1>4. ASSUME overlay' = "typed", ~locked, NEW q \in Threads
      PROVE  pc'[q] \notin PastLockSet
  BY <1>1, <1>4 DEF WatchInv, NoLockOnTyped
<1>5. overlay' = "typed" => overlay = "typed"
  OBVIOUS
<1> QED BY <1>3, <1>4, <1>5 DEF WatchInv, NoLockOnTyped

LEMMA WatchMove ==
  ASSUME WatchInv, NEW p \in Threads, NEW l, Goto(p, l),
         UNCHANGED <<handle, locked, loggedIn, queue>>, input' \in {input, TRUE},
         overlay' = overlay \/ (p = "tk" /\ overlay' # "typed"),
         l \in PastLockSet => pc[p] \in PastLockSet, l # "unlock_chk",
         pc[p] \in Soon =>
           locked \/ ~AutoLockEnabled \/ l \in Soon \/ (handle # "none" /\ l \in Late),
         pc[p] \in Late => handle = "none" \/ l \in Soon,
         pc[p] = "reset_start" => handle # "new"
  PROVE  NoLockOnTyped' /\ Watched'
<1>1. NoLockOnTyped'
  BY MoveKeepsTyped
<1>2. ASSUME AutoLockEnabled, ~locked, Tended
      PROVE  Tended'
  BY <1>2, MoveTends DEF WatchInv
<1>3. overlay' = "typed" => overlay = "typed"
  OBVIOUS
<1> QED BY <1>1, <1>2, <1>3 DEF WatchInv, Watched, TypeOK

\* A thread that starts a timer, or is about to, or to lock.
LEMMA WatchTend ==
  ASSUME WatchInv, NEW p \in Threads, NEW l, Goto(p, l), UNCHANGED <<locked, overlay, queue>>,
         l \in PastLockSet => pc[p] \in PastLockSet, l # "unlock_chk",
         l \in Soon \/ handle' = "armed" \/ (handle' = "new" /\ l = "reset_start")
  PROVE  NoLockOnTyped' /\ Watched'
<1>1. pc'[p] = l
  BY DEF Goto, WatchInv, TypeOK
<1> QED BY <1>1, MoveKeepsTyped DEF Watched, Tended

\* A callback is posted.
LEMMA WatchPost ==
  ASSUME WatchInv, NEW p \in Threads, NEW l, Goto(p, l), NEW c,
         queue' = Append(queue, c), UNCHANGED <<handle, locked, loggedIn, overlay, input>>,
         l \notin PastLockSet, l # "unlock_chk", c = "lock" => pc[p] \in PastLockSet,
         pc[p] \in Soon => c = "lock", pc[p] \notin Late, pc[p] # "reset_start"
  PROVE  NoLockOnTyped' /\ Watched'
<1>1. \A q \in Threads : pc'[q] = IF q = p THEN l ELSE pc[q]
  BY DEF Goto, WatchInv, TypeOK
<1>2. /\ Len(queue') = Len(queue) + 1 /\ Len(queue) \in Nat
      /\ queue'[Len(queue) + 1] = c
      /\ \A i \in 1..Len(queue) : queue'[i] = queue[i]
  BY DEF WatchInv, TypeOK
<1>3. NoLockOnTyped'
  <2>1. ASSUME overlay = "typed", ~locked
        PROVE  /\ \A q \in Threads : pc'[q] \notin PastLockSet
               /\ \A i \in 1..Len(queue') : queue'[i] # "lock"
    <3>1. c # "lock"
      BY <2>1 DEF WatchInv, NoLockOnTyped
    <3>2. ASSUME NEW i \in 1..Len(queue') PROVE queue'[i] # "lock"
      <4>1. i \in 1..Len(queue) \/ i = Len(queue) + 1
        BY <1>2
      <4> QED BY <1>2, <2>1, <3>1, <4>1 DEF WatchInv, NoLockOnTyped
    <3> QED BY <1>1, <2>1, <3>2 DEF WatchInv, NoLockOnTyped
  <2>2. pc'["tk"] = "unlock_chk" => pc["tk"] = "unlock_chk"
    BY <1>1 DEF Threads
  <2> QED BY <2>1, <2>2 DEF WatchInv, NoLockOnTyped
<1>4. Tended => Tended'
  <2>1. CASE c = "lock"
    BY <1>2, <2>1 DEF Tended
  <2>2. CASE \E i \in 1..Len(queue) : queue[i] \in {"lock", "panic"}
    BY <1>2, <2>2 DEF Tended
  <2>3. CASE c # "lock" /\ ~\E i \in 1..Len(queue) : queue[i] \in {"lock", "panic"}
    BY <1>1, <2>3 DEF Tended
  <2> QED BY <2>1, <2>2, <2>3
<1> QED BY <1>3, <1>4 DEF WatchInv, Watched

\* Steps that leave the threads where they are.
LEMMA WatchStill ==
  ASSUME WatchInv, UNCHANGED <<handle, locked, loggedIn, overlay, queue, pc>>,
         input' \in {input, TRUE}
  PROVE  NoLockOnTyped' /\ Watched'
  BY DEF WatchInv, NoLockOnTyped, Watched, Tended, TypeOK

LEMMA ResetWatched ==
  ASSUME WatchInv, NEW p \in Threads, Reset(p)
  PROVE  NoLockOnTyped' /\ Watched'
<1>0. \A raised : AfterReset(p, raised) \in {"unlock_ui", "unlock_cb", "idle"}
  BY AfterResetIdle
<1>1. CASE ResetStop(p)
  <2>1. CASE handle = "none"
    BY <1>1, <2>1, WatchMove, LabelSet
    DEF ResetStop, StopTimer, At, session, desk, Soon, Late
  <2>2. CASE handle # "none" /\ SwitchAnywhere
    BY <1>1, <2>2, WatchMove, LabelSet
    DEF ResetStop, StopTimer, At, session, desk, Soon, Late
  <2>3. CASE handle # "none" /\ ~SwitchAnywhere
    BY <1>1, <2>3, WatchTend, LabelSet DEF ResetStop, StopTimer, session, desk, Soon
  <2> QED BY <2>1, <2>2, <2>3
<1>2. CASE ResetCancel(p)
  <2>1. CASE handle = "none"
    <3>1. PICK l \in {"unlock_ui", "unlock_cb", "idle"} : Goto(p, l)
      BY <1>0, <1>2, <2>1 DEF ResetCancel, CancelTimer
    <3>2. handle' = handle
      BY <1>2, <2>1 DEF ResetCancel, CancelTimer, Cancelled
    <3> QED BY <1>2, <2>1, <3>1, <3>2, WatchMove, LabelSet
            DEF ResetCancel, CancelTimer, At, session, desk, Soon, Late
  <2>2. CASE handle # "none"
    BY <1>2, <2>2, WatchTend, LabelSet DEF ResetCancel, CancelTimer, session, desk, Soon
  <2> QED BY <2>1, <2>2
<1>3. CASE ResetNil(p)
  BY <1>3, WatchTend, LabelSet DEF ResetNil, NilTimer, session, desk, Soon
<1>4. CASE ResetCheck(p)
  <2>1. CASE AutoLockEnabled /\ ~locked
    BY <1>4, <2>1, WatchTend, LabelSet DEF ResetCheck, session, service, desk, Soon
  <2>2. CASE ~(AutoLockEnabled /\ ~locked)
    <3>1. PICK l \in {"unlock_ui", "unlock_cb", "idle"} : Goto(p, l)
      BY <1>0, <1>4, <2>2 DEF ResetCheck
    <3>2. locked \/ ~AutoLockEnabled
      BY <2>2
    <3> QED BY <1>4, <3>1, <3>2, WatchMove, LabelSet
            DEF ResetCheck, At, session, service, desk, Soon, Late
  <2> QED BY <2>1, <2>2
<1>5. CASE ResetNew(p)
  BY <1>5, WatchTend, LabelSet DEF ResetNew, Refer, session, desk
<1>6. CASE ResetStart(p)
  <2>1. PICK l \in {"unlock_ui", "unlock_cb", "idle"} : Goto(p, l)
    BY <1>0, <1>6 DEF ResetStart
  <2>2. CASE handle = "new"
    BY <1>6, <2>1, <2>2, WatchTend, LabelSet DEF ResetStart, session, desk
  <2>3. CASE handle = "void"
    <3>1. handle' = "spent" /\ UNCHANGED <<locked, loggedIn, overlay, input, queue>>
      BY <1>6, <2>3 DEF ResetStart, session, desk
    <3>2. NoLockOnTyped'
      BY <2>1, <3>1, MoveKeepsTyped, LabelSet
    <3>3. \A q \in Threads : pc[q] \in Soon \cup Late => pc'[q] = pc[q]
      BY <1>6, <2>1 DEF ResetStart, At, Goto, Soon, Late, WatchInv, TypeOK
    <3>4. Tended => Tended'
      BY <2>3, <3>1, <3>3 DEF Tended
    <3> QED BY <2>3, <3>1, <3>2, <3>4 DEF WatchInv, Watched
  <2>4. CASE handle \notin {"new", "void"}
    <3>1. handle' = handle
      BY <1>6, <2>4 DEF ResetStart
    <3> QED BY <1>6, <2>1, <2>4, <3>1, WatchMove, LabelSet
            DEF ResetStart, At, session, desk, Soon, Late
  <2> QED BY <2>2, <2>3, <2>4
<1> QED BY <1>1, <1>2, <1>3, <1>4, <1>5, <1>6 DEF Reset

LEMMA LockWatched ==
  ASSUME WatchInv, NEW p \in Threads, Lock(p)
  PROVE  NoLockOnTyped' /\ Watched'
<1>1. CASE LockCheck(p)
  <2>1. PICK l \in {"idle", "lock_set"} : Goto(p, l) /\ (l = "idle" => locked)
    BY <1>1 DEF LockCheck
  <2> QED BY <1>1, <2>1, WatchMove, LabelSet
          DEF LockCheck, At, session, service, desk, Soon, Late
<1>2. CASE LockSet(p)
  <2>1. locked' /\ UNCHANGED overlay
    BY <1>2 DEF LockSet, desk
  <2>2. pc'["tk"] = "unlock_chk" => pc["tk"] = "unlock_chk"
    BY <1>2 DEF LockSet, Goto, WatchInv, TypeOK, Threads
  <2> QED BY <2>1, <2>2 DEF WatchInv, NoLockOnTyped, Watched
<1>3. CASE LockStop(p)
  <2>1. CASE handle = "none"
    BY <1>3, <2>1, WatchMove, LabelSet
    DEF LockStop, StopTimer, At, session, desk, Soon, Late
  <2>2. CASE handle # "none" /\ SwitchAnywhere
    BY <1>3, <2>2, WatchMove, LabelSet
    DEF LockStop, StopTimer, At, session, desk, Soon, Late
  <2>3. CASE handle # "none" /\ ~SwitchAnywhere
    BY <1>3, <2>3, WatchTend, LabelSet DEF LockStop, StopTimer, At, session, desk, Soon
  <2> QED BY <2>1, <2>2, <2>3
<1>4. CASE LockCancel(p)
  <2>1. CASE handle = "none"
    <3>1. handle' = handle /\ Goto(p, "idle")
      BY <1>4, <2>1 DEF LockCancel, CancelTimer, Cancelled
    <3> QED BY <1>4, <2>1, <3>1, WatchMove, LabelSet
            DEF LockCancel, CancelTimer, At, session, desk, Soon, Late
  <2>2. CASE handle # "none"
    BY <1>4, <2>2, WatchTend, LabelSet DEF LockCancel, CancelTimer, At, session, desk, Soon
  <2> QED BY <2>1, <2>2
<1>5. CASE LockNil(p)
  BY <1>5, WatchTend, LabelSet DEF LockNil, NilTimer, At, session, desk, Soon
<1>6. CASE LockClip(p)
  <2>1. PICK l \in {"lock_emit", "lock_post"} : Goto(p, l)
    BY <1>6 DEF LockClip, ClipAcquire
  <2> QED BY <1>6, <2>1, WatchMove, LabelSet
          DEF LockClip, ClipAcquire, At, session, service, desk, Soon, Late
<1>7. CASE LockEmit(p)
  BY <1>7, WatchMove, LabelSet DEF LockEmit, ClipEmit, At, session, service, desk, Soon, Late
<1>8. CASE LockPost(p)
  BY <1>8, WatchPost, LabelSet DEF LockPost, At, session, service, desk, Soon, Late
<1> QED BY <1>1, <1>2, <1>3, <1>4, <1>5, <1>6, <1>7, <1>8 DEF Lock

LEMMA PanicWatched ==
  ASSUME WatchInv, NEW p \in Threads, PanicSteps(p)
  PROVE  NoLockOnTyped' /\ Watched'
<1>1. CASE PanicCheck(p)
  <2>1. PICK l \in {"panic_set", "idle"} : Goto(p, l)
    BY <1>1 DEF PanicCheck
  <2> QED BY <1>1, <2>1, WatchMove, LabelSet
          DEF PanicCheck, At, session, service, desk, Soon, Late
<1>2. CASE PanicSet(p)
  BY <1>2, WatchMove, LabelSet DEF PanicSet, At, session, service, desk, Soon, Late
<1>3. CASE PanicClip(p)
  <2>1. PICK l \in {"panic_emit", "panic_post"} : Goto(p, l)
    BY <1>3 DEF PanicClip, ClipAcquire
  <2> QED BY <1>3, <2>1, WatchMove, LabelSet
          DEF PanicClip, ClipAcquire, At, session, service, desk, Soon, Late
<1>4. CASE PanicEmit(p)
  BY <1>4, WatchMove, LabelSet DEF PanicEmit, ClipEmit, At, session, service, desk, Soon, Late
<1>5. CASE PanicPost(p)
  BY <1>5, WatchPost, LabelSet DEF PanicPost, At, session, service, desk, Soon, Late
<1> QED BY <1>1, <1>2, <1>3, <1>4, <1>5 DEF PanicSteps

LEMMA WatchNext ==
  ASSUME WatchInv, [Next]_vars
  PROVE  NoLockOnTyped' /\ Watched'
<1> DEFINE Goal == NoLockOnTyped' /\ Watched'
<1>t. {"tk", "act", "hot", "clr"} \subseteq Threads /\ Lockers \subseteq Threads
  BY DEF Threads
<1>1. ASSUME NEW w \in Lockers, TimerFires(w) PROVE Goal
  BY <1>1, <1>t, WatchTend, LabelSet DEF TimerFires, session, desk, Soon
<1>2. CASE Act
  <2>1. CASE Activity
    <3>1. PICK l \in {"act_prompt", "act_check"} : Goto("act", l)
      BY <2>1 DEF Activity
    <3> QED BY <2>1, <3>1, <1>t, WatchTend, LabelSet DEF Activity, service, Soon
  <2>2. CASE ActivityPrompt
    BY <2>2, <1>t, WatchTend, LabelSet DEF ActivityPrompt, service, desk, Soon
  <2>3. CASE ActivityCheck
    <3>1. PICK l \in {"idle", "reset_stop"} : Goto("act", l) /\ (l = "idle" => locked)
      BY <2>3 DEF ActivityCheck
    <3> QED BY <2>3, <3>1, <1>t, WatchMove, LabelSet
            DEF ActivityCheck, At, session, service, desk, Soon, Late
  <2> QED BY <1>2, <1>t, <2>1, <2>2, <2>3, ResetWatched DEF Act
<1>3. CASE AutoClear
  BY <1>3, <1>t, WatchMove, LabelSet DEF AutoClear, At, session, service, desk, Soon, Late
<1>4. CASE Clear
  <2>1. CASE AutoClearClip
    <3>1. PICK l \in {"auto_emit", "idle"} : Goto("clr", l)
      BY <2>1 DEF AutoClearClip, ClipAcquire
    <3> QED BY <2>1, <3>1, <1>t, WatchMove, LabelSet
            DEF AutoClearClip, ClipAcquire, At, session, service, desk, Soon, Late
  <2>2. CASE AutoClearEmit
    BY <2>2, <1>t, WatchMove, LabelSet
    DEF AutoClearEmit, ClipEmit, At, session, service, desk, Soon, Late
  <2> QED BY <1>4, <2>1, <2>2 DEF Clear
<1>5. CASE LockUI
  <2>1. /\ ~loggedIn' /\ UNCHANGED locked /\ queue # <<>> /\ queue' = Tail(queue)
        /\ Head(queue) \in {"lock", "panic"}
        /\ overlay' = IF Head(queue) = "panic" /\ overlay # "none" THEN "dead" ELSE overlay
    BY <1>5 DEF LockUI, service
  <2>2. 1 \in 1..Len(queue) /\ queue[1] = Head(queue)
    BY <2>1 DEF WatchInv, TypeOK
  <2>3. ~(overlay' = "typed" /\ ~locked)
    BY <2>1, <2>2 DEF WatchInv, NoLockOnTyped
  <2>4. pc'["tk"] # "unlock_chk"
    BY <1>5, <1>t DEF LockUI, Goto, WatchInv, TypeOK
  <2> QED BY <2>1, <2>3, <2>4 DEF NoLockOnTyped, Watched
<1>6. CASE UnlockUI
  <2>1. /\ Len(queue') = Len(queue) - 1 /\ Len(queue) \in Nat \ {0}
        /\ \A i \in 1..Len(queue') : queue'[i] = queue[i + 1]
        /\ queue[1] = "unlock"
    BY <1>6 DEF UnlockUI, WatchInv, TypeOK
  <2>2. ASSUME NEW i \in 1..Len(queue), queue[i] \in {"lock", "panic"}
        PROVE  \E j \in 1..Len(queue') : queue'[j] \in {"lock", "panic"}
    <3>1. i # 1
      BY <2>1, <2>2
    <3>2. i - 1 \in 1..Len(queue') /\ queue'[i - 1] = queue[i]
      BY <2>1, <3>1
    <3> QED BY <2>2, <3>2
  <2>3. overlay' = "none" /\ UNCHANGED <<handle, locked, loggedIn, input, pc>>
    BY <1>6 DEF UnlockUI, ShowUnlocked, HideOverlay, session, service
  <2>4. Tended => Tended'
    BY <2>2, <2>3 DEF Tended
  <2> QED BY <2>3, <2>4 DEF WatchInv, NoLockOnTyped, Watched
<1>7. CASE LockUIClip
  BY <1>7, <1>t, WatchMove, LabelSet
  DEF LockUIClip, At, session, service, Soon, Late
<1>8. CASE UnlockService
  <2>1. CASE locked
    <3>1. pc["tk"] = "unlock_chk" /\ pc'["tk"] = "reset_stop" /\ UNCHANGED overlay
      BY <1>8, <2>1, <1>t DEF UnlockService, At, Goto, desk, WatchInv, TypeOK
    <3>2. overlay' # "typed"
      BY <3>1 DEF WatchInv, NoLockOnTyped
    <3> QED BY <3>1, <3>2, <1>t DEF NoLockOnTyped, Watched, Tended, Soon
  <2>2. CASE ~locked
    BY <1>8, <2>2, <1>t, WatchMove, LabelSet
    DEF UnlockService, At, session, desk, Soon, Late
  <2> QED BY <2>1, <2>2
<1>9. CASE UnlockCallback
  BY <1>9, <1>t, WatchPost, LabelSet DEF UnlockCallback, At, session, service, desk, Soon, Late
<1>10. CASE UnlockDone
  BY <1>10, <1>t, WatchMove, LabelSet
  DEF UnlockDone, ShowUnlocked, HideOverlay, At, session, service, Soon, Late
<1>11. CASE CopyClip
  BY <1>11, <1>t, WatchMove, LabelSet DEF CopyClip, At, session, service, desk, Soon, Late
<1>12. CASE Tick
  BY <1>12, <1>t, WatchMove, LabelSet
  DEF Tick, TkIdle, session, service, desk, Soon, Late
<1>13. CASE User
  <2>1. CASE Input \/ ChangePassword
    BY <2>1, WatchStill DEF Input, ChangePassword, ByUser, session, service
  <2>2. CASE TypePassword
    BY <2>2, <1>t, LabelSet
    DEF TypePassword, ByUser, Calm, At, TkIdle, NoLockOnTyped, Watched
  <2>3. CASE Unlock
    <3>1. /\ overlay = "typed" /\ overlay' = "none" /\ pc["tk"] = "idle"
          /\ Goto("tk", "unlock_chk") /\ UNCHANGED <<handle, locked, input, queue>>
      BY <2>3 DEF Unlock, TkIdle, HideOverlay, service
    <3>2. Tended => Tended'
      BY <3>1, <1>t, MoveTends DEF WatchInv, Soon, Late
    <3> QED BY <3>1, <3>2 DEF WatchInv, NoLockOnTyped, Watched
  <2>4. CASE SetTimeout
    BY <2>4, <1>t, WatchMove, LabelSet
    DEF SetTimeout, ByUser, TkIdle, session, service, Soon, Late
  <2>5. CASE ManualLock
    BY <2>5, <1>t, WatchMove, LabelSet
    DEF ManualLock, ByUser, TkIdle, session, service, Soon, Late
  <2>6. CASE Copy
    BY <2>6, <1>t, WatchMove, LabelSet
    DEF Copy, ByUser, TkIdle, session, service, Soon, Late
  <2>7. ASSUME NEW p \in {"hot", "tk"}, PanicKey(p) PROVE Goal
    BY <2>7, <1>t, WatchMove, LabelSet
    DEF PanicKey, ByUser, At, session, service, Soon, Late
  <2> QED BY <1>13, <2>1, <2>2, <2>3, <2>4, <2>5, <2>6, <2>7 DEF User
<1>14. CASE KeyExpires
  BY <1>14, WatchStill DEF KeyExpires, service, desk
<1>15. CASE UNCHANGED vars
  BY <1>15, WatchStill DEF vars, session, service, desk
<1> QED
  BY <1>t, <1>1, <1>2, <1>3, <1>4, <1>5, <1>6, <1>7, <1>8, <1>9, <1>10, <1>11, <1>12,
     <1>13, <1>14, <1>15, LockWatched, ResetWatched, PanicWatched
  DEF Next, Posted, Handler

\* The watchdog is never lost, on any interpreter, for any number of timer
\* threads and however the panic key is heard: when nothing is under way, a
\* vault that is open and not locked has the timer its service refers to
\* running.
THEOREM WatchdogNeverLost == Spec => []WatchdogArmed
<1>1. Init => WatchInv
  <2>1. Init => NoLockOnTyped /\ Watched
    BY DEF Init, NoLockOnTyped, Watched, Threads
  <2> QED BY <2>1, TypeInit DEF WatchInv
<1>2. WatchInv /\ [Next]_vars => WatchInv'
  BY TypeNext, WatchNext DEF WatchInv
<1>3. WatchInv => WatchdogArmed
  <2> SUFFICES ASSUME WatchInv, AutoLockEnabled, loggedIn, ~locked, ~input, Calm
               PROVE  handle = "armed"
    BY DEF WatchdogArmed
  <2>1. ~Tended
    BY DEF Calm, At, Tended, Soon, Late
  <2> QED BY <2>1 DEF WatchInv, Watched
<1> QED BY <1>1, <1>2, <1>3, PTL DEF Spec

-----------------------------------------------------------------------------
(* The window, step by step. *)

Desk == NoPanic /\ LockedUntilUnlock /\ NoLockOnUnlock /\ UnlockWhileOpen /\ WindowFollows

\* Where "tk" is while it applies a lock or an unlock to the window.
Applying == {"ui_clip", "unlock_chk", "unlock_cb", "unlock_ui"}

LEMMA DeskLabels ==
  /\ ResetLabels = {"reset_stop", "reset_cancel", "reset_nil", "reset_check", "reset_new",
                    "reset_start"}
  /\ PastLockSet = {"lock_stop", "lock_cancel", "lock_nil", "lock_clip", "lock_emit",
                    "lock_post"}
  /\ PanicLabels = {"panic_check", "panic_set", "panic_clip", "panic_emit", "panic_post"}
  BY DEF ResetLabels, PastLockSet, PanicLabels

\* A thread moves, and neither enters lock() past its flag nor the handlers
\* that change the window.
LEMMA DeskMove ==
  ASSUME DeskInv, NEW p \in Threads, NEW l, Goto(p, l),
         UNCHANGED <<loggedIn, locked, overlay, menu, queue, unlocking>>,
         l \notin PanicLabels, l \in PastLockSet => pc[p] \in PastLockSet,
         l = "lock_set" => ~locked,
         p = "tk" => pc[p] \notin Applying /\ l \notin Applying,
         pc[p] \in ResetLabels => ~(p = "tk" /\ unlocking) \/ l \in ResetLabels
  PROVE  Desk'
<1>1. \A q \in Threads : pc'[q] = IF q = p THEN l ELSE pc[q]
  BY DEF Goto, DeskInv, TypeOK
<1>t. "tk" \in Threads
  BY DEF Threads
<1>2. NoPanic'
  BY <1>1 DEF DeskInv, NoPanic
<1>3. \A q \in Threads : pc'[q] \in PastLockSet => pc[q] \in PastLockSet
  BY <1>1
<1>4. \A c \in Applying : pc'["tk"] = c <=> pc["tk"] = c
  BY <1>1, <1>t
<1>5. LockedUntilUnlock'
  BY <1>3, <1>4 DEF DeskInv, LockedUntilUnlock, Applying
<1>6. NoLockOnUnlock'
  <2>1. ASSUME overlay = "typed" \/ pc["tk"] = "unlock_chk", NEW q \in Threads
        PROVE  pc'[q] \notin {"lock_set"} \cup PastLockSet
    BY <1>1, <1>3, <2>1 DEF DeskInv, NoLockOnUnlock
  <2> QED BY <1>4, <2>1 DEF DeskInv, NoLockOnUnlock, Applying
<1>7. unlocking => (pc'["tk"] \in ResetLabels <=> pc["tk"] \in ResetLabels)
  BY <1>1, <1>t DEF DeskInv, UnlockWhileOpen, Applying
<1>8. Unlocking' <=> Unlocking
  BY <1>4, <1>7 DEF Unlocking, Applying
<1>9. UnlockWhileOpen'
  BY <1>4, <1>7, <1>8 DEF DeskInv, UnlockWhileOpen, Applying
<1>10. WindowFollows'
  BY <1>4, <1>8 DEF DeskInv, WindowFollows, Applying
<1> QED BY <1>2, <1>5, <1>6, <1>9, <1>10 DEF Desk

\* Steps that leave the threads where they are.
LEMMA DeskStill ==
  ASSUME DeskInv, UNCHANGED <<loggedIn, locked, overlay, menu, queue, unlocking, pc>>
  PROVE  Desk'
  BY DEF DeskInv, Desk, NoPanic, LockedUntilUnlock, NoLockOnUnlock, UnlockWhileOpen,
         WindowFollows, Unlocking

\* "tk" outside the unlock handler is not unlocking.
LEMMA NotUnlocking ==
  ASSUME UnlockWhileOpen, pc["tk"] \notin ResetLabels \cup Applying
  PROVE  ~unlocking /\ ~Unlocking
  BY DEF UnlockWhileOpen, Unlocking, Applying

\* _reset_lock_timer returns, or raises, into unlock().
LEMMA ResetReturns ==
  ASSUME DeskInv, NEW p \in Threads, pc[p] \in ResetLabels, NEW raised \in BOOLEAN,
         Goto(p, AfterReset(p, raised)),
         UNCHANGED <<loggedIn, locked, overlay, menu, queue, unlocking>>
  PROVE  Desk'
<1>1. CASE p = "tk" /\ unlocking
  <2>1. PICK l \in {"unlock_ui", "unlock_cb"} : Goto("tk", l)
    BY <1>1 DEF AfterReset
  <2>2. \A q \in Threads : pc'[q] = IF q = "tk" THEN l ELSE pc[q]
    BY <2>1 DEF Goto, DeskInv, TypeOK
  <2>3. "tk" \in Threads /\ pc'["tk"] = l
    BY <2>2 DEF Threads
  <2>4. Unlocking /\ queue = <<>> /\ loggedIn /\ overlay = "none"
    BY <1>1 DEF DeskInv, UnlockWhileOpen, Unlocking
  <2>5. NoPanic' /\ LockedUntilUnlock' /\ NoLockOnUnlock'
    BY <2>2, <2>3, <2>4, DeskLabels
    DEF DeskInv, NoPanic, LockedUntilUnlock, NoLockOnUnlock, Labels
  <2>6. UnlockWhileOpen'
    BY <2>3, <2>4 DEF UnlockWhileOpen, Unlocking
  <2>7. WindowFollows'
    BY <2>3, <2>4 DEF WindowFollows, Unlocking
  <2> QED BY <2>5, <2>6, <2>7 DEF Desk
<1>2. CASE ~(p = "tk" /\ unlocking)
  <2>1. Goto(p, "idle")
    BY <1>2 DEF AfterReset
  <2> QED BY <1>2, <2>1, DeskMove, DeskLabels DEF Applying
<1> QED BY <1>1, <1>2

LEMMA ResetDesk ==
  ASSUME DeskInv, NEW p \in Threads, Reset(p)
  PROVE  Desk'
<1>1. CASE ResetStop(p)
  <2>1. PICK l \in {"reset_check", "reset_cancel", "reset_nil"} : Goto(p, l)
    BY <1>1 DEF ResetStop, StopTimer
  <2> QED BY <1>1, <2>1, DeskMove, DeskLabels
          DEF ResetStop, StopTimer, At, session, desk, Applying
<1>2. CASE ResetCancel(p)
  <2>1. CASE handle = "none"
    BY <1>2, <2>1, ResetReturns, DeskLabels DEF ResetCancel, CancelTimer, At, session, desk
  <2>2. CASE handle # "none"
    BY <1>2, <2>2, DeskMove, DeskLabels
    DEF ResetCancel, CancelTimer, At, session, desk, Applying
  <2> QED BY <2>1, <2>2
<1>3. CASE ResetNil(p)
  BY <1>3, DeskMove, DeskLabels DEF ResetNil, NilTimer, At, session, desk, Applying
<1>4. CASE ResetCheck(p)
  <2>1. CASE AutoLockEnabled /\ ~locked
    BY <1>4, <2>1, DeskMove, DeskLabels DEF ResetCheck, At, session, service, desk, Applying
  <2>2. CASE ~(AutoLockEnabled /\ ~locked)
    BY <1>4, <2>2, ResetReturns, DeskLabels DEF ResetCheck, At, session, service, desk
  <2> QED BY <2>1, <2>2
<1>5. CASE ResetNew(p)
  BY <1>5, DeskMove, DeskLabels DEF ResetNew, At, session, desk, Applying
<1>6. CASE ResetStart(p)
  <2>1. (handle \notin {"new", "void"}) \in BOOLEAN
    OBVIOUS
  <2> QED BY <1>6, <2>1, ResetReturns, DeskLabels DEF ResetStart, At, session, desk
<1> QED BY <1>1, <1>2, <1>3, <1>4, <1>5, <1>6 DEF Reset

\* lock() sets its flag: nobody is typing a password or being unlocked.
LEMMA LockSetDesk ==
  ASSUME DeskInv, NEW p \in Threads, LockSet(p)
  PROVE  Desk'
<1>1. /\ locked' /\ pc[p] = "lock_set"
      /\ UNCHANGED <<loggedIn, overlay, menu, queue, unlocking>>
  BY DEF LockSet, At, session, desk
<1>2. \A q \in Threads : pc'[q] = IF q = p THEN "lock_stop" ELSE pc[q]
  BY DEF LockSet, Goto, DeskInv, TypeOK
<1>3. overlay # "typed" /\ pc["tk"] # "unlock_chk"
  BY <1>1 DEF DeskInv, NoLockOnUnlock
<1>4. \A c \in Applying \cup ResetLabels : pc'["tk"] = c <=> pc["tk"] = c
  BY <1>1, <1>2, DeskLabels DEF Applying, ResetLabels, Threads
<1>5. Unlocking' <=> Unlocking
  BY <1>1, <1>4 DEF Unlocking, Applying, ResetLabels
<1>6. NoPanic' /\ LockedUntilUnlock' /\ NoLockOnUnlock'
  BY <1>1, <1>2, <1>3, <1>4, DeskLabels
  DEF DeskInv, NoPanic, LockedUntilUnlock, NoLockOnUnlock, Applying
<1>7. UnlockWhileOpen' /\ WindowFollows'
  BY <1>1, <1>4, <1>5 DEF DeskInv, UnlockWhileOpen, WindowFollows, Applying, ResetLabels
<1> QED BY <1>6, <1>7 DEF Desk

\* lock() posts its callback: "tk" is outside the unlock handler.
LEMMA LockPostDesk ==
  ASSUME DeskInv, NEW p \in Threads, LockPost(p)
  PROVE  Desk'
<1>t. "tk" \in Threads
  BY DEF Threads
<1>1. /\ pc[p] = "lock_post" /\ (p = "tk" \/ pc["tk"] = "idle")
      /\ UNCHANGED <<loggedIn, locked, overlay, menu, unlocking>>
  BY DEF LockPost, At, TkServes, TkIdle, session, service, desk
<1>2. /\ Len(queue') = Len(queue) + 1 /\ Len(queue) \in Nat
      /\ queue'[Len(queue) + 1] = "lock"
      /\ \A i \in 1..Len(queue) : queue'[i] = queue[i]
  BY DEF LockPost, DeskInv, TypeOK
<1>3. \A q \in Threads : pc'[q] = IF q = p THEN "idle" ELSE pc[q]
  BY DEF LockPost, Goto, DeskInv, TypeOK
<1>4. pc["tk"] \in {"idle", "lock_post"} /\ pc'["tk"] = "idle"
  BY <1>1, <1>3, <1>t
<1>5. locked /\ overlay # "typed"
  BY <1>1, DeskLabels DEF DeskInv, LockedUntilUnlock, NoLockOnUnlock
<1>6. ~unlocking /\ ~Unlocking /\ ~Unlocking'
  BY <1>1, <1>4, NotUnlocking, DeskLabels DEF DeskInv, Applying, Unlocking
<1>7. \A i \in 1..Len(queue') : i \in 1..Len(queue) \/ queue'[i] = "lock"
  <2>1. ASSUME NEW i \in 1..Len(queue') PROVE i \in 1..Len(queue) \/ i = Len(queue) + 1
    BY <1>2
  <2> QED BY <1>2, <2>1
<1>8. NoPanic' /\ LockedUntilUnlock' /\ NoLockOnUnlock'
  BY <1>1, <1>2, <1>3, <1>4, <1>5, <1>7, DeskLabels
  DEF DeskInv, NoPanic, LockedUntilUnlock, NoLockOnUnlock
<1>9. \A i \in 1..Len(queue') : queue'[i] = "unlock" => i = 1 /\ loggedIn
  BY <1>2, <1>7 DEF DeskInv, UnlockWhileOpen
<1>10. UnlockWhileOpen'
  BY <1>1, <1>4, <1>6, <1>9 DEF UnlockWhileOpen
<1>11. WindowFollows'
  BY <1>1, <1>4, <1>6 DEF DeskInv, WindowFollows
<1> QED BY <1>8, <1>10, <1>11 DEF Desk

LEMMA LockDesk ==
  ASSUME DeskInv, NEW p \in Threads, Lock(p)
  PROVE  Desk'
<1>1. CASE LockCheck(p)
  <2>1. PICK l \in {"idle", "lock_set"} : Goto(p, l) /\ (l = "lock_set" => ~locked)
    BY <1>1 DEF LockCheck
  <2> QED BY <1>1, <2>1, DeskMove, DeskLabels
          DEF LockCheck, At, session, service, desk, Applying
<1>2. CASE LockStop(p)
  <2>1. PICK l \in {"lock_clip", "lock_cancel", "lock_nil"} : Goto(p, l)
    BY <1>2 DEF LockStop, StopTimer
  <2> QED BY <1>2, <2>1, DeskMove, DeskLabels
          DEF LockStop, StopTimer, At, session, desk, Applying
<1>3. CASE LockCancel(p)
  <2>1. PICK l \in {"lock_nil", "idle"} : Goto(p, l)
    BY <1>3 DEF LockCancel, CancelTimer
  <2> QED BY <1>3, <2>1, DeskMove, DeskLabels
          DEF LockCancel, CancelTimer, At, session, desk, Applying
<1>4. CASE LockNil(p)
  BY <1>4, DeskMove, DeskLabels DEF LockNil, NilTimer, At, session, desk, Applying
<1>5. CASE LockClip(p)
  <2>1. PICK l \in {"lock_emit", "lock_post"} : Goto(p, l)
    BY <1>5 DEF LockClip, ClipAcquire
  <2> QED BY <1>5, <2>1, DeskMove, DeskLabels
          DEF LockClip, ClipAcquire, At, session, service, desk, Applying
<1>6. CASE LockEmit(p)
  BY <1>6, DeskMove, DeskLabels DEF LockEmit, ClipEmit, At, session, service, desk, Applying
<1> QED BY <1>1, <1>2, <1>3, <1>4, <1>5, <1>6, LockSetDesk, LockPostDesk DEF Lock

\* The window closes the session.
LEMMA LockUIDesk ==
  ASSUME DeskInv, LockUI
  PROVE  Desk'
<1>t. "tk" \in Threads
  BY DEF Threads
<1>1. /\ ~loggedIn' /\ ~menu' /\ pc["tk"] = "idle" /\ queue # <<>>
      /\ queue' = Tail(queue) /\ Head(queue) \in {"lock", "panic"}
      /\ UNCHANGED <<locked, unlocking>>
  BY DEF LockUI, TkIdle, service
<1>2. /\ Len(queue') = Len(queue) - 1 /\ Len(queue) \in Nat \ {0}
      /\ \A i \in 1..Len(queue') : queue'[i] = queue[i + 1]
      /\ queue[1] = Head(queue) /\ 1 \in 1..Len(queue)
  BY <1>1 DEF DeskInv, TypeOK
<1>3. queue[1] = "lock" /\ locked /\ overlay \notin {"typed", "dead"}
  BY <1>1, <1>2 DEF DeskInv, NoPanic, LockedUntilUnlock, NoLockOnUnlock
<1>4. overlay' = overlay
  BY <1>2, <1>3 DEF LockUI
<1>5. \A q \in Threads : pc'[q] = IF q = "tk" THEN "ui_clip" ELSE pc[q]
  BY DEF LockUI, Goto, DeskInv, TypeOK
<1>6. ~unlocking /\ ~Unlocking'
  BY <1>1, <1>5, <1>t, NotUnlocking, DeskLabels DEF DeskInv, Applying, Unlocking
<1>7. \A i \in 1..Len(queue') : i + 1 \in 1..Len(queue) /\ i + 1 # 1
  BY <1>2
<1>8. \A i \in 1..Len(queue') : queue'[i] \notin {"panic", "unlock"}
  BY <1>2, <1>7 DEF DeskInv, NoPanic, UnlockWhileOpen
<1>9. NoPanic' /\ LockedUntilUnlock' /\ NoLockOnUnlock'
  BY <1>1, <1>3, <1>4, <1>5, <1>8, <1>t, DeskLabels
  DEF DeskInv, NoPanic, LockedUntilUnlock, NoLockOnUnlock
<1>10. UnlockWhileOpen' /\ WindowFollows'
  BY <1>1, <1>5, <1>6, <1>8, <1>t DEF UnlockWhileOpen, WindowFollows
<1> QED BY <1>9, <1>10 DEF Desk

\* The window opens again, on the callback unlock() posted.
LEMMA UnlockUIDesk ==
  ASSUME DeskInv, UnlockUI
  PROVE  Desk'
<1>1. /\ menu' /\ overlay' = "none" /\ pc["tk"] = "idle" /\ queue # <<>>
      /\ queue' = Tail(queue) /\ Head(queue) = "unlock"
      /\ UNCHANGED <<loggedIn, locked, unlocking, pc>>
  BY DEF UnlockUI, ShowUnlocked, HideOverlay, TkIdle, session, service
<1>2. /\ Len(queue') = Len(queue) - 1 /\ Len(queue) \in Nat \ {0}
      /\ \A i \in 1..Len(queue') : queue'[i] = queue[i + 1]
      /\ queue[1] = "unlock" /\ 1 \in 1..Len(queue)
  BY <1>1 DEF DeskInv, TypeOK
<1>3. loggedIn
  BY <1>2 DEF DeskInv, UnlockWhileOpen
<1>4. ~unlocking /\ ~Unlocking'
  BY <1>1, NotUnlocking, DeskLabels DEF DeskInv, Applying, Unlocking
<1>5. \A i \in 1..Len(queue') : i + 1 \in 1..Len(queue) /\ i + 1 # 1
  BY <1>2
<1>6. \A i \in 1..Len(queue') :
        /\ queue'[i] \notin {"panic", "unlock"}
        /\ queue'[i] = "lock" => locked
  BY <1>2, <1>5 DEF DeskInv, NoPanic, UnlockWhileOpen, LockedUntilUnlock
<1>7. NoPanic' /\ LockedUntilUnlock' /\ NoLockOnUnlock'
  BY <1>1, <1>6 DEF DeskInv, NoPanic, LockedUntilUnlock, NoLockOnUnlock
<1>8. UnlockWhileOpen' /\ WindowFollows'
  BY <1>1, <1>3, <1>4, <1>6 DEF UnlockWhileOpen, WindowFollows
<1> QED BY <1>7, <1>8 DEF Desk

\* The overlay is shown.
LEMMA LockUIClipDesk ==
  ASSUME DeskInv, LockUIClip
  PROVE  Desk'
<1>t. "tk" \in Threads
  BY DEF Threads
<1>1. /\ pc["tk"] = "ui_clip" /\ locked
      /\ overlay' = IF overlay = "none" THEN "shown" ELSE overlay
      /\ UNCHANGED <<loggedIn, locked, menu, queue, unlocking>>
  BY DEF LockUIClip, At, DeskInv, LockedUntilUnlock, session, service
<1>2. \A q \in Threads : pc'[q] = IF q = "tk" THEN "idle" ELSE pc[q]
  BY DEF LockUIClip, Goto, DeskInv, TypeOK
<1>3. overlay' # "none" /\ (overlay' = "typed" => overlay = "typed")
  BY <1>1
<1>4. ~unlocking /\ ~Unlocking /\ ~Unlocking'
  BY <1>1, <1>2, <1>t, DeskLabels DEF DeskInv, UnlockWhileOpen, Unlocking
<1>5. NoPanic' /\ LockedUntilUnlock' /\ NoLockOnUnlock'
  BY <1>1, <1>2, <1>3, <1>t, DeskLabels
  DEF DeskInv, NoPanic, LockedUntilUnlock, NoLockOnUnlock
<1>6. UnlockWhileOpen' /\ WindowFollows'
  BY <1>1, <1>2, <1>3, <1>4, <1>t DEF DeskInv, UnlockWhileOpen, WindowFollows
<1> QED BY <1>5, <1>6 DEF Desk

\* The unlock handler: the login, AutoLockService.unlock, the window.
LEMMA UnlockDesk ==
  ASSUME DeskInv, Unlock
  PROVE  Desk'
<1>t. "tk" \in Threads
  BY DEF Threads
<1>1. /\ pc["tk"] = "idle" /\ overlay = "typed" /\ loggedIn' /\ overlay' = "none"
      /\ UNCHANGED <<locked, queue, unlocking>>
  BY DEF Unlock, TkIdle, HideOverlay, service
<1>2. \A q \in Threads : pc'[q] = IF q = "tk" THEN "unlock_chk" ELSE pc[q]
  BY DEF Unlock, Goto, DeskInv, TypeOK
<1>3. /\ locked /\ queue = <<>> /\ ~unlocking
      /\ \A q \in Threads : pc[q] \notin {"lock_set"} \cup PastLockSet
  BY <1>1, NotUnlocking, DeskLabels DEF DeskInv, NoLockOnUnlock, Applying
<1>4. Unlocking'
  BY <1>2, <1>t DEF Unlocking
<1>5. NoPanic' /\ LockedUntilUnlock' /\ NoLockOnUnlock'
  BY <1>1, <1>2, <1>3, <1>t, DeskLabels
  DEF DeskInv, NoPanic, LockedUntilUnlock, NoLockOnUnlock
<1>6. UnlockWhileOpen' /\ WindowFollows'
  BY <1>1, <1>2, <1>3, <1>4, <1>t DEF UnlockWhileOpen, WindowFollows
<1> QED BY <1>5, <1>6 DEF Desk

LEMMA UnlockServiceDesk ==
  ASSUME DeskInv, UnlockService
  PROVE  Desk'
<1>t. "tk" \in Threads
  BY DEF Threads
<1>1. /\ pc["tk"] = "unlock_chk" /\ queue = <<>> /\ loggedIn /\ overlay = "none"
      /\ \A q \in Threads : pc[q] \notin {"lock_set"} \cup PastLockSet
      /\ locked
  BY DEF UnlockService, At, DeskInv, NoLockOnUnlock, UnlockWhileOpen, Unlocking
<1>2. unlocking' /\ UNCHANGED <<loggedIn, overlay, menu, queue>>
  BY <1>1 DEF UnlockService, session, desk
<1>3. \A q \in Threads : pc'[q] = IF q = "tk" THEN "reset_stop" ELSE pc[q]
  BY <1>1 DEF UnlockService, Goto, DeskInv, TypeOK
<1>4. Unlocking'
  BY <1>2, <1>3, <1>t, DeskLabels DEF Unlocking
<1>5. NoPanic' /\ LockedUntilUnlock' /\ NoLockOnUnlock'
  BY <1>1, <1>2, <1>3, <1>t, DeskLabels
  DEF DeskInv, NoPanic, LockedUntilUnlock, NoLockOnUnlock
<1>6. UnlockWhileOpen' /\ WindowFollows'
  BY <1>1, <1>2, <1>3, <1>4, <1>t, DeskLabels DEF UnlockWhileOpen, WindowFollows
<1> QED BY <1>5, <1>6 DEF Desk

LEMMA UnlockCallbackDesk ==
  ASSUME DeskInv, UnlockCallback
  PROVE  Desk'
<1>t. "tk" \in Threads
  BY DEF Threads
<1>1. /\ pc["tk"] = "unlock_cb" /\ queue = <<>> /\ loggedIn /\ overlay = "none"
      /\ UNCHANGED <<loggedIn, locked, overlay, menu, unlocking>>
  BY DEF UnlockCallback, At, DeskInv, UnlockWhileOpen, Unlocking, session, service, desk
<1>2. Len(queue') = 1 /\ queue'[1] = "unlock"
  BY <1>1 DEF UnlockCallback
<1>3. \A q \in Threads : pc'[q] = IF q = "tk" THEN "unlock_ui" ELSE pc[q]
  BY DEF UnlockCallback, Goto, DeskInv, TypeOK
<1>4. ~Unlocking'
  BY <1>3, <1>t, DeskLabels DEF Unlocking
<1>5. \A i \in 1..Len(queue') : i = 1
  BY <1>2
<1>6. NoPanic' /\ LockedUntilUnlock' /\ NoLockOnUnlock'
  BY <1>1, <1>2, <1>3, <1>5, <1>t, DeskLabels
  DEF DeskInv, NoPanic, LockedUntilUnlock, NoLockOnUnlock
<1>7. UnlockWhileOpen' /\ WindowFollows'
  BY <1>1, <1>3, <1>4, <1>5, <1>t DEF UnlockWhileOpen, WindowFollows
<1> QED BY <1>6, <1>7 DEF Desk

LEMMA UnlockDoneDesk ==
  ASSUME DeskInv, UnlockDone
  PROVE  Desk'
<1>t. "tk" \in Threads
  BY DEF Threads
<1>1. /\ pc["tk"] = "unlock_ui" /\ loggedIn /\ overlay' = "none" /\ menu' /\ ~unlocking'
      /\ UNCHANGED <<loggedIn, locked, queue>>
  BY DEF UnlockDone, ShowUnlocked, HideOverlay, At, DeskInv, UnlockWhileOpen, session, service
<1>2. \A q \in Threads : pc'[q] = IF q = "tk" THEN "idle" ELSE pc[q]
  BY DEF UnlockDone, Goto, DeskInv, TypeOK
<1>3. ~Unlocking'
  BY <1>1, <1>2, <1>t DEF Unlocking
<1>4. NoPanic' /\ LockedUntilUnlock' /\ NoLockOnUnlock'
  BY <1>1, <1>2, <1>t, DeskLabels DEF DeskInv, NoPanic, LockedUntilUnlock, NoLockOnUnlock
<1>5. UnlockWhileOpen' /\ WindowFollows'
  BY <1>1, <1>2, <1>3, <1>t DEF DeskInv, UnlockWhileOpen, WindowFollows
<1> QED BY <1>4, <1>5 DEF Desk

LEMMA DeskNext ==
  ASSUME PanicKeys = {}, DeskInv, [Next]_vars
  PROVE  Desk'
<1>t. {"tk", "act", "hot", "clr"} \subseteq Threads /\ Lockers \subseteq Threads
      /\ "tk" \notin Lockers
  BY ConstAssumption DEF Threads
<1>1. ASSUME NEW w \in Lockers, TimerFires(w) PROVE Desk'
  BY <1>1, <1>t, DeskMove, DeskLabels DEF TimerFires, At, session, desk
<1>2. CASE Act
  <2>1. CASE Activity
    <3>1. PICK l \in {"act_prompt", "act_check"} : Goto("act", l)
      BY <2>1 DEF Activity
    <3> QED BY <2>1, <3>1, <1>t, DeskMove, DeskLabels DEF Activity, session, service
  <2>2. CASE ActivityPrompt
    BY <2>2, <1>t, DeskMove, DeskLabels DEF ActivityPrompt, session, service, desk
  <2>3. CASE ActivityCheck
    <3>1. PICK l \in {"idle", "reset_stop"} : Goto("act", l)
      BY <2>3 DEF ActivityCheck
    <3> QED BY <2>3, <3>1, <1>t, DeskMove, DeskLabels DEF ActivityCheck, session, service, desk
  <2> QED BY <1>2, <1>t, <2>1, <2>2, <2>3, ResetDesk DEF Act
<1>3. CASE AutoClear
  BY <1>3, <1>t, DeskMove, DeskLabels DEF AutoClear, session, service, desk
<1>4. CASE Clear
  <2>1. CASE AutoClearClip
    <3>1. PICK l \in {"auto_emit", "idle"} : Goto("clr", l)
      BY <2>1 DEF AutoClearClip, ClipAcquire
    <3> QED BY <2>1, <3>1, <1>t, DeskMove, DeskLabels
            DEF AutoClearClip, ClipAcquire, session, service, desk
  <2>2. CASE AutoClearEmit
    BY <2>2, <1>t, DeskMove, DeskLabels DEF AutoClearEmit, ClipEmit, session, service, desk
  <2> QED BY <1>4, <2>1, <2>2 DEF Clear
<1>5. ASSUME NEW p \in Threads, PanicSteps(p) PROVE Desk'
  BY <1>5, DeskLabels DEF PanicSteps, PanicCheck, PanicSet, PanicClip, PanicEmit, PanicPost,
                        ClipAcquire, ClipEmit, At, DeskInv, NoPanic
<1>6. CASE CopyClip
  BY <1>6, <1>t, DeskMove, DeskLabels DEF CopyClip, At, session, service, desk, Applying
<1>7. CASE Tick
  BY <1>7, <1>t, DeskMove, DeskLabels DEF Tick, TkIdle, session, service, desk, Applying
<1>8. CASE User
  <2>1. CASE Input \/ ChangePassword
    BY <2>1, DeskStill DEF Input, ChangePassword, session, service
  <2>2. CASE TypePassword
    <3>1. /\ queue = <<>> /\ \A q \in Threads : pc[q] = "idle"
          /\ overlay' = "typed" /\ locked
          /\ UNCHANGED <<loggedIn, locked, menu, queue, unlocking, pc>>
      BY <2>2 DEF TypePassword, Calm, At, DeskInv, LockedUntilUnlock, session, service
    <3>2. ~unlocking /\ ~Unlocking /\ ~Unlocking'
      BY <3>1, <1>t, NotUnlocking, DeskLabels DEF DeskInv, Applying, Unlocking
    <3>3. NoPanic' /\ LockedUntilUnlock' /\ NoLockOnUnlock'
      BY <3>1, <1>t, DeskLabels DEF DeskInv, NoPanic, LockedUntilUnlock, NoLockOnUnlock
    <3>4. UnlockWhileOpen' /\ WindowFollows'
      BY <3>1, <3>2, <1>t DEF DeskInv, UnlockWhileOpen, WindowFollows
    <3> QED BY <3>3, <3>4 DEF Desk
  <2>3. CASE SetTimeout
    BY <2>3, <1>t, DeskMove, DeskLabels DEF SetTimeout, TkIdle, session, service, Applying
  <2>4. CASE ManualLock
    BY <2>4, <1>t, DeskMove, DeskLabels DEF ManualLock, TkIdle, session, service, Applying
  <2>5. CASE Copy
    BY <2>5, <1>t, DeskMove, DeskLabels DEF Copy, TkIdle, session, service, Applying
  <2>6. ASSUME NEW p \in {"hot", "tk"}, PanicKey(p) PROVE Desk'
    BY <2>6 DEF PanicKey
  <2> QED BY <1>8, <2>1, <2>2, <2>3, <2>4, <2>5, <2>6, UnlockDesk DEF User
<1>9. CASE KeyExpires
  BY <1>9, DeskStill DEF KeyExpires, service, desk
<1>10. CASE UNCHANGED vars
  BY <1>10, DeskStill DEF vars, session, service, desk
<1> QED
  BY <1>t, <1>1, <1>2, <1>3, <1>4, <1>5, <1>6, <1>7, <1>8, <1>9, <1>10, LockDesk, ResetDesk,
     LockUIDesk, UnlockUIDesk, LockUIClipDesk, UnlockServiceDesk, UnlockCallbackDesk,
     UnlockDoneDesk
  DEF Next, Posted, Handler

LEMMA DeskInvariant ==
  ASSUME PanicKeys = {}
  PROVE  Spec => []DeskInv
<1>1. Init => DeskInv
  <2>1. Init => Desk
    BY DeskLabels DEF Init, Desk, NoPanic, LockedUntilUnlock, NoLockOnUnlock,
                    UnlockWhileOpen, WindowFollows, Unlocking, Threads
  <2> QED BY <2>1, TypeInit DEF DeskInv, Desk
<1>2. DeskInv /\ [Next]_vars => DeskInv'
  BY TypeNext, DeskNext DEF DeskInv, Desk
<1> QED BY <1>1, <1>2, PTL DEF Spec

\* Without a panic key the menus follow the session, on any interpreter and
\* for any number of timer threads: no order of lock(), unlock() and their
\* posted callbacks leaves the import and export commands enabled on a closed
\* session, or disabled on an open one.
THEOREM MenuFollows ==
  ASSUME PanicKeys = {}
  PROVE  Spec => []MenuFollowsSession
<1>1. DeskInv => MenuFollowsSession
  BY NotUnlocking, DeskLabels
  DEF DeskInv, MenuFollowsSession, WindowFollows, Calm, At, Threads, Applying
<1> QED BY <1>1, DeskInvariant, PTL

\* Without a panic key a closed session is covered by the overlay.  With one
\* it is not: the panic handler destroys the overlay's window, and no later
\* lock shows another.
THEOREM WindowCovered ==
  ASSUME PanicKeys = {}
  PROVE  Spec => []CoveredWhenLocked
<1>1. DeskInv => CoveredWhenLocked
  BY DeskLabels
  DEF DeskInv, TypeOK, NoPanic, CoveredWhenLocked, WindowFollows, Calm, At, Threads
<1> QED BY <1>1, DeskInvariant, PTL
=============================================================================
