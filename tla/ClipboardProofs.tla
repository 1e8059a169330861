---------------------------- MODULE ClipboardProofs ---------------------------
(***************************************************************************)
(* What the clipboard service guarantees for any number of services and    *)
(* secrets, and what it guarantees when the platform never refuses.        *)
(***************************************************************************)
EXTENDS Clipboard, TLAPS

\* No more threads wait for an RLock than the bound on Fire allows.
FewWaiting == \A s \in Services : Waiting(s) <= MaxFired

TypeInv == TypeOK /\ FewWaiting

\* The part of TypeOK a clearing can disturb.
ClearType ==
  /\ item \in [Services -> Items \cup {NoItem}]
  /\ timer \in [Services -> BOOLEAN]
  /\ due \in [Services -> 0..MaxFired]
  /\ late \in [Services -> 0..MaxFired]
  /\ os \in Contents
  /\ bus \in Secrets \cup {"empty"}
  /\ FewWaiting

\* Clearing keeps the service's state well-formed.
LEMMA ClearLockedType ==
  ASSUME TypeInv, NEW s \in Services, NEW w \in 0..MaxFired, ClearLocked(s, w)
  PROVE  ClearType'
<1> USE DEF TypeInv, TypeOK, ClearLocked, Cancel
<1>1. os' \in Contents
  BY DEF ClearedOs, AfterAdapterClear, Contents
<1>2. bus' \in Secrets \cup {"empty"}
  BY DEF ClearedBus
<1>3. FewWaiting'
  <2> SUFFICES ASSUME NEW r \in Services PROVE Waiting(r)' <= MaxFired
    BY DEF FewWaiting
  <2>1. CASE r = s
    BY <2>1, ClipboardAssumption DEF Waiting
  <2>2. CASE r # s
    BY <2>2 DEF Waiting, FewWaiting
  <2> QED
    BY <2>1, <2>2
<1> QED
  BY <1>1, <1>2, <1>3, ClipboardAssumption DEF ClearType

\* The waiting threads of one service are a number within the bound.
LEMMA WaitingType ==
  ASSUME TypeInv, NEW s \in Services
  PROVE  /\ Waiting(s) \in 0..MaxFired
         /\ due[s] > 0 => Waiting(s) - 1 \in 0..MaxFired
         /\ late[s] > 0 => Waiting(s) - 1 \in 0..MaxFired
BY ClipboardAssumption DEF TypeInv, TypeOK, FewWaiting, Waiting

\* A copy leaves a well-formed item, or none when the adapter refused.
LEMMA CopyType ==
  ASSUME TypeInv, CopyLocked
  PROVE  ClearType' /\ tk' = "idle"
<1>1. made \in Services /\ tk \in Secrets /\ tk' = "idle"
  BY DEF CopyLocked, TypeInv, TypeOK
<1>2. /\ AutoClears(made) \in BOOLEAN
      /\ NewItem(made) \in Items
  BY <1>1 DEF NewItem, Items, AutoClears, PublicMode, TypeInv, TypeOK
<1>3. CASE CopyRefused(made)
  BY <1>1, <1>3, ClearLockedType, WaitingType DEF CopyRefused
<1>4. CASE Copied(made)
  <2>1. item' \in [Services -> Items \cup {NoItem}]
    BY <1>2, <1>4 DEF Copied, TypeInv, TypeOK
  <2>2. timer' \in [Services -> BOOLEAN]
    BY <1>2, <1>4 DEF Copied, TypeInv, TypeOK
  <2>3. /\ due' \in [Services -> 0..MaxFired]
        /\ late' \in [Services -> 0..MaxFired]
    BY <1>1, <1>4, WaitingType, ClipboardAssumption DEF Copied, TypeInv, TypeOK
  <2>4. os' \in Contents
    BY <1>1, <1>4 DEF Copied, ClearedOs, AfterAdapterClear, Contents, TypeInv, TypeOK
  <2>5. bus' \in Secrets \cup {"empty"}
    BY <1>1, <1>4 DEF Copied, ClearedBus, TypeInv, TypeOK
  <2>6. FewWaiting'
    <3> SUFFICES ASSUME NEW r \in Services PROVE Waiting(r)' <= MaxFired
      BY DEF FewWaiting
    <3>1. CASE r = made
      BY <1>1, <1>4, <3>1, WaitingType DEF Copied, Waiting, TypeInv, TypeOK
    <3>2. CASE r # made
      BY <1>1, <1>4, <3>2 DEF Copied, Waiting, FewWaiting, TypeInv, TypeOK
    <3> QED
      BY <3>1, <3>2
  <2> QED
    BY <1>1, <2>1, <2>2, <2>3, <2>4, <2>5, <2>6 DEF ClearType
<1> QED
  BY <1>3, <1>4 DEF CopyLocked

\* What is left of TypeOK after a step that only clears an item.
Rest == <<made, keyed, settings, blocked, mon, asked>>

LEMMA ClearStepType ==
  ASSUME TypeInv, ClearType', UNCHANGED Rest, tk' \in Doing
  PROVE  TypeInv'
BY DEF TypeInv, TypeOK, ClearType, Rest

\* Every step keeps the types and the bound on waiting threads.
LEMMA TypeStep == TypeInv /\ [Next]_vars => TypeInv'
<1> SUFFICES ASSUME TypeInv, [Next]_vars PROVE TypeInv'
  OBVIOUS
<1>0. made \in Services /\ tk \in Doing
  BY DEF TypeInv, TypeOK
<1>1. ASSUME NEW s \in Services, Fire(s) PROVE TypeInv'
  <2>1. Waiting(s) + 1 <= MaxFired
    BY <1>1, ClipboardAssumption DEF Fire, Waiting, TypeInv, TypeOK
  <2>2. due' \in [Services -> 0..MaxFired]
    BY <1>1, <2>1, ClipboardAssumption DEF Fire, Waiting, TypeInv, TypeOK
  <2>3. FewWaiting'
    BY <1>1, <2>1 DEF Fire, Waiting, FewWaiting, TypeInv, TypeOK
  <2> QED
    BY <1>1, <2>2, <2>3 DEF Fire, TypeInv, TypeOK
<1>2. ASSUME NEW s \in Services, TimeoutClear(s) \/ LateClear(s) \/ ClearClipboard(s)
      PROVE  TypeInv'
  <2>1. ClearType'
    BY <1>2, WaitingType, ClearLockedType DEF TimeoutClear, LateClear, ClearClipboard
  <2>2. UNCHANGED Rest /\ tk' = tk
    BY <1>2 DEF TimeoutClear, LateClear, ClearClipboard, Rest
  <2> QED
    BY <1>0, <2>1, <2>2, ClearStepType
<1>3. ASSUME NEW s \in Services, Poll(s) \/ Read(s) \/ Accelerate(s) \/ Report(s)
      PROVE  TypeInv'
  <2>1. FewWaiting'
    BY <1>3 DEF Poll, Read, Accelerate, Report, timers, FewWaiting, Waiting, TypeInv
  <2>2. CASE Poll(s)
    BY <2>1, <2>2 DEF Poll, Idle, timers, TypeInv, TypeOK
  <2>3. CASE Read(s)
    BY <2>1, <2>3 DEF Read, Idle, timers, TypeInv, TypeOK
  <2>4. CASE Accelerate(s)
    BY <2>1, <2>4 DEF Accelerate, Active, TypeInv, TypeOK
  <2>5. CASE Report(s)
    BY <2>1, <2>5 DEF Report, Idle, PublicMode, timers, TypeInv, TypeOK
  <2> QED
    BY <1>3, <2>2, <2>3, <2>4, <2>5
<1>4. CASE CopyLocked
  <2>1. UNCHANGED Rest
    BY <1>4 DEF CopyLocked, Rest
  <2> QED
    BY <1>4, <2>1, CopyType, ClearStepType DEF Doing
<1>5. CASE OnVaultLock \/ Closing
  <2>1. ClearType'
    BY <1>0, <1>5, WaitingType, ClearLockedType DEF OnVaultLock, Closing
  <2>2. UNCHANGED Rest /\ tk' \in Doing
    BY <1>5 DEF OnVaultLock, Closing, Rest, Doing
  <2> QED
    BY <2>1, <2>2, ClearStepType
<1>6. CASE Closed
  <2>1. FewWaiting'
    BY <1>6 DEF Closed, timers, FewWaiting, Waiting, TypeInv
  <2> QED
    BY <1>6, <2>1 DEF Closed, timers, Doing, TypeInv, TypeOK
<1>7. CASE (\E d \in Secrets : Copy(d)) \/ Login \/ Logout
  <2>1. FewWaiting'
    BY <1>7 DEF Copy, Login, Logout, timers, FewWaiting, Waiting, TypeInv
  <2> QED
    BY <1>0, <1>7, <2>1 DEF Copy, Login, Logout, Doing, timers, TypeInv, TypeOK
<1>8. CASE OpenDatabase
  <2>1. made' \in Services
    BY <1>0, <1>8, ClipboardAssumption DEF OpenDatabase, Services
  <2>2. FewWaiting'
    BY <1>8 DEF OpenDatabase, timers, FewWaiting, Waiting, TypeInv
  <2> QED
    BY <1>8, <2>1, <2>2 DEF OpenDatabase, timers, TypeInv, TypeOK
<1>9. CASE ApplyPreset \/ SaveCustom \/ Answer \/ ForeignCopy
  <2>1. FewWaiting'
    BY <1>9 DEF ApplyPreset, SaveCustom, Answer, ForeignCopy, timers, FewWaiting,
       Waiting, TypeInv
  <2>2. CASE ApplyPreset
    BY <1>0, <2>1, <2>2 DEF ApplyPreset, timers, TypeInv, TypeOK
  <2>3. CASE SaveCustom
    BY <1>0, <2>1, <2>3 DEF SaveCustom, timers, TypeInv, TypeOK
  <2>4. CASE Answer
    BY <1>0, <2>1, <2>4 DEF Answer, timers, TypeInv, TypeOK
  <2>5. CASE ForeignCopy
    BY <2>1, <2>5 DEF ForeignCopy, Contents, timers, TypeInv, TypeOK
  <2> QED
    BY <1>9, <2>2, <2>3, <2>4, <2>5
<1>10. CASE UNCHANGED vars
  <2>1. FewWaiting'
    BY <1>10 DEF vars, timers, FewWaiting, Waiting, TypeInv
  <2> QED
    BY <1>10, <2>1 DEF vars, timers, TypeInv, TypeOK
<1> QED
  BY <1>1, <1>2, <1>3, <1>4, <1>5, <1>6, <1>7, <1>8, <1>9, <1>10 DEF Next

LEMMA TypeInit == Init => TypeInv
<1> SUFFICES ASSUME Init PROVE TypeInv
  OBVIOUS
<1>1. 1 \in Services /\ 0 \in 0..MaxFired
  BY ClipboardAssumption DEF Services
<1>2. FewWaiting
  BY <1>1, ClipboardAssumption DEF Init, FewWaiting, Waiting
<1> QED
  BY <1>1, <1>2 DEF Init, TypeInv, TypeOK, Idle, Contents, Doing

\* The services' state stays well-formed, and the model's bound on waiting
\* threads is kept.
THEOREM TypeCorrect == Spec => []TypeOK
<1>1. Init => TypeInv
  BY TypeInit
<1>2. TypeInv => TypeOK
  BY DEF TypeInv
<1> QED
  BY <1>1, <1>2, TypeStep, PTL DEF Spec

-----------------------------------------------------------------------------
(* Timers.                                                                 *)

\* An item with a timeout always has a timer running or a thread of one that
\* fired waiting to clear it, however timers, monitors, copies and clearings
\* interleave.
THEOREM TimerAlwaysCovers == Spec => []TimerCovers
<1>1. Init => TimerCovers
  BY DEF Init, TimerCovers, NoItem
<1>2. TypeInv /\ TimerCovers /\ [Next]_vars => TimerCovers'
  <2> SUFFICES ASSUME TypeInv, TimerCovers, [Next]_vars,
                      NEW r \in Services, item'[r].auto
               PROVE  timer'[r] \/ due'[r] > 0
    BY DEF TimerCovers
  <2> USE DEF TypeInv, TypeOK
  <2>1. ASSUME NEW s \in Services, NEW w, ClearLocked(s, w)
        PROVE  timer'[r] \/ due'[r] > 0
    <3>1. r # s
      BY <2>1 DEF ClearLocked, NoItem
    <3> QED
      BY <2>1, <3>1 DEF ClearLocked, Cancel, TimerCovers
  <2>2. CASE CopyLocked
    <3>1. CASE CopyRefused(made)
      BY <2>1, <3>1 DEF CopyRefused
    <3>2. CASE Copied(made) /\ r = made
      BY <3>2 DEF Copied, NewItem
    <3>3. CASE Copied(made) /\ r # made
      BY <3>3 DEF Copied, TimerCovers
    <3> QED
      BY <2>2, <3>1, <3>2, <3>3 DEF CopyLocked
  <2>3. ASSUME NEW s \in Services, Fire(s) PROVE timer'[r] \/ due'[r] > 0
    <3>1. CASE r = s
      BY <2>3, <3>1, ClipboardAssumption DEF Fire
    <3>2. CASE r # s
      BY <2>3, <3>2 DEF Fire, TimerCovers
    <3> QED
      BY <3>1, <3>2
  <2>4. ASSUME NEW s \in Services, Accelerate(s) PROVE timer'[r] \/ due'[r] > 0
    <3>1. CASE r = s
      <4>1. item[s].auto
        BY <2>4, <3>1 DEF Accelerate
      <4>2. Active(s) = TRUE
        BY <4>1 DEF Active, NoItem
      <4>3. timer'[s] = Active(s)
        BY <2>4 DEF Accelerate
      <4> QED
        BY <3>1, <4>2, <4>3
    <3>2. CASE r # s
      BY <2>4, <3>2 DEF Accelerate, TimerCovers
    <3> QED
      BY <3>1, <3>2
  <2>5. ASSUME NEW s \in Services, TimeoutClear(s) \/ LateClear(s) \/ ClearClipboard(s)
        PROVE  timer'[r] \/ due'[r] > 0
    BY <2>1, <2>5 DEF TimeoutClear, LateClear, ClearClipboard
  <2>6. CASE OnVaultLock \/ Closing
    BY <2>1, <2>6 DEF OnVaultLock, Closing
  <2>7. CASE UNCHANGED <<item, timers>>
    BY <2>7 DEF timers, TimerCovers
  <2>8. ASSUME NEW s \in Services, Poll(s) \/ Read(s) \/ Report(s)
        PROVE  UNCHANGED <<item, timers>>
    BY <2>8 DEF Poll, Read, Report
  <2>9. CASE \/ (\E d \in Secrets : Copy(d)) \/ Login \/ Logout \/ Closed \/ OpenDatabase
             \/ ApplyPreset \/ SaveCustom \/ Answer \/ ForeignCopy \/ UNCHANGED vars
    BY <2>7, <2>9 DEF Copy, Login, Logout, Closed, OpenDatabase, ApplyPreset, SaveCustom, Answer,
       ForeignCopy, vars
  <2> QED
    BY <2>2, <2>3, <2>4, <2>5, <2>6, <2>7, <2>8, <2>9 DEF Next
<1>3. Init => TypeInv
  BY TypeInit
<1> QED
  BY <1>1, <1>2, <1>3, TypeStep, PTL DEF Spec

-----------------------------------------------------------------------------
(* Where secrets are.                                                      *)

\* Every step is a clearing, a copy, or leaves items and secrets alone.
Quiet == UNCHANGED <<item, bus>> /\ os' \in {os, "foreign"}

LEMMA StepKinds ==
  ASSUME TypeInv, [Next]_vars
  PROVE  \/ \E s \in Services, w \in 0..MaxFired : ClearLocked(s, w)
         \/ CopyLocked
         \/ Quiet
<1>0. made \in Services
  BY DEF TypeInv, TypeOK
<1>1. ASSUME NEW s \in Services, TimeoutClear(s) \/ LateClear(s) \/ ClearClipboard(s)
      PROVE  \E w \in 0..MaxFired : ClearLocked(s, w)
  BY <1>1, WaitingType DEF TimeoutClear, LateClear, ClearClipboard
<1>2. CASE OnVaultLock \/ Closing
  BY <1>0, <1>2, WaitingType DEF OnVaultLock, Closing
<1>3. ASSUME NEW s \in Services,
             Fire(s) \/ Poll(s) \/ Read(s) \/ Accelerate(s) \/ Report(s)
      PROVE  Quiet
  BY <1>3 DEF Fire, Poll, Read, Accelerate, Report, Quiet
<1>4. CASE \/ (\E d \in Secrets : Copy(d)) \/ Login \/ Logout \/ Closed \/ OpenDatabase
           \/ ApplyPreset \/ SaveCustom \/ Answer \/ ForeignCopy \/ UNCHANGED vars
  BY <1>4 DEF Copy, Login, Logout, Closed, OpenDatabase, ApplyPreset, SaveCustom, Answer,
     ForeignCopy, Quiet, vars
<1> QED
  BY <1>1, <1>2, <1>3, <1>4 DEF Next

\* The markers are no secrets.
LEMMA Markers == {"empty", "foreign"} \cap Secrets = {}
  BY ClipboardAssumption

LEMMA BusStep ==
  ASSUME TypeInv, BusTracked, [Next]_vars
  PROVE  BusTracked'
<1> SUFFICES ASSUME bus' \in Secrets
             PROVE  \E r \in Services : item'[r].data = bus' /\ item'[r].eph
  BY DEF BusTracked
<1> USE DEF TypeInv, TypeOK
<1>1. ASSUME NEW s \in Services, bus' = ClearedBus(s),
             \A r \in Services \ {s} : item'[r] = item[r]
      PROVE  \E r \in Services : item'[r].data = bus' /\ item'[r].eph
  <2>1. bus' = bus /\ ~item[s].eph
    BY <1>1, Markers DEF ClearedBus
  <2>2. PICK r \in Services : item[r].data = bus /\ item[r].eph
    BY <2>1 DEF BusTracked
  <2> QED
    BY <1>1, <2>1, <2>2
<1>2. ASSUME NEW s \in Services, NEW w, ClearLocked(s, w)
      PROVE  \E r \in Services : item'[r].data = bus' /\ item'[r].eph
  <2>1. bus' = ClearedBus(s) /\ \A r \in Services \ {s} : item'[r] = item[r]
    BY <1>2 DEF ClearLocked
  <2> QED
    BY <1>1, <2>1
<1>3. CASE CopyLocked
  <2>1. CASE CopyRefused(made)
    BY <1>2, <2>1 DEF CopyRefused
  <2>2. CASE Copied(made) /\ PublicMode(made)
    <3>1. item'[made] = NewItem(made) /\ bus' = tk
      BY <2>2 DEF Copied
    <3> QED
      BY <2>2, <3>1 DEF NewItem
  <2>3. CASE Copied(made) /\ ~PublicMode(made)
    <3>1. bus' = ClearedBus(made) /\ \A r \in Services \ {made} : item'[r] = item[r]
      BY <2>3 DEF Copied
    <3> QED
      BY <1>1, <3>1
  <2> QED
    BY <1>3, <2>1, <2>2, <2>3 DEF CopyLocked
<1>4. CASE Quiet
  BY <1>4 DEF Quiet, BusTracked
<1> QED
  BY <1>2, <1>3, <1>4, StepKinds

LEMMA ClipboardStep ==
  ASSUME ~AdapterFails, TypeInv, ClipboardTracked, [Next]_vars
  PROVE  ClipboardTracked'
<1> DEFINE Tracked(d) == \E r \in Services : item'[r].data = d /\ ~item'[r].eph
<1> SUFFICES ASSUME os' \in Secrets PROVE Tracked(os')
  BY DEF ClipboardTracked
<1> USE DEF TypeInv, TypeOK
\* The clipboard is left as it was only when the item was not in it.
<1>1. ASSUME NEW s \in Services, os' \in ClearedOs(s),
             \A r \in Services \ {s} : item'[r] = item[r]
      PROVE  Tracked(os')
  <2>1. os' = os /\ (item[s].eph \/ item[s] = NoItem)
    BY <1>1, Markers DEF ClearedOs, AfterAdapterClear, Active
  <2>2. PICK r \in Services : item[r].data = os /\ ~item[r].eph
    BY <2>1 DEF ClipboardTracked
  <2>3. r # s
    BY <2>1, <2>2, Markers DEF NoItem
  <2> QED
    BY <1>1, <2>1, <2>2, <2>3
<1>2. ASSUME NEW s \in Services, NEW w, ClearLocked(s, w)
      PROVE  Tracked(os')
  <2>1. os' \in ClearedOs(s) /\ \A r \in Services \ {s} : item'[r] = item[r]
    BY <1>2 DEF ClearLocked
  <2> QED
    BY <1>1, <2>1
<1>3. CASE CopyLocked
  <2>1. CASE Copied(made) /\ PublicMode(made)
    <3>1. os' \in ClearedOs(made) /\ \A r \in Services \ {made} : item'[r] = item[r]
      BY <2>1 DEF Copied
    <3> QED
      BY <1>1, <3>1
  <2>2. CASE Copied(made) /\ ~PublicMode(made)
    <3>1. item'[made] = NewItem(made) /\ os' = tk
      BY <2>2 DEF Copied
    <3> QED
      BY <2>2, <3>1 DEF NewItem
  <2> QED
    BY <1>3, <2>1, <2>2 DEF CopyLocked, CopyRefused
<1>4. CASE Quiet
  BY <1>4, Markers DEF Quiet, ClipboardTracked
<1> QED
  BY <1>2, <1>3, <1>4, StepKinds

\* The in-process bus never keeps a secret that no service has an item for.
THEOREM BusNeverForgotten == Spec => []BusTracked
<1>1. Init => TypeInv /\ BusTracked
  BY TypeInit, Markers DEF Init, BusTracked
<1>2. TypeInv /\ BusTracked /\ [Next]_vars => BusTracked'
  BY BusStep
<1> QED
  BY <1>1, <1>2, TypeStep, PTL DEF Spec

\* Where the platform never refuses, no secret stays in the system clipboard
\* without a service that has an item for it, however many services share it.
THEOREM ClipboardNeverForgotten ==
  ASSUME ~AdapterFails PROVE Spec => []ClipboardTracked
<1>1. Init => TypeInv /\ ClipboardTracked
  BY TypeInit, Markers DEF Init, ClipboardTracked
<1>2. TypeInv /\ ClipboardTracked /\ [Next]_vars => ClipboardTracked'
  BY ClipboardStep
<1> QED
  BY <1>1, <1>2, TypeStep, PTL DEF Spec

-----------------------------------------------------------------------------
(* Locking, with one service and a platform that does not refuse.          *)

\* A copy under way belongs to an open session.
SessionFits == tk \in Secrets => made \in keyed

\* The vault is left: locked or closed, or past shutdown() on the way there.
Left == \/ tk = "closing"
        \/ made \notin keyed /\ tk \in {"idle", "closed"}
LeftClean == Left => os \notin Secrets /\ bus \notin Secrets

TrackedInv == TypeInv /\ BusTracked /\ ClipboardTracked
LockInv == TrackedInv /\ SessionFits /\ LeftClean

LEMMA SessionStep ==
  ASSUME TypeInv, SessionFits, [Next]_vars
  PROVE  SessionFits'
<1> USE ClipboardAssumption DEF SessionFits
<1>1. ASSUME NEW s \in Services,
             \/ Fire(s) \/ TimeoutClear(s) \/ LateClear(s) \/ ClearClipboard(s)
             \/ Poll(s) \/ Read(s) \/ Accelerate(s) \/ Report(s)
      PROVE  SessionFits'
  BY <1>1 DEF Fire, TimeoutClear, LateClear, ClearClipboard, Poll, Read, Accelerate, Report
<1>2. ASSUME NEW d \in Secrets, Copy(d) PROVE SessionFits'
  BY <1>2 DEF Copy
<1>3. CASE CopyLocked \/ Login \/ Logout
  BY <1>3 DEF CopyLocked, Login, Logout, TkIdle
<1>4. CASE OnVaultLock \/ Closing \/ Closed
  BY <1>4 DEF OnVaultLock, Closing, Closed, TkIdle
<1>5. CASE OpenDatabase \/ ApplyPreset \/ SaveCustom \/ Answer \/ ForeignCopy
  BY <1>5 DEF OpenDatabase, ApplyPreset, SaveCustom, Answer, ForeignCopy, TkIdle
<1>6. CASE UNCHANGED vars
  BY <1>6 DEF vars
<1> QED
  BY <1>1, <1>2, <1>3, <1>4, <1>5, <1>6 DEF Next

\* Clearing the only service empties both places.  What _clear_locked does
\* not touch, by its mode or by its item, held no secret.
LEMMA ClearedClean ==
  ASSUME ~AdapterFails, MaxServices = 1, TrackedInv,
         NEW s \in Services, NEW w, ClearLocked(s, w)
  PROVE  os' \notin Secrets /\ bus' \notin Secrets
<1>1. Services = {made} /\ s = made
  BY DEF Services, TrackedInv, TypeInv, TypeOK
<1>2. os' \notin Secrets
  <2>1. CASE os' = os
    <3>1. ASSUME os \in Secrets PROVE Active(s) /\ ~item[s].eph
      BY <1>1, <3>1, Markers DEF TrackedInv, ClipboardTracked, Active, NoItem
    <3>2. Active(s) /\ ~item[s].eph => os' = "empty"
      BY DEF ClearLocked, ClearedOs, AfterAdapterClear
    <3> QED
      BY <2>1, <3>1, <3>2, Markers
  <2>2. CASE os' = "empty"
    BY <2>2, Markers
  <2> QED
    BY <2>1, <2>2 DEF ClearLocked, ClearedOs, AfterAdapterClear
<1>3. bus' \notin Secrets
  <2>1. CASE Active(s) /\ ~item[s].eph
    BY <1>1, <2>1 DEF ClearLocked, ClearedBus, TrackedInv, BusTracked
  <2>2. CASE ~(Active(s) /\ ~item[s].eph)
    BY <2>2, Markers DEF ClearLocked, ClearedBus
  <2> QED
    BY <2>1, <2>2
<1> QED
  BY <1>2, <1>3

LEMMA LeftStep ==
  ASSUME ~AdapterFails, MaxServices = 1, LockInv, [Next]_vars
  PROVE  LeftClean'
<1> SUFFICES ASSUME Left'
             PROVE  os' \notin Secrets /\ bus' \notin Secrets
  BY DEF LeftClean
<1> USE DEF LockInv
<1>0. made \in Services /\ TypeInv
  BY DEF TrackedInv, TypeInv, TypeOK
<1>1. CASE UNCHANGED <<made, keyed, tk>>
  <2>1. os \notin Secrets /\ bus \notin Secrets
    BY <1>1 DEF LeftClean, Left
  <2>2. tk \notin Secrets
    BY <1>1, ClipboardAssumption DEF Left
  <2>3. CASE Quiet
    BY <2>1, <2>3, Markers DEF Quiet
  <2>4. CASE \E s \in Services, w \in 0..MaxFired : ClearLocked(s, w)
    BY <2>4, ClearedClean
  <2> QED
    BY <1>0, <2>2, <2>3, <2>4, StepKinds DEF CopyLocked
<1>2. CASE OnVaultLock \/ Closing
  <2>1. \E w : ClearLocked(made, w)
    BY <1>2 DEF OnVaultLock, Closing
  <2> QED
    BY <1>0, <2>1, ClearedClean
<1>3. CASE Closed
  BY <1>3 DEF Closed, LeftClean, Left
<1>4. CASE (\E d \in Secrets : Copy(d)) \/ CopyLocked
  BY <1>4, ClipboardAssumption DEF Copy, CopyLocked, SessionFits, Left
<1>5. CASE Login \/ Logout
  BY <1>5 DEF Login, Logout, TkIdle, Left
<1>6. CASE OpenDatabase
  BY <1>0, <1>6 DEF OpenDatabase, Services
<1>7. ASSUME NEW s \in Services,
             \/ Fire(s) \/ TimeoutClear(s) \/ LateClear(s) \/ ClearClipboard(s)
             \/ Poll(s) \/ Read(s) \/ Accelerate(s) \/ Report(s)
      PROVE  UNCHANGED <<made, keyed, tk>>
  BY <1>7 DEF Fire, TimeoutClear, LateClear, ClearClipboard, Poll, Read, Accelerate, Report
<1>8. CASE ApplyPreset \/ SaveCustom \/ Answer \/ ForeignCopy \/ UNCHANGED vars
  BY <1>1, <1>8 DEF ApplyPreset, SaveCustom, Answer, ForeignCopy, vars
<1> QED
  BY <1>1, <1>2, <1>3, <1>4, <1>5, <1>6, <1>7, <1>8 DEF Next

\* Where the platform never refuses and no second database is opened, locking
\* or closing a vault leaves none of its secrets behind, whatever timers,
\* monitor and settings did before.
THEOREM LockClears ==
  ASSUME ~AdapterFails, MaxServices = 1
  PROVE  Spec => []LockLeavesNothing
<1>1. Init => LockInv
  BY TypeInit, ClipboardAssumption DEF Init, LockInv, TrackedInv, BusTracked,
     ClipboardTracked, SessionFits, LeftClean, Left
<1>2. LockInv /\ [Next]_vars => LockInv'
  BY TypeStep, BusStep, ClipboardStep, SessionStep, LeftStep DEF LockInv, TrackedInv
<1>3. LockInv => LockLeavesNothing
  BY DEF LockInv, LeftClean, Left, LockLeavesNothing
<1> QED
  BY <1>1, <1>2, <1>3, PTL DEF Spec
===============================================================================
