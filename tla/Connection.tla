------------------------------ MODULE Connection ------------------------------
(***************************************************************************)
(* The one sqlite3 connection of a vault.  DatabaseManager.connect opens   *)
(* it with check_same_thread=False and gives it to everybody, so a         *)
(* transaction belongs to the connection and not to who began it: a commit *)
(* by any component makes the others' unfinished writes last, a rollback   *)
(* by any component takes them back.                                       *)
(***************************************************************************)
VARIABLES
  view,  \* what a SELECT on the connection returns
  disk   \* what the database file holds

Write(v) == view' = v /\ UNCHANGED disk

Commit == disk' = view /\ UNCHANGED view

Rollback == view' = disk /\ UNCHANGED disk

\* The connection is gone, by close() or with the process; what the next
\* connect() reads is what was committed.
Reopen == Rollback
===============================================================================
