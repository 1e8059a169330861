------------------------------- MODULE MCImport -------------------------------
(* Instances of Import for TLC: a vault of one entry, and files whose rows     *)
(* meet it, meet each other, or bring what the database refuses.               *)
EXTENDS Import, TLC

Row0 == [t |-> "x", u |-> "u", data |-> [pw |-> "file", notes |-> ""],
         bad |-> FALSE, tags |-> "text", id |-> Dangling]
Old  == [key |-> [t |-> "x", n |-> 0, u |-> "u"], data |-> [pw |-> "old", notes |-> "old"]]

MCStrip  == [t \in {"x", " x", "y", "u", " u", ""} |->
               CASE t = " x" -> "x" [] t = " u" -> "u" [] OTHER -> t]
MCVaults == {[n \in Ids |-> IF n = 1 THEN Old ELSE Gone]}

\* An export of this vault, with an entry that was deleted or renamed since.
Json == <<Row0, [Row0 EXCEPT !.t = "y", !.id = 1], [Row0 EXCEPT !.t = "y"]>>
\* A CSV file: tags are lists.
Csv  == <<[Row0 EXCEPT !.tags = "nil"], [Row0 EXCEPT !.t = "y", !.tags = "list"],
          [Row0 EXCEPT !.bad = TRUE]>>
\* A file of another program, with an entry that cannot be stored.
Other == <<[Row0 EXCEPT !.u = " u", !.tags = "nil"], [Row0 EXCEPT !.u = " u"]>>
MCFiles == {Json, Csv, Other}

MCBudgets == {[user |-> 1, lock |-> 0, crash |-> 0, start |-> 1],
              [user |-> 0, lock |-> 0, crash |-> 0, start |-> 2],
              [user |-> 0, lock |-> 1, crash |-> 1, start |-> 2]}
===============================================================================
