------------------------------ MODULE AtomicFile ------------------------------
(* What export_vault means to be for whoever looks at a destination: at every  *)
(* moment it holds one complete file or none ("write to a temp file first,     *)
(* then move atomically").                                                     *)
CONSTANTS
  Names,      \* destinations
  IsWhole(_), \* a file is complete
  None        \* no file there

VARIABLE files

Init == DOMAIN files = Names /\ \A n \in Names : files[n] = None \/ IsWhole(files[n])

Replace(n) ==
  /\ IsWhole(files'[n])
  /\ files' = [files EXCEPT ![n] = files'[n]]

Next == \E n \in Names : Replace(n)

Spec == Init /\ [][Next]_files
===============================================================================
