------------------------------ MODULE MCAuditLog ------------------------------
(* AuditLog on small instances.  The background threads only differ by name. *)
EXTENDS AuditLog, TLC

BackgroundSymmetry == Permutations(Background)
===============================================================================
