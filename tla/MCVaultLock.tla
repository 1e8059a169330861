---------------------------- MODULE MCVaultLock ----------------------------
(* Instances of VaultLock for TLC.                                         *)
EXTENDS VaultLock, TLC

\* The timer threads are interchangeable.
LockerSymmetry == Permutations(Lockers)

=============================================================================
