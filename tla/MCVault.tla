-------------------------------- MODULE MCVault --------------------------------
EXTENDS Vault, TLC

VaultSymmetry == Permutations(Paths) \cup Permutations(Passwords) \cup Permutations(Salts)
===============================================================================
