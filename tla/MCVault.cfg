SPECIFICATION Spec
CONSTANTS
  Paths = {a, b}
  Passwords = {pw1, pw2}
  Salts = {s1, s2}
  Plain = Plain
  Blob = Blob
  None = None
  MaxSetups = 4
SYMMETRY VaultSymmetry
INVARIANTS VaultReadable FirstRunOnly
