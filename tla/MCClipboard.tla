----------------------------- MODULE MCClipboard ------------------------------
(* Instances of Clipboard for TLC. *)
EXTENDS Clipboard, TLC

\* One secret is as good as another.
SecretSymmetry == Permutations(Secrets)
===============================================================================
