------------------------------ MODULE AuditChain ------------------------------
(***************************************************************************)
(* What the audit log promises (ADR-002): an append-only sequence of       *)
(* entries in which each one names the hash of the entry before it.        *)
(***************************************************************************)
EXTENDS Sequences

CONSTANTS
  Hashes,   \* the hashes entries can have; no two entries share one
  Genesis   \* GENESIS_HASH, what the first entry names

VARIABLE chain

Init == chain = <<>>

TipOf(c) == IF c = <<>> THEN Genesis ELSE c[Len(c)].hash

Append1(h) ==
  /\ \A i \in DOMAIN chain : chain[i].hash # h
  /\ chain' = Append(chain, [prev |-> TipOf(chain), hash |-> h])

Next == \E h \in Hashes : Append1(h)

Spec == Init /\ [][Next]_chain
===============================================================================
