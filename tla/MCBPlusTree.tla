---------------------------- MODULE MCBPlusTree -----------------------------
(* Instances of BPlusTree for TLC. *)
EXTENDS BPlusTree

\* Every key has a row pointer of its own, so that a cell that ends up with
\* another key's pointer is noticed.
MCPointersOf == [key \in Keys |-> {100 + key}]
=============================================================================
