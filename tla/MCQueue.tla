------------------------------ MODULE MCQueue ------------------------------
(* Instances of LinkedQueue for TLC. *)
EXTENDS LinkedQueue, TLC

(* malloc() may return any free address, and nothing compares addresses    *)
(* but for equality: which node is which does not matter.                  *)
Addresses == Permutations(Node)
=============================================================================
