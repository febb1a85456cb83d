----------------------------- MODULE MCTitanic ------------------------------
(* Titanic for TLC: UUIDs are interchangeable. *)
EXTENDS Titanic, TLC

Symmetry == Permutations(Uuids)
=============================================================================
