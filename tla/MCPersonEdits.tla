---------------------------- MODULE MCPersonEdits ----------------------------
(* Small instances of PersonEdits. *)
EXTENDS PersonEdits, TLC

Symmetry == Permutations(Requests) \cup Permutations(Proposals)
=============================================================================
