---------------------------- MODULE MCParentChild ----------------------------
(* Small instances of ParentChild. *)
EXTENDS ParentChild, TLC

Symmetry == Permutations(Persons) \cup Permutations(Links) \cup Permutations(Requests)
=============================================================================
