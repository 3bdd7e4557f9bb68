-------------------------- MODULE MCIdentityClaims --------------------------
(* Small instances of IdentityClaims. *)
EXTENDS IdentityClaims, TLC

Symmetry == Permutations(Users) \cup Permutations(Persons)
                \cup Permutations(Claims) \cup Permutations(Requests)
=============================================================================
