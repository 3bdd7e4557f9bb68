-------------------------- MODULE MCClanMembership --------------------------
(* Small instances of ClanMembership. *)
EXTENDS ClanMembership, TLC

Symmetry == Permutations(Users) \cup Permutations(Requests)
=============================================================================
