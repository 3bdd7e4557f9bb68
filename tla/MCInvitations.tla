---------------------------- MODULE MCInvitations ----------------------------
(* Small instances of Invitations. *)
EXTENDS Invitations, TLC

Symmetry == Permutations(Users) \cup Permutations(Invitations)
                \cup Permutations(Rows) \cup Permutations(Requests)
=============================================================================
