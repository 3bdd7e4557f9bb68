--------------------------- MODULE MCAnniversaryJob ---------------------------
(* Small instances of AnniversaryJob. *)
EXTENDS AnniversaryJob, TLC

Symmetry == Permutations(Events) \cup Permutations(Runs)
=============================================================================
