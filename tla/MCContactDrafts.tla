--------------------------- MODULE MCContactDrafts ---------------------------
(* Instances of ContactDrafts for TLC.                                          *)
EXTENDS ContactDrafts, TLC

Symmetry == Permutations(Contents) \cup Permutations(Tasks)
=============================================================================
