---------------------------- MODULE MCContactCache ----------------------------
(* An instance of ContactCache for TLC.                                         *)
EXTENDS ContactCache, TLC

Symmetry == Permutations(Contacts) \cup Permutations(Searches) \cup Permutations(Drafts)
=============================================================================
