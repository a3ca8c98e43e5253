---------------------------- MODULE MCMobileAuth ----------------------------
(* Instances of MobileAuth for TLC.                                        *)
EXTENDS MobileAuth, TLC

\* Slots, sessions and users are interchangeable.  Safety runs only.
Symmetry == Permutations(Tasks) \cup Permutations(Sessions)
              \cup Permutations(Users)
=============================================================================
