--------------------------- MODULE MCChatConnector ---------------------------
(* Instances of ChatConnector for TLC.                                     *)
EXTENDS ChatConnector, TLC

\* Accounts are interchangeable.  Safety runs only.
Symmetry == Permutations(Accounts)
=============================================================================
