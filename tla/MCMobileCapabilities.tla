------------------------- MODULE MCMobileCapabilities -------------------------
(* Instances of MobileCapabilities for TLC.                                     *)
EXTENDS MobileCapabilities
=============================================================================
