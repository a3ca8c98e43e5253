---------------------------- MODULE MCContactsList ----------------------------
(* Instances of ContactsList for TLC.                                           *)
EXTENDS ContactsList
=============================================================================
