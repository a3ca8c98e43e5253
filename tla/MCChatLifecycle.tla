--------------------------- MODULE MCChatLifecycle ---------------------------
(* An instance of ChatLifecycle for TLC; the bounds are set in each .cfg.       *)
EXTENDS ChatLifecycle
=============================================================================
