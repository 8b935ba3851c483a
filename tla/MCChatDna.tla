----------------------------- MODULE MCChatDna -----------------------------
(* Small instances of ChatDna for TLC. *)
EXTENDS ChatDna
=============================================================================
