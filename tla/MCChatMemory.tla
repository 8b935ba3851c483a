---------------------------- MODULE MCChatMemory ----------------------------
(* Small instances of ChatMemory for TLC. *)
EXTENDS ChatMemory
=============================================================================
