----------------------------- MODULE MCLlmCall -----------------------------
(* Small instances of LlmCall for TLC. *)
EXTENDS LlmCall
=============================================================================
