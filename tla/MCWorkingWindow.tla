-------------------------- MODULE MCWorkingWindow --------------------------
(* Small instances of WorkingWindow for TLC. *)
EXTENDS WorkingWindow
=============================================================================
