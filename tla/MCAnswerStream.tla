--------------------------- MODULE MCAnswerStream ---------------------------
(* Small instances of AnswerStream for TLC. *)
EXTENDS AnswerStream
=============================================================================
