-------------------------- MODULE MCEventPipeline --------------------------
(* Small instances of EventPipeline for TLC: messages 1 and 3 say the same. *)
EXTENDS EventPipeline

MCTexts == {"a", "b"}
MCTextOf == [m \in Msgs |-> IF m = 2 THEN "b" ELSE "a"]
=============================================================================
