-------------------------- MODULE MCFactExtraction --------------------------
(* Small instances of FactExtraction for TLC: facts on a line, each like its *)
(* neighbours, so that likeness is not transitive.                           *)
EXTENDS FactExtraction

MCFacts == 1..3
MCAlike == {p \in MCFacts \X MCFacts : p[1] <= p[2] + 1 /\ p[2] <= p[1] + 1}
=============================================================================
