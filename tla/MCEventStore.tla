---------------------------- MODULE MCEventStore ----------------------------
(* Small instances of EventStore for TLC.  Vectors lie on a line, each like  *)
(* its neighbours, so that similarity is not transitive.                     *)
EXTENDS EventStore, TLC

MCScores == 1..2
MCVectors == 1..3
MCAlike == {p \in MCVectors \X MCVectors : p[1] <= p[2] + 1 /\ p[2] <= p[1] + 1}

Symmetry == Permutations(Inserters) \cup Permutations(Categories)
=============================================================================
