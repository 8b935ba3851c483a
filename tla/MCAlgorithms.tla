---------------------------- MODULE MCAlgorithms ----------------------------
(* The program's pure algorithms, each for every input up to a bound: one     *)
(* step from an input to its result.  Dedup inputs are categories of NEvents  *)
(* events with scores up to MaxScore, creation times up to LatestTime, any    *)
(* vectors missing and any similarities; texts are up to MaxText characters   *)
(* long and cut for messages of up to MaxLimit; streamed bodies are up to      *)
(* MaxBody characters long and arrive cut anywhere.  (The names are distinct  *)
(* from those of EventStore, whose proofs use this module as well.)           *)
EXTENDS DedupAlgorithm, ChunkMessage, SseLines

CONSTANTS NEvents, MaxScore, LatestTime, MaxText, MaxLimit, MaxBody

ASSUME AlgorithmBounds ==
  {NEvents, MaxScore, LatestTime, MaxText, MaxLimit, MaxBody} \subseteq Nat \ {0}

VARIABLES input, result, done

caseVars == <<input, result, done>>

(* ORDER BY created_at DESC: newest first, ties in any order. *)
NewestFirst(ev) == \A i, j \in DOMAIN ev : i < j => ev[i].created >= ev[j].created

DedupCases ==
  [algorithm : {"dedup"},
   ev  : {e \in [1..NEvents -> [score : 1..MaxScore, created : 1..LatestTime]] : NewestFirst(e)},
   has : SUBSET (1..NEvents),
   sim : SUBSET {p \in (1..NEvents) \X (1..NEvents) : p[1] < p[2]}]

Texts ==
  [algorithm : {"chunk"},
   text : BoundedSeq({"c", LineBreak}, MaxText) \ {<<>>},
   limit : 1..MaxLimit]

Bodies ==
  {b \in [algorithm : {"stream"},
          body : BoundedSeq({"d", "D", "x", LineBreak}, MaxBody) \ {<<>>},
          cuts : SUBSET (1..(MaxBody - 1))] :
     WellFormed(b.body) /\ \A c \in b.cuts : c < Len(b.body)}

CaseInit ==
  /\ input \in DedupCases \/ input \in Texts \/ input \in Bodies
  /\ result = {}
  /\ done = FALSE

Run(algorithm, value) ==
  /\ ~done
  /\ input.algorithm = algorithm
  /\ result' = value
  /\ done' = TRUE
  /\ UNCHANGED input

Dedup == Run("dedup", ToDelete(input.ev, input.has, input.sim))

Chunk == Run("chunk", Chunks(input.text, input.limit))

Stream == Run("stream", Yielded(PiecesOf(input.body, input.cuts)))

CaseSpec == CaseInit /\ [][Dedup \/ Chunk \/ Stream]_caseVars

Done(algorithm) == done /\ input.algorithm = algorithm
-----------------------------------------------------------------------------

(* After a pass no two events with vectors are duplicates of each other        *)
(* (dedup_events.rs:110-150).                                                *)
LeavesNoDuplicates ==
  Done("dedup") => NoDuplicatesLeft(input.ev, input.has, input.sim, result)

(* An event goes only as the duplicate of one that is at least as good, and    *)
(* never without a vector (dedup_events.rs:132-147).                          *)
DeletesOnlyWorse ==
  Done("dedup") => OnlyWorseDuplicatesGo(input.ev, input.has, input.sim, result)

(* An answer is cut so that nothing is lost, doubled or reordered, every chunk  *)
(* can be sent (neither longer than the limit nor empty, whatever lines meet   *)
(* the limit exactly), and no line is cut that need not be                     *)
(* (commands.rs:414-447).                                                      *)
CutWell ==
  Done("chunk") =>
    /\ SameText(input.text, result)
    /\ Fits(result, input.limit)
    /\ CutsOnlyLongLines(input.text, result, input.limit)

(* What an answer says does not depend on how the network cuts its bytes, even  *)
(* through a line or right before the [DONE] (client.rs:244-270).              *)
StreamsAlike == Done("stream") => AllDataLines(input.body, input.cuts)
=============================================================================
