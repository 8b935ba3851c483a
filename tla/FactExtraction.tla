--------------------------- MODULE FactExtraction ---------------------------
(***************************************************************************)
(* What the counter of one user in one chat sets off: run_extract of        *)
(* tasks/extract_facts.rs, composed with the counter (MessageCounter), so   *)
(* that extractions overlap exactly as the counter lets them.  A run asks   *)
(* the model for facts and deals with them one by one: embed, search the    *)
(* user's points for one that is alike, insert the row, upsert the point.   *)
(*                                                                         *)
(* The "work" of MessageCounter is opened into these steps.  The user's     *)
(* rows and points are counted by fact.                                     *)
(***************************************************************************)
EXTENDS MessageCounter, Sequences, SequencesExt, Functions

CONSTANTS Facts,     \* what the model may name
          Alike,     \* pairs of facts whose similarity reaches fact_dedup_threshold
          MaxNamed,  \* bound on the facts of one answer
          MaxRows    \* bound on the rows

ASSUME FactsAssumption ==
  /\ Alike \subseteq Facts \X Facts
  /\ \A f \in Facts : <<f, f>> \in Alike
  /\ \A f, g \in Facts : <<f, g>> \in Alike => <<g, f>> \in Alike
  /\ MaxNamed \in Nat \ {0} /\ MaxRows \in Nat

VARIABLES todo,    \* facts of the answer a run has still to deal with
          stage,   \* where the run is with the first of them; "ask" before
          rows,    \* user_facts: rows by fact
          points,  \* the collection of the same name: points by fact
          lapped   \* did a search end while another run was about to store?

factVars == <<todo, stage, rows, points, lapped>>
allVars == <<vars, factVars>>

FactInit ==
  /\ Init
  /\ todo = [t \in Tasks |-> <<>>]
  /\ stage = [t \in Tasks |-> "ask"]
  /\ rows = [f \in Facts |-> 0]
  /\ points = [f \in Facts |-> 0]
  /\ lapped = FALSE

Storing == {t \in Tasks : stage[t] \in {"row", "point"}}

(* The model names facts, blank ones left out.  The guard bounds the rows. *)
FactsNamed(t) ==
  /\ pc[t] = "work"
  /\ stage[t] = "ask"
  /\ \E named \in BoundedSeq(Facts, MaxNamed) \ {<<>>} :
       /\ SumFunction(rows) + SumFunction([u \in Tasks |-> Len(todo[u])]) + Len(named) <= MaxRows
       /\ todo' = [todo EXCEPT ![t] = named]
  /\ stage' = [stage EXCEPT ![t] = "search"]
  /\ UNCHANGED <<vars, rows, points, lapped>>

(* No messages, no model, an answer that does not parse or names no fact. *)
NothingNamed(t) ==
  /\ stage[t] = "ask"
  /\ WorkFails(t)
  /\ UNCHANGED factVars

(* The run's loop goes on with the next fact, or is over. *)
NextFact(t) ==
  /\ todo' = [todo EXCEPT ![t] = Tail(@)]
  /\ IF Len(todo[t]) > 1
     THEN stage' = [stage EXCEPT ![t] = "search"] /\ UNCHANGED vars
     ELSE stage' = [stage EXCEPT ![t] = "ask"] /\ WorkDone(t)

(* An error leaves the whole run. *)
LeaveRun(t) ==
  /\ pc' = [pc EXCEPT ![t] = "idle"]
  /\ todo' = [todo EXCEPT ![t] = <<>>]
  /\ stage' = [stage EXCEPT ![t] = "ask"]
  /\ UNCHANGED <<counter, fresh, overlapped, missed>>

EmbedFails(t) ==
  /\ stage[t] = "search"
  /\ NextFact(t)
  /\ UNCHANGED <<rows, points, lapped>>

(* Mutant of Hit: only a point of the very same fact counts. *)
HitOfSame(f) == points[f] > 0

(* Mutant of Hit: two points of the same text tie, and a tie is no hit. *)
HitWithoutTie(f) == \E g \in Facts : <<f, g>> \in Alike /\ points[g] = 1

(* One of the three best hits reaches the threshold. *)
Hit(f) == \E g \in Facts : <<f, g>> \in Alike /\ points[g] > 0

Duplicate(t) ==
  /\ stage[t] = "search"
  /\ Hit(Head(todo[t]))
  /\ NextFact(t)
  /\ UNCHANGED <<rows, points, lapped>>

NewFact(t) ==
  /\ stage[t] = "search"
  /\ ~Hit(Head(todo[t]))
  /\ stage' = [stage EXCEPT ![t] = "row"]
  /\ lapped' = (lapped \/ Storing # {})
  /\ UNCHANGED <<vars, todo, rows, points>>

(* unwrap_or_default: a search that fails has found nothing. *)
SearchFails(t) ==
  /\ Fault
  /\ stage[t] = "search"
  /\ stage' = [stage EXCEPT ![t] = "row"]
  /\ lapped' = (lapped \/ Storing # {})
  /\ UNCHANGED <<counter, pc, fresh, overlapped, missed, todo, rows, points>>

(* Mutant of InsertRow: INSERT OR IGNORE on a key of user, chat and fact. *)
InsertRowOrIgnore(t) ==
  /\ stage[t] = "row"
  /\ rows' = [rows EXCEPT ![Head(todo[t])] = 1]
  /\ stage' = [stage EXCEPT ![t] = "point"]
  /\ UNCHANGED <<vars, todo, points, lapped>>

InsertRow(t) ==
  /\ stage[t] = "row"
  /\ rows' = [rows EXCEPT ![Head(todo[t])] = @ + 1]
  /\ stage' = [stage EXCEPT ![t] = "point"]
  /\ UNCHANGED <<vars, todo, points, lapped>>

(* The id is read back and the point written. *)
UpsertPoint(t) ==
  /\ stage[t] = "point"
  /\ points' = [points EXCEPT ![Head(todo[t])] = @ + 1]
  /\ NextFact(t)
  /\ UNCHANGED <<rows, lapped>>

(* The INSERT, the SELECT of the id or the upsert fails, applied or not. *)
RowFails(t) ==
  /\ Fault
  /\ stage[t] = "row"
  /\ rows' \in {rows, [rows EXCEPT ![Head(todo[t])] = @ + 1]}
  /\ LeaveRun(t)
  /\ UNCHANGED <<points, lapped>>

PointFails(t) ==
  /\ Fault
  /\ stage[t] = "point"
  /\ points' \in {points, [points EXCEPT ![Head(todo[t])] = @ + 1]}
  /\ LeaveRun(t)
  /\ UNCHANGED <<rows, lapped>>

CrashAll ==
  /\ Crash
  /\ todo' = [t \in Tasks |-> <<>>]
  /\ stage' = [t \in Tasks |-> "ask"]
  /\ UNCHANGED <<rows, points, lapped>>

CounterStep(t) ==
  /\ Arrive(t) \/ Reset(t) \/ IncrLost(t) \/ ResetFails(t)
  /\ UNCHANGED factVars

RunStep(t) ==
  \/ FactsNamed(t) \/ NothingNamed(t)
  \/ EmbedFails(t) \/ Duplicate(t) \/ NewFact(t) \/ InsertRow(t) \/ UpsertPoint(t)

RunFault(t) == SearchFails(t) \/ RowFails(t) \/ PointFails(t)

FactNext ==
  \/ \E t \in Tasks : CounterStep(t) \/ RunStep(t) \/ RunFault(t)
  \/ CrashAll

FactSpec == FactInit /\ [][FactNext]_allVars

(* As in MessageCounter; every call of a run is answered or times out. *)
FairFactSpec ==
  /\ FactSpec
  /\ \A t \in Tasks : WF_allVars(Reset(t) /\ UNCHANGED factVars) /\ WF_allVars(RunStep(t))

-----------------------------------------------------------------------------

(* Every variable stays in its range, and a run has facts to deal with         *)
(* exactly between the model's answer and its end.                            *)
FactTypeOK ==
  /\ todo \in [Tasks -> BoundedSeq(Facts, MaxNamed)]
  /\ stage \in [Tasks -> {"ask", "search", "row", "point"}]
  /\ rows \in [Facts -> Nat] /\ points \in [Facts -> Nat]
  /\ lapped \in BOOLEAN
  /\ \A t \in Tasks : /\ todo[t] = <<>> <=> stage[t] = "ask"
                      /\ stage[t] # "ask" => pc[t] = "work"

(* What the duplicate check is for: as long as nothing failed and no run       *)
(* searched while another was between its search and its upsert, no two stored *)
(* facts are alike (extract_facts.rs:137-165).                                *)
NoTwins ==
  faults = 0 /\ ~lapped =>
    \A f, g \in Facts : <<f, g>> \in Alike => points[f] + (IF f = g THEN 0 ELSE points[g]) <= 1

(* However extractions overlap, and for as long as they go on, the copies of a *)
(* fact that retrieval can find stay bounded: one for each run there can be at *)
(* once, and one for each failure (extract_facts.rs:131-203).                 *)
CopiesBounded == \A f \in Facts : points[f] <= Cardinality(Tasks) + faults

(* A point is never without its row, and without failures a row is without its *)
(* point only while its run is between the two (extract_facts.rs:168-200).     *)
RowsAndPoints ==
  \A f \in Facts :
    LET between == Cardinality({t \in Tasks : stage[t] = "point" /\ Head(todo[t]) = f})
    IN  /\ points[f] + between <= rows[f]
        /\ faults = 0 => points[f] + between = rows[f]
=============================================================================
