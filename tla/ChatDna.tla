------------------------------ MODULE ChatDna ------------------------------
(***************************************************************************)
(* The long-term picture of one chat: the runs of run_summarize             *)
(* (tasks/summarize.rs) write summaries to SQLite and Qdrant, and the       *)
(* chat's worker, before each reply, takes the chat's "DNA" from Redis or   *)
(* has it synthesised from the newest summaries and cached for a day        *)
(* (tasks/chat_dna.rs).  Runs overlap; replies of a chat do not.            *)
(***************************************************************************)
EXTENDS Naturals, FiniteSets, Sequences

CONSTANTS Runs,          \* concurrent run_summarize calls
          Lookback,      \* DNA_LOOKBACK_SUMMARIES
          Day,           \* DNA_TTL_SEC, in ticks
          LongestCall,   \* the longest a synthesis takes, in ticks (see LlmCall)
          MaxSummaries,  \* bound on the rows
          MaxFaults      \* bound on failed commands and restarts

ASSUME DnaAssumption ==
  /\ IsFiniteSet(Runs)
  /\ {Lookback, Day} \subseteq Nat \ {0}
  /\ {LongestCall, MaxSummaries, MaxFaults} \subseteq Nat

VARIABLES run,     \* where each summary run is, and the row it wrote
          age,     \* episodic_summaries: ticks since each row's created_at (saturating)
          points,  \* rows with a point in Qdrant
          dna,     \* chat:<id>:dna
          ttl,     \* its remaining TTL
          reply,   \* the chat's worker
          faults

vars == <<run, age, points, dna, ttl, reply, faults>>

Idle == [at |-> "idle"]
Absent == [is |-> "absent"]
Horizon == Day + LongestCall + 2
Rows == DOMAIN age

Init ==
  /\ run = [r \in Runs |-> Idle]
  /\ age = <<>>
  /\ points = {}
  /\ dna = Absent
  /\ ttl = 0
  /\ reply = Idle
  /\ faults = 0

-----------------------------------------------------------------------------
Start(r) ==
  /\ run[r] = Idle
  /\ run' = [run EXCEPT ![r] = [at |-> "work"]]
  /\ UNCHANGED <<age, points, dna, ttl, reply, faults>>

(* No messages, no model, an empty summary, no embedding. *)
NoSummary(r) ==
  /\ run[r].at = "work"
  /\ run' = [run EXCEPT ![r] = Idle]
  /\ UNCHANGED <<age, points, dna, ttl, reply, faults>>

InsertSummary(r) ==
  /\ run[r].at = "work"
  /\ Len(age) < MaxSummaries
  /\ age' = Append(age, 0)
  /\ run' = [run EXCEPT ![r] = [at |-> "stored", row |-> Len(age) + 1]]
  /\ UNCHANGED <<points, dna, ttl, reply, faults>>

(* Mutant of UpsertSummary: the id is that of the newest row of the chat. *)
UpsertNewest(r) ==
  /\ run[r].at = "stored"
  /\ points' = points \cup {Len(age)}
  /\ run' = [run EXCEPT ![r] = Idle]
  /\ UNCHANGED <<age, dna, ttl, reply, faults>>

(* The row's id is read back by its point id; the point carries the text. *)
UpsertSummary(r) ==
  /\ run[r].at = "stored"
  /\ points' = points \cup {run[r].row}
  /\ run' = [run EXCEPT ![r] = Idle]
  /\ UNCHANGED <<age, dna, ttl, reply, faults>>

Fault == faults < MaxFaults /\ faults' = faults + 1

InsertLost(r) ==
  /\ Fault
  /\ run[r].at = "work"
  /\ Len(age) < MaxSummaries
  /\ age' = Append(age, 0)
  /\ run' = [run EXCEPT ![r] = Idle]
  /\ UNCHANGED <<points, dna, ttl, reply>>

UpsertFails(r) ==
  /\ Fault
  /\ run[r].at = "stored"
  /\ points' \in {points, points \cup {run[r].row}}
  /\ run' = [run EXCEPT ![r] = Idle]
  /\ UNCHANGED <<age, dna, ttl, reply>>

-----------------------------------------------------------------------------
(* Mutant of Misses: the cache is asked after the synthesis, not before. *)
MissesAlways == reply = Idle

(* A reply finds no DNA.  (When it finds one, or Redis fails, it goes on and *)
(* nothing changes.)                                                        *)
Misses == reply = Idle /\ dna = Absent

(* Mutant of Newest: ORDER BY created_at LIMIT 20. *)
Oldest ==
  {S \in SUBSET Rows :
     /\ Cardinality(S) = IF Len(age) < Lookback THEN Len(age) ELSE Lookback
     /\ \A i \in S, j \in Rows \ S : age[i] >= age[j]}

(* ORDER BY created_at DESC LIMIT 20: ties in any order. *)
Newest ==
  {S \in SUBSET Rows :
     /\ Cardinality(S) = IF Len(age) < Lookback THEN Len(age) ELSE Lookback
     /\ \A i \in S, j \in Rows \ S : age[i] <= age[j]}

(* The summaries are read; without any the text of a new chat is cached. *)
ReadSummaries ==
  /\ Misses
  /\ \E S \in Newest :
       reply' = [at |-> IF S = {} THEN "set" ELSE "ask", of |-> S, is |-> "text", took |-> 0]
  /\ UNCHANGED <<run, age, points, dna, ttl, faults>>

(* A completion, which may be blank: reasoning without an answer. *)
Synthesised(is) ==
  /\ reply.at = "ask"
  /\ reply' = [reply EXCEPT !.at = "set", !.is = is]
  /\ UNCHANGED <<run, age, points, dna, ttl, faults>>

(* The reply uses a stock phrase, which is not cached. *)
SynthesisFails ==
  /\ reply.at = "ask"
  /\ reply' = Idle
  /\ UNCHANGED <<run, age, points, dna, ttl, faults>>

Cached == dna' = [is |-> reply.is, of |-> reply.of] /\ ttl' = Day

(* SET EX, whatever it answers. *)
SetDna ==
  /\ reply.at = "set"
  /\ Cached
  /\ reply' = Idle
  /\ UNCHANGED <<run, age, points, faults>>

(* The SET is not applied; the reply uses the text all the same. *)
SetFails ==
  /\ Fault
  /\ reply.at = "set"
  /\ reply' = Idle
  /\ UNCHANGED <<run, age, points, dna, ttl>>

-----------------------------------------------------------------------------
Older(a) == IF a < Horizon THEN a + 1 ELSE a

(* A key whose TTL runs out is gone.  No synthesis takes longer than          *)
(* LongestCall, so time does not pass beyond it.                             *)
Tick ==
  /\ reply # Idle => reply.took < LongestCall
  /\ reply' = IF reply = Idle THEN Idle ELSE [reply EXCEPT !.took = @ + 1]
  /\ age' = [i \in Rows |-> Older(age[i])]
  /\ ttl' = IF ttl = 0 THEN 0 ELSE ttl - 1
  /\ dna' = IF ttl = 1 THEN Absent ELSE dna
  /\ UNCHANGED <<run, points, faults>>

(* The bot restarts; the stores stay. *)
Crash ==
  /\ Fault
  /\ run' = [r \in Runs |-> Idle]
  /\ reply' = Idle
  /\ UNCHANGED <<age, points, dna, ttl>>

Next ==
  \/ \E r \in Runs : \/ Start(r) \/ NoSummary(r) \/ InsertSummary(r) \/ UpsertSummary(r)
                     \/ InsertLost(r) \/ UpsertFails(r)
  \/ ReadSummaries \/ SynthesisFails \/ SetDna \/ SetFails
  \/ \E is \in {"text", "blank"} : Synthesised(is)
  \/ Tick
  \/ Crash

Spec == Init /\ [][Next]_vars

-----------------------------------------------------------------------------

(* Every variable stays in its range; a synthesis and a cached text are of rows *)
(* that exist, and a cached text has a TTL.                                   *)
TypeOK ==
  /\ run \in [Runs -> {Idle} \cup [at : {"work"}] \cup [at : {"stored"}, row : Rows]]
  /\ age \in Seq(0..Horizon)
  /\ points \subseteq Rows
  /\ dna \in {Absent} \cup [is : {"text", "blank"}, of : SUBSET Rows]
  /\ ttl \in 0..Day
  /\ dna = Absent <=> ttl = 0
  /\ reply \in {Idle} \cup [at : {"ask", "set"}, of : SUBSET Rows, is : {"text", "blank"},
                            took : 0..LongestCall]
  /\ faults \in 0..MaxFaults

NewerThan(i) == {j \in Rows : age[j] < age[i] \/ (age[j] = age[i] /\ j # i)}

(* A reply never sees an older picture than a day and one synthesis: a summary *)
(* as old as that is in the cached DNA, the text of a new chat included,       *)
(* unless Lookback others are as new (chat_dna.rs:6-25).                      *)
FreshEnough ==
  dna # Absent =>
    \A i \in Rows : \/ age[i] <= Day + LongestCall
                    \/ i \in dna.of
                    \/ Cardinality(NewerThan(i)) >= Lookback

(* A chat's worker synthesises for one reply at a time, so a cached text is     *)
(* never overwritten, neither by an older picture nor by a blank one: it goes  *)
(* only with its TTL (chat_dna.rs:12-19).                                     *)
NeverOverwritten == [][dna # Absent /\ dna' # dna => dna' = Absent]_vars

(* Without failures every summary is found by both retrievals, except while     *)
(* its run is between the two stores (summarize.rs:89-124).                    *)
BothStores ==
  faults = 0 =>
    Rows \ points = {run[r].row : r \in {q \in Runs : run[q].at = "stored"}}
=============================================================================
