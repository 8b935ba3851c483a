--------------------------- MODULE EventPipeline ---------------------------
(***************************************************************************)
(* Stages 1 and 2 of the event memory of one chat: messages that pass the  *)
(* heuristic are recorded in a Redis dedup set and pushed to a Redis       *)
(* buffer (memory/events.rs, enqueue_candidate); a scoring pass pops the    *)
(* whole buffer, asks the models and stores what they keep, or puts the     *)
(* candidates back when every model failed (tasks/score_events.rs).         *)
(*                                                                         *)
(* handle_message spawns, for every message, one enqueueing task and one    *)
(* task that ends in maybe_score; nothing orders them.  Every Redis command *)
(* is one step.  Candidates are named by their message.                     *)
(***************************************************************************)
EXTENDS Naturals, Sequences, FiniteSets, SequencesExt

CONSTANTS NumMsgs,     \* bound on the candidate messages of the chat
          Texts,       \* normalised text and description, as dedup_hash sees them
          TextOf,      \* the text of each message
          Threshold,   \* events.buffer_threshold
          Hour,        \* EVENT_DEDUP_SET_TTL_SEC, in ticks
          MaxKept,     \* bound on the entries the scorer keeps of one batch
          MaxFaults    \* bound on failed Redis commands and crashes

Msgs == 1..NumMsgs

ASSUME PipelineAssumption ==
  /\ NumMsgs \in Nat /\ Threshold \in Nat \ {0} /\ Hour \in Nat \ {0}
  /\ MaxKept \in Nat /\ MaxFaults \in Nat
  /\ TextOf \in [Msgs -> Texts]

VARIABLES posted,    \* messages posted so far
          enq,       \* enqueueing task of each message
          seen,      \* the Redis dedup set
          age,       \* ticks since each text was last offered to the set (saturating)
          buffer,    \* the Redis candidate list, oldest first
          score,     \* scoring task of each message
          batch,     \* candidates a scoring task popped and no model judged yet
          kept,      \* entries a scoring task still has to store
          stored,    \* events inserted, in order
          pushed,    \* candidates pushed, in order
          judged,    \* candidates some model's answer was obtained for
          forgotten, \* candidates whose buffer ran into its TTL
          overlapped,\* have two scoring passes ever been under way at once?
          faults

vars == <<posted, enq, seen, age, buffer, score, batch, kept, stored, pushed,
          judged, forgotten, overlapped, faults>>

Init ==
  /\ posted = 0
  /\ enq = [m \in Msgs |-> "none"]
  /\ seen = {}
  /\ age = [t \in Texts |-> Hour]
  /\ buffer = <<>>
  /\ score = [m \in Msgs |-> "none"]
  /\ batch = [m \in Msgs |-> <<>>]
  /\ kept = [m \in Msgs |-> <<>>]
  /\ stored = <<>>
  /\ pushed = <<>>
  /\ judged = {}
  /\ forgotten = {}
  /\ overlapped = FALSE
  /\ faults = 0

Fault == faults < MaxFaults /\ faults' = faults + 1

(* A message arrives and its two tasks are spawned; one that does not pass   *)
(* is_candidate is not offered, but its other task looks at the buffer.      *)
Post(candidate) ==
  /\ posted < NumMsgs
  /\ posted' = posted + 1
  /\ enq' = [enq EXCEPT ![posted'] = IF candidate THEN "hash" ELSE "done"]
  /\ score' = [score EXCEPT ![posted'] = "len"]
  /\ UNCHANGED <<seen, age, buffer, batch, kept, stored, pushed, judged,
                 forgotten, overlapped, faults>>

-----------------------------------------------------------------------------
(* Stage 1: enqueue_candidate.                                              *)

stage2 == <<posted, score, batch, kept, stored, judged, forgotten, overlapped>>

(* SADD and the EXPIRE that refreshes the whole set, in one transaction. *)
Offer(t) ==
  /\ seen' = seen \cup {t}
  /\ age' = [age EXCEPT ![t] = 0]

(* Mutant of HashNew: the set is only asked; the text is added by nobody. *)
HashNewAsksOnly(m) ==
  /\ enq[m] = "hash"
  /\ TextOf[m] \notin seen
  /\ age' = [age EXCEPT ![TextOf[m]] = 0]
  /\ enq' = [enq EXCEPT ![m] = "push"]
  /\ UNCHANGED <<stage2, buffer, pushed, seen, faults>>

HashNew(m) ==
  /\ enq[m] = "hash"
  /\ TextOf[m] \notin seen
  /\ Offer(TextOf[m])
  /\ enq' = [enq EXCEPT ![m] = "push"]
  /\ UNCHANGED <<stage2, buffer, pushed, faults>>

HashDup(m) ==
  /\ enq[m] = "hash"
  /\ TextOf[m] \in seen
  /\ Offer(TextOf[m])
  /\ enq' = [enq EXCEPT ![m] = "done"]
  /\ UNCHANGED <<stage2, buffer, pushed, faults>>

(* The dedup set does not answer: enqueue anyway. *)
HashFails(m) ==
  /\ Fault
  /\ enq[m] = "hash"
  /\ \/ Offer(TextOf[m])
     \/ UNCHANGED <<seen, age>>
  /\ enq' = [enq EXCEPT ![m] = "push"]
  /\ UNCHANGED <<stage2, buffer, pushed>>

(* RPUSH and EXPIRE. *)
PushCandidate(m) ==
  /\ enq[m] = "push"
  /\ buffer' = Append(buffer, m)
  /\ pushed' = Append(pushed, m)
  /\ enq' = [enq EXCEPT ![m] = "done"]
  /\ UNCHANGED <<stage2, seen, age, faults>>

(* The push is refused, or the bot stops: the text stays in the dedup set.  *)
PushFails(m) ==
  /\ Fault
  /\ enq[m] = "push"
  /\ enq' = [enq EXCEPT ![m] = "done"]
  /\ UNCHANGED <<stage2, seen, age, buffer, pushed>>

(* An hour without any offer ends the whole dedup set. *)
Tick ==
  /\ age' = [t \in Texts |-> IF age[t] = Hour THEN Hour ELSE age[t] + 1]
  /\ seen' = IF \A t \in Texts : age'[t] = Hour THEN {} ELSE seen
  /\ age' # age
  /\ UNCHANGED <<stage2, enq, buffer, pushed, faults>>

-----------------------------------------------------------------------------
(* Stage 2: maybe_score and run_score.                                      *)

stage1 == <<posted, enq, seen, age, pushed>>

Scoring == {m \in Msgs : score[m] \in {"pop", "ask", "embed", "insert"}}

Reached == Len(buffer) >= Threshold

(* LLEN: fewer than Threshold ends the task. *)
CheckLen(m) ==
  /\ score[m] = "len"
  /\ \/ /\ Reached
        /\ score' = [score EXCEPT ![m] = "pop"]
        /\ overlapped' = (overlapped \/ Scoring # {})
     \/ /\ ~Reached
        /\ score' = [score EXCEPT ![m] = "done"]
        /\ UNCHANGED overlapped
  /\ UNCHANGED <<stage1, buffer, batch, kept, stored, judged, forgotten, faults>>

(* Mutant of Pop: LRANGE without the DEL. *)
PopWithoutDel(m) ==
  /\ score[m] = "pop"
  /\ batch' = [batch EXCEPT ![m] = buffer]
  /\ score' = [score EXCEPT ![m] = IF buffer = <<>> THEN "done" ELSE "ask"]
  /\ UNCHANGED <<stage1, buffer, kept, stored, judged, forgotten, overlapped, faults>>

(* LRANGE 0 -1 and DEL in one transaction; an empty buffer ends the task. *)
Pop(m) ==
  /\ score[m] = "pop"
  /\ batch' = [batch EXCEPT ![m] = buffer]
  /\ buffer' = <<>>
  /\ score' = [score EXCEPT ![m] = IF buffer = <<>> THEN "done" ELSE "ask"]
  /\ UNCHANGED <<stage1, kept, stored, judged, forgotten, overlapped, faults>>

(* Mutant of Requeued: LPUSH in the original order inverts the batch. *)
RequeuedInverted(m) == Reverse(batch[m]) \o buffer

(* LPUSH from the newest to the oldest: the batch stands first, in order. *)
Requeued(m) == batch[m] \o buffer

(* Mutant of EndTask: the task ends and keeps its batch. *)
EndTaskWithBatch(m) ==
  /\ score' = [score EXCEPT ![m] = "done"]
  /\ UNCHANGED batch

EndTask(m) ==
  /\ score' = [score EXCEPT ![m] = "done"]
  /\ batch' = [batch EXCEPT ![m] = <<>>]

AllModelsFail(m) ==
  /\ score[m] = "ask"
  /\ buffer' = Requeued(m)
  /\ EndTask(m)
  /\ UNCHANGED <<stage1, kept, stored, judged, forgotten, overlapped, faults>>

(* Unparsable output, or nothing worth keeping: the batch is dropped. *)
KeepsNothing(m) ==
  /\ score[m] = "ask"
  /\ judged' = judged \cup Range(batch[m])
  /\ EndTask(m)
  /\ UNCHANGED <<stage1, buffer, kept, stored, forgotten, overlapped, faults>>

(* The scorer names entries of the batch, in any order, maybe one twice. *)
Keeps(m, k) ==
  /\ score[m] = "ask"
  /\ k # <<>>
  /\ judged' = judged \cup Range(batch[m])
  /\ kept' = [kept EXCEPT ![m] = k]
  /\ score' = [score EXCEPT ![m] = "embed"]
  /\ batch' = [batch EXCEPT ![m] = <<>>]
  /\ UNCHANGED <<stage1, buffer, stored, forgotten, overlapped, faults>>

Embedded(m) ==
  /\ score[m] = "embed"
  /\ score' = [score EXCEPT ![m] = "insert"]
  /\ UNCHANGED <<stage1, buffer, batch, kept, stored, judged, forgotten, overlapped, faults>>

(* The one batch request fails, or answers a wrong number of vectors. *)
EmbedFails(m) ==
  /\ score[m] = "embed"
  /\ kept' = [kept EXCEPT ![m] = <<>>]
  /\ EndTask(m)
  /\ UNCHANGED <<stage1, buffer, stored, judged, forgotten, overlapped, faults>>

(* One entry after the other; a failed insert is logged and skipped. *)
InsertNext(m) ==
  /\ score[m] = "insert"
  /\ \/ stored' = Append(stored, Head(kept[m]))
     \/ UNCHANGED stored
  /\ kept' = [kept EXCEPT ![m] = Tail(@)]
  /\ score' = [score EXCEPT ![m] = IF Len(kept[m]) = 1 THEN "done" ELSE "insert"]
  /\ UNCHANGED <<stage1, buffer, batch, judged, forgotten, overlapped, faults>>

(* LLEN or pop fails, or the pop was applied and its answer lost. *)
PopFails(m) ==
  /\ Fault
  /\ score[m] \in {"len", "pop"}
  /\ buffer' \in IF score[m] = "pop" THEN {buffer, <<>>} ELSE {buffer}
  /\ EndTask(m)
  /\ UNCHANGED <<stage1, kept, stored, judged, forgotten, overlapped>>

(* Every model failed and so does the requeue, applied or not. *)
RequeueFails(m) ==
  /\ Fault
  /\ score[m] = "ask"
  /\ buffer' \in {buffer, Requeued(m)}
  /\ EndTask(m)
  /\ UNCHANGED <<stage1, kept, stored, judged, forgotten, overlapped>>

(* A day without a push: the buffer runs into its TTL. *)
BufferExpires ==
  /\ buffer # <<>>
  /\ \A m \in Msgs : enq[m] \in {"none", "done"} /\ score[m] \in {"none", "done"}
  /\ forgotten' = forgotten \cup Range(buffer)
  /\ buffer' = <<>>
  /\ UNCHANGED <<stage1, score, batch, kept, stored, judged, overlapped, faults>>

Stopped(f) == [m \in Msgs |-> IF f[m] = "none" THEN "none" ELSE "done"]

(* The bot restarts: all tasks are gone, Redis and SQLite keep their state. *)
Crash ==
  /\ Fault
  /\ enq' = Stopped(enq)
  /\ score' = Stopped(score)
  /\ batch' = [m \in Msgs |-> <<>>]
  /\ kept' = [m \in Msgs |-> <<>>]
  /\ UNCHANGED <<posted, seen, age, buffer, stored, pushed, judged, forgotten, overlapped>>

(* The indices the scorer names; others than those of the batch are skipped. *)
SomeKept(m) == UNION {[1..n -> Range(batch[m])] : n \in 1..MaxKept}

Next ==
  \/ \E candidate \in BOOLEAN : Post(candidate)
  \/ \E m \in Msgs :
       \/ HashNew(m) \/ HashDup(m) \/ HashFails(m) \/ PushCandidate(m) \/ PushFails(m)
       \/ CheckLen(m) \/ Pop(m) \/ AllModelsFail(m) \/ KeepsNothing(m)
       \/ \E k \in SomeKept(m) : Keeps(m, k)
       \/ Embedded(m) \/ EmbedFails(m) \/ InsertNext(m)
       \/ PopFails(m) \/ RequeueFails(m)
  \/ Tick
  \/ BufferExpires
  \/ Crash

Spec == Init /\ [][Next]_vars

-----------------------------------------------------------------------------

(* Where candidate c stands now: in the buffer (as task 0) or in popped batches. *)
Places(c) ==
  {<<0, i>> : i \in {j \in DOMAIN buffer : buffer[j] = c}}
    \cup UNION {{<<m, i>> : i \in {j \in DOMAIN batch[m] : batch[m][j] = c}} : m \in Msgs}

StatusOf(c) ==
  CASE Places(c) = {} /\ c \in judged                           -> "judged"
    [] Places(c) = {} /\ c \notin judged /\ c \in Range(pushed) -> "lost"
    [] Places(c) = {} /\ c \notin judged \cup Range(pushed)       -> "absent"
    [] Cardinality(Places(c)) = 1 /\ c \notin judged             -> "waiting"
    [] OTHER                                                    -> "in two places"

PushIndex(c) == CHOOSE i \in DOMAIN pushed : pushed[i] = c

InPushOrder(s) == \A i, j \in DOMAIN s : i < j => PushIndex(s[i]) < PushIndex(s[j])

(* Every variable stays in its range; only a task that asked a model holds a  *)
(* batch, and only one that got its answer holds kept entries.                *)
TypeOK ==
  /\ posted \in 0..NumMsgs
  /\ enq \in [Msgs -> {"none", "hash", "push", "done"}]
  /\ seen \subseteq Texts
  /\ age \in [Texts -> 0..Hour]
  /\ buffer \in Seq(Msgs) /\ stored \in Seq(Msgs) /\ pushed \in Seq(Msgs)
  /\ score \in [Msgs -> {"none", "len", "pop", "ask", "embed", "insert", "done"}]
  /\ batch \in [Msgs -> Seq(Msgs)] /\ kept \in [Msgs -> Seq(Msgs)]
  /\ judged \subseteq Msgs /\ forgotten \subseteq Msgs
  /\ overlapped \in BOOLEAN /\ faults \in 0..MaxFaults
  /\ \A m \in Msgs : /\ batch[m] # <<>> <=> score[m] = "ask"
                     /\ kept[m] # <<>> <=> score[m] \in {"embed", "insert"}

(* As long as two scoring passes never overlapped, the buffer stands in the    *)
(* order of the pushes, whatever was put back (redis.rs:376-404).             *)
BufferInOrder == ~overlapped => InPushOrder(buffer)

(* While Redis answers, a text gets into the buffer again only an hour after   *)
(* it was last offered, however many tasks offer it at once                   *)
(* (redis.rs:421-438, events.rs:75-86).                                      *)
NewAfterHour ==
  [][\A m \in Msgs : HashNew(m) /\ faults = 0 => age[TextOf[m]] = Hour]_vars

Ledger == INSTANCE CandidateLedger WITH
  Candidates <- Msgs,
  status     <- [c \in Msgs |-> StatusOf(c)],
  excused    <- IF faults > 0 THEN Msgs ELSE forgotten,
  remembered <- Range(stored)

(* The pipeline implements the ledger: through concurrent passes and requeues    *)
(* a candidate is in one place until it is judged, it is judged once and never   *)
(* comes back, it is lost only to a failed command, a crash or the buffer's TTL, *)
(* and nothing is stored that no model judged                                   *)
(* (redis.rs:358-438, score_events.rs:48-230).                                  *)
KeepsLedger == Ledger!LedgerSpec
=============================================================================
