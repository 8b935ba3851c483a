--------------------------- MODULE MessageCounter ---------------------------
(***************************************************************************)
(* The counter that makes every N-th message of a chat trigger a summary:  *)
(* maybe_summarize of tasks/summarize.rs, an INCR and, when the answer has  *)
(* reached N, a DEL one round trip later and then the work.  Every message  *)
(* has a task of its own and nothing orders them.  maybe_extract_facts of  *)
(* tasks/extract_facts.rs is the same protocol on a counter per user.       *)
(***************************************************************************)
EXTENDS Naturals, FiniteSets

CONSTANTS Tasks,      \* concurrent maybe_summarize calls of one chat
          N,          \* memory.episodic_summary_every_n (0: no task does anything)
          MaxFaults   \* bound on failed commands and restarts

ASSUME CounterAssumption ==
  IsFiniteSet(Tasks) /\ N \in Nat \ {0} /\ MaxFaults \in Nat

VARIABLES counter,     \* episodic:counter, 0 when absent
          pc,          \* where each task is
          fresh,       \* messages counted since the last one that triggered
          overlapped,  \* did a task trigger before another had done its DEL?
          missed,      \* triggers whose DEL never came, since the last DEL
          faults

vars == <<counter, pc, fresh, overlapped, missed, faults>>

Init ==
  /\ counter = 0
  /\ pc = [t \in Tasks |-> "idle"]
  /\ fresh = 0
  /\ overlapped = FALSE
  /\ missed = 0
  /\ faults = 0

Resetting == {t \in Tasks : pc[t] = "reset"}

(* Mutant of Due: only the N-th message triggers, not every one from there. *)
DueOnce(count) == count = N

(* Mutant of Due: an off-by-one in the comparison. *)
DueOneEarly(count) == count + 1 >= N

Due(count) == count >= N

(* INCR answers less than N: nothing else to do. *)
Count(t) ==
  /\ pc[t] = "idle"
  /\ ~Due(counter + 1)
  /\ counter' = counter + 1
  /\ fresh' = fresh + 1
  /\ UNCHANGED <<pc, overlapped, missed, faults>>

Trigger(t) ==
  /\ pc[t] = "idle"
  /\ Due(counter + 1)
  /\ counter' = counter + 1
  /\ fresh' = 0
  /\ pc' = [pc EXCEPT ![t] = "reset"]
  /\ overlapped' = (overlapped \/ Resetting # {})
  /\ UNCHANGED <<missed, faults>>

(* Mutant of Reset: once others have counted on, only the own INCR is undone. *)
ResetUndoesOwn(t) ==
  /\ pc[t] = "reset"
  /\ counter' = IF counter <= N THEN 0 ELSE counter - 1
  /\ pc' = [pc EXCEPT ![t] = "work"]
  /\ missed' = IF counter <= N THEN 0 ELSE missed
  /\ UNCHANGED <<fresh, overlapped, faults>>

(* DEL, before the work. *)
Reset(t) ==
  /\ pc[t] = "reset"
  /\ counter' = 0
  /\ pc' = [pc EXCEPT ![t] = "work"]
  /\ missed' = 0
  /\ UNCHANGED <<fresh, overlapped, faults>>

(* The summary is stored. *)
WorkDone(t) ==
  /\ pc[t] = "work"
  /\ pc' = [pc EXCEPT ![t] = "idle"]
  /\ UNCHANGED <<counter, fresh, overlapped, missed, faults>>

(* No messages, no model, an answer that is empty, does not parse or names no *)
(* fact, no embedding, a failed insert.                                      *)
WorkFails(t) ==
  /\ pc[t] = "work"
  /\ pc' = [pc EXCEPT ![t] = "idle"]
  /\ UNCHANGED <<counter, fresh, overlapped, missed, faults>>

-----------------------------------------------------------------------------
Fault == faults < MaxFaults /\ faults' = faults + 1

(* INCR applied, its reply lost: the message counts, its task ends. *)
IncrLost(t) ==
  /\ Fault
  /\ pc[t] = "idle"
  /\ counter' = counter + 1
  /\ fresh' = fresh + 1
  /\ missed' = IF Due(counter + 1) THEN missed + 1 ELSE missed
  /\ UNCHANGED <<pc, overlapped>>

(* DEL fails, applied or not: no summary. *)
ResetFails(t) ==
  /\ Fault
  /\ pc[t] = "reset"
  /\ \/ counter' = 0 /\ missed' = 0
     \/ missed' = missed + 1 /\ UNCHANGED counter
  /\ pc' = [pc EXCEPT ![t] = "idle"]
  /\ UNCHANGED <<fresh, overlapped>>

(* The bot restarts; Redis keeps the counter. *)
Crash ==
  /\ Fault
  /\ \E t \in Tasks : pc[t] # "idle"
  /\ pc' = [t \in Tasks |-> "idle"]
  /\ missed' = missed + Cardinality(Resetting)
  /\ UNCHANGED <<counter, fresh, overlapped>>

Arrive(t) == Count(t) \/ Trigger(t)

Next ==
  \/ \E t \in Tasks : \/ Arrive(t) \/ Reset(t) \/ WorkDone(t) \/ WorkFails(t)
                      \/ IncrLost(t) \/ ResetFails(t)
  \/ Crash

Spec == Init /\ [][Next]_vars

-----------------------------------------------------------------------------

(* Every variable stays in its range. *)
TypeOK ==
  /\ counter \in Nat
  /\ pc \in [Tasks -> {"idle", "reset", "work"}]
  /\ fresh \in Nat
  /\ overlapped \in BOOLEAN
  /\ missed \in Nat
  /\ faults \in 0..MaxFaults

(* The counter is past the threshold only by the DELs that are still to come   *)
(* and by those that never came since the last one: it never runs away,        *)
(* whatever fails (summarize.rs:39-46).                                       *)
Overshoot == counter < N + Cardinality(Resetting) + missed

(* As long as no two tasks were between INCR and DEL at once, and nothing      *)
(* failed, a message triggers exactly as the N-th since the last that did.     *)
EveryNth ==
  [][\A t \in Tasks :
       Trigger(t) /\ ~overlapped' /\ faults = 0 => fresh + 1 = N]_vars

(* While messages keep coming the counter comes back below the threshold again *)
(* and again: a crash between INCR and DEL does not stall it                  *)
(* (summarize.rs:44-45).                                                     *)
NeverStalls == []<><<\E t \in Tasks : Arrive(t)>>_vars => []<>(counter < N)
=============================================================================
