-------------------------- MODULE CandidateLedger --------------------------
(***************************************************************************)
(* What the event memory of a chat promises about its candidates, whatever  *)
(* lists, tasks and commands carry them: a candidate is entered once, is    *)
(* waiting in exactly one place until a model judges it, is lost only when   *)
(* there is an excuse, never comes back, and only what was judged is        *)
(* remembered.                                                               *)
(***************************************************************************)

CONSTANT Candidates

VARIABLES status,      \* where each candidate is
          excused,     \* those whose loss a failure or a TTL explains
          remembered   \* stored as events

ledgerVars == <<status, excused, remembered>>

LedgerInit ==
  /\ status = [c \in Candidates |-> "absent"]
  /\ excused = {}
  /\ remembered = {}

Move(some, to) == status' = [c \in Candidates |-> IF c \in some THEN to ELSE status[c]]

Waiting == {c \in Candidates : status[c] = "waiting"}

Enter(c) ==
  /\ status[c] = "absent"
  /\ Move({c}, "waiting")
  /\ UNCHANGED <<excused, remembered>>

(* Candidates are judged in batches. *)
Judge(some) ==
  /\ Move(some, "judged")
  /\ UNCHANGED <<excused, remembered>>

(* A failure excuses candidates, and takes some of them, or none. *)
Lose(some) ==
  /\ excused \cup some \subseteq excused'
  /\ excused' \subseteq Candidates
  /\ Move(some, "lost")
  /\ UNCHANGED remembered

Remember(c) ==
  /\ status[c] = "judged"
  /\ remembered' = remembered \cup {c}
  /\ UNCHANGED <<status, excused>>

LedgerNext ==
  \/ \E c \in Candidates : Enter(c) \/ Remember(c)
  \/ \E some \in SUBSET Waiting : Judge(some) \/ Lose(some)

LedgerSpec == LedgerInit /\ [][LedgerNext]_ledgerVars
=============================================================================
