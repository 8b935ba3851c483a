---------------------------- MODULE VisionSlots ----------------------------
(***************************************************************************)
(* The semaphore that caps concurrent vision calls: one Redis counter      *)
(* `vision:slots`, changed by INCR/DECR, guarded by a TTL that is set only  *)
(* by the call whose INCR returned 1 (storage/redis.rs, acquire_vision_slot *)
(* and release_vision_slot), and used by perceive_media of bot/handlers.rs.*)
(*                                                                         *)
(* Every Redis command is one atomic step; between two commands any other  *)
(* task, the TTL, a panic or a crash of the bot may come.  A command that  *)
(* fails may have been applied by the server or not (the reply was lost).  *)
(***************************************************************************)
EXTENDS Integers, FiniteSets

CONSTANTS Tasks,        \* concurrent perception runs
          Caps,         \* values of ratelimit.vision_concurrent
          MaxFaults     \* bound on panics, crashes and failed commands

ASSUME SlotAssumption ==
  /\ IsFiniteSet(Tasks)
  /\ Caps \subseteq Nat
  /\ MaxFaults \in Nat

VARIABLES slots,    \* value of vision:slots, 0 when the key is absent
          expiry,   \* "absent": no key, "never": no TTL, "pending": TTL runs
          pc,       \* where each perception run is
          count,    \* what the INCR of each run returned
          cap,      \* the cap of this process; 0 disables it
          faults,   \* faults so far
          stale,    \* has the key expired under a counted run?
          unguarded \* has a fault left the key without TTL?

vars == <<slots, expiry, pc, count, cap, faults, stale, unguarded>>

PCs == {"idle", "expire", "rollback", "describe", "reset"}

Init ==
  /\ slots = 0
  /\ expiry = "absent"
  /\ pc = [t \in Tasks |-> "idle"]
  /\ count = [t \in Tasks |-> 0]
  /\ cap \in Caps
  /\ faults = 0
  /\ stale = FALSE
  /\ unguarded = FALSE

(* INCR and DECR create a missing key, without a TTL. *)
Touched == IF expiry = "absent" THEN "never" ELSE expiry

(* Runs whose INCR the counter should still account for. *)
Counted ==
  {t \in Tasks : cap > 0 /\ pc[t] \in {"expire", "rollback", "describe"}}

(* Runs that were granted a slot and are calling the vision model. *)
Holders == {t \in Tasks : pc[t] = "describe"}

(* Mutant of Decided: an off-by-one in the comparison with the cap. *)
DecidedOffByOne(c) == IF c > cap + 1 THEN "rollback" ELSE "describe"

(* `count > max`: roll back and answer "busy", otherwise the slot is ours. *)
Decided(c) == IF c > cap THEN "rollback" ELSE "describe"

AcquireDisabled(t) ==
  /\ pc[t] = "idle"
  /\ cap = 0
  /\ pc' = [pc EXCEPT ![t] = "describe"]
  /\ count' = [count EXCEPT ![t] = 0]
  /\ UNCHANGED <<slots, expiry, cap, faults, stale, unguarded>>

Incr(t) ==
  /\ pc[t] = "idle"
  /\ cap > 0
  /\ slots' = slots + 1
  /\ expiry' = Touched
  /\ count' = [count EXCEPT ![t] = slots + 1]
  /\ pc' = [pc EXCEPT ![t] = IF slots + 1 = 1 THEN "expire"
                                              ELSE Decided(slots + 1)]
  /\ UNCHANGED <<cap, faults, stale, unguarded>>

(* Mutant of SetExpire: the first hit forgets its EXPIRE. *)
SetExpireForgotten(t) ==
  /\ pc[t] = "expire"
  /\ pc' = [pc EXCEPT ![t] = Decided(count[t])]
  /\ UNCHANGED <<slots, expiry, count, cap, faults, stale, unguarded>>

(* EXPIRE has no effect on a key that is gone. *)
SetExpire(t) ==
  /\ pc[t] = "expire"
  /\ expiry' = IF expiry = "absent" THEN "absent" ELSE "pending"
  /\ pc' = [pc EXCEPT ![t] = Decided(count[t])]
  /\ unguarded' = FALSE
  /\ UNCHANGED <<slots, count, cap, faults, stale>>

(* Mutant of Rollback: a denied run leaves its INCR in the counter. *)
RollbackForgotten(t) ==
  /\ pc[t] = "rollback"
  /\ pc' = [pc EXCEPT ![t] = "idle"]
  /\ UNCHANGED <<slots, expiry, count, cap, faults, stale, unguarded>>

Rollback(t) ==
  /\ pc[t] = "rollback"
  /\ slots' = slots - 1
  /\ expiry' = Touched
  /\ pc' = [pc EXCEPT ![t] = "idle"]
  /\ UNCHANGED <<count, cap, faults, stale, unguarded>>

(* Mutant of Release: no reset after a DECR below zero. *)
ReleaseNoReset(t) ==
  /\ pc[t] = "describe"
  /\ slots' = slots - 1
  /\ expiry' = Touched
  /\ pc' = [pc EXCEPT ![t] = "idle"]
  /\ UNCHANGED <<count, cap, faults, stale, unguarded>>

(* The vision call is over, with a description or an error: DECR. *)
Release(t) ==
  /\ pc[t] = "describe"
  /\ slots' = slots - 1
  /\ expiry' = Touched
  /\ pc' = [pc EXCEPT ![t] = IF slots - 1 < 0 THEN "reset" ELSE "idle"]
  /\ UNCHANGED <<count, cap, faults, stale, unguarded>>

(* SET vision:slots 0 EX 300, after a DECR that went below zero. *)
Reset(t) ==
  /\ pc[t] = "reset"
  /\ slots' = 0
  /\ expiry' = "pending"
  /\ pc' = [pc EXCEPT ![t] = "idle"]
  /\ unguarded' = FALSE
  /\ UNCHANGED <<count, cap, faults, stale>>

(* The guard TTL, set once and never renewed while calls overlap. *)
Expire ==
  /\ expiry = "pending"
  /\ slots' = 0
  /\ expiry' = "absent"
  /\ stale' = (stale \/ Counted # {})
  /\ unguarded' = FALSE
  /\ UNCHANGED <<pc, count, cap, faults>>

(***************************************************************************)
(* Faults.                                                                 *)
(***************************************************************************)
Fault ==
  /\ faults < MaxFaults
  /\ faults' = faults + 1

(* INCR applied, its reply lost: acquire returns Err, nobody owns the slot. *)
IncrLost(t) ==
  /\ Fault
  /\ pc[t] = "idle"
  /\ cap > 0
  /\ slots' = slots + 1
  /\ expiry' = Touched
  /\ unguarded' = (unguarded \/ (slots + 1 = 1 /\ Touched = "never"))
  /\ UNCHANGED <<pc, count, cap, stale>>

(* A panic, or an error whose command was not applied: the run ends where it *)
(* stands.  An INCR that failed unapplied changes nothing and is no step.    *)
Abort(t) ==
  /\ Fault
  /\ pc[t] # "idle"
  /\ pc' = [pc EXCEPT ![t] = "idle"]
  /\ unguarded' = (unguarded \/ (pc[t] = "expire" /\ expiry = "never"))
  /\ UNCHANGED <<slots, expiry, count, cap, stale>>

(* EXPIRE applied, reply lost: the `?` returns Err and the slot stays taken. *)
ExpireLost(t) ==
  /\ Fault
  /\ pc[t] = "expire"
  /\ expiry' = IF expiry = "absent" THEN "absent" ELSE "pending"
  /\ pc' = [pc EXCEPT ![t] = "idle"]
  /\ unguarded' = FALSE
  /\ UNCHANGED <<slots, count, cap, stale>>

(* DECR of a rollback or a release applied, reply lost: no reset follows. *)
DecrLost(t) ==
  /\ Fault
  /\ pc[t] \in {"rollback", "describe"}
  /\ slots' = slots - 1
  /\ expiry' = Touched
  /\ pc' = [pc EXCEPT ![t] = "idle"]
  /\ UNCHANGED <<count, cap, stale, unguarded>>

(* The bot dies or is shut down: every run is lost, Redis keeps its state. *)
Crash ==
  /\ Fault
  /\ \E t \in Tasks : pc[t] # "idle"
  /\ pc' = [t \in Tasks |-> "idle"]
  /\ unguarded' =
       (unguarded \/ (expiry = "never" /\ \E t \in Tasks : pc[t] = "expire"))
  /\ UNCHANGED <<slots, expiry, count, cap, stale>>

TaskStep(t) ==
  \/ SetExpire(t)
  \/ Rollback(t)
  \/ Release(t)
  \/ Reset(t)

TaskFault(t) ==
  \/ IncrLost(t)
  \/ Abort(t)
  \/ ExpireLost(t)
  \/ DecrLost(t)

Next ==
  \/ \E t \in Tasks : AcquireDisabled(t) \/ Incr(t) \/ TaskStep(t) \/ TaskFault(t)
  \/ Expire
  \/ Crash

Spec == Init /\ [][Next]_vars

(* A pinned key is touched only by INCR/DECR above 1, which do not renew the *)
(* TTL, so its 300 seconds do run out.  A run's own commands are answered or *)
(* fail: the vision call has a timeout and a bounded number of retries.      *)
PinnedExpire == slots >= cap /\ Expire

Fairness ==
  /\ \A t \in Tasks : WF_vars(TaskStep(t))
  /\ WF_vars(PinnedExpire)

FairSpec == Spec /\ Fairness

-----------------------------------------------------------------------------

(* Every variable stays in its range; a missing key counts as zero, and only *)
(* runs that did an INCR remember its answer. *)
TypeOK ==
  /\ slots \in Int
  /\ expiry \in {"absent", "never", "pending"}
  /\ pc \in [Tasks -> PCs]
  /\ count \in [Tasks -> Int]
  /\ cap \in Caps
  /\ faults \in 0..MaxFaults
  /\ stale \in BOOLEAN
  /\ unguarded \in BOOLEAN
  /\ expiry = "absent" => slots = 0

(* As long as the key never expired under a counted run, at most cap vision  *)
(* calls run at once - whatever crashes, panics and lost replies there were   *)
(* (redis.rs:135-175: INCR decides alone, rollbacks only lower it).           *)
SlotCap == cap > 0 /\ ~stale => Cardinality(Holders) <= cap

(* Without faults the counter never exceeds the runs that are between their  *)
(* INCR and their DECR, so a "busy" answer always has cap runs behind        *)
(* it, even after expiries and resets to zero (redis.rs:161-169, 187-199).   *)
NoOverCount == faults = 0 => slots <= Cardinality(Counted)

(* With the cap disabled each release still DECRs a counter nobody increased; *)
(* the reset brings it back to zero before the run ends, so that enabling the *)
(* cap later starts from zero (redis.rs:187-199, handlers.rs:574).           *)
QuiescentZero ==
  cap = 0 /\ faults = 0 /\ (\A t \in Tasks : pc[t] = "idle") => slots = 0

(* The guard TTL heals the counter after crashes, panics and lost replies: it  *)
(* is below the cap again and again, unless a fault between INCR and EXPIRE    *)
(* left the key without TTL (redis.rs:128-133, 158-165).                      *)
Recovers == []<>(cap = 0 \/ unguarded \/ slots < cap)

(* redis.rs:142-143 says EXPIRE is set "so a crashed process can't pin the     *)
(* counter at the cap forever".                                               *)
NeverPinned == []<>(cap = 0 \/ slots < cap)
=============================================================================
