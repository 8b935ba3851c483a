------------------------ MODULE RedisCountersProofs ------------------------
(***************************************************************************)
(* Two components live on counters in Redis with a TTL that is set only by *)
(* the INCR that answered 1 (storage/redis.rs): the semaphore of the       *)
(* vision calls (VisionSlots) and the two gates in front of a reply        *)
(* (RateLimit).  Both are proved here for every value of their constants.  *)
(*                                                                         *)
(* Vision slots: the counter is compared with two sets, the runs it should *)
(* account for (Counted) and those it admitted (Admitted).                 *)
(*                                                                         *)
(* Rate limits, in the second half: a chat's replies of the last Minute    *)
(* are split at the age of its window, and each part has a bound of its    *)
(* own.                                                                    *)
(***************************************************************************)
EXTENDS VisionSlots, RateLimit, FiniteSetTheorems, TLAPS

(* Runs whose INCR answered at most cap and that have not released. *)
Admitted == {t \in Tasks : pc[t] \in {"expire", "describe"}}

(* The run that got 1 is the only one to set the TTL, and no run goes through *)
(* the counter when the cap is disabled. *)
PcInv ==
  \A t \in Tasks :
    /\ pc[t] = "expire" => count[t] = 1
    /\ pc[t] \in {"expire", "rollback"} => cap > 0

(* The counter never falls below the runs it should account for: a fault only *)
(* leaves it too high. *)
CounterCovers == cap > 0 /\ ~stale => Cardinality(Counted) <= slots

AdmittedCap == cap > 0 /\ ~stale => Cardinality(Admitted) <= cap

(* A DECR goes below zero only after the key expired under a counted run. *)
ResetOnlyStale == cap > 0 /\ ~stale => \A t \in Tasks : pc[t] # "reset"

IInv == TypeOK /\ PcInv /\ CounterCovers /\ AdmittedCap /\ ResetOnlyStale

-----------------------------------------------------------------------------
(* Facts about the two sets, used by every step. *)

(* The runs are finitely many, and so are the subsets the counter is compared *)
(* with. *)
LEMMA SetsFinite ==
  /\ IsFiniteSet(Counted) /\ Cardinality(Counted) \in Nat
  /\ IsFiniteSet(Admitted) /\ Cardinality(Admitted) \in Nat
  /\ IsFiniteSet(Holders) /\ Cardinality(Holders) \in Nat
<1>1. Counted \subseteq Tasks /\ Admitted \subseteq Tasks /\ Holders \subseteq Tasks
  BY DEF Counted, Admitted, Holders
<1> QED
  BY <1>1, SlotAssumption, FS_Subset, FS_CardinalityType

(* Adding or removing one element of a finite set. *)
LEMMA CardAdd ==
  ASSUME NEW S, IsFiniteSet(S), NEW x, x \notin S
  PROVE  IsFiniteSet(S \cup {x}) /\ Cardinality(S \cup {x}) = Cardinality(S) + 1
BY FS_AddElement

(* Removing an element takes one away. *)
LEMMA CardRemove ==
  ASSUME NEW S, IsFiniteSet(S), NEW x, x \in S
  PROVE  /\ IsFiniteSet(S \ {x})
         /\ Cardinality(S \ {x}) = Cardinality(S) - 1
BY FS_RemoveElement, FS_CardinalityType

(* A subset is no larger. *)
LEMMA CardSubset ==
  ASSUME NEW S, IsFiniteSet(S), NEW T, T \subseteq S
  PROVE  Cardinality(T) \in Nat /\ Cardinality(T) <= Cardinality(S)
BY FS_Subset, FS_CardinalityType

-----------------------------------------------------------------------------
(* At the start the key is absent and no run is under way. *)
LEMMA InitTypeOK == Init => TypeOK
<1> SUFFICES ASSUME Init PROVE TypeOK
  OBVIOUS
<1>1. pc \in [Tasks -> PCs] /\ count \in [Tasks -> Int]
  BY DEF Init, PCs
<1>2. faults \in 0..MaxFaults
  BY SlotAssumption DEF Init
<1>3. stale \in BOOLEAN /\ unguarded \in BOOLEAN
  BY Zenon DEF Init
<1>4. slots \in Int /\ expiry \in {"absent", "never", "pending"} /\ slots = 0 /\ cap \in Caps
  BY DEF Init
<1> QED
  BY <1>1, <1>2, <1>3, <1>4 DEF TypeOK

(* The cap of a process never changes. *)
LEMMA NextCap == [Next]_vars => cap' = cap
BY DEF Next, TaskStep, TaskFault, AcquireDisabled, Incr, SetExpire, Rollback, Release,
       Reset, IncrLost, Abort, ExpireLost, DecrLost, Expire, Crash, vars

(* The Boolean variables stay Boolean. *)
LEMMA NextBooleans == TypeOK /\ [Next]_vars => stale' \in BOOLEAN /\ unguarded' \in BOOLEAN
<1> SUFFICES ASSUME TypeOK, [Next]_vars
             PROVE  stale' \in BOOLEAN /\ unguarded' \in BOOLEAN
  OBVIOUS
<1>0. stale \in BOOLEAN /\ unguarded \in BOOLEAN
  BY DEF TypeOK
<1>1. ASSUME NEW t \in Tasks, AcquireDisabled(t) \/ Incr(t) \/ TaskStep(t)
      PROVE  stale' \in BOOLEAN /\ unguarded' \in BOOLEAN
  BY <1>0, <1>1, Zenon
     DEF AcquireDisabled, Incr, TaskStep, SetExpire, Rollback, Release, Reset
<1>2. ASSUME NEW t \in Tasks, TaskFault(t)
      PROVE  stale' \in BOOLEAN /\ unguarded' \in BOOLEAN
  BY <1>0, <1>2, Zenon DEF TaskFault, IncrLost, Abort, ExpireLost, DecrLost
<1>3. CASE Expire \/ Crash
  BY <1>0, <1>3, Zenon DEF Expire, Crash
<1>4. CASE UNCHANGED vars
  BY <1>0, <1>4 DEF vars
<1> QED
  BY <1>1, <1>2, <1>3, <1>4 DEF Next

(* No command, fault, expiry or restart takes a variable out of its range. *)
LEMMA NextTypeOK == TypeOK /\ [Next]_vars => TypeOK'
<1> SUFFICES ASSUME TypeOK, [Next]_vars PROVE TypeOK'
  OBVIOUS
<1>0. stale' \in BOOLEAN /\ unguarded' \in BOOLEAN
  BY NextBooleans
<1> USE <1>0, SlotAssumption DEF TypeOK, PCs, Touched, Decided, Fault
<1>1. ASSUME NEW t \in Tasks, AcquireDisabled(t) \/ Incr(t) PROVE TypeOK'
  BY <1>1 DEF AcquireDisabled, Incr
<1>2. ASSUME NEW t \in Tasks, TaskStep(t) PROVE TypeOK'
  BY <1>2 DEF TaskStep, SetExpire, Rollback, Release, Reset
<1>3. ASSUME NEW t \in Tasks, TaskFault(t) PROVE TypeOK'
  BY <1>3 DEF TaskFault, IncrLost, Abort, ExpireLost, DecrLost
<1>4. CASE Expire
  BY <1>4 DEF Expire
<1>5. CASE Crash
  BY <1>5 DEF Crash
<1>6. CASE UNCHANGED vars
  BY <1>6 DEF vars
<1> QED
  BY <1>1, <1>2, <1>3, <1>4, <1>5, <1>6 DEF Next

(* A redis counter key that is absent reads as zero, and every variable keeps *)
(* its range: the type invariant of the semaphore. *)
THEOREM TypeCorrect == Spec => []TypeOK
BY InitTypeOK, NextTypeOK, PTL DEF Spec

-----------------------------------------------------------------------------
(* Without faults a run in the counter is a run that still has a DECR to do.  *)
(* The counter may fall below the runs (after an expiry, or a reset to zero   *)
(* by a run that was not counted any more) but never rises above them.       *)
THEOREM NoFaultNoOverCount == Spec => []NoOverCount
<1>1. Init => NoOverCount
  <2> SUFFICES ASSUME Init PROVE 0 <= Cardinality(Counted)
    BY DEF Init, NoOverCount
  <2> QED
    BY SetsFinite
<1>2. TypeOK /\ TypeOK' /\ NoOverCount /\ [Next]_vars => NoOverCount'
  <2> SUFFICES ASSUME TypeOK, TypeOK', NoOverCount, [Next]_vars, faults' = 0
               PROVE  slots' <= Cardinality(Counted')
    BY DEF NoOverCount
  <2>0. /\ slots \in Int /\ slots' \in Int
        /\ faults \in Nat
        /\ pc \in [Tasks -> PCs]
        /\ IsFiniteSet(Counted) /\ Cardinality(Counted) \in Nat
        /\ IsFiniteSet(Counted') /\ Cardinality(Counted') \in Nat
    <3>1. faults \in Nat
      BY SlotAssumption DEF TypeOK
    <3>2. Counted' \subseteq Tasks
      BY DEF Counted
    <3> QED
      BY <3>1, <3>2, SetsFinite, SlotAssumption, FS_Subset, FS_CardinalityType DEF TypeOK
  <2>1. ASSUME faults' = faults
        PROVE  slots <= Cardinality(Counted)
    BY <2>1 DEF NoOverCount
  <2>2. ASSUME NEW t \in Tasks, AcquireDisabled(t)
        PROVE  slots' <= Cardinality(Counted')
    <3>1. Counted = {} /\ slots' = slots /\ faults' = faults
      BY <2>2, SlotAssumption DEF Counted, AcquireDisabled
    <3>2. Cardinality(Counted) = 0
      BY <3>1, FS_EmptySet
    <3> QED
      BY <2>0, <2>1, <3>1, <3>2
  <2>3. ASSUME NEW t \in Tasks, Incr(t)
        PROVE  slots' <= Cardinality(Counted')
    <3>1. Counted' = Counted \cup {t} /\ t \notin Counted
      BY <2>3, <2>0 DEF Incr, Counted, Decided
    <3>2. Cardinality(Counted') = Cardinality(Counted) + 1
      BY <3>1, <2>0, CardAdd
    <3> QED
      BY <2>0, <2>1, <2>3, <3>2 DEF Incr
  <2>4. ASSUME NEW t \in Tasks, SetExpire(t)
        PROVE  slots' <= Cardinality(Counted')
    <3>1. Counted' = Counted
      BY <2>4, <2>0 DEF SetExpire, Counted, Decided
    <3> QED
      BY <2>1, <2>4, <3>1 DEF SetExpire
  <2>5. ASSUME NEW t \in Tasks, Rollback(t) \/ Release(t)
        PROVE  slots' <= Cardinality(Counted')
    <3>1. slots' = slots - 1 /\ faults' = faults
      BY <2>5 DEF Rollback, Release
    <3>2. CASE cap > 0
      <4>1. Counted' = Counted \ {t} /\ t \in Counted
        BY <3>2, <2>5, <2>0 DEF Rollback, Release, Counted
      <4>2. Cardinality(Counted') = Cardinality(Counted) - 1
        BY <4>1, <2>0, CardRemove
      <4> QED
        BY <2>0, <2>1, <3>1, <4>2
    <3>3. CASE ~(cap > 0)
      <4>1. Counted = {} /\ Counted' = {}
        BY <3>3, NextCap DEF Counted
      <4> QED
        BY <2>0, <2>1, <3>1, <4>1
    <3> QED
      BY <3>2, <3>3
  <2>6. ASSUME NEW t \in Tasks, Reset(t)
        PROVE  slots' <= Cardinality(Counted')
    BY <2>6, <2>0 DEF Reset
  <2>7. CASE \E t \in Tasks : TaskFault(t)
    BY <2>7, <2>0 DEF TaskFault, IncrLost, Abort, ExpireLost, DecrLost, Fault
  <2>8. CASE Expire
    BY <2>8, <2>0 DEF Expire
  <2>9. CASE Crash
    BY <2>9, <2>0 DEF Crash, Fault
  <2>10. CASE UNCHANGED vars
    <3>1. Counted' = Counted
      BY <2>10 DEF vars, Counted
    <3> QED
      BY <2>1, <2>10, <3>1 DEF vars
  <2> QED
    BY <2>2, <2>3, <2>4, <2>5, <2>6, <2>7, <2>8, <2>9, <2>10 DEF Next, TaskStep
<1> QED
  BY <1>1, <1>2, TypeCorrect, PTL DEF Spec

-----------------------------------------------------------------------------
(* The semaphore as the comment in redis.rs means it: as long as the key does *)
(* not expire under a counted run, at most cap runs hold a slot, through *)
(* any number of panics, crashes and lost replies.                           *)
LEMMA InitIInv == Init => IInv
<1> SUFFICES ASSUME Init PROVE PcInv /\ CounterCovers /\ AdmittedCap /\ ResetOnlyStale
  BY InitTypeOK DEF IInv
<1>1. Counted = {} /\ Admitted = {}
  BY DEF Init, Counted, Admitted
<1>2. Cardinality(Counted) = 0 /\ Cardinality(Admitted) = 0
  BY <1>1, FS_EmptySet
<1> QED
  BY <1>2, SlotAssumption DEF Init, PcInv, CounterCovers, AdmittedCap, ResetOnlyStale

(* Only the run that got 1 goes on to EXPIRE, whatever the others do. *)
LEMMA NextPcInv == TypeOK /\ PcInv /\ [Next]_vars => PcInv'
<1> SUFFICES ASSUME TypeOK, PcInv, [Next]_vars PROVE PcInv'
  OBVIOUS
<1>0. pc \in [Tasks -> PCs] /\ count \in [Tasks -> Int] /\ slots \in Int
  BY DEF TypeOK
<1> USE DEF PcInv, Decided
<1>1. ASSUME NEW t \in Tasks, AcquireDisabled(t) \/ Incr(t) PROVE PcInv'
  BY <1>0, <1>1 DEF AcquireDisabled, Incr
<1>2. ASSUME NEW t \in Tasks, TaskStep(t) PROVE PcInv'
  BY <1>0, <1>2 DEF TaskStep, SetExpire, Rollback, Release, Reset
<1>3. ASSUME NEW t \in Tasks, TaskFault(t) PROVE PcInv'
  BY <1>0, <1>3 DEF TaskFault, IncrLost, Abort, ExpireLost, DecrLost
<1>4. CASE Expire \/ Crash
  BY <1>0, <1>4 DEF Expire, Crash
<1>5. CASE UNCHANGED vars
  BY <1>5 DEF vars
<1> QED
  BY <1>1, <1>2, <1>3, <1>4, <1>5 DEF Next

(* INCR, DECR and the failures of both keep the counter above the runs it      *)
(* accounts for, and therefore the admitted runs within the cap.               *)
LEMMA NextSlotSets == IInv /\ [Next]_vars => CounterCovers' /\ AdmittedCap'
<1> SUFFICES ASSUME IInv, [Next]_vars, cap > 0, ~stale'
             PROVE  /\ Cardinality(Counted') <= slots'
                    /\ Cardinality(Admitted') <= cap
  BY NextCap DEF CounterCovers, AdmittedCap
<1>0. cap' = cap
  BY NextCap
<1> DEFINE Goal == /\ Cardinality(Counted') <= slots'
                   /\ Cardinality(Admitted') <= cap
<1>1. /\ slots \in Int
      /\ cap \in Nat
      /\ pc \in [Tasks -> PCs]
      /\ count \in [Tasks -> Int]
      /\ IsFiniteSet(Counted) /\ Cardinality(Counted) \in Nat
      /\ IsFiniteSet(Admitted) /\ Cardinality(Admitted) \in Nat
      /\ Admitted \subseteq Counted
  BY SetsFinite, SlotAssumption DEF IInv, TypeOK, Counted, Admitted
<1>2. ASSUME stale' = stale \/ Expire
      PROVE  /\ Cardinality(Counted) <= slots
             /\ Cardinality(Admitted) <= cap
             /\ \A t \in Tasks : pc[t] # "reset"
  BY <1>2 DEF IInv, CounterCovers, AdmittedCap, ResetOnlyStale, Expire
<1>3. ASSUME NEW t \in Tasks, Incr(t) PROVE Goal
  <2>1. Counted' = Counted \cup {t} /\ t \notin Counted
    BY <1>1, <1>3 DEF Incr, Counted, Decided
  <2>2. Cardinality(Counted') = Cardinality(Counted) + 1 /\ IsFiniteSet(Counted')
    BY <2>1, <1>1, CardAdd
  <2>3. slots' = slots + 1 /\ Cardinality(Counted') <= slots'
    BY <1>1, <1>2, <1>3, <2>2 DEF Incr
  <2>4. CASE slots + 1 <= cap
    <3>1. Admitted' \subseteq Counted'
      BY <1>0 DEF Admitted, Counted
    <3>2. Cardinality(Admitted') \in Nat /\ Cardinality(Admitted') <= Cardinality(Counted')
      BY <3>1, <2>2, CardSubset
    <3> QED
      BY <1>1, <2>2, <2>3, <2>4, <3>2
  <2>5. CASE slots + 1 > cap
    <3>1. Admitted' = Admitted
      BY <1>1, <1>3, <2>5 DEF Incr, Admitted, Decided
    <3> QED
      BY <1>2, <1>3, <2>3, <3>1 DEF Incr
  <2> QED
    BY <1>1, <2>4, <2>5
<1>4. ASSUME NEW t \in Tasks, SetExpire(t) PROVE Goal
  <2>1. Counted' = Counted /\ Admitted' = Admitted
    BY <1>1, <1>4 DEF IInv, PcInv, SetExpire, Counted, Admitted, Decided
  <2> QED
    BY <1>2, <1>4, <2>1 DEF SetExpire
<1>5. ASSUME NEW t \in Tasks, pc[t] \in {"rollback", "describe"},
             slots' = slots - 1, stale' = stale,
             pc' \in [Tasks -> PCs],
             pc'[t] \in {"idle", "reset"},
             \A u \in Tasks \ {t} : pc'[u] = pc[u]
      PROVE  Goal
  <2>1. Counted' = Counted \ {t} /\ t \in Counted
    BY <1>0, <1>1, <1>5 DEF Counted
  <2>2. Cardinality(Counted') = Cardinality(Counted) - 1
    BY <2>1, <1>1, CardRemove
  <2>3. Admitted' \subseteq Admitted
    BY <1>1, <1>5 DEF Admitted
  <2>4. Cardinality(Admitted') \in Nat /\ Cardinality(Admitted') <= Cardinality(Admitted)
    BY <2>3, <1>1, CardSubset
  <2> QED
    BY <1>1, <1>2, <1>5, <2>2, <2>4
<1>6. ASSUME NEW t \in Tasks, Rollback(t) \/ Release(t) \/ DecrLost(t) PROVE Goal
  BY <1>1, <1>5, <1>6 DEF Rollback, Release, DecrLost, PCs
<1>7. ASSUME stale' = stale, slots' >= slots, slots' \in Int,
             Counted' \subseteq Counted, Admitted' \subseteq Admitted
      PROVE  Goal
  <2>1. /\ Cardinality(Counted') \in Nat /\ Cardinality(Counted') <= Cardinality(Counted)
        /\ Cardinality(Admitted') \in Nat /\ Cardinality(Admitted') <= Cardinality(Admitted)
    BY <1>1, <1>7, CardSubset
  <2> QED
    BY <1>1, <1>2, <1>7, <2>1
<1>8. ASSUME NEW t \in Tasks, IncrLost(t) \/ Abort(t) \/ ExpireLost(t) PROVE Goal
  BY <1>1, <1>7, <1>8 DEF IncrLost, Abort, ExpireLost, Counted, Admitted
<1>9. CASE Crash
  BY <1>1, <1>7, <1>9 DEF Crash, Counted, Admitted
<1>10. CASE Expire
  <2>1. Counted = {} /\ Counted' = Counted /\ Admitted' = Admitted /\ slots' = 0
    BY <1>10 DEF Expire, Counted, Admitted
  <2> QED
    BY <1>1, <1>2, <1>10, <2>1, FS_EmptySet
<1>11. ASSUME NEW t \in Tasks, Reset(t) PROVE Goal
  BY <1>2, <1>11 DEF Reset
<1>12. CASE UNCHANGED vars
  BY <1>1, <1>7, <1>12 DEF vars, Counted, Admitted
<1>13. ASSUME NEW t \in Tasks, AcquireDisabled(t) PROVE Goal
  BY <1>13, <1>1 DEF AcquireDisabled
<1> QED
  BY <1>3, <1>4, <1>6, <1>8, <1>9, <1>10, <1>11, <1>12, <1>13
     DEF Next, TaskStep, TaskFault

(* A release by a counted run finds a counter of at least one. *)
LEMMA NextResetOnlyStale == IInv /\ [Next]_vars => ResetOnlyStale'
<1> SUFFICES ASSUME IInv, [Next]_vars, cap > 0, ~stale'
             PROVE  \A t \in Tasks : pc'[t] # "reset"
  BY NextCap DEF ResetOnlyStale
<1>1. ~stale /\ (\A t \in Tasks : pc[t] # "reset") /\ Cardinality(Counted) <= slots
  <2>1. ~stale
    BY DEF Next, TaskStep, TaskFault, AcquireDisabled, Incr, SetExpire, Rollback,
           Release, Reset, IncrLost, Abort, ExpireLost, DecrLost, Expire, Crash, vars
  <2> QED
    BY <2>1 DEF IInv, CounterCovers, ResetOnlyStale
<1>2. pc \in [Tasks -> PCs] /\ slots \in Int
  BY DEF IInv, TypeOK
<1>3. ASSUME NEW t \in Tasks, Release(t) PROVE \A u \in Tasks : pc'[u] # "reset"
  <2>1. t \in Counted
    BY <1>3 DEF Release, Counted
  <2>2. Cardinality({t}) = 1 /\ Cardinality({t}) <= Cardinality(Counted)
    BY <2>1, SetsFinite, CardSubset, FS_Singleton
  <2>3. slots >= 1
    BY <1>1, <1>2, <2>2, SetsFinite
  <2> QED
    BY <1>1, <1>2, <1>3, <2>3 DEF Release
<1>4. ASSUME NEW t \in Tasks,
             \/ AcquireDisabled(t) \/ Incr(t) \/ SetExpire(t) \/ Rollback(t)
             \/ Reset(t) \/ TaskFault(t)
      PROVE  \A u \in Tasks : pc'[u] # "reset"
  BY <1>1, <1>2, <1>4 DEF AcquireDisabled, Incr, SetExpire, Rollback, Reset, Decided,
                          TaskFault, IncrLost, Abort, ExpireLost, DecrLost
<1>5. CASE Expire \/ Crash \/ UNCHANGED vars
  BY <1>1, <1>2, <1>5 DEF Expire, Crash, vars
<1> QED
  BY <1>3, <1>4, <1>5 DEF Next, TaskStep

(* At most cap vision calls run at once until the key expires under a      *)
(* counted run, whatever fails (redis.rs:149-208).                             *)
THEOREM SlotCapHolds == Spec => []SlotCap
<1>1. IInv /\ [Next]_vars => IInv'
  <2>1. IInv /\ [Next]_vars => TypeOK'
    BY NextTypeOK DEF IInv
  <2> QED
    BY <2>1, NextPcInv, NextSlotSets, NextResetOnlyStale DEF IInv
<1>2. IInv => SlotCap
  <2> SUFFICES ASSUME IInv, cap > 0, ~stale
               PROVE  Cardinality(Holders) <= cap
    BY DEF SlotCap
  <2>1. Holders \subseteq Admitted
    BY DEF Holders, Admitted
  <2>2. Cardinality(Holders) \in Nat /\ Cardinality(Holders) <= Cardinality(Admitted)
    BY <2>1, SetsFinite, CardSubset
  <2>3. cap \in Nat
    BY SlotAssumption DEF IInv, TypeOK
  <2> QED
    BY <2>2, <2>3, SetsFinite DEF IInv, AdmittedCap
<1> QED
  BY InitIInv, <1>1, <1>2, PTL DEF Spec

-----------------------------------------------------------------------------
(* With the cap disabled no INCR is ever sent, so every release takes the      *)
(* counter below zero, and the run that did it owes the reset.                *)
Owed ==
  cap = 0 /\ faults = 0 =>
    /\ slots <= 0
    /\ slots < 0 => \E t \in Tasks : pc[t] = "reset"

(* A step without a fault keeps the debt of a disabled cap: a release that goes *)
(* below zero leaves its run at the reset, and no other run can be that one.   *)
LEMMA NextOwed == TypeOK /\ PcInv /\ Owed /\ [Next]_vars => Owed'
<1> SUFFICES ASSUME TypeOK, PcInv, Owed, [Next]_vars, cap = 0, faults' = 0
             PROVE  /\ slots' <= 0
                    /\ slots' < 0 => \E t \in Tasks : pc'[t] = "reset"
  BY NextCap DEF Owed
<1> DEFINE Goal == /\ slots' <= 0
                   /\ slots' < 0 => \E t \in Tasks : pc'[t] = "reset"
<1>1. slots \in Int /\ pc \in [Tasks -> PCs] /\ faults \in Nat
  BY SlotAssumption DEF TypeOK
<1>2. ASSUME faults' = faults
      PROVE  /\ slots <= 0
             /\ slots < 0 => \E t \in Tasks : pc[t] = "reset"
  BY <1>2 DEF Owed
<1>3. ASSUME NEW t \in Tasks, AcquireDisabled(t) PROVE Goal
  <2>1. /\ pc[t] = "idle" /\ pc' = [pc EXCEPT ![t] = "describe"]
        /\ slots' = slots /\ faults' = faults
    BY <1>3 DEF AcquireDisabled
  <2>2. \A u \in Tasks : pc[u] = "reset" => pc'[u] = "reset"
    BY <1>1, <2>1
  <2> QED
    BY <1>2, <2>1, <2>2
<1>4. ASSUME NEW t \in Tasks, Release(t) PROVE Goal
  <2>1. /\ slots' = slots - 1 /\ faults' = faults
        /\ pc' = [pc EXCEPT ![t] = IF slots - 1 < 0 THEN "reset" ELSE "idle"]
    BY <1>4 DEF Release
  <2>2. slots - 1 < 0
    BY <1>1, <1>2, <2>1
  <2>3. pc'[t] = "reset" /\ slots' <= 0
    BY <1>1, <2>1, <2>2
  <2> QED
    BY <2>3
<1>5. ASSUME NEW t \in Tasks, Incr(t) \/ SetExpire(t) \/ Rollback(t) PROVE FALSE
  BY <1>5 DEF PcInv, Incr, SetExpire, Rollback
<1>6. ASSUME NEW t \in Tasks, TaskFault(t) PROVE FALSE
  BY <1>1, <1>6 DEF TaskFault, IncrLost, Abort, ExpireLost, DecrLost, Fault
<1>7. CASE Crash
  BY <1>1, <1>7 DEF Crash, Fault
<1>8. ASSUME slots' = 0 PROVE Goal
  BY <1>8
<1>9. ASSUME NEW t \in Tasks, Reset(t) PROVE Goal
  BY <1>8, <1>9 DEF Reset
<1>10. CASE Expire
  BY <1>8, <1>10 DEF Expire
<1>11. CASE UNCHANGED vars
  BY <1>2, <1>11 DEF vars
<1> QED
  BY <1>3, <1>4, <1>5, <1>6, <1>7, <1>9, <1>10, <1>11 DEF Next, TaskStep

(* With ratelimit.vision_concurrent = 0 every release still DECRs: when no run *)
(* is under way the counter is back at zero, so enabling the cap later starts  *)
(* from zero (redis.rs:187-199, handlers.rs:574).                              *)
THEOREM QuiescentZeroHolds == Spec => []QuiescentZero
<1>1. Init => TypeOK /\ PcInv /\ Owed
  <2>1. Init => PcInv
    BY InitIInv DEF IInv
  <2>2. Init => Owed
    BY DEF Init, Owed
  <2> QED
    BY <2>1, <2>2, InitTypeOK
<1>2. (TypeOK /\ PcInv /\ Owed) /\ [Next]_vars => (TypeOK /\ PcInv /\ Owed)'
  BY NextTypeOK, NextPcInv, NextOwed
<1>3. TypeOK /\ PcInv /\ Owed => QuiescentZero
  <2> SUFFICES ASSUME TypeOK, Owed, cap = 0, faults = 0, \A t \in Tasks : pc[t] = "idle"
               PROVE  slots = 0
    BY DEF QuiescentZero
  <2> QED
    BY DEF TypeOK, Owed
<1> QED
  BY <1>1, <1>2, <1>3, PTL DEF Spec

-----------------------------------------------------------------------------
(* What the healing of the counter rests on. *)

(* A counter above zero has its TTL, or the run that is to set it is about to: *)
(* the only exception are faults between the two commands.                     *)
SlotsGuarded ==
  expiry = "never" /\ slots > 0 => unguarded \/ \E t \in Tasks : pc[t] = "expire"

(* INCR makes a counter positive only with the answer 1; DECR never does. *)
LEMMA NextGuarded == TypeOK /\ SlotsGuarded /\ [Next]_vars => SlotsGuarded'
<1> SUFFICES ASSUME TypeOK, SlotsGuarded, [Next]_vars, expiry' = "never", slots' > 0
             PROVE  unguarded' \/ \E t \in Tasks : pc'[t] = "expire"
  BY DEF SlotsGuarded
<1>0. /\ pc \in [Tasks -> PCs] /\ slots \in Int
      /\ expiry = "absent" => slots = 0
      /\ expiry = "never" /\ slots > 0 => unguarded \/ \E t \in Tasks : pc[t] = "expire"
  BY DEF TypeOK, SlotsGuarded
<1>1. ASSUME NEW t \in Tasks, AcquireDisabled(t) PROVE SlotsGuarded'
  <2>1. \A u \in Tasks : pc[u] = "expire" => pc'[u] = "expire"
    BY <1>0, <1>1 DEF AcquireDisabled
  <2> QED
    BY <1>0, <1>1, <2>1 DEF AcquireDisabled, SlotsGuarded
<1>2. ASSUME NEW t \in Tasks, Incr(t) PROVE SlotsGuarded'
  <2>1. CASE slots + 1 = 1
    BY <1>0, <1>2, <2>1 DEF Incr, SlotsGuarded
  <2>2. CASE slots + 1 # 1
    <3>1. slots > 0 /\ expiry = "never"
      BY <1>0, <1>2, <2>2 DEF Incr, Touched
    <3>2. \A u \in Tasks : pc[u] = "expire" => pc'[u] = "expire"
      BY <1>0, <1>2 DEF Incr
    <3> QED
      BY <1>0, <1>2, <3>1, <3>2 DEF Incr, SlotsGuarded
  <2> QED
    BY <2>1, <2>2
<1>3. ASSUME NEW t \in Tasks, SetExpire(t) \/ Reset(t) PROVE SlotsGuarded'
  BY <1>0, <1>3 DEF SetExpire, Reset
<1>4. ASSUME NEW t \in Tasks, Rollback(t) \/ Release(t) \/ DecrLost(t) PROVE SlotsGuarded'
  <2>1. slots > 0 /\ expiry = "never" /\ unguarded' = unguarded
    BY <1>0, <1>4 DEF Rollback, Release, DecrLost, Touched
  <2>2. \A u \in Tasks : pc[u] = "expire" => pc'[u] = "expire"
    BY <1>0, <1>4 DEF Rollback, Release, DecrLost
  <2> QED
    BY <1>0, <2>1, <2>2 DEF SlotsGuarded
<1>5. ASSUME NEW t \in Tasks, IncrLost(t) PROVE SlotsGuarded'
  <2>1. CASE slots + 1 = 1
    BY <1>5, <2>1 DEF IncrLost, SlotsGuarded
  <2>2. CASE slots + 1 # 1
    <3>1. slots > 0 /\ expiry = "never"
      BY <1>0, <1>5, <2>2 DEF IncrLost, Touched
    <3>2. pc' = pc /\ unguarded' = (unguarded \/ (slots + 1 = 1 /\ Touched = "never"))
      BY <1>5 DEF IncrLost
    <3> QED
      BY <1>0, <3>1, <3>2 DEF SlotsGuarded
  <2> QED
    BY <2>1, <2>2
<1>6. ASSUME NEW t \in Tasks, Abort(t) PROVE SlotsGuarded'
  <2>1. slots > 0 /\ expiry = "never"
    BY <1>6 DEF Abort
  <2>2. unguarded' = (unguarded \/ (pc[t] = "expire" /\ expiry = "never"))
    BY <1>6 DEF Abort
  <2>3. \A u \in Tasks \ {t} : pc'[u] = pc[u]
    BY <1>0, <1>6 DEF Abort
  <2> QED
    BY <1>0, <2>1, <2>2, <2>3 DEF SlotsGuarded
<1>7. ASSUME NEW t \in Tasks, ExpireLost(t) PROVE SlotsGuarded'
  BY <1>0, <1>7 DEF ExpireLost
<1>8. CASE Expire
  BY <1>8 DEF Expire
<1>9. CASE Crash
  <2>1. /\ slots > 0 /\ expiry = "never"
        /\ unguarded' = (unguarded \/ (expiry = "never" /\ \E t \in Tasks : pc[t] = "expire"))
    BY <1>9 DEF Crash
  <2> QED
    BY <1>0, <2>1 DEF SlotsGuarded
<1>10. CASE UNCHANGED vars
  BY <1>0, <1>10 DEF vars, SlotsGuarded
<1> QED
  BY <1>1, <1>2, <1>3, <1>4, <1>5, <1>6, <1>7, <1>8, <1>9, <1>10
     DEF Next, TaskStep, TaskFault, SlotsGuarded

(* The counter cannot stay above zero for good without a fault between INCR and *)
(* EXPIRE: its TTL runs or is about to be set (redis.rs:158-165).  This is the  *)
(* safety that Recovers rests on; what the fairness adds is that TTLs run out.  *)
THEOREM SlotsGuardedHolds == Spec => []SlotsGuarded
<1>1. Init => TypeOK /\ SlotsGuarded
  <2>1. Init => SlotsGuarded
    BY DEF Init, SlotsGuarded
  <2> QED
    BY <2>1, InitTypeOK
<1>2. (TypeOK /\ SlotsGuarded) /\ [Next]_vars => (TypeOK /\ SlotsGuarded)'
  BY NextTypeOK, NextGuarded
<1> QED
  BY <1>1, <1>2, PTL DEF Spec

-----------------------------------------------------------------------------
(* Sums.  SumFunctionOnSet takes the terms in an order nobody names; the facts *)
(* below say that the order does not matter.                                   *)

(* Induction over the subsets of a finite set. *)
LEMMA SubsetInduction ==
  ASSUME NEW A, IsFiniteSet(A), NEW T,
         \A s \in SUBSET A : (\A r \in SUBSET s : r # s => r \in T) => s \in T
  PROVE  \A s \in SUBSET A : s \in T
<1> DEFINE Bad == {s \in SUBSET A : s \notin T}
<1> SUFFICES ASSUME Bad # {} PROVE FALSE
  OBVIOUS
<1>1. Bad \subseteq FiniteSubsetsOf(A)
  BY FS_FiniteSubsetsOfFinite
<1>2. \E x \in Bad : \A y \in Bad : ~ (<<y, x>> \in StrictSubsetOrdering(A))
  <2> HIDE DEF Bad
  <2> QED
    BY <1>1, FS_StrictSubsetOrderingWellFounded, WFMin
<1>3. PICK x \in Bad : \A y \in Bad : y \subseteq x => y = x
  <2>1. Bad \subseteq SUBSET A
    OBVIOUS
  <2> HIDE DEF Bad
  <2> QED
    BY <1>2, <2>1 DEF StrictSubsetOrdering
<1> QED
  BY <1>3

Sum(f, A) == SumFunctionOnSet(f, A)

One(s) == CHOOSE x \in s : TRUE

Recurs(f, s) == Sum(f, s) = IF s = {} THEN 0 ELSE f[One(s)] + Sum(f, s \ {One(s)})

(* A sum is that of one of its terms and the rest. *)
LEMMA SumRecurs ==
  ASSUME NEW A, IsFiniteSet(A), NEW f
  PROVE  \A s \in SUBSET A : Recurs(f, s)
<1> DEFINE T == {s \in SUBSET A : Recurs(f, s)}
<1>1. ASSUME NEW s \in SUBSET A, \A r \in SUBSET s : r # s => r \in T PROVE s \in T
  <2> DEFINE Def(g) == [r \in SUBSET s |-> IF r = {} THEN 0 ELSE f[One(r)] + g[r \ {One(r)}]]
             it == CHOOSE g : g = Def(g)
             h == [r \in SUBSET s |-> IF r = s /\ s # {} THEN f[One(s)] + Sum(f, s \ {One(s)})
                                      ELSE IF r = {} THEN 0 ELSE Sum(f, r)]
             U == {r \in SUBSET s : r # s => it[r] = Sum(f, r)}
  <2>0. Sum(f, s) = it[s]
    BY DEF Sum, One, SumFunctionOnSet, FoldFunctionOnSet, MapThenFoldSet
  <2>1. \A r \in SUBSET s : r # {} => One(r) \in r
    BY DEF One
  <2>2. \A r \in SUBSET s : r # s => Recurs(f, r)
    BY <1>1
  <2>3. h = Def(h)
    <3>1. ASSUME NEW r \in SUBSET s
          PROVE  h[r] = IF r = {} THEN 0 ELSE f[One(r)] + h[r \ {One(r)}]
      <4>1. CASE r = {}
        BY <4>1
      <4>2. CASE r # {}
        <5> DEFINE q == r \ {One(r)}
        <5>1. q \in SUBSET s /\ q # s /\ q # r
          BY <2>1, <4>2
        <5>2. h[q] = Sum(f, q)
          <6>1. CASE q = {}
            BY <2>2, <5>1, <6>1 DEF Recurs
          <6> QED
            BY <5>1, <6>1
        <5>3. h[r] = f[One(r)] + Sum(f, q)
          <6>1. CASE r = s
            BY <4>2, <6>1
          <6>2. CASE r # s
            BY <2>2, <4>2, <6>2 DEF Recurs
          <6> QED
            BY <6>1, <6>2
        <5> QED
          BY <4>2, <5>2, <5>3
      <4> QED
        BY <4>1, <4>2
    <3> QED
      BY <3>1
  <2>4. it = Def(it)
    <3> HIDE DEF Def, h
    <3> QED
      BY <2>3
  <2>5. ASSUME NEW r \in SUBSET s
        PROVE  it[r] = IF r = {} THEN 0 ELSE f[One(r)] + it[r \ {One(r)}]
    <3> HIDE DEF it
    <3> QED
      BY <2>4
  <2> HIDE DEF it, h, Def
  <2>6. ASSUME NEW r \in SUBSET s, \A q \in SUBSET r : q # r => q \in U PROVE r \in U
    <3> SUFFICES ASSUME r # s PROVE it[r] = Sum(f, r)
      OBVIOUS
    <3>1. CASE r = {}
      BY <2>2, <2>5, <3>1 DEF Recurs
    <3>2. CASE r # {}
      <4>1. r \ {One(r)} \in SUBSET r /\ r \ {One(r)} # r /\ r \ {One(r)} # s
        BY <2>1, <3>2
      <4>2. it[r \ {One(r)}] = Sum(f, r \ {One(r)})
        BY <2>6, <4>1
      <4> QED
        BY <2>2, <2>5, <3>2, <4>2 DEF Recurs
    <3> QED
      BY <3>1, <3>2
  <2>7. IsFiniteSet(s)
    BY FS_Subset
  <2>8. \A r \in SUBSET s : r \in U
    <3> HIDE DEF U
    <3> QED
      BY <2>6, <2>7, SubsetInduction
  <2>9. CASE s = {}
    BY <2>0, <2>5, <2>9 DEF Recurs
  <2>10. CASE s # {}
    <3>1. s \ {One(s)} \in SUBSET s /\ s \ {One(s)} # s
      BY <2>1, <2>10
    <3> QED
      BY <2>0, <2>5, <2>8, <2>10, <3>1 DEF Recurs
  <2> QED
    BY <2>9, <2>10
<1>2. \A s \in SUBSET A : s \in T
  <2> HIDE DEF T
  <2> QED
    BY <1>1, SubsetInduction
<1> QED
  BY <1>2

(* Numbers add up to a number, whichever is taken first. *)
LEMMA SumAny ==
  ASSUME NEW A, IsFiniteSet(A), NEW f, \A x \in A : f[x] \in Nat
  PROVE  /\ Sum(f, {}) = 0
         /\ \A s \in SUBSET A : /\ Sum(f, s) \in Nat
                                /\ \A x \in s : Sum(f, s) = f[x] + Sum(f, s \ {x})
<1>0. \A s \in SUBSET A : Recurs(f, s)
  BY SumRecurs
<1> DEFINE Good(s) == /\ Sum(f, s) \in Nat
                      /\ \A x \in s : Sum(f, s) = f[x] + Sum(f, s \ {x})
           T == {s \in SUBSET A : Good(s)}
<1>1. Sum(f, {}) = 0
  BY <1>0 DEF Recurs
<1>2. ASSUME NEW s \in SUBSET A, \A r \in SUBSET s : r # s => r \in T PROVE s \in T
  <2>1. CASE s = {}
    BY <1>1, <2>1
  <2>2. CASE s # {}
    <3> DEFINE c == One(s)
    <3>1. c \in s
      BY <2>2 DEF One
    <3>2. Sum(f, s) = f[c] + Sum(f, s \ {c})
      BY <1>0, <2>2 DEF Recurs
    <3> HIDE DEF c
    <3>3. \A x \in s : Good(s \ {x}) /\ f[x] \in Nat
      BY <1>2
    <3>4. ASSUME NEW x \in s PROVE Sum(f, s) = f[x] + Sum(f, s \ {x})
      <4>1. CASE x = c
        BY <3>2, <4>1
      <4>2. CASE x # c
        <5>1. Sum(f, s \ {c}) = f[x] + Sum(f, (s \ {c}) \ {x})
          BY <3>1, <3>3, <4>2
        <5>2. Sum(f, s \ {x}) = f[c] + Sum(f, (s \ {x}) \ {c})
          BY <3>1, <3>3, <4>2
        <5>3. (s \ {c}) \ {x} = (s \ {x}) \ {c}
          OBVIOUS
        <5>4. (s \ {c}) \ {x} \in T
          <6>1. (s \ {c}) \ {x} \in SUBSET s /\ (s \ {c}) \ {x} # s
            BY <3>1
          <6> HIDE DEF T
          <6> QED
            BY <1>2, <6>1
        <5>5. Sum(f, (s \ {c}) \ {x}) \in Nat
          BY <5>4
        <5> QED
          BY <3>1, <3>2, <3>3, <5>1, <5>2, <5>3, <5>5
      <4> QED
        BY <4>1, <4>2
    <3>5. Sum(f, s) \in Nat
      BY <3>1, <3>2, <3>3
    <3> QED
      BY <3>4, <3>5
  <2> QED
    BY <2>1, <2>2
<1>3. \A s \in SUBSET A : s \in T
  <2> HIDE DEF T
  <2> QED
    BY <1>2, SubsetInduction
<1> QED
  BY <1>1, <1>3

(* Two disjoint sets add up. *)
LEMMA SumUnion ==
  ASSUME NEW A, IsFiniteSet(A), NEW f, \A x \in A : f[x] \in Nat,
         NEW B, B \subseteq A, NEW C, C \subseteq A, B \cap C = {}
  PROVE  Sum(f, B \cup C) = Sum(f, B) + Sum(f, C) /\ Sum(f, B) \in Nat /\ Sum(f, C) \in Nat
<1> DEFINE T == {s \in SUBSET C : Sum(f, B \cup s) = Sum(f, B) + Sum(f, s)}
<1>1. /\ Sum(f, {}) = 0
      /\ \A s \in SUBSET A : /\ Sum(f, s) \in Nat
                             /\ \A x \in s : Sum(f, s) = f[x] + Sum(f, s \ {x})
  BY SumAny
<1>2. ASSUME NEW s \in SUBSET C, \A r \in SUBSET s : r # s => r \in T PROVE s \in T
  <2>1. CASE s = {}
    <3>1. B \cup s = B /\ Sum(f, B) \in Nat
      BY <1>1, <2>1
    <3> QED
      BY <1>1, <2>1, <3>1
  <2>2. CASE s # {}
    <3>1. PICK x \in s : TRUE
      BY <2>2
    <3> DEFINE r == s \ {x}
    <3>2. r \in SUBSET s /\ r # s /\ x \in B \cup s /\ (B \cup s) \ {x} = B \cup r /\ x \in A
      OBVIOUS
    <3>3. Sum(f, B \cup r) = Sum(f, B) + Sum(f, r)
      BY <1>2, <3>2
    <3>4. Sum(f, B \cup s) = f[x] + Sum(f, B \cup r) /\ Sum(f, s) = f[x] + Sum(f, r)
      <4>1. B \cup s \in SUBSET A /\ s \in SUBSET A
        OBVIOUS
      <4> QED
        BY <1>1, <3>2, <4>1
    <3>5. Sum(f, B) \in Nat /\ Sum(f, r) \in Nat /\ f[x] \in Nat
      BY <1>1, <3>2
    <3> HIDE DEF r
    <3> QED
      BY <3>3, <3>4, <3>5
  <2> QED
    BY <2>1, <2>2
<1>3. IsFiniteSet(C)
  BY FS_Subset
<1>4. C \in T
  <2> HIDE DEF T
  <2> QED
    BY <1>2, <1>3, SubsetInduction
<1> QED
  BY <1>1, <1>4

(* Sums of functions that agree. *)
LEMMA SumSame ==
  ASSUME NEW A, IsFiniteSet(A), NEW f, NEW g, \A x \in A : f[x] \in Nat /\ g[x] = f[x]
  PROVE  Sum(g, A) = Sum(f, A)
<1> DEFINE T == {s \in SUBSET A : Sum(g, s) = Sum(f, s)}
<1>1. /\ Sum(f, {}) = 0 /\ Sum(g, {}) = 0
      /\ \A s \in SUBSET A : \A x \in s : /\ Sum(f, s) = f[x] + Sum(f, s \ {x})
                                         /\ Sum(g, s) = g[x] + Sum(g, s \ {x})
  <2>1. \A x \in A : f[x] \in Nat
    OBVIOUS
  <2>2. \A x \in A : g[x] \in Nat
    OBVIOUS
  <2>3. Sum(f, {}) = 0 /\ \A s \in SUBSET A : \A x \in s : Sum(f, s) = f[x] + Sum(f, s \ {x})
    BY <2>1, SumAny
  <2>4. Sum(g, {}) = 0 /\ \A s \in SUBSET A : \A x \in s : Sum(g, s) = g[x] + Sum(g, s \ {x})
    BY <2>2, SumAny
  <2> QED
    BY <2>3, <2>4
<1>2. ASSUME NEW s \in SUBSET A, \A r \in SUBSET s : r # s => r \in T PROVE s \in T
  <2>1. CASE s = {}
    BY <1>1, <2>1
  <2>2. CASE s # {}
    <3>1. PICK x \in s : TRUE
      BY <2>2
    <3>2. s \ {x} \in T
      BY <1>2
    <3> QED
      BY <1>1, <3>1, <3>2
  <2> QED
    BY <2>1, <2>2
<1>3. A \in T
  <2> HIDE DEF T
  <2> QED
    BY <1>2, SubsetInduction
<1> QED
  BY <1>3

(* One more at one place is one more in all. *)
LEMMA SumBump ==
  ASSUME NEW A, IsFiniteSet(A), NEW f, NEW g, NEW z \in A,
         \A x \in A : f[x] \in Nat, g[z] = f[z] + 1, \A x \in A \ {z} : g[x] = f[x]
  PROVE  Sum(g, A) = Sum(f, A) + 1
<1> DEFINE B == A \ {z}
<1>1. \A x \in A : g[x] \in Nat
  OBVIOUS
<1>2. Sum(f, A) = f[z] + Sum(f, B) /\ Sum(f, B) \in Nat
  BY SumAny
<1>3. Sum(g, A) = g[z] + Sum(g, B)
  BY <1>1, SumAny
<1>4. IsFiniteSet(B) /\ \A x \in B : f[x] \in Nat /\ g[x] = f[x]
  BY FS_Subset
<1> HIDE DEF B
<1>5. Sum(g, B) = Sum(f, B)
  BY <1>4, SumSame
<1>6. f[z] \in Nat
  OBVIOUS
<1> QED
  BY <1>2, <1>3, <1>5, <1>6

(* g is f, one place further on, as far as the places a to b go. *)
Shifted(f, g, a, b) == \A x \in a..b : f[x] \in Nat /\ g[x + 1] = f[x]

(* A sum at places one further on. *)
LEMMA SumShift ==
  ASSUME NEW a \in Nat, NEW b \in Nat, NEW f, NEW g, Shifted(f, g, a, b)
  PROVE  Sum(g, (a + 1)..(b + 1)) = Sum(f, a..b)
<1> DEFINE A == a..b
           A1 == (a + 1)..(b + 1)
           Up(s) == {y \in A1 : y - 1 \in s}
           T == {s \in SUBSET A : Sum(g, Up(s)) = Sum(f, s)}
<1>0. \A x \in A : f[x] \in Nat /\ g[x + 1] = f[x]
  BY DEF Shifted
<1>1. IsFiniteSet(A) /\ IsFiniteSet(A1)
  BY FS_Interval
<1>2. \A x \in A : f[x] \in Nat
  BY <1>0
<1>3. \A y \in A1 : g[y] \in Nat
  <2> TAKE y \in A1
  <2>1. y - 1 \in A /\ (y - 1) + 1 = y
    OBVIOUS
  <2>2. g[(y - 1) + 1] \in Nat
    BY <1>0, <2>1
  <2> QED
    BY <2>1, <2>2
<1>4. /\ Sum(f, {}) = 0
      /\ \A s \in SUBSET A : \A x \in s : Sum(f, s) = f[x] + Sum(f, s \ {x})
  <2> HIDE DEF A
  <2> QED
    BY <1>1, <1>2, SumAny
<1>5. /\ Sum(g, {}) = 0
      /\ \A s \in SUBSET A1 : \A x \in s : Sum(g, s) = g[x] + Sum(g, s \ {x})
  <2> HIDE DEF A1
  <2> QED
    BY ONLY <1>1, <1>3, SumAny
<1>6. ASSUME NEW s \in SUBSET A, \A r \in SUBSET s : r # s => r \in T PROVE s \in T
  <2>1. CASE s = {}
    <3>1. Up(s) = {}
      BY <2>1
    <3> QED
      BY <1>4, <1>5, <2>1, <3>1
  <2>2. CASE s # {}
    <3>1. PICK x \in s : TRUE
      BY <2>2
    <3>2. Sum(g, Up(s \ {x})) = Sum(f, s \ {x})
      <4>1. s \ {x} \in T
        BY <1>6
      <4> QED
        BY <4>1
    <3>3. x \in A /\ x + 1 \in Up(s) /\ Up(s) \ {x + 1} = Up(s \ {x}) /\ Up(s) \in SUBSET A1
      <4>1. x \in A /\ x + 1 \in A1 /\ (x + 1) - 1 = x
        OBVIOUS
      <4>2. \A y \in A1 : y = x + 1 <=> y - 1 = x
        BY <4>1
      <4> QED
        BY <4>1, <4>2
    <3>4. g[x + 1] = f[x]
      BY <1>0, <3>3
    <3> HIDE DEF A, A1, Up
    <3>5. Sum(g, Up(s)) = g[x + 1] + Sum(g, Up(s) \ {x + 1})
      BY <1>5, <3>3
    <3>6. Sum(f, s) = f[x] + Sum(f, s \ {x})
      BY <1>4
    <3> QED
      BY <3>2, <3>3, <3>4, <3>5, <3>6
  <2> QED
    BY <2>1, <2>2
<1>7. A \in T
  <2> HIDE DEF T, A
  <2> QED
    BY <1>1, <1>6, SubsetInduction
<1>8. Up(A) = A1
  OBVIOUS
<1>9. Sum(g, A1) = Sum(f, A)
  BY <1>7, <1>8
<1> QED
  BY <1>9

(* Nothing but zeros adds up to zero. *)
LEMMA SumZero ==
  ASSUME NEW A, IsFiniteSet(A), NEW f, \A x \in A : f[x] = 0
  PROVE  Sum(f, A) = 0
<1> DEFINE T == {s \in SUBSET A : Sum(f, s) = 0}
<1>1. /\ Sum(f, {}) = 0
      /\ \A s \in SUBSET A : \A x \in s : Sum(f, s) = f[x] + Sum(f, s \ {x})
  BY SumAny
<1>2. ASSUME NEW s \in SUBSET A, \A r \in SUBSET s : r # s => r \in T PROVE s \in T
  <2>1. CASE s = {}
    BY <1>1, <2>1
  <2>2. CASE s # {}
    <3>1. PICK x \in s : TRUE
      BY <2>2
    <3>2. s \ {x} \in T
      BY <1>2
    <3> QED
      BY <1>1, <3>1, <3>2
  <2> QED
    BY <2>1, <2>2
<1>3. A \in T
  <2> HIDE DEF T
  <2> QED
    BY <1>2, SubsetInduction
<1> QED
  BY <1>3

-----------------------------------------------------------------------------
(* The replies of the last Minute in a chat, by age: all of them, those up to  *)
(* an age g (let through since the window opened) and those before it.         *)
All(r) == Sum(r, 0..(Minute - 1))

Upto(r, g) == Sum(r, 0..g)

Before(r, g) == Sum(r, (g + 1)..(Minute - 1))

Counts == [0..(Minute - 1) -> Nat]

(* The replies of a Minute are those of the window and those before it. *)
LEMMA SumSplit ==
  ASSUME Minute \in Nat \ {0}, NEW r \in Counts, NEW g \in 0..(Minute - 1)
  PROVE  /\ All(r) = Upto(r, g) + Before(r, g)
         /\ Upto(r, g) \in Nat /\ Before(r, g) \in Nat /\ All(r) \in Nat
<1> DEFINE A == 0..(Minute - 1)
           B == 0..g
           C == (g + 1)..(Minute - 1)
<1>1. IsFiniteSet(A)
  BY FS_Interval
<1>2. \A x \in A : r[x] \in Nat
  BY DEF Counts
<1>3. B \subseteq A /\ C \subseteq A /\ B \cap C = {} /\ B \cup C = A
  OBVIOUS
<1> HIDE DEF A, B, C
<1>4. Sum(r, B \cup C) = Sum(r, B) + Sum(r, C) /\ Sum(r, B) \in Nat /\ Sum(r, C) \in Nat
  BY <1>1, <1>2, <1>3, SumUnion
<1>5. Sum(r, A) = Sum(r, B) + Sum(r, C)
  BY <1>3, <1>4, Zenon
<1>6. Sum(r, A) \in Nat
  BY <1>4, <1>5
<1> QED
  BY <1>4, <1>5, <1>6, Zenon DEF A, B, C, All, Upto, Before

(* A reply let through now adds to the youngest age only. *)
Now(r) == [r EXCEPT ![0] = r[0] + 1]

(* What that does to the three sums. *)
LEMMA SumNow ==
  ASSUME Minute \in Nat \ {0}, NEW r \in Counts, NEW g \in 0..(Minute - 1)
  PROVE  /\ Now(r) \in Counts /\ Now(r)[0] = r[0] + 1 /\ r[0] \in Nat
         /\ g # 0 => Now(r)[g] = r[g]
         /\ Upto(Now(r), g) = Upto(r, g) + 1
         /\ Before(Now(r), g) = Before(r, g)
         /\ All(Now(r)) = All(r) + 1
<1> DEFINE s == Now(r)
<1>0. 0 \in 0..(Minute - 1) /\ r[0] \in Nat /\ r[0] + 1 \in Nat
  BY DEF Counts
<1>1. /\ s \in Counts /\ s[0] = r[0] + 1
      /\ \A x \in 0..(Minute - 1) : r[x] \in Nat /\ (x # 0 => s[x] = r[x])
  BY <1>0 DEF Now, Counts
<1> HIDE DEF s
<1>2. Upto(s, g) = Upto(r, g) + 1
  <2> DEFINE B == 0..g
  <2>1. 0 \in B /\ B \subseteq 0..(Minute - 1)
    OBVIOUS
  <2>2. (\A x \in B : r[x] \in Nat) /\ \A x \in B \ {0} : s[x] = r[x]
    BY <1>1, <2>1
  <2>3. IsFiniteSet(B)
    BY FS_Interval
  <2> HIDE DEF B
  <2>4. Sum(s, B) = Sum(r, B) + 1
    BY <1>1, <2>1, <2>2, <2>3, SumBump
  <2> QED
    BY <2>4 DEF B, Upto
<1>3. Before(s, g) = Before(r, g)
  <2> DEFINE C == (g + 1)..(Minute - 1)
  <2>1. C \subseteq 0..(Minute - 1) /\ 0 \notin C
    OBVIOUS
  <2>2. \A x \in C : r[x] \in Nat /\ s[x] = r[x]
    BY <1>1, <2>1
  <2>3. IsFiniteSet(C)
    BY FS_Interval
  <2> HIDE DEF C
  <2>4. Sum(s, C) = Sum(r, C)
    BY <2>2, <2>3, SumSame
  <2> QED
    BY <2>4 DEF C, Before
<1>4. All(s) = All(r) + 1
  <2>1. All(r) = Upto(r, g) + Before(r, g) /\ Upto(r, g) \in Nat /\ Before(r, g) \in Nat
    BY SumSplit
  <2>2. All(s) = Upto(s, g) + Before(s, g)
    BY <1>1, SumSplit
  <2> QED
    BY <1>2, <1>3, <2>1, <2>2
<1> QED
  BY <1>0, <1>1, <1>2, <1>3, <1>4 DEF s

(* A tick: every reply is one older, and those of age Minute - 1 drop out. *)
Older(r) == [a \in 0..(Minute - 1) |-> IF a = 0 THEN 0 ELSE r[a - 1]]

(* Age by age: the youngest place is empty, the others move up. *)
LEMMA OlderIs ==
  ASSUME Minute \in Nat \ {0}, NEW r \in Counts
  PROVE  /\ Older(r) \in Counts /\ Older(r)[0] = 0
         /\ \A x \in 0..(Minute - 1) : r[x] \in Nat /\ Older(r)[x] \in Nat
         /\ \A g \in 0..(Minute - 1) : g + 1 \in 0..(Minute - 1) => Older(r)[g + 1] = r[g]
<1>1. Older(r) \in Counts /\ Older(r)[0] = 0
  <2>1. ASSUME NEW a \in 0..(Minute - 1), a # 0 PROVE r[a - 1] \in Nat
    <3>1. a - 1 \in 0..(Minute - 1)
      BY <2>1
    <3> QED
      BY <3>1 DEF Counts
  <2> QED
    BY <2>1 DEF Older, Counts
<1>2. \A g \in 0..(Minute - 1) : g + 1 \in 0..(Minute - 1) => Older(r)[g + 1] = r[g]
  <2> TAKE g \in 0..(Minute - 1)
  <2>1. (g + 1) - 1 = g /\ g + 1 # 0
    OBVIOUS
  <2> QED
    BY <2>1 DEF Older
<1> QED
  BY <1>1, <1>2 DEF Counts

(* What that does to the three sums, for any shift by one place. *)
LEMMA SumShifted ==
  ASSUME Minute \in Nat \ {0}, NEW r, NEW s, s[0] = 0,
         \A x \in 0..(Minute - 1) : r[x] \in Nat /\ s[x] \in Nat,
         \A g \in 0..(Minute - 1) : g + 1 \in 0..(Minute - 1) => s[g + 1] = r[g]
  PROVE  /\ \A g \in Nat : g + 1 <= Minute - 1 => Upto(s, g + 1) = Upto(r, g)
         /\ \A g \in Nat : g + 1 <= Minute - 1 => Before(s, g + 1) <= Before(r, g)
         /\ All(s) = All(r) - r[Minute - 1] /\ All(r) \in Nat
<1> DEFINE m == Minute - 1
<1>0. m \in Nat /\ m \in 0..m /\ r[m] \in Nat
  OBVIOUS
<1>1. /\ s[0] = 0 /\ \A x \in 0..m : r[x] \in Nat /\ s[x] \in Nat
      /\ \A g \in 0..m : g + 1 \in 0..m => s[g + 1] = r[g]
  OBVIOUS
<1> HIDE DEF m
<1>3. ASSUME NEW a \in Nat, NEW b \in Nat, b + 1 <= m
      PROVE  Sum(s, (a + 1)..(b + 1)) = Sum(r, a..b)
  <2>1. Shifted(r, s, a, b)
    <3> SUFFICES ASSUME NEW x \in a..b PROVE r[x] \in Nat /\ s[x + 1] = r[x]
      BY DEF Shifted
    <3>1. x \in 0..m /\ x + 1 \in 0..m
      BY <1>0, <1>3
    <3> QED
      BY <1>1, <3>1
  <2> QED
    BY <2>1, SumShift
<1>4. ASSUME NEW b \in Nat, b + 1 <= m
      PROVE  Sum(s, 0..(b + 1)) = Sum(r, 0..b)
  <2> DEFINE B == 0..(b + 1)
             C == 1..(b + 1)
  <2>1. 0 \in B /\ B \ {0} = C /\ B \subseteq 0..m
    BY <1>0, <1>4
  <2>2. \A x \in B : s[x] \in Nat
    BY <1>1, <2>1
  <2>3. IsFiniteSet(B)
    BY FS_Interval
  <2> HIDE DEF B, C
  <2>4. Sum(s, B) = s[0] + Sum(s, C) /\ Sum(s, C) \in Nat
    <3>1. B \in SUBSET B /\ C \in SUBSET B
      BY <2>1
    <3>2. \A z \in SUBSET B : /\ Sum(s, z) \in Nat
                               /\ \A x \in z : Sum(s, z) = s[x] + Sum(s, z \ {x})
      BY <2>2, <2>3, SumAny
    <3>3. Sum(s, B) = s[0] + Sum(s, B \ {0}) /\ Sum(s, C) \in Nat
      BY <2>1, <3>1, <3>2, Zenon
    <3> QED
      BY <2>1, <3>3, Zenon
  <2>5. Sum(s, C) = Sum(r, 0..b)
    <3>1. Sum(s, (0 + 1)..(b + 1)) = Sum(r, 0..b)
      BY <1>3, <1>4
    <3> QED
      BY <3>1 DEF C
  <2> QED
    BY <1>1, <2>4, <2>5 DEF B
<1>5. ASSUME NEW a \in Nat, a <= m
      PROVE  /\ Sum(r, a..m) = r[m] + Sum(r, a..(m - 1))
             /\ Sum(r, a..(m - 1)) \in Nat /\ Sum(r, a..m) \in Nat
  <2> DEFINE A == a..m
             B == a..(m - 1)
  <2>1. A \subseteq 0..m /\ m \in A
    BY <1>0, <1>5
  <2>2. B = A \ {m}
    BY <1>0, <1>5
  <2>3. IsFiniteSet(A)
    BY <1>0, FS_Interval
  <2> HIDE DEF A, B
  <2>4. \A x \in A : r[x] \in Nat
    BY <1>1, <2>1
  <2>5. \A z \in SUBSET A : /\ Sum(r, z) \in Nat
                            /\ \A x \in z : Sum(r, z) = r[x] + Sum(r, z \ {x})
    BY <2>3, <2>4, SumAny
  <2>6. A \in SUBSET A /\ B \in SUBSET A
    BY <2>2
  <2>7. Sum(r, A) = r[m] + Sum(r, B) /\ Sum(r, B) \in Nat /\ Sum(r, A) \in Nat
    BY <2>1, <2>2, <2>5, <2>6, Zenon
  <2> QED
    BY <2>7, Zenon DEF A, B
<1>6. Sum(s, 0..m) = Sum(r, 0..m) - r[m] /\ Sum(r, 0..m) \in Nat
  <2>1. /\ Sum(r, 0..m) = r[m] + Sum(r, 0..(m - 1))
        /\ Sum(r, 0..(m - 1)) \in Nat /\ Sum(r, 0..m) \in Nat
    BY <1>0, <1>5
  <2>2. CASE m = 0
    <3>1. 0..m = {0} /\ 0..(m - 1) = {}
      BY <2>2
    <3>2. IsFiniteSet({0}) /\ IsFiniteSet({})
      BY FS_Singleton, FS_EmptySet
    <3>3. Sum(s, {0}) = 0 /\ Sum(r, {}) = 0
      BY <1>1, <3>2, SumZero
    <3>4. Sum(s, 0..m) = 0 /\ Sum(r, 0..(m - 1)) = 0
      BY <3>1, <3>3, Zenon
    <3> QED
      BY <1>0, <2>1, <3>4
  <2>3. CASE m # 0
    <3>1. m - 1 \in Nat /\ (m - 1) + 1 = m
      BY <1>0, <2>3
    <3>2. Sum(s, 0..((m - 1) + 1)) = Sum(r, 0..(m - 1))
      BY <1>0, <1>4, <3>1
    <3>3. Sum(s, 0..m) = Sum(r, 0..(m - 1))
      BY <3>1, <3>2
    <3> QED
      BY <1>0, <2>1, <3>3
  <2> QED
    BY <2>2, <2>3
<1>7. ASSUME NEW g \in Nat, g + 1 <= m PROVE Before(s, g + 1) <= Before(r, g)
  <2>1. g + 1 \in Nat /\ m - 1 \in Nat /\ (m - 1) + 1 = m /\ (m - 1) + 1 <= m
    BY <1>0, <1>7
  <2>2. Sum(s, ((g + 1) + 1)..((m - 1) + 1)) = Sum(r, (g + 1)..(m - 1))
    BY <1>3, <2>1
  <2>3. Sum(s, ((g + 1) + 1)..m) = Sum(r, (g + 1)..(m - 1))
    BY <2>1, <2>2
  <2>4. /\ Sum(r, (g + 1)..m) = r[m] + Sum(r, (g + 1)..(m - 1))
        /\ Sum(r, (g + 1)..(m - 1)) \in Nat
    BY <1>5, <1>7, <2>1
  <2>5. Sum(s, ((g + 1) + 1)..m) <= Sum(r, (g + 1)..m)
    BY <1>0, <2>3, <2>4
  <2> QED
    BY <2>5 DEF Before, m
<1> QED
  BY <1>4, <1>6, <1>7 DEF Upto, All, m

(* ... and for the ages of a chat. *)
LEMMA SumOlder ==
  ASSUME Minute \in Nat \ {0}, NEW r \in Counts
  PROVE  /\ \A g \in Nat : g + 1 <= Minute - 1 => Upto(Older(r), g + 1) = Upto(r, g)
         /\ \A g \in Nat : g + 1 <= Minute - 1 => Before(Older(r), g + 1) <= Before(r, g)
         /\ All(Older(r)) = All(r) - r[Minute - 1] /\ All(r) \in Nat
BY OlderIs, SumShifted

-----------------------------------------------------------------------------
(* One chat: its quota q, where its worker stands, the counter and TTL of its  *)
(* key, and the replies of the last Minute by age.                             *)
Most(q, n) == IF n > q THEN q ELSE n

Window(q, n, t, r) ==
  /\ t = 0 /\ n = 0 => All(r) <= q - 1 /\ r[0] = 0
  /\ t = 0 /\ n > 0 => All(r) + 2 <= q + Most(q, n)
  /\ t > 0 => /\ Before(r, Minute - t) <= q - 1
              /\ Upto(r, Minute - t) <= Most(q, n)
              /\ r[Minute - t] = 0 => Upto(r, Minute - t) < Most(q, n)

Cell(q, w, n, t, r) ==
  /\ w \in {"idle", "quota", "expire"} /\ n \in 0..(q + 1) /\ t \in 0..Minute
  /\ r \in Counts
  /\ t > 0 => n > 0
  /\ w = "expire" => q > 0 /\ n = 1 /\ t = 0 /\ r[0] = 0
  /\ q > 0 => Window(q, n, t, r)

Numbers(q) == q \in Nat /\ Minute \in Nat \ {0}

(* The numbers the window's bounds are about, out of the chat's state. *)
LEMMA CellIs ==
  ASSUME NEW q, Numbers(q), NEW w, NEW n, NEW t, NEW r, Cell(q, w, n, t, r)
  PROVE  /\ n \in Nat /\ t \in Nat /\ t <= Minute /\ n <= q + 1
         /\ r \in Counts /\ r[0] \in Nat
         /\ All(r) \in Nat /\ Most(q, n) \in Nat /\ Most(q, n) <= q
         /\ t > 0 => /\ Minute - t \in 0..(Minute - 1) /\ Minute - t \in Nat
                     /\ r[Minute - t] \in Nat
                     /\ Upto(r, Minute - t) \in Nat
                     /\ Before(r, Minute - t) \in Nat
                     /\ All(r) =
                          Upto(r, Minute - t) + Before(r, Minute - t)
<1>1. /\ n \in 0..(q + 1) /\ t \in 0..Minute /\ q \in Nat /\ Minute \in Nat \ {0}
      /\ r \in Counts
  BY DEF Cell, Numbers
<1>2. n \in Nat /\ t \in Nat /\ t <= Minute /\ n <= q + 1 /\ Most(q, n) \in Nat /\ Most(q, n) <= q
  BY <1>1 DEF Most
<1>3. 0 \in 0..(Minute - 1) /\ r[0] \in Nat
  BY <1>1 DEF Counts
<1>4. All(r) \in Nat
  BY <1>1, <1>3, SumSplit
<1>5. ASSUME t > 0
      PROVE  /\ Minute - t \in 0..(Minute - 1) /\ Minute - t \in Nat
             /\ r[Minute - t] \in Nat
             /\ Upto(r, Minute - t) \in Nat
             /\ Before(r, Minute - t) \in Nat
             /\ All(r) =
                  Upto(r, Minute - t) + Before(r, Minute - t)
  <2>1. Minute - t \in 0..(Minute - 1) /\ Minute - t \in Nat
    BY <1>1, <1>5
  <2>2. r[Minute - t] \in Nat
    BY <1>1, <2>1 DEF Counts
  <2> QED
    BY <1>1, <2>1, <2>2, SumSplit
<1> QED
  BY <1>1, <1>2, <1>3, <1>4, <1>5

(* The worker moves without touching the key or replying. *)
LEMMA CellGo ==
  ASSUME NEW q, NEW w, NEW n, NEW t, NEW r, Cell(q, w, n, t, r),
         NEW v \in {"idle", "quota"}
  PROVE  Cell(q, v, n, t, r)
BY DEF Cell

(* INCR answers 1: no TTL yet, and no reply in this tick. *)
LEMMA CellFirst ==
  ASSUME NEW q, Numbers(q), q > 0, NEW w, NEW t, NEW r, Cell(q, w, 0, t, r),
         NEW v \in {"idle", "quota", "expire"}
  PROVE  Cell(q, v, 1, t, r)
<1>1. t = 0 /\ q \in Nat
  BY DEF Cell, Numbers
<1>2. All(r) <= q - 1 /\ r[0] = 0
  BY <1>1 DEF Cell, Window
<1>3. All(r) \in Nat /\ r \in Counts
  BY CellIs
<1>4. All(r) + 2 <= q + Most(q, 1)
  BY <1>1, <1>2, <1>3 DEF Most
<1>5. Window(q, 1, t, r)
  BY <1>1, <1>4 DEF Window
<1>6. 1 \in 0..(q + 1) /\ t \in 0..Minute
  BY <1>1 DEF Numbers
<1> QED
  BY <1>1, <1>2, <1>3, <1>5, <1>6 DEF Cell

(* A later INCR that lets nothing through. *)
LEMMA CellDenied ==
  ASSUME NEW q, Numbers(q), q > 0, NEW w, NEW n, n > 0, NEW t, NEW r, Cell(q, w, n, t, r),
         NEW k, k = (IF n > q THEN n ELSE n + 1)
  PROVE  Cell(q, "idle", k, t, r)
<1>1. /\ n \in Nat /\ t \in 0..Minute /\ n <= q + 1 /\ q \in Nat
      /\ r \in Counts
  BY CellIs DEF Cell, Numbers
<1>2. k \in 0..(q + 1) /\ k > 0 /\ Most(q, n) <= Most(q, k) /\ Most(q, k) \in Nat /\ Most(q, n) \in Nat
  BY <1>1 DEF Most
<1>3. Window(q, n, t, r)
  BY DEF Cell
<1>4. Window(q, k, t, r)
  <2>1. CASE t = 0
    <3>1. All(r) \in Nat /\ All(r) + 2 <= q + Most(q, n)
      BY <1>3, <2>1, CellIs DEF Window
    <3>2. All(r) + 2 <= q + Most(q, k)
      BY <1>1, <1>2, <3>1
    <3> QED
      BY <1>2, <2>1, <3>2 DEF Window
  <2>2. CASE t > 0
    <3>1. Upto(r, Minute - t) \in Nat
      BY <2>2, CellIs
    <3>2. /\ Before(r, Minute - t) <= q - 1
          /\ Upto(r, Minute - t) <= Most(q, n)
          /\ r[Minute - t] = 0 => Upto(r, Minute - t) < Most(q, n)
      BY <1>3, <2>2 DEF Window
    <3>3. /\ Upto(r, Minute - t) <= Most(q, k)
          /\ r[Minute - t] = 0 => Upto(r, Minute - t) < Most(q, k)
      BY <1>2, <3>1, <3>2
    <3> QED
      BY <2>2, <3>2, <3>3 DEF Window
  <2> QED
    BY <1>1, <2>1, <2>2
<1> QED
  BY <1>1, <1>2, <1>4 DEF Cell

(* A later INCR within the quota: the reply and the counter grow together. *)
LEMMA CellNext ==
  ASSUME NEW q, Numbers(q), q > 0, NEW w, NEW n, n > 0, n + 1 <= q, NEW t, NEW r,
         Cell(q, w, n, t, r), NEW s, s = Now(r)
  PROVE  Cell(q, "idle", n + 1, t, s)
<1>1. /\ n \in Nat /\ t \in 0..Minute /\ n <= q + 1 /\ q \in Nat /\ Minute \in Nat \ {0}
      /\ r \in Counts
  BY CellIs DEF Cell, Numbers
<1>2. n + 1 \in 0..(q + 1) /\ n + 1 > 0 /\ Most(q, n) = n /\ Most(q, n + 1) = n + 1
  BY <1>1 DEF Most
<1>3. Window(q, n, t, r)
  BY DEF Cell
<1>4. /\ s \in Counts
      /\ All(s) = All(r) + 1
  <2>1. 0 \in 0..(Minute - 1)
    BY <1>1
  <2> QED
    BY <1>1, <2>1, SumNow
<1>5. Window(q, n + 1, t, s)
  <2>1. CASE t = 0
    <3>1. All(r) \in Nat /\ All(r) + 2 <= q + n
      BY <1>2, <1>3, <2>1, CellIs DEF Window
    <3>2. All(s) + 2 <= q + (n + 1)
      BY <1>1, <1>4, <3>1
    <3> QED
      BY <1>2, <2>1, <3>2 DEF Window
  <2>2. CASE t > 0
    <3>0. PICK g \in Nat : g = Minute - t
      BY <1>1
    <3>1. g \in 0..(Minute - 1) /\ Upto(r, g) \in Nat /\ r[0] \in Nat
      BY <2>2, <3>0, CellIs
    <3>2. /\ Before(r, g) <= q - 1
          /\ Upto(r, g) <= n
          /\ r[g] = 0 => Upto(r, g) < n
      BY <1>2, <1>3, <2>2, <3>0 DEF Window
    <3>3. /\ s[0] = r[0] + 1 /\ (g # 0 => s[g] = r[g])
          /\ Upto(s, g) = Upto(r, g) + 1
          /\ Before(s, g) = Before(r, g)
      BY <1>1, <3>1, SumNow
    <3>4. s[g] = 0 => r[g] = 0
      BY <3>1, <3>3
    <3>5. Upto(s, g) <= n + 1 /\ (s[g] = 0 => Upto(s, g) < n + 1)
      BY <1>1, <3>1, <3>2, <3>3, <3>4
    <3> QED
      BY <1>2, <2>2, <3>0, <3>2, <3>3, <3>5 DEF Window
  <2> QED
    BY <1>1, <2>1, <2>2
<1> QED
  BY <1>1, <1>2, <1>4, <1>5 DEF Cell

(* EXPIRE after the first INCR, with or without the reply. *)
LEMMA CellExpire ==
  ASSUME NEW q, Numbers(q), NEW n, NEW t, NEW r, Cell(q, "expire", n, t, r),
         NEW s, s = r \/ s = Now(r)
  PROVE  Cell(q, "idle", n, Minute, s)
<1>1. /\ n = 1 /\ t = 0 /\ r[0] = 0 /\ q \in Nat /\ q > 0 /\ Minute \in Nat \ {0}
      /\ r \in Counts
  BY DEF Cell, Numbers
<1>2. All(r) + 2 <= q + Most(q, 1) /\ Most(q, 1) = 1
  BY <1>1 DEF Cell, Window, Most
<1>3. 0 \in 0..(Minute - 1) /\ Minute - Minute = 0
  BY <1>1
<1>4. Upto(r, 0) = 0
  <2>1. 0..0 = {0}
    OBVIOUS
  <2>2. IsFiniteSet({0}) /\ \A x \in {0} : r[x] = 0
    BY <1>1, FS_Singleton
  <2>3. Sum(r, {0}) = 0
    BY <2>2, SumZero
  <2> QED
    BY <2>1, <2>3, Zenon DEF Upto
<1>5. Before(r, 0) <= q - 1 /\ Before(r, 0) \in Nat
  <2>1. All(r) = Upto(r, 0) + Before(r, 0) /\ Before(r, 0) \in Nat
    BY <1>1, <1>3, SumSplit
  <2> QED
    BY <1>1, <1>2, <1>4, <2>1
<1>6. /\ s \in Counts
      /\ Before(s, 0) <= q - 1
      /\ Upto(s, 0) <= 1
      /\ s[0] = 0 => Upto(s, 0) < 1
  <2>1. CASE s = r
    BY <1>1, <1>4, <1>5, <2>1
  <2>2. CASE s = Now(r)
    <3>1. /\ s \in Counts /\ s[0] = r[0] + 1
          /\ Upto(s, 0) = Upto(r, 0) + 1
          /\ Before(s, 0) = Before(r, 0)
      BY <1>1, <1>3, <2>2, SumNow
    <3> QED
      BY <1>1, <1>4, <1>5, <3>1
  <2> QED
    BY <2>1, <2>2
<1>7. Window(q, 1, Minute, s)
  BY <1>1, <1>2, <1>3, <1>6 DEF Window
<1> QED
  BY <1>1, <1>6, <1>7 DEF Cell

(* A tick, before the key expires and when it does. *)
LEMMA CellTick ==
  ASSUME NEW q, Numbers(q), NEW w, NEW n, NEW t, NEW r, Cell(q, w, n, t, r),
         NEW k, k = (IF t = 1 THEN 0 ELSE n),
         NEW u, u = (IF t = 0 THEN 0 ELSE t - 1)
  PROVE  Cell(q, w, k, u, Older(r))
<1> DEFINE s == Older(r)
<1>1. /\ n \in 0..(q + 1) /\ t \in 0..Minute /\ q \in Nat /\ Minute \in Nat \ {0}
      /\ r \in Counts /\ (t > 0 => n > 0) /\ n \in Nat /\ t \in Nat
      /\ w \in {"idle", "quota", "expire"}
      /\ w = "expire" => q > 0 /\ n = 1 /\ t = 0 /\ r[0] = 0
  BY DEF Cell, Numbers
<1>2. /\ s \in Counts /\ s[0] = 0
      /\ \A x \in 0..(Minute - 1) : r[x] \in Nat
      /\ \A g \in 0..(Minute - 1) : g + 1 \in 0..(Minute - 1) => s[g + 1] = r[g]
  BY <1>1, OlderIs
<1>3. /\ \A g \in Nat : g + 1 <= Minute - 1 => Upto(s, g + 1) = Upto(r, g)
      /\ \A g \in Nat : g + 1 <= Minute - 1 => Before(s, g + 1) <= Before(r, g)
      /\ All(s) = All(r) - r[Minute - 1] /\ All(r) \in Nat
  BY <1>1, SumOlder
<1> HIDE DEF s
<1>4. Most(q, n) \in Nat /\ Most(q, n) <= q
  BY CellIs
<1>5. k \in 0..(q + 1) /\ u \in 0..Minute /\ (u > 0 => k > 0)
  BY <1>1
<1>6. w = "expire" => q > 0 /\ k = 1 /\ u = 0
  BY <1>1
<1>7. Minute - 1 \in 0..(Minute - 1) /\ r[Minute - 1] \in Nat
  <2>1. Minute - 1 \in 0..(Minute - 1)
    BY <1>1
  <2> QED
    BY <1>2, <2>1
<1>8. ASSUME q > 0 PROVE Window(q, k, u, s)
  <2>0. Window(q, n, t, r)
    BY <1>8 DEF Cell
  <2>1. CASE t = 0
    <3>1. k = n /\ u = 0
      BY <2>1
    <3>2. All(s) <= All(r) /\ All(s) \in Int
      BY <1>3, <1>7
    <3>3. /\ n = 0 => All(r) <= q - 1
          /\ n > 0 => All(r) + 2 <= q + Most(q, n)
      BY <2>0, <2>1 DEF Window
    <3>4. /\ n = 0 => All(s) <= q - 1
          /\ n > 0 => All(s) + 2 <= q + Most(q, n)
      BY <1>1, <1>3, <1>4, <3>2, <3>3
    <3> QED
      BY <1>2, <3>1, <3>4 DEF Window
  <2>2. CASE t = 1
    <3>1. k = 0 /\ u = 0
      BY <2>2
    <3>2. /\ Upto(r, Minute - 1) <= Most(q, n)
          /\ r[Minute - 1] = 0 => Upto(r, Minute - 1) < Most(q, n)
      BY <2>0, <2>2 DEF Window
    <3>3. All(r) = Upto(r, Minute - 1)
      BY DEF All, Upto
    <3>4. All(s) <= q - 1
      BY <1>1, <1>3, <1>4, <1>7, <3>2, <3>3
    <3> QED
      BY <1>2, <3>1, <3>4 DEF Window
  <2>3. CASE t > 1
    <3>1. PICK g \in Nat : g = Minute - t
      BY <1>1
    <3>2. /\ k = n /\ u > 0 /\ Minute - u = g + 1
          /\ g \in 0..(Minute - 1) /\ g + 1 \in 0..(Minute - 1) /\ g + 1 <= Minute - 1
      BY <1>1, <2>3, <3>1
    <3>3. /\ Before(r, g) <= q - 1 /\ Upto(r, g) <= Most(q, n)
          /\ r[g] = 0 => Upto(r, g) < Most(q, n)
      <4>1. t > 0
        BY <1>1, <2>3
      <4> QED
        BY <2>0, <3>1, <4>1 DEF Window
    <3>4. /\ Upto(s, g + 1) = Upto(r, g) /\ s[g + 1] = r[g]
          /\ Before(s, g + 1) <= Before(r, g)
      BY <1>2, <1>3, <3>2
    <3>5. Before(s, g + 1) <= q - 1
      <4>1. Before(r, g) \in Nat /\ Before(s, g + 1) \in Nat
        BY <1>1, <1>2, <3>2, SumSplit
      <4> QED
        BY <1>1, <3>3, <3>4, <4>1
    <3>6. /\ Upto(s, g + 1) <= Most(q, n)
          /\ s[g + 1] = 0 => Upto(s, g + 1) < Most(q, n)
      BY <3>3, <3>4
    <3> QED
      BY <3>2, <3>5, <3>6 DEF Window
  <2> QED
    BY <1>1, <2>1, <2>2, <2>3
<1> QED
  BY <1>1, <1>2, <1>5, <1>6, <1>8 DEF Cell, s

(* What the invariant of a chat is for. *)
LEMMA CellBound ==
  ASSUME NEW q, Numbers(q), q > 0, NEW w, NEW n, NEW t, NEW r, Cell(q, w, n, t, r)
  PROVE  All(r) <= 2 * q - 1
<1>1. /\ All(r) \in Nat /\ Most(q, n) \in Nat /\ Most(q, n) <= q
      /\ n \in Nat /\ t \in Nat /\ q \in Nat
  BY CellIs DEF Numbers
<1>2. Window(q, n, t, r)
  BY DEF Cell
<1>3. CASE t = 0
  BY <1>1, <1>2, <1>3 DEF Window
<1>4. CASE t > 0
  <2>1. /\ Upto(r, Minute - t) \in Nat
        /\ Before(r, Minute - t) \in Nat
        /\ All(r) =
             Upto(r, Minute - t) + Before(r, Minute - t)
    BY <1>4, CellIs
  <2>2. /\ Before(r, Minute - t) <= q - 1
        /\ Upto(r, Minute - t) <= Most(q, n)
    BY <1>2, <1>4 DEF Window
  <2> QED
    BY <1>1, <2>1, <2>2
<1> QED
  BY <1>1, <1>3, <1>4

(* What is left of a user's TTL covers what is left of his cooldown. *)
Spaced == \A u \in Users : passAge[u] + userTtl[u] >= Cooldown

Cells == \A c \in Chats : Cell(chatMax, worker[c], chatCount[c], chatTtl[c], recent[c])

RInv == RateTypeOK /\ Cells /\ Spaced

(* The ranges of the users' side. *)
LEMMA UsersAre ==
  ASSUME RateTypeOK
  PROVE  /\ Cooldown \in Nat
         /\ userTtl \in [Users -> 0..Cooldown] /\ passAge \in [Users -> 0..Cooldown]
         /\ \A u \in Users : userTtl[u] \in Nat /\ passAge[u] \in Nat
<1>1. Cooldown \in Nat
  BY RateAssumption
<1>2. userTtl \in [Users -> 0..Cooldown] /\ passAge \in [Users -> 0..Cooldown]
  BY DEF RateTypeOK
<1> QED
  BY <1>1, <1>2

(* ... and of the chats' side. *)
LEMMA ChatsAre ==
  ASSUME RateTypeOK
  PROVE  /\ Numbers(chatMax) /\ chatMax \in Quotas
         /\ chatCount \in [Chats -> 0..(chatMax + 1)] /\ chatTtl \in [Chats -> 0..Minute]
         /\ worker \in [Chats -> {"idle", "quota", "expire"}]
         /\ recent \in [Chats -> Counts]
         /\ bare \subseteq Chats /\ rateFaults \in 0..MaxRateFaults
BY RateAssumption DEF RateTypeOK, Ages, Counts, Numbers

(* At the start there are no keys, and nobody got a reply. *)
LEMMA RateStarts == ASSUME RateInit PROVE RInv
<1>1. chatMax \in Nat /\ chatMax \in Quotas /\ Cooldown \in Nat /\ Minute \in Nat \ {0} /\ MaxRateFaults \in Nat
  BY RateAssumption DEF RateInit
<1> DEFINE z == [a \in Ages |-> 0]
<1>2. z \in Counts /\ z[0] = 0 /\ All(z) = 0
  <2>1. z \in Counts /\ 0 \in 0..(Minute - 1) /\ \A x \in 0..(Minute - 1) : z[x] = 0
    BY <1>1 DEF Ages, Counts
  <2>2. IsFiniteSet(0..(Minute - 1))
    BY <1>1, FS_Interval
  <2> HIDE DEF z
  <2>3. All(z) = 0
    BY <2>1, <2>2, SumZero DEF All
  <2> QED
    BY <2>1, <2>3
<1>3. recent = [c \in Chats |-> z]
  BY DEF RateInit
<1> HIDE DEF z
<1>4. recent \in [Chats -> Counts]
  BY <1>2, <1>3
<1>5. RateTypeOK
  <2>1. recent \in [Chats -> [Ages -> Nat]]
    BY <1>4 DEF Counts, Ages
  <2>2. /\ userTtl \in [Users -> 0..Cooldown] /\ passAge \in [Users -> 0..Cooldown]
        /\ chatCount \in [Chats -> 0..(chatMax + 1)] /\ chatTtl \in [Chats -> 0..Minute]
        /\ worker \in [Chats -> {"idle", "quota", "expire"}]
        /\ bare \subseteq Chats /\ rateFaults \in 0..MaxRateFaults
        /\ \A c \in Chats : chatTtl[c] > 0 => chatCount[c] > 0
    BY <1>1 DEF RateInit
  <2> QED
    BY <1>1, <2>1, <2>2 DEF RateTypeOK
<1>6. Cells
  <2> SUFFICES ASSUME NEW c \in Chats
               PROVE  Cell(chatMax, "idle", 0, 0, z)
    BY <1>3 DEF RateInit, Cells
  <2>1. chatMax > 0 => Window(chatMax, 0, 0, z)
    BY <1>1, <1>2 DEF Window
  <2> QED
    BY <1>1, <1>2, <2>1 DEF Cell
<1>7. Spaced
  BY <1>1 DEF RateInit, Spaced
<1> QED
  BY <1>5, <1>6, <1>7 DEF RInv

-----------------------------------------------------------------------------
(* A function changed at one place. *)
LEMMA Put ==
  ASSUME NEW D, NEW E, NEW f \in [D -> E], NEW c \in D, NEW e \in E,
         NEW g, g = [f EXCEPT ![c] = e]
  PROVE  g \in [D -> E] /\ g[c] = e /\ \A d \in D : d # c => g[d] = f[d]
OBVIOUS

(* A step of one chat: the cell it leaves is one of the invariant's. *)
LEMMA ChatMoves ==
  ASSUME RInv, NEW c \in Chats, NEW w, NEW n, NEW t, NEW r,
         Cell(chatMax, w, n, t, r),
         worker' = [worker EXCEPT ![c] = w],
         chatCount' = [chatCount EXCEPT ![c] = n],
         chatTtl' = [chatTtl EXCEPT ![c] = t],
         recent' = [recent EXCEPT ![c] = r],
         chatMax' = chatMax, bare' \subseteq Chats, rateFaults' \in 0..MaxRateFaults,
         userTtl' \in [Users -> 0..Cooldown], passAge' \in [Users -> 0..Cooldown], Spaced'
  PROVE  RInv'
<1>0. RateTypeOK /\ Cells
  BY DEF RInv
<1>1. /\ w \in {"idle", "quota", "expire"} /\ n \in 0..(chatMax + 1) /\ t \in 0..Minute
      /\ r \in Counts
  BY DEF Cell
<1>2. /\ worker' \in [Chats -> {"idle", "quota", "expire"}] /\ worker'[c] = w
      /\ \A d \in Chats : d # c => worker'[d] = worker[d]
  BY <1>0, <1>1, ChatsAre, Put
<1>3. /\ chatCount' \in [Chats -> 0..(chatMax + 1)] /\ chatCount'[c] = n
      /\ \A d \in Chats : d # c => chatCount'[d] = chatCount[d]
  BY <1>0, <1>1, ChatsAre, Put
<1>4. /\ chatTtl' \in [Chats -> 0..Minute] /\ chatTtl'[c] = t
      /\ \A d \in Chats : d # c => chatTtl'[d] = chatTtl[d]
  BY <1>0, <1>1, ChatsAre, Put
<1>5. /\ recent' \in [Chats -> Counts] /\ recent'[c] = r
      /\ \A d \in Chats : d # c => recent'[d] = recent[d]
  BY <1>0, <1>1, ChatsAre, Put
<1>6. Cells'
  <2> SUFFICES ASSUME NEW d \in Chats
               PROVE  Cell(chatMax, worker'[d], chatCount'[d], chatTtl'[d], recent'[d])
    BY DEF Cells
  <2>1. CASE d = c
    BY <1>2, <1>3, <1>4, <1>5, <2>1
  <2>2. CASE d # c
    BY <1>0, <1>2, <1>3, <1>4, <1>5, <2>2 DEF Cells
  <2> QED
    BY <2>1, <2>2
<1>7. \A d \in Chats : chatTtl'[d] > 0 => chatCount'[d] > 0
  BY <1>6 DEF Cells, Cell
<1>8. recent' \in [Chats -> [Ages -> Nat]]
  BY <1>5 DEF Counts, Ages
<1>9. RateTypeOK'
  BY <1>0, <1>2, <1>3, <1>4, <1>7, <1>8 DEF RateTypeOK
<1> QED
  BY <1>6, <1>9 DEF RInv

(* What a step of the chat finds, and how an untouched part is written. *)
LEMMA ChatIs ==
  ASSUME RInv, NEW c \in Chats
  PROVE  /\ Numbers(chatMax)
         /\ Cell(chatMax, worker[c], chatCount[c], chatTtl[c], recent[c])
         /\ chatCount = [chatCount EXCEPT ![c] = chatCount[c]]
         /\ chatTtl = [chatTtl EXCEPT ![c] = chatTtl[c]]
         /\ recent = [recent EXCEPT ![c] = recent[c]]
         /\ worker = [worker EXCEPT ![c] = worker[c]]
         /\ bare \subseteq Chats /\ rateFaults \in 0..MaxRateFaults
         /\ userTtl \in [Users -> 0..Cooldown] /\ passAge \in [Users -> 0..Cooldown]
         /\ Spaced
         /\ chatCount[c] \in Nat /\ chatMax \in Nat
<1>0. RateTypeOK /\ Cells /\ Spaced
  BY DEF RInv
<1>1. Cell(chatMax, worker[c], chatCount[c], chatTtl[c], recent[c])
  BY <1>0 DEF Cells
<1>2. Numbers(chatMax) /\ bare \subseteq Chats /\ rateFaults \in 0..MaxRateFaults
  BY <1>0, ChatsAre
<1>3. chatCount = [chatCount EXCEPT ![c] = chatCount[c]] /\ chatTtl = [chatTtl EXCEPT ![c] = chatTtl[c]]
  BY <1>0, ChatsAre
<1>4. recent = [recent EXCEPT ![c] = recent[c]]
  BY <1>0, ChatsAre
<1>5. worker = [worker EXCEPT ![c] = worker[c]]
  BY <1>0, ChatsAre
<1>6. chatCount[c] \in Nat /\ chatMax \in Nat
  BY <1>1, <1>2, CellIs DEF Numbers
<1>7. userTtl \in [Users -> 0..Cooldown] /\ passAge \in [Users -> 0..Cooldown]
  BY <1>0, UsersAre
<1> QED
  BY <1>0, <1>1, <1>2, <1>3, <1>4, <1>5, <1>6, <1>7

(* The user gate.  SET NX EX passes only when the TTL has run out, and then the *)
(* user's last pass is Cooldown old. *)
LEMMA UserStep ==
  ASSUME RInv, NEW c \in Chats, NEW u \in Users,
         UserPasses(c, u) \/ CooldownLost(c, u)
  PROVE  RInv' /\ (UserPasses(c, u) => passAge[u] = Cooldown)
<1>0. RateTypeOK
  BY DEF RInv
<1>1. /\ userTtl' = [userTtl EXCEPT ![u] = Cooldown]
      /\ passAge' = passAge \/ passAge' = [passAge EXCEPT ![u] = 0]
      /\ worker' = worker \/ worker' = [worker EXCEPT ![c] = "quota"]
      /\ chatMax' = chatMax /\ chatCount' = chatCount /\ chatTtl' = chatTtl
      /\ recent' = recent /\ bare' = bare
      /\ rateFaults' = rateFaults \/ (rateFaults < MaxRateFaults /\ rateFaults' = rateFaults + 1)
  BY DEF UserPasses, CooldownLost, Go, RateFault
<1>2. rateFaults' \in 0..MaxRateFaults
  BY <1>0, <1>1, ChatsAre, RateAssumption
<1>3. /\ userTtl' \in [Users -> 0..Cooldown] /\ userTtl'[u] = Cooldown
      /\ \A v \in Users : v # u => userTtl'[v] = userTtl[v]
  <2>1. Cooldown \in 0..Cooldown
    BY <1>0, UsersAre
  <2> QED
    BY <1>0, <1>1, <2>1, UsersAre, Put
<1>4. /\ passAge' \in [Users -> 0..Cooldown]
      /\ \A v \in Users : v # u => passAge'[v] = passAge[v]
  <2>1. 0 \in 0..Cooldown
    BY <1>0, UsersAre
  <2>2. CASE passAge' = passAge
    BY <1>0, <2>2, UsersAre
  <2>3. CASE passAge' = [passAge EXCEPT ![u] = 0]
    BY <1>0, <2>1, <2>3, UsersAre, Put
  <2> QED
    BY <1>1, <2>2, <2>3
<1>5. Spaced'
  <2> SUFFICES ASSUME NEW v \in Users PROVE passAge'[v] + userTtl'[v] >= Cooldown
    BY DEF Spaced
  <2>1. CASE v = u
    <3>1. passAge'[u] \in Nat /\ Cooldown \in Nat
      <4>1. passAge'[u] \in 0..Cooldown /\ Cooldown \in Nat
        BY <1>0, <1>4, UsersAre
      <4> QED
        BY <4>1
    <3> QED
      BY <1>3, <2>1, <3>1
  <2>2. CASE v # u
    BY <1>3, <1>4, <2>2 DEF RInv, Spaced
  <2> QED
    BY <2>1, <2>2
<1>6. RInv'
  <2>1. PICK w \in {worker[c], "quota"} : worker' = [worker EXCEPT ![c] = w]
    BY <1>1, ChatIs
  <2>2. Cell(chatMax, w, chatCount[c], chatTtl[c], recent[c])
    BY <2>1, ChatIs, CellGo
  <2>3. /\ chatCount' = [chatCount EXCEPT ![c] = chatCount[c]]
        /\ chatTtl' = [chatTtl EXCEPT ![c] = chatTtl[c]]
        /\ recent' = [recent EXCEPT ![c] = recent[c]]
        /\ chatMax' = chatMax /\ bare' \subseteq Chats
    BY <1>1, ChatIs
  <2>4. userTtl' \in [Users -> 0..Cooldown] /\ passAge' \in [Users -> 0..Cooldown]
    BY <1>3, <1>4
  <2> QED
    BY <1>2, <1>5, <2>1, <2>2, <2>3, <2>4, ChatMoves
<1>7. UserPasses(c, u) => passAge[u] = Cooldown
  <2> SUFFICES ASSUME UserPasses(c, u) PROVE passAge[u] = Cooldown
    OBVIOUS
  <2>1. Cooldown = 0 \/ userTtl[u] = 0
    BY DEF UserPasses, CooldownFree
  <2>2. passAge[u] \in 0..Cooldown /\ userTtl[u] \in 0..Cooldown /\ Cooldown \in Nat
    BY <1>0, UsersAre
  <2>3. passAge[u] + userTtl[u] >= Cooldown
    BY DEF RInv, Spaced
  <2> QED
    BY <2>1, <2>2, <2>3
<1> QED
  BY <1>6, <1>7

(* A tick of the clock shortens every TTL and ages every reply. *)
LEMMA TickStep == ASSUME RInv, Tick PROVE RInv'
<1>0. RateTypeOK /\ Cells /\ Spaced
  BY DEF RInv
<1>1. /\ userTtl' \in [Users -> 0..Cooldown] /\ passAge' \in [Users -> 0..Cooldown]
      /\ Spaced'
  <2>1. ASSUME NEW u \in Users
        PROVE  LET x == IF userTtl[u] = 0 THEN 0 ELSE userTtl[u] - 1
                   y == IF passAge[u] = Cooldown THEN Cooldown ELSE passAge[u] + 1
               IN  x \in 0..Cooldown /\ y \in 0..Cooldown /\ y + x >= Cooldown
    <3>1. userTtl[u] \in 0..Cooldown /\ passAge[u] \in 0..Cooldown /\ Cooldown \in Nat
      BY <1>0, UsersAre
    <3>2. passAge[u] + userTtl[u] >= Cooldown
      BY <1>0 DEF Spaced
    <3> QED
      BY <3>1, <3>2
  <2> QED
    BY <2>1 DEF Tick, Spaced
<1>2. /\ chatTtl' = [c \in Chats |-> IF chatTtl[c] = 0 THEN 0 ELSE chatTtl[c] - 1]
      /\ chatCount' = [c \in Chats |-> IF chatTtl[c] = 1 THEN 0 ELSE chatCount[c]]
      /\ recent' = [c \in Chats |-> Older(recent[c])]
      /\ chatMax' = chatMax /\ worker' = worker /\ bare' = bare /\ rateFaults' = rateFaults
  BY DEF Tick, Ages, Older
<1>3. ASSUME NEW c \in Chats
      PROVE  Cell(chatMax, worker[c], chatCount'[c], chatTtl'[c], recent'[c])
  <2>1. Cell(chatMax, worker[c], chatCount[c], chatTtl[c], recent[c]) /\ Numbers(chatMax)
    BY <1>0, ChatsAre DEF Cells
  <2>2. /\ chatTtl'[c] = IF chatTtl[c] = 0 THEN 0 ELSE chatTtl[c] - 1
        /\ chatCount'[c] = IF chatTtl[c] = 1 THEN 0 ELSE chatCount[c]
        /\ recent'[c] = Older(recent[c])
    BY <1>2
  <2> QED
    BY <2>1, <2>2, CellTick
<1>4. Cells'
  BY <1>2, <1>3 DEF Cells
<1>5. /\ chatCount' \in [Chats -> 0..(chatMax + 1)] /\ chatTtl' \in [Chats -> 0..Minute]
      /\ \A c \in Chats : chatTtl'[c] > 0 => chatCount'[c] > 0
  <2>1. \A c \in Chats : /\ chatCount'[c] \in 0..(chatMax + 1) /\ chatTtl'[c] \in 0..Minute
                         /\ chatTtl'[c] > 0 => chatCount'[c] > 0
    BY <1>3 DEF Cell
  <2> QED
    BY <1>2, <2>1
<1>6. recent' \in [Chats -> [Ages -> Nat]]
  <2>1. \A c \in Chats : recent'[c] \in Counts
    BY <1>3 DEF Cell
  <2>2. recent' \in [Chats -> Counts]
    BY <1>2, <2>1
  <2> QED
    BY <2>2 DEF Counts, Ages
<1>7. RateTypeOK'
  BY <1>0, <1>1, <1>2, <1>5, <1>6 DEF RateTypeOK
<1> QED
  BY <1>1, <1>4, <1>7 DEF RInv

-----------------------------------------------------------------------------
(* Everything the chat's side may do on its own. *)
QuotaStep(c) == Anonymous(c) \/ WorkerStep(c) \/ QuotaLost(c)

(* The quota gate, command by command. *)
LEMMA ChatStep ==
  ASSUME RInv, NEW c \in Chats, QuotaStep(c)
  PROVE  RInv'
<1> DEFINE w == worker[c]
           n == chatCount[c]
           t == chatTtl[c]
           r == recent[c]
           Becomes(w1, n1, t1, r1) ==
             /\ worker' = [worker EXCEPT ![c] = w1]
             /\ chatCount' = [chatCount EXCEPT ![c] = n1]
             /\ chatTtl' = [chatTtl EXCEPT ![c] = t1]
             /\ recent' = [recent EXCEPT ![c] = r1]
<1>1. /\ Numbers(chatMax) /\ Cell(chatMax, w, n, t, r)
      /\ chatCount = [chatCount EXCEPT ![c] = n]
      /\ chatTtl = [chatTtl EXCEPT ![c] = t]
      /\ recent = [recent EXCEPT ![c] = r]
      /\ n \in Nat /\ chatMax \in Nat
  BY ChatIs
<1>2. /\ chatMax' = chatMax /\ userTtl' = userTtl /\ passAge' = passAge
      /\ bare' \subseteq Chats /\ rateFaults' \in 0..MaxRateFaults
  <2>1. chatMax' = chatMax /\ userTtl' = userTtl /\ passAge' = passAge
    BY DEF QuotaStep, Anonymous, WorkerStep, QuotaDisabled, QuotaFirst, QuotaNext,
           QuotaExpire, QuotaLost
  <2>2. bare' = bare \/ bare' = bare \cup {c}
    BY DEF QuotaStep, Anonymous, WorkerStep, QuotaDisabled, QuotaFirst, QuotaNext,
           QuotaExpire, QuotaLost
  <2>3. rateFaults' = rateFaults \/ (rateFaults < MaxRateFaults /\ rateFaults' = rateFaults + 1)
    BY DEF QuotaStep, Anonymous, WorkerStep, QuotaDisabled, QuotaFirst, QuotaNext,
           QuotaExpire, QuotaLost, RateFault
  <2>4. bare \subseteq Chats /\ rateFaults \in 0..MaxRateFaults /\ MaxRateFaults \in Nat
    BY ChatIs, RateAssumption
  <2> QED
    BY <2>1, <2>2, <2>3, <2>4
<1>3. Spaced'
  BY <1>2, ChatIs DEF Spaced
<1>4. userTtl' \in [Users -> 0..Cooldown] /\ passAge' \in [Users -> 0..Cooldown]
  BY <1>2, ChatIs
<1>5. ASSUME NEW w1, NEW n1, NEW t1, NEW r1, Becomes(w1, n1, t1, r1),
             Cell(chatMax, w1, n1, t1, r1)
      PROVE  RInv'
  BY <1>2, <1>3, <1>4, <1>5, ChatMoves
<1>6. [recent EXCEPT ![c][0] = @ + 1] = [recent EXCEPT ![c] = Now(r)]
  BY <1>1 DEF Now
<1>7. CASE Anonymous(c)
  <2>1. Becomes("quota", n, t, r)
    BY <1>1, <1>7 DEF Anonymous, Go
  <2>2. Cell(chatMax, "quota", n, t, r)
    BY <1>1, CellGo
  <2> HIDE DEF Becomes, n, t, r
  <2> QED
    BY <1>5, <2>1, <2>2
<1>8. ASSUME chatMax > 0, worker[c] = "expire", chatTtl' = [chatTtl EXCEPT ![c] = Minute],
             chatCount' = chatCount, worker' = [worker EXCEPT ![c] = "idle"],
             NEW s, s = r \/ s = Now(r), recent' = [recent EXCEPT ![c] = s]
      PROVE  RInv'
  <2>1. Becomes("idle", n, Minute, s)
    BY <1>1, <1>8
  <2>2. Cell(chatMax, "idle", n, Minute, s)
    BY <1>1, <1>8, CellExpire
  <2> HIDE DEF Becomes, n, t, r
  <2> QED
    BY <1>5, <2>1, <2>2
<1>9. ASSUME chatMax > 0, chatTtl' = chatTtl, recent' = recent,
             chatCount' = [chatCount EXCEPT ![c] = Increased(n)],
             NEW w1, w1 \in {"idle", "expire"}, w1 = "expire" => n = 0,
             worker' = [worker EXCEPT ![c] = w1]
      PROVE  RInv'
  <2> DEFINE k == Increased(n)
  <2>1. Becomes(w1, k, t, r)
    BY <1>1, <1>9
  <2>2. k = IF n > chatMax THEN n ELSE n + 1
    BY DEF Increased
  <2>3. Cell(chatMax, w1, k, t, r)
    <3>1. CASE n = 0
      <4>1. k = 1 /\ Cell(chatMax, w, 0, t, r)
        BY <1>1, <1>9, <2>2, <3>1
      <4> HIDE DEF k, n, t, r, w
      <4> QED
        BY <1>1, <1>9, <4>1, CellFirst
    <3>2. CASE n # 0
      <4>1. n > 0 /\ w1 = "idle"
        BY <1>1, <1>9, <3>2
      <4> HIDE DEF k, n, t, r, w
      <4> QED
        BY <1>1, <1>9, <2>2, <4>1, CellDenied
    <3> QED
      BY <3>1, <3>2
  <2> HIDE DEF Becomes, k, n, t, r
  <2> QED
    BY <1>5, <2>1, <2>3
<1>10. ASSUME chatTtl' = chatTtl, chatCount' = chatCount, recent' = recent,
              worker' = [worker EXCEPT ![c] = "idle"]
       PROVE  RInv'
  <2>1. Becomes("idle", n, t, r)
    BY <1>1, <1>10
  <2>2. Cell(chatMax, "idle", n, t, r)
    BY <1>1, CellGo
  <2> HIDE DEF Becomes, n, t, r
  <2> QED
    BY <1>5, <2>1, <2>2
<1>11. CASE QuotaDisabled(c)
  BY <1>10, <1>11 DEF QuotaDisabled, LetThrough, Go
<1>12. CASE QuotaFirst(c)
  <2>1. Increased(n) = 1
    BY <1>1, <1>12 DEF QuotaFirst, Increased
  <2>2. /\ chatMax > 0 /\ chatTtl' = chatTtl /\ recent' = recent /\ n = 0
        /\ chatCount' = [chatCount EXCEPT ![c] = 1]
        /\ worker' = [worker EXCEPT ![c] = "expire"]
    BY <1>12 DEF QuotaFirst, Go
  <2> HIDE DEF n
  <2> QED
    BY <1>9, <2>1, <2>2
<1>13. CASE QuotaNext(c)
  <2>1. /\ chatMax > 0 /\ chatTtl' = chatTtl /\ n > 0
        /\ chatCount' = [chatCount EXCEPT ![c] = Increased(n)]
        /\ worker' = [worker EXCEPT ![c] = "idle"]
    BY <1>13 DEF QuotaNext, LetThrough, Go
  <2>2. \/ recent' = recent
        \/ n + 1 <= chatMax /\ recent' = [recent EXCEPT ![c] = Now(r)]
    BY <1>6, <1>13 DEF QuotaNext, LetThrough, WithinQuota
  <2>3. CASE recent' = recent
    <3> HIDE DEF n
    <3> QED
      BY <1>9, <2>1, <2>3
  <2>4. CASE n + 1 <= chatMax /\ recent' = [recent EXCEPT ![c] = Now(r)]
    <3>1. Increased(n) = n + 1
      BY <1>1, <2>4 DEF Increased
    <3>2. Becomes("idle", n + 1, t, Now(r))
      BY <1>1, <2>1, <2>4, <3>1
    <3>3. Cell(chatMax, "idle", n + 1, t, Now(r))
      <4> HIDE DEF n, t, r, w
      <4> QED
        BY <1>1, <2>1, <2>4, CellNext
    <3> HIDE DEF Becomes, n, t, r
    <3> QED
      BY <1>5, <3>2, <3>3
  <2> QED
    BY <2>2, <2>3, <2>4
<1>14. CASE QuotaExpire(c)
  <2>1. chatMax > 0
    BY <1>1, <1>14 DEF QuotaExpire, Cell
  <2>2. recent' = [recent EXCEPT ![c] = Now(r)]
    BY <1>6, <1>14, <2>1 DEF QuotaExpire, LetThrough
  <2>3. /\ worker[c] = "expire" /\ chatTtl' = [chatTtl EXCEPT ![c] = Minute]
        /\ chatCount' = chatCount /\ worker' = [worker EXCEPT ![c] = "idle"]
    BY <1>14 DEF QuotaExpire, LetThrough, Go
  <2> HIDE DEF r
  <2> QED
    BY <1>8, <2>1, <2>2, <2>3
<1>15. CASE QuotaLost(c)
  <2>1. chatMax > 0 /\ recent' = recent /\ worker' = [worker EXCEPT ![c] = "idle"]
    BY <1>15 DEF QuotaLost, Go
  <2>2. \/ chatCount' = [chatCount EXCEPT ![c] = Increased(n)] /\ chatTtl' = chatTtl
        \/ /\ worker[c] = "expire" /\ chatTtl' = [chatTtl EXCEPT ![c] = Minute]
           /\ chatCount' = chatCount
        \/ chatCount' = chatCount /\ chatTtl' = chatTtl
    BY <1>15 DEF QuotaLost
  <2>3. recent' = [recent EXCEPT ![c] = r]
    BY <1>1, <2>1
  <2> HIDE DEF n, r
  <2>4. CASE chatCount' = [chatCount EXCEPT ![c] = Increased(n)] /\ chatTtl' = chatTtl
    BY <1>9, <2>1, <2>4
  <2>5. CASE /\ worker[c] = "expire" /\ chatTtl' = [chatTtl EXCEPT ![c] = Minute]
             /\ chatCount' = chatCount
    BY <1>8, <2>1, <2>3, <2>5
  <2>6. CASE chatCount' = chatCount /\ chatTtl' = chatTtl
    BY <1>10, <2>1, <2>6
  <2> QED
    BY <2>2, <2>4, <2>5, <2>6
<1> QED
  BY <1>7, <1>11, <1>12, <1>13, <1>14, <1>15 DEF QuotaStep, WorkerStep

(* A restart loses the workers and nothing else. *)
LEMMA CrashStep == ASSUME RInv, Restart PROVE RInv'
<1>0. RateTypeOK /\ Cells /\ Spaced
  BY DEF RInv
<1>1. /\ worker' = [c \in Chats |-> "idle"]
      /\ chatMax' = chatMax /\ userTtl' = userTtl /\ chatCount' = chatCount
      /\ chatTtl' = chatTtl /\ passAge' = passAge /\ recent' = recent
  BY DEF Restart
<1>2. bare' \subseteq Chats /\ rateFaults' \in 0..MaxRateFaults
  <2>1. bare \subseteq Chats /\ rateFaults \in 0..MaxRateFaults /\ MaxRateFaults \in Nat
    BY <1>0, ChatsAre, RateAssumption
  <2> QED
    BY <2>1 DEF Restart, RateFault
<1>3. RateTypeOK'
  BY <1>0, <1>1, <1>2 DEF RateTypeOK
<1>4. Cells'
  <2> SUFFICES ASSUME NEW c \in Chats
               PROVE  Cell(chatMax, "idle", chatCount[c], chatTtl[c], recent[c])
    BY <1>1 DEF Cells
  <2>1. Cell(chatMax, worker[c], chatCount[c], chatTtl[c], recent[c])
    BY <1>0 DEF Cells
  <2> QED
    BY <2>1, CellGo
<1>5. Spaced'
  BY <1>0, <1>1 DEF Spaced
<1> QED
  BY <1>3, <1>4, <1>5 DEF RInv

(* Every step keeps the chats' cells and the users' spacing. *)
LEMMA RateStep ==
  RInv /\ [RateNext]_rateVars => RInv'
<1> SUFFICES ASSUME RInv, [RateNext]_rateVars PROVE RInv'
  OBVIOUS
<1>1. CASE UNCHANGED rateVars
  BY <1>1 DEF rateVars, RInv, RateTypeOK, Cells, Spaced
<1>2. CASE RateNext
  BY <1>2, UserStep, TickStep, ChatStep, CrashStep DEF RateNext, QuotaStep
<1> QED
  BY <1>1, <1>2

(* A user passes the cooldown at most once per Cooldown, in whichever chats he   *)
(* writes and however their workers interleave (redis.rs:20-51).               *)
THEOREM UserSpacingHolds == RateSpec => UserSpacing
<1>1. RateInit => RInv
  BY RateStarts
<1>2. RInv /\ [RateNext]_rateVars => RInv'
  BY RateStep
<1>3. RInv /\ [RateNext]_rateVars =>
        [\A c \in Chats, u \in Users : UserPasses(c, u) => passAge[u] = Cooldown]_rateVars
  BY UserStep
<1> QED
  BY <1>1, <1>2, <1>3, PTL DEF RateSpec, UserSpacing

(* Fewer than two quotas of replies in any Minute (redis.rs:207-231). *)
THEOREM RollingBoundHolds == RateSpec => []RollingBound
<1>1. RateInit => RInv
  BY RateStarts
<1>2. RInv /\ [RateNext]_rateVars => RInv'
  BY RateStep
<1>3. RInv => RollingBound
  <2> SUFFICES ASSUME RInv, chatMax > 0, NEW c \in Chats
               PROVE  Replies(c) <= 2 * chatMax - 1
    BY DEF RollingBound
  <2>1. Replies(c) = All(recent[c])
    <3>1. DOMAIN recent[c] = 0..(Minute - 1)
      BY ChatsAre DEF RInv, Counts
    <3> QED
      BY <3>1 DEF Replies, SumFunction, All, Sum
  <2>2. All(recent[c]) <= 2 * chatMax - 1
    BY ChatIs, CellBound
  <2> QED
    BY <2>1, <2>2
<1> QED
  BY <1>1, <1>2, <1>3, PTL DEF RateSpec

(* The ranges of the two gates' state. *)
THEOREM RateTypeCorrect == RateSpec => []RateTypeOK
<1>1. RateInit => RInv
  BY RateStarts
<1>2. RInv /\ [RateNext]_rateVars => RInv'
  BY RateStep
<1>3. RInv => RateTypeOK
  BY DEF RInv
<1> QED
  BY <1>1, <1>2, <1>3, PTL DEF RateSpec

-----------------------------------------------------------------------------
(* What the reopening of a quota rests on. *)

(* A chat's counter has its TTL, or the worker that is to set it is about to: *)
(* the only exception are faults between the two commands.                    *)
QuotaGuarded ==
  \A c \in Chats :
    chatCount[c] > 0 /\ chatTtl[c] = 0 => c \in bare \/ worker[c] = "expire"

(* The one chat a step is about; those of the others stay as they are. *)
LEMMA GuardOfChat ==
  ASSUME RateTypeOK, QuotaGuarded, NEW c \in Chats,
         QuotaDisabled(c) \/ QuotaFirst(c) \/ QuotaNext(c) \/ QuotaExpire(c) \/ QuotaLost(c)
           \/ Anonymous(c) \/ \E u \in Users : UserPasses(c, u) \/ CooldownLost(c, u)
  PROVE  QuotaGuarded'
<1>0. /\ chatCount \in [Chats -> 0..(chatMax + 1)] /\ chatTtl \in [Chats -> 0..Minute]
      /\ worker \in [Chats -> {"idle", "quota", "expire"}]
      /\ Minute \in Nat \ {0}
  BY RateAssumption DEF RateTypeOK
<1> SUFFICES ASSUME NEW d \in Chats, chatCount'[d] > 0, chatTtl'[d] = 0
             PROVE  d \in bare' \/ worker'[d] = "expire"
  BY DEF QuotaGuarded
<1>1. chatCount[d] > 0 /\ chatTtl[d] = 0 => d \in bare \/ worker[d] = "expire"
  BY DEF QuotaGuarded
<1>2. CASE d # c
  <2>1. /\ chatCount'[d] = chatCount[d] /\ chatTtl'[d] = chatTtl[d] /\ worker'[d] = worker[d]
        /\ bare \subseteq bare'
    BY <1>0, <1>2 DEF QuotaDisabled, QuotaFirst, QuotaNext, QuotaExpire, QuotaLost, Anonymous,
                      UserPasses, CooldownLost, Go, LetThrough
  <2> QED
    BY <1>1, <2>1
<1>3. CASE d = c
  <2>1. CASE QuotaFirst(c)
    BY <1>0, <1>3, <2>1 DEF QuotaFirst, Go
  <2>2. CASE QuotaNext(c)
    <3>1. chatCount[c] > 0 /\ worker[c] = "quota" /\ chatTtl' = chatTtl /\ bare' = bare
      BY <2>2 DEF QuotaNext
    <3> QED
      BY <1>1, <1>3, <3>1
  <2>3. CASE QuotaDisabled(c)
    BY <1>1, <1>3, <2>3 DEF QuotaDisabled
  <2>4. CASE QuotaExpire(c)
    BY <1>0, <1>3, <2>4 DEF QuotaExpire
  <2>5. CASE QuotaLost(c)
    <3>1. CASE worker[c] = "quota"
      <4>1. chatCount[c] = 0 /\ chatCount'[c] # 0 => c \in bare'
        BY <1>0, <2>5, <3>1 DEF QuotaLost
      <4>2. chatTtl' = chatTtl /\ bare \subseteq bare'
        BY <2>5, <3>1 DEF QuotaLost
      <4>3. chatCount[c] \in Nat
        BY <1>0 DEF RateTypeOK
      <4> QED
        BY <1>1, <1>3, <3>1, <4>1, <4>2, <4>3
    <3>2. CASE worker[c] = "expire"
      <4>1. chatTtl'[c] = Minute \/ c \in bare'
        BY <1>0, <2>5, <3>2 DEF QuotaLost
      <4> QED
        BY <1>0, <1>3, <4>1
    <3> QED
      BY <2>5, <3>1, <3>2 DEF QuotaLost
  <2>6. CASE Anonymous(c)
    BY <1>1, <1>3, <2>6 DEF Anonymous
  <2>7. ASSUME NEW u \in Users, UserPasses(c, u) \/ CooldownLost(c, u)
        PROVE  d \in bare' \/ worker'[d] = "expire"
    BY <1>1, <1>3, <2>7 DEF UserPasses, CooldownLost
  <2> QED
    BY <2>1, <2>2, <2>3, <2>4, <2>5, <2>6, <2>7
<1> QED
  BY <1>2, <1>3

(* A tick takes a TTL to zero only together with its counter. *)
LEMMA GuardOverTick ==
  ASSUME RateTypeOK, QuotaGuarded, Tick \/ Restart
  PROVE  QuotaGuarded'
<1>0. /\ chatCount \in [Chats -> 0..(chatMax + 1)] /\ chatTtl \in [Chats -> 0..Minute]
      /\ Minute \in Nat
  BY RateAssumption DEF RateTypeOK
<1> SUFFICES ASSUME NEW d \in Chats, chatCount'[d] > 0, chatTtl'[d] = 0
             PROVE  d \in bare' \/ worker'[d] = "expire"
  BY DEF QuotaGuarded
<1>1. chatCount[d] > 0 /\ chatTtl[d] = 0 => d \in bare \/ worker[d] = "expire"
  BY DEF QuotaGuarded
<1>2. CASE Tick
  <2>1. /\ chatTtl'[d] = IF chatTtl[d] = 0 THEN 0 ELSE chatTtl[d] - 1
        /\ chatCount'[d] = IF chatTtl[d] = 1 THEN 0 ELSE chatCount[d]
        /\ worker' = worker /\ bare' = bare
    BY <1>2 DEF Tick
  <2>2. chatTtl[d] \in Nat
    BY <1>0
  <2> QED
    BY <1>1, <2>1, <2>2
<1>3. CASE Restart
  <2>1. /\ chatCount' = chatCount /\ chatTtl' = chatTtl
        /\ bare' = bare \cup {c \in Chats : worker[c] = "expire"}
    BY <1>3 DEF Restart
  <2> QED
    BY <1>1, <2>1
<1> QED
  BY <1>2, <1>3

(* A quota that was used up cannot stay so for good without a fault between INCR *)
(* and EXPIRE: its TTL runs or is about to be set (redis.rs:222-229).  This is  *)
(* the safety that QuotaReopens rests on; what the fairness adds is the clock.  *)
THEOREM QuotaGuardedHolds == RateSpec => []QuotaGuarded
<1>1. RateInit => RInv /\ QuotaGuarded
  <2>1. RateInit => QuotaGuarded
    BY DEF RateInit, QuotaGuarded
  <2> QED
    BY <2>1, RateStarts
<1>2. RInv /\ QuotaGuarded /\ [RateNext]_rateVars => RInv' /\ QuotaGuarded'
  <2> SUFFICES ASSUME RInv, QuotaGuarded, [RateNext]_rateVars PROVE QuotaGuarded'
    BY RateStep
  <2>1. RateTypeOK
    BY DEF RInv
  <2>2. CASE UNCHANGED rateVars
    BY <2>2 DEF rateVars, QuotaGuarded
  <2>3. CASE RateNext
    BY <2>1, <2>3, GuardOfChat, GuardOverTick DEF RateNext, WorkerStep
  <2> QED
    BY <2>2, <2>3
<1> QED
  BY <1>1, <1>2, PTL DEF RateSpec
=============================================================================
