------------------------ MODULE FactExtractionProofs ------------------------
(***************************************************************************)
(* The facts of a user and the counter that has them extracted, for any     *)
(* number of overlapping runs, any facts and similarities, any threshold and *)
(* any number of failures.  First the counter alone (Spec of MessageCounter), *)
(* then the runs it triggers.                                                *)
(***************************************************************************)
EXTENDS FactExtraction, SequenceTheorems, FiniteSetTheorems, TLAPS

(* While nothing failed and no two tasks overlapped, one task at most is before *)
(* its DEL; then the counter is at the threshold and no other message can count *)
(* below it, otherwise it is what was counted since the last trigger.           *)
Aligned ==
  ~overlapped /\ faults = 0 =>
    /\ \A t, u \in Tasks : pc[t] = "reset" /\ pc[u] = "reset" => t = u
    /\ (\E t \in Tasks : pc[t] = "reset") => counter >= N /\ fresh = 0
    /\ (\A t \in Tasks : pc[t] # "reset") => counter = fresh /\ counter < N

-----------------------------------------------------------------------------
(* The tasks that are before their DEL are finitely many. *)
LEMMA ResettingFinite == IsFiniteSet(Resetting) /\ Cardinality(Resetting) \in Nat
<1>1. Resetting \subseteq Tasks
  BY DEF Resetting
<1> QED
  BY <1>1, CounterAssumption, FS_Subset, FS_CardinalityType

(* A task that triggers joins them, one that ends its DEL leaves them. *)
LEMMA ResettingJoin ==
  ASSUME TypeOK, NEW t \in Tasks, pc[t] # "reset",
         pc' = [pc EXCEPT ![t] = "reset"]
  PROVE  Cardinality(Resetting') = Cardinality(Resetting) + 1
<1>1. Resetting' = Resetting \cup {t} /\ t \notin Resetting
  BY DEF TypeOK, Resetting
<1> QED
  BY <1>1, ResettingFinite, FS_AddElement

(* The other direction, also for a task that was not among them. *)
LEMMA ResettingLeave ==
  ASSUME TypeOK, NEW t \in Tasks, NEW s \in {"idle", "work"},
         pc' = [pc EXCEPT ![t] = s]
  PROVE  /\ pc[t] = "reset" => Cardinality(Resetting') = Cardinality(Resetting) - 1
         /\ pc[t] # "reset" => Resetting' = Resetting
<1>1. CASE pc[t] = "reset"
  <2>1. Resetting' = Resetting \ {t} /\ t \in Resetting
    BY <1>1 DEF TypeOK, Resetting
  <2> QED
    BY <1>1, <2>1, ResettingFinite, FS_RemoveElement
<1>2. CASE pc[t] # "reset"
  BY <1>2 DEF TypeOK, Resetting
<1> QED
  BY <1>1, <1>2

-----------------------------------------------------------------------------
(* At the start the counter is absent and no task is under way. *)
LEMMA InitTypeOK == Init => TypeOK
<1> SUFFICES ASSUME Init PROVE TypeOK
  OBVIOUS
<1>1. overlapped \in BOOLEAN
  BY Zenon DEF Init
<1> QED
  BY <1>1, CounterAssumption DEF Init, TypeOK

(* No message, DEL, failure or restart takes a variable out of its range. *)
LEMMA NextTypeOK == TypeOK /\ [Next]_vars => TypeOK'
<1> SUFFICES ASSUME TypeOK, [Next]_vars PROVE TypeOK'
  OBVIOUS
<1>0. Cardinality(Resetting) \in Nat
  BY ResettingFinite
<1> USE CounterAssumption DEF TypeOK
<1>1. ASSUME NEW t \in Tasks, Count(t) \/ Reset(t) \/ WorkDone(t) \/ WorkFails(t)
      PROVE  TypeOK'
  BY <1>1 DEF Count, Reset, WorkDone, WorkFails
<1>2. ASSUME NEW t \in Tasks, Trigger(t) PROVE TypeOK'
  <2>1. overlapped' \in BOOLEAN
    BY <1>2, Zenon DEF Trigger
  <2> QED
    BY <1>2, <2>1 DEF Trigger
<1>3. ASSUME NEW t \in Tasks, IncrLost(t) \/ ResetFails(t) PROVE TypeOK'
  BY <1>3 DEF IncrLost, ResetFails, Fault
<1>4. CASE Crash
  BY <1>0, <1>4 DEF Crash, Fault
<1>5. CASE UNCHANGED vars
  BY <1>5 DEF vars
<1> QED
  BY <1>1, <1>2, <1>3, <1>4, <1>5 DEF Next, Arrive

(* The counter stays a natural number and every task is at one of its steps. *)
THEOREM TypeCorrect == Spec => []TypeOK
BY InitTypeOK, NextTypeOK, PTL DEF Spec

-----------------------------------------------------------------------------
(* An INCR past the threshold is followed by a DEL, or counted as missed. *)
LEMMA NextOvershoot == TypeOK /\ Overshoot /\ [Next]_vars => Overshoot'
<1> SUFFICES ASSUME TypeOK, Overshoot, [Next]_vars
             PROVE  counter' < N + Cardinality(Resetting') + missed'
  BY DEF Overshoot
<1>0. /\ N \in Nat /\ N > 0 /\ counter \in Nat /\ missed \in Nat
      /\ Cardinality(Resetting) \in Nat /\ Cardinality(Resetting') \in Nat
      /\ counter < N + Cardinality(Resetting) + missed
  <2>1. Resetting' \subseteq Tasks
    BY DEF Resetting
  <2> QED
    BY <2>1, CounterAssumption, ResettingFinite, FS_Subset, FS_CardinalityType
       DEF TypeOK, Overshoot
<1>1. ASSUME NEW t \in Tasks, Count(t)
      PROVE  counter' < N + Cardinality(Resetting') + missed'
  BY <1>0, <1>1 DEF Count, Due
<1>2. ASSUME NEW t \in Tasks, Trigger(t)
      PROVE  counter' < N + Cardinality(Resetting') + missed'
  <2>1. Cardinality(Resetting') = Cardinality(Resetting) + 1
    BY <1>2, ResettingJoin DEF Trigger
  <2> QED
    BY <1>0, <1>2, <2>1 DEF Trigger
<1>3. ASSUME NEW t \in Tasks, Reset(t)
      PROVE  counter' < N + Cardinality(Resetting') + missed'
  BY <1>0, <1>3 DEF Reset
<1>4. ASSUME NEW t \in Tasks, WorkDone(t) \/ WorkFails(t)
      PROVE  counter' < N + Cardinality(Resetting') + missed'
  <2>1. Resetting' = Resetting
    BY <1>4, ResettingLeave DEF WorkDone, WorkFails
  <2> QED
    BY <1>0, <1>4, <2>1 DEF WorkDone, WorkFails
<1>5. ASSUME NEW t \in Tasks, IncrLost(t)
      PROVE  counter' < N + Cardinality(Resetting') + missed'
  <2>1. Resetting' = Resetting
    BY <1>5 DEF IncrLost, Resetting
  <2> QED
    BY <1>0, <1>5, <2>1 DEF IncrLost, Due
<1>6. ASSUME NEW t \in Tasks, ResetFails(t)
      PROVE  counter' < N + Cardinality(Resetting') + missed'
  <2>1. Cardinality(Resetting') = Cardinality(Resetting) - 1
    BY <1>6, ResettingLeave DEF ResetFails
  <2> QED
    BY <1>0, <1>6, <2>1 DEF ResetFails
<1>7. CASE Crash
  BY <1>0, <1>7 DEF Crash
<1>8. CASE UNCHANGED vars
  BY <1>0, <1>8 DEF vars, Resetting
<1> QED
  BY <1>1, <1>2, <1>3, <1>4, <1>5, <1>6, <1>7, <1>8 DEF Next, Arrive

(* However many tasks meet between INCR and DEL and whatever fails, the counter *)
(* is past the threshold only by DELs still to come and by those that were lost *)
(* since the last one (summarize.rs:39-46).                                    *)
THEOREM OvershootHolds == Spec => []Overshoot
<1>1. Init => Overshoot
  BY ResettingFinite, CounterAssumption DEF Init, Overshoot
<1> QED
  BY <1>1, TypeCorrect, NextOvershoot, PTL DEF Spec

-----------------------------------------------------------------------------
(* Nothing was counted and nothing triggered yet. *)
LEMMA InitAligned == Init => Aligned
BY CounterAssumption DEF Init, Aligned

(* Nothing but a trigger, the DEL and the counting of a message disturbs it. *)
LEMMA NextAligned == TypeOK /\ Aligned /\ [Next]_vars => Aligned'
<1> SUFFICES ASSUME TypeOK, Aligned, [Next]_vars, ~overlapped', faults' = 0
             PROVE  Aligned'
  BY DEF Aligned
<1>0. /\ pc \in [Tasks -> {"idle", "reset", "work"}]
      /\ counter \in Nat /\ N \in Nat /\ N > 0 /\ fresh \in Nat /\ faults \in Nat
  BY CounterAssumption DEF TypeOK
<1>1. ASSUME NEW t \in Tasks, Count(t) PROVE Aligned'
  BY <1>0, <1>1 DEF Count, Due, Aligned
<1>2. ASSUME NEW t \in Tasks, Trigger(t) PROVE Aligned'
  <2>1. \A u \in Tasks : pc[u] # "reset"
    BY <1>2 DEF Trigger, Resetting
  <2> QED
    BY <1>0, <1>2, <2>1 DEF Trigger, Due, Aligned
<1>3. ASSUME NEW t \in Tasks, Reset(t) PROVE Aligned'
  BY <1>0, <1>3 DEF Reset, Aligned
<1>4. ASSUME NEW t \in Tasks, WorkDone(t) \/ WorkFails(t) PROVE Aligned'
  BY <1>0, <1>4 DEF WorkDone, WorkFails, Aligned
<1>5. ASSUME NEW t \in Tasks, IncrLost(t) \/ ResetFails(t) PROVE Aligned'
  BY <1>0, <1>5 DEF IncrLost, ResetFails, Fault
<1>6. CASE Crash
  BY <1>0, <1>6 DEF Crash, Fault
<1>7. CASE UNCHANGED vars
  BY <1>7 DEF vars, Aligned
<1> QED
  BY <1>1, <1>2, <1>3, <1>4, <1>5, <1>6, <1>7 DEF Next, Arrive

(* Without failures, and as long as no two tasks were between INCR and DEL at   *)
(* once, exactly every N-th message triggers, for every N.                     *)
THEOREM EveryNthHolds == Spec => EveryNth
<1>1. TypeOK /\ Aligned /\ [Next]_vars =>
        [\A t \in Tasks :
           Trigger(t) /\ ~overlapped' /\ faults = 0 => fresh + 1 = N]_vars
  <2> SUFFICES ASSUME TypeOK, Aligned, NEW t \in Tasks,
                      Trigger(t), ~overlapped', faults = 0
               PROVE  fresh + 1 = N
    OBVIOUS
  <2>1. ~overlapped /\ \A u \in Tasks : pc[u] # "reset"
    BY DEF Trigger, Resetting
  <2>2. counter = fresh /\ counter < N
    BY <2>1 DEF Aligned
  <2> QED
    BY <2>2, CounterAssumption DEF Trigger, Due, TypeOK
<1> QED
  BY <1>1, InitAligned, NextAligned, TypeCorrect, PTL DEF Spec, EveryNth

-----------------------------------------------------------------------------

RunStages == {"ask", "search", "row", "point"}

(* FactTypeOK over sequences of the library's theorems. *)
FTypes ==
  /\ TypeOK
  /\ todo \in [Tasks -> Seq(Facts)]
  /\ \A t \in Tasks : Len(todo[t]) <= MaxNamed
  /\ stage \in [Tasks -> RunStages]
  /\ rows \in [Facts -> Nat] /\ points \in [Facts -> Nat]
  /\ lapped \in BOOLEAN
  /\ \A t \in Tasks : /\ todo[t] = <<>> <=> stage[t] = "ask"
                      /\ stage[t] # "ask" => pc[t] = "work"

-----------------------------------------------------------------------------
(* The counter under the runs.                                              *)

(* An error that leaves the run, or is taken for a search without hits. *)
RunError ==
  /\ Fault
  /\ \/ pc' = pc
     \/ \E t \in Tasks : pc[t] = "work" /\ pc' = [pc EXCEPT ![t] = "idle"]
  /\ UNCHANGED <<counter, fresh, overlapped, missed>>

LEMMA CounterUnderRuns ==
  FTypes /\ [FactNext]_allVars => [Next]_vars \/ RunError
<1> SUFFICES ASSUME FTypes, [FactNext]_allVars PROVE [Next]_vars \/ RunError
  OBVIOUS
<1>1. ASSUME NEW t \in Tasks, CounterStep(t) PROVE Next
  BY <1>1 DEF CounterStep, Next
<1>2. ASSUME NEW t \in Tasks, NextFact(t) PROVE [Next]_vars
  BY <1>2 DEF NextFact, Next
<1>3. ASSUME NEW t \in Tasks, RunStep(t) PROVE [Next]_vars
  BY <1>2, <1>3 DEF RunStep, FactsNamed, NothingNamed, EmbedFails, Duplicate, NewFact,
                    InsertRow, UpsertPoint, Next
<1>4. ASSUME NEW t \in Tasks, SearchFails(t) PROVE RunError
  BY <1>4 DEF SearchFails, RunError
<1>5. ASSUME NEW t \in Tasks, RowFails(t) \/ PointFails(t) PROVE RunError
  <2>1. pc[t] = "work"
    BY <1>5 DEF RowFails, PointFails, FTypes
  <2> QED
    BY <1>5, <2>1 DEF RowFails, PointFails, LeaveRun, RunError
<1>6. CASE CrashAll
  BY <1>6 DEF CrashAll, Next
<1> QED
  BY <1>1, <1>3, <1>4, <1>5, <1>6 DEF FactNext, RunFault, allVars

(* An error of a run is no step of the counter, and does it no harm. *)
LEMMA ErrorKeepsCounter ==
  TypeOK /\ Overshoot /\ RunError => TypeOK' /\ Overshoot' /\ Aligned'
<1> SUFFICES ASSUME TypeOK, Overshoot, RunError PROVE TypeOK' /\ Overshoot' /\ Aligned'
  OBVIOUS
<1>1. TypeOK'
  BY CounterAssumption DEF TypeOK, RunError, Fault
<1>2. Resetting' = Resetting
  BY DEF TypeOK, RunError, Resetting
<1>3. Overshoot'
  BY <1>2 DEF Overshoot, RunError
<1>4. Aligned'
  BY DEF Aligned, RunError, Fault, TypeOK
<1> QED
  BY <1>1, <1>3, <1>4

-----------------------------------------------------------------------------
(* Types.                                                                   *)

LEMMA InitFTypes == FactInit => FTypes
<1> SUFFICES ASSUME FactInit PROVE FTypes
  OBVIOUS
<1>1. <<>> \in Seq(Facts) /\ Len(<<>>) = 0 /\ MaxNamed \in Nat
  BY EmptySeq, FactsAssumption
<1>2. TypeOK
  BY InitTypeOK DEF FactInit
<1>3. lapped \in BOOLEAN
  BY Zenon DEF FactInit
<1>4. \A t \in Tasks : todo[t] = <<>> /\ stage[t] = "ask"
  BY DEF FactInit
<1>5. /\ todo \in [Tasks -> Seq(Facts)] /\ stage \in [Tasks -> RunStages]
      /\ rows \in [Facts -> Nat] /\ points \in [Facts -> Nat]
  BY <1>1 DEF FactInit, RunStages
<1> QED
  BY <1>1, <1>2, <1>3, <1>4, <1>5 DEF FTypes

(* The fact a run deals with, and those that are left. *)
LEMMA FirstOfTodo ==
  ASSUME FTypes, NEW t \in Tasks, stage[t] # "ask"
  PROVE  /\ todo[t] # <<>> /\ Head(todo[t]) \in Facts
         /\ Tail(todo[t]) \in Seq(Facts) /\ Len(Tail(todo[t])) <= MaxNamed
         /\ Tail(todo[t]) = <<>> <=> ~(Len(todo[t]) > 1)
<1>1. todo[t] \in Seq(Facts) /\ todo[t] # <<>> /\ Len(todo[t]) <= MaxNamed
  BY DEF FTypes
<1>2. /\ Head(todo[t]) \in Facts /\ Tail(todo[t]) \in Seq(Facts)
      /\ Len(Tail(todo[t])) = Len(todo[t]) - 1
      /\ Len(todo[t]) \in Nat \ {0}
  BY <1>1, HeadTailProperties, EmptySeq
<1>3. Tail(todo[t]) = <<>> <=> Len(Tail(todo[t])) = 0
  BY <1>2, EmptySeq
<1>4. \A n \in Nat \ {0} : \A m \in Nat : (n <= m => n - 1 <= m) /\ (n - 1 = 0 <=> ~(n > 1))
  OBVIOUS
<1>5. Len(Tail(todo[t])) <= MaxNamed /\ (Tail(todo[t]) = <<>> <=> ~(Len(todo[t]) > 1))
  BY <1>1, <1>2, <1>3, <1>4, FactsAssumption
<1> QED
  BY <1>1, <1>2, <1>5

(* Only the run itself moves; its stage becomes s. *)
RunMoves(t, s) ==
  /\ stage' = [stage EXCEPT ![t] = s]
  /\ \A u \in Tasks \ {t} : todo'[u] = todo[u]

(* On to the next fact, or the end of the run. *)
LEMMA NextFactDoes ==
  ASSUME FTypes, NEW t \in Tasks, stage[t] # "ask", NextFact(t)
  PROVE  /\ \E s \in {"search", "ask"} : RunMoves(t, s)
         /\ todo' \in [Tasks -> Seq(Facts)]
         /\ \A u \in Tasks : /\ Len(todo'[u]) <= MaxNamed
                             /\ todo'[u] = <<>> <=> stage'[u] = "ask"
                             /\ stage'[u] # "ask" => pc'[u] = "work"
         /\ stage' \in [Tasks -> RunStages]
         /\ TypeOK' /\ faults' = faults
<1>1. /\ Tail(todo[t]) \in Seq(Facts) /\ Len(Tail(todo[t])) <= MaxNamed
      /\ Tail(todo[t]) = <<>> <=> ~(Len(todo[t]) > 1)
  BY FirstOfTodo
<1>2. /\ todo \in [Tasks -> Seq(Facts)] /\ stage \in [Tasks -> RunStages]
      /\ pc \in [Tasks -> {"idle", "reset", "work"}]
  BY DEF FTypes, TypeOK
<1>3. todo' = [todo EXCEPT ![t] = Tail(todo[t])]
  BY DEF NextFact
<1>4. CASE Len(todo[t]) > 1
  <2>1. stage' = [stage EXCEPT ![t] = "search"] /\ UNCHANGED vars
    BY <1>4 DEF NextFact
  <2>2. TypeOK' /\ pc' = pc /\ faults' = faults
    BY <2>1, NextTypeOK DEF vars, FTypes
  <2> QED
    BY <1>1, <1>2, <1>3, <1>4, <2>1, <2>2 DEF FTypes, RunMoves, RunStages
<1>5. CASE ~(Len(todo[t]) > 1)
  <2>1. stage' = [stage EXCEPT ![t] = "ask"] /\ WorkDone(t)
    BY <1>5 DEF NextFact
  <2>2. TypeOK'
    BY <2>1, NextTypeOK DEF Next, FTypes
  <2>3. pc' = [pc EXCEPT ![t] = "idle"] /\ faults' = faults
    BY <2>1 DEF WorkDone
  <2> QED
    BY <1>1, <1>2, <1>3, <1>5, <2>1, <2>2, <2>3 DEF FTypes, RunMoves, RunStages
<1> QED
  BY <1>4, <1>5

(* A run that is left. *)
LEMMA LeaveRunDoes ==
  ASSUME FTypes, NEW t \in Tasks, Fault, LeaveRun(t)
  PROVE  /\ RunMoves(t, "ask")
         /\ todo' \in [Tasks -> Seq(Facts)]
         /\ \A u \in Tasks : /\ Len(todo'[u]) <= MaxNamed
                             /\ todo'[u] = <<>> <=> stage'[u] = "ask"
                             /\ stage'[u] # "ask" => pc'[u] = "work"
         /\ stage' \in [Tasks -> RunStages]
         /\ TypeOK'
<1>1. <<>> \in Seq(Facts) /\ Len(<<>>) = 0 /\ MaxNamed \in Nat
  BY EmptySeq, FactsAssumption
<1>2. TypeOK'
  BY CounterAssumption DEF FTypes, TypeOK, Fault, LeaveRun
<1> QED
  BY <1>1, <1>2 DEF FTypes, TypeOK, LeaveRun, RunMoves, RunStages

(* The counter's steps belong to tasks that have no run. *)
LEMMA CounterStepDoes ==
  ASSUME FTypes, NEW t \in Tasks, CounterStep(t)
  PROVE  /\ UNCHANGED factVars /\ TypeOK'
         /\ \A u \in Tasks : stage[u] # "ask" => pc'[u] = "work"
<1>1. TypeOK'
  BY NextTypeOK DEF CounterStep, Next, FTypes
<1>2. pc' = pc \/ \E s \in {"reset", "work", "idle"} : pc[t] # "work" /\ pc' = [pc EXCEPT ![t] = s]
  BY DEF CounterStep, Arrive, Count, Trigger, Reset, IncrLost, ResetFails
<1>3. \A u \in Tasks : stage[u] # "ask" => pc'[u] = "work"
  BY <1>2 DEF FTypes, TypeOK
<1> QED
  BY <1>1, <1>3 DEF CounterStep

(* One row or point more. *)
LEMMA OneMore ==
  ASSUME NEW g \in [Facts -> Nat], NEW f \in Facts
  PROVE  /\ [g EXCEPT ![f] = @ + 1] \in [Facts -> Nat]
         /\ [g EXCEPT ![f] = @ + 1][f] = g[f] + 1
         /\ \A h \in Facts \ {f} : [g EXCEPT ![f] = @ + 1][h] = g[h]
OBVIOUS

LEMMA NextFTypes == FTypes /\ [FactNext]_allVars => FTypes'
<1> SUFFICES ASSUME FTypes, [FactNext]_allVars PROVE FTypes'
  OBVIOUS
<1>0. /\ TypeOK
      /\ todo \in [Tasks -> Seq(Facts)] /\ \A t \in Tasks : Len(todo[t]) <= MaxNamed
      /\ stage \in [Tasks -> RunStages]
      /\ rows \in [Facts -> Nat] /\ points \in [Facts -> Nat] /\ lapped \in BOOLEAN
      /\ \A t \in Tasks : /\ todo[t] = <<>> <=> stage[t] = "ask"
                          /\ stage[t] # "ask" => pc[t] = "work"
  BY DEF FTypes
<1>1. ASSUME NEW t \in Tasks, CounterStep(t) PROVE FTypes'
  BY <1>0, <1>1, CounterStepDoes DEF FTypes, factVars
<1>2. ASSUME NEW t \in Tasks, FactsNamed(t) PROVE FTypes'
  <2>1. PICK named \in BoundedSeq(Facts, MaxNamed) \ {<<>>} : todo' = [todo EXCEPT ![t] = named]
    BY <1>2 DEF FactsNamed
  <2>2. named \in Seq(Facts) /\ Len(named) <= MaxNamed /\ named # <<>>
    <3>1. PICK m \in 0..MaxNamed : named \in [1..m -> Facts]
      BY <2>1 DEF BoundedSeq, SeqOf
    <3>2. m \in Nat /\ m <= MaxNamed /\ MaxNamed \in Nat
      BY <3>1, FactsAssumption
    <3>3. named \in Seq(Facts) /\ Len(named) = m
      BY <3>1, <3>2
    <3> QED
      BY <2>1, <3>2, <3>3
  <2>3. UNCHANGED <<vars, rows, points, lapped>> /\ stage' = [stage EXCEPT ![t] = "search"]
        /\ pc[t] = "work"
    BY <1>2 DEF FactsNamed
  <2>4. TypeOK'
    BY <1>0, <2>3, NextTypeOK
  <2>5. pc' = pc
    BY <2>3 DEF vars
  <2> QED
    BY <1>0, <2>1, <2>2, <2>3, <2>4, <2>5 DEF FTypes, RunStages
<1>3. ASSUME NEW t \in Tasks, NothingNamed(t) PROVE FTypes'
  <2>1. TypeOK'
    BY <1>0, <1>3, NextTypeOK DEF NothingNamed, Next
  <2>2. pc' = [pc EXCEPT ![t] = "idle"] /\ stage[t] = "ask" /\ UNCHANGED factVars
    BY <1>3 DEF NothingNamed, WorkFails
  <2>3. \A u \in Tasks : stage[u] # "ask" => pc'[u] = "work"
    BY <1>0, <2>2 DEF TypeOK
  <2> QED
    BY <1>0, <2>1, <2>2, <2>3 DEF FTypes, factVars
<1>4. ASSUME NEW t \in Tasks, EmbedFails(t) \/ Duplicate(t) \/ UpsertPoint(t) PROVE FTypes'
  <2>1. stage[t] # "ask" /\ NextFact(t) /\ UNCHANGED <<rows, lapped>>
        /\ (points' = points \/ points' = [points EXCEPT ![Head(todo[t])] = @ + 1])
    BY <1>4 DEF EmbedFails, Duplicate, UpsertPoint
  <2>2. Head(todo[t]) \in Facts
    BY <2>1, FirstOfTodo
  <2>3. points' \in [Facts -> Nat]
    <3>1. CASE points' = points
      BY <1>0, <3>1
    <3>2. CASE points' = [points EXCEPT ![Head(todo[t])] = @ + 1]
      BY <1>0, <2>2, <3>2, OneMore, Zenon
    <3> QED
      BY <2>1, <3>1, <3>2
  <2> QED
    BY <1>0, <2>1, <2>3, NextFactDoes DEF FTypes
<1>5. ASSUME NEW t \in Tasks, NewFact(t) \/ SearchFails(t) PROVE FTypes'
  <2>1. /\ stage[t] = "search" /\ stage' = [stage EXCEPT ![t] = "row"]
        /\ UNCHANGED <<pc, todo, rows, points>>
    BY <1>5 DEF NewFact, SearchFails, vars
  <2>2. TypeOK'
    BY <1>0, <1>5, NextTypeOK, CounterAssumption DEF NewFact, SearchFails, Fault, TypeOK
  <2>3. lapped' \in BOOLEAN
    BY <1>5, Zenon DEF NewFact, SearchFails
  <2> QED
    BY <1>0, <2>1, <2>2, <2>3 DEF FTypes, RunStages
<1>6. ASSUME NEW t \in Tasks, InsertRow(t) PROVE FTypes'
  <2>1. /\ stage[t] = "row" /\ stage' = [stage EXCEPT ![t] = "point"]
        /\ rows' = [rows EXCEPT ![Head(todo[t])] = @ + 1]
        /\ UNCHANGED <<vars, todo, points, lapped>>
    BY <1>6 DEF InsertRow
  <2>2. TypeOK' /\ pc' = pc
    BY <1>0, <2>1, NextTypeOK DEF vars
  <2>3. Head(todo[t]) \in Facts
    BY <2>1, FirstOfTodo
  <2>4. rows' \in [Facts -> Nat]
    BY <1>0, <2>1, <2>3
  <2> QED
    BY <1>0, <2>1, <2>2, <2>4 DEF FTypes, RunStages
<1>7. ASSUME NEW t \in Tasks, RowFails(t) \/ PointFails(t) PROVE FTypes'
  <2>1. /\ stage[t] # "ask" /\ Fault /\ LeaveRun(t) /\ UNCHANGED lapped
        /\ rows' = rows \/ rows' = [rows EXCEPT ![Head(todo[t])] = @ + 1]
        /\ points' = points \/ points' = [points EXCEPT ![Head(todo[t])] = @ + 1]
    BY <1>7 DEF RowFails, PointFails
  <2>2. Head(todo[t]) \in Facts
    BY <2>1, FirstOfTodo
  <2>3. /\ [rows EXCEPT ![Head(todo[t])] = @ + 1] \in [Facts -> Nat]
        /\ [points EXCEPT ![Head(todo[t])] = @ + 1] \in [Facts -> Nat]
    BY <1>0, <2>2, OneMore, Zenon
  <2>4. rows' \in [Facts -> Nat] /\ points' \in [Facts -> Nat]
    BY <1>0, <2>1, <2>3, Zenon
  <2> QED
    BY <1>0, <2>1, <2>4, LeaveRunDoes DEF FTypes
<1>8. CASE CrashAll
  <2>1. TypeOK'
    BY <1>0, <1>8, NextTypeOK DEF CrashAll, Next
  <2>2. <<>> \in Seq(Facts) /\ Len(<<>>) = 0 /\ MaxNamed \in Nat
    BY EmptySeq, FactsAssumption
  <2>3. /\ todo' = [t \in Tasks |-> <<>>] /\ stage' = [t \in Tasks |-> "ask"]
        /\ UNCHANGED <<rows, points, lapped>>
    BY <1>8 DEF CrashAll
  <2> QED
    BY <1>0, <2>1, <2>2, <2>3 DEF FTypes, RunStages
<1>9. CASE UNCHANGED allVars
  <2>1. TypeOK'
    BY <1>0, <1>9, NextTypeOK DEF allVars
  <2> QED
    BY <1>0, <1>9, <2>1 DEF FTypes, allVars, vars, factVars
<1> QED
  BY <1>1, <1>2, <1>3, <1>4, <1>5, <1>6, <1>7, <1>8, <1>9 DEF FactNext, RunStep, RunFault

-----------------------------------------------------------------------------
(* What a step does to the runs that are about to store, and to the stores.   *)

About(f) == {t \in Storing : Head(todo[t]) = f}
Between(f) == {t \in Tasks : stage[t] = "point" /\ Head(todo[t]) = f}

Quiet ==
  /\ UNCHANGED <<rows, points, lapped>>
  /\ faults' \in {faults, faults + 1}
  /\ Storing' = Storing
  /\ \A t \in Storing : todo'[t] = todo[t] /\ stage'[t] = stage[t]

Finds(t) ==
  /\ stage[t] = "search" /\ RunMoves(t, "row") /\ todo'[t] = todo[t]
  /\ UNCHANGED <<rows, points>>
  /\ lapped' = (lapped \/ Storing # {})
  /\ \/ ~Hit(Head(todo[t])) /\ faults' = faults
     \/ faults' = faults + 1

Stores(t) ==
  /\ stage[t] = "point" /\ \E s \in {"search", "ask"} : RunMoves(t, s)
  /\ points' = [points EXCEPT ![Head(todo[t])] = @ + 1]
  /\ UNCHANGED <<rows, lapped, faults>>

Breaks(t) ==
  /\ RunMoves(t, "ask")
  /\ \/ /\ stage[t] = "row" /\ UNCHANGED points
        /\ rows' \in {rows, [rows EXCEPT ![Head(todo[t])] = @ + 1]}
     \/ /\ stage[t] = "point" /\ UNCHANGED rows
        /\ points' \in {points, [points EXCEPT ![Head(todo[t])] = @ + 1]}
  /\ lapped' = lapped /\ faults' = faults + 1

LEMMA StepKinds ==
  ASSUME FTypes, [FactNext]_allVars
  PROVE  \/ Quiet \/ CrashAll
         \/ \E t \in Tasks : Finds(t) \/ InsertRow(t) \/ Stores(t) \/ Breaks(t)
<1>0. stage \in [Tasks -> RunStages]
  BY DEF FTypes
<1>1. ASSUME NEW t \in Tasks, CounterStep(t) PROVE Quiet
  <2>1. faults' \in {faults, faults + 1}
    BY <1>1 DEF CounterStep, Arrive, Count, Trigger, Reset, IncrLost, ResetFails, Fault
  <2> QED
    BY <1>1, <2>1 DEF CounterStep, factVars, Quiet, Storing
<1>2. ASSUME NEW t \in Tasks, FactsNamed(t) PROVE Quiet
  <2>1. /\ stage[t] = "ask" /\ stage' = [stage EXCEPT ![t] = "search"]
        /\ UNCHANGED <<vars, rows, points, lapped>>
        /\ \E named : todo' = [todo EXCEPT ![t] = named]
    BY <1>2 DEF FactsNamed
  <2>2. todo \in [Tasks -> Seq(Facts)]
    BY DEF FTypes
  <2>3. \A u \in Tasks \ {t} : todo'[u] = todo[u] /\ stage'[u] = stage[u]
    BY <1>0, <2>1, <2>2
  <2>4. stage'[t] = "search"
    BY <1>0, <2>1
  <2>5. Storing' = Storing /\ \A u \in Storing : todo'[u] = todo[u] /\ stage'[u] = stage[u]
    BY <2>1, <2>3, <2>4 DEF Storing
  <2> QED
    BY <2>1, <2>5 DEF Quiet, vars
<1>3. ASSUME NEW t \in Tasks, NothingNamed(t) PROVE Quiet
  BY <1>3 DEF NothingNamed, WorkFails, factVars, Quiet, Storing
<1>4. ASSUME NEW t \in Tasks, EmbedFails(t) \/ Duplicate(t) PROVE Quiet
  <2>1. stage[t] = "search" /\ NextFact(t) /\ UNCHANGED <<rows, points, lapped>>
    BY <1>4 DEF EmbedFails, Duplicate
  <2>2. PICK s \in {"search", "ask"} : RunMoves(t, s)
    BY <2>1, NextFactDoes
  <2>3. faults' = faults
    BY <2>1, NextFactDoes
  <2>4. Storing' = Storing /\ \A u \in Storing : todo'[u] = todo[u] /\ stage'[u] = stage[u]
    BY <1>0, <2>1, <2>2 DEF Storing, RunMoves
  <2> QED
    BY <2>1, <2>3, <2>4 DEF Quiet
<1>5. ASSUME NEW t \in Tasks, NewFact(t) \/ SearchFails(t) PROVE Finds(t)
  BY <1>5 DEF NewFact, SearchFails, Finds, RunMoves, Fault, vars
<1>6. ASSUME NEW t \in Tasks, UpsertPoint(t) PROVE Stores(t)
  BY <1>6, NextFactDoes DEF UpsertPoint, Stores
<1>7. ASSUME NEW t \in Tasks, RowFails(t) \/ PointFails(t) PROVE Breaks(t)
  BY <1>7, LeaveRunDoes DEF RowFails, PointFails, Breaks, Fault
<1>8. CASE UNCHANGED allVars
  BY <1>8 DEF allVars, vars, factVars, Quiet, Storing
<1> QED
  BY <1>1, <1>2, <1>3, <1>4, <1>5, <1>6, <1>7, <1>8 DEF FactNext, RunStep, RunFault

LEMMA FewTasks ==
  ASSUME NEW S \in SUBSET Tasks
  PROVE  /\ IsFiniteSet(S) /\ Cardinality(S) \in Nat /\ Cardinality(Tasks) \in Nat
         /\ Cardinality(S) <= Cardinality(Tasks)
BY CounterAssumption, FS_Subset, FS_CardinalityType

(* A run finds that its fact is new. *)
LEMMA FindsJoins ==
  ASSUME FTypes, NEW t \in Tasks, stage[t] = "search", RunMoves(t, "row"), todo'[t] = todo[t]
  PROVE  /\ Storing' = Storing \cup {t} /\ t \notin Storing
         /\ \A u \in Storing' : todo'[u] = todo[u]
         /\ \A f \in Facts : /\ Between(f)' = Between(f)
                             /\ f # Head(todo[t]) => About(f)' = About(f)
                             /\ f = Head(todo[t]) => About(f)' = About(f) \cup {t}
<1>1. \A u \in Tasks \ {t} : stage'[u] = stage[u] /\ todo'[u] = todo[u]
  BY DEF FTypes, RunMoves
<1>2. stage'[t] = "row"
  BY DEF FTypes, RunMoves
<1>3. Storing' = Storing \cup {t} /\ t \notin Storing
  BY <1>1, <1>2 DEF Storing
<1>4. \A u \in Tasks : todo'[u] = todo[u]
  BY <1>1
<1>5. ASSUME NEW f \in Facts
      PROVE  /\ Between(f)' = Between(f)
             /\ f # Head(todo[t]) => About(f)' = About(f)
             /\ f = Head(todo[t]) => About(f)' = About(f) \cup {t}
  <2>1. Between(f)' = Between(f)
    BY <1>1, <1>2, <1>4 DEF Between
  <2>2. \A u \in Storing : u \in Tasks
    BY DEF Storing
  <2> QED
    BY <1>3, <1>4, <2>1, <2>2 DEF About
<1> QED
  BY <1>3, <1>4, <1>5 DEF Storing

(* A run has dealt with its fact, or breaks off. *)
LEMMA RunLeaves ==
  ASSUME FTypes, NEW t \in Tasks, stage[t] \in {"row", "point"},
         NEW s \in {"search", "ask"}, RunMoves(t, s)
  PROVE  /\ Storing' = Storing \ {t} /\ t \in Storing
         /\ \A u \in Storing' : todo'[u] = todo[u]
         /\ \A f \in Facts : /\ About(f)' = About(f) \ {t}
                             /\ t \in About(f) <=> f = Head(todo[t])
                             /\ Between(f)' = Between(f) \ {t}
                             /\ t \in Between(f) <=> f = Head(todo[t]) /\ stage[t] = "point"
<1>1. \A u \in Tasks \ {t} : stage'[u] = stage[u] /\ todo'[u] = todo[u]
  BY DEF FTypes, RunMoves
<1>2. stage'[t] = s
  BY DEF FTypes, RunMoves
<1>3. Storing' = Storing \ {t} /\ t \in Storing
  BY <1>1, <1>2 DEF Storing
<1>4. \A u \in Storing \ {t} : u \in Tasks /\ todo'[u] = todo[u]
  BY <1>1 DEF Storing
<1>5. ASSUME NEW f \in Facts
      PROVE  /\ About(f)' = About(f) \ {t}
             /\ t \in About(f) <=> f = Head(todo[t])
             /\ Between(f)' = Between(f) \ {t}
             /\ t \in Between(f) <=> f = Head(todo[t]) /\ stage[t] = "point"
  <2>1. About(f)' = About(f) \ {t}
    BY <1>3, <1>4 DEF About
  <2>2. Between(f)' = Between(f) \ {t}
    BY <1>1, <1>2 DEF Between
  <2> QED
    BY <1>3, <2>1, <2>2 DEF About, Between
<1> QED
  BY <1>3, <1>4, <1>5

LEMMA RowInserted ==
  ASSUME FTypes, NEW t \in Tasks, InsertRow(t)
  PROVE  /\ Storing' = Storing /\ todo' = todo
         /\ \A f \in Facts : /\ About(f)' = About(f)
                             /\ f # Head(todo[t]) => Between(f)' = Between(f)
                             /\ f = Head(todo[t]) => /\ Between(f)' = Between(f) \cup {t}
                                                     /\ t \notin Between(f)
<1>1. /\ \A u \in Tasks \ {t} : stage'[u] = stage[u]
      /\ stage[t] = "row" /\ stage'[t] = "point" /\ todo' = todo
  BY DEF FTypes, InsertRow
<1>2. Storing' = Storing
  BY <1>1 DEF Storing
<1> QED
  BY <1>1, <1>2 DEF About, Between

LEMMA QuietKeeps ==
  ASSUME Quiet
  PROVE  \A f \in Facts : About(f)' = About(f) /\ Between(f)' = Between(f)
<1>1. ASSUME NEW f \in Facts PROVE About(f)' = About(f)
  BY DEF Quiet, About
<1>2. ASSUME NEW f \in Facts PROVE Between(f)' = Between(f)
  <2>1. \A t \in Tasks : t \in Between(f)' <=> t \in Between(f)
    BY DEF Quiet, Between, Storing
  <2> QED
    BY <2>1 DEF Between
<1> QED
  BY <1>1, <1>2

(* A crash leaves no run. *)
LEMMA CrashEnds ==
  ASSUME CrashAll
  PROVE  /\ Storing' = {} /\ UNCHANGED <<rows, points, lapped>> /\ faults' = faults + 1
         /\ \A f \in Facts : About(f)' = {} /\ Between(f)' = {}
<1>1. \A t \in Tasks : stage'[t] = "ask"
  BY DEF CrashAll
<1>2. Storing' = {}
  BY <1>1 DEF Storing
<1> QED
  BY <1>1, <1>2 DEF About, Between, CrashAll, Crash, Fault

(* One task more, or one less. *)
LEMMA JoinCount ==
  ASSUME NEW S \in SUBSET Tasks, NEW t \in Tasks, t \notin S
  PROVE  Cardinality(S \cup {t}) = Cardinality(S) + 1
BY FewTasks, FS_AddElement

LEMMA LeaveCount ==
  ASSUME NEW S \in SUBSET Tasks, NEW t \in Tasks
  PROVE  Cardinality(S \ {t}) = IF t \in S THEN Cardinality(S) - 1 ELSE Cardinality(S)
BY FewTasks, FS_RemoveElement

LEMMA SetsOfRuns ==
  ASSUME NEW f \in Facts
  PROVE  /\ About(f) \in SUBSET Tasks /\ Between(f) \in SUBSET Tasks
         /\ Cardinality(About(f)) \in Nat /\ Cardinality(Between(f)) \in Nat
<1>1. About(f) \in SUBSET Tasks /\ Between(f) \in SUBSET Tasks
  BY DEF About, Between, Storing
<1> QED
  BY <1>1, FewTasks

(* Whatever a step does, the failures never become fewer. *)
LEMMA Known == FTypes => /\ rows \in [Facts -> Nat] /\ points \in [Facts -> Nat]
                         /\ faults \in Nat /\ Cardinality(Tasks) \in Nat
BY CounterAssumption, FewTasks DEF FTypes, TypeOK

-----------------------------------------------------------------------------
(* Rows and points.                                                         *)

(* Of a fact: as many rows as points and runs between the two, no fewer when   *)
(* calls failed.                                                             *)
Matched ==
  \A f \in Facts : /\ points[f] + Cardinality(Between(f)) <= rows[f]
                   /\ faults = 0 => points[f] + Cardinality(Between(f)) = rows[f]

LEMMA NextMatched == FTypes /\ FTypes' /\ Matched /\ [FactNext]_allVars => Matched'
<1> SUFFICES ASSUME FTypes, FTypes', Matched, [FactNext]_allVars, NEW f \in Facts
             PROVE  /\ points'[f] + Cardinality(Between(f)') <= rows'[f]
                    /\ faults' = 0 => points'[f] + Cardinality(Between(f)') = rows'[f]
  BY DEF Matched
<1> DEFINE p == points[f]
           r == rows[f]
           b == Cardinality(Between(f))
           q == points'[f]
           s == rows'[f]
           c == Cardinality(Between(f)')
<1>1. /\ p \in Nat /\ r \in Nat /\ b \in Nat /\ faults \in Nat
      /\ p + b <= r /\ (faults = 0 => p + b = r)
      /\ Between(f) \in SUBSET Tasks
  BY Known, SetsOfRuns DEF Matched
<1>2. CASE Quiet
  <2>1. q = p /\ s = r /\ c = b /\ faults' \in {faults, faults + 1}
    BY <1>2, QuietKeeps DEF Quiet
  <2> HIDE DEF p, r, b, q, s, c
  <2>2. (q + c <= s) /\ (faults' = 0 => q + c = s)
    BY <1>1, <2>1
  <2> QED
    BY <2>2 DEF q, s, c
<1>3. CASE CrashAll
  <2>1. q = p /\ s = r /\ c = 0 /\ faults' = faults + 1
    BY <1>3, CrashEnds, FS_EmptySet
  <2> HIDE DEF p, r, b, q, s, c
  <2>2. (q + c <= s) /\ (faults' = 0 => q + c = s)
    BY <1>1, <2>1
  <2> QED
    BY <2>2 DEF q, s, c
<1>4. ASSUME NEW t \in Tasks, Finds(t)
      PROVE  (q + c <= s) /\ (faults' = 0 => q + c = s)
  <2>1. q = p /\ s = r /\ c = b /\ faults' \in {faults, faults + 1}
    BY <1>4, FindsJoins DEF Finds
  <2> HIDE DEF p, r, b, q, s, c
  <2> QED
    BY <1>1, <2>1
<1>5. ASSUME NEW t \in Tasks, InsertRow(t)
      PROVE  (q + c <= s) /\ (faults' = 0 => q + c = s)
  <2>1. stage[t] # "ask" /\ rows' = [rows EXCEPT ![Head(todo[t])] = @ + 1]
        /\ UNCHANGED <<points, faults>>
    BY <1>5 DEF InsertRow, vars
  <2>2. Head(todo[t]) \in Facts
    BY <2>1, FirstOfTodo
  <2>3. CASE f = Head(todo[t])
    <3>1. c = b + 1
      BY <1>1, <1>5, <2>3, RowInserted, JoinCount
    <3>2. s = r + 1 /\ q = p
      BY <2>1, <2>2, <2>3, Known, OneMore
    <3> HIDE DEF p, r, b, q, s, c
    <3> QED
      BY <1>1, <2>1, <3>1, <3>2
  <2>4. CASE f # Head(todo[t])
    <3>1. c = b
      BY <1>5, <2>4, RowInserted
    <3>2. s = r /\ q = p
      BY <2>1, <2>2, <2>4, Known, OneMore
    <3> HIDE DEF p, r, b, q, s, c
    <3> QED
      BY <1>1, <2>1, <3>1, <3>2
  <2> QED
    BY <2>3, <2>4
<1>6. ASSUME NEW t \in Tasks, Stores(t)
      PROVE  (q + c <= s) /\ (faults' = 0 => q + c = s)
  <2>1. stage[t] = "point" /\ points' = [points EXCEPT ![Head(todo[t])] = @ + 1]
        /\ UNCHANGED <<rows, faults>>
    BY <1>6 DEF Stores
  <2>2. Head(todo[t]) \in Facts
    BY <2>1, FirstOfTodo
  <2>3. PICK x \in {"search", "ask"} : RunMoves(t, x)
    BY <1>6 DEF Stores
  <2>4. Between(f)' = Between(f) \ {t} /\ (t \in Between(f) <=> f = Head(todo[t]))
    BY <2>1, <2>3, RunLeaves
  <2>5. CASE f = Head(todo[t])
    <3>1. c = b - 1
      BY <1>1, <2>4, <2>5, LeaveCount
    <3>2. s = r /\ q = p + 1
      BY <2>1, <2>2, <2>5, Known, OneMore
    <3> HIDE DEF p, r, b, q, s, c
    <3> QED
      BY <1>1, <2>1, <3>1, <3>2
  <2>6. CASE f # Head(todo[t])
    <3>1. c = b
      BY <1>1, <2>4, <2>6, LeaveCount
    <3>2. s = r /\ q = p
      BY <2>1, <2>2, <2>6, Known, OneMore
    <3> HIDE DEF p, r, b, q, s, c
    <3> QED
      BY <1>1, <2>1, <3>1, <3>2
  <2> QED
    BY <2>5, <2>6
<1>7. ASSUME NEW t \in Tasks, Breaks(t)
      PROVE  (q + c <= s) /\ (faults' = 0 => q + c = s)
  <2>1. RunMoves(t, "ask") /\ faults' = faults + 1 /\ stage[t] \in {"row", "point"}
    BY <1>7 DEF Breaks
  <2>2. Head(todo[t]) \in Facts
    BY <2>1, FirstOfTodo
  <2>3. /\ Between(f)' = Between(f) \ {t}
        /\ t \in Between(f) <=> f = Head(todo[t]) /\ stage[t] = "point"
    BY <2>1, RunLeaves
  <2>4. CASE t \in Between(f)
    <3>1. c = b - 1
      BY <1>1, <2>3, <2>4, LeaveCount
    <3>2. s = r /\ points' \in {points, [points EXCEPT ![Head(todo[t])] = @ + 1]}
      BY <1>7, <2>3, <2>4 DEF Breaks
    <3>3. q = p \/ q = p + 1
      BY <2>2, <2>3, <2>4, <3>2, Known, OneMore
    <3> HIDE DEF p, r, b, q, s, c
    <3> QED
      BY <1>1, <2>1, <3>1, <3>2, <3>3
  <2>5. CASE t \notin Between(f)
    <3>1. c = b
      BY <1>1, <2>3, <2>5, LeaveCount
    <3>2. q = p /\ (s = r \/ s = r + 1)
      <4>1. CASE stage[t] = "row"
        <5>1. points' = points /\ rows' \in {rows, [rows EXCEPT ![Head(todo[t])] = @ + 1]}
          BY <1>7, <4>1 DEF Breaks
        <5> QED
          BY <2>2, <5>1, Known, OneMore
      <4>2. CASE stage[t] = "point"
        <5>1. rows' = rows /\ points' \in {points, [points EXCEPT ![Head(todo[t])] = @ + 1]}
          BY <1>7, <4>2 DEF Breaks
        <5>2. f # Head(todo[t])
          BY <2>3, <2>5, <4>2
        <5> QED
          BY <2>2, <5>1, <5>2, Known, OneMore
      <4> QED
        BY <2>1, <4>1, <4>2
    <3> HIDE DEF p, r, b, q, s, c
    <3> QED
      BY <1>1, <2>1, <3>1, <3>2
  <2> QED
    BY <2>4, <2>5
<1> QED
  BY <1>2, <1>3, <1>4, <1>5, <1>6, <1>7, StepKinds

-----------------------------------------------------------------------------
(* Copies.                                                                  *)

(* A run about to store a fact it found no copy of counts as a copy; a search  *)
(* that failed is paid for by its failure.                                   *)
Bounded ==
  \A f \in Facts : points[f] + Cardinality(About(f)) <= Cardinality(Tasks) + faults

(* The bound allows for what is fewer or paid for. *)
LEMMA Allowed ==
  ASSUME NEW p \in Nat, NEW a \in Nat, NEW n \in Nat, NEW k \in Nat, p + a <= n + k,
         NEW q, NEW b, NEW l,
         (q = p /\ b = a) \/ (q = p + 1 /\ b = a - 1) \/ (q = p /\ b = a - 1),
         l = k \/ l = k + 1
  PROVE  q + b <= n + l
OBVIOUS

LEMMA NextBounded == FTypes /\ Bounded /\ [FactNext]_allVars => Bounded'
<1> SUFFICES ASSUME FTypes, Bounded, [FactNext]_allVars, NEW f \in Facts
             PROVE  points'[f] + Cardinality(About(f)') <= Cardinality(Tasks) + faults'
  BY DEF Bounded
<1> DEFINE p == points[f]
           a == Cardinality(About(f))
           n == Cardinality(Tasks)
           q == points'[f]
           b == Cardinality(About(f)')
<1>1. /\ p \in Nat /\ a \in Nat /\ n \in Nat /\ faults \in Nat
      /\ p + a <= n + faults /\ About(f) \in SUBSET Tasks
  BY Known, SetsOfRuns DEF Bounded
<1>2. CASE Quiet
  <2>1. q = p /\ b = a /\ (faults' = faults \/ faults' = faults + 1)
    BY <1>2, QuietKeeps DEF Quiet
  <2> HIDE DEF p, a, n, q, b
  <2>2. q + b <= n + faults'
    BY <1>1, <2>1, Allowed
  <2> QED
    BY <2>2 DEF q, b, n
<1>3. CASE CrashAll
  <2>1. q = p /\ b = 0 /\ faults' = faults + 1
    BY <1>3, CrashEnds, FS_EmptySet
  <2> HIDE DEF p, a, n, q, b
  <2>2. q + b <= n + faults'
    BY <1>1, <2>1, Allowed
  <2> QED
    BY <2>2 DEF q, b, n
<1>4. ASSUME NEW t \in Tasks, Finds(t) PROVE q + b <= n + faults'
  <2>1. stage[t] = "search" /\ RunMoves(t, "row") /\ todo'[t] = todo[t] /\ q = p
    BY <1>4 DEF Finds
  <2>2. t \notin About(f)
    BY <2>1 DEF About, Storing
  <2>3. CASE f # Head(todo[t])
    <3>1. b = a /\ (faults' = faults \/ faults' = faults + 1)
      BY <1>4, <2>1, <2>3, FindsJoins DEF Finds
    <3> HIDE DEF p, a, n, q, b
    <3> QED
      BY <1>1, <2>1, <3>1, Allowed
  <2>4. CASE f = Head(todo[t])
    <3>1. About(f)' = About(f) \cup {t}
      BY <2>1, <2>4, FindsJoins
    <3>2. b = a + 1
      BY <1>1, <2>2, <3>1, JoinCount
    <3>3. CASE faults' = faults + 1
      <4> HIDE DEF p, a, n, q, b
      <4> QED
        BY <1>1, <2>1, <3>2, <3>3
    <3>4. CASE ~Hit(Head(todo[t])) /\ faults' = faults
      <4>1. ~(p > 0)
        BY <2>4, <3>4, FactsAssumption DEF Hit
      <4>2. b <= n
        BY <1>1, <3>1, FewTasks
      <4> HIDE DEF p, a, n, q, b
      <4> QED
        BY <1>1, <2>1, <3>2, <3>4, <4>1, <4>2
    <3> QED
      BY <1>4, <3>3, <3>4 DEF Finds
  <2> QED
    BY <2>3, <2>4
<1>5. ASSUME NEW t \in Tasks, InsertRow(t) PROVE q + b <= n + faults'
  <2>1. q = p /\ b = a /\ faults' = faults
    BY <1>5, RowInserted DEF InsertRow, vars
  <2> HIDE DEF p, a, n, q, b
  <2> QED
    BY <1>1, <2>1, Allowed
<1>6. ASSUME NEW t \in Tasks, Stores(t) \/ Breaks(t) PROVE q + b <= n + faults'
  <2>1. /\ stage[t] \in {"row", "point"}
        /\ points' \in {points, [points EXCEPT ![Head(todo[t])] = @ + 1]}
        /\ (faults' = faults \/ faults' = faults + 1)
        /\ \E x \in {"search", "ask"} : RunMoves(t, x)
    BY <1>6 DEF Stores, Breaks
  <2>2. Head(todo[t]) \in Facts
    BY <2>1, FirstOfTodo
  <2>3. About(f)' = About(f) \ {t} /\ (t \in About(f) <=> f = Head(todo[t]))
    BY <2>1, RunLeaves
  <2>4. CASE f = Head(todo[t])
    <3>1. b = a - 1
      BY <1>1, <2>3, <2>4, LeaveCount
    <3>2. q = p \/ q = p + 1
      BY <2>1, <2>2, <2>4, Known, OneMore
    <3> HIDE DEF p, a, n, q, b
    <3> QED
      BY <1>1, <2>1, <3>1, <3>2, Allowed
  <2>5. CASE f # Head(todo[t])
    <3>1. b = a
      BY <1>1, <2>3, <2>5, LeaveCount
    <3>2. q = p
      BY <2>1, <2>2, <2>5, Known, OneMore
    <3> HIDE DEF p, a, n, q, b
    <3> QED
      BY <1>1, <2>1, <3>1, <3>2, Allowed
  <2> QED
    BY <2>4, <2>5
<1> QED
  BY <1>2, <1>3, <1>4, <1>5, <1>6, StepKinds

-----------------------------------------------------------------------------
(* Twins.                                                                   *)

(* While nothing failed and no search was lapped, one run at most is about to  *)
(* store, and nothing like its fact is stored.                               *)
Twinless ==
  faults = 0 /\ ~lapped =>
    /\ \A t, u \in Storing : t = u
    /\ \A t \in Storing : \A g \in Facts : <<Head(todo[t]), g>> \in Alike => points[g] = 0
    /\ \A f \in Facts : points[f] <= 1
    /\ \A f, g \in Facts : f # g /\ <<f, g>> \in Alike => points[f] = 0 \/ points[g] = 0

LEMMA NextTwinless == FTypes /\ Twinless /\ [FactNext]_allVars => Twinless'
<1> SUFFICES ASSUME FTypes, Twinless, [FactNext]_allVars, faults' = 0, ~lapped'
             PROVE  Twinless'
  BY DEF Twinless
<1>0. points \in [Facts -> Nat] /\ faults \in Nat
  BY Known
<1>1. CASE Quiet
  <2>1. faults = 0 /\ ~lapped
    BY <1>0, <1>1 DEF Quiet
  <2> QED
    BY <1>1, <2>1 DEF Quiet, Twinless
<1>2. ASSUME NEW t \in Tasks, Finds(t) PROVE Twinless'
  <2>1. faults = 0 /\ ~Hit(Head(todo[t]))
    BY <1>0, <1>2 DEF Finds
  <2>2. ~lapped /\ Storing = {}
    BY <1>2, Zenon DEF Finds
  <2>3. Storing' = {t} /\ points' = points /\ todo'[t] = todo[t]
    BY <1>2, <2>2, FindsJoins DEF Finds
  <2>4. stage[t] # "ask"
    BY <1>2 DEF Finds
  <2>5. \A g \in Facts : <<Head(todo[t]), g>> \in Alike => points[g] = 0
    BY <1>0, <2>1, SMTT(20) DEF Hit
  <2> QED
    BY <2>1, <2>2, <2>3, <2>5 DEF Twinless
<1>3. ASSUME NEW t \in Tasks, InsertRow(t) PROVE Twinless'
  <2>1. UNCHANGED <<points, lapped, faults>> /\ Storing' = Storing /\ todo' = todo
    BY <1>3, RowInserted DEF InsertRow, vars
  <2> QED
    BY <2>1 DEF Twinless
<1>4. ASSUME NEW t \in Tasks, Stores(t) PROVE Twinless'
  <2> DEFINE h == Head(todo[t])
  <2>1. stage[t] = "point" /\ faults = 0 /\ ~lapped /\ points' = [points EXCEPT ![h] = @ + 1]
    BY <1>4 DEF Stores
  <2>2. h \in Facts
    BY <2>1, FirstOfTodo
  <2>3. Storing' = Storing \ {t} /\ t \in Storing
    BY <1>4, <2>1, RunLeaves DEF Stores
  <2>4. \A u, v \in Storing' : u = v
    BY <2>1, <2>3 DEF Twinless
  <2>5. Storing' = {}
    BY <2>1, <2>3 DEF Twinless
  <2>6. \A g \in Facts : <<h, g>> \in Alike => points[g] = 0
    BY <2>1, <2>3 DEF Twinless
  <2>7. points'[h] = points[h] + 1 /\ \A g \in Facts \ {h} : points'[g] = points[g]
    BY <1>0, <2>1, <2>2, OneMore
  <2> HIDE DEF h
  <2>8. points'[h] = 1
    <3>1. <<h, h>> \in Alike
      BY <2>2, FactsAssumption
    <3>2. points[h] = 0
      BY <2>2, <2>6, <3>1
    <3> QED
      BY <2>7, <3>2
  <2>9. \A f \in Facts : points'[f] <= 1
    BY <2>1, <2>7, <2>8 DEF Twinless
  <2>10. ASSUME NEW f \in Facts, NEW g \in Facts, f # g, <<f, g>> \in Alike
         PROVE  points'[f] = 0 \/ points'[g] = 0
    <3>1. CASE f = h
      BY <2>6, <2>7, <2>10, <3>1
    <3>2. CASE g = h
      BY <2>6, <2>7, <2>10, <3>2, FactsAssumption
    <3>3. CASE f # h /\ g # h
      BY <2>1, <2>7, <2>10, <3>3 DEF Twinless
    <3> QED
      BY <3>1, <3>2, <3>3
  <2> QED
    BY <2>4, <2>5, <2>9, <2>10 DEF Twinless
<1>5. ASSUME NEW t \in Tasks, Breaks(t) PROVE FALSE
  BY <1>0, <1>5 DEF Breaks
<1>6. CASE CrashAll
  BY <1>0, <1>6, CrashEnds
<1> QED
  BY <1>1, <1>2, <1>3, <1>4, <1>5, <1>6, StepKinds

-----------------------------------------------------------------------------
LEMMA InitFacts == FactInit => /\ Overshoot /\ Aligned /\ Matched /\ Bounded /\ Twinless
<1> SUFFICES ASSUME FactInit PROVE Overshoot /\ Aligned /\ Matched /\ Bounded /\ Twinless
  OBVIOUS
<1>1. Storing = {} /\ \A f \in Facts : About(f) = {} /\ Between(f) = {}
  BY DEF FactInit, Storing, About, Between
<1>2. faults = 0 /\ \A f \in Facts : rows[f] = 0 /\ points[f] = 0
  BY DEF FactInit, Init
<1>3. Cardinality({}) = 0 /\ Cardinality(Tasks) \in Nat
  BY FS_EmptySet, FewTasks
<1>4. Matched
  BY <1>1, <1>2, <1>3 DEF Matched
<1>5. Bounded
  BY <1>1, <1>2, <1>3 DEF Bounded
<1>6. Twinless
  BY <1>1, <1>2 DEF Twinless
<1>7. Overshoot
  BY ResettingFinite, CounterAssumption DEF FactInit, Init, Overshoot
<1> QED
  BY <1>4, <1>5, <1>6, <1>7, InitAligned DEF FactInit

LEMMA SameAnswers == BoundedSeq(Facts, MaxNamed) = {s \in Seq(Facts) : Len(s) <= MaxNamed}
<1>1. ASSUME NEW s \in BoundedSeq(Facts, MaxNamed) PROVE s \in Seq(Facts) /\ Len(s) <= MaxNamed
  <2>1. PICK m \in 0..MaxNamed : s \in [1..m -> Facts]
    BY <1>1 DEF BoundedSeq, SeqOf
  <2>2. m \in Nat /\ m <= MaxNamed
    BY <2>1, FactsAssumption
  <2>3. s \in Seq(Facts) /\ Len(s) = m
    BY <2>1, <2>2
  <2> QED
    BY <2>2, <2>3
<1>2. ASSUME NEW s \in Seq(Facts), Len(s) <= MaxNamed PROVE s \in BoundedSeq(Facts, MaxNamed)
  <2>1. s \in [1..Len(s) -> Facts] /\ Len(s) \in Nat
    BY <1>2, LenProperties
  <2>2. Len(s) \in 0..MaxNamed
    BY <1>2, <2>1, FactsAssumption
  <2> QED
    BY <2>1, <2>2 DEF BoundedSeq, SeqOf
<1> QED
  BY <1>1, <1>2

(* A run has facts to deal with exactly between the model's answer and its end, *)
(* and every store its type (extract_facts.rs:52-203).                        *)
THEOREM FactTypeCorrect == FactSpec => [](TypeOK /\ FactTypeOK)
<1>1. FTypes => TypeOK /\ FactTypeOK
  <2> SUFFICES ASSUME FTypes PROVE TypeOK /\ FactTypeOK
    OBVIOUS
  <2>1. todo \in [Tasks -> BoundedSeq(Facts, MaxNamed)]
    BY SameAnswers DEF FTypes
  <2>2. lapped \in BOOLEAN
    BY Zenon DEF FTypes
  <2> QED
    BY <2>1, <2>2 DEF FTypes, FactTypeOK, RunStages
<1> QED
  BY <1>1, InitFTypes, NextFTypes, PTL DEF FactSpec

(* The runs do nothing to the counter that sets them off but what the counter   *)
(* does alone, and an error of a run leaves it as it is                        *)
(* (extract_facts.rs:24-49, 131-203).                                          *)
THEOREM FactsKeepCounter == FactSpec => Init /\ [][Next \/ RunError]_vars
<1>1. FactInit => Init
  BY DEF FactInit
<1>2. FTypes /\ [FactNext]_allVars => [Next \/ RunError]_vars
  BY CounterUnderRuns
<1> QED
  BY <1>1, <1>2, InitFTypes, NextFTypes, PTL DEF FactSpec

(* The counter of a user is past the threshold only by DELs that are still to   *)
(* come or were lost, also under runs that fail at any call of theirs          *)
(* (extract_facts.rs:24-49).                                                  *)
THEOREM FactOvershootHolds == FactSpec => []Overshoot
<1>1. FTypes /\ Overshoot /\ [FactNext]_allVars => Overshoot'
  BY CounterUnderRuns, NextOvershoot, ErrorKeepsCounter DEF FTypes
<1> QED
  BY <1>1, InitFTypes, NextFTypes, InitFacts, PTL DEF FactSpec

(* Exactly every N-th message of a user triggers an extraction, as long as no   *)
(* two tasks were between INCR and DEL at once and nothing failed, however the *)
(* runs overlap (extract_facts.rs:24-49).                                     *)
THEOREM FactEveryNthHolds == FactSpec => EveryNth
<1>1. FTypes /\ Overshoot /\ Aligned /\ [FactNext]_allVars => Aligned'
  BY CounterUnderRuns, NextAligned, ErrorKeepsCounter DEF FTypes
<1>2. FTypes /\ Aligned /\ [FactNext]_allVars =>
        [\A t \in Tasks :
           Trigger(t) /\ ~overlapped' /\ faults = 0 => fresh + 1 = N]_vars
  <2> SUFFICES ASSUME FTypes, Aligned, NEW t \in Tasks,
                      Trigger(t), ~overlapped', faults = 0
               PROVE  fresh + 1 = N
    OBVIOUS
  <2>1. ~overlapped /\ \A u \in Tasks : pc[u] # "reset"
    BY DEF Trigger, Resetting
  <2>2. counter = fresh /\ counter < N
    BY <2>1 DEF Aligned
  <2> QED
    BY <2>2, CounterAssumption DEF Trigger, Due, TypeOK, FTypes
<1>3. FTypes /\ Overshoot /\ [FactNext]_allVars => Overshoot'
  BY CounterUnderRuns, NextOvershoot, ErrorKeepsCounter DEF FTypes
<1> QED
  BY <1>1, <1>2, <1>3, InitFTypes, NextFTypes, InitFacts, PTL DEF FactSpec, EveryNth

(* A point never lacks its row; a row lacks its point only while its run is     *)
(* between the two writes, or for a failure (extract_facts.rs:168-200).        *)
THEOREM RowsAndPointsHolds == FactSpec => []RowsAndPoints
<1>1. Matched => RowsAndPoints
  BY DEF Matched, RowsAndPoints, Between
<1> QED
  BY <1>1, InitFTypes, NextFTypes, InitFacts, NextMatched, PTL DEF FactSpec

(* The copies of a fact stay bounded by the runs there can be at once and the   *)
(* failures, for any number of extractions (extract_facts.rs:131-203).         *)
THEOREM CopiesBoundedHolds == FactSpec => []CopiesBounded
<1>1. FTypes /\ Bounded => CopiesBounded
  <2> SUFFICES ASSUME FTypes, Bounded, NEW f \in Facts
               PROVE  points[f] <= Cardinality(Tasks) + faults
    BY DEF CopiesBounded
  <2>1. /\ points[f] \in Nat /\ faults \in Nat /\ Cardinality(Tasks) \in Nat
        /\ Cardinality(About(f)) \in Nat
        /\ points[f] + Cardinality(About(f)) <= Cardinality(Tasks) + faults
    BY Known, SetsOfRuns DEF Bounded
  <2> QED
    BY <2>1
<1> QED
  BY <1>1, InitFTypes, NextFTypes, InitFacts, NextBounded, PTL DEF FactSpec

(* The duplicate check does what it is for where searches are not lapped and    *)
(* nothing fails: no two stored facts are alike, for any likeness that is      *)
(* reflexive and symmetric (extract_facts.rs:137-165).                        *)
THEOREM NoTwinsHolds == FactSpec => []NoTwins
<1>1. FTypes /\ Twinless => NoTwins
  <2> SUFFICES ASSUME FTypes, Twinless, faults = 0, ~lapped,
                      NEW f \in Facts, NEW g \in Facts, <<f, g>> \in Alike
               PROVE  points[f] + (IF f = g THEN 0 ELSE points[g]) <= 1
    BY DEF NoTwins
  <2>1. /\ points[f] \in Nat /\ points[g] \in Nat /\ points[f] <= 1 /\ points[g] <= 1
        /\ f # g => points[f] = 0 \/ points[g] = 0
    BY Known DEF Twinless
  <2> QED
    BY <2>1
<1> QED
  BY <1>1, InitFTypes, NextFTypes, InitFacts, NextTwinless, PTL DEF FactSpec
=============================================================================
