---------------------------- MODULE ChatDnaProofs ----------------------------
(***************************************************************************)
(* The summaries of a chat and its cached DNA, for any number of            *)
(* overlapping summary runs, any Lookback, any TTL, any longest call and any  *)
(* failures.                                                                *)
(***************************************************************************)
EXTENDS ChatDna, FiniteSetTheorems, SequenceTheorems, TLAPS

-----------------------------------------------------------------------------
(* The inductive invariant. *)

(* A row is in the picture S, or Lookback others are as new. *)
Covered(i, S) == i \in S \/ Cardinality(NewerThan(i)) >= Lookback

(* A reply synthesises only while nothing is cached. *)
Alone == reply # Idle => dna = Absent

(* What a picture misses was written after it was taken, and the picture is as  *)
(* old as its synthesis took, plus what is gone of the TTL.                    *)
Picture ==
  /\ reply # Idle => \A i \in Rows : age[i] <= reply.took \/ Covered(i, reply.of)
  /\ dna # Absent => \A i \in Rows : age[i] + ttl <= Day + LongestCall \/ Covered(i, dna.of)

Stored == {r \in Runs : run[r].at = "stored"}

(* A row that waits for its point has none, and waits for one run. *)
OneRun ==
  /\ \A r \in Stored : run[r].row \notin points
  /\ \A r, q \in Stored : run[r].row = run[q].row => r = q

DInv == TypeOK /\ Alone /\ Picture /\ OneRun

-----------------------------------------------------------------------------
(* The states of a run and of a reply. *)

(* A run that stored its summary names a row that exists. *)
LEMMA RunIs ==
  ASSUME TypeOK, NEW r \in Runs
  PROVE  /\ run[r].at \in {"idle", "work", "stored"}
         /\ run[r].at = "stored" => run[r].row \in Rows
BY DEF TypeOK, Idle

(* A synthesis under way. *)
LEMMA ReplyIs ==
  ASSUME TypeOK, reply # Idle
  PROVE  reply \in [at : {"ask", "set"}, of : SUBSET Rows, is : {"text", "blank"},
                    took : 0..LongestCall]
BY DEF TypeOK

(* Rows, ages and the parameters of the pictures. *)
LEMMA AgeIs ==
  ASSUME TypeOK
  PROVE  /\ Rows = 1..Len(age) /\ Len(age) \in Nat
         /\ \A i \in Rows : age[i] \in 0..Horizon
         /\ Horizon \in Nat /\ Horizon = Day + LongestCall + 2
         /\ Day \in Nat \ {0} /\ LongestCall \in Nat /\ Lookback \in Nat \ {0}
         /\ ttl \in 0..Day
<1>1. age \in Seq(0..Horizon) /\ ttl \in 0..Day
  BY DEF TypeOK
<1>2. Day \in Nat \ {0} /\ LongestCall \in Nat /\ Lookback \in Nat \ {0}
  BY DnaAssumption
<1>3. Horizon \in Nat /\ Horizon = Day + LongestCall + 2
  BY <1>2 DEF Horizon
<1>4. Rows = 1..Len(age)
  BY DEF Rows
<1>5. Len(age) \in Nat /\ \A i \in Rows : age[i] \in 0..Horizon
  <2> DEFINE A == 0..Horizon
  <2>1. age \in Seq(A)
    BY <1>1
  <2> HIDE DEF A
  <2>2. Len(age) \in Nat /\ \A i \in 1..Len(age) : age[i] \in A
    BY <2>1, LenProperties, ElementOfSeq
  <2> QED
    BY <1>4, <2>2 DEF A
<1> QED
  BY <1>1, <1>2, <1>3, <1>4, <1>5

(* A new row does not change the others. *)
LEMMA AppendAge ==
  ASSUME TypeOK, age' = Append(age, 0)
  PROVE  /\ age' \in Seq(0..Horizon) /\ Len(age') = Len(age) + 1
         /\ Rows' = Rows \cup {Len(age) + 1} /\ Len(age) + 1 \notin Rows
         /\ age'[Len(age) + 1] = 0 /\ \A i \in Rows : age'[i] = age[i]
<1>1. /\ age \in Seq(0..Horizon) /\ 0 \in 0..Horizon /\ Len(age) \in Nat
      /\ Rows = 1..Len(age)
  BY AgeIs DEF TypeOK
<1>2. /\ Append(age, 0) \in Seq(0..Horizon) /\ Len(Append(age, 0)) = Len(age) + 1
      /\ Append(age, 0)[Len(age) + 1] = 0
      /\ \A i \in 1..Len(age) : Append(age, 0)[i] = age[i]
      /\ DOMAIN Append(age, 0) = 1..(Len(age) + 1)
  BY <1>1
<1> QED
  BY <1>1, <1>2 DEF Rows

-----------------------------------------------------------------------------
(* Type correctness. *)

(* A chat without summaries is of the types. *)
LEMMA TypeInit == Init => TypeOK
<1> SUFFICES ASSUME Init PROVE TypeOK
  OBVIOUS
<1>1. age \in Seq(0..Horizon) /\ ttl \in 0..Day /\ faults \in 0..MaxFaults
  BY DnaAssumption DEF Init, Horizon
<1> QED
  BY <1>1 DEF Init, TypeOK, Idle, Absent, Rows

(* Runs and the store of summaries keep their types when the rows only grow. *)
LEMMA TypeRuns ==
  ASSUME TypeOK, NEW r \in Runs, NEW to,
         run' = [run EXCEPT ![r] = to],
         to \in {Idle} \cup [at : {"work"}] \cup [at : {"stored"}, row : Rows'],
         age' = age \/ age' = Append(age, 0),
         points' \subseteq Rows',
         faults' \in 0..MaxFaults, UNCHANGED <<dna, ttl, reply>>
  PROVE  TypeOK'
<1>1. Rows \subseteq Rows' /\ age' \in Seq(0..Horizon)
  BY AppendAge DEF Rows, TypeOK
<1>2. run' \in [Runs -> {Idle} \cup [at : {"work"}] \cup [at : {"stored"}, row : Rows']]
  <2>1. run \in [Runs -> {Idle} \cup [at : {"work"}] \cup [at : {"stored"}, row : Rows']]
    BY <1>1 DEF TypeOK
  <2> QED
    BY <2>1
<1>3. dna \in {Absent} \cup [is : {"text", "blank"}, of : SUBSET Rows']
  BY <1>1 DEF TypeOK
<1>4. reply \in {Idle} \cup [at : {"ask", "set"}, of : SUBSET Rows', is : {"text", "blank"},
                             took : 0..LongestCall]
  BY <1>1 DEF TypeOK
<1> QED
  BY <1>1, <1>2, <1>3, <1>4 DEF TypeOK

(* The steps of a run. *)
RunStep(r) == \/ Start(r) \/ NoSummary(r) \/ InsertSummary(r) \/ UpsertSummary(r)
              \/ InsertLost(r) \/ UpsertFails(r)

(* Failures are counted up to their bound. *)
LEMMA FaultIs == ASSUME TypeOK, Fault PROVE faults' \in 0..MaxFaults
BY DnaAssumption DEF Fault, TypeOK

(* A run keeps the types. *)
LEMMA TypeRunStep ==
  ASSUME TypeOK, NEW r \in Runs, RunStep(r)
  PROVE  TypeOK'
<1> DEFINE States == {Idle} \cup [at : {"work"}] \cup [at : {"stored"}, row : Rows']
<1>0. points \subseteq Rows /\ faults \in 0..MaxFaults
  BY DEF TypeOK
<1>1. CASE Start(r)
  <2>1. [at |-> "work"] \in States /\ points' \subseteq Rows'
    BY <1>0, <1>1 DEF Start, Rows
  <2> QED
    BY <1>0, <1>1, <2>1, TypeRuns DEF Start
<1>2. CASE NoSummary(r)
  <2>1. Idle \in States /\ points' \subseteq Rows'
    BY <1>0, <1>2 DEF NoSummary, Rows
  <2> QED
    BY <1>0, <1>2, <2>1, TypeRuns DEF NoSummary
<1>3. CASE InsertSummary(r)
  <2>1. Rows' = Rows \cup {Len(age) + 1}
    BY <1>3, AppendAge DEF InsertSummary
  <2>2. [at |-> "stored", row |-> Len(age) + 1] \in States /\ points' \subseteq Rows'
    BY <1>0, <1>3, <2>1 DEF InsertSummary
  <2> QED
    BY <1>0, <1>3, <2>2, TypeRuns DEF InsertSummary
<1>4. CASE UpsertSummary(r) \/ UpsertFails(r)
  <2>1. run[r].row \in Rows /\ Rows' = Rows
    BY <1>4, RunIs DEF UpsertSummary, UpsertFails, Rows
  <2>2. Idle \in States /\ points' \subseteq Rows' /\ faults' \in 0..MaxFaults
    BY <1>0, <1>4, <2>1, FaultIs DEF UpsertSummary, UpsertFails
  <2> QED
    BY <1>4, <2>2, TypeRuns DEF UpsertSummary, UpsertFails
<1>5. CASE InsertLost(r)
  <2>1. Rows' = Rows \cup {Len(age) + 1}
    BY <1>5, AppendAge DEF InsertLost
  <2>2. Idle \in States /\ points' \subseteq Rows' /\ faults' \in 0..MaxFaults
    BY <1>0, <1>5, <2>1, FaultIs DEF InsertLost
  <2> QED
    BY <1>5, <2>2, TypeRuns DEF InsertLost
<1> QED
  BY <1>1, <1>2, <1>3, <1>4, <1>5 DEF RunStep

(* The steps of the chat's worker. *)
ReplyStep ==
  \/ ReadSummaries \/ SynthesisFails \/ SetDna \/ SetFails
  \/ \E is \in {"text", "blank"} : Synthesised(is)

(* The worker keeps the types. *)
LEMMA TypeReply ==
  ASSUME TypeOK, ReplyStep
  PROVE  TypeOK'
<1>1. UNCHANGED <<run, age, points>> /\ faults' \in 0..MaxFaults
  BY FaultIs DEF ReplyStep, ReadSummaries, SynthesisFails, SetDna, SetFails, Synthesised, TypeOK
<1>2. reply' \in {Idle} \cup [at : {"ask", "set"}, of : SUBSET Rows, is : {"text", "blank"},
                              took : 0..LongestCall]
  <2>1. CASE ReadSummaries
    <3>1. PICK S \in SUBSET Rows :
            reply' = [at |-> IF S = {} THEN "set" ELSE "ask", of |-> S, is |-> "text", took |-> 0]
      BY <2>1 DEF ReadSummaries, Newest
    <3>2. 0 \in 0..LongestCall
      BY AgeIs
    <3> QED
      BY <3>1, <3>2
  <2>2. CASE \E is \in {"text", "blank"} : Synthesised(is)
    <3>1. PICK is \in {"text", "blank"} : Synthesised(is)
      BY <2>2
    <3>2. reply # Idle
      BY <3>1 DEF Synthesised, Idle
    <3> QED
      BY <3>1, <3>2, ReplyIs DEF Synthesised
  <2>3. CASE SynthesisFails \/ SetDna \/ SetFails
    BY <2>3 DEF SynthesisFails, SetDna, SetFails
  <2> QED
    BY <2>1, <2>2, <2>3 DEF ReplyStep
<1>3. /\ dna' \in {Absent} \cup [is : {"text", "blank"}, of : SUBSET Rows]
      /\ ttl' \in 0..Day /\ (dna' = Absent <=> ttl' = 0)
  <2>1. CASE SetDna
    <3>1. reply # Idle /\ dna' = [is |-> reply.is, of |-> reply.of] /\ ttl' = Day
      BY <2>1 DEF SetDna, Cached, Idle
    <3>2. dna' \in [is : {"text", "blank"}, of : SUBSET Rows]
      BY <3>1, ReplyIs
    <3>3. dna' # Absent
      BY <3>2 DEF Absent
    <3> QED
      BY <3>1, <3>2, <3>3, DnaAssumption
  <2>2. CASE ~SetDna
    <3>1. UNCHANGED <<dna, ttl>>
      BY <2>2 DEF ReplyStep, ReadSummaries, SynthesisFails, SetFails, Synthesised
    <3> QED
      BY <3>1 DEF TypeOK
  <2> QED
    BY <2>1, <2>2
<1> QED
  BY <1>1, <1>2, <1>3 DEF TypeOK, Rows

(* An age grows by one at most. *)
LEMMA OlderIs == \A a \in 0..Horizon : Older(a) \in 0..Horizon /\ Older(a) <= a + 1
BY DnaAssumption DEF Older, Horizon

(* Time passes and the types stay; the rows are the same. *)
LEMMA TypeTick ==
  ASSUME TypeOK, Tick
  PROVE  TypeOK' /\ Rows' = Rows
<1>1. /\ age' = [i \in 1..Len(age) |-> Older(age[i])] /\ UNCHANGED <<run, points, faults>>
      /\ Len(age) \in Nat /\ \A i \in 1..Len(age) : Older(age[i]) \in 0..Horizon
  BY AgeIs, OlderIs DEF Tick
<1>2. age' \in Seq(0..Horizon) /\ Rows' = Rows
  BY <1>1, AgeIs DEF Rows
<1>3. reply' \in {Idle} \cup [at : {"ask", "set"}, of : SUBSET Rows, is : {"text", "blank"},
                              took : 0..LongestCall]
  <2>1. CASE reply = Idle
    BY <2>1 DEF Tick
  <2>2. CASE reply # Idle
    <3>1. /\ reply' = [reply EXCEPT !.took = reply.took + 1] /\ reply.took < LongestCall
      BY <2>2 DEF Tick
    <3>2. reply.took + 1 \in 0..LongestCall
      BY <2>2, <3>1, ReplyIs, AgeIs
    <3> QED
      BY <2>2, <3>1, <3>2, ReplyIs
  <2> QED
    BY <2>1, <2>2
<1>4. /\ dna' \in {Absent} \cup [is : {"text", "blank"}, of : SUBSET Rows]
      /\ ttl' \in 0..Day /\ (dna' = Absent <=> ttl' = 0)
  BY AgeIs DEF Tick, TypeOK
<1> QED
  BY <1>1, <1>2, <1>3, <1>4 DEF TypeOK

(* Every step keeps the types. *)
LEMMA TypeStep == TypeOK /\ [Next]_vars => TypeOK'
<1> SUFFICES ASSUME TypeOK, [Next]_vars PROVE TypeOK'
  OBVIOUS
<1>1. ASSUME NEW r \in Runs, RunStep(r) PROVE TypeOK'
  BY <1>1, TypeRunStep
<1>2. CASE ReplyStep
  BY <1>2, TypeReply
<1>3. CASE Tick
  BY <1>3, TypeTick
<1>4. CASE Crash
  <2>1. faults' \in 0..MaxFaults /\ UNCHANGED <<age, points, dna, ttl>>
    BY <1>4, FaultIs DEF Crash
  <2> QED
    BY <1>4, <2>1 DEF Crash, TypeOK, Rows
<1>5. CASE UNCHANGED vars
  BY <1>5 DEF vars, TypeOK, Rows
<1> QED
  BY <1>1, <1>2, <1>3, <1>4, <1>5 DEF Next, RunStep, ReplyStep

-----------------------------------------------------------------------------
(* One synthesis at a time. *)

(* Every step keeps it, and the cached text changes only when it goes. *)
LEMMA AloneStep ==
  ASSUME TypeOK, Alone, [Next]_vars
  PROVE  Alone' /\ (dna # Absent /\ dna' # dna => dna' = Absent)
<1>1. CASE ReplyStep
  <2>1. CASE ReadSummaries
    BY <2>1 DEF ReadSummaries, Misses, Alone
  <2>2. CASE SetDna
    BY <2>2 DEF SetDna, Alone, Idle
  <2>3. CASE SynthesisFails \/ SetFails \/ \E is \in {"text", "blank"} : Synthesised(is)
    BY <2>3 DEF SynthesisFails, SetFails, Synthesised, Alone, Idle
  <2> QED
    BY <1>1, <2>1, <2>2, <2>3 DEF ReplyStep
<1>2. CASE Tick
  BY <1>2 DEF Tick, Alone
<1>3. CASE Crash \/ UNCHANGED vars
  BY <1>3 DEF Crash, vars, Alone
<1>4. ASSUME NEW r \in Runs, RunStep(r) PROVE UNCHANGED <<reply, dna>>
  BY <1>4 DEF RunStep, Start, NoSummary, InsertSummary, UpsertSummary, InsertLost, UpsertFails
<1>5. CASE \E r \in Runs : RunStep(r)
  BY <1>4, <1>5 DEF Alone
<1> QED
  BY <1>1, <1>2, <1>3, <1>5 DEF Next, RunStep, ReplyStep

-----------------------------------------------------------------------------
(* The row of a run that waits for its point. *)

(* A run's step: where the others are does not change. *)
LEMMA OneRunRun ==
  ASSUME TypeOK, OneRun, NEW r \in Runs, RunStep(r)
  PROVE  OneRun'
<1>1. /\ run \in [Runs -> {Idle} \cup [at : {"work"}] \cup [at : {"stored"}, row : Rows]]
      /\ points \subseteq Rows
  BY DEF TypeOK
<1>2. CASE Start(r) \/ NoSummary(r) \/ InsertLost(r)
  <2>1. points' = points /\ \E to : run' = [run EXCEPT ![r] = to] /\ to.at # "stored"
    <3>1. [at |-> "work"].at # "stored" /\ Idle.at # "stored"
      BY DEF Idle
    <3> QED
      BY <1>2, <3>1 DEF Start, NoSummary, InsertLost
  <2>2. PICK to : run' = [run EXCEPT ![r] = to] /\ to.at # "stored"
    BY <2>1
  <2>3. Stored' \subseteq Stored /\ \A q \in Stored' : run'[q] = run[q]
    BY <1>1, <2>2 DEF Stored
  <2> QED
    BY <2>1, <2>3 DEF OneRun
<1>3. CASE InsertSummary(r)
  <2> DEFINE new == Len(age) + 1
             to == [at |-> "stored", row |-> new]
  <2>1. points' = points /\ run' = [run EXCEPT ![r] = to] /\ new \notin Rows
    BY <1>3, AppendAge DEF InsertSummary
  <2>2. to.row = new
    OBVIOUS
  <2> HIDE DEF to, new
  <2>3. run'[r].row = new /\ \A q \in Runs \ {r} : run'[q] = run[q]
    BY <1>1, <2>1, <2>2
  <2>4. Stored' \subseteq Stored \cup {r}
    BY <2>3 DEF Stored
  <2>5. \A q \in Stored : run[q].row \in Rows
    BY RunIs DEF Stored
  <2>6. new \notin points
    BY <1>1, <2>1
  <2> QED
    BY <2>1, <2>3, <2>4, <2>5, <2>6 DEF OneRun, Stored
<1>4. CASE UpsertSummary(r) \/ UpsertFails(r)
  <2>1. /\ run' = [run EXCEPT ![r] = Idle] /\ r \in Stored
        /\ points' \subseteq points \cup {run[r].row}
    BY <1>4 DEF UpsertSummary, UpsertFails, Stored
  <2>2. Stored' = Stored \ {r} /\ \A q \in Stored' : run'[q] = run[q]
    BY <1>1, <2>1 DEF Stored, Idle
  <2> QED
    BY <2>1, <2>2 DEF OneRun
<1> QED
  BY <1>2, <1>3, <1>4 DEF RunStep

(* Every step keeps it. *)
LEMMA OneRunStep ==
  ASSUME TypeOK, OneRun, [Next]_vars
  PROVE  OneRun'
<1>1. CASE \E r \in Runs : RunStep(r)
  BY <1>1, OneRunRun
<1>2. CASE Crash
  BY <1>2 DEF Crash, OneRun, Stored, Idle
<1>3. CASE ReplyStep \/ Tick \/ UNCHANGED vars
  <2>1. UNCHANGED <<run, points>>
    BY <1>3 DEF ReplyStep, ReadSummaries, SynthesisFails, SetDna, SetFails, Synthesised, Tick, vars
  <2> QED
    BY <2>1 DEF OneRun, Stored
<1> QED
  BY <1>1, <1>2, <1>3 DEF Next, RunStep, ReplyStep

(* Without faults a row lacks its point only while a run holds it. *)
LEMMA BothInit == Init => BothStores
BY DEF Init, BothStores, Idle, Rows

(* Every step keeps that. *)
LEMMA BothStep ==
  ASSUME TypeOK, OneRun, BothStores, [Next]_vars
  PROVE  BothStores'
<1> SUFFICES ASSUME faults' = 0 PROVE BothStores'
  BY DEF BothStores
<1> DEFINE Waits == {run[r].row : r \in Stored}
<1>0. ~Fault
  BY DEF Fault, TypeOK
<1>1. faults = 0
  BY <1>0 DEF Next, Start, NoSummary, InsertSummary, UpsertSummary, InsertLost, UpsertFails,
              ReadSummaries, SynthesisFails, SetDna, SetFails, Synthesised, Tick, Crash, vars
<1>2. Rows \ points = Waits
  BY <1>1 DEF BothStores, Stored
<1>3. Rows' \ points' = Waits' => BothStores'
  BY DEF BothStores, Stored
<1>4. run \in [Runs -> {Idle} \cup [at : {"work"}] \cup [at : {"stored"}, row : Rows]]
      /\ points \subseteq Rows
  BY DEF TypeOK
<1>5. ASSUME NEW r \in Runs, Start(r) \/ NoSummary(r) PROVE Rows' \ points' = Waits'
  <2>1. PICK to \in {Idle, [at |-> "work"]} : run' = [run EXCEPT ![r] = to]
    BY <1>5 DEF Start, NoSummary
  <2>2. to.at # "stored" /\ r \notin Stored
    BY <1>5 DEF Start, NoSummary, Idle, Stored
  <2>3. Stored' = Stored /\ \A q \in Stored : run'[q] = run[q]
    BY <1>4, <2>1, <2>2 DEF Stored
  <2>4. Rows' = Rows /\ points' = points
    BY <1>5 DEF Start, NoSummary, Rows
  <2> QED
    BY <1>2, <2>3, <2>4
<1>6. ASSUME NEW r \in Runs, InsertSummary(r) PROVE Rows' \ points' = Waits'
  <2> DEFINE new == Len(age) + 1
             to == [at |-> "stored", row |-> new]
  <2>1. /\ points' = points /\ run' = [run EXCEPT ![r] = to] /\ r \notin Stored
        /\ new \notin Rows /\ Rows' = Rows \cup {new}
    BY <1>6, AppendAge DEF InsertSummary, Stored
  <2>2. to.row = new /\ to.at = "stored"
    OBVIOUS
  <2> HIDE DEF to, new
  <2>3. run'[r] = to /\ \A q \in Runs \ {r} : run'[q] = run[q]
    BY <1>4, <2>1
  <2>4. Stored' = Stored \cup {r}
    BY <2>2, <2>3 DEF Stored
  <2>5. Waits' = Waits \cup {new}
    BY <2>1, <2>2, <2>3, <2>4 DEF Stored
  <2> QED
    BY <1>2, <1>4, <2>1, <2>5
<1>7. ASSUME NEW r \in Runs, UpsertSummary(r) PROVE Rows' \ points' = Waits'
  <2>1. /\ run' = [run EXCEPT ![r] = Idle] /\ r \in Stored /\ Rows' = Rows
        /\ points' = points \cup {run[r].row}
    BY <1>7 DEF UpsertSummary, Stored, Rows
  <2>2. Stored' = Stored \ {r} /\ \A q \in Stored' : run'[q] = run[q]
    BY <1>4, <2>1 DEF Stored, Idle
  <2>3. \A q \in Stored \ {r} : run[q].row # run[r].row
    BY <2>1 DEF OneRun
  <2>4. Waits' = Waits \ {run[r].row}
    BY <2>1, <2>2, <2>3
  <2> QED
    BY <1>2, <2>1, <2>4
<1>8. CASE ReplyStep \/ Tick \/ UNCHANGED vars
  <2>1. UNCHANGED <<run, points>>
    BY <1>8 DEF ReplyStep, ReadSummaries, SynthesisFails, SetDna, SetFails, Synthesised, Tick, vars
  <2>2. Rows' = Rows
    BY <1>8, TypeTick DEF ReplyStep, ReadSummaries, SynthesisFails, SetDna, SetFails, Synthesised,
                          vars, Rows
  <2>3. Rows' \ points' = Waits'
    BY <1>2, <2>1, <2>2 DEF Stored
  <2> QED
    BY <1>3, <2>3
<1>9. ~Crash /\ \A r \in Runs : ~InsertLost(r) /\ ~UpsertFails(r)
  BY <1>0 DEF Crash, InsertLost, UpsertFails
<1> HIDE DEF Waits
<1>10. CASE \E r \in Runs : RunStep(r)
  BY <1>3, <1>5, <1>6, <1>7, <1>9, <1>10 DEF RunStep
<1>11. (\E r \in Runs : RunStep(r)) \/ ReplyStep \/ Tick \/ UNCHANGED vars
  BY <1>9 DEF Next, RunStep, ReplyStep
<1> QED
  BY <1>3, <1>8, <1>10, <1>11

-----------------------------------------------------------------------------
(* The age of the picture. *)

(* A set of rows with at least k in a part of it. *)
LEMMA MoreNewer ==
  ASSUME NEW n \in Nat, NEW B, B \subseteq 1..n, NEW A, A \subseteq B, NEW k \in Nat,
         Cardinality(A) >= k
  PROVE  Cardinality(B) >= k
<1> DEFINE All == 1..n
<1>1. IsFiniteSet(All)
  BY FS_Interval
<1>2. IsFiniteSet(B)
  BY <1>1, FS_Subset
<1>3. IsFiniteSet(A) /\ Cardinality(A) <= Cardinality(B)
  BY <1>2, FS_Subset
<1>4. Cardinality(A) \in Nat /\ Cardinality(B) \in Nat
  BY <1>2, <1>3, FS_CardinalityType
<1> QED
  BY <1>3, <1>4

(* A row that is covered stays so while those newer than it stay newer. *)
LEMMA CoveredStays ==
  ASSUME Len(age') \in Nat, Rows' = 1..Len(age'), Lookback \in Nat,
         NEW i, NEW S, Covered(i, S), NewerThan(i) \subseteq NewerThan(i)'
  PROVE  i \in S \/ Cardinality(NewerThan(i)') >= Lookback
<1>1. NewerThan(i)' \subseteq 1..Len(age')
  BY DEF NewerThan
<1> DEFINE A == NewerThan(i)
           B == NewerThan(i)'
<1>2. A \subseteq B /\ B \subseteq 1..Len(age')
  BY <1>1
<1>3. i \in S \/ Cardinality(A) >= Lookback
  BY DEF Covered
<1> HIDE DEF A, B
<1>4. i \in S \/ Cardinality(B) >= Lookback
  BY <1>2, <1>3, MoreNewer
<1> QED
  BY <1>4 DEF B

(* The newest Lookback summaries cover every row. *)
LEMMA NewestCovers ==
  ASSUME TypeOK, NEW S \in Newest, NEW i \in Rows
  PROVE  Covered(i, S)
<1>1. /\ S \subseteq Rows /\ Cardinality(S) = IF Len(age) < Lookback THEN Len(age) ELSE Lookback
      /\ \A k \in S, j \in Rows \ S : age[k] <= age[j]
  BY DEF Newest
<1>2. Rows = 1..Len(age) /\ Len(age) \in Nat /\ Lookback \in Nat /\ \A k \in Rows : age[k] \in Nat
  BY AgeIs
<1>3. IsFiniteSet(Rows) /\ Cardinality(Rows) = Len(age)
  <2>1. 1 \in Int /\ Len(age) \in Int
    BY <1>2
  <2>2. /\ IsFiniteSet(1..Len(age))
        /\ Cardinality(1..Len(age)) = IF 1 > Len(age) THEN 0 ELSE Len(age) - 1 + 1
    BY <2>1, FS_Interval
  <2> QED
    BY <1>2, <2>2
<1>4. CASE i \in S
  BY <1>4 DEF Covered
<1>5. CASE i \notin S
  <2>1. Cardinality(S) # Cardinality(Rows)
    BY <1>1, <1>3, <1>5, FS_Subset
  <2>2. Cardinality(S) = Lookback
    BY <1>1, <1>3, <2>1
  <2>3. S \subseteq NewerThan(i)
    BY <1>1, <1>2, <1>5 DEF NewerThan
  <2> DEFINE B == NewerThan(i)
  <2>4. B \subseteq 1..Len(age) /\ Cardinality(S) >= Lookback
    BY <1>2, <2>2 DEF NewerThan
  <2>5. S \subseteq B
    BY <2>3
  <2> HIDE DEF B
  <2>6. Cardinality(B) >= Lookback
    BY <1>2, <2>4, <2>5, MoreNewer
  <2> QED
    BY <2>6 DEF Covered, B
<1> QED
  BY <1>4, <1>5

(* Time passes for all rows alike. *)
LEMMA PictureTick ==
  ASSUME TypeOK, Picture, Tick
  PROVE  Picture'
<1>1. Rows' = Rows /\ \A i \in Rows : age'[i] = Older(age[i])
  BY TypeTick DEF Tick
<1>2. /\ Rows = 1..Len(age) /\ Len(age) \in Nat /\ \A i \in Rows : age[i] \in 0..Horizon
      /\ Horizon \in Nat /\ Day \in Nat /\ LongestCall \in Nat /\ Lookback \in Nat /\ ttl \in 0..Day
  BY AgeIs
<1>3. Len(age') = Len(age)
  BY <1>2 DEF Tick
<1>4. ASSUME NEW i \in Rows PROVE NewerThan(i) \subseteq NewerThan(i)'
  <2>1. ASSUME NEW j \in Rows PROVE /\ age[j] < age[i] => Older(age[j]) <= Older(age[i]) /\ j # i
                                    /\ age[j] = age[i] => Older(age[j]) = Older(age[i])
    BY <1>2 DEF Older
  <2>2. ASSUME NEW j \in Rows PROVE Older(age[j]) \in Nat
    BY <1>2 DEF Older
  <2> QED
    BY <1>1, <2>1, <2>2 DEF NewerThan
<1>5. ASSUME NEW i \in Rows, NEW S, Covered(i, S) PROVE i \in S \/ Cardinality(NewerThan(i)') >= Lookback
  BY <1>1, <1>2, <1>3, <1>4, <1>5, CoveredStays
<1>6. \A i \in Rows : age'[i] \in Nat /\ age'[i] <= age[i] + 1
  BY <1>1, <1>2 DEF Older
<1>7. ASSUME reply' # Idle, NEW i \in Rows
      PROVE  age'[i] <= reply'.took \/ i \in reply'.of \/ Cardinality(NewerThan(i)') >= Lookback
  <2>1. reply # Idle /\ reply' = [reply EXCEPT !.took = reply.took + 1]
    BY <1>7 DEF Tick
  <2>2. reply'.took = reply.took + 1 /\ reply'.of = reply.of /\ reply.took \in Nat
    BY <2>1, ReplyIs, DnaAssumption
  <2>3. age[i] <= reply.took \/ Covered(i, reply.of)
    BY <2>1 DEF Picture
  <2> QED
    BY <1>2, <1>5, <1>6, <2>2, <2>3
<1>8. ASSUME dna' # Absent, NEW i \in Rows
      PROVE  age'[i] + ttl' <= Day + LongestCall \/ i \in dna'.of \/ Cardinality(NewerThan(i)') >= Lookback
  <2>1. dna # Absent /\ dna' = dna /\ ttl # 0 /\ ttl' = ttl - 1
    BY <1>2, <1>8 DEF Tick, TypeOK
  <2>2. age[i] + ttl <= Day + LongestCall \/ Covered(i, dna.of)
    BY <2>1 DEF Picture
  <2> QED
    BY <1>2, <1>5, <1>6, <2>1, <2>2
<1> QED
  BY <1>1, <1>7, <1>8 DEF Picture, Covered

(* A new summary is newer than the others, and a picture that misses it is new.  *)
LEMMA PictureInsert ==
  ASSUME TypeOK, Picture, age' = Append(age, 0), UNCHANGED <<dna, ttl, reply>>
  PROVE  Picture'
<1> DEFINE new == Len(age) + 1
<1>1. /\ Len(age') = new /\ Rows' = Rows \cup {new} /\ new \notin Rows
      /\ age'[new] = 0 /\ \A i \in Rows : age'[i] = age[i]
  BY AppendAge
<1>2. /\ Rows = 1..Len(age) /\ Len(age) \in Nat /\ \A i \in Rows : age[i] \in Nat
      /\ Day \in Nat /\ LongestCall \in Nat /\ Lookback \in Nat /\ ttl \in 0..Day
  BY AgeIs
<1>3. Len(age') \in Nat /\ Rows' = 1..Len(age')
  BY <1>1, <1>2
<1> HIDE DEF new
<1>4. ASSUME NEW i \in Rows PROVE NewerThan(i) \subseteq NewerThan(i)'
  BY <1>1 DEF NewerThan
<1>5. ASSUME NEW i \in Rows, NEW S, Covered(i, S) PROVE i \in S \/ Cardinality(NewerThan(i)') >= Lookback
  BY <1>2, <1>3, <1>4, <1>5, CoveredStays
<1>6. ASSUME reply # Idle, NEW i \in Rows'
      PROVE  age'[i] <= reply.took \/ i \in reply.of \/ Cardinality(NewerThan(i)') >= Lookback
  <2>1. reply.took \in Nat
    BY <1>6, ReplyIs, DnaAssumption
  <2> QED
    BY <1>1, <1>2, <1>5, <1>6, <2>1 DEF Picture
<1>7. ASSUME dna # Absent, NEW i \in Rows'
      PROVE  age'[i] + ttl <= Day + LongestCall \/ i \in dna.of \/ Cardinality(NewerThan(i)') >= Lookback
  BY <1>1, <1>2, <1>5, <1>7 DEF Picture
<1> QED
  BY <1>6, <1>7 DEF Picture, Covered

(* The worker: a picture taken misses nothing, and is cached as it was taken. *)
LEMMA PictureReply ==
  ASSUME TypeOK, Picture, ReplyStep
  PROVE  Picture'
<1>1. age' = age
  BY DEF ReplyStep, ReadSummaries, SynthesisFails, SetDna, SetFails, Synthesised
<1>2. Rows' = Rows /\ \A i : NewerThan(i)' = NewerThan(i)
  BY <1>1 DEF Rows, NewerThan
<1>3. \A i, S : Covered(i, S)' <=> Covered(i, S)
  BY <1>2 DEF Covered
<1>4. \A i \in Rows : age[i] \in Nat
  BY AgeIs
<1>5. CASE ReadSummaries
  <2>1. PICK S \in Newest :
          reply' = [at |-> IF S = {} THEN "set" ELSE "ask", of |-> S, is |-> "text", took |-> 0]
    BY <1>5 DEF ReadSummaries
  <2>2. reply'.of = S /\ UNCHANGED <<dna, ttl>>
    BY <1>5, <2>1 DEF ReadSummaries
  <2>3. \A i \in Rows : Covered(i, S)
    BY NewestCovers
  <2> QED
    BY <1>1, <1>2, <2>2, <2>3 DEF Picture, Covered
<1>6. CASE \E is \in {"text", "blank"} : Synthesised(is)
  <2>1. PICK is \in {"text", "blank"} : Synthesised(is)
    BY <1>6
  <2>2. reply # Idle /\ UNCHANGED <<dna, ttl>>
    BY <2>1 DEF Synthesised, Idle
  <2>3. reply'.of = reply.of /\ reply'.took = reply.took
    BY <2>1, <2>2, ReplyIs DEF Synthesised
  <2> QED
    BY <1>1, <1>2, <2>2, <2>3 DEF Picture, Covered
<1>7. CASE SetDna
  <2>1. reply # Idle /\ dna' = [is |-> reply.is, of |-> reply.of] /\ ttl' = Day /\ reply' = Idle
    BY <1>7 DEF SetDna, Cached, Idle
  <2>2. dna'.of = reply.of /\ reply.took \in 0..LongestCall
    BY <2>1, ReplyIs
  <2>3. ASSUME NEW i \in Rows PROVE age[i] + Day <= Day + LongestCall \/ Covered(i, reply.of)
    <3>1. age[i] <= reply.took \/ Covered(i, reply.of)
      BY <2>1 DEF Picture
    <3> QED
      BY <1>4, <2>2, <3>1, DnaAssumption
  <2> QED
    BY <1>1, <1>2, <2>1, <2>2, <2>3 DEF Picture, Covered
<1>8. CASE SynthesisFails \/ SetFails
  <2>1. reply' = Idle /\ UNCHANGED <<dna, ttl>>
    BY <1>8 DEF SynthesisFails, SetFails
  <2> QED
    BY <1>1, <1>2, <2>1 DEF Picture, Covered
<1> QED
  BY <1>5, <1>6, <1>7, <1>8 DEF ReplyStep

(* Every step keeps what a picture may miss. *)
LEMMA PictureStep ==
  ASSUME TypeOK, Picture, [Next]_vars
  PROVE  Picture'
<1>1. CASE ReplyStep
  BY <1>1, PictureReply
<1>2. CASE Tick
  BY <1>2, PictureTick
<1>3. ASSUME NEW r \in Runs, InsertSummary(r) \/ InsertLost(r) PROVE Picture'
  BY <1>3, PictureInsert DEF InsertSummary, InsertLost
<1>4. ASSUME UNCHANGED <<age, dna, ttl>>, reply' \in {reply, Idle} PROVE Picture'
  BY <1>4 DEF Picture, Covered, NewerThan, Rows
<1>5. ASSUME NEW r \in Runs, Start(r) \/ NoSummary(r) \/ UpsertSummary(r) \/ UpsertFails(r)
      PROVE  Picture'
  BY <1>4, <1>5 DEF Start, NoSummary, UpsertSummary, UpsertFails
<1>6. CASE Crash
  BY <1>4, <1>6 DEF Crash
<1>7. CASE UNCHANGED vars
  BY <1>4, <1>7 DEF vars
<1> QED
  BY <1>1, <1>2, <1>3, <1>5, <1>6, <1>7 DEF Next, ReplyStep

-----------------------------------------------------------------------------
(* The invariant and what follows. *)

(* A chat without summaries has the invariant. *)
LEMMA DInit == Init => DInv
<1> SUFFICES ASSUME Init PROVE DInv
  OBVIOUS
<1>1. TypeOK
  BY TypeInit
<1> QED
  BY <1>1 DEF Init, DInv, Alone, Picture, OneRun, Stored, Idle

(* Every step keeps the invariant. *)
LEMMA DStep == DInv /\ [Next]_vars => DInv'
BY TypeStep, AloneStep, PictureStep, OneRunStep DEF DInv

(* The invariant holds in every reachable state. *)
LEMMA DHolds == Spec => []DInv
BY DInit, DStep, PTL DEF Spec

(* Runs, rows, points, the cached DNA and a reply keep their types; a cached    *)
(* text has a TTL, and the rows of runs, points and pictures exist             *)
(* (summarize.rs:89-124, chat_dna.rs:12-25).                                   *)
THEOREM TypeCorrect == Spec => []TypeOK
BY DHolds, PTL DEF DInv

(* The cached DNA misses no summary older than a day and the longest synthesis, *)
(* unless Lookback others are as new, however runs, replies, restarts and the  *)
(* expiry of the key interleave (chat_dna.rs:6-25).                            *)
THEOREM FreshEnoughHolds == Spec => []FreshEnough
<1>1. DInv => FreshEnough
  <2> SUFFICES ASSUME DInv, dna # Absent, NEW i \in Rows
               PROVE  age[i] <= Day + LongestCall \/ Covered(i, dna.of)
    BY DEF FreshEnough, Covered
  <2>1. age[i] + ttl <= Day + LongestCall \/ Covered(i, dna.of)
    BY DEF DInv, Picture
  <2>2. age[i] \in Nat /\ ttl \in Nat /\ Day \in Nat /\ LongestCall \in Nat
    BY AgeIs DEF DInv
  <2> QED
    BY <2>1, <2>2
<1> QED
  BY <1>1, DHolds, PTL

(* Without failures a summary is in SQLite and not in Qdrant only while the run *)
(* that wrote it is between the two (summarize.rs:89-124).                     *)
THEOREM BothStoresHolds == Spec => []BothStores
<1>1. DInv /\ BothStores /\ [Next]_vars => BothStores'
  BY BothStep DEF DInv
<1> QED
  BY <1>1, BothInit, DHolds, PTL DEF Spec

(* A cached DNA is never overwritten: it goes with its TTL (chat_dna.rs:12-19). *)
THEOREM NeverOverwrittenHolds == Spec => NeverOverwritten
<1>1. DInv /\ [Next]_vars => (dna # Absent /\ dna' # dna => dna' = Absent)
  BY AloneStep DEF DInv
<1>2. DInv /\ [Next]_vars => [dna # Absent /\ dna' # dna => dna' = Absent]_vars
  BY <1>1
<1> QED
  BY <1>2, DHolds, PTL DEF Spec, NeverOverwritten
=============================================================================
