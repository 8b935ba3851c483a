--------------------------- MODULE LlmCallProofs ---------------------------
(***************************************************************************)
(* How many requests a question to the model service makes before it is    *)
(* given up, and how long it may take, for every list of models, every     *)
(* number of retries and every timeout.                                    *)
(***************************************************************************)
EXTENDS LlmCall, TLAPS

(* A pause is only entered when an attempt is left. *)
RetryLeft == pc = "wait" => attempt < Retries

(* The requests of the models before this one and of this one so far. *)
Counted ==
  passing =>
    /\ pc = "send" => requests = (model - 1) * Attempts + attempt
    /\ pc = "wait" => requests = (model - 1) * Attempts + attempt + 1
    /\ pc = "failed" => requests = ListLength * Attempts

(* The time the attempts and pauses of these requests may have taken. *)
Timed ==
  /\ pc = "send" =>
       elapsed <= (model - 1) * PerModel + attempt * Timeout + Paused(attempt)
  /\ pc = "wait" =>
       elapsed <= (model - 1) * PerModel + (attempt + 1) * Timeout + Paused(attempt)
  /\ Done => elapsed <= model * PerModel

IInv == TypeOK /\ RetryLeft

-----------------------------------------------------------------------------
(* Multiplication of naturals: one more group, and monotony. *)
LEMMA OneMore ==
  ASSUME NEW k \in Nat, NEW a \in Nat
  PROVE  (k + 1) * a = k * a + a /\ k * a \in Nat
OBVIOUS

(* A product grows with its left factor. *)
LEMMA TimesMono ==
  ASSUME NEW i \in Nat, NEW j \in Nat, NEW a \in Nat, i <= j
  PROVE  i * a <= j * a
<1>1. PICK d \in Nat : j = i + d
  <2>1. j - i \in Nat /\ j = i + (j - i)
    OBVIOUS
  <2> QED
    BY <2>1
<1>2. j * a = i * a + d * a
  BY <1>1
<1>3. d * a \in Nat /\ i * a \in Nat
  OBVIOUS
<1> QED
  BY <1>2, <1>3

(* The pause after attempt n is what Paused grows by, and Paused never shrinks. *)
LEMMA PausedStep ==
  ASSUME NEW n \in Nat
  PROVE  Paused(n) \in Nat /\ Pause(n) \in Nat /\ Paused(n + 1) = Paused(n) + Pause(n)
<1>1. CASE n \in {0, 1, 2, 3}
  BY <1>1 DEF Paused, Pause
<1>2. CASE n > 3
  BY <1>2 DEF Paused, Pause
<1> QED
  BY <1>1, <1>2

(* More retries never pause for less. *)
LEMMA PausedMono ==
  ASSUME NEW n \in Nat, NEW m \in Nat, n <= m
  PROVE  Paused(n) <= Paused(m)
<1>1. CASE m < 4
  <2>1. n \in {0, 1, 2, 3} /\ m \in {0, 1, 2, 3}
    BY <1>1
  <2> QED
    BY <2>1 DEF Paused
<1>2. CASE m >= 4 /\ n < 4
  <2>1. n \in {0, 1, 2, 3}
    BY <1>2
  <2> QED
    BY <1>2, <2>1 DEF Paused
<1>3. CASE m >= 4 /\ n >= 4
  BY <1>3 DEF Paused
<1> QED
  BY <1>1, <1>2, <1>3

(* A client's retries and the length of its list are numbers... *)
LEMMA Sizes ==
  /\ Retries \in Nat /\ ListLength \in Nat \ {0}
  /\ Timeout \in Nat \ {0}
BY CallAssumption DEF Retries, ListLength

(* ... which, as the client does, stay what they are. *)
LEMMA Rigid ==
  ASSUME client' = client
  PROVE  /\ Retries' = Retries /\ ListLength' = ListLength
         /\ Attempts' = Attempts /\ PerModel' = PerModel
BY DEF Retries, ListLength, Attempts, PerModel, Paused

(* No step changes the client. *)
LEMMA SameClient == [Next]_vars => client' = client
BY DEF Next, vars, Answered, FailsPassing, FailsForGood, Retry

(* The two bounds are natural numbers, given by the retries and the timeout. *)
LEMMA Bounds ==
  /\ Attempts \in Nat /\ PerModel \in Nat
  /\ Attempts = Retries + 1
  /\ PerModel = Attempts * Timeout + Paused(Retries)
BY Sizes, PausedStep DEF Attempts, PerModel

-----------------------------------------------------------------------------
(* The first request goes to the first model, as its first attempt. *)
LEMMA InitIInv == Init => IInv
BY Sizes DEF Init, IInv, TypeOK, RetryLeft

(* No step leaves the list of models or the attempts of a model. *)
LEMMA NextIInv == IInv /\ [Next]_vars => IInv'
<1> SUFFICES ASSUME IInv, [Next]_vars PROVE IInv'
  OBVIOUS
<1> USE Sizes, SameClient, Rigid DEF IInv, TypeOK, RetryLeft
<1>0. ASSUME NEW d \in Durations, Spend(d)
      PROVE  elapsed' \in Nat /\ requests' \in Nat
  BY <1>0 DEF Spend, Durations
<1>1. ASSUME NEW d \in Durations, Answered(d) PROVE IInv'
  BY <1>0, <1>1 DEF Answered
<1>2. ASSUME NEW d \in Durations, FailsPassing(d) PROVE IInv'
  BY <1>0, <1>2 DEF FailsPassing, MayRetry, GiveUpModel
<1>3. ASSUME NEW d \in Durations, FailsForGood(d) PROVE IInv'
  <2>1. passing' \in BOOLEAN
    BY <1>3, Zenon DEF FailsForGood
  <2> QED
    BY <1>0, <1>3, <2>1 DEF FailsForGood, GiveUpModel
<1>4. CASE Retry
  <2>1. elapsed' \in Nat
    BY <1>4, PausedStep DEF Retry
  <2> QED
    BY <1>4, <2>1 DEF Retry
<1>5. CASE UNCHANGED vars
  BY <1>5 DEF vars
<1> QED
  BY <1>1, <1>2, <1>3, <1>4, <1>5 DEF Next

(* The walk through the models never leaves the list and no model gets more   *)
(* than max_retries repetitions (perception.rs:51-81, client.rs:289-408).      *)
THEOREM TypeCorrect == Spec => []TypeOK
<1>1. IInv => TypeOK
  BY DEF IInv
<1> QED
  BY <1>1, InitIInv, NextIInv, PTL DEF Spec

-----------------------------------------------------------------------------
(* Every passing failure is a request, and a model is left after Attempts of them. *)
LEMMA NextCounted == IInv /\ Counted /\ [Next]_vars => Counted'
<1> SUFFICES ASSUME IInv, Counted, [Next]_vars, passing' PROVE Counted'
  BY DEF Counted
<1>0. /\ model \in 1..ListLength /\ attempt \in 0..Retries /\ requests \in Nat
      /\ ListLength \in Nat /\ Retries \in Nat
      /\ Attempts \in Nat /\ Attempts = Retries + 1 /\ Attempts' = Attempts
      /\ ListLength' = ListLength
  BY Sizes, Bounds, SameClient, Rigid DEF IInv, TypeOK
<1>1. model * Attempts = (model - 1) * Attempts + Attempts
  <2>1. model - 1 \in Nat /\ (model - 1) + 1 = model
    BY <1>0
  <2> QED
    BY <1>0, <2>1, OneMore
<1>2. ASSUME NEW d \in Durations, Answered(d) PROVE Counted'
  BY <1>2 DEF Answered, Counted
<1>3. ASSUME NEW d \in Durations, FailsPassing(d) PROVE Counted'
  <2>1. requests' = (model - 1) * Attempts + attempt + 1 /\ passing' = passing
    BY <1>3, <1>0 DEF FailsPassing, Spend, Counted
  <2>2. CASE MayRetry /\ pc' = "wait" /\ UNCHANGED <<model, attempt>>
    BY <1>0, <2>1, <2>2 DEF Counted
  <2>3. CASE ~MayRetry /\ GiveUpModel
    <3>1. requests' = model * Attempts
      BY <1>0, <1>1, <2>1, <2>3 DEF MayRetry
    <3>2. CASE model < ListLength
      BY <1>0, <2>3, <3>1, <3>2 DEF GiveUpModel, Counted
    <3>3. CASE ~(model < ListLength)
      <4>1. model = ListLength
        BY <1>0, <3>3
      <4> QED
        BY <1>0, <2>3, <3>1, <4>1 DEF GiveUpModel, Counted
    <3> QED
      BY <3>2, <3>3
  <2> QED
    BY <1>3, <2>2, <2>3 DEF FailsPassing
<1>4. ASSUME NEW d \in Durations, FailsForGood(d) PROVE Counted'
  BY <1>4 DEF FailsForGood
<1>5. CASE Retry
  BY <1>0, <1>5 DEF Retry, Counted
<1>6. CASE UNCHANGED vars
  BY <1>0, <1>6 DEF vars, Counted
<1> QED
  BY <1>2, <1>3, <1>4, <1>5, <1>6 DEF Next

(* A question that only met passing failures is given up after exactly         *)
(* models x (max_retries + 1) requests, for every configuration                *)
(* (perception.rs:51-81, client.rs:364-406).                                  *)
THEOREM GivesUpLateHolds == Spec => []GivesUpLate
<1>1. Init => Counted
  BY Bounds, Sizes DEF Init, Counted
<1>2. Counted => GivesUpLate
  BY DEF Counted, GivesUpLate
<1> QED
  BY <1>1, <1>2, InitIInv, NextIInv, NextCounted, PTL DEF Spec

-----------------------------------------------------------------------------
(* What one model may take, at the end of its last attempt or of any other. *)
LEMMA LastAttempt ==
  ASSUME NEW a \in Nat, a <= Retries
  PROVE  /\ (a + 1) * Timeout + Paused(a) <= PerModel
         /\ (a + 1) * Timeout \in Nat /\ a * Timeout \in Nat
         /\ (a + 1) * Timeout = a * Timeout + Timeout
<1>1. Timeout \in Nat /\ Retries \in Nat
  BY Sizes
<1>2. (a + 1) * Timeout <= Attempts * Timeout
  BY <1>1, Bounds, TimesMono
<1>3. Paused(a) <= Paused(Retries)
  BY <1>1, PausedMono
<1>4. (a + 1) * Timeout = a * Timeout + Timeout /\ a * Timeout \in Nat
  BY <1>1, OneMore
<1>5. Attempts * Timeout \in Nat /\ Paused(a) \in Nat /\ Paused(Retries) \in Nat
  BY <1>1, Bounds, PausedStep
<1> QED
  BY <1>1, <1>2, <1>3, <1>4, <1>5, Bounds

(* Every request and every pause stays within the time its attempt is given. *)
LEMMA NextTimed == IInv /\ Timed /\ [Next]_vars => Timed'
<1> SUFFICES ASSUME IInv, Timed, [Next]_vars PROVE Timed'
  OBVIOUS
<1> DEFINE Before == (model - 1) * PerModel
<1>0. /\ model \in Nat /\ model >= 1 /\ model <= ListLength
      /\ attempt \in Nat /\ attempt <= Retries
      /\ elapsed \in Nat /\ Timeout \in Nat /\ ListLength \in Nat /\ Retries \in Nat
      /\ PerModel \in Nat
      /\ Paused(attempt) \in Nat
      /\ Before \in Nat
      /\ model * PerModel = Before + PerModel
  <2>1. model - 1 \in Nat /\ (model - 1) + 1 = model
    BY Sizes DEF IInv, TypeOK
  <2>2. model * PerModel = Before + PerModel /\ Before \in Nat
    BY <2>1, Bounds, OneMore
  <2> QED
    BY <2>2, Sizes, Bounds, PausedStep DEF IInv, TypeOK
<1>1. /\ (attempt + 1) * Timeout = attempt * Timeout + Timeout
      /\ attempt * Timeout \in Nat /\ (attempt + 1) * Timeout \in Nat
      /\ (attempt + 1) * Timeout + Paused(attempt) <= PerModel
  BY <1>0, LastAttempt
<1>2. ASSUME NEW d \in Durations, Spend(d)
      PROVE  /\ elapsed' \in Nat
             /\ elapsed' <= Before + (attempt + 1) * Timeout + Paused(attempt)
             /\ elapsed' <= model * PerModel
  <2>1. d \in Nat /\ d <= Timeout
    BY <1>0, <1>2 DEF Durations
  <2>2. elapsed <= Before + attempt * Timeout + Paused(attempt)
    BY <1>2 DEF Spend, Timed
  <2>3. elapsed' = elapsed + d
    BY <1>2 DEF Spend
  <2> HIDE DEF Before
  <2> QED
    BY <1>0, <1>1, <2>1, <2>2, <2>3
<1>3. ASSUME NEW d \in Durations, Spend(d), GiveUpModel PROVE Timed'
  <2>1. elapsed' <= model * PerModel /\ elapsed' \in Nat
    BY <1>2, <1>3
  <2>2. CASE model < ListLength
    <3>1. model' = model + 1 /\ attempt' = 0 /\ pc' = "send"
      BY <1>3, <2>2 DEF GiveUpModel
    <3>2. (model' - 1) * PerModel = model * PerModel /\ model * PerModel \in Nat
      BY <1>0, <3>1
    <3>3. attempt' * Timeout = 0 /\ Paused(attempt)' = 0
      BY <1>0, <3>1 DEF Paused
    <3>4. PerModel' = PerModel
      BY SameClient, Rigid
    <3> QED
      BY <2>1, <3>1, <3>2, <3>3, <3>4 DEF Timed, Done
  <2>3. CASE ~(model < ListLength)
    <3>1. pc' = "failed" /\ model' = model
      BY <1>3, <2>3 DEF GiveUpModel
    <3>2. PerModel' = PerModel
      BY SameClient, Rigid
    <3> QED
      BY <2>1, <3>1, <3>2 DEF Timed, Done
  <2> QED
    BY <2>2, <2>3
<1>4. ASSUME NEW d \in Durations, Answered(d) PROVE Timed'
  <2>1. elapsed' <= model * PerModel
    BY <1>2, <1>4 DEF Answered
  <2>2. pc' = "ok" /\ model' = model /\ PerModel' = PerModel
    BY <1>4, SameClient, Rigid DEF Answered
  <2> QED
    BY <2>1, <2>2 DEF Timed, Done
<1>5. ASSUME NEW d \in Durations, FailsPassing(d) PROVE Timed'
  <2>1. Spend(d)
    BY <1>5 DEF FailsPassing
  <2>2. CASE pc' = "wait" /\ UNCHANGED <<model, attempt>>
    <3>1. elapsed' <= Before + (attempt + 1) * Timeout + Paused(attempt)
      BY <1>2, <2>1
    <3>2. PerModel' = PerModel /\ Paused(attempt)' = Paused(attempt)
      BY <2>2, SameClient, Rigid DEF Paused
    <3> QED
      BY <2>2, <3>1, <3>2 DEF Timed, Done
  <2> QED
    BY <1>3, <1>5, <2>1, <2>2 DEF FailsPassing
<1>6. ASSUME NEW d \in Durations, FailsForGood(d) PROVE Timed'
  BY <1>3, <1>6 DEF FailsForGood
<1>7. CASE Retry
  <2>1. /\ pc' = "send" /\ model' = model /\ attempt' = attempt + 1
        /\ elapsed' = elapsed + Pause(attempt)
        /\ elapsed <= Before + (attempt + 1) * Timeout + Paused(attempt)
    BY <1>7 DEF Retry, Timed
  <2>2. Paused(attempt + 1) = Paused(attempt) + Pause(attempt) /\ Pause(attempt) \in Nat
    BY <1>0, PausedStep
  <2>3. elapsed' <= Before + (attempt + 1) * Timeout + Paused(attempt + 1)
    <3> HIDE DEF Before
    <3> QED
      BY <1>0, <1>1, <2>1, <2>2
  <2>4. PerModel' = PerModel /\ Paused(attempt)' = Paused(attempt + 1)
    BY <2>1, SameClient, Rigid DEF Paused
  <2> QED
    BY <2>1, <2>3, <2>4 DEF Timed, Done
<1>8. CASE UNCHANGED vars
  BY <1>8, SameClient, Rigid DEF vars, Timed, Done, Paused
<1> QED
  BY <1>4, <1>5, <1>6, <1>7, <1>8 DEF Next

(* However the models fail, the question never takes longer than the timeouts  *)
(* and the pauses of every attempt of every model, for every configuration     *)
(* (perception.rs:51-81, client.rs:412-416).                                  *)
THEOREM LongestCallHolds == Spec => []LongestCall
<1>1. Init => Timed
  <2> SUFFICES ASSUME Init PROVE Timed
    OBVIOUS
  <2>1. Paused(0) = 0 /\ PerModel \in Nat /\ Timeout \in Nat
    BY Bounds, Sizes DEF Paused
  <2>2. (1 - 1) * PerModel + 0 * Timeout + Paused(0) = 0
    BY <2>1
  <2> QED
    BY <2>2 DEF Init, Timed, Done
<1>2. IInv /\ Timed => LongestCall
  <2> SUFFICES ASSUME IInv, Timed PROVE elapsed <= ListLength * PerModel
    BY DEF LongestCall
  <2>1. /\ model \in Nat /\ model >= 1 /\ model <= ListLength /\ ListLength \in Nat
        /\ attempt \in Nat /\ attempt <= Retries /\ elapsed \in Nat
        /\ Timeout \in Nat /\ PerModel \in Nat
    BY Sizes, Bounds DEF IInv, TypeOK
  <2>2. model * PerModel <= ListLength * PerModel /\ ListLength * PerModel \in Nat
    BY <2>1, TimesMono
  <2>3. /\ (model - 1) * PerModel \in Nat
        /\ model * PerModel = (model - 1) * PerModel + PerModel
    <3>1. model - 1 \in Nat /\ (model - 1) + 1 = model
      BY <2>1
    <3> QED
      BY <2>1, <3>1, OneMore
  <2>4. /\ (attempt + 1) * Timeout + Paused(attempt) <= PerModel
        /\ (attempt + 1) * Timeout \in Nat /\ attempt * Timeout \in Nat
        /\ (attempt + 1) * Timeout = attempt * Timeout + Timeout
        /\ Paused(attempt) \in Nat
    BY <2>1, LastAttempt, PausedStep
  <2>5. CASE pc = "send"
    <3>1. elapsed <= (model - 1) * PerModel + attempt * Timeout + Paused(attempt)
      BY <2>5 DEF Timed
    <3> QED
      BY <2>1, <2>2, <2>3, <2>4, <3>1
  <2>6. CASE pc = "wait"
    <3>1. elapsed <= (model - 1) * PerModel + (attempt + 1) * Timeout + Paused(attempt)
      BY <2>6 DEF Timed
    <3> QED
      BY <2>1, <2>2, <2>3, <2>4, <3>1
  <2>7. CASE Done
    <3>1. elapsed <= model * PerModel
      BY <2>7 DEF Timed
    <3> QED
      BY <2>1, <2>2, <2>3, <3>1
  <2> QED
    BY <2>5, <2>6, <2>7 DEF IInv, TypeOK, Done
<1> QED
  BY <1>1, <1>2, InitIInv, NextIInv, NextTimed, PTL DEF Spec
=============================================================================
